------------------------------ MODULE Transfer ------------------------------
(***************************************************************************)
(* Moving a command's data between host memory and the storage area        *)
(* (io.c): __do_perform_io copies piece by piece with memcpy,              *)
(* __do_perform_io_using_dma first gathers all addresses and then submits  *)
(* one DMA transfer per run of contiguous pages.                           *)
(*                                                                         *)
(* Where a command's data lies in host memory is told by PRP entries: prp1 *)
(* may point into the middle of a page, everything behind is page aligned; *)
(* prp2 is the second page or, if there are more, the address of a list.   *)
(* One iteration of a loop is one step.  Each worker serves one command;   *)
(* the workers share the static array paddr_list.                          *)
(*                                                                         *)
(* An address is the frame number times PAGE_SIZE plus the offset, counted *)
(* in logical blocks, the smallest piece that matters.                     *)
(***************************************************************************)
EXTENDS Integers, Sequences, FiniteSets

CONSTANTS
  PAGE_SIZE,    \* logical blocks per memory page
  Workers,
  Loads,        \* what the workers may have to serve at once: a command for each
  Sectors,      \* the storage area
  Addrs         \* host memory

ASSUME PageAssumption == PAGE_SIZE \in Nat \ {0}
(* The reference: where block i of a command's buffer lies in host memory.   *)
BufferAddr(c, i) ==
  c.frames[(c.off + i) \div PAGE_SIZE + 1] * PAGE_SIZE + ((c.off + i) % PAGE_SIZE)

Blocks(c) == 0 .. c.len - 1

(* A command as the host builds it: frames of its buffer, offset in the     *)
(* first one, length.                                                       *)
CmdAssumption ==
  \A load \in Loads : \A w \in Workers : LET c == load[w] IN
    /\ c.op \in {"write", "read", "other"} /\ c.off \in 0 .. PAGE_SIZE - 1
    /\ c.len \in Nat \ {0} /\ c.slba \in Nat /\ c.frames \in Seq(Nat)
    /\ Len(c.frames) * PAGE_SIZE >= c.off + c.len
    /\ \A i \in Blocks(c) : c.slba + i \in Sectors /\ BufferAddr(c, i) \in Addrs

(* The host waits for a command before it sends another that reads what it  *)
(* writes; apart from that its commands may overlap.                        *)
ApartAssumption ==
  \A load \in Loads : \A w, u \in Workers : LET c == load[w]  e == load[u] IN
    c.op = "write" /\ e.op = "read" =>
      \A i \in Blocks(c) : \A j \in Blocks(e) :
        c.slba + i # e.slba + j /\ BufferAddr(c, i) # BufferAddr(e, j)

ASSUME PlacesAssumption == Sectors \subseteq Nat /\ Addrs \subseteq Nat
ASSUME LoadAssumption == CmdAssumption /\ ApartAssumption

VARIABLES
  storage, mem,  \* what each block holds: the block whose content came there
  using_dma,     \* io_using_dma, a module parameter
  cmd,           \* the commands being served
  walk,          \* the local variables of each worker's loop
  paddr_list,    \* static: the addresses gathered for the DMA engine
  shared,        \* history: two workers have used paddr_list at once
  failed         \* history: the DMA engine has failed

vars == <<storage, mem, using_dma, cmd, walk, paddr_list, shared, failed>>

Least(a, b) == IF a <= b THEN a ELSE b

(* The PRP entries of a command: prp1, prp2, and the list.                  *)
NrPages(c) == (c.off + c.len + PAGE_SIZE - 1) \div PAGE_SIZE
prp1(c) == c.frames[1] * PAGE_SIZE + c.off
List(c) == IF NrPages(c) > 2 THEN [i \in 1 .. NrPages(c) - 1 |-> c.frames[i + 1] * PAGE_SIZE]
           ELSE <<>>
prp2(c) == IF NrPages(c) = 2 THEN c.frames[2] * PAGE_SIZE ELSE 0

(* Reading behind the end of the list finds anything; 0 stands for it.      *)
ListEntry(c, i) == IF i <= Len(List(c)) THEN List(c)[i] ELSE 0

StartOf(c) ==
  [pc |-> IF using_dma THEN "gather" ELSE "copy", prp_offs |-> 0, prp2_offs |-> 0,
   in_list |-> FALSE, remaining |-> c.len, offset |-> c.slba, num_prps |-> 0]

Init ==
  /\ storage = [s \in Sectors |-> <<"storage", s>>]
  /\ mem = [a \in Addrs |-> <<"mem", a>>]
  /\ using_dma \in BOOLEAN
  /\ cmd \in Loads
  /\ walk = [w \in Workers |-> [StartOf(cmd[w]) EXCEPT !.pc = "idle"]]
  /\ paddr_list = <<>>
  /\ shared = FALSE /\ failed = FALSE

-----------------------------------------------------------------------------

(* io_size: what is left, but not across the end of the page.               *)
PieceAt(paddr, remaining) ==
  Least(Least(remaining, PAGE_SIZE), PAGE_SIZE - (paddr % PAGE_SIZE))

(* Faulty variant: a list is expected whenever there is a second page.      *)
ListBeginsEarly(v) == v.prp_offs = 1

(* The second PRP entry is a list if more than one page is left.            *)
ListBegins(v) == v.prp_offs = 1 /\ v.remaining > PAGE_SIZE

(* The loop variables after the next PRP entry has been fetched.            *)
NextPrp(c, v) ==
  LET in_list == v.in_list \/ ListBegins(v)
  IN  [v EXCEPT !.prp_offs = @ + 1, !.in_list = in_list,
                !.prp2_offs = IF in_list THEN @ + 1 ELSE @]

(* The address it gives.                                                    *)
Paddr(c, v) ==
  CASE v.in_list -> ListEntry(c, v.prp2_offs)
    [] v.prp_offs = 1 -> prp1(c)
    [] v.prp_offs = 2 /\ ~v.in_list -> prp2(c)
    [] OTHER -> 0

(* memcpy or DMA between paddr and the storage at offset; commands other    *)
(* than reads and writes move nothing.                                      *)
Move(op, paddr, offset, size) ==
  /\ storage' = IF op = "write"
                THEN [s \in Sectors |-> IF s \in offset .. offset + size - 1
                                        THEN mem[paddr + s - offset] ELSE storage[s]]
                ELSE storage
  /\ mem' = IF op = "read"
            THEN [a \in Addrs |-> IF a \in paddr .. paddr + size - 1
                                  THEN storage[offset + a - paddr] ELSE mem[a]]
            ELSE mem

(* A loop that has moved everything ends.                                   *)
Moved(v, size, goon) ==
  [v EXCEPT !.remaining = @ - size, !.offset = @ + size,
            !.pc = IF v.remaining = size THEN "done" ELSE goon]

(* __do_perform_io, one iteration of its loop.                              *)
CopyPiece(w) ==
  LET v == NextPrp(cmd[w], walk[w])
      paddr == Paddr(cmd[w], v)
      io_size == PieceAt(paddr, v.remaining)
  IN  /\ walk[w].pc = "copy"
      /\ Move(cmd[w].op, paddr, v.offset, io_size)
      /\ walk' = [walk EXCEPT ![w] = Moved(v, io_size, "copy")]
      /\ UNCHANGED <<using_dma, cmd, paddr_list, shared, failed>>

InDma(w) == walk[w].pc \in {"gather", "transfer"}

(* The call; the DMA variant starts with memset(paddr_list, 0).             *)
Begin(w) ==
  /\ walk[w].pc = "idle"
  /\ walk' = [walk EXCEPT ![w] = StartOf(cmd[w])]
  /\ paddr_list' = IF using_dma THEN <<>> ELSE paddr_list
  /\ shared' = (shared \/ (using_dma /\ \E u \in Workers : InDma(u)))
  /\ UNCHANGED <<storage, mem, using_dma, cmd, failed>>

(* The array as far as it has been filled: entries behind are 0.            *)
EntryAt(i) == IF i \in DOMAIN paddr_list THEN paddr_list[i] ELSE 0
Filled(i, paddr) ==
  [j \in 1 .. (IF i > Len(paddr_list) THEN i ELSE Len(paddr_list)) |->
     IF j = i THEN paddr ELSE EntryAt(j)]

(* "Loop to get the PRP list"; behind the last one the transfer begins.     *)
GatherPrp(w) ==
  LET v == NextPrp(cmd[w], walk[w])
      paddr == Paddr(cmd[w], v)
      io_size == PieceAt(paddr, v.remaining)
  IN  /\ walk[w].pc = "gather"
      /\ paddr_list' = Filled(v.prp_offs, paddr)
      /\ walk' = [walk EXCEPT ![w] =
            IF v.remaining > io_size THEN [v EXCEPT !.remaining = @ - io_size]
            ELSE [v EXCEPT !.pc = "transfer", !.remaining = cmd[w].len,
                           !.num_prps = v.prp_offs, !.prp_offs = 1]]
      /\ UNCHANGED <<storage, mem, using_dma, cmd, shared, failed>>

(* Faulty variant: the last page of a run is left out of the comparison.    *)
ContiguousUnlessEarlier(i, j) == \A k \in i + 1 .. j - 1 : EntryAt(k) = EntryAt(k - 1) + PAGE_SIZE

(* The entries from i to j follow each other in memory.                     *)
Contiguous(i, j) == \A k \in i + 1 .. j : EntryAt(k) = EntryAt(k - 1) + PAGE_SIZE

RunEnd(i, num_prps) ==
  CHOOSE j \in i .. num_prps : /\ Contiguous(i, j)
                               /\ j = num_prps \/ ~Contiguous(i, j + 1)

(* ioat_dma_submit waits for the engine, which may fail; nobody looks at    *)
(* what it returns.                                                         *)
ioat_dma_submit(op, paddr, offset, size) ==
  \/ Move(op, paddr, offset, size) /\ UNCHANGED failed
  \/ op # "other" /\ failed' = TRUE /\ UNCHANGED <<storage, mem>>

(* "Loop for data transfer": one run of contiguous pages.                   *)
TransferRun(w) ==
  LET v == walk[w]
      paddr == EntryAt(v.prp_offs)
      last == IF v.prp_offs <= v.num_prps THEN RunEnd(v.prp_offs, v.num_prps)
              ELSE v.prp_offs
      page_size == PieceAt(paddr, v.remaining) + (last - v.prp_offs) * PAGE_SIZE
      io_size == Least(v.remaining, page_size)
  IN  /\ v.pc = "transfer"
      /\ ioat_dma_submit(cmd[w].op, paddr, v.offset, io_size)
      /\ walk' = [walk EXCEPT ![w] = [Moved(v, io_size, "transfer") EXCEPT !.prp_offs = last + 1]]
      /\ UNCHANGED <<using_dma, cmd, paddr_list, shared>>

Next == \E w \in Workers : Begin(w) \/ CopyPiece(w) \/ GatherPrp(w) \/ TransferRun(w)

Spec == Init /\ [][Next]_vars

-----------------------------------------------------------------------------
(* Properties.                                                              *)

(* How many blocks a worker has moved.                                      *)
MovedBy(w) == walk[w].offset - cmd[w].slba
Done(w) == 0 .. MovedBy(w) - 1
BufferSoFar(w) == {BufferAddr(cmd[w], i) : i \in Done(w)}

(* The blocks moved so far are the first ones of their command, each at its *)
(* place, and nothing else has changed in the storage area or in host       *)
(* memory: with any offset, length and arrangement of pages, with and       *)
(* without DMA, unless two workers have used the one paddr_list at once or  *)
(* the engine has failed.                                                   *)
TransferExact ==
  ~shared /\ ~failed =>
    /\ \A s \in Sectors :
         LET writers == {w \in Workers : cmd[w].op = "write" /\ s - cmd[w].slba \in Done(w)}
         IN  IF writers = {} THEN storage[s] = <<"storage", s>>
             ELSE \E w \in writers :
                    storage[s] = <<"mem", BufferAddr(cmd[w], s - cmd[w].slba)>>
    /\ \A a \in Addrs :
         LET readers == {w \in Workers : cmd[w].op = "read" /\ a \in BufferSoFar(w)}
         IN  IF readers = {} THEN mem[a] = <<"mem", a>>
             ELSE \E w \in readers : \E i \in Done(w) :
                    /\ BufferAddr(cmd[w], i) = a
                    /\ mem[a] = <<"storage", cmd[w].slba + i>>

(* A transfer that ends has moved exactly the command's length, and no entry *)
(* behind the end of the host's PRP list is read on the way.                *)
WalkStaysInList ==
  \A w \in Workers : /\ walk[w].prp2_offs <= Len(List(cmd[w]))
                     /\ walk[w].remaining >= 0
                     /\ walk[w].pc = "done" /\ ~shared => MovedBy(w) = cmd[w].len
=============================================================================
