-------------------------- MODULE Transfer_proofs --------------------------
(***************************************************************************)
(* What holds of the data transfer for every page size, any number of      *)
(* workers and any commands.                                               *)
(***************************************************************************)
EXTENDS Transfer, WellFoundedInduction, TLAPS

(* A command as CmdAssumption has it.                                       *)
ValidCmd(c) ==
  /\ c.op \in {"write", "read", "other"} /\ c.off \in 0 .. PAGE_SIZE - 1
  /\ c.len \in Nat \ {0} /\ c.slba \in Nat /\ c.frames \in Seq(Nat)
  /\ Len(c.frames) * PAGE_SIZE >= c.off + c.len
  /\ \A i \in Blocks(c) : c.slba + i \in Sectors /\ BufferAddr(c, i) \in Addrs

(* The k-th address that a command's PRP entries give.                      *)
Entry(c, k) == c.frames[k] * PAGE_SIZE + (IF k = 1 THEN c.off ELSE 0)

(* m blocks of the command lie in its first k pages, and fill them.         *)
AtEntry(c, k, m) == IF k = 0 THEN m = 0 ELSE c.off + m = k * PAGE_SIZE

WalkType ==
  [pc : {"idle", "copy", "gather", "transfer", "done"}, prp_offs : Nat, prp2_offs : Nat,
   in_list : BOOLEAN, remaining : Nat, offset : Nat, num_prps : Nat]

TypeOK ==
  /\ cmd \in Loads
  /\ using_dma \in BOOLEAN /\ shared \in BOOLEAN /\ failed \in BOOLEAN
  /\ walk \in [Workers -> WalkType]
  /\ paddr_list \in Seq(Nat)

(* The loops over the PRP entries: as many pages are behind as entries.     *)
Fetching(c, v) ==
  /\ v.remaining \in 1 .. c.len
  /\ AtEntry(c, v.prp_offs, c.len - v.remaining)
  /\ v.in_list <=> v.prp_offs >= 2 /\ NrPages(c) > 2
  /\ v.prp2_offs = IF v.in_list THEN v.prp_offs - 1 ELSE 0

WalkInv(c, v) ==
  /\ v.prp2_offs <= Len(List(c))
  /\ v.remaining <= c.len
  /\ v.pc = "idle" => v.remaining = c.len
  /\ v.pc \in {"copy", "gather"} => Fetching(c, v)
  /\ v.pc = "transfer" => v.remaining > 0 /\ v.prp_offs > 0
  /\ v.pc = "done" => v.remaining = 0
  /\ v.offset = IF v.pc = "gather" THEN c.slba ELSE c.slba + (c.len - v.remaining)

(* The first n entries of the array are the command's.                      *)
Gathered(c, n) == Len(paddr_list) = n /\ \A k \in 1 .. n : paddr_list[k] = Entry(c, k)

DmaInv ==
  ~shared =>
    /\ \A w, u \in Workers : InDma(w) /\ InDma(u) => w = u
    /\ \A w \in Workers :
         /\ walk[w].pc = "gather" => Gathered(cmd[w], walk[w].prp_offs)
         /\ walk[w].pc = "transfer" =>
              /\ walk[w].num_prps = NrPages(cmd[w])
              /\ Gathered(cmd[w], walk[w].num_prps)
              /\ walk[w].prp_offs \in 1 .. walk[w].num_prps
              /\ AtEntry(cmd[w], walk[w].prp_offs - 1, cmd[w].len - walk[w].remaining)

(* The inductive invariant.                                                 *)
IInv ==
  /\ TypeOK
  /\ \A w \in Workers : WalkInv(cmd[w], walk[w])
  /\ DmaInv
  /\ storage = [s \in Sectors |-> storage[s]] /\ mem = [a \in Addrs |-> mem[a]]
  /\ TransferExact
-----------------------------------------------------------------------------
(* Arithmetic.                                                              *)

(* A quotient and a remainder, and the only ones.                           *)
LEMMA Euclid ==
  ASSUME NEW a \in Nat, NEW k \in Nat \ {0}
  PROVE  /\ a \div k \in Nat /\ a % k \in 0 .. k - 1
         /\ a = k * (a \div k) + (a % k)
<1>1. a \div k \in Nat
  OBVIOUS
<1>2. a % k \in 0 .. k - 1
  OBVIOUS
<1>3. a = k * (a \div k) + (a % k)
  OBVIOUS
<1> QED
  BY <1>1, <1>2, <1>3

LEMMA EuclidUnique ==
  ASSUME NEW k \in Nat \ {0}, NEW q \in Nat, NEW r \in 0 .. k - 1
  PROVE  (q * k + r) \div k = q /\ (q * k + r) % k = r
<1> DEFINE a == q * k + r
<1>1. a \in Nat
  OBVIOUS
<1>2. PICK d, e : d = a \div k /\ e = a % k
  OBVIOUS
<1>3. d \in Nat /\ e \in 0 .. k - 1 /\ a = k * d + e
  BY <1>1, <1>2, Euclid
<1>4. k * (d - q) = r - e
  BY <1>3
<1>5. ~(d > q)
  <2> SUFFICES ASSUME d > q PROVE FALSE
    OBVIOUS
  <2>1. d - q - 1 \in Nat
    BY <1>3
  <2>2. k * (d - q - 1) \in Nat
    BY <2>1
  <2>3. k * (d - q - 1) = r - e - k
    BY <1>3, <1>4
  <2> QED
    BY <1>3, <2>2, <2>3
<1>6. ~(d < q)
  <2> SUFFICES ASSUME d < q PROVE FALSE
    OBVIOUS
  <2>1. q - d - 1 \in Nat
    BY <1>3
  <2>2. k * (q - d - 1) \in Nat
    BY <2>1
  <2>3. k * (q - d - 1) = e - r - k
    BY <1>3, <1>4
  <2> QED
    BY <1>3, <2>2, <2>3
<1>7. d = q
  BY <1>3, <1>5, <1>6
<1> QED
  BY <1>2, <1>3, <1>7

(* Multiples of the page size are ordered like their factors.               *)
LEMMA MultOrder ==
  ASSUME NEW a \in Nat, NEW b \in Nat
  PROVE  /\ a * PAGE_SIZE \in Nat
         /\ (a + 1) * PAGE_SIZE = a * PAGE_SIZE + PAGE_SIZE
         /\ a <= b <=> a * PAGE_SIZE <= b * PAGE_SIZE
<1>1. a * PAGE_SIZE \in Nat /\ (a + 1) * PAGE_SIZE = a * PAGE_SIZE + PAGE_SIZE
  BY PageAssumption
<1>2. ASSUME a <= b PROVE a * PAGE_SIZE <= b * PAGE_SIZE
  <2>1. (b - a) * PAGE_SIZE \in Nat
    BY <1>2, PageAssumption
  <2> QED
    BY <2>1, PageAssumption
<1>3. ASSUME ~(a <= b) PROVE ~(a * PAGE_SIZE <= b * PAGE_SIZE)
  <2>1. (a - b - 1) * PAGE_SIZE \in Nat
    BY <1>3, PageAssumption
  <2>2. (a - b - 1) * PAGE_SIZE = a * PAGE_SIZE - b * PAGE_SIZE - PAGE_SIZE
    BY PageAssumption
  <2> QED
    BY <2>1, <2>2, PageAssumption
<1> QED
  BY <1>1, <1>2, <1>3

(* A set of natural numbers has a least one.                                *)
LEMMA LeastElement ==
  ASSUME NEW S \in SUBSET Nat, S # {}
  PROVE  \E n \in S : \A i \in S : n <= i
<1>1. PICK n \in S : \A i \in S : <<i, n>> \notin OpToRel(<, Nat)
  BY NatLessThanWellFounded, WFMin
<1>2. \A i \in S : ~(i < n)
  BY <1>1, Zenon DEF OpToRel
<1> QED
  BY <1>2

-----------------------------------------------------------------------------
(* Commands and their PRP entries.                                          *)

(* NrPages counts the pages that hold the buffer.                           *)
LEMMA PagesCover ==
  ASSUME NEW c, ValidCmd(c)
  PROVE  /\ NrPages(c) \in Nat \ {0} /\ NrPages(c) <= Len(c.frames)
         /\ c.off + c.len <= NrPages(c) * PAGE_SIZE
         /\ (NrPages(c) - 1) * PAGE_SIZE < c.off + c.len
<1> DEFINE a == c.off + c.len + PAGE_SIZE - 1
<1>1. /\ c.off \in Nat /\ c.len \in Nat \ {0} /\ PAGE_SIZE \in Nat \ {0}
      /\ a \in Nat /\ a >= PAGE_SIZE /\ Len(c.frames) \in Nat
      /\ Len(c.frames) * PAGE_SIZE >= c.off + c.len
  BY PageAssumption DEF ValidCmd
<1>2. PICK q, r : q = a \div PAGE_SIZE /\ r = a % PAGE_SIZE
  OBVIOUS
<1>3. q \in Nat /\ r \in 0 .. PAGE_SIZE - 1 /\ a = PAGE_SIZE * q + r
  BY <1>1, <1>2, Euclid
<1>4. q # 0
  BY <1>1, <1>3
<1>5. /\ q * PAGE_SIZE \in Nat /\ (q - 1) * PAGE_SIZE = q * PAGE_SIZE - PAGE_SIZE
      /\ a = q * PAGE_SIZE + r
  BY <1>1, <1>3
<1>6. c.off + c.len <= q * PAGE_SIZE /\ (q - 1) * PAGE_SIZE < c.off + c.len
  BY <1>1, <1>3, <1>5
<1>7. q - 1 \in Nat /\ q - 1 < Len(c.frames)
  <2>1. q - 1 \in Nat
    BY <1>3, <1>4
  <2>2. PICK p \in Nat, l \in Nat : p = q - 1 /\ l = Len(c.frames)
    BY <1>1, <2>1
  <2>3. l <= p => l * PAGE_SIZE <= p * PAGE_SIZE
    BY MultOrder
  <2>4. p * PAGE_SIZE < l * PAGE_SIZE /\ p * PAGE_SIZE \in Nat /\ l * PAGE_SIZE \in Nat
    <3>1. l * PAGE_SIZE >= c.off + c.len /\ p * PAGE_SIZE < c.off + c.len
      BY <1>1, <1>6, <2>2
    <3>2. p * PAGE_SIZE \in Nat /\ l * PAGE_SIZE \in Nat
      BY MultOrder
    <3> QED
      BY <1>1, <3>1, <3>2, SMTT(30)
  <2> QED
    BY <1>1, <2>1, <2>2, <2>3, <2>4
<1>8. NrPages(c) = q
  BY <1>2 DEF NrPages
<1> QED
  BY <1>1, <1>3, <1>4, <1>6, <1>7, <1>8

(* The list has one entry for each page but the first, if there are more    *)
(* than two.                                                                *)
LEMMA ListEntries ==
  ASSUME NEW c, ValidCmd(c)
  PROVE  /\ Len(List(c)) = IF NrPages(c) > 2 THEN NrPages(c) - 1 ELSE 0
         /\ NrPages(c) > 2 => \A i \in 1 .. NrPages(c) - 1 :
                                List(c)[i] = c.frames[i + 1] * PAGE_SIZE
<1>1. NrPages(c) \in Nat \ {0}
  BY PagesCover
<1>2. CASE NrPages(c) > 2
  <2>1. PICK n \in Nat : n = NrPages(c) - 1
    BY <1>1, <1>2
  <2>2. List(c) = [i \in 1 .. n |-> c.frames[i + 1] * PAGE_SIZE]
    BY <1>2, <2>1 DEF List
  <2>3. Len(List(c)) = n
    BY <2>1, <2>2
  <2> QED
    BY <1>2, <2>1, <2>2, <2>3
<1>3. CASE ~(NrPages(c) > 2)
  BY <1>3 DEF List
<1> QED
  BY <1>2, <1>3

(* What a command's entry is: a place in one of its pages.                  *)
LEMMA EntryPlace ==
  ASSUME NEW c, ValidCmd(c), NEW k \in 1 .. NrPages(c)
  PROVE  /\ c.frames[k] \in Nat /\ Entry(c, k) \in Nat
         /\ Entry(c, k) % PAGE_SIZE = IF k = 1 THEN c.off ELSE 0
<1>1. k \in 1 .. Len(c.frames)
  BY PagesCover DEF ValidCmd
<1>2. c.frames[k] \in Nat
  BY <1>1 DEF ValidCmd
<1>3. PICK f \in Nat, o \in 0 .. PAGE_SIZE - 1 : f = c.frames[k] /\ o = IF k = 1 THEN c.off ELSE 0
  BY <1>2, PageAssumption DEF ValidCmd
<1>4. Entry(c, k) = f * PAGE_SIZE + o
  BY <1>3 DEF Entry
<1>5. (f * PAGE_SIZE + o) % PAGE_SIZE = o
  BY <1>3, PageAssumption, EuclidUnique
<1>6. f * PAGE_SIZE + o \in Nat
  BY <1>3, PageAssumption
<1> QED
  BY <1>2, <1>3, <1>4, <1>5, <1>6

(* A block of the buffer by page and place in it.                           *)
LEMMA BlockPlace ==
  ASSUME NEW c, NEW i, NEW q \in Nat, NEW r \in 0 .. PAGE_SIZE - 1,
         c.off + i = q * PAGE_SIZE + r
  PROVE  BufferAddr(c, i) = c.frames[q + 1] * PAGE_SIZE + r
<1>1. (q * PAGE_SIZE + r) \div PAGE_SIZE = q /\ (q * PAGE_SIZE + r) % PAGE_SIZE = r
  BY PageAssumption, EuclidUnique
<1> QED
  BY <1>1 DEF BufferAddr

(* The next entry a loop fetches is the next one of the command, and it is  *)
(* there.                                                                   *)
LEMMA FetchNext ==
  ASSUME NEW c, ValidCmd(c), NEW v \in WalkType, Fetching(c, v)
  PROVE  LET n == NextPrp(c, v) IN
         /\ n \in WalkType /\ n.prp_offs = v.prp_offs + 1 /\ n.prp_offs <= NrPages(c)
         /\ n.remaining = v.remaining /\ n.offset = v.offset /\ n.pc = v.pc
         /\ n.num_prps = v.num_prps
         /\ n.in_list <=> n.prp_offs >= 2 /\ NrPages(c) > 2
         /\ n.prp2_offs = IF n.in_list THEN n.prp_offs - 1 ELSE 0
         /\ n.prp2_offs <= Len(List(c))
         /\ Paddr(c, n) = Entry(c, n.prp_offs)
<1> DEFINE n == NextPrp(c, v)
           k == v.prp_offs
           N == NrPages(c)
<1>1. /\ k \in Nat /\ v.in_list \in BOOLEAN /\ v.prp2_offs \in Nat /\ v.remaining \in Nat
      /\ c.len \in Nat \ {0} /\ c.off \in 0 .. PAGE_SIZE - 1 /\ v.remaining \in 1 .. c.len
      /\ PAGE_SIZE \in Nat \ {0} /\ N \in Nat \ {0}
  BY PageAssumption, PagesCover DEF WalkType, ValidCmd, Fetching
<1>2. k < N
  <2>1. k * PAGE_SIZE < c.off + c.len
    BY <1>1 DEF Fetching, AtEntry
  <2>2. c.off + c.len <= N * PAGE_SIZE
    BY PagesCover
  <2>3. k * PAGE_SIZE \in Nat /\ N * PAGE_SIZE \in Nat /\ (N <= k => N * PAGE_SIZE <= k * PAGE_SIZE)
    BY <1>1, MultOrder
  <2> QED
    BY <1>1, <2>1, <2>2, <2>3
<1>3. k = 1 => (v.remaining > PAGE_SIZE <=> N > 2)
  <2> SUFFICES ASSUME k = 1 PROVE v.remaining > PAGE_SIZE <=> N > 2
    OBVIOUS
  <2>1. c.off + c.len = PAGE_SIZE + v.remaining
    BY <1>1 DEF Fetching, AtEntry
  <2>2. c.off + c.len <= N * PAGE_SIZE /\ (N - 1) * PAGE_SIZE < c.off + c.len
    BY PagesCover
  <2>3. N <= 2 => N * PAGE_SIZE <= 2 * PAGE_SIZE
    BY <1>1, MultOrder
  <2>4. 2 <= N - 1 => 2 * PAGE_SIZE <= (N - 1) * PAGE_SIZE
    BY <1>1, MultOrder
  <2>5. N * PAGE_SIZE \in Nat /\ (N - 1) * PAGE_SIZE \in Nat
    BY <1>1
  <2> QED
    BY <1>1, <2>1, <2>2, <2>3, <2>4, <2>5
<1>4. PICK b \in BOOLEAN : b <=> v.in_list \/ ListBegins(v)
  BY Zenon
<1>5. /\ n.prp_offs = k + 1 /\ n.remaining = v.remaining /\ n.offset = v.offset /\ n.pc = v.pc
      /\ n.num_prps = v.num_prps /\ n.in_list = b
      /\ n.prp2_offs = IF b THEN v.prp2_offs + 1 ELSE v.prp2_offs
      /\ n \in WalkType
  <2>1. n = [v EXCEPT !.prp_offs = k + 1, !.in_list = b,
                      !.prp2_offs = IF b THEN v.prp2_offs + 1 ELSE v.prp2_offs]
    <3>1. (v.in_list \/ ListBegins(v)) = b
      BY <1>4, Zenon
    <3> QED
      BY <3>1, Zenon DEF NextPrp
  <2>2. PICK p2 \in Nat, k1 \in Nat : /\ p2 = (IF b THEN v.prp2_offs + 1 ELSE v.prp2_offs)
                                     /\ k1 = k + 1
    BY <1>1
  <2>3. n = [v EXCEPT !.prp_offs = k1, !.in_list = b, !.prp2_offs = p2]
    BY <2>1, <2>2, Zenon
  <2> HIDE DEF n, k
  <2>4. /\ n.prp_offs = k1 /\ n.in_list = b /\ n.prp2_offs = p2 /\ n.remaining = v.remaining
        /\ n.offset = v.offset /\ n.pc = v.pc /\ n.num_prps = v.num_prps /\ n \in WalkType
    BY <2>3 DEF WalkType
  <2> QED
    BY <2>2, <2>4
<1>6. /\ n.in_list <=> n.prp_offs >= 2 /\ N > 2
      /\ n.prp2_offs = IF n.in_list THEN n.prp_offs - 1 ELSE 0
  <2>1. b <=> k + 1 >= 2 /\ N > 2
    <3>1. v.in_list <=> k >= 2 /\ N > 2
      BY DEF Fetching
    <3>2. ListBegins(v) <=> k = 1 /\ N > 2
      BY <1>3 DEF ListBegins
    <3> QED
      BY <1>1, <1>4, <3>1, <3>2
  <2>2. b => (IF b THEN v.prp2_offs + 1 ELSE v.prp2_offs) = k
    <3>1. v.prp2_offs = IF v.in_list THEN k - 1 ELSE 0
      BY DEF Fetching
    <3>2. ListBegins(v) => k = 1
      BY DEF ListBegins
    <3>3. v.in_list <=> k >= 2 /\ N > 2
      BY DEF Fetching
    <3> QED
      BY <1>1, <1>4, <3>1, <3>2, <3>3
  <2>3. ~b => v.prp2_offs = 0
    <3>1. v.prp2_offs = IF v.in_list THEN k - 1 ELSE 0
      BY DEF Fetching
    <3> QED
      BY <1>4, <3>1
  <2> HIDE DEF n, N, k
  <2>4. n.in_list <=> n.prp_offs >= 2 /\ N > 2
    BY <1>5, <2>1
  <2>5. n.prp2_offs = IF n.in_list THEN n.prp_offs - 1 ELSE 0
    BY <1>1, <1>5, <2>2, <2>3
  <2> QED
    BY <2>4, <2>5
<1>7. n.prp2_offs <= Len(List(c))
  <2> HIDE DEF n, N, k
  <2>1. Len(List(c)) = IF N > 2 THEN N - 1 ELSE 0
    BY ListEntries DEF N
  <2> QED
    BY <1>1, <1>2, <1>5, <1>6, <2>1
<1>8. Paddr(c, n) = Entry(c, k + 1)
  <2>1. k + 1 \in 1 .. N
    BY <1>1, <1>2
  <2>2. CASE n.in_list
    <3>1. n.prp2_offs = k /\ k \in 1 .. N - 1 /\ N > 2
      BY <1>1, <1>2, <1>5, <1>6, <2>2
    <3>2. ListEntry(c, k) = c.frames[k + 1] * PAGE_SIZE
      BY <1>1, <3>1, ListEntries DEF ListEntry
    <3>3. c.frames[k + 1] * PAGE_SIZE = Entry(c, k + 1)
      BY <1>1, <2>1, <3>1, EntryPlace DEF Entry
    <3> QED
      <4>1. n.in_list /\ n.prp_offs # 1
        BY <1>1, <1>5, <2>2, <3>1
      <4> HIDE DEF n, k, N
      <4>2. Paddr(c, n) = ListEntry(c, k)
        BY <3>1, <4>1 DEF Paddr
      <4> QED
        BY <3>2, <3>3, <4>2
  <2>3. CASE ~n.in_list /\ k = 0
    <3>1. n.prp_offs = 1 /\ k + 1 = 1
      BY <1>5, <2>3
    <3>2. Paddr(c, n) = prp1(c)
      <4> HIDE DEF n, k, N
      <4> QED
        BY <2>3, <3>1 DEF Paddr
    <3> QED
      BY <2>3, <3>1, <3>2 DEF prp1, Entry
  <2>4. CASE ~n.in_list /\ k # 0
    <3>1. k = 1 /\ N = 2 /\ n.prp_offs = 2
      <4> HIDE DEF n, k, N
      <4> QED
        BY <1>1, <1>2, <1>5, <1>6, <2>4
    <3>2. prp2(c) = Entry(c, 2)
      <4>1. c.frames[2] \in Nat
        BY <2>1, <3>1, EntryPlace
      <4> QED
        BY <3>1, <4>1, PageAssumption DEF prp2, Entry
    <3> QED
      <4>1. ~n.in_list /\ n.prp_offs # 1 /\ k + 1 = 2
        BY <2>4, <3>1
      <4>2. Paddr(c, n) = prp2(c)
        BY <3>1, <4>1, Zenon DEF Paddr
      <4> QED
        BY <3>2, <4>1, <4>2
  <2> QED
    BY <1>1, <2>2, <2>3, <2>4
<1> QED
  <2> HIDE DEF n, k, N
  <2>1. n.prp_offs <= N
    BY <1>1, <1>2, <1>5
  <2>2. Paddr(c, n) = Entry(c, n.prp_offs)
    BY <1>5, <1>8
  <2> QED
    BY <1>5, <1>6, <1>7, <2>1, <2>2 DEF n, k, N

(* Entries that follow each other: each is as many pages behind the first.  *)
LEMMA EntriesInRun ==
  ASSUME NEW c, ValidCmd(c), NEW k \in 1 .. NrPages(c), NEW l \in k .. NrPages(c),
         \A j \in k + 1 .. l : Entry(c, j) = Entry(c, j - 1) + PAGE_SIZE
  PROVE  \A q \in 0 .. l - k : Entry(c, k + q) = Entry(c, k) + q * PAGE_SIZE
<1>1. NrPages(c) \in Nat \ {0} /\ PAGE_SIZE \in Nat \ {0} /\ k \in Nat \ {0} /\ l \in Nat \ {0}
  BY PagesCover, PageAssumption
<1> DEFINE Bad == {q \in 0 .. l - k : Entry(c, k + q) # Entry(c, k) + q * PAGE_SIZE}
<1> SUFFICES ASSUME Bad # {} PROVE FALSE
  OBVIOUS
<1>2. Bad \subseteq Nat
  BY <1>1
<1>3. PICK q \in Bad : \A p \in Bad : q <= p
  BY <1>2, LeastElement
<1>4. q \in 0 .. l - k /\ Entry(c, k + q) # Entry(c, k) + q * PAGE_SIZE
  OBVIOUS
<1>5. PICK e \in Nat : e = Entry(c, k)
  BY EntryPlace
<1>6. q # 0
  BY <1>1, <1>4, <1>5
<1>7. PICK p \in Nat : q = p + 1 /\ p \in 0 .. l - k
  BY <1>1, <1>4, <1>6
<1>8. p \notin Bad
  BY <1>3, <1>7
<1>9. PICK s \in Nat : s = p * PAGE_SIZE /\ q * PAGE_SIZE = s + PAGE_SIZE
  BY <1>1, <1>7
<1>10. Entry(c, k + p) = e + s
  BY <1>5, <1>7, <1>8, <1>9
<1>11. Entry(c, k + q) = Entry(c, k + p) + PAGE_SIZE
  <2>1. k + q \in k + 1 .. l /\ (k + q) - 1 = k + p
    BY <1>1, <1>4, <1>7
  <2> QED
    BY <2>1
<1>12. Entry(c, k + q) # e + (s + PAGE_SIZE)
  BY <1>4, <1>5, <1>9
<1> QED
  BY <1>1, <1>10, <1>11, <1>12

(* Only a run that begins at the start of a page is longer than one.        *)
LEMMA RunBeginsPage ==
  ASSUME NEW c, ValidCmd(c), NEW k \in 1 .. NrPages(c), k + 1 <= NrPages(c),
         Entry(c, k + 1) = Entry(c, k) + PAGE_SIZE
  PROVE  (IF k = 1 THEN c.off ELSE 0) = 0
<1>1. NrPages(c) \in Nat /\ k \in Nat \ {0} /\ k + 1 \in 1 .. NrPages(c)
  BY PagesCover
<1>2. PICK f \in Nat, o \in 0 .. PAGE_SIZE - 1 : f = c.frames[k] /\ o = IF k = 1 THEN c.off ELSE 0
  <2>1. c.frames[k] \in Nat
    BY EntryPlace
  <2>2. (IF k = 1 THEN c.off ELSE 0) \in 0 .. PAGE_SIZE - 1
    BY PageAssumption DEF ValidCmd
  <2> QED
    BY <2>1, <2>2
<1>3. Entry(c, k) = f * PAGE_SIZE + o
  BY <1>2 DEF Entry
<1>4. Entry(c, k + 1) = (f + 1) * PAGE_SIZE + o
  BY <1>2, <1>3, PageAssumption
<1>5. Entry(c, k + 1) % PAGE_SIZE = o
  <2>1. PICK g \in Nat : g = f + 1
    BY <1>2
  <2>2. (g * PAGE_SIZE + o) % PAGE_SIZE = o
    BY <1>2, PageAssumption, EuclidUnique
  <2> QED
    BY <1>4, <2>1, <2>2
<1>6. Entry(c, k + 1) % PAGE_SIZE = 0
  <2>1. k + 1 # 1
    BY <1>1
  <2> QED
    BY <1>1, <2>1, EntryPlace
<1> QED
  BY <1>2, <1>5, <1>6

(* What a loop moves at once, from the k-th entry to the l-th, that follow  *)
(* each other: the next blocks of the buffer, and whole pages of it unless  *)
(* it is the end.                                                           *)
RunSize(c, k, l, m) ==
  Least(c.len - m, PieceAt(Entry(c, k), c.len - m) + (l - k) * PAGE_SIZE)

LEMMA RunPlaces ==
  ASSUME NEW c, ValidCmd(c), NEW k \in 1 .. NrPages(c), NEW l \in k .. NrPages(c),
         NEW m \in 0 .. c.len - 1, AtEntry(c, k - 1, m),
         \A j \in k + 1 .. l : Entry(c, j) = Entry(c, j - 1) + PAGE_SIZE
  PROVE  /\ RunSize(c, k, l, m) \in 1 .. c.len - m
         /\ \A j \in 0 .. RunSize(c, k, l, m) - 1 : BufferAddr(c, m + j) = Entry(c, k) + j
         /\ RunSize(c, k, l, m) < c.len - m =>
              AtEntry(c, l, m + RunSize(c, k, l, m)) /\ l < NrPages(c)
         /\ RunSize(c, k, l, m) = c.len - m /\ l = k => k = NrPages(c)
<1> DEFINE P == PAGE_SIZE
           N == NrPages(c)
<1>1. /\ N \in Nat \ {0} /\ P \in Nat \ {0} /\ k \in Nat \ {0} /\ l \in Nat \ {0}
      /\ c.len \in Nat \ {0} /\ c.off \in 0 .. P - 1 /\ m \in Nat /\ k <= l /\ l <= N
  <2>1. N \in Nat \ {0}
    BY PagesCover
  <2>2. c.len \in Nat \ {0} /\ c.off \in 0 .. P - 1
    BY DEF ValidCmd
  <2> QED
    BY <2>1, <2>2, PageAssumption
<1>2. PICK f \in Nat, o \in 0 .. P - 1 : f = c.frames[k] /\ o = IF k = 1 THEN c.off ELSE 0
  BY <1>1, EntryPlace
<1>3. Entry(c, k) = f * P + o /\ Entry(c, k) \in Nat /\ Entry(c, k) % P = o
  BY <1>2, EntryPlace DEF Entry
<1>4. c.off + m = (k - 1) * P + o
  <2>1. CASE k = 1
    BY <1>1, <1>2, <2>1 DEF AtEntry
  <2>2. CASE k # 1
    BY <1>1, <1>2, <2>2 DEF AtEntry
  <2> QED
    BY <2>1, <2>2
<1>5. PICK rem \in Nat \ {0} : rem = c.len - m
  BY <1>1
<1>6. PICK M \in Nat : M = (l - k) * P /\ (l = k => M = 0)
  <2>1. l - k \in Nat /\ (l - k) * P \in Nat
    BY <1>1
  <2> QED
    BY <1>1, <2>1
<1>7. PICK K \in Nat : K = (k - 1) * P /\ k * P = K + P /\ l * P = K + P + M
  <2>1. k - 1 \in Nat /\ (k - 1) * P \in Nat
    BY <1>1
  <2>2. k * P = (k - 1) * P + P /\ l * P = k * P + (l - k) * P
    BY <1>1
  <2> QED
    BY <1>6, <2>1, <2>2
<1>8. c.off + c.len <= N * P /\ (N - 1) * P < c.off + c.len /\ N * P \in Nat /\ (N - 1) * P \in Int
  BY <1>1, PagesCover
<1>9. l > k => o = 0
  <2> SUFFICES ASSUME l > k PROVE o = 0
    OBVIOUS
  <2>1. k + 1 \in k + 1 .. l /\ (k + 1) - 1 = k /\ k + 1 <= N
    BY <1>1
  <2>2. Entry(c, k + 1) = Entry(c, k) + P
    BY <2>1
  <2> QED
    BY <1>2, <2>1, <2>2, RunBeginsPage
<1>10. l > k => rem > P - o
  <2> SUFFICES ASSUME l > k PROVE rem > P - o
    OBVIOUS
  <2>1. k <= N - 1 /\ N - 1 \in Nat
    BY <1>1
  <2>2. k * P <= (N - 1) * P
    BY <1>1, <2>1, MultOrder
  <2> QED
    BY <1>1, <1>2, <1>4, <1>5, <1>7, <1>8, <2>2
<1>11. PieceAt(Entry(c, k), rem) = IF rem <= P - o THEN rem ELSE P - o
  BY <1>1, <1>2, <1>3, <1>5 DEF PieceAt, Least
<1>12. PICK size : size = RunSize(c, k, l, m)
  OBVIOUS
<1>13. size = IF rem <= P - o + M THEN rem ELSE P - o + M
  <2>1. size = Least(rem, (IF rem <= P - o THEN rem ELSE P - o) + M)
    BY <1>5, <1>6, <1>11, <1>12 DEF RunSize
  <2> QED
    BY <1>1, <1>2, <1>5, <1>6, <1>10, <2>1 DEF Least
<1>14. size \in 1 .. rem
  BY <1>1, <1>2, <1>5, <1>6, <1>13
<1>15. ASSUME NEW j \in 0 .. size - 1
       PROVE  BufferAddr(c, m + j) = Entry(c, k) + j
  <2>1. PICK a \in Nat : a = o + j
    BY <1>2, <1>14
  <2>2. PICK q, r : q = a \div P /\ r = a % P
    OBVIOUS
  <2>3. q \in Nat /\ r \in 0 .. P - 1 /\ a = P * q + r
    BY <1>1, <2>1, <2>2, Euclid
  <2>4. PICK Q \in Nat : Q = q * P
    BY <1>1, <2>3
  <2>5. a = Q + r
    BY <1>1, <2>3, <2>4
  <2>6. q <= l - k
    <3>1. a < P + M
      BY <1>1, <1>2, <1>6, <1>13, <1>14, <2>1
    <3>2. l - k + 1 \in Nat /\ (l - k + 1) * P = M + P
      BY <1>1, <1>6
    <3>3. (l - k + 1) <= q => (l - k + 1) * P <= q * P
      BY <2>3, <3>2, MultOrder
    <3> QED
      BY <1>1, <2>3, <2>4, <2>5, <3>1, <3>2, <3>3
  <2>7. PICK b \in Nat : b = k - 1 + q /\ b * P = K + Q
    BY <1>1, <1>7, <2>3, <2>4
  <2>8. c.off + (m + j) = b * P + r
    <3>1. PICK B \in Nat : B = b * P /\ B = K + Q
      BY <2>7
    <3>2. c.off + m = K + o
      BY <1>4, <1>7
    <3> QED
      BY <1>1, <1>2, <2>1, <2>3, <2>5, <3>1, <3>2
  <2>9. b + 1 = k + q
    BY <1>1, <2>3, <2>7
  <2>10. BufferAddr(c, m + j) = c.frames[k + q] * P + r
    <3>1. BufferAddr(c, m + j) = c.frames[b + 1] * P + r
      BY <2>3, <2>8, BlockPlace
    <3> QED
      BY <2>9, <3>1
  <2>11. CASE q = 0
    BY <1>1, <1>2, <1>3, <2>1, <2>3, <2>5, <2>4, <2>10, <2>11
  <2>12. CASE q # 0
    <3>1. o = 0
      BY <1>1, <1>9, <2>3, <2>6, <2>12
    <3>2. Entry(c, k + q) = Entry(c, k) + Q
      BY <1>1, <2>3, <2>4, <2>6, EntriesInRun
    <3>3. k + q # 1 /\ k + q \in 1 .. N
      BY <1>1, <2>3, <2>6, <2>12
    <3>4. Entry(c, k + q) = c.frames[k + q] * P
      BY <1>1, <3>3, EntryPlace DEF Entry
    <3>5. PICK g : g = c.frames[k + q] * P
      OBVIOUS
    <3> HIDE DEF P
    <3> QED
      BY <1>3, <2>1, <2>3, <2>4, <2>5, <2>10, <3>1, <3>2, <3>4, <3>5
  <2> QED
    BY <2>11, <2>12
<1>16. size < rem => AtEntry(c, l, m + size) /\ l < N
  <2> SUFFICES ASSUME size < rem PROVE AtEntry(c, l, m + size) /\ l < N
    OBVIOUS
  <2>1. size = P - o + M
    BY <1>13, <1>14
  <2>2. c.off + (m + size) = l * P
    BY <1>1, <1>2, <1>4, <1>6, <1>7, <2>1
  <2>3. l * P < N * P
    BY <1>1, <1>5, <1>8, <1>14, <2>2
  <2>4. N <= l => N * P <= l * P
    BY <1>1, MultOrder
  <2>5. l * P \in Nat
    BY <1>1, MultOrder
  <2> QED
    BY <1>1, <1>8, <2>2, <2>3, <2>4, <2>5 DEF AtEntry
<1>17. size = rem /\ l = k => k = N
  <2> SUFFICES ASSUME size = rem, l = k PROVE k = N
    OBVIOUS
  <2>1. rem <= P - o
    BY <1>1, <1>2, <1>6, <1>13, <1>14
  <2>2. c.off + c.len <= k * P /\ k * P \in Nat
    BY <1>1, <1>2, <1>4, <1>5, <1>7, <2>1
  <2>3. k <= N - 1 => k * P <= (N - 1) * P
    BY <1>1, MultOrder
  <2> QED
    BY <1>1, <1>8, <2>2, <2>3
<1> QED
  BY <1>5, <1>12, <1>14, <1>15, <1>16, <1>17

(* One page at a time is a run of one entry.                                *)
LEMMA PieceIsRun ==
  ASSUME NEW c, ValidCmd(c), NEW k \in 1 .. NrPages(c), NEW m \in 0 .. c.len - 1
  PROVE  PieceAt(Entry(c, k), c.len - m) = RunSize(c, k, k, m)
<1>1. PICK o \in 0 .. PAGE_SIZE - 1 : o = Entry(c, k) % PAGE_SIZE
  <2>1. (IF k = 1 THEN c.off ELSE 0) \in 0 .. PAGE_SIZE - 1
    BY PageAssumption DEF ValidCmd
  <2> QED
    BY <2>1, EntryPlace
<1>2. PICK rem \in Nat : rem = c.len - m
  BY DEF ValidCmd
<1>3. PICK p \in Int : p = PieceAt(Entry(c, k), rem) /\ p <= rem
  BY <1>1, <1>2, PageAssumption DEF PieceAt, Least
<1>4. (k - k) * PAGE_SIZE = 0
  <2>1. k \in Nat
    BY PagesCover
  <2> QED
    BY <2>1, PageAssumption
<1> QED
  BY <1>2, <1>3, <1>4 DEF RunSize, Least

-----------------------------------------------------------------------------
(* Storage and memory, with mv[w] blocks moved by worker w.                 *)

Writes(w, s, mv) == cmd[w].op = "write" /\ s - cmd[w].slba \in 0 .. mv[w] - 1
Reads(w, a, i, mv) == cmd[w].op = "read" /\ i \in 0 .. mv[w] - 1 /\ BufferAddr(cmd[w], i) = a

StorageExact(st, mv) == \A s \in Sectors :
  \/ st[s] = <<"storage", s>> /\ \A w \in Workers : ~Writes(w, s, mv)
  \/ \E w \in Workers : /\ Writes(w, s, mv)
                        /\ st[s] = <<"mem", BufferAddr(cmd[w], s - cmd[w].slba)>>

MemExact(me, mv) == \A a \in Addrs :
  \/ me[a] = <<"mem", a>> /\ \A w \in Workers : \A i : ~Reads(w, a, i, mv)
  \/ \E w \in Workers : \E i : /\ Reads(w, a, i, mv)
                               /\ me[a] = <<"storage", cmd[w].slba + i>>

MovedByAll == [w \in Workers |-> MovedBy(w)]

LEMMA ExactInParts ==
  TransferExact <=>
    (~shared /\ ~failed => StorageExact(storage, MovedByAll) /\ MemExact(mem, MovedByAll))
<1>1. ASSUME NEW s \in Sectors
      PROVE  (LET writers == {w \in Workers : cmd[w].op = "write" /\ s - cmd[w].slba \in Done(w)}
              IN  IF writers = {} THEN storage[s] = <<"storage", s>>
                  ELSE \E w \in writers :
                         storage[s] = <<"mem", BufferAddr(cmd[w], s - cmd[w].slba)>>)
             <=> (\/ storage[s] = <<"storage", s>> /\ \A w \in Workers : ~Writes(w, s, MovedByAll)
                  \/ \E w \in Workers : /\ Writes(w, s, MovedByAll)
                        /\ storage[s] = <<"mem", BufferAddr(cmd[w], s - cmd[w].slba)>>)
  <2> DEFINE W == {w \in Workers : cmd[w].op = "write" /\ s - cmd[w].slba \in Done(w)}
  <2>1. \A w \in Workers : w \in W <=> Writes(w, s, MovedByAll)
    BY DEF Writes, MovedByAll, Done
  <2>2. W \subseteq Workers
    OBVIOUS
  <2> HIDE DEF W
  <2>3. (IF W = {} THEN storage[s] = <<"storage", s>>
         ELSE \E w \in W : storage[s] = <<"mem", BufferAddr(cmd[w], s - cmd[w].slba)>>)
        <=> (\/ storage[s] = <<"storage", s>> /\ W = {}
             \/ \E w \in W : storage[s] = <<"mem", BufferAddr(cmd[w], s - cmd[w].slba)>>)
    OBVIOUS
  <2>4. W = {} <=> \A w \in Workers : ~Writes(w, s, MovedByAll)
    BY <2>1, <2>2
  <2>5. (\E w \in W : storage[s] = <<"mem", BufferAddr(cmd[w], s - cmd[w].slba)>>)
        <=> \E w \in Workers : /\ Writes(w, s, MovedByAll)
                               /\ storage[s] = <<"mem", BufferAddr(cmd[w], s - cmd[w].slba)>>
    BY <2>1, <2>2
  <2> QED
    BY <2>3, <2>4, <2>5 DEF W
<1>2. ASSUME NEW a \in Addrs
      PROVE  (LET readers == {w \in Workers : cmd[w].op = "read" /\ a \in BufferSoFar(w)}
              IN  IF readers = {} THEN mem[a] = <<"mem", a>>
                  ELSE \E w \in readers : \E i \in Done(w) :
                         /\ BufferAddr(cmd[w], i) = a
                         /\ mem[a] = <<"storage", cmd[w].slba + i>>)
             <=> (\/ mem[a] = <<"mem", a>> /\ \A w \in Workers : \A i : ~Reads(w, a, i, MovedByAll)
                  \/ \E w \in Workers : \E i : /\ Reads(w, a, i, MovedByAll)
                                               /\ mem[a] = <<"storage", cmd[w].slba + i>>)
  <2> DEFINE R == {w \in Workers : cmd[w].op = "read" /\ a \in BufferSoFar(w)}
  <2>1. \A w \in Workers : \A i : Reads(w, a, i, MovedByAll) <=>
           cmd[w].op = "read" /\ i \in Done(w) /\ BufferAddr(cmd[w], i) = a
    BY DEF Reads, MovedByAll, Done
  <2>2. R \subseteq Workers /\ \A w \in Workers : w \in R <=> \E i : Reads(w, a, i, MovedByAll)
    BY <2>1 DEF BufferSoFar
  <2>3. \A w \in R : cmd[w].op = "read"
    OBVIOUS
  <2> HIDE DEF R
  <2>4. R = {} <=> \A w \in Workers : \A i : ~Reads(w, a, i, MovedByAll)
    BY <2>2
  <2>5. (\E w \in R : \E i \in Done(w) : /\ BufferAddr(cmd[w], i) = a
                                         /\ mem[a] = <<"storage", cmd[w].slba + i>>)
        <=> \E w \in Workers : \E i : /\ Reads(w, a, i, MovedByAll)
                                      /\ mem[a] = <<"storage", cmd[w].slba + i>>
    BY <2>1, <2>2, <2>3
  <2>6. (IF R = {} THEN mem[a] = <<"mem", a>>
         ELSE \E w \in R : \E i \in Done(w) : /\ BufferAddr(cmd[w], i) = a
                                              /\ mem[a] = <<"storage", cmd[w].slba + i>>)
        <=> (\/ mem[a] = <<"mem", a>> /\ R = {}
             \/ \E w \in R : \E i \in Done(w) : /\ BufferAddr(cmd[w], i) = a
                                                /\ mem[a] = <<"storage", cmd[w].slba + i>>)
    OBVIOUS
  <2> QED
    BY <2>4, <2>5, <2>6 DEF R
<1> QED
  BY <1>1, <1>2, Zenon DEF TransferExact, StorageExact, MemExact

(* Every command in progress is as the host builds it.                      *)
LEMMA CommandsValid ==
  ASSUME cmd \in Loads, NEW w \in Workers
  PROVE  ValidCmd(cmd[w])
  BY LoadAssumption DEF CmdAssumption, ValidCmd

(* Nor does one read what another one writes.                               *)
LEMMA CommandsApart ==
  ASSUME cmd \in Loads, NEW w \in Workers, NEW u \in Workers,
         cmd[w].op = "write", cmd[u].op = "read",
         NEW i \in Blocks(cmd[w]), NEW j \in Blocks(cmd[u])
  PROVE  /\ cmd[w].slba + i # cmd[u].slba + j
         /\ BufferAddr(cmd[w], i) # BufferAddr(cmd[u], j)
<1>1. ApartAssumption
  BY LoadAssumption
<1> QED
  BY <1>1, ZenonT(30) DEF ApartAssumption

(* Moving the next blocks of one command keeps both exact.                  *)
LEMMA MoveKeepsExact ==
  ASSUME cmd \in Loads, NEW w \in Workers, NEW mv \in [Workers -> Nat], NEW size \in Nat, NEW paddr \in Nat,
         \A u \in Workers : mv[u] <= cmd[u].len,
         mv[w] + size <= cmd[w].len,
         \A j \in 0 .. size - 1 : BufferAddr(cmd[w], mv[w] + j) = paddr + j,
         StorageExact(storage, mv), MemExact(mem, mv),
         storage = [s \in Sectors |-> storage[s]], mem = [a \in Addrs |-> mem[a]],
         Move(cmd[w].op, paddr, cmd[w].slba + mv[w], size)
  PROVE  LET mv2 == [mv EXCEPT ![w] = @ + size] IN
         /\ StorageExact(storage', mv2) /\ MemExact(mem', mv2)
         /\ storage' = [s \in Sectors |-> storage'[s]] /\ mem' = [a \in Addrs |-> mem'[a]]
<1> DEFINE mv2 == [mv EXCEPT ![w] = @ + size]
           c == cmd[w]
           off == c.slba + mv[w]
<1>1. \A u \in Workers : ValidCmd(cmd[u])
  BY CommandsValid
<1>2. \A u \in Workers : mv[u] \in Nat /\ cmd[u].slba \in Nat /\ cmd[u].len \in Nat
  BY <1>1 DEF ValidCmd
<1>3. \A u \in Workers : mv2[u] = IF u = w THEN mv[w] + size ELSE mv[u]
  OBVIOUS
<1>4. \A u \in Workers : mv2[u] \in Nat /\ mv[u] <= mv2[u] /\ mv2[u] <= cmd[u].len
  BY <1>2, <1>3
<1>5. Sectors \subseteq Nat /\ Addrs \subseteq Nat
  BY PlacesAssumption
<1> HIDE DEF mv2
<1>6. ASSUME NEW j \in 0 .. size - 1
      PROVE  mv[w] + j \in Blocks(c) /\ off + j \in Sectors /\ paddr + j \in Addrs
  <2>1. mv[w] + j \in Blocks(c)
    BY <1>2 DEF Blocks
  <2>2. c.slba + (mv[w] + j) \in Sectors /\ BufferAddr(c, mv[w] + j) \in Addrs
    BY <1>1, <2>1 DEF ValidCmd
  <2>3. c.slba + (mv[w] + j) = off + j
    BY <1>2
  <2> QED
    BY <2>1, <2>2, <2>3
<1>7. ASSUME c.op # "write"
      PROVE  StorageExact(storage', mv2) /\ storage' = [s \in Sectors |-> storage'[s]]
  <2>1. storage' = storage
    BY <1>7 DEF Move
  <2>2. \A u \in Workers : \A s : Writes(u, s, mv2) <=> Writes(u, s, mv)
    BY <1>3, <1>7 DEF Writes
  <2>3. StorageExact(storage, mv2)
    BY <2>2 DEF StorageExact
  <2> QED
    BY <2>1, <2>3
<1>8. ASSUME c.op # "read"
      PROVE  MemExact(mem', mv2) /\ mem' = [a \in Addrs |-> mem'[a]]
  <2>1. mem' = mem
    BY <1>8 DEF Move
  <2>2. \A u \in Workers : \A a, i : Reads(u, a, i, mv2) <=> Reads(u, a, i, mv)
    BY <1>3, <1>8 DEF Reads
  <2>3. MemExact(mem, mv2)
    BY <2>2 DEF MemExact
  <2> QED
    BY <2>1, <2>3
<1>9. ASSUME c.op = "write"
      PROVE  StorageExact(storage', mv2) /\ storage' = [s \in Sectors |-> storage'[s]]
  <2>1. storage' = [s \in Sectors |-> IF s \in off .. off + size - 1
                                      THEN mem[paddr + s - off] ELSE storage[s]]
    BY <1>9 DEF Move
  <2>2. ASSUME NEW s \in Sectors
        PROVE  \/ storage'[s] = <<"storage", s>> /\ \A u \in Workers : ~Writes(u, s, mv2)
               \/ \E u \in Workers : /\ Writes(u, s, mv2)
                    /\ storage'[s] = <<"mem", BufferAddr(cmd[u], s - cmd[u].slba)>>
    <3>1. CASE s \in off .. off + size - 1
      <4>0. s - off \in 0 .. size - 1 /\ s = off + (s - off)
        BY <1>2, <1>5, <3>1
      <4>1. PICK j \in 0 .. size - 1 : j = s - off /\ s = off + j
        BY <4>0
      <4>2. s - c.slba = mv[w] + j
        BY <1>2, <1>5, <4>1
      <4>3. Writes(w, s, mv2)
        BY <1>2, <1>3, <1>9, <4>2 DEF Writes
      <4>4. storage'[s] = mem[paddr + j]
        <5>1. paddr + s - off = paddr + j
          BY <1>2, <1>5, <4>1
        <5> QED
          BY <2>1, <3>1, <5>1
      <4>5. \A u \in Workers : \A i : ~Reads(u, paddr + j, i, mv)
        <5> SUFFICES ASSUME NEW u \in Workers, NEW i, Reads(u, paddr + j, i, mv) PROVE FALSE
          OBVIOUS
        <5>1. i \in Blocks(cmd[u]) /\ cmd[u].op = "read" /\ BufferAddr(cmd[u], i) = paddr + j
          BY <1>2 DEF Reads, Blocks
        <5>2. mv[w] + j \in Blocks(c) /\ BufferAddr(c, mv[w] + j) = paddr + j
          BY <1>6
        <5>3. BufferAddr(c, mv[w] + j) # BufferAddr(cmd[u], i)
          BY <1>9, <5>1, <5>2, CommandsApart
        <5> QED
          BY <5>1, <5>2, <5>3
      <4>6. paddr + j \in Addrs
        BY <1>6
      <4>7. mem[paddr + j] = <<"mem", paddr + j>>
        BY <4>5, <4>6 DEF MemExact
      <4>8. BufferAddr(c, s - c.slba) = paddr + j
        BY <4>2
      <4> QED
        BY <4>3, <4>4, <4>7, <4>8
    <3>2. CASE s \notin off .. off + size - 1
      <4>1. storage'[s] = storage[s]
        BY <2>1, <3>2
      <4>2. \A u \in Workers : Writes(u, s, mv2) <=> Writes(u, s, mv)
        <5> SUFFICES ASSUME NEW u \in Workers PROVE Writes(u, s, mv2) <=> Writes(u, s, mv)
          OBVIOUS
        <5>1. s \in Nat
          BY <1>5
        <5> QED
          BY <1>2, <1>3, <1>4, <3>2, <5>1 DEF Writes
      <4> QED
        BY <4>1, <4>2 DEF StorageExact
    <3> QED
      BY <3>1, <3>2
  <2> QED
    BY <2>1, <2>2 DEF StorageExact
<1>10. ASSUME c.op = "read"
       PROVE  MemExact(mem', mv2) /\ mem' = [a \in Addrs |-> mem'[a]]
  <2>1. mem' = [a \in Addrs |-> IF a \in paddr .. paddr + size - 1
                                THEN storage[off + a - paddr] ELSE mem[a]]
    BY <1>10 DEF Move
  <2>2. ASSUME NEW a \in Addrs
        PROVE  \/ mem'[a] = <<"mem", a>> /\ \A u \in Workers : \A i : ~Reads(u, a, i, mv2)
               \/ \E u \in Workers : \E i : /\ Reads(u, a, i, mv2)
                                            /\ mem'[a] = <<"storage", cmd[u].slba + i>>
    <3>1. CASE a \in paddr .. paddr + size - 1
      <4>1. PICK j \in 0 .. size - 1 : j = a - paddr /\ a = paddr + j
        BY <1>2, <1>5, <3>1
      <4>2. Reads(w, a, mv[w] + j, mv2)
        BY <1>2, <1>3, <1>10, <4>1 DEF Reads
      <4>3. mem'[a] = storage[off + j]
        <5>1. off + a - paddr = off + j
          BY <1>2, <1>5, <4>1
        <5> QED
          BY <2>1, <3>1, <5>1
      <4>4. \A u \in Workers : ~Writes(u, off + j, mv)
        <5> SUFFICES ASSUME NEW u \in Workers, Writes(u, off + j, mv) PROVE FALSE
          OBVIOUS
        <5>1. PICK i : i = off + j - cmd[u].slba
          OBVIOUS
        <5>2. i \in Blocks(cmd[u]) /\ cmd[u].op = "write" /\ cmd[u].slba + i = off + j
          BY <1>2, <5>1 DEF Writes, Blocks
        <5>3. mv[w] + j \in Blocks(c) /\ c.slba + (mv[w] + j) = off + j
          BY <1>2, <1>6
        <5>4. cmd[u].slba + i # c.slba + (mv[w] + j)
          BY <1>10, <5>2, <5>3, CommandsApart
        <5> QED
          BY <5>2, <5>3, <5>4
      <4>5. off + j \in Sectors /\ off + j = c.slba + (mv[w] + j)
        BY <1>2, <1>6
      <4>6. storage[off + j] = <<"storage", off + j>>
        BY <4>4, <4>5 DEF StorageExact
      <4> QED
        BY <4>2, <4>3, <4>5, <4>6
    <3>2. CASE a \notin paddr .. paddr + size - 1
      <4>1. mem'[a] = mem[a]
        BY <2>1, <3>2
      <4>2. \A u \in Workers : \A i : Reads(u, a, i, mv2) <=> Reads(u, a, i, mv)
        <5> SUFFICES ASSUME NEW u \in Workers, NEW i PROVE Reads(u, a, i, mv2) <=> Reads(u, a, i, mv)
          OBVIOUS
        <5>1. CASE u # w
          BY <1>3, <5>1 DEF Reads
        <5>2. CASE u = w /\ i \in mv[w] .. mv[w] + size - 1
          <6> DEFINE k == i - mv[w]
          <6>0. k \in 0 .. size - 1 /\ i = mv[w] + k
            BY <1>2, <5>2
          <6>1. PICK j \in 0 .. size - 1 : i = mv[w] + j
            BY <6>0
          <6>2. BufferAddr(c, i) = paddr + j
            BY <6>1
          <6>3. paddr + j # a
            BY <3>2
          <6> QED
            BY <5>2, <6>2, <6>3 DEF Reads
        <5>3. CASE u = w /\ i \notin mv[w] .. mv[w] + size - 1
          <6>1. i \in 0 .. mv2[w] - 1 <=> i \in 0 .. mv[w] - 1
            BY <1>2, <1>3, <5>3
          <6> QED
            BY <5>3, <6>1 DEF Reads
        <5> QED
          BY <5>1, <5>2, <5>3
      <4> QED
        BY <4>1, <4>2 DEF MemExact
    <3> QED
      BY <3>1, <3>2
  <2> QED
    BY <2>1, <2>2 DEF MemExact
<1> QED
  BY <1>7, <1>8, <1>9, <1>10 DEF mv2

-----------------------------------------------------------------------------
(* The steps.                                                               *)

(* A step of one worker changes its walk only.                              *)
LEMMA WalkChange ==
  ASSUME IInv, NEW w \in Workers, NEW n \in WalkType, walk' = [walk EXCEPT ![w] = n],
         cmd' = cmd, WalkInv(cmd[w], n)
  PROVE  /\ walk' \in [Workers -> WalkType] /\ walk'[w] = n
         /\ \A u \in Workers \ {w} : walk'[u] = walk[u]
         /\ \A u \in Workers : WalkInv(cmd'[u], walk'[u])
<1>1. /\ walk' \in [Workers -> WalkType] /\ walk'[w] = n
      /\ \A u \in Workers \ {w} : walk'[u] = walk[u]
  BY DEF IInv, TypeOK
<1>2. ASSUME NEW u \in Workers PROVE WalkInv(cmd'[u], walk'[u])
  BY <1>1 DEF IInv
<1> QED
  BY <1>1, <1>2

(* Nothing is moved, and nobody counts as having moved more.                *)
LEMMA NothingMoved ==
  ASSUME IInv, NEW w \in Workers, cmd' = cmd, \A u \in Workers \ {w} : walk'[u] = walk[u],
         walk'[w].offset = walk[w].offset, storage' = storage, mem' = mem,
         shared => shared', failed => failed'
  PROVE  /\ TransferExact'
         /\ storage' = [s \in Sectors |-> storage'[s]] /\ mem' = [a \in Addrs |-> mem'[a]]
<1>1. \A u \in Workers : walk'[u].offset = walk[u].offset
  OBVIOUS
<1>2. MovedByAll' = MovedByAll
  BY <1>1 DEF MovedByAll, MovedBy
<1>3. ~shared' /\ ~failed' => StorageExact(storage, MovedByAll) /\ MemExact(mem, MovedByAll)
  BY ExactInParts DEF IInv
<1>4. ~shared' /\ ~failed' =>
        StorageExact(storage, MovedByAll)' /\ MemExact(mem, MovedByAll)'
  BY <1>2, <1>3 DEF StorageExact, MemExact, Writes, Reads
<1>5. TransferExact' <=>
        (~shared' /\ ~failed' => StorageExact(storage, MovedByAll)' /\ MemExact(mem, MovedByAll)')
  BY ExactInParts, PTL
<1> QED
  BY <1>4, <1>5 DEF IInv

(* A worker moves what comes next.                                          *)
LEMMA NextMoved ==
  ASSUME IInv, NEW w \in Workers, cmd' = cmd, \A u \in Workers \ {w} : walk'[u] = walk[u],
         NEW size \in Nat, NEW paddr \in Nat, walk[w].pc # "gather",
         walk'[w].offset = walk[w].offset + size, size <= walk[w].remaining,
         ~shared => \A j \in 0 .. size - 1 : BufferAddr(cmd[w], MovedBy(w) + j) = paddr + j,
         Move(cmd[w].op, paddr, walk[w].offset, size), shared' = shared, failed' = failed
  PROVE  /\ TransferExact'
         /\ storage' = [s \in Sectors |-> storage'[s]] /\ mem' = [a \in Addrs |-> mem'[a]]
<1>1. storage' = [s \in Sectors |-> storage'[s]] /\ mem' = [a \in Addrs |-> mem'[a]]
  <2>1. CASE cmd[w].op = "write"
    BY <2>1 DEF Move, IInv
  <2>2. CASE cmd[w].op = "read"
    BY <2>2 DEF Move, IInv
  <2>3. CASE cmd[w].op # "write" /\ cmd[w].op # "read"
    BY <2>3 DEF Move, IInv
  <2> QED
    BY <2>1, <2>2, <2>3
<1>2. \A u \in Workers : ValidCmd(cmd[u])
  BY CommandsValid DEF IInv, TypeOK
<1>3. ASSUME NEW u \in Workers
      PROVE  /\ walk[u].offset \in Nat /\ walk[u].remaining \in Nat
             /\ cmd[u].slba \in Nat /\ cmd[u].len \in Nat
             /\ MovedBy(u) \in Nat /\ MovedBy(u) <= cmd[u].len
             /\ walk[u].pc # "gather" =>
                  MovedBy(u) = cmd[u].len - walk[u].remaining /\ walk[u].offset = cmd[u].slba + MovedBy(u)
  <2>1. walk[u] \in WalkType /\ WalkInv(cmd[u], walk[u])
    BY DEF IInv, TypeOK
  <2>2. walk[u].offset \in Nat /\ walk[u].remaining \in Nat /\ cmd[u].slba \in Nat /\ cmd[u].len \in Nat
    BY <1>2, <2>1 DEF WalkType, ValidCmd
  <2>3. PICK o \in Nat, r \in Nat, b \in Nat, l \in Nat :
           /\ o = walk[u].offset /\ r = walk[u].remaining /\ b = cmd[u].slba /\ l = cmd[u].len
           /\ MovedBy(u) = o - b
    BY <2>2 DEF MovedBy
  <2>4. r <= l /\ (walk[u].pc # "gather" => o = b + (l - r)) /\ (walk[u].pc = "gather" => o = b)
    BY <2>1, <2>3 DEF WalkInv
  <2> QED
    BY <2>3, <2>4
<1>4. PICK mv \in [Workers -> Nat] : mv = MovedByAll
  BY <1>3 DEF MovedByAll
<1>5. \A u \in Workers : mv[u] = MovedBy(u)
  BY <1>4 DEF MovedByAll
<1>6. MovedByAll' = [mv EXCEPT ![w] = @ + size]
  <2>1. ASSUME NEW u \in Workers
        PROVE  MovedBy(u)' = IF u = w THEN mv[w] + size ELSE mv[u]
    <3>1. CASE u = w
      BY <1>3, <1>5, <3>1 DEF MovedBy
    <3>2. CASE u # w
      BY <1>5, <3>2 DEF MovedBy
    <3> QED
      BY <3>1, <3>2
  <2> QED
    BY <2>1 DEF MovedByAll
<1>7. ASSUME ~shared', ~failed'
      PROVE  StorageExact(storage', MovedByAll') /\ MemExact(mem', MovedByAll')
  <2>1. StorageExact(storage, mv) /\ MemExact(mem, mv)
    BY <1>4, <1>7, ExactInParts DEF IInv
  <2>2. \A u \in Workers : mv[u] <= cmd[u].len
    BY <1>3, <1>5
  <2>3. mv[w] + size <= cmd[w].len
    BY <1>3, <1>5
  <2>4. \A j \in 0 .. size - 1 : BufferAddr(cmd[w], mv[w] + j) = paddr + j
    BY <1>5, <1>7
  <2>5. Move(cmd[w].op, paddr, cmd[w].slba + mv[w], size)
    BY <1>3, <1>5
  <2>6. storage = [s \in Sectors |-> storage[s]] /\ mem = [a \in Addrs |-> mem[a]] /\ cmd \in Loads
    BY DEF IInv, TypeOK
  <2> QED
    BY <1>6, <2>1, <2>2, <2>3, <2>4, <2>5, <2>6, MoveKeepsExact
<1>8. ~shared' /\ ~failed' =>
        StorageExact(storage, MovedByAll)' /\ MemExact(mem, MovedByAll)'
  BY <1>7 DEF StorageExact, MemExact, Writes, Reads
<1>9. TransferExact' <=>
        (~shared' /\ ~failed' => StorageExact(storage, MovedByAll)' /\ MemExact(mem, MovedByAll)')
  BY ExactInParts, PTL
<1> QED
  BY <1>1, <1>8, <1>9

LEMMA BeginIInv ==
  ASSUME IInv, NEW w \in Workers, Begin(w)
  PROVE  IInv'
<1> DEFINE c == cmd[w]
           n == StartOf(c)
<1>1. ValidCmd(c) /\ walk[w] \in WalkType /\ WalkInv(c, walk[w]) /\ walk[w].pc = "idle"
  BY CommandsValid DEF IInv, TypeOK, Begin
<1>2. c.len \in Nat \ {0} /\ c.slba \in Nat
  BY <1>1 DEF ValidCmd
<1>3. /\ n \in WalkType /\ n.pc = IF using_dma THEN "gather" ELSE "copy"
      /\ n.prp_offs = 0 /\ n.prp2_offs = 0 /\ n.in_list = FALSE /\ n.remaining = c.len
      /\ n.offset = c.slba
  BY <1>2 DEF StartOf, WalkType
<1>4. Len(List(c)) \in Nat
  BY <1>1, ListEntries, PagesCover
<1>5. WalkInv(c, n)
  <2> HIDE DEF n, c
  <2>1. Fetching(c, n)
    BY <1>2, <1>3 DEF Fetching, AtEntry
  <2> QED
    BY <1>2, <1>3, <1>4, <2>1 DEF WalkInv
<1>6. /\ walk' \in [Workers -> WalkType] /\ walk'[w] = n
      /\ \A u \in Workers \ {w} : walk'[u] = walk[u]
      /\ \A u \in Workers : WalkInv(cmd'[u], walk'[u])
  <2>1. walk' = [walk EXCEPT ![w] = n] /\ cmd' = cmd
    BY DEF Begin
  <2> HIDE DEF n
  <2> QED
    BY <1>3, <1>5, <2>1, WalkChange
<1>7. TypeOK'
  BY <1>6 DEF IInv, TypeOK, Begin
<1>8. DmaInv'
  <2> HIDE DEF n
  <2>1. CASE ~using_dma
    <3>1. ~InDma(w) /\ ~InDma(w)' /\ walk'[w].pc \notin {"gather", "transfer"}
      BY <1>1, <1>3, <1>6, <2>1 DEF InDma
    <3>2. paddr_list' = paddr_list /\ shared' = shared /\ cmd' = cmd
      BY <2>1 DEF Begin, IInv, TypeOK
    <3>3. \A u \in Workers : InDma(u)' <=> InDma(u) /\ u # w
      BY <1>6, <3>1 DEF InDma
    <3> QED
      BY <1>6, <3>1, <3>2, <3>3 DEF IInv, DmaInv, Gathered, InDma
  <2>2. CASE using_dma
    <3> SUFFICES ASSUME ~shared' PROVE DmaInv'
      BY DEF DmaInv
    <3>1. \A u \in Workers : ~InDma(u)
      BY <2>2 DEF Begin
    <3>2. \A u \in Workers \ {w} : walk'[u].pc \notin {"gather", "transfer"}
      BY <1>6, <3>1 DEF InDma
    <3>3. paddr_list' = << >> /\ cmd' = cmd
      BY <2>2 DEF Begin
    <3>4. walk'[w].pc = "gather" /\ walk'[w].prp_offs = 0
      BY <1>3, <1>6, <2>2
    <3>5. Gathered(cmd[w], walk[w].prp_offs)'
      BY <3>3, <3>4 DEF Gathered
    <3> QED
      BY <3>2, <3>4, <3>5 DEF DmaInv, InDma
  <2> QED
    BY <2>1, <2>2
<1>9. /\ TransferExact'
      /\ storage' = [s \in Sectors |-> storage'[s]] /\ mem' = [a \in Addrs |-> mem'[a]]
  <2>1. walk'[w].offset = walk[w].offset
    <3>1. walk[w].offset = c.slba
      BY <1>1, <1>2 DEF WalkInv, WalkType
    <3> QED
      BY <1>3, <1>6, <3>1
  <2>2. /\ cmd' = cmd /\ storage' = storage /\ mem' = mem /\ (shared => shared') /\ (failed => failed')
    BY DEF Begin
  <2> QED
    BY <1>6, <2>1, <2>2, NothingMoved
<1> QED
  BY <1>6, <1>7, <1>8, <1>9 DEF IInv

(* What a loop over the PRP entries knows of its next piece.                *)
LEMMA NextPiece ==
  ASSUME IInv, NEW w \in Workers, walk[w].pc \in {"copy", "gather"},
         NEW v, v = NextPrp(cmd[w], walk[w])
  PROVE  LET c == cmd[w]
             paddr == Paddr(c, v)
             io_size == PieceAt(paddr, v.remaining)
             m == c.len - v.remaining IN
         /\ ValidCmd(c) /\ v \in WalkType /\ v.prp2_offs <= Len(List(c))
         /\ v.pc = walk[w].pc /\ v.offset = walk[w].offset /\ v.remaining = walk[w].remaining
         /\ v.prp_offs = walk[w].prp_offs + 1 /\ v.prp_offs \in 1 .. NrPages(c)
         /\ v.in_list <=> v.prp_offs >= 2 /\ NrPages(c) > 2
         /\ v.prp2_offs = IF v.in_list THEN v.prp_offs - 1 ELSE 0
         /\ v.remaining \in 1 .. c.len /\ io_size \in 1 .. v.remaining
         /\ paddr \in Nat /\ paddr = Entry(c, v.prp_offs)
         /\ \A j \in 0 .. io_size - 1 : BufferAddr(c, m + j) = paddr + j
         /\ io_size < v.remaining => AtEntry(c, v.prp_offs, m + io_size)
         /\ io_size = v.remaining => v.prp_offs = NrPages(c)
<1> DEFINE c == cmd[w]
           k == v.prp_offs
           m == c.len - v.remaining
<1>1. ValidCmd(c) /\ walk[w] \in WalkType /\ Fetching(c, walk[w])
  BY CommandsValid DEF IInv, TypeOK, WalkInv
<1>2. /\ v \in WalkType /\ k = walk[w].prp_offs + 1 /\ k <= NrPages(c)
      /\ v.remaining = walk[w].remaining /\ v.offset = walk[w].offset /\ v.pc = walk[w].pc
      /\ v.in_list <=> k >= 2 /\ NrPages(c) > 2
      /\ v.prp2_offs = IF v.in_list THEN k - 1 ELSE 0
      /\ v.prp2_offs <= Len(List(c)) /\ Paddr(c, v) = Entry(c, k)
  BY <1>1, FetchNext, ZenonT(30)
<1>3. v.remaining \in 1 .. c.len /\ c.len \in Nat \ {0} /\ m \in 0 .. c.len - 1
  BY <1>1, <1>2 DEF Fetching, ValidCmd
<1>4. k \in 1 .. NrPages(c) /\ walk[w].prp_offs = k - 1
  <2>1. walk[w].prp_offs \in Nat /\ NrPages(c) \in Nat
    BY <1>1, PagesCover DEF WalkType
  <2> QED
    BY <1>2, <2>1
<1>5. AtEntry(c, k - 1, m)
  BY <1>1, <1>2, <1>4 DEF Fetching
<1> HIDE DEF c, k, m
<1>6. k \in k .. NrPages(c) /\ \A j \in k + 1 .. k : Entry(c, j) = Entry(c, j - 1) + PAGE_SIZE
  BY <1>4
<1>7. PICK size : size = RunSize(c, k, k, m)
  OBVIOUS
<1>8. /\ size \in 1 .. c.len - m
      /\ \A j \in 0 .. size - 1 : BufferAddr(c, m + j) = Entry(c, k) + j
      /\ size < c.len - m => AtEntry(c, k, m + size)
      /\ size = c.len - m => k = NrPages(c)
  BY <1>1, <1>3, <1>4, <1>5, <1>6, <1>7, RunPlaces, Zenon
<1>9. v.remaining = c.len - m
  BY <1>3 DEF m
<1>10. PieceAt(Paddr(c, v), v.remaining) = size
  BY <1>1, <1>2, <1>3, <1>4, <1>7, <1>9, PieceIsRun
<1>11. Entry(c, k) \in Nat
  BY <1>1, <1>4, EntryPlace
<1> QED
  BY <1>1, <1>2, <1>3, <1>4, <1>8, <1>9, <1>10, <1>11 DEF c, k, m

LEMMA CopyPieceIInv ==
  ASSUME IInv, NEW w \in Workers, CopyPiece(w)
  PROVE  IInv'
<1> DEFINE c == cmd[w]
<1>1. PICK v : v = NextPrp(c, walk[w])
  OBVIOUS
<1>2. PICK paddr, size : paddr = Paddr(c, v) /\ size = PieceAt(paddr, v.remaining)
  OBVIOUS
<1>3. PICK n : n = Moved(v, size, "copy")
  OBVIOUS
<1>4. /\ walk[w].pc = "copy" /\ Move(c.op, paddr, v.offset, size)
      /\ walk' = [walk EXCEPT ![w] = n]
      /\ UNCHANGED <<using_dma, cmd, paddr_list, shared, failed>>
  BY <1>1, <1>2, <1>3 DEF CopyPiece
<1>5. PICK m : m = c.len - v.remaining
  OBVIOUS
<1>6. /\ ValidCmd(c) /\ v \in WalkType /\ v.prp2_offs <= Len(List(c))
      /\ v.pc = "copy" /\ v.offset = walk[w].offset /\ v.remaining = walk[w].remaining
      /\ v.prp_offs \in 1 .. NrPages(c)
      /\ v.in_list <=> v.prp_offs >= 2 /\ NrPages(c) > 2
      /\ v.prp2_offs = IF v.in_list THEN v.prp_offs - 1 ELSE 0
      /\ v.remaining \in 1 .. c.len /\ size \in 1 .. v.remaining
      /\ paddr \in Nat
      /\ \A j \in 0 .. size - 1 : BufferAddr(c, m + j) = paddr + j
      /\ size < v.remaining => AtEntry(c, v.prp_offs, m + size)
  BY <1>1, <1>2, <1>4, <1>5, NextPiece
<1>7. c.len \in Nat \ {0} /\ c.slba \in Nat /\ v.remaining \in Nat /\ v.offset \in Nat
  BY <1>6 DEF ValidCmd, WalkType
<1>8. v.offset = c.slba + m /\ MovedBy(w) = m /\ m \in Nat
  <2>1. WalkInv(c, walk[w])
    BY DEF IInv
  <2>2. v.offset = c.slba + m
    BY <1>4, <1>5, <1>6, <2>1 DEF WalkInv
  <2> QED
    BY <1>5, <1>6, <1>7, <2>2 DEF MovedBy
<1>9. /\ n \in WalkType /\ n.remaining = v.remaining - size /\ n.offset = v.offset + size
      /\ n.pc = (IF v.remaining = size THEN "done" ELSE "copy")
      /\ n.prp_offs = v.prp_offs /\ n.in_list = v.in_list /\ n.prp2_offs = v.prp2_offs
  <2>1. v.remaining - size \in Nat /\ v.offset + size \in Nat
    BY <1>6, <1>7
  <2> QED
    BY <1>3, <1>6, <2>1 DEF Moved, WalkType
<1>15. c.len - n.remaining = m + size /\ n.offset = c.slba + (c.len - n.remaining)
  <2>0. size \in Nat /\ c.len \in Nat
    BY <1>6, <1>7
  <2>1. PICK l \in Nat, r \in Nat, s \in Nat, b \in Nat :
           l = c.len /\ r = v.remaining /\ s = size /\ b = c.slba
    BY <1>7, <2>0, Zenon
  <2>2. n.remaining = r - s /\ n.offset = (b + m) + s /\ m = l - r
    BY <1>5, <1>8, <1>9, <2>1
  <2> QED
    BY <2>1, <2>2
<1> HIDE DEF c
<1>10. WalkInv(c, n)
  <2>1. n.pc = "copy" => Fetching(c, n)
    <3> SUFFICES ASSUME n.pc = "copy" PROVE Fetching(c, n)
      OBVIOUS
    <3>1. size < v.remaining
      BY <1>6, <1>7, <1>9
    <3>2. c.len - n.remaining = m + size
      BY <1>15
    <3>3. n.remaining \in 1 .. c.len
      BY <1>6, <1>7, <1>9, <3>1
    <3> QED
      BY <1>6, <1>9, <3>1, <3>2, <3>3 DEF Fetching
  <2>2. n.offset = c.slba + (c.len - n.remaining)
    BY <1>15
  <2>3. n.remaining <= c.len /\ (n.pc = "done" => n.remaining = 0)
    BY <1>6, <1>7, <1>9
  <2> QED
    BY <1>6, <1>9, <2>1, <2>2, <2>3 DEF WalkInv
<1>11. /\ walk' \in [Workers -> WalkType] /\ walk'[w] = n
       /\ \A u \in Workers \ {w} : walk'[u] = walk[u]
       /\ \A u \in Workers : WalkInv(cmd'[u], walk'[u])
  BY <1>4, <1>9, <1>10, WalkChange DEF c
<1>12. TypeOK'
  BY <1>4, <1>11 DEF IInv, TypeOK
<1>13. DmaInv'
  <2>1. \A u \in Workers : InDma(u)' <=> InDma(u) /\ u # w
    BY <1>4, <1>9, <1>11 DEF InDma
  <2>2. walk'[w].pc \notin {"gather", "transfer"}
    BY <1>9, <1>11
  <2> QED
    BY <1>4, <1>11, <2>1, <2>2 DEF IInv, DmaInv, Gathered, InDma
<1>14. /\ TransferExact'
       /\ storage' = [s \in Sectors |-> storage'[s]] /\ mem' = [a \in Addrs |-> mem'[a]]
  <2>1. size \in Nat /\ size <= walk[w].remaining /\ walk'[w].offset = walk[w].offset + size
    BY <1>6, <1>7, <1>9, <1>11
  <2>2. \A j \in 0 .. size - 1 : BufferAddr(cmd[w], MovedBy(w) + j) = paddr + j
    BY <1>6, <1>8 DEF c
  <2>3. Move(cmd[w].op, paddr, walk[w].offset, size)
    BY <1>4, <1>6 DEF c
  <2> QED
    BY <1>4, <1>6, <1>11, <2>1, <2>2, <2>3, NextMoved
<1> QED
  BY <1>11, <1>12, <1>13, <1>14 DEF IInv

LEMMA GatherPrpIInv ==
  ASSUME IInv, NEW w \in Workers, GatherPrp(w)
  PROVE  IInv'
<1> DEFINE c == cmd[w]
<1>1. PICK v : v = NextPrp(c, walk[w])
  OBVIOUS
<1>2. PICK paddr, size : paddr = Paddr(c, v) /\ size = PieceAt(paddr, v.remaining)
  OBVIOUS
<1>3. PICK n : n = IF v.remaining > size THEN [v EXCEPT !.remaining = @ - size]
                   ELSE [v EXCEPT !.pc = "transfer", !.remaining = c.len,
                                  !.num_prps = v.prp_offs, !.prp_offs = 1]
  OBVIOUS
<1>4. /\ walk[w].pc = "gather" /\ paddr_list' = Filled(v.prp_offs, paddr)
      /\ walk' = [walk EXCEPT ![w] = n]
      /\ UNCHANGED <<storage, mem, using_dma, cmd, shared, failed>>
  BY <1>1, <1>2, <1>3 DEF GatherPrp
<1>5. PICK m : m = c.len - v.remaining
  OBVIOUS
<1>6. /\ ValidCmd(c) /\ v \in WalkType /\ v.prp2_offs <= Len(List(c))
      /\ v.pc = "gather" /\ v.offset = walk[w].offset /\ v.remaining = walk[w].remaining
      /\ v.prp_offs = walk[w].prp_offs + 1 /\ v.prp_offs \in 1 .. NrPages(c)
      /\ v.in_list <=> v.prp_offs >= 2 /\ NrPages(c) > 2
      /\ v.prp2_offs = IF v.in_list THEN v.prp_offs - 1 ELSE 0
      /\ v.remaining \in 1 .. c.len /\ size \in 1 .. v.remaining
      /\ paddr \in Nat /\ paddr = Entry(c, v.prp_offs)
      /\ size < v.remaining => AtEntry(c, v.prp_offs, m + size)
      /\ size = v.remaining => v.prp_offs = NrPages(c)
  BY <1>1, <1>2, <1>4, <1>5, NextPiece
<1>7. /\ c.len \in Nat \ {0} /\ c.slba \in Nat /\ v.remaining \in Nat /\ v.offset \in Nat
      /\ size \in Nat /\ v.prp_offs \in Nat \ {0} /\ NrPages(c) \in Nat
      /\ walk[w].prp_offs \in Nat /\ m \in Nat
  <2>1. c.len \in Nat \ {0} /\ c.slba \in Nat /\ v.remaining \in Nat /\ v.offset \in Nat
    BY <1>6 DEF ValidCmd, WalkType
  <2>2. NrPages(c) \in Nat
    BY <1>6, PagesCover
  <2>3. walk[w].prp_offs \in Nat
    BY DEF IInv, TypeOK, WalkType
  <2>4. m \in Nat
    BY <1>5, <1>6, <2>1
  <2>5. size \in Nat
    BY <1>6, <2>1
  <2>6. v.prp_offs \in Nat \ {0}
    BY <1>6, <2>2
  <2> QED
    BY <2>1, <2>2, <2>3, <2>4, <2>5, <2>6
<1>8. v.offset = c.slba
  BY <1>4, <1>6 DEF IInv, WalkInv
<1>9. ASSUME v.remaining > size
      PROVE  /\ n \in WalkType /\ WalkInv(c, n) /\ n.pc = "gather" /\ n.offset = c.slba
             /\ n.prp_offs = v.prp_offs
  <2>1. /\ n \in WalkType /\ n.pc = "gather" /\ n.offset = c.slba
        /\ n.prp_offs = v.prp_offs /\ n.in_list = v.in_list /\ n.prp2_offs = v.prp2_offs
        /\ n.remaining = v.remaining - size
    <3>1. v.remaining - size \in Nat
      BY <1>7, <1>9
    <3> QED
      BY <1>3, <1>6, <1>8, <1>9, <3>1 DEF WalkType
  <2> HIDE DEF c
  <2>2. PICK r \in Nat, s \in Nat, l \in Nat : r = v.remaining /\ s = size /\ l = c.len
    BY <1>7
  <2>3. n.remaining = r - s /\ n.remaining \in 1 .. l /\ l - n.remaining = m + s
    <3>1. n.remaining = r - s /\ m = l - r
      BY <1>5, <2>1, <2>2 DEF c
    <3>2. r \in 1 .. l /\ r > s /\ s \in 1 .. r
      BY <1>6, <1>9, <2>2 DEF c
    <3> QED
      BY <2>2, <3>1, <3>2
  <2>4. Fetching(c, n)
    BY <1>6, <1>9, <2>1, <2>2, <2>3 DEF Fetching
  <2>5. WalkInv(c, n)
    BY <1>6, <2>1, <2>2, <2>3, <2>4 DEF WalkInv
  <2> QED
    BY <2>1, <2>5
<1>10. ASSUME ~(v.remaining > size)
       PROVE  /\ n \in WalkType /\ WalkInv(c, n) /\ n.pc = "transfer" /\ n.offset = c.slba
              /\ n.prp_offs = 1 /\ n.num_prps = v.prp_offs /\ n.remaining = c.len
              /\ v.prp_offs = NrPages(c)
  <2>1. /\ n \in WalkType /\ n.pc = "transfer" /\ n.offset = c.slba /\ n.prp2_offs = v.prp2_offs
        /\ n.prp_offs = 1 /\ n.num_prps = v.prp_offs /\ n.remaining = c.len
    BY <1>3, <1>6, <1>7, <1>8, <1>10 DEF WalkType
  <2>2. v.prp_offs = NrPages(c)
    BY <1>6, <1>7, <1>10
  <2> HIDE DEF c
  <2>3. WalkInv(c, n)
    BY <1>6, <1>7, <2>1 DEF WalkInv
  <2> QED
    BY <2>1, <2>2, <2>3
<1>11. /\ n \in WalkType /\ WalkInv(c, n) /\ n.offset = c.slba /\ n.pc \in {"gather", "transfer"}
  BY <1>9, <1>10
<1>12. /\ walk' \in [Workers -> WalkType] /\ walk'[w] = n
       /\ \A u \in Workers \ {w} : walk'[u] = walk[u]
       /\ \A u \in Workers : WalkInv(cmd'[u], walk'[u])
  BY <1>4, <1>11, WalkChange
<1>13. PICK k \in Nat \ {0} : k = v.prp_offs
  BY <1>7
<1>14. paddr_list \in Seq(Nat) /\ Len(paddr_list) \in Nat
  BY DEF IInv, TypeOK
<1>15. PICK L \in Nat : L = IF k > Len(paddr_list) THEN k ELSE Len(paddr_list)
  BY <1>14
<1>16. \A j \in 1 .. L : EntryAt(j) \in Nat
  BY <1>14 DEF EntryAt
<1>17. /\ paddr_list' = [j \in 1 .. L |-> IF j = k THEN paddr ELSE EntryAt(j)]
       /\ paddr_list' \in Seq(Nat) /\ Len(paddr_list') = L
  <2>1. paddr_list' = [j \in 1 .. L |-> IF j = k THEN paddr ELSE EntryAt(j)]
    BY <1>4, <1>13, <1>15 DEF Filled
  <2>2. \A j \in 1 .. L : (IF j = k THEN paddr ELSE EntryAt(j)) \in Nat
    BY <1>6, <1>16
  <2>3. paddr_list' \in [1 .. L -> Nat]
    BY <2>1, <2>2
  <2> QED
    BY <2>1, <2>3
<1>18. TypeOK'
  BY <1>4, <1>12, <1>17 DEF IInv, TypeOK
<1>19. DmaInv'
  <2> SUFFICES ASSUME ~shared' PROVE DmaInv'
    BY DEF DmaInv
  <2>1. ~shared
    BY <1>4
  <2>2. \A u \in Workers : InDma(u) => u = w
    BY <1>4, <2>1 DEF IInv, DmaInv, InDma
  <2>3. \A u \in Workers \ {w} : walk'[u].pc \notin {"gather", "transfer"}
    BY <1>12, <2>2 DEF InDma
  <2>4. Gathered(c, k - 1)
    <3>1. walk[w].prp_offs = k - 1
      BY <1>6, <1>7, <1>13
    <3> QED
      BY <1>4, <2>1, <3>1 DEF IInv, DmaInv
  <2>5. L = k
    BY <1>15, <2>4 DEF Gathered
  <2>6. \A j \in 1 .. k : paddr_list'[j] = Entry(c, j)
    <3>1. ASSUME NEW j \in 1 .. k PROVE paddr_list'[j] = Entry(c, j)
      <4>1. CASE j = k
        BY <1>6, <1>13, <1>17, <2>5, <4>1
      <4>2. CASE j # k
        <5>1. j \in 1 .. k - 1
          BY <4>2
        <5>2. paddr_list'[j] = EntryAt(j)
          BY <1>17, <2>5, <4>2
        <5>3. j \in DOMAIN paddr_list
          BY <1>14, <2>4, <5>1 DEF Gathered
        <5> QED
          BY <2>4, <5>1, <5>2, <5>3 DEF EntryAt, Gathered
      <4> QED
        BY <4>1, <4>2
    <3> QED
      BY <3>1
  <2>7. Len(paddr_list') = k
    BY <1>17, <2>5
  <2>8. CASE v.remaining > size
    <3>1. walk'[w].pc = "gather" /\ walk'[w].prp_offs = k
      BY <1>9, <1>12, <1>13, <2>8
    <3>2. Gathered(cmd[w], walk[w].prp_offs)'
      BY <1>4, <2>6, <2>7, <3>1 DEF Gathered
    <3> QED
      BY <2>3, <3>1, <3>2 DEF DmaInv, InDma
  <2>9. CASE ~(v.remaining > size)
    <3>1. /\ walk'[w].pc = "transfer" /\ walk'[w].num_prps = k /\ k = NrPages(cmd'[w])
          /\ walk'[w].prp_offs = 1 /\ walk'[w].remaining = cmd'[w].len
      BY <1>4, <1>10, <1>12, <1>13, <2>9
    <3>2. Gathered(cmd[w], walk[w].num_prps)'
      BY <1>4, <2>6, <2>7, <3>1 DEF Gathered
    <3>3. walk'[w].prp_offs \in 1 .. walk'[w].num_prps
      BY <3>1
    <3>4. AtEntry(cmd[w], walk[w].prp_offs - 1, cmd[w].len - walk[w].remaining)'
      BY <1>4, <1>7, <3>1 DEF AtEntry
    <3> QED
      BY <2>3, <3>1, <3>2, <3>3, <3>4 DEF DmaInv, InDma
  <2> QED
    BY <2>8, <2>9
<1>20. /\ TransferExact'
       /\ storage' = [s \in Sectors |-> storage'[s]] /\ mem' = [a \in Addrs |-> mem'[a]]
  BY <1>4, <1>6, <1>8, <1>11, <1>12, NothingMoved
<1> QED
  BY <1>12, <1>18, <1>19, <1>20 DEF IInv

(* There is an end of the run.                                              *)
LEMMA RunEnds ==
  ASSUME paddr_list \in Seq(Nat), NEW n \in Nat, NEW i \in 1 .. n
  PROVE  RunEnd(i, n) \in i .. n /\ Contiguous(i, RunEnd(i, n))
<1> DEFINE Ends == {j \in i .. n : j = n \/ ~Contiguous(i, j + 1)}
<1>1. Ends \in SUBSET Nat /\ n \in Ends
  OBVIOUS
<1>2. PICK j \in Ends : \A k \in Ends : j <= k
  BY <1>1, LeastElement
<1>3. j \in i .. n /\ (j = n \/ ~Contiguous(i, j + 1))
  OBVIOUS
<1>4. Contiguous(i, j)
  <2>1. CASE j = i
    BY <2>1 DEF Contiguous
  <2>2. CASE j # i
    <3>1. j - 1 \in i .. n /\ j - 1 # n /\ (j - 1) + 1 = j /\ j - 1 \notin Ends
      BY <1>2, <1>3, <2>2
    <3> QED
      BY <3>1
  <2> QED
    BY <2>1, <2>2
<1> HIDE DEF Ends
<1>5. \E e \in i .. n : Contiguous(i, e) /\ (e = n \/ ~Contiguous(i, e + 1))
  BY <1>3, <1>4
<1> QED
  BY <1>5 DEF RunEnd

LEMMA TransferRunIInv ==
  ASSUME IInv, NEW w \in Workers, TransferRun(w)
  PROVE  IInv'
<1> DEFINE c == cmd[w]
           v == walk[w]
<1>1. ValidCmd(c) /\ v \in WalkType /\ WalkInv(c, v) /\ v.pc = "transfer" /\ paddr_list \in Seq(Nat)
  BY CommandsValid DEF IInv, TypeOK, TransferRun
<1>2. /\ c.len \in Nat \ {0} /\ c.slba \in Nat /\ v.offset \in Nat /\ v.prp_offs \in Nat \ {0}
      /\ v.num_prps \in Nat
      /\ v.remaining \in 1 .. c.len /\ v.offset = c.slba + (c.len - v.remaining)
      /\ v.prp2_offs <= Len(List(c))
  BY <1>1 DEF ValidCmd, WalkType, WalkInv
<1>3. PICK m \in Nat : m = c.len - v.remaining /\ v.offset = c.slba + m /\ MovedBy(w) = m
                       /\ m < c.len /\ v.remaining = c.len - m
  <2>1. PICK l \in Nat, r \in Nat : l = c.len /\ r = v.remaining /\ r \in 1 .. l
    BY <1>2
  <2>2. PICK m \in Nat : m = l - r
    BY <2>1
  <2>3. MovedBy(w) = v.offset - c.slba
    BY DEF MovedBy
  <2>4. v.offset - c.slba = m /\ v.offset = c.slba + m
    BY <1>2, <2>1, <2>2
  <2> QED
    BY <2>1, <2>2, <2>3, <2>4
<1>4. PICK paddr : paddr = EntryAt(v.prp_offs)
  OBVIOUS
<1>5. PICK last : last = IF v.prp_offs <= v.num_prps THEN RunEnd(v.prp_offs, v.num_prps)
                         ELSE v.prp_offs
  OBVIOUS
<1>6. PICK size : size = Least(v.remaining, PieceAt(paddr, v.remaining) + (last - v.prp_offs) * PAGE_SIZE)
  OBVIOUS
<1>7. PICK n : n = [Moved(v, size, "transfer") EXCEPT !.prp_offs = last + 1]
  OBVIOUS
<1>8. /\ ioat_dma_submit(c.op, paddr, v.offset, size)
      /\ walk' = [walk EXCEPT ![w] = n]
      /\ UNCHANGED <<using_dma, cmd, paddr_list, shared>>
  BY <1>4, <1>5, <1>6, <1>7 DEF TransferRun
<1>9. paddr \in Nat
  BY <1>1, <1>2, <1>4 DEF EntryAt
<1>10. /\ last \in Nat /\ v.prp_offs <= last
       /\ v.prp_offs <= v.num_prps => last <= v.num_prps /\ Contiguous(v.prp_offs, last)
  <2>1. CASE v.prp_offs <= v.num_prps
    <3>1. v.prp_offs \in 1 .. v.num_prps
      BY <1>2, <2>1
    <3>2. last \in v.prp_offs .. v.num_prps /\ Contiguous(v.prp_offs, last)
      BY <1>1, <1>2, <1>5, <2>1, <3>1, RunEnds
    <3> QED
      BY <1>2, <3>2
  <2>2. CASE ~(v.prp_offs <= v.num_prps)
    BY <1>2, <1>5, <2>2
  <2> QED
    BY <2>1, <2>2
<1>11. size \in 1 .. v.remaining
  <2>1. PICK r \in Nat \ {0} : r = v.remaining
    BY <1>2
  <2>2. PICK e \in Nat : e = (last - v.prp_offs) * PAGE_SIZE
    <3>1. last - v.prp_offs \in Nat
      BY <1>2, <1>10
    <3> QED
      BY <3>1, PageAssumption
  <2>3. PICK o \in 0 .. PAGE_SIZE - 1 : o = paddr % PAGE_SIZE
    BY <1>9, PageAssumption, Euclid
  <2>4. PieceAt(paddr, r) \in 1 .. r
    BY <2>1, <2>3, PageAssumption DEF PieceAt, Least
  <2> QED
    BY <1>6, <2>1, <2>2, <2>4 DEF Least
<1>12. /\ n \in WalkType /\ n.remaining = v.remaining - size /\ n.offset = v.offset + size
       /\ n.pc = (IF v.remaining = size THEN "done" ELSE "transfer")
       /\ n.prp_offs = last + 1 /\ n.prp2_offs = v.prp2_offs /\ n.num_prps = v.num_prps
  <2>1. v.remaining - size \in Nat /\ v.offset + size \in Nat /\ last + 1 \in Nat
    BY <1>2, <1>10, <1>11, SMTT(30)
  <2> HIDE DEF v
  <2> QED
    BY <1>1, <1>7, <2>1 DEF Moved, WalkType
<1>13. PICK l \in Nat, r \in Nat, s \in Nat, b \in Nat :
          /\ l = c.len /\ r = v.remaining /\ s = size /\ b = c.slba
          /\ s \in 1 .. r /\ r \in 1 .. l /\ m = l - r /\ n.remaining = r - s
          /\ n.offset = b + (l - n.remaining) /\ l - n.remaining = m + s
  <2>1. size \in Nat /\ v.remaining \in Nat
    BY <1>2, <1>11
  <2>2. PICK l \in Nat, r \in Nat, s \in Nat, b \in Nat :
          l = c.len /\ r = v.remaining /\ s = size /\ b = c.slba
    BY <1>2, <2>1, Zenon
  <2>3. s \in 1 .. r /\ r \in 1 .. l /\ m = l - r /\ n.remaining = r - s /\ n.offset = (b + m) + s
    BY <1>2, <1>3, <1>11, <1>12, <2>2
  <2> QED
    BY <2>2, <2>3
<1> HIDE DEF c
<1>14. WalkInv(c, n)
  <2>1. n.remaining <= l /\ (n.pc = "transfer" => n.remaining > 0)
        /\ (n.pc = "done" => n.remaining = 0) /\ n.prp_offs > 0
    BY <1>10, <1>12, <1>13
  <2> HIDE DEF v
  <2> QED
    BY <1>2, <1>12, <1>13, <2>1 DEF WalkInv
<1>15. /\ walk' \in [Workers -> WalkType] /\ walk'[w] = n
       /\ \A u \in Workers \ {w} : walk'[u] = walk[u]
       /\ \A u \in Workers : WalkInv(cmd'[u], walk'[u])
  BY <1>8, <1>12, <1>14, WalkChange DEF c
<1>16. TypeOK'
  <2>1. failed' \in BOOLEAN
    BY <1>8 DEF ioat_dma_submit, IInv, TypeOK
  <2> QED
    BY <1>8, <1>15, <2>1 DEF IInv, TypeOK
<1>17. ASSUME ~shared
       PROVE  /\ Gathered(c, v.num_prps) /\ v.num_prps = NrPages(c) /\ v.prp_offs \in 1 .. NrPages(c)
              /\ \A j \in 0 .. size - 1 : BufferAddr(c, m + j) = paddr + j
              /\ size < v.remaining => AtEntry(c, last, m + size) /\ last < NrPages(c)
  <2>1. /\ Gathered(c, v.num_prps) /\ v.num_prps = NrPages(c) /\ v.prp_offs \in 1 .. v.num_prps
        /\ AtEntry(c, v.prp_offs - 1, m)
    BY <1>1, <1>3, <1>17 DEF IInv, DmaInv, c
  <2>2. PICK N, k : N \in Nat /\ k \in 1 .. N /\ N = NrPages(c) /\ k = v.prp_offs
    BY <1>1, <2>1, PagesCover
  <2>3. last \in k .. N /\ Contiguous(k, last)
    BY <1>2, <1>10, <2>1, <2>2
  <2>4. \A j \in 1 .. N : EntryAt(j) = Entry(c, j)
    BY <1>1, <2>1, <2>2 DEF EntryAt, Gathered
  <2>5. \A j \in k + 1 .. last : Entry(c, j) = Entry(c, j - 1) + PAGE_SIZE
    <3>1. \A j \in k + 1 .. last : j \in 1 .. N /\ j - 1 \in 1 .. N
      BY <2>2, <2>3
    <3> QED
      BY <2>3, <2>4, <3>1 DEF Contiguous
  <2>6. size = RunSize(c, k, last, m)
    BY <1>3, <1>4, <1>6, <2>2, <2>4 DEF RunSize
  <2>7. m \in 0 .. c.len - 1 /\ AtEntry(c, k - 1, m)
    BY <1>2, <1>3, <2>1, <2>2
  <2>8. /\ \A j \in 0 .. size - 1 : BufferAddr(c, m + j) = Entry(c, k) + j
        /\ size < c.len - m => AtEntry(c, last, m + size) /\ last < NrPages(c)
    BY <1>1, <2>2, <2>3, <2>5, <2>6, <2>7, RunPlaces
  <2>9. paddr = Entry(c, k)
    BY <1>4, <2>2, <2>4
  <2> QED
    BY <1>3, <2>1, <2>2, <2>8, <2>9
<1>18. DmaInv'
  <2> SUFFICES ASSUME ~shared' PROVE DmaInv'
    BY DEF DmaInv
  <2>1. ~shared
    BY <1>8
  <2>2. \A u \in Workers : InDma(u) => u = w
    BY <1>1, <2>1 DEF IInv, DmaInv, InDma
  <2>3. \A u \in Workers \ {w} : walk'[u].pc \notin {"gather", "transfer"}
    BY <1>15, <2>2 DEF InDma
  <2>4. walk'[w].pc # "gather"
    BY <1>12, <1>15
  <2>5. walk'[w].pc = "transfer" =>
          /\ walk'[w].num_prps = NrPages(cmd'[w])
          /\ Gathered(cmd[w], walk[w].num_prps)'
          /\ walk'[w].prp_offs \in 1 .. walk'[w].num_prps
          /\ AtEntry(cmd'[w], walk'[w].prp_offs - 1, cmd'[w].len - walk'[w].remaining)
    <3> SUFFICES ASSUME walk'[w].pc = "transfer"
                 PROVE  /\ walk'[w].num_prps = NrPages(cmd'[w])
                        /\ Gathered(cmd[w], walk[w].num_prps)'
                        /\ walk'[w].prp_offs \in 1 .. walk'[w].num_prps
                        /\ AtEntry(cmd'[w], walk'[w].prp_offs - 1, cmd'[w].len - walk'[w].remaining)
      OBVIOUS
    <3>1. size < v.remaining
      BY <1>12, <1>13, <1>15
    <3>2. AtEntry(c, last, m + size) /\ last < NrPages(c) /\ NrPages(c) \in Nat
      BY <1>1, <1>17, <2>1, <3>1, PagesCover
    <3>3. cmd'[w] = c /\ walk'[w].num_prps = NrPages(c) /\ Gathered(cmd[w], walk[w].num_prps)'
      BY <1>8, <1>12, <1>15, <1>17, <2>1 DEF Gathered, c
    <3>4. walk'[w].prp_offs = last + 1 /\ walk'[w].prp_offs - 1 = last
          /\ c.len - walk'[w].remaining = m + size
      BY <1>10, <1>12, <1>13, <1>15
    <3>5. walk'[w].prp_offs \in 1 .. NrPages(c)
      BY <1>10, <3>2, <3>4
    <3> QED
      BY <3>2, <3>3, <3>4, <3>5
  <2> QED
    BY <2>3, <2>4, <2>5 DEF DmaInv, InDma
<1>19. /\ TransferExact'
       /\ storage' = [s1 \in Sectors |-> storage'[s1]] /\ mem' = [a \in Addrs |-> mem'[a]]
  <2>1. CASE Move(c.op, paddr, v.offset, size) /\ UNCHANGED failed
    <3>1. size \in Nat /\ size <= walk[w].remaining /\ walk'[w].offset = walk[w].offset + size
      BY <1>12, <1>13, <1>15
    <3>2. ~shared => \A j \in 0 .. size - 1 : BufferAddr(cmd[w], MovedBy(w) + j) = paddr + j
      BY <1>3, <1>17 DEF c
    <3> QED
      BY <1>1, <1>8, <1>9, <1>15, <2>1, <3>1, <3>2, NextMoved DEF c
  <2>2. CASE failed' = TRUE /\ UNCHANGED <<storage, mem>>
    BY <2>2 DEF TransferExact, IInv
  <2> QED
    BY <1>8, <2>1, <2>2 DEF ioat_dma_submit
<1> QED
  BY <1>15, <1>16, <1>18, <1>19 DEF IInv

-----------------------------------------------------------------------------
(* The theorems.                                                            *)

LEMMA InitIInv == Init => IInv
<1> SUFFICES ASSUME Init PROVE IInv
  OBVIOUS
<1>1. \A w \in Workers : ValidCmd(cmd[w])
  BY CommandsValid DEF Init
<1>2. \A w \in Workers : cmd[w].len \in Nat \ {0} /\ cmd[w].slba \in Nat
  BY <1>1 DEF ValidCmd
<1>3. ASSUME NEW w \in Workers
      PROVE  /\ walk[w] \in WalkType /\ walk[w].pc = "idle" /\ walk[w].prp2_offs = 0
             /\ walk[w].remaining = cmd[w].len /\ walk[w].offset = cmd[w].slba
  BY <1>2 DEF Init, StartOf, WalkType
<1>4. \A w \in Workers : Len(List(cmd[w])) \in Nat
  BY <1>1, ListEntries, PagesCover
<1>5. ASSUME NEW w \in Workers PROVE WalkInv(cmd[w], walk[w])
  BY <1>2, <1>3, <1>4 DEF WalkInv
<1>6. TypeOK
  <2>1. walk \in [Workers -> WalkType]
    BY <1>3 DEF Init
  <2>2. paddr_list \in Seq(Nat)
    BY DEF Init
  <2>3. cmd \in Loads /\ using_dma \in BOOLEAN /\ shared \in BOOLEAN /\ failed \in BOOLEAN
    BY Zenon DEF Init
  <2> QED
    BY <2>1, <2>2, <2>3 DEF TypeOK
<1>7. DmaInv
  BY <1>3 DEF DmaInv, InDma
<1>8. storage = [s \in Sectors |-> storage[s]] /\ mem = [a \in Addrs |-> mem[a]]
  BY DEF Init
<1>9. TransferExact
  <2>1. \A w \in Workers : MovedByAll[w] = 0
    BY <1>2, <1>3 DEF MovedByAll, MovedBy
  <2>2. StorageExact(storage, MovedByAll)
    BY <2>1 DEF StorageExact, Writes, Init
  <2>3. MemExact(mem, MovedByAll)
    BY <2>1 DEF MemExact, Reads, Init
  <2> QED
    BY <2>2, <2>3, ExactInParts
<1> QED
  BY <1>5, <1>6, <1>7, <1>8, <1>9 DEF IInv

LEMMA StepIInv == IInv /\ [Next]_vars => IInv'
<1> SUFFICES ASSUME IInv, [Next]_vars PROVE IInv'
  OBVIOUS
<1>1. ASSUME NEW w \in Workers, Begin(w) PROVE IInv'
  BY <1>1, BeginIInv
<1>2. ASSUME NEW w \in Workers, CopyPiece(w) PROVE IInv'
  BY <1>2, CopyPieceIInv
<1>3. ASSUME NEW w \in Workers, GatherPrp(w) PROVE IInv'
  BY <1>3, GatherPrpIInv
<1>4. ASSUME NEW w \in Workers, TransferRun(w) PROVE IInv'
  BY <1>4, TransferRunIInv
<1>5. CASE UNCHANGED vars
  <2>1. UNCHANGED <<storage, mem, using_dma, cmd, walk, paddr_list, shared, failed>>
    BY <1>5 DEF vars
  <2>2. TypeOK' /\ DmaInv'
    BY <2>1 DEF IInv, TypeOK, DmaInv, Gathered, InDma
  <2>3. TransferExact'
    BY <2>1 DEF IInv, TransferExact, BufferSoFar, Done, MovedBy
  <2> QED
    BY <2>1, <2>2, <2>3 DEF IInv
<1> QED
  BY <1>1, <1>2, <1>3, <1>4, <1>5 DEF Next

(* The states of the transfer: types, and how far each worker's loop is.    *)
THEOREM Invariance == Spec => []IInv
  BY InitIInv, StepIInv, PTL DEF Spec

(* Types of io.c's loop variables and of the array of addresses.            *)
THEOREM TypeCorrect == Spec => []TypeOK
<1>1. IInv => TypeOK
  BY DEF IInv
<1> QED
  BY <1>1, Invariance, PTL

(* The blocks moved so far are the first of their command, each at its      *)
(* place, and nothing else has changed (__do_perform_io and                 *)
(* __do_perform_io_using_dma).                                              *)
THEOREM TransfersExact == Spec => []TransferExact
<1>1. IInv => TransferExact
  BY DEF IInv
<1> QED
  BY <1>1, Invariance, PTL

(* A transfer moves exactly the command's length, and the walk along the    *)
(* PRP list never passes its end.                                           *)
THEOREM WalksStayInList == Spec => []WalkStaysInList
<1>1. IInv => WalkStaysInList
  <2> SUFFICES ASSUME IInv, NEW w \in Workers
               PROVE  /\ walk[w].prp2_offs <= Len(List(cmd[w]))
                      /\ walk[w].remaining >= 0
                      /\ walk[w].pc = "done" => MovedBy(w) = cmd[w].len
    BY DEF WalkStaysInList
  <2>1. /\ walk[w] \in WalkType /\ WalkInv(cmd[w], walk[w]) /\ ValidCmd(cmd[w])
    BY CommandsValid DEF IInv, TypeOK
  <2>2. walk[w].remaining \in Nat /\ cmd[w].len \in Nat /\ cmd[w].slba \in Nat /\ walk[w].offset \in Nat
    BY <2>1 DEF WalkType, ValidCmd
  <2>3. walk[w].pc = "done" => walk[w].offset = cmd[w].slba + cmd[w].len
    BY <2>1, <2>2 DEF WalkInv
  <2> QED
    BY <2>1, <2>2, <2>3 DEF WalkInv, MovedBy
<1> QED
  BY <1>1, Invariance, PTL
=============================================================================
