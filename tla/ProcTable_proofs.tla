--------------------------- MODULE ProcTable_proofs ---------------------------
(***************************************************************************)
(* Proofs about ProcTable: for a table of any size, any number of requests *)
(* and any times, the lists the dispatcher relinks without a lock stay a   *)
(* partition of the table, and what the worker reads and writes meanwhile  *)
(* neither completes a request twice nor loses one.                        *)
(*                                                                         *)
(* The argument has two layers.  Lists says that free list and I/O list    *)
(* are sequences of entries threaded by next (and prev); only the          *)
(* dispatcher changes it, one step at a time.  The rest of the inductive   *)
(* invariant says, in terms of the sets of entries on the two lists, where *)
(* the worker can stand and what the entries hold.                         *)
(***************************************************************************)
EXTENDS ProcTable, FiniteSetTheorems, SequenceTheorems, WellFoundedInduction, TLAPS

N == NR_MAX_PARALLEL_IO
Links == Entries \cup {NIL}

Entry == [cmd : Reqs \cup {NoReq}, wb : Reqs \cup {NoReq}, nsecs_target : Times,
          is_completed : BOOLEAN, is_copied : BOOLEAN, writeback_cmd : BOOLEAN,
          prev : Links, next : Links]

(* While d.pc is one of these, the dispatcher has an entry in hand.         *)
FillPcs == {"is_copied", "next", "writeback_cmd", "link"}
Todo == [req : Reqs, target : Times]

TypeOK ==
  /\ proc_table \in [Entries -> Entry]
  /\ free_seq \in Entries /\ free_seq_end \in Entries
  /\ io_seq \in Links /\ io_seq_end \in Links
  /\ proc_io_nsecs \in Times /\ now \in Times /\ proc_io_nsecs <= now
  /\ d \in [pc : {"idle", "enqueue", "reclaim"} \cup FillPcs, todo : Seq(Todo), entry : Links]
  /\ (d.pc \in FillPcs) <=> (d.entry # NIL)
  /\ (d.pc \in FillPcs \cup {"enqueue"}) <=> (d.todo # <<>>)
  /\ w \in [pc : {"start", "visit", "copy", "check", "mark", "next"}, curr : Links]
  /\ w.pc # "start" => w.curr # NIL
  /\ late \in BOOLEAN /\ torn \in BOOLEAN
  /\ posted \in [Reqs \cup {NoReq} -> Nat]

(* The n entries s[1], ..., s[n] are distinct and threaded by next.         *)
Threaded(s, n, first) ==
  /\ n \in Nat /\ s \in [1 .. n -> Entries]
  /\ \A j, k \in 1 .. n : s[j] = s[k] => j = k
  /\ first = IF n = 0 THEN NIL ELSE s[1]
  /\ \A k \in 1 .. n : proc_table[s[k]].next = IF k = n THEN NIL ELSE s[k+1]

Elems(s, n) == {s[k] : k \in 1 .. n}

(* f and io are the free list and the I/O list, which is threaded by prev   *)
(* too; with the entry in hand they make up the table.                      *)
Lists(f, nf, io, ni) ==
  /\ Threaded(f, nf, free_seq) /\ nf > 0 /\ free_seq_end = f[nf]
  /\ Threaded(io, ni, io_seq) /\ (ni > 0 => io_seq_end = io[ni])
  /\ \A k \in 1 .. ni : proc_table[io[k]].prev = IF k = 1 THEN NIL ELSE io[k-1]
  /\ Elems(f, nf) \cap Elems(io, ni) = {}
  /\ InHand \cap (Elems(f, nf) \cup Elems(io, ni)) = {}
  /\ Elems(f, nf) \cup Elems(io, ni) \cup InHand = Entries

ListInv == \E f, nf, io, ni : Lists(f, nf, io, ni)

OnFree == OnList(free_seq)
OnIo == OnList(io_seq)

-----------------------------------------------------------------------------
(* Induction over the indices of a walk.                                    *)

(* A set of natural numbers has a least element.                            *)
LEMMA LeastElement ==
  ASSUME NEW T \in SUBSET Nat, T # {}
  PROVE  \E x \in T : \A y \in T : x <= y
<1> DEFINE Less == {p \in Nat \X Nat : p[1] < p[2]}
<1>1. OpToRel(<, Nat) = Less
  BY DEF OpToRel
<1>2. IsWellFoundedOn(OpToRel(<, Nat), Nat)
  BY NatLessThanWellFounded
<1>3. \E x \in T : \A y \in T : ~ (<<y, x>> \in Less)
  BY <1>1, <1>2, WFMin, ZenonT(30)
<1>4. \A x, y \in Nat : ~ (<<y, x>> \in Less) => x <= y
  OBVIOUS
<1> HIDE DEF Less
<1> QED
  BY <1>3, <1>4

(* Two walks with the same start and the same steps are the same.           *)
LEMMA SameWalk ==
  ASSUME NEW n \in Nat, NEW g, NEW h,
         g[0] = h[0], \A k \in 1 .. n : g[k-1] = h[k-1] => g[k] = h[k]
  PROVE  \A k \in 0 .. n : g[k] = h[k]
<1> DEFINE T == {k \in 0 .. n : g[k] # h[k]}
<1>1. ASSUME T # {} PROVE FALSE
  <2>0. T \in SUBSET Nat
    OBVIOUS
  <2>1. PICK x \in T : \A y \in T : x <= y
    <3> HIDE DEF T
    <3> QED
      BY <1>1, <2>0, LeastElement
  <2>2. x \in 1 .. n /\ x - 1 \in 0 .. n
    BY <2>1
  <2>3. g[x-1] = h[x-1]
    BY <2>1, <2>2
  <2> QED
    BY <2>1, <2>2, <2>3
<1> QED
  BY <1>1

-----------------------------------------------------------------------------
(* What walking along a threaded list finds.                                *)

(* A list has no more entries than the table.                               *)
LEMMA ListLength ==
  ASSUME NEW s, NEW n, NEW first, Threaded(s, n, first)
  PROVE  n <= N
<1>1. n \in Nat /\ s \in Injection(1 .. n, Entries)
  BY DEF Threaded, Injection, IsInjective
<1>2. IsFiniteSet(Entries) /\ Cardinality(Entries) = N
  BY FS_Interval, TableSize DEF Entries, N
<1>3. Cardinality(1 .. n) = n
  BY <1>1, FS_Interval
<1> QED
  BY <1>1, <1>2, <1>3, FS_Injection

(* NextWalk follows the list and then stays at NIL.                         *)
LEMMA NextWalkIs ==
  ASSUME NEW s, NEW n, NEW first, Threaded(s, n, first)
  PROVE  \A k \in 0 .. N : NextWalk(first)[k] = IF k < n THEN s[k+1] ELSE NIL
<1> DEFINE g == [k \in 0 .. N |-> IF k < n THEN s[k+1] ELSE NIL]
           Walks(f) == f = [j \in 0 .. N |->
                              IF j = 0 THEN first
                              ELSE IF f[j-1] = NIL THEN NIL ELSE proc_table[f[j-1]].next]
<1>0. N \in Nat /\ n \in Nat /\ s \in [1 .. n -> Entries] /\ NIL \notin Entries
  BY TableSize DEF N, Threaded, NIL, Entries
<1>1. Walks(g)
  <2> SUFFICES ASSUME NEW j \in 0 .. N
               PROVE  g[j] = IF j = 0 THEN first
                             ELSE IF g[j-1] = NIL THEN NIL ELSE proc_table[g[j-1]].next
    OBVIOUS
  <2>1. CASE j = 0
    BY <1>0, <2>1 DEF Threaded
  <2>2. CASE j # 0 /\ j <= n
    <3>1. j \in 1 .. n /\ g[j-1] = s[j] /\ s[j] \in Entries
      BY <1>0, <2>2
    <3>2. proc_table[s[j]].next = IF j = n THEN NIL ELSE s[j+1]
      BY <3>1 DEF Threaded
    <3> QED
      BY <1>0, <2>2, <3>1, <3>2
  <2>3. CASE j > n
    BY <1>0, <2>3
  <2> QED
    BY <1>0, <2>1, <2>2, <2>3
<1>2. Walks(NextWalk(first))
  <2>1. NextWalk(first) = CHOOSE f : Walks(f)
    BY DEF NextWalk, N
  <2> HIDE DEF Walks, g
  <2> QED
    BY <1>1, <2>1
<1>3. ASSUME NEW f, Walks(f) PROVE \A k \in 0 .. N : f[k] = g[k]
  <2>0. N \in Nat
    BY <1>0
  <2>1. f[0] = g[0]
    <3>1. 0 \in 0 .. N
      BY <2>0
    <3>2. f[0] = first /\ g[0] = first
      <4> HIDE DEF g
      <4> QED
        BY <1>1, <1>3, <3>1
    <3> QED
      BY <3>2
  <2>2. \A k \in 1 .. N : f[k-1] = g[k-1] => f[k] = g[k]
    <3> SUFFICES ASSUME NEW k \in 1 .. N, f[k-1] = g[k-1] PROVE f[k] = g[k]
      OBVIOUS
    <3>1. k \in 0 .. N /\ k # 0
      BY <1>0
    <3>2. /\ f[k] = IF f[k-1] = NIL THEN NIL ELSE proc_table[f[k-1]].next
          /\ g[k] = IF g[k-1] = NIL THEN NIL ELSE proc_table[g[k-1]].next
      <4> HIDE DEF g
      <4> QED
        BY <1>1, <1>3, <3>1
    <3> QED
      BY <3>2
  <2> HIDE DEF g, Walks
  <2> QED
    BY <2>0, <2>1, <2>2, SameWalk
<1>4. \A k \in 0 .. N : g[k] = IF k < n THEN s[k+1] ELSE NIL
  OBVIOUS
<1> HIDE DEF g, Walks
<1> QED
  BY <1>2, <1>3, <1>4

(* So a threaded list's entries are those NextWalk finds, and it ends.      *)
LEMMA OnListIs ==
  ASSUME NEW s, NEW n, NEW first, Threaded(s, n, first)
  PROVE  OnList(first) = Elems(s, n) /\ Ends(first)
<1> DEFINE f == NextWalk(first)
<1>0. /\ N \in Nat /\ N = NR_MAX_PARALLEL_IO /\ n \in Nat /\ n <= N
      /\ s \in [1 .. n -> Entries] /\ NIL \notin Entries
  <2>1. n <= N
    BY ListLength
  <2> QED
    BY <2>1, TableSize DEF N, Threaded, NIL, Entries
<1>1. \A k \in 0 .. N : f[k] = IF k < n THEN s[k+1] ELSE NIL
  BY NextWalkIs
<1>2. OnList(first) = {f[k] : k \in 0 .. N} \ {NIL} /\ (Ends(first) <=> f[N] = NIL)
  BY <1>0 DEF OnList, Ends
<1> HIDE DEF f
<1>3. f[N] = NIL
  BY <1>0, <1>1
<1>4. ASSUME NEW i \in Elems(s, n) PROVE i \in OnList(first)
  <2>1. PICK k \in 1 .. n : i = s[k]
    BY <1>4 DEF Elems
  <2>2. k - 1 \in 0 .. N /\ f[k-1] = s[k] /\ s[k] # NIL
    BY <1>0, <1>1, <2>1
  <2> QED
    BY <1>2, <2>1, <2>2
<1>5. ASSUME NEW i \in OnList(first) PROVE i \in Elems(s, n)
  <2>1. PICK k \in 0 .. N : i = f[k] /\ i # NIL
    BY <1>2, <1>5
  <2>2. k + 1 \in 1 .. n /\ i = s[k+1]
    BY <1>0, <1>1, <2>1
  <2> QED
    BY <2>2 DEF Elems
<1> QED
  BY <1>2, <1>3, <1>4, <1>5

(* A set of numbers up to n that is not empty has a greatest element.       *)
LEMMA GreatestElement ==
  ASSUME NEW n \in Nat, NEW S \in SUBSET (0 .. n), S # {}
  PROVE  \E x \in S : \A y \in S : y <= x
<1> DEFINE T == {n - x : x \in S}
<1>1. T \in SUBSET Nat /\ T # {}
  <2>1. \A x \in S : x \in 0 .. n /\ n - x \in Nat
    OBVIOUS
  <2>2. PICK x \in S : TRUE
    OBVIOUS
  <2>3. n - x \in T
    OBVIOUS
  <2> QED
    BY <2>1, <2>3
<1>2. PICK m \in T : \A y \in T : m <= y
  <2> HIDE DEF T
  <2> QED
    BY <1>1, LeastElement
<1>3. PICK x \in S : m = n - x
  BY <1>2
<1>4. ASSUME NEW y \in S PROVE y <= x
  <2>1. m <= n - y
    BY <1>2
  <2> QED
    BY <1>3, <2>1
<1> QED
  BY <1>4

(* Walking back from the end of the I/O list stops at the last entry that   *)
(* is already due or due no later than target, or runs off the head.        *)
LEMMA InsertionPointIs ==
  ASSUME NEW io, NEW ni, Threaded(io, ni, io_seq), ni > 0, io_seq_end = io[ni],
         \A k \in 1 .. ni : proc_table[io[k]].prev = IF k = 1 THEN NIL ELSE io[k-1],
         NEW target
  PROVE  \E p \in 0 .. ni :
           /\ InsertionPoint(target) = IF p = 0 THEN NIL ELSE io[p]
           /\ p > 0 => StopsAt(io[p], target)
           /\ \A k \in p+1 .. ni : ~StopsAt(io[k], target)
<1>0. /\ N \in Nat /\ ni \in Nat /\ ni <= N /\ ni > 0
      /\ io \in [1 .. ni -> Entries] /\ NIL \notin Entries
  <2>1. ni <= N
    BY ListLength
  <2> QED
    BY <2>1, TableSize DEF N, Threaded, NIL, Entries
<1> DEFINE S == {0} \cup {k \in 1 .. ni : StopsAt(io[k], target)}
<1>1. PICK p \in S : \A k \in S : k <= p
  <2>1. S \in SUBSET (0 .. ni) /\ S # {}
    BY <1>0
  <2> HIDE DEF S
  <2> QED
    BY <1>0, <2>1, GreatestElement
<1>2. /\ p \in 0 .. ni
      /\ p > 0 => StopsAt(io[p], target)
      /\ \A k \in p+1 .. ni : ~StopsAt(io[k], target)
  <2>1. p \in 0 .. ni /\ (p > 0 => StopsAt(io[p], target))
    BY <1>0, <1>1
  <2>2. ASSUME NEW k \in p+1 .. ni, StopsAt(io[k], target) PROVE FALSE
    <3>1. k \in S
      BY <1>0, <2>1, <2>2
    <3> QED
      BY <1>0, <1>1, <2>1, <2>2, <3>1
  <2> QED
    BY <2>1, <2>2
<1> HIDE DEF S
<1> DEFINE stop == IF p = 0 THEN NIL ELSE io[p]
           g == [j \in 0 .. N |-> IF j < ni - p THEN io[ni-j] ELSE stop]
           step(x) == IF x = NIL THEN NIL
                      ELSE IF StopsAt(x, target) THEN x ELSE proc_table[x].prev
           Walks(h) == h = [j \in 0 .. N |-> IF j = 0 THEN io_seq_end ELSE
                              IF h[j-1] = NIL THEN NIL
                              ELSE IF StopsAt(h[j-1], target) THEN h[j-1]
                              ELSE proc_table[h[j-1]].prev]
<1>3. g[0] = io_seq_end /\ g[N] = stop
  BY <1>0, <1>2
<1>4. \A j \in 1 .. N : g[j] = step(g[j-1])
  <2> SUFFICES ASSUME NEW j \in 1 .. N PROVE g[j] = step(g[j-1])
    OBVIOUS
  <2>1. j \in 0 .. N /\ j - 1 \in 0 .. N
    BY <1>0
  <2>2. CASE j - 1 < ni - p
    <3> DEFINE k == ni - (j - 1)
    <3>1. k \in p+1 .. ni /\ k \in 1 .. ni
      BY <1>0, <1>2, <2>1, <2>2
    <3>2. g[j-1] = io[k] /\ io[k] \in Entries
      BY <1>0, <2>1, <2>2, <3>1
    <3>3. ~StopsAt(io[k], target)
      BY <1>2, <3>1
    <3>4. step(g[j-1]) = proc_table[io[k]].prev
      BY <1>0, <3>2, <3>3
    <3>5. proc_table[io[k]].prev = IF k = 1 THEN NIL ELSE io[k-1]
      BY <3>1
    <3>6. g[j] = IF j < ni - p THEN io[ni-j] ELSE stop
      BY <2>1
    <3>7. CASE j < ni - p
      BY <1>0, <1>2, <3>4, <3>5, <3>6, <3>7
    <3>8. CASE ~(j < ni - p)
      <4>1. k = p + 1
        BY <1>0, <1>2, <2>1, <2>2, <3>8
      <4> QED
        BY <1>0, <1>2, <3>4, <3>5, <3>6, <3>8, <4>1
    <3> QED
      BY <3>7, <3>8
  <2>3. CASE ~(j - 1 < ni - p)
    <3>1. g[j] = stop /\ g[j-1] = stop
      BY <1>0, <1>2, <2>1, <2>3
    <3> QED
      BY <1>0, <1>2, <3>1
  <2> QED
    BY <2>2, <2>3
<1>5. g = [j \in 0 .. N |-> g[j]]
  OBVIOUS
<1> HIDE DEF g, stop
<1>6. Walks(g)
  <2> SUFFICES ASSUME NEW j \in 0 .. N
               PROVE  g[j] = IF j = 0 THEN io_seq_end ELSE
                               IF g[j-1] = NIL THEN NIL
                               ELSE IF StopsAt(g[j-1], target) THEN g[j-1]
                               ELSE proc_table[g[j-1]].prev
    BY <1>5
  <2> QED
    BY <1>0, <1>3, <1>4
<1>7. ASSUME NEW h, Walks(h) PROVE \A k \in 0 .. N : h[k] = g[k]
  <2>0. N \in Nat
    BY <1>0
  <2>1. h[0] = g[0]
    BY <1>0, <1>3, <1>7
  <2>2. \A k \in 1 .. N : h[k-1] = g[k-1] => h[k] = g[k]
    <3> SUFFICES ASSUME NEW k \in 1 .. N, h[k-1] = g[k-1] PROVE h[k] = g[k]
      OBVIOUS
    <3>1. k \in 0 .. N /\ k # 0
      BY <1>0
    <3>2. h[k] = step(h[k-1])
      BY <1>7, <3>1
    <3> QED
      BY <1>4, <3>2
  <2> HIDE DEF Walks
  <2> QED
    BY <2>0, <2>1, <2>2, SameWalk
<1>8. InsertionPoint(target) = (CHOOSE h : Walks(h))[N]
  BY DEF InsertionPoint, N
<1> HIDE DEF Walks
<1>9. InsertionPoint(target) = stop
  <2>1. Walks(CHOOSE h : Walks(h))
    BY <1>6
  <2>2. (CHOOSE h : Walks(h))[N] = g[N]
    BY <1>0, <1>7, <2>1
  <2> QED
    BY <1>3, <1>8, <2>2
<1> QED
  BY <1>2, <1>9 DEF stop

(* LastFinished is the end of the longest prefix of the I/O list that is    *)
(* finished.                                                                *)
LEMMA LastFinishedIs ==
  ASSUME NEW io, NEW ni, Threaded(io, ni, io_seq)
  PROVE  \E p \in 0 .. ni :
           /\ LastFinished = IF p = 0 THEN NIL ELSE io[p]
           /\ \A k \in 1 .. p : Finished(io[k])
<1>0. /\ N \in Nat /\ ni \in Nat /\ ni <= N
      /\ io \in [1 .. ni -> Entries] /\ NIL \notin Entries
      /\ io_seq = IF ni = 0 THEN NIL ELSE io[1]
      /\ \A k \in 1 .. ni : proc_table[io[k]].next = IF k = ni THEN NIL ELSE io[k+1]
  <2>1. ni <= N
    BY ListLength
  <2> QED
    BY <2>1, TableSize DEF N, Threaded, NIL, Entries
<1>a. \A j, k \in 1 .. ni : io[j] = io[k] => j = k
  BY DEF Threaded
<1> DEFINE T == {ni} \cup {k \in 0 .. ni - 1 : ~Finished(io[k+1])}
<1>1. PICK p \in T : \A k \in T : p <= k
  <2>1. T \in SUBSET Nat /\ T # {}
    BY <1>0
  <2> HIDE DEF T
  <2> QED
    BY <2>1, LeastElement
<1>2. /\ p \in 0 .. ni
      /\ \A k \in 1 .. p : Finished(io[k])
      /\ p < ni => ~Finished(io[p+1])
  <2>1. p \in 0 .. ni /\ (p < ni => ~Finished(io[p+1]))
    BY <1>0, <1>1
  <2>2. ASSUME NEW k \in 1 .. p, ~Finished(io[k]) PROVE FALSE
    <3>1. k - 1 \in 0 .. ni - 1 /\ (k - 1) + 1 = k
      BY <1>0, <2>1
    <3>2. k - 1 \in T
      BY <2>2, <3>1
    <3>3. p <= k - 1
      <4> HIDE DEF T
      <4> QED
        BY <1>1, <3>2
    <3> QED
      BY <1>0, <2>1, <3>3
  <2> QED
    BY <2>1, <2>2
<1> HIDE DEF T
<1> DEFINE at(k) == IF k < ni THEN io[k+1] ELSE NIL
           g == [k \in 0 .. N |-> IF k < p THEN at(k) ELSE at(p)]
           Walks(h) == h = [k \in 0 .. N |-> IF k = 0 THEN io_seq
                              ELSE IF h[k-1] = NIL THEN NIL
                              ELSE IF Finished(h[k-1]) THEN proc_table[h[k-1]].next
                              ELSE h[k-1]]
           curr == CHOOSE h : Walks(h)
           Lasts(h) == h = [k \in 0 .. N |-> IF k = 0 THEN NIL
                              ELSE IF curr[k] # curr[k-1] THEN curr[k-1] ELSE h[k-1]]
           last == [k \in 0 .. N |-> IF k = 0 \/ p = 0 THEN NIL
                                     ELSE IF k <= p THEN io[k] ELSE io[p]]
<1>3. g[0] = io_seq
  BY <1>0, <1>2
<1>4. \A k \in 1 .. N : g[k] = IF g[k-1] = NIL THEN NIL
                               ELSE IF Finished(g[k-1]) THEN proc_table[g[k-1]].next
                               ELSE g[k-1]
  <2> SUFFICES ASSUME NEW k \in 1 .. N
               PROVE  g[k] = IF g[k-1] = NIL THEN NIL
                             ELSE IF Finished(g[k-1]) THEN proc_table[g[k-1]].next
                             ELSE g[k-1]
    OBVIOUS
  <2>1. k \in 0 .. N /\ k - 1 \in 0 .. N
    BY <1>0
  <2>2. CASE k <= p
    <3>1. k \in 1 .. ni /\ k \in 1 .. p /\ k - 1 < p /\ k - 1 < ni /\ k <= ni
      BY <1>0, <1>2, <2>1, <2>2
    <3>2. g[k-1] = io[k] /\ io[k] \in Entries /\ Finished(io[k])
      BY <1>0, <1>2, <2>1, <3>1
    <3>3. g[k] = at(k)
      BY <1>0, <1>2, <2>1, <2>2
    <3>4. proc_table[io[k]].next = at(k)
      BY <1>0, <3>1
    <3> HIDE DEF g
    <3> QED
      BY <1>0, <3>2, <3>3, <3>4
  <2>3. CASE k > p
    <3>1. g[k] = at(p) /\ g[k-1] = at(p)
      BY <1>0, <1>2, <2>1, <2>3
    <3>2. at(p) # NIL => ~Finished(at(p))
      BY <1>0, <1>2
    <3> HIDE DEF g, at
    <3> QED
      BY <3>1, <3>2
  <2> QED
    BY <1>0, <1>2, <2>1, <2>2, <2>3
<1>5. \A k \in 0 .. N : g[k] = IF k < p THEN at(k) ELSE at(p)
  OBVIOUS
<1>6. Walks(g)
  <2>1. g = [k \in 0 .. N |-> g[k]]
    OBVIOUS
  <2> HIDE DEF g
  <2> SUFFICES ASSUME NEW k \in 0 .. N
               PROVE  g[k] = IF k = 0 THEN io_seq
                             ELSE IF g[k-1] = NIL THEN NIL
                             ELSE IF Finished(g[k-1]) THEN proc_table[g[k-1]].next
                             ELSE g[k-1]
    BY <2>1
  <2> QED
    BY <1>0, <1>3, <1>4
<1> HIDE DEF g
<1>7. ASSUME NEW h, Walks(h) PROVE \A k \in 0 .. N : h[k] = g[k]
  <2>0. N \in Nat
    BY <1>0
  <2>1. h[0] = g[0]
    BY <1>0, <1>3, <1>7
  <2>2. \A k \in 1 .. N : h[k-1] = g[k-1] => h[k] = g[k]
    <3> SUFFICES ASSUME NEW k \in 1 .. N, h[k-1] = g[k-1] PROVE h[k] = g[k]
      OBVIOUS
    <3>1. k \in 0 .. N /\ k # 0
      BY <1>0
    <3>2. h[k] = IF h[k-1] = NIL THEN NIL
                 ELSE IF Finished(h[k-1]) THEN proc_table[h[k-1]].next
                 ELSE h[k-1]
      BY <1>7, <3>1
    <3> QED
      BY <1>4, <3>2
  <2> HIDE DEF Walks
  <2> QED
    BY <2>0, <2>1, <2>2, SameWalk
<1>8. \A k \in 0 .. N : curr[k] = g[k]
  <2> HIDE DEF Walks
  <2>1. Walks(curr)
    BY <1>6
  <2> HIDE DEF curr
  <2> QED
    BY <1>7, <2>1
<1>9. LastFinished = (CHOOSE h : Lasts(h))[N]
  BY DEF LastFinished, N
<1> HIDE DEF curr, Walks
<1>10. \A k \in 1 .. N : /\ k <= p => curr[k] # curr[k-1] /\ curr[k-1] = io[k]
                         /\ k > p => curr[k] = curr[k-1]
  <2> SUFFICES ASSUME NEW k \in 1 .. N
               PROVE  /\ k <= p => curr[k] # curr[k-1] /\ curr[k-1] = io[k]
                      /\ k > p => curr[k] = curr[k-1]
    OBVIOUS
  <2>1. k \in 0 .. N /\ k - 1 \in 0 .. N
    BY <1>0
  <2>2. ASSUME k <= p PROVE curr[k] # curr[k-1] /\ curr[k-1] = io[k]
    <3>1. k \in 1 .. ni /\ k - 1 < p /\ k - 1 < ni
      BY <1>0, <1>2, <2>1, <2>2
    <3>2. curr[k-1] = io[k] /\ io[k] \in Entries
      BY <1>0, <1>5, <1>8, <2>1, <3>1
    <3>3. curr[k] = at(k)
      BY <1>0, <1>2, <1>5, <1>8, <2>1, <2>2
    <3>4. k < ni => k + 1 \in 1 .. ni /\ io[k+1] # io[k]
      BY <1>0, <1>a, <3>1
    <3> QED
      BY <1>0, <3>1, <3>2, <3>3, <3>4
  <2>3. ASSUME k > p PROVE curr[k] = curr[k-1]
    <3>1. curr[k] = at(p) /\ curr[k-1] = at(p)
      <4> HIDE DEF at
      <4> QED
        BY <1>0, <1>2, <1>5, <1>8, <2>1, <2>3
    <3> QED
      BY <3>1
  <2> QED
    BY <2>2, <2>3
<1>11. /\ \A k \in 0 .. N : last[k] = IF k = 0 \/ p = 0 THEN NIL
                                      ELSE IF k <= p THEN io[k] ELSE io[p]
       /\ last = [k \in 0 .. N |-> last[k]]
  OBVIOUS
<1> HIDE DEF last
<1>12. \A k \in 1 .. N : last[k] = IF curr[k] # curr[k-1] THEN curr[k-1] ELSE last[k-1]
  <2> SUFFICES ASSUME NEW k \in 1 .. N
               PROVE  last[k] = IF curr[k] # curr[k-1] THEN curr[k-1] ELSE last[k-1]
    OBVIOUS
  <2>1. k \in 0 .. N /\ k - 1 \in 0 .. N
    BY <1>0
  <2>2. CASE k <= p
    <3>1. last[k] = io[k]
      BY <1>0, <1>2, <1>11, <2>1, <2>2
    <3> QED
      BY <1>10, <2>2, <3>1
  <2>3. CASE k > p
    <3>1. last[k] = last[k-1]
      BY <1>0, <1>2, <1>11, <2>1, <2>3
    <3> QED
      BY <1>10, <2>3, <3>1
  <2> QED
    BY <1>0, <1>2, <2>2, <2>3
<1>13. Lasts(last)
  <2> SUFFICES ASSUME NEW k \in 0 .. N
               PROVE  last[k] = IF k = 0 THEN NIL
                                ELSE IF curr[k] # curr[k-1] THEN curr[k-1] ELSE last[k-1]
    BY <1>11
  <2>1. CASE k = 0
    BY <1>11, <2>1
  <2>2. CASE k # 0
    <3>1. k \in 1 .. N
      BY <1>0, <2>2
    <3> QED
      BY <1>12, <2>2, <3>1
  <2> QED
    BY <2>1, <2>2
<1>14. ASSUME NEW h, Lasts(h) PROVE \A k \in 0 .. N : h[k] = last[k]
  <2>0. N \in Nat
    BY <1>0
  <2>1. h[0] = last[0]
    BY <1>0, <1>11, <1>14
  <2>2. \A k \in 1 .. N : h[k-1] = last[k-1] => h[k] = last[k]
    <3> SUFFICES ASSUME NEW k \in 1 .. N, h[k-1] = last[k-1] PROVE h[k] = last[k]
      OBVIOUS
    <3>1. k \in 0 .. N /\ k # 0
      BY <1>0
    <3>2. h[k] = IF curr[k] # curr[k-1] THEN curr[k-1] ELSE h[k-1]
      BY <1>14, <3>1
    <3> QED
      BY <1>12, <3>2
  <2> HIDE DEF Lasts
  <2> QED
    BY <2>0, <2>1, <2>2, SameWalk
<1> HIDE DEF Lasts
<1>15. LastFinished = last[N]
  <2>1. Lasts(CHOOSE h : Lasts(h))
    BY <1>13
  <2>2. (CHOOSE h : Lasts(h))[N] = last[N]
    BY <1>0, <1>14, <2>1
  <2> QED
    BY <1>9, <2>2
<1>16. last[N] = IF p = 0 THEN NIL ELSE io[p]
  BY <1>0, <1>2, <1>11
<1> QED
  BY <1>2, <1>15, <1>16

-----------------------------------------------------------------------------
(* The two lists under the steps of the dispatcher.                         *)

Shape ==
  \A f, nf, io, ni : Lists(f, nf, io, ni) =>
    /\ OnFree = Elems(f, nf) /\ OnIo = Elems(io, ni)
    /\ Ends(free_seq) /\ Ends(io_seq)

LEMMA ShapeHolds == Shape
<1> SUFFICES ASSUME NEW f, NEW nf, NEW io, NEW ni, Lists(f, nf, io, ni)
             PROVE  /\ OnFree = Elems(f, nf) /\ OnIo = Elems(io, ni)
                    /\ Ends(free_seq) /\ Ends(io_seq)
  BY DEF Shape
<1>1. Threaded(f, nf, free_seq) /\ Threaded(io, ni, io_seq)
  BY DEF Lists
<1>2. OnList(free_seq) = Elems(f, nf) /\ Ends(free_seq)
  BY <1>1, OnListIs
<1>3. OnList(io_seq) = Elems(io, ni) /\ Ends(io_seq)
  BY <1>1, OnListIs
<1> QED
  BY <1>2, <1>3 DEF OnFree, OnIo

LEMMA ShapeHoldsNext == Shape'
BY ShapeHolds, PTL

(* What the lists look like from one entry to the next.                     *)
LEMMA ListFacts ==
  ASSUME ListInv
  PROVE  /\ OnFree \cup OnIo \cup InHand = Entries
         /\ OnFree \cap OnIo = {} /\ InHand \cap (OnFree \cup OnIo) = {}
         /\ free_seq \in OnFree /\ free_seq_end \in OnFree
         /\ proc_table[free_seq_end].next = NIL
         /\ \A i \in OnFree : proc_table[i].next \in OnFree \cup {NIL}
         /\ io_seq \in OnIo \cup {NIL} /\ (io_seq = NIL <=> OnIo = {})
         /\ \A i \in OnIo : proc_table[i].next \in OnIo \cup {NIL}
<1>1. PICK f, nf, io, ni : Lists(f, nf, io, ni)
  BY DEF ListInv
<1>2. OnFree = Elems(f, nf) /\ OnIo = Elems(io, ni)
  BY <1>1, ShapeHolds DEF Shape
<1>3. /\ nf \in Nat /\ nf > 0 /\ ni \in Nat
      /\ f \in [1 .. nf -> Entries] /\ io \in [1 .. ni -> Entries] /\ NIL \notin Entries
  BY <1>1 DEF Lists, Threaded, NIL, Entries
<1>4. /\ OnFree \cup OnIo \cup InHand = Entries
      /\ OnFree \cap OnIo = {} /\ InHand \cap (OnFree \cup OnIo) = {}
  BY <1>1, <1>2 DEF Lists
<1>5. free_seq = f[1] /\ free_seq_end = f[nf] /\ proc_table[f[nf]].next = NIL
  BY <1>1, <1>3 DEF Lists, Threaded
<1>6. free_seq \in OnFree /\ free_seq_end \in OnFree /\ proc_table[free_seq_end].next = NIL
  BY <1>2, <1>3, <1>5 DEF Elems
<1>7. ASSUME NEW i \in OnFree PROVE proc_table[i].next \in OnFree \cup {NIL}
  <2>1. PICK k \in 1 .. nf : i = f[k]
    BY <1>2 DEF Elems
  <2>2. proc_table[i].next = IF k = nf THEN NIL ELSE f[k+1]
    BY <1>1, <2>1 DEF Lists, Threaded
  <2>3. k # nf => k + 1 \in 1 .. nf
    BY <1>3, <2>1
  <2> QED
    BY <1>2, <2>2, <2>3 DEF Elems
<1>8. ASSUME NEW i \in OnIo PROVE proc_table[i].next \in OnIo \cup {NIL}
  <2>1. PICK k \in 1 .. ni : i = io[k]
    BY <1>2 DEF Elems
  <2>2. proc_table[i].next = IF k = ni THEN NIL ELSE io[k+1]
    BY <1>1, <2>1 DEF Lists, Threaded
  <2>3. k # ni => k + 1 \in 1 .. ni
    BY <1>3, <2>1
  <2> QED
    BY <1>2, <2>2, <2>3 DEF Elems
<1>9. io_seq \in OnIo \cup {NIL} /\ (io_seq = NIL <=> OnIo = {})
  <2>1. io_seq = IF ni = 0 THEN NIL ELSE io[1]
    BY <1>1 DEF Lists, Threaded
  <2>2. CASE ni = 0
    BY <1>2, <1>3, <2>1, <2>2 DEF Elems
  <2>3. CASE ni # 0
    <3>1. 1 \in 1 .. ni
      BY <1>3, <2>3
    <3> QED
      BY <1>2, <1>3, <2>1, <2>3, <3>1 DEF Elems
  <2> QED
    BY <2>2, <2>3
<1> QED
  BY <1>4, <1>6, <1>7, <1>8, <1>9

(* Following next one stays on the free list, after a step too.             *)
NextStaysFree == ListInv => \A i \in OnFree : proc_table[i].next \in OnFree \cup {NIL}

LEMMA NextStays == NextStaysFree /\ NextStaysFree'
<1>1. NextStaysFree
  BY ListFacts DEF NextStaysFree
<1> QED
  BY <1>1, PTL

(* Steps that relink nothing but the entry in hand.                         *)
LEMMA ListsFrame ==
  ASSUME ListInv, UNCHANGED lists, d'.entry = d.entry,
         \A i \in Entries \ InHand : /\ proc_table'[i].next = proc_table[i].next
                                     /\ proc_table'[i].prev = proc_table[i].prev
  PROVE  ListInv' /\ OnFree' = OnFree /\ OnIo' = OnIo
<1>1. PICK f, nf, io, ni : Lists(f, nf, io, ni)
  BY DEF ListInv
<1>2. /\ \A k \in 1 .. nf : f[k] \in Entries \ InHand
      /\ \A k \in 1 .. ni : io[k] \in Entries \ InHand
  BY <1>1 DEF Lists, Threaded, Elems
<1>3. /\ free_seq' = free_seq /\ free_seq_end' = free_seq_end
      /\ io_seq' = io_seq /\ io_seq_end' = io_seq_end /\ InHand' = InHand
  BY DEF lists, InHand
<1>4. Threaded(f, nf, free_seq)'
  BY <1>1, <1>2, <1>3 DEF Lists, Threaded
<1>5. Threaded(io, ni, io_seq)'
  BY <1>1, <1>2, <1>3 DEF Lists, Threaded
<1>6. Lists(f, nf, io, ni)'
  BY <1>1, <1>2, <1>3, <1>4, <1>5 DEF Lists
<1> QED
  BY <1>1, <1>6, ShapeHolds, ShapeHoldsNext DEF Shape, ListInv

(* The dispatcher takes the head of the free list.                          *)
LEMMA FillLists ==
  ASSUME TypeOK, ListInv, EnqueueFill
  PROVE  /\ ListInv' /\ OnIo' = OnIo
         /\ OnFree' = OnFree \ {free_seq}
         /\ free_seq \in OnFree /\ free_seq' \in OnFree'
         /\ free_seq' = proc_table[free_seq].next
<1>1. PICK f, nf, io, ni : Lists(f, nf, io, ni)
  BY DEF ListInv
<1>2. /\ nf \in Nat /\ nf > 0 /\ ni \in Nat
      /\ f \in [1 .. nf -> Entries] /\ io \in [1 .. ni -> Entries] /\ NIL \notin Entries
      /\ free_seq = f[1] /\ free_seq_end = f[nf]
      /\ \A j, k \in 1 .. nf : f[j] = f[k] => j = k
      /\ \A k \in 1 .. nf : proc_table[f[k]].next = IF k = nf THEN NIL ELSE f[k+1]
  BY <1>1 DEF Lists, Threaded, NIL, Entries
<1>3. nf > 1 /\ proc_table[free_seq].next = f[2]
  BY <1>2, SMTT(30) DEF EnqueueFill
<1>4. /\ \A i \in Entries : /\ proc_table'[i].next = proc_table[i].next
                            /\ proc_table'[i].prev = proc_table[i].prev
      /\ free_seq' = f[2] /\ free_seq_end' = free_seq_end
      /\ io_seq' = io_seq /\ io_seq_end' = io_seq_end
      /\ d'.entry = f[1] /\ InHand = {}
  <2>1. InHand = {}
    BY DEF InHand, TypeOK, EnqueueFill, FillPcs
  <2>2. \A i \in Entries : /\ proc_table'[i].next = proc_table[i].next
                           /\ proc_table'[i].prev = proc_table[i].prev
    BY DEF EnqueueFill, TypeOK, Entry
  <2>3. d'.entry = f[1]
    BY <1>2 DEF EnqueueFill, TypeOK
  <2> QED
    BY <1>3, <2>1, <2>2, <2>3 DEF EnqueueFill
<1> DEFINE f2 == [k \in 1 .. nf - 1 |-> f[k+1]]
<1>5. /\ nf - 1 \in Nat /\ nf - 1 > 0 /\ f2 \in [1 .. nf - 1 -> Entries]
      /\ \A k \in 1 .. nf - 1 : f2[k] = f[k+1] /\ k + 1 \in 1 .. nf
  BY <1>2, <1>3
<1> HIDE DEF f2
<1>6. Threaded(f2, nf - 1, free_seq)'
  <2>1. \A j, k \in 1 .. nf - 1 : f2[j] = f2[k] => j = k
    <3> SUFFICES ASSUME NEW j \in 1 .. nf - 1, NEW k \in 1 .. nf - 1, f2[j] = f2[k] PROVE j = k
      OBVIOUS
    <3>1. j + 1 = k + 1
      BY <1>2, <1>5
    <3> QED
      BY <3>1
  <2>2. \A k \in 1 .. nf - 1 :
          proc_table'[f2[k]].next = IF k = nf - 1 THEN NIL ELSE f2[k+1]
    <3> SUFFICES ASSUME NEW k \in 1 .. nf - 1
                 PROVE  proc_table'[f2[k]].next = IF k = nf - 1 THEN NIL ELSE f2[k+1]
      OBVIOUS
    <3>1. f2[k] = f[k+1] /\ k + 1 \in 1 .. nf /\ f[k+1] \in Entries
      BY <1>2, <1>5
    <3>2. k # nf - 1 => k + 1 \in 1 .. nf - 1
      BY <1>2
    <3> QED
      BY <1>2, <1>4, <1>5, <3>1, <3>2
  <2>3. free_seq' = f2[1]
    BY <1>3, <1>4, <1>5
  <2> QED
    BY <1>5, <2>1, <2>2, <2>3 DEF Threaded
<1>7. Threaded(io, ni, io_seq)'
  BY <1>1, <1>4 DEF Lists, Threaded
<1>8. Elems(f2, nf - 1) = Elems(f, nf) \ {f[1]}
  <2>1. ASSUME NEW i \in Elems(f2, nf - 1) PROVE i \in Elems(f, nf) \ {f[1]}
    <3>1. PICK k \in 1 .. nf - 1 : i = f2[k]
      BY <2>1 DEF Elems
    <3>2. i = f[k+1] /\ k + 1 \in 1 .. nf /\ k + 1 # 1 /\ 1 \in 1 .. nf
      BY <1>2, <1>3, <1>5, <3>1
    <3>3. f[k+1] # f[1]
      BY <1>2, <3>2
    <3> QED
      BY <3>2, <3>3 DEF Elems
  <2>2. ASSUME NEW i \in Elems(f, nf) \ {f[1]} PROVE i \in Elems(f2, nf - 1)
    <3>1. PICK k \in 1 .. nf : i = f[k]
      BY <2>2 DEF Elems
    <3>2. k # 1
      BY <2>2, <3>1
    <3>3. k - 1 \in 1 .. nf - 1 /\ (k - 1) + 1 = k
      BY <1>2, <3>1, <3>2
    <3>4. f2[k-1] = f[k]
      BY <1>5, <3>3
    <3> QED
      BY <3>1, <3>3, <3>4 DEF Elems
  <2> QED
    BY <2>1, <2>2
<1>9. f[1] \in Elems(f, nf) /\ f[1] \in Entries /\ f[2] \in Elems(f2, nf - 1)
  BY <1>2, <1>3, <1>5 DEF Elems
<1>10. InHand' = {f[1]}
  BY <1>2, <1>4, <1>9 DEF InHand
<1>11. Lists(f2, nf - 1, io, ni)'
  <2>1. free_seq_end' = f2[nf - 1]
    BY <1>2, <1>4, <1>5
  <2>2. \A k \in 1 .. ni : proc_table'[io[k]].prev = IF k = 1 THEN NIL ELSE io[k-1]
    BY <1>1, <1>2, <1>4 DEF Lists
  <2>3. ni > 0 => io_seq_end' = io[ni]
    BY <1>1, <1>4 DEF Lists
  <2>4. /\ Elems(f, nf) \cap Elems(io, ni) = {}
        /\ Elems(f, nf) \cup Elems(io, ni) = Entries
    BY <1>1, <1>4 DEF Lists
  <2> QED
    BY <1>5, <1>6, <1>7, <1>8, <1>9, <1>10, <2>1, <2>2, <2>3, <2>4 DEF Lists
<1> QED
  BY <1>1, <1>2, <1>3, <1>4, <1>8, <1>9, <1>11, ShapeHolds, ShapeHoldsNext DEF Shape, ListInv

(* Linking an entry e behind the p-th of the I/O list.                      *)
LEMMA InsertLists ==
  ASSUME NEW f, NEW nf, NEW io, NEW ni, Lists(f, nf, io, ni),
         NEW e \in Entries, InHand = {e}, InHand' = {},
         UNCHANGED <<free_seq, free_seq_end>>,
         NEW p \in 0 .. ni,
         proc_table'[e].next = (IF p = ni THEN NIL ELSE io[p+1]),
         proc_table'[e].prev = (IF p = 0 THEN NIL ELSE io[p]),
         p > 0 => proc_table'[io[p]].next = e,
         p < ni => proc_table'[io[p+1]].prev = e,
         \A i \in Entries \ {e} :
           /\ p = 0 \/ i # io[p] => proc_table'[i].next = proc_table[i].next
           /\ p = ni \/ i # io[p+1] => proc_table'[i].prev = proc_table[i].prev,
         io_seq' = (IF p = 0 THEN e ELSE io_seq),
         io_seq_end' = (IF p = ni THEN e ELSE io_seq_end)
  PROVE  ListInv' /\ OnFree' = OnFree /\ OnIo' = OnIo \cup {e}
<1>1. /\ nf \in Nat /\ nf > 0 /\ ni \in Nat /\ p \in Nat /\ p <= ni
      /\ f \in [1 .. nf -> Entries] /\ io \in [1 .. ni -> Entries] /\ NIL \notin Entries
      /\ \A j, k \in 1 .. ni : io[j] = io[k] => j = k
      /\ io_seq = IF ni = 0 THEN NIL ELSE io[1]
      /\ \A k \in 1 .. ni : /\ proc_table[io[k]].next = IF k = ni THEN NIL ELSE io[k+1]
                            /\ proc_table[io[k]].prev = IF k = 1 THEN NIL ELSE io[k-1]
                            /\ io[k] # e
      /\ \A k \in 1 .. nf : f[k] \in Entries \ {e} /\ \A j \in 1 .. ni : f[k] # io[j]
      /\ ni > 0 => io_seq_end = io[ni]
  <2>1. /\ \A k \in 1 .. ni : io[k] \in Elems(io, ni)
        /\ \A k \in 1 .. nf : f[k] \in Elems(f, nf)
    BY DEF Elems
  <2>2. /\ Elems(f, nf) \cap Elems(io, ni) = {}
        /\ e \notin Elems(f, nf) \cup Elems(io, ni)
    BY DEF Lists
  <2>3. /\ nf \in Nat /\ nf > 0 /\ ni \in Nat /\ p \in Nat /\ p <= ni
        /\ f \in [1 .. nf -> Entries] /\ io \in [1 .. ni -> Entries] /\ NIL \notin Entries
    BY DEF Lists, Threaded, NIL, Entries
  <2>4. /\ \A j, k \in 1 .. ni : io[j] = io[k] => j = k
        /\ io_seq = IF ni = 0 THEN NIL ELSE io[1]
        /\ \A k \in 1 .. ni : /\ proc_table[io[k]].next = IF k = ni THEN NIL ELSE io[k+1]
                              /\ proc_table[io[k]].prev = IF k = 1 THEN NIL ELSE io[k-1]
        /\ ni > 0 => io_seq_end = io[ni]
    BY DEF Lists, Threaded
  <2>5. \A k \in 1 .. ni : io[k] # e
    BY <2>1, <2>2
  <2>6. \A k \in 1 .. nf : f[k] \in Entries \ {e} /\ \A j \in 1 .. ni : f[k] # io[j]
    BY <2>1, <2>2, <2>3
  <2> QED
    BY <2>3, <2>4, <2>5, <2>6
<1> DEFINE m == ni + 1
           s == [k \in 1 .. m |-> IF k <= p THEN io[k] ELSE IF k = p + 1 THEN e ELSE io[k-1]]
<1>2. /\ m \in Nat /\ m > 0 /\ s \in [1 .. m -> Entries] /\ p + 1 \in 1 .. m
      /\ s[p+1] = e
      /\ \A k \in 1 .. p : s[k] = io[k] /\ k \in 1 .. ni
      /\ \A k \in p+2 .. m : s[k] = io[k-1] /\ k - 1 \in 1 .. ni
      /\ \A k \in 1 .. m : k \in 1 .. p \/ k = p + 1 \/ k \in p+2 .. m
  BY <1>1
<1>3. m = ni + 1
  OBVIOUS
<1> HIDE DEF s, m
<1>4. \A j, k \in 1 .. m : s[j] = s[k] => j = k
  <2> SUFFICES ASSUME NEW j \in 1 .. m, NEW k \in 1 .. m, s[j] = s[k] PROVE j = k
    OBVIOUS
  <2>0. \A i \in 1 .. m : i # p + 1 => s[i] # e
    <3> SUFFICES ASSUME NEW i \in 1 .. m, i # p + 1 PROVE s[i] # e
      OBVIOUS
    <3>1. CASE i \in 1 .. p
      BY <1>1, <1>2, <3>1
    <3>2. CASE i \in p+2 .. m
      BY <1>1, <1>2, <3>2
    <3> QED
      BY <1>2, <3>1, <3>2
  <2>1. CASE j = p + 1 \/ k = p + 1
    BY <1>2, <2>0, <2>1
  <2>2. CASE j \in 1 .. p /\ k \in 1 .. p
    BY <1>1, <1>2, <2>2
  <2>3. CASE j \in 1 .. p /\ k \in p+2 .. m
    <3>1. j = k - 1
      BY <1>1, <1>2, <2>3
    <3> QED
      BY <1>1, <2>3, <3>1
  <2>4. CASE j \in p+2 .. m /\ k \in 1 .. p
    <3>1. j - 1 = k
      BY <1>1, <1>2, <2>4
    <3> QED
      BY <1>1, <2>4, <3>1
  <2>5. CASE j \in p+2 .. m /\ k \in p+2 .. m
    <3>1. j - 1 = k - 1
      BY <1>1, <1>2, <2>5
    <3> QED
      BY <1>1, <2>5, <3>1
  <2> QED
    BY <1>2, <2>1, <2>2, <2>3, <2>4, <2>5
<1>5. \A k \in 1 .. m : proc_table'[s[k]].next = IF k = m THEN NIL ELSE s[k+1]
  <2> SUFFICES ASSUME NEW k \in 1 .. m
               PROVE  proc_table'[s[k]].next = IF k = m THEN NIL ELSE s[k+1]
    OBVIOUS
  <2>1. CASE k = p + 1
    <3>1. k = m <=> p = ni
      BY <1>1, <1>3, <2>1
    <3>2. k # m => k + 1 \in p+2 .. m
      BY <1>1, <1>2, <2>1
    <3>3. k # m => s[k+1] = io[p+1]
      BY <1>1, <1>2, <2>1, <3>2
    <3> QED
      BY <1>2, <2>1, <3>1, <3>3
  <2>2. CASE k \in 1 .. p /\ k = p
    <3>1. p > 0 /\ k # m /\ s[k+1] = e
      BY <1>1, <1>2, <1>3, <2>2
    <3> QED
      BY <1>2, <2>2, <3>1
  <2>3. CASE k \in 1 .. p /\ k # p
    <3>1. k \in 1 .. ni /\ k + 1 \in 1 .. p /\ p \in 1 .. ni /\ k # ni /\ k # m
      BY <1>1, <1>3, <2>3
    <3>2. s[k] = io[k] /\ s[k+1] = io[k+1] /\ io[k] # io[p] /\ io[k] \in Entries \ {e}
      BY <1>1, <1>2, <2>3, <3>1
    <3> QED
      BY <1>1, <3>1, <3>2, SMTT(30)
  <2>4. CASE k \in p+2 .. m
    <3>1. k - 1 \in 1 .. ni /\ s[k] = io[k-1] /\ (k = m <=> k - 1 = ni) /\ k - 1 # p
      BY <1>1, <1>2, <1>3, <2>4
    <3>2. io[k-1] \in Entries \ {e} /\ (p = 0 \/ io[k-1] # io[p])
      BY <1>1, <3>1
    <3>3. proc_table'[s[k]].next = IF k - 1 = ni THEN NIL ELSE io[k]
      <4>1. proc_table[io[k-1]].next = IF k - 1 = ni THEN NIL ELSE io[(k-1)+1]
        BY <1>1, <3>1
      <4>2. (k - 1) + 1 = k
        BY <2>4
      <4>3. proc_table'[io[k-1]].next = proc_table[io[k-1]].next
        BY <3>2
      <4> QED
        BY <3>1, <4>1, <4>2, <4>3
    <3>4. k # m => k + 1 \in p+2 .. m /\ (k + 1) - 1 = k
      BY <1>1, <1>3, <2>4
    <3>5. k # m => s[k+1] = io[k]
      BY <1>2, <3>4
    <3> QED
      BY <3>1, <3>3, <3>5
  <2> QED
    BY <1>2, <2>1, <2>2, <2>3, <2>4
<1>6. \A k \in 1 .. m : proc_table'[s[k]].prev = IF k = 1 THEN NIL ELSE s[k-1]
  <2> SUFFICES ASSUME NEW k \in 1 .. m
               PROVE  proc_table'[s[k]].prev = IF k = 1 THEN NIL ELSE s[k-1]
    OBVIOUS
  <2>1. CASE k = p + 1
    <3>1. k # 1 => k - 1 = p /\ p \in 1 .. p
      BY <1>1, <2>1
    <3> QED
      BY <1>1, <1>2, <2>1, <3>1
  <2>2. CASE k \in 1 .. p
    <3>1. k \in 1 .. ni /\ s[k] = io[k] /\ io[k] \in Entries \ {e}
      BY <1>1, <1>2, <2>2
    <3>2. p = ni \/ io[k] # io[p+1]
      <4>1. p # ni => p + 1 \in 1 .. ni /\ p + 1 # k
        BY <1>1, <2>2
      <4> QED
        BY <1>1, <3>1, <4>1
    <3>3. proc_table'[io[k]].prev = IF k = 1 THEN NIL ELSE io[k-1]
      BY <1>1, <3>1, <3>2
    <3>4. k # 1 => k - 1 \in 1 .. p
      BY <1>1, <2>2
    <3> QED
      BY <1>2, <3>1, <3>3, <3>4
  <2>3. CASE k \in p+2 .. m /\ k = p + 2
    <3>1. p < ni /\ s[k] = io[p+1] /\ s[k-1] = e /\ k # 1
      BY <1>1, <1>2, <1>3, <2>3
    <3> QED
      BY <3>1
  <2>4. CASE k \in p+2 .. m /\ k # p + 2
    <3>1. /\ k - 1 \in 1 .. ni /\ s[k] = io[k-1] /\ k - 1 \in p+2 .. m /\ k - 1 # 1
          /\ p + 1 \in 1 .. ni /\ k - 1 # p + 1 /\ (k - 1) - 1 = k - 2 /\ k # 1
      BY <1>1, <1>2, <1>3, <2>4
    <3>2. io[k-1] # io[p+1] /\ io[k-1] \in Entries \ {e}
      BY <1>1, <3>1
    <3>3. proc_table'[s[k]].prev = io[k-2]
      BY <1>1, <3>1, <3>2
    <3>4. s[k-1] = io[k-2]
      BY <1>2, <3>1
    <3> QED
      BY <3>1, <3>3, <3>4
  <2> QED
    BY <1>2, <2>1, <2>2, <2>3, <2>4
<1>7. io_seq' = s[1] /\ io_seq_end' = s[m]
  <2>1. io_seq' = s[1]
    <3>1. CASE p = 0
      BY <1>2, <3>1
    <3>2. CASE p # 0
      <4>1. 1 \in 1 .. p /\ ni # 0
        BY <1>1, <3>2
      <4> QED
        BY <1>1, <1>2, <3>2, <4>1
    <3> QED
      BY <3>1, <3>2
  <2>2. io_seq_end' = s[m]
    <3>1. CASE p = ni
      BY <1>2, <1>3, <3>1
    <3>2. CASE p # ni
      <4>1. m \in p+2 .. m /\ m - 1 = ni /\ ni > 0
        BY <1>1, <1>3, <3>2
      <4> QED
        BY <1>1, <1>2, <3>2, <4>1
    <3> QED
      BY <3>1, <3>2
  <2> QED
    BY <2>1, <2>2
<1>8. Elems(s, m) = Elems(io, ni) \cup {e}
  <2>1. ASSUME NEW i \in Elems(s, m) PROVE i \in Elems(io, ni) \cup {e}
    <3>1. PICK k \in 1 .. m : i = s[k]
      BY <2>1 DEF Elems
    <3> QED
      BY <1>2, <3>1 DEF Elems
  <2>2. ASSUME NEW i \in Elems(io, ni) PROVE i \in Elems(s, m)
    <3>1. PICK k \in 1 .. ni : i = io[k]
      BY <2>2 DEF Elems
    <3>2. CASE k <= p
      <4>1. k \in 1 .. p /\ k \in 1 .. m
        BY <1>1, <1>3, <3>2
      <4> QED
        BY <1>2, <3>1, <4>1 DEF Elems
    <3>3. CASE k > p
      <4>1. k + 1 \in p+2 .. m /\ k + 1 \in 1 .. m /\ (k + 1) - 1 = k
        BY <1>1, <1>3, <3>3
      <4>2. s[k+1] = io[k]
        BY <1>2, <4>1
      <4> QED
        BY <3>1, <4>1, <4>2 DEF Elems
    <3> QED
      BY <1>1, <3>2, <3>3
  <2>3. e \in Elems(s, m)
    BY <1>2 DEF Elems
  <2> QED
    BY <2>1, <2>2, <2>3
<1>9. Threaded(s, m, io_seq)'
  BY <1>2, <1>4, <1>5, <1>7 DEF Threaded
<1>10. Threaded(f, nf, free_seq)'
  <2>1. \A k \in 1 .. nf : proc_table'[f[k]].next = proc_table[f[k]].next
    <3> SUFFICES ASSUME NEW k \in 1 .. nf PROVE proc_table'[f[k]].next = proc_table[f[k]].next
      OBVIOUS
    <3>1. f[k] \in Entries \ {e} /\ (p # 0 => p \in 1 .. ni)
      BY <1>1
    <3> QED
      BY <1>1, <3>1
  <2> QED
    BY <2>1 DEF Lists, Threaded
<1>11. Lists(f, nf, s, m)'
  <2>1. free_seq_end' = f[nf]
    BY DEF Lists
  <2>2. /\ Elems(f, nf) \cap Elems(io, ni) = {} /\ e \notin Elems(f, nf)
        /\ Elems(f, nf) \cup Elems(io, ni) \cup {e} = Entries
    BY DEF Lists
  <2> QED
    BY <1>1, <1>2, <1>6, <1>7, <1>8, <1>9, <1>10, <2>1, <2>2 DEF Lists
<1> QED
  BY <1>8, <1>11, ShapeHolds, ShapeHoldsNext DEF Shape, ListInv

(* The links of the entry in hand as far as it is filled in.                *)
HandLinks ==
  /\ d.pc \in {"is_copied", "next"} => proc_table[d.entry].next = free_seq
  /\ d.pc \in {"next", "writeback_cmd", "link"} => proc_table[d.entry].prev = NIL
  /\ d.pc \in {"writeback_cmd", "link"} => proc_table[d.entry].next = NIL

(* Steps that change links only.                                            *)
KeepsData ==
  \A i \in Entries :
    /\ proc_table'[i].cmd = proc_table[i].cmd /\ proc_table'[i].wb = proc_table[i].wb
    /\ proc_table'[i].nsecs_target = proc_table[i].nsecs_target
    /\ proc_table'[i].is_completed = proc_table[i].is_completed
    /\ proc_table'[i].is_copied = proc_table[i].is_copied
    /\ proc_table'[i].writeback_cmd = proc_table[i].writeback_cmd

Link == LinkEmpty \/ LinkHead \/ LinkAfter

(* Linking puts the entry in hand between pred, which is due or not due     *)
(* later than it, and succ, which is neither; NIL stands for no entry.      *)
LinkedBetween(pred, succ) ==
  /\ ListInv' /\ OnFree' = OnFree /\ OnIo' = OnIo \cup {d.entry} /\ KeepsData
  /\ proc_table'[d.entry].next = succ
  /\ succ # NIL => succ \in OnIo /\ ~StopsAt(succ, Current.target)
  /\ pred # NIL => /\ pred \in OnIo /\ StopsAt(pred, Current.target)
                   /\ proc_table'[pred].next = d.entry
  /\ \A i \in Entries \ {pred, d.entry} : proc_table'[i].next = proc_table[i].next

LEMMA LinkLists ==
  ASSUME TypeOK, ListInv, HandLinks, Link
  PROVE  \E pred, succ \in Links : LinkedBetween(pred, succ)
<1> DEFINE e == d.entry
<1>0. /\ d.pc = "link" /\ e \in Entries /\ InHand = {e} /\ InHand' = {}
      /\ NIL \notin Entries /\ proc_table \in [Entries -> Entry]
      /\ proc_table[e].next = NIL /\ proc_table[e].prev = NIL
      /\ UNCHANGED <<free_seq, free_seq_end>>
  <2>1. d.pc = "link" /\ UNCHANGED <<free_seq, free_seq_end>> /\ d' = Advance(d)
    BY DEF Link, LinkEmpty, LinkHead, LinkAfter
  <2>2. e \in Entries /\ InHand = {e} /\ NIL \notin Entries
    BY <2>1 DEF TypeOK, FillPcs, InHand, NIL, Entries, Links
  <2>3. InHand' = {}
    BY <2>1 DEF Advance, InHand
  <2> QED
    BY <2>1, <2>2, <2>3 DEF TypeOK, HandLinks
<1>1. PICK f, nf, io, ni : Lists(f, nf, io, ni)
  BY DEF ListInv
<1>2. /\ ni \in Nat /\ io \in [1 .. ni -> Entries]
      /\ Threaded(io, ni, io_seq) /\ OnIo = Elems(io, ni)
      /\ \A j, k \in 1 .. ni : io[j] = io[k] => j = k
      /\ io_seq = IF ni = 0 THEN NIL ELSE io[1]
      /\ \A k \in 1 .. ni : proc_table[io[k]].next = IF k = ni THEN NIL ELSE io[k+1]
      /\ \A k \in 1 .. ni : proc_table[io[k]].prev = IF k = 1 THEN NIL ELSE io[k-1]
      /\ ni > 0 => io_seq_end = io[ni]
  <2>1. OnIo = Elems(io, ni)
    BY <1>1, ShapeHolds DEF Shape
  <2>2. /\ Threaded(io, ni, io_seq)
        /\ \A k \in 1 .. ni : proc_table[io[k]].prev = IF k = 1 THEN NIL ELSE io[k-1]
        /\ ni > 0 => io_seq_end = io[ni]
    BY <1>1 DEF Lists
  <2> QED
    BY <2>1, <2>2 DEF Threaded
<1>3. \A k \in 1 .. ni : io[k] \in OnIo /\ io[k] \in Entries /\ io[k] # e
  BY <1>0, <1>1, <1>2 DEF Elems, Lists
<1>4. CASE LinkEmpty
  <2>1. ni = 0
    <3>1. 0 < ni => io[1] \in Entries
      BY <1>2
    <3> QED
      BY <1>0, <1>2, <1>4, <3>1 DEF LinkEmpty
  <2>2. /\ proc_table' = proc_table /\ io_seq' = e /\ io_seq_end' = e
    BY <1>4 DEF LinkEmpty
  <2>3. ListInv' /\ OnFree' = OnFree /\ OnIo' = OnIo \cup {e}
    <3> DEFINE p == 0
    <3>1. p \in 0 .. ni /\ p = ni
      BY <2>1
    <3> QED
      BY <1>0, <1>1, <2>2, <3>1, InsertLists
  <2>4. LinkedBetween(NIL, NIL)
    BY <1>0, <2>2, <2>3 DEF LinkedBetween, KeepsData
  <2> QED
    BY <2>4 DEF Links
<1>5. ASSUME ~LinkEmpty PROVE ni > 0 /\ ni \in 1 .. ni /\ 1 \in 1 .. ni /\ io_seq = io[1]
  <2>1. io_seq # NIL
    BY <1>5 DEF Link, LinkEmpty, LinkHead, LinkAfter
  <2> QED
    BY <1>2, <2>1
<1>6. CASE LinkHead /\ ~LinkEmpty
  <2>1. PICK p \in 0 .. ni :
           /\ InsertionPoint(Current.target) = IF p = 0 THEN NIL ELSE io[p]
           /\ p > 0 => StopsAt(io[p], Current.target)
           /\ \A k \in p+1 .. ni : ~StopsAt(io[k], Current.target)
    BY <1>2, <1>5, <1>6, InsertionPointIs
  <2>2. p = 0 /\ ~StopsAt(io[1], Current.target)
    <3>1. p # 0 => p \in 1 .. ni
      BY <1>2
    <3>2. p = 0
      BY <1>0, <1>3, <1>6, <2>1, <3>1 DEF LinkHead
    <3> QED
      BY <1>5, <1>6, <2>1, <3>2
  <2>3. /\ proc_table' = [proc_table EXCEPT ![io[1]].prev = e, ![e].next = io[1]]
        /\ io_seq' = e /\ io_seq_end' = io_seq_end
    BY <1>5, <1>6 DEF LinkHead
  <2>4. /\ proc_table'[e].next = io[1] /\ proc_table'[e].prev = NIL
        /\ proc_table'[io[1]].prev = e
        /\ \A i \in Entries \ {e} : proc_table'[i].next = proc_table[i].next
        /\ \A i \in Entries \ {e, io[1]} : proc_table'[i].prev = proc_table[i].prev
        /\ KeepsData
    BY <1>0, <1>3, <1>5, <1>6, <2>3 DEF Entry, KeepsData
  <2>5. ListInv' /\ OnFree' = OnFree /\ OnIo' = OnIo \cup {e}
    <3>1. PICK q \in 0 .. ni : q = 0 /\ q # ni /\ q + 1 = 1
      BY <1>2, <1>5, <1>6
    <3> HIDE DEF e
    <3>3. io_seq' = e /\ io_seq_end' = io_seq_end
      BY <2>3
    <3>2. /\ proc_table'[e].next = IF q = ni THEN NIL ELSE io[q+1]
          /\ proc_table'[e].prev = IF q = 0 THEN NIL ELSE io[q]
          /\ q > 0 => proc_table'[io[q]].next = e
          /\ q < ni => proc_table'[io[q+1]].prev = e
          /\ \A i \in Entries \ {e} :
               /\ q = 0 \/ i # io[q] => proc_table'[i].next = proc_table[i].next
               /\ q = ni \/ i # io[q+1] => proc_table'[i].prev = proc_table[i].prev
          /\ io_seq' = IF q = 0 THEN e ELSE io_seq
          /\ io_seq_end' = IF q = ni THEN e ELSE io_seq_end
      BY <2>4, <3>1, <3>3
    <3> QED
      BY <1>0, <1>1, <3>1, <3>2, InsertLists
  <2>6. LinkedBetween(NIL, io[1])
    BY <1>0, <1>3, <1>5, <1>6, <2>2, <2>4, <2>5 DEF LinkedBetween
  <2> QED
    BY <1>3, <1>5, <1>6, <2>6 DEF Links
<1>7. CASE LinkAfter /\ ~LinkEmpty
  <2> DEFINE curr == InsertionPoint(Current.target)
             succ == proc_table[curr].next
  <2>1. PICK p \in 0 .. ni :
           /\ curr = IF p = 0 THEN NIL ELSE io[p]
           /\ p > 0 => StopsAt(io[p], Current.target)
           /\ \A k \in p+1 .. ni : ~StopsAt(io[k], Current.target)
    BY <1>2, <1>5, <1>7, InsertionPointIs
  <2>2. /\ curr # NIL /\ io_seq' = io_seq
        /\ IF succ = NIL
            THEN /\ proc_table' = [proc_table EXCEPT ![d.entry].prev = curr,
                                                     ![curr].next = d.entry]
                 /\ io_seq_end' = d.entry
            ELSE /\ proc_table' = [proc_table EXCEPT ![d.entry].prev = curr,
                                                     ![d.entry].next = succ,
                                                     ![succ].prev = d.entry,
                                                     ![curr].next = d.entry]
                 /\ UNCHANGED io_seq_end
    BY <1>7 DEF LinkAfter
  <2> HIDE DEF curr
  <2>3. /\ p \in 1 .. ni /\ p # 0 /\ curr = io[p] /\ curr \in Entries /\ curr # e /\ curr \in OnIo
        /\ StopsAt(curr, Current.target)
    <3>0. p # 0
      BY <2>1, <2>2
    <3>1. p # 0 /\ p \in 1 .. ni /\ p > 0
      BY <1>2, <3>0
    <3> QED
      BY <1>3, <2>1, <3>1
  <2>4. succ = (IF p = ni THEN NIL ELSE io[p+1]) /\ (p # ni => p + 1 \in 1 .. ni /\ p < ni)
    BY <1>2, <2>3
  <2>5. succ # NIL => /\ succ \in Entries /\ succ # e /\ succ # curr /\ succ \in OnIo
                      /\ ~StopsAt(succ, Current.target)
    <3> SUFFICES ASSUME succ # NIL
                 PROVE  /\ succ \in Entries /\ succ # e /\ succ # curr /\ succ \in OnIo
                        /\ ~StopsAt(succ, Current.target)
      OBVIOUS
    <3>1. succ = io[p+1] /\ p + 1 \in 1 .. ni /\ p + 1 \in p+1 .. ni /\ p + 1 # p
      BY <1>2, <2>3, <2>4
    <3> HIDE DEF succ
    <3> QED
      BY <1>2, <1>3, <2>1, <2>3, <3>1
  <2>6. succ = NIL <=> p = ni
    BY <1>0, <1>3, <2>4
  <2> HIDE DEF succ
  <2>7. /\ proc_table'[e].prev = curr /\ proc_table'[e].next = succ
        /\ proc_table'[curr].next = e
        /\ succ # NIL => proc_table'[succ].prev = e
        /\ \A i \in Entries \ {e, curr} : proc_table'[i].next = proc_table[i].next
        /\ \A i \in Entries \ {e, succ} : proc_table'[i].prev = proc_table[i].prev
        /\ KeepsData
    <3>1. CASE succ = NIL
      <4>1. proc_table' = [proc_table EXCEPT ![e].prev = curr, ![curr].next = e]
        BY <2>2, <3>1 DEF succ
      <4> HIDE DEF e
      <4> QED
        BY <1>0, <2>3, <3>1, <4>1 DEF Entry, KeepsData
    <3>2. CASE succ # NIL
      <4>1. proc_table' = [proc_table EXCEPT ![e].prev = curr, ![e].next = succ,
                                             ![succ].prev = e, ![curr].next = e]
        BY <2>2, <3>2 DEF succ
      <4> HIDE DEF e
      <4> QED
        BY <1>0, <2>3, <2>5, <3>2, <4>1, SMTT(30) DEF Entry, KeepsData
    <3> QED
      BY <3>1, <3>2
  <2>8. io_seq_end' = IF succ = NIL THEN e ELSE io_seq_end
    BY <2>2 DEF succ
  <2>9. ListInv' /\ OnFree' = OnFree /\ OnIo' = OnIo \cup {e}
    <3> HIDE DEF e
    <3>1. /\ proc_table'[e].next = IF p = ni THEN NIL ELSE io[p+1]
          /\ proc_table'[e].prev = IF p = 0 THEN NIL ELSE io[p]
          /\ p > 0 => proc_table'[io[p]].next = e
          /\ p < ni => proc_table'[io[p+1]].prev = e
          /\ \A i \in Entries \ {e} :
               /\ p = 0 \/ i # io[p] => proc_table'[i].next = proc_table[i].next
               /\ p = ni \/ i # io[p+1] => proc_table'[i].prev = proc_table[i].prev
          /\ io_seq' = IF p = 0 THEN e ELSE io_seq
          /\ io_seq_end' = IF p = ni THEN e ELSE io_seq_end
      BY <1>0, <2>2, <2>3, <2>4, <2>6, <2>7, <2>8, SMTT(30)
    <3> QED
      BY <1>0, <1>1, <3>1, InsertLists
  <2>10. LinkedBetween(curr, succ)
    BY <2>3, <2>5, <2>7, <2>9 DEF LinkedBetween
  <2> QED
    BY <2>3, <2>5, <2>10 DEF Links
<1> QED
  BY <1>4, <1>6, <1>7 DEF Link

(* Reclaiming moves the prefix done of the I/O list behind the free list.   *)
ReclaimedPrefix(done) ==
  /\ ListInv' /\ OnIo' = OnIo \ done /\ OnFree' = OnFree \cup done /\ KeepsData
  /\ done \subseteq OnIo /\ \A i \in done : Finished(i)
  /\ IF done = {} THEN proc_table' = proc_table
     ELSE /\ io_seq \in done
          /\ proc_table'[free_seq_end].next = io_seq
          /\ \E last \in done :
               /\ proc_table'[last].next = NIL
               /\ \A i \in done \ {last} : proc_table[i].next \in done
               /\ \A i \in Entries \ {free_seq_end, last} :
                    proc_table'[i].next = proc_table[i].next

LEMMA ReclaimLists ==
  ASSUME TypeOK, ListInv, Reclaim
  PROVE  \E done \in SUBSET Entries : ReclaimedPrefix(done)
<1>0. /\ NIL \notin Entries /\ proc_table \in [Entries -> Entry]
      /\ InHand = {} /\ InHand' = {} /\ free_seq' = free_seq /\ io_seq_end' = io_seq_end
  <2>1. d.pc = "reclaim" /\ d.entry = NIL /\ d'.entry = d.entry
    BY DEF Reclaim, TypeOK, FillPcs
  <2>2. InHand = {} /\ InHand' = {}
    BY <2>1 DEF InHand
  <2>3. NIL \notin Entries /\ proc_table \in [Entries -> Entry]
    BY DEF NIL, Entries, TypeOK
  <2> QED
    BY <2>2, <2>3 DEF Reclaim
<1>1. PICK f, nf, io, ni : Lists(f, nf, io, ni)
  BY DEF ListInv
<1>2. OnIo = Elems(io, ni) /\ OnFree = Elems(f, nf)
  BY <1>1, ShapeHolds DEF Shape
<1>3. /\ ni \in Nat /\ io \in [1 .. ni -> Entries] /\ Threaded(io, ni, io_seq)
      /\ \A j, k \in 1 .. ni : io[j] = io[k] => j = k
      /\ io_seq = IF ni = 0 THEN NIL ELSE io[1]
      /\ \A k \in 1 .. ni : proc_table[io[k]].next = IF k = ni THEN NIL ELSE io[k+1]
      /\ \A k \in 1 .. ni : proc_table[io[k]].prev = IF k = 1 THEN NIL ELSE io[k-1]
      /\ ni > 0 => io_seq_end = io[ni]
  <2>1. /\ Threaded(io, ni, io_seq)
        /\ \A k \in 1 .. ni : proc_table[io[k]].prev = IF k = 1 THEN NIL ELSE io[k-1]
        /\ ni > 0 => io_seq_end = io[ni]
    BY <1>1 DEF Lists
  <2> QED
    BY <2>1 DEF Threaded
<1>4. /\ nf \in Nat /\ nf > 0 /\ f \in [1 .. nf -> Entries]
      /\ \A j, k \in 1 .. nf : f[j] = f[k] => j = k
      /\ free_seq = f[1] /\ free_seq_end = f[nf]
      /\ \A k \in 1 .. nf : proc_table[f[k]].next = IF k = nf THEN NIL ELSE f[k+1]
  <2>1. Threaded(f, nf, free_seq) /\ nf > 0 /\ free_seq_end = f[nf]
    BY <1>1 DEF Lists
  <2> QED
    BY <2>1 DEF Threaded
<1>5. \A j \in 1 .. nf, k \in 1 .. ni : f[j] # io[k] /\ io[k] \in Elems(io, ni)
  BY <1>1 DEF Lists, Elems
<1>6. PICK p \in 0 .. ni : /\ LastFinished = IF p = 0 THEN NIL ELSE io[p]
                           /\ \A k \in 1 .. p : Finished(io[k])
  BY <1>3, LastFinishedIs
<1>7. CASE p = 0
  <2>1. /\ proc_table' = proc_table /\ io_seq' = io_seq /\ free_seq_end' = free_seq_end
    BY <1>6, <1>7 DEF Reclaim
  <2>2. ListInv' /\ OnFree' = OnFree /\ OnIo' = OnIo
    <3>1. UNCHANGED lists /\ d'.entry = d.entry
      BY <1>0, <2>1 DEF lists, Reclaim, TypeOK
    <3> QED
      BY <2>1, <3>1, ListsFrame
  <2>3. ReclaimedPrefix({})
    BY <2>1, <2>2 DEF ReclaimedPrefix, KeepsData
  <2> QED
    BY <2>3
<1>8. CASE p # 0
  <2> DEFINE last == io[p]
             succ == IF p = ni THEN NIL ELSE io[p+1]
             m == nf + p
             n == ni - p
             f2 == [k \in 1 .. m |-> IF k <= nf THEN f[k] ELSE io[k-nf]]
             io2 == [k \in 1 .. n |-> io[k+p]]
             done == Elems(io, p)
  <2>1. /\ ni \in Nat /\ nf \in Nat /\ p \in 1 .. ni /\ p \in Nat /\ p > 0 /\ p <= ni /\ ni > 0 /\ last \in Entries /\ last # NIL
        /\ io_seq = io[1] /\ 1 \in 1 .. p /\ 1 \in 1 .. ni
        /\ p # ni => p + 1 \in 1 .. ni
    BY <1>0, <1>3, <1>4, <1>8
  <2>2. proc_table[last].next = succ
    BY <1>3, <2>1
  <2>3. /\ io_seq' = succ /\ free_seq_end' = last
        /\ proc_table' = [i \in Entries |->
              [proc_table[i] EXCEPT
                 !.prev = IF i = succ THEN NIL
                          ELSE IF i = io_seq THEN free_seq_end ELSE @,
                 !.next = IF i = free_seq_end THEN io_seq
                          ELSE IF i = last THEN NIL ELSE @]]
    <3>1. LastFinished = last
      BY <1>6, <1>8
    <3> HIDE DEF last, succ
    <3> QED
      BY <2>1, <2>2, <3>1 DEF Reclaim
  <2>4. /\ \A i \in Entries : /\ proc_table'[i].next = IF i = f[nf] THEN io[1]
                                                      ELSE IF i = last THEN NIL
                                                      ELSE proc_table[i].next
                              /\ proc_table'[i].prev = IF i = succ THEN NIL
                                                      ELSE IF i = io[1] THEN f[nf]
                                                      ELSE proc_table[i].prev
        /\ KeepsData
    <3> HIDE DEF last, succ
    <3>1. io_seq = io[1] /\ free_seq_end = f[nf]
      BY <1>4, <2>1
    <3>2. ASSUME NEW i \in Entries
          PROVE  /\ proc_table'[i].next = IF i = f[nf] THEN io[1]
                                          ELSE IF i = last THEN NIL ELSE proc_table[i].next
                 /\ proc_table'[i].prev = IF i = succ THEN NIL
                                          ELSE IF i = io[1] THEN f[nf] ELSE proc_table[i].prev
                 /\ proc_table'[i].cmd = proc_table[i].cmd /\ proc_table'[i].wb = proc_table[i].wb
                 /\ proc_table'[i].nsecs_target = proc_table[i].nsecs_target
                 /\ proc_table'[i].is_completed = proc_table[i].is_completed
                 /\ proc_table'[i].is_copied = proc_table[i].is_copied
                 /\ proc_table'[i].writeback_cmd = proc_table[i].writeback_cmd
      <4>1. proc_table'[i] =
              [proc_table[i] EXCEPT
                 !.prev = IF i = succ THEN NIL ELSE IF i = io[1] THEN f[nf] ELSE @,
                 !.next = IF i = f[nf] THEN io[1] ELSE IF i = last THEN NIL ELSE @]
        BY <2>3, <3>1
      <4>2. proc_table[i] \in Entry
        BY <1>0
      <4> QED
        BY <4>1, <4>2 DEF Entry
    <3> QED
      BY <3>2 DEF KeepsData
  <2>5. /\ m \in Nat /\ m > 0 /\ f2 \in [1 .. m -> Entries]
        /\ \A k \in 1 .. nf : f2[k] = f[k] /\ k \in 1 .. m
        /\ \A k \in 1 .. p : f2[nf+k] = io[k] /\ nf + k \in 1 .. m /\ k \in 1 .. ni
        /\ \A k \in 1 .. m : k \in 1 .. nf \/ (k - nf \in 1 .. p /\ k = nf + (k - nf))
        /\ m = nf + p
        /\ \A k \in 1 .. m : k - nf \in 1 .. p => f2[k] = io[k-nf] /\ k - nf \in 1 .. ni
    <3>0. /\ nf \in Nat /\ nf > 0 /\ ni \in Nat /\ p \in Nat /\ p <= ni
          /\ f \in [1 .. nf -> Entries] /\ io \in [1 .. ni -> Entries]
      BY <1>3, <1>4, <2>1
    <3>1. m \in Nat /\ m > 0 /\ m = nf + p
      BY <3>0
    <3>2. \A k \in 1 .. m : f2[k] = IF k <= nf THEN f[k] ELSE io[k-nf]
      OBVIOUS
    <3>3. f2 = [k \in 1 .. m |-> f2[k]]
      OBVIOUS
    <3> HIDE DEF f2, m
    <3>4. \A k \in 1 .. nf : f2[k] = f[k] /\ k \in 1 .. m
      BY <3>0, <3>1, <3>2
    <3>5. ASSUME NEW k \in 1 .. p
          PROVE  f2[nf+k] = io[k] /\ nf + k \in 1 .. m /\ k \in 1 .. ni
      <4>1. nf + k \in 1 .. m /\ k \in 1 .. ni /\ ~(nf + k <= nf) /\ (nf + k) - nf = k
        BY <3>0, <3>1
      <4> QED
        BY <3>2, <4>1
    <3>6. \A k \in 1 .. m : k \in 1 .. nf \/ (k - nf \in 1 .. p /\ k = nf + (k - nf))
      BY <3>0, <3>1
    <3>7. \A k \in 1 .. m : k - nf \in 1 .. p => f2[k] = io[k-nf] /\ k - nf \in 1 .. ni
      BY <3>0, <3>1, <3>2
    <3>8. f2 \in [1 .. m -> Entries]
      <4>1. \A k \in 1 .. m : f2[k] \in Entries
        BY <3>0, <3>4, <3>6, <3>7
      <4> QED
        BY <3>3, <4>1
    <3> QED
      BY <3>1, <3>4, <3>5, <3>6, <3>7, <3>8
  <2>6. /\ n \in Nat /\ io2 \in [1 .. n -> Entries] /\ n = ni - p
        /\ \A k \in 1 .. n : io2[k] = io[k+p] /\ k + p \in 1 .. ni /\ ~(k + p \in 1 .. p)
    BY <1>3, <2>1
  <2> HIDE DEF m, n, f2, io2
  <2>7. \A j, k \in 1 .. m : f2[j] = f2[k] => j = k
    <3> SUFFICES ASSUME NEW j \in 1 .. m, NEW k \in 1 .. m, f2[j] = f2[k] PROVE j = k
      OBVIOUS
    <3>1. CASE j \in 1 .. nf /\ k \in 1 .. nf
      BY <1>4, <2>5, <3>1
    <3>2. CASE j \in 1 .. nf /\ k - nf \in 1 .. p
      <4>1. f2[j] = f[j] /\ f2[k] = io[k-nf] /\ k - nf \in 1 .. ni
        BY <2>5, <3>2
      <4> QED
        BY <1>5, <3>2, <4>1
    <3>3. CASE j - nf \in 1 .. p /\ k \in 1 .. nf
      <4>1. f2[k] = f[k] /\ f2[j] = io[j-nf] /\ j - nf \in 1 .. ni
        BY <2>5, <3>3
      <4> QED
        BY <1>5, <3>3, <4>1
    <3>4. CASE j - nf \in 1 .. p /\ k - nf \in 1 .. p
      <4>1. f2[k] = io[k-nf] /\ f2[j] = io[j-nf] /\ j - nf \in 1 .. ni /\ k - nf \in 1 .. ni
        BY <2>5, <3>4
      <4>2. j - nf = k - nf
        BY <1>3, <4>1
      <4> QED
        BY <1>4, <4>2
    <3> QED
      BY <2>5, <3>1, <3>2, <3>3, <3>4
  <2>8. \A k \in 1 .. m : proc_table'[f2[k]].next = IF k = m THEN NIL ELSE f2[k+1]
    <3> SUFFICES ASSUME NEW k \in 1 .. m
                 PROVE  proc_table'[f2[k]].next = IF k = m THEN NIL ELSE f2[k+1]
      OBVIOUS
    <3>1. CASE k = nf
      <4>1. k \in 1 .. nf /\ k # m /\ f2[k+1] = io[1] /\ f2[k] = f[nf]
        BY <1>4, <2>1, <2>5, <3>1
      <4> QED
        BY <1>4, <2>4, <3>1, <4>1
    <3>2. CASE k \in 1 .. nf /\ k # nf
      <4>1. /\ k + 1 \in 1 .. nf /\ nf \in 1 .. nf /\ k # m /\ f2[k] = f[k] /\ f2[k+1] = f[k+1]
            /\ f[k] \in Entries
        BY <1>4, <2>1, <2>5, <3>2
      <4>2. f[k] # f[nf] /\ f[k] # last /\ proc_table[f[k]].next = f[k+1]
        BY <1>4, <1>5, <2>1, <3>2, <4>1
      <4> QED
        BY <2>4, <4>1, <4>2
    <3>3. CASE k - nf \in 1 .. p /\ k = m
      <4>0. nf \in 1 .. nf /\ last # f[nf]
        BY <1>4, <1>5, <2>1
      <4>1. f2[k] = last /\ nf \in 1 .. nf /\ last # f[nf]
        <5>1. k - nf = p
          BY <2>1, <2>5, <3>3
        <5> QED
          BY <2>5, <3>3, <4>0, <5>1
      <4> QED
        BY <2>1, <2>4, <3>3, <4>1
    <3>4. CASE k - nf \in 1 .. p /\ k # m
      <4> DEFINE q == k - nf
      <4>1. /\ q \in 1 .. p /\ q + 1 \in 1 .. p /\ q \in 1 .. ni /\ q # ni /\ q # p
            /\ nf \in 1 .. nf /\ k = nf + q /\ k + 1 = nf + (q + 1)
        BY <1>4, <2>1, <2>5, <3>4
      <4> HIDE DEF q
      <4>2. f2[k] = io[q] /\ f2[k+1] = io[q+1] /\ io[q] \in Entries
        BY <1>3, <2>5, <4>1
      <4>3. io[q] # f[nf] /\ io[q] # last /\ proc_table[io[q]].next = io[q+1]
        BY <1>3, <1>5, <2>1, <4>1
      <4> QED
        BY <2>4, <3>4, <4>2, <4>3
    <3> QED
      BY <2>5, <3>1, <3>2, <3>3, <3>4
  <2>9. Threaded(f2, m, free_seq)'
    <3>1. free_seq' = f2[1]
      BY <1>0, <1>4, <2>5
    <3> QED
      BY <2>5, <2>7, <2>8, <3>1 DEF Threaded
  <2>10. \A j, k \in 1 .. n : io2[j] = io2[k] => j = k
    <3> SUFFICES ASSUME NEW j \in 1 .. n, NEW k \in 1 .. n, io2[j] = io2[k] PROVE j = k
      OBVIOUS
    <3>1. j + p = k + p
      BY <1>3, <2>6
    <3> QED
      BY <2>1, <3>1
  <2>11. \A k \in 1 .. n : /\ proc_table'[io2[k]].next = IF k = n THEN NIL ELSE io2[k+1]
                           /\ proc_table'[io2[k]].prev = IF k = 1 THEN NIL ELSE io2[k-1]
    <3> SUFFICES ASSUME NEW k \in 1 .. n
                 PROVE  /\ proc_table'[io2[k]].next = IF k = n THEN NIL ELSE io2[k+1]
                        /\ proc_table'[io2[k]].prev = IF k = 1 THEN NIL ELSE io2[k-1]
      OBVIOUS
    <3> DEFINE q == k + p
    <3>1. /\ q \in 1 .. ni /\ q # p /\ q # 1 /\ io2[k] = io[q] /\ nf \in 1 .. nf
          /\ (k = n <=> q = ni) /\ (k = 1 <=> q = p + 1)
          /\ k # n => k + 1 \in 1 .. n /\ (k + 1) + p = q + 1
          /\ k # 1 => k - 1 \in 1 .. n /\ (k - 1) + p = q - 1
      <4>1. /\ nf \in Nat /\ nf > 0 /\ ni \in Nat /\ p \in Nat /\ p >= 1 /\ p <= ni
            /\ n \in Nat /\ n = ni - p /\ k \in Int /\ 1 <= k /\ k <= n
        BY <1>3, <1>4, <2>1, <2>6
      <4>2. io2[k] = io[q]
        BY <2>6
      <4>3. q \in 1 .. ni /\ q # p /\ q # 1 /\ nf \in 1 .. nf
        BY <4>1
      <4>4. (k = n <=> q = ni) /\ (k = 1 <=> q = p + 1)
        BY <4>1
      <4>5. /\ k # n => k + 1 \in 1 .. n /\ (k + 1) + p = q + 1
            /\ k # 1 => k - 1 \in 1 .. n /\ (k - 1) + p = q - 1
        BY <4>1
      <4> QED
        BY <4>2, <4>3, <4>4, <4>5
    <3> HIDE DEF q
    <3>2. io[q] \in Entries /\ io[q] # f[nf] /\ io[q] # last /\ io[q] # io[1]
      BY <1>3, <1>5, <2>1, <3>1
    <3>3. /\ k # n => io2[k+1] = io[q+1]
          /\ k # 1 => io2[k-1] = io[q-1]
      BY <2>6, <3>1
    <3>4. proc_table'[io[q]].next = IF q = ni THEN NIL ELSE io[q+1]
      BY <1>3, <2>4, <3>1, <3>2
    <3>5. proc_table[io[q]].prev = io[q-1]
      BY <1>3, <3>1
    <3>6. io[q] = succ <=> q = p + 1
      BY <1>0, <1>3, <2>1, <3>1, <3>2
    <3> HIDE DEF last, succ
    <3> QED
      BY <2>4, <3>1, <3>2, <3>3, <3>4, <3>5, <3>6
  <2>12. Threaded(io2, n, io_seq)'
    <3>1. io_seq' = IF n = 0 THEN NIL ELSE io2[1]
      <4>1. CASE p = ni
        <5>1. n = 0
          BY <2>1, <2>6, <4>1
        <5> QED
          BY <2>3, <4>1, <5>1
      <4>2. CASE p # ni
        <5>1. 1 \in 1 .. n /\ n # 0 /\ 1 + p = p + 1
          BY <2>1, <2>6, <4>2
        <5>2. io2[1] = io[p+1]
          BY <2>6, <5>1
        <5> QED
          BY <2>3, <4>2, <5>1, <5>2
      <4> QED
        BY <4>1, <4>2
    <3> QED
      BY <2>6, <2>10, <2>11, <3>1 DEF Threaded
  <2>13. Elems(f2, m) = Elems(f, nf) \cup done
    <3>1. ASSUME NEW i \in Elems(f2, m) PROVE i \in Elems(f, nf) \cup done
      <4>1. PICK k \in 1 .. m : i = f2[k]
        BY <3>1 DEF Elems
      <4> QED
        BY <2>5, <4>1 DEF Elems
    <3>2. ASSUME NEW i \in Elems(f, nf) \cup done PROVE i \in Elems(f2, m)
      BY <2>5, <3>2 DEF Elems
    <3> QED
      BY <3>1, <3>2
  <2>14. Elems(io2, n) = Elems(io, ni) \ done
    <3>1. ASSUME NEW i \in Elems(io2, n) PROVE i \in Elems(io, ni) \ done
      <4>1. PICK k \in 1 .. n : i = io2[k]
        BY <3>1 DEF Elems
      <4>2. i = io[k+p] /\ k + p \in 1 .. ni /\ ~(k + p \in 1 .. p)
        BY <2>6, <4>1
      <4>3. ASSUME NEW q \in 1 .. p, io[q] = io[k+p] PROVE FALSE
        <5>1. q \in 1 .. ni
          BY <2>1
        <5> QED
          BY <1>3, <4>2, <4>3, <5>1
      <4> QED
        BY <4>2, <4>3 DEF Elems
    <3>2. ASSUME NEW i \in Elems(io, ni) \ done PROVE i \in Elems(io2, n)
      <4>1. PICK k \in 1 .. ni : i = io[k]
        BY <3>2 DEF Elems
      <4>2. ~(k \in 1 .. p)
        BY <3>2, <4>1 DEF Elems
      <4>3. k - p \in 1 .. n /\ (k - p) + p = k
        BY <2>1, <2>6, <4>2
      <4>4. io2[k-p] = io[k]
        BY <2>6, <4>3
      <4> QED
        BY <4>1, <4>3, <4>4 DEF Elems
    <3> QED
      BY <3>1, <3>2
  <2>15. done \subseteq Elems(io, ni)
    BY <2>1, <2>5 DEF Elems
  <2>16. Lists(f2, m, io2, n)'
    <3>1. free_seq_end' = f2[m]
      <4>1. m \in 1 .. m /\ m - nf = p
        BY <2>1, <2>5
      <4>2. f2[m] = io[p]
        BY <2>1, <2>5, <4>1
      <4> QED
        BY <2>3, <4>2
    <3>2. n > 0 => io_seq_end' = io2[n]
      <4> SUFFICES ASSUME n > 0 PROVE io_seq_end' = io2[n]
        OBVIOUS
      <4>1. n \in 1 .. n /\ n + p = ni
        BY <2>1, <2>6
      <4> QED
        BY <1>0, <1>3, <2>1, <2>6, <4>1
    <3>3. /\ Elems(f, nf) \cap Elems(io, ni) = {}
          /\ Elems(f, nf) \cup Elems(io, ni) = Entries
      BY <1>0, <1>1 DEF Lists
    <3>4. \A k \in 1 .. n : proc_table'[io2[k]].prev = IF k = 1 THEN NIL ELSE io2[k-1]
      BY <2>11
    <3> HIDE DEF done
    <3> QED
      BY <1>0, <2>5, <2>9, <2>12, <2>13, <2>14, <2>15, <3>1, <3>2, <3>3, <3>4 DEF Lists
  <2>17. ListInv' /\ OnFree' = OnFree \cup done /\ OnIo' = OnIo \ done
    BY <1>2, <2>13, <2>14, <2>16, ShapeHoldsNext DEF Shape, ListInv
  <2>18. /\ \A i \in done : Finished(i)
         /\ io_seq \in done /\ last \in done /\ done # {}
    BY <1>6, <2>1 DEF Elems
  <2>19. \A i \in done \ {last} : proc_table[i].next \in done
    <3> SUFFICES ASSUME NEW i \in done \ {last} PROVE proc_table[i].next \in done
      OBVIOUS
    <3>1. PICK k \in 1 .. p : i = io[k]
      BY DEF Elems
    <3>2. k # p /\ k \in 1 .. ni /\ k + 1 \in 1 .. p /\ k # ni
      BY <2>1, <3>1
    <3>3. proc_table[i].next = io[k+1]
      BY <1>3, <3>1, <3>2
    <3> QED
      BY <3>2, <3>3 DEF Elems
  <2>20. last # f[nf]
    BY <1>4, <1>5, <2>1
  <2> HIDE DEF done, last
  <2>21. \E l \in done :
               /\ proc_table'[l].next = NIL
               /\ \A i \in done \ {l} : proc_table[i].next \in done
               /\ \A i \in Entries \ {free_seq_end, l} :
                    proc_table'[i].next = proc_table[i].next
    BY <1>4, <2>1, <2>4, <2>18, <2>19, <2>20
  <2>22. proc_table'[free_seq_end].next = io_seq
    <3>1. f[nf] \in Entries
      BY <1>4
    <3> QED
      BY <1>4, <2>1, <2>4, <3>1
  <2>23. done \subseteq OnIo /\ OnIo \subseteq Entries
    BY <1>1, <1>2, <2>15 DEF Lists
  <2>24. ReclaimedPrefix(done)
    BY <2>4, <2>17, <2>18, <2>21, <2>22, <2>23 DEF ReclaimedPrefix
  <2> QED
    BY <2>23, <2>24
<1> QED
  BY <1>7, <1>8

-----------------------------------------------------------------------------
(* The rest of the inductive invariant.                                     *)

(* Commands are numbered from 1 on, and their writebacks carry their number.*)
FetchInv ==
  \E n \in Nat : /\ FetchedCmds = (1 .. n) \X {0}
                 /\ \A r \in fetched : r \in Reqs /\ r[1] <= n

(* The entry in hand as far as it is filled in.                             *)
HandInv ==
  /\ HandLinks
  /\ d.pc \in FillPcs =>
       /\ proc_table[d.entry].nsecs_target = Current.target
       /\ ~IsWriteback(Current.req) => proc_table[d.entry].cmd = Current.req
  /\ d.pc = "link" => /\ RequestOf(d.entry) = Current.req
                      /\ proc_table[d.entry].writeback_cmd = IsWriteback(Current.req)

(* The worker works only on entries that are not completed, and not on free *)
(* ones; when it stands on a free entry, that one and all behind it are     *)
(* completed, so it walks past entries that were used and is never led to   *)
(* one that was not.                                                        *)
WorkerInv ==
  /\ w.pc \in {"copy", "check", "mark"} =>
       w.curr \in OnIo \cup InHand /\ ~proc_table[w.curr].is_completed
  /\ w.pc # "start" /\ w.curr \in OnFree => proc_table[w.curr].is_completed
  /\ \A i \in OnFree : proc_table[i].is_completed /\ proc_table[i].next # NIL =>
       proc_table[proc_table[i].next].is_completed
  /\ d.pc \in {"is_copied", "next"} /\ w.pc # "start" /\ w.curr = d.entry =>
       proc_table[free_seq].is_completed

(* Every request the dispatcher still has to link, and every one linked,    *)
(* was fetched, and no two of them are the same.                            *)
ReqInv ==
  /\ \A i \in DOMAIN d.todo : /\ d.todo[i].req \in fetched
                              /\ \A j \in OnIo : RequestOf(j) # d.todo[i].req
  /\ \A i, j \in DOMAIN d.todo : d.todo[i].req = d.todo[j].req => i = j
  /\ \A i \in OnIo : /\ RequestOf(i) \in fetched
                     /\ proc_table[i].writeback_cmd = IsWriteback(RequestOf(i))
  /\ \A i, j \in OnIo : RequestOf(i) = RequestOf(j) => i = j

(* As long as no target was reached before its entry was linked, posted     *)
(* says of every request whether it is over.                                *)
InTimeInv == ~late =>
  /\ \A i \in DOMAIN d.todo : d.todo[i].target > now /\ posted[d.todo[i].req] = 0
  /\ d.pc \in FillPcs => ~proc_table[d.entry].is_completed
  /\ w.pc = "mark" => w.curr \in OnIo
  /\ \A r \in Reqs : posted[r] <= 1 /\ (r \notin fetched => posted[r] = 0)
  /\ \A i \in OnIo :
       posted[RequestOf(i)] = IF proc_table[i].is_completed \/ (w.pc = "mark" /\ w.curr = i)
                              THEN 1 ELSE 0
  /\ \A i \in OnFree : RequestOf(i) = NoReq \/ posted[RequestOf(i)] = 1

(* As long as the worker served no entry that was being filled in,          *)
(* is_copied says of every linked command whether its data was transferred. *)
CopyInv == ~torn =>
  /\ w.pc \in {"check", "mark"} => w.curr \in OnIo /\ proc_table[w.curr].is_copied
  /\ \A i \in OnIo : proc_table[i].is_copied /\ ~proc_table[i].writeback_cmd =>
       RequestOf(i) \in copied
  /\ d.pc \in {"next", "writeback_cmd", "link"} =>
       proc_table[d.entry].is_copied = IsWriteback(Current.req)
  /\ \A r \in Reqs : ~IsWriteback(r) /\ posted[r] >= 1 => r \in copied

Ascending == ~late =>
  \A i \in OnIo : proc_table[i].next # NIL =>
    proc_table[i].nsecs_target <= proc_table[proc_table[i].next].nsecs_target

IInv ==
  TypeOK /\ ListInv /\ FetchInv /\ HandInv /\ WorkerInv /\ ReqInv /\ InTimeInv /\ CopyInv /\ Ascending

-----------------------------------------------------------------------------
(* Initially.                                                               *)

LEMMA InitIInv == Init => IInv
<1> SUFFICES ASSUME Init PROVE IInv
  OBVIOUS
<1>0. /\ N \in Nat /\ N >= 2 /\ N = NR_MAX_PARALLEL_IO /\ Entries = 0 .. N - 1 /\ NIL = -1
      /\ MaxTime \in Nat /\ NrReqs \in Nat /\ MaxWriteback \in Nat
  BY TableSize, Bounds DEF N, Entries, NIL
<1>1. \A i \in Entries : /\ proc_table[i].next = IF i = N - 1 THEN NIL ELSE i + 1
                         /\ proc_table[i].prev = i - 1
                         /\ proc_table[i].is_completed = FALSE
                         /\ proc_table[i].cmd = NoReq /\ proc_table[i].writeback_cmd = FALSE
  BY <1>0 DEF Init
<1>2. TypeOK
  <2>1. proc_table \in [Entries -> Entry]
    <3>1. \A i \in Entries : i - 1 \in Links /\ (IF i = N - 1 THEN NIL ELSE i + 1) \in Links
      BY <1>0 DEF Links
    <3>2. 0 \in Times
      BY <1>0 DEF Times
    <3> QED
      BY <1>0, <3>1, <3>2 DEF Init, Entry
  <2>2. d \in [pc : {"idle", "enqueue", "reclaim"} \cup FillPcs, todo : Seq(Todo), entry : Links]
    BY DEF Init, Links
  <2>3. w \in [pc : {"start", "visit", "copy", "check", "mark", "next"}, curr : Links]
    BY DEF Init, Links
  <2>4. /\ free_seq \in Entries /\ free_seq_end \in Entries
        /\ io_seq \in Links /\ io_seq_end \in Links
        /\ proc_io_nsecs \in Times /\ now \in Times /\ proc_io_nsecs <= now
    BY <1>0 DEF Init, Links, Times
  <2>5. posted \in [Reqs \cup {NoReq} -> Nat] /\ late \in BOOLEAN /\ torn \in BOOLEAN
    BY DEF Init
  <2>6. d.pc = "idle" /\ d.entry = NIL /\ d.todo = <<>> /\ w.pc = "start"
    BY DEF Init
  <2> QED
    BY <2>1, <2>2, <2>3, <2>4, <2>5, <2>6 DEF TypeOK, FillPcs
<1>3. ListInv
  <2> DEFINE f == [k \in 1 .. N |-> k - 1]
             io == [k \in 1 .. 0 |-> 0]
  <2>1. Threaded(f, N, free_seq) /\ free_seq_end = f[N]
    BY <1>0, <1>1 DEF Threaded, Init
  <2>2. Threaded(io, 0, io_seq)
    BY <1>0 DEF Threaded, Init
  <2>3. Elems(f, N) = Entries
    <3>1. ASSUME NEW i \in Entries PROVE i \in Elems(f, N)
      <4>1. i + 1 \in 1 .. N /\ f[i+1] = i
        BY <1>0
      <4> QED
        BY <4>1 DEF Elems
    <3>2. ASSUME NEW i \in Elems(f, N) PROVE i \in Entries
      BY <1>0, <3>2 DEF Elems
    <3> QED
      BY <3>1, <3>2
  <2>4. Elems(io, 0) = {} /\ InHand = {}
    BY DEF Elems, InHand, Init
  <2> HIDE DEF f, io
  <2>5. Lists(f, N, io, 0)
    BY <1>0, <2>1, <2>2, <2>3, <2>4 DEF Lists
  <2> QED
    BY <2>5 DEF ListInv
<1>4. OnFree = Entries /\ OnIo = {}
  <2>1. io_seq = NIL /\ InHand = {}
    BY DEF Init, InHand
  <2> QED
    BY <1>3, <2>1, ListFacts
<1>5. FetchInv
  BY DEF FetchInv, FetchedCmds, Init
<1>6. d.pc = "idle" /\ w.pc = "start" /\ DOMAIN d.todo = {} /\ fetched = {} /\ d.todo = <<>>
  BY DEF Init
<1>7. HandInv
  BY <1>6 DEF HandInv, HandLinks, FillPcs
<1>8. WorkerInv
  BY <1>1, <1>4, <1>6 DEF WorkerInv
<1>9. ReqInv
  BY <1>4, <1>6 DEF ReqInv
<1>10. InTimeInv
  <2>1. \A r \in Reqs : posted[r] = 0
    BY DEF Init
  <2> QED
    BY <1>1, <1>4, <1>6, <2>1 DEF InTimeInv, FillPcs, RequestOf
<1>11. CopyInv
  <2>1. \A r \in Reqs : posted[r] = 0
    BY DEF Init
  <2> QED
    BY <1>4, <1>6, <2>1 DEF CopyInv
<1>12. Ascending
  BY <1>4 DEF Ascending
<1> QED
  BY <1>2, <1>3, <1>5, <1>7, <1>8, <1>9, <1>10, <1>11, <1>12 DEF IInv

-----------------------------------------------------------------------------
(* The worker's steps.                                                      *)

(* Where the entries are, in one place.                                     *)
LEMMA Places ==
  ASSUME TypeOK, ListInv
  PROVE  /\ NIL \notin Entries /\ OnIo \subseteq Entries /\ OnFree \subseteq Entries
         /\ InHand \subseteq Entries
         /\ d.pc \in FillPcs => d.entry \in Entries /\ InHand = {d.entry}
         /\ d.pc \notin FillPcs => d.entry = NIL /\ InHand = {}
         /\ OnFree \cap OnIo = {} /\ InHand \cap (OnFree \cup OnIo) = {}
         /\ \A i \in Entries : proc_table[i] \in Entry /\ RequestOf(i) \in Reqs \cup {NoReq}
         /\ w.pc # "start" => w.curr \in Entries
<1>1. NIL \notin Entries
  BY DEF NIL, Entries
<1>2. /\ OnFree \cup OnIo \cup InHand = Entries
      /\ OnFree \cap OnIo = {} /\ InHand \cap (OnFree \cup OnIo) = {}
  BY ListFacts
<1>3. /\ d.pc \in FillPcs => d.entry \in Entries /\ InHand = {d.entry}
      /\ d.pc \notin FillPcs => d.entry = NIL /\ InHand = {}
  BY <1>1 DEF TypeOK, InHand, Links
<1>4. \A i \in Entries : proc_table[i] \in Entry /\ RequestOf(i) \in Reqs \cup {NoReq}
  BY DEF TypeOK, Entry, RequestOf
<1>5. w.pc # "start" => w.curr \in Entries
  BY DEF TypeOK, Links
<1> QED
  BY <1>1, <1>2, <1>3, <1>4, <1>5

(* The request in hand, and what is left when it is done with.              *)
LEMMA CurrentIs ==
  ASSUME TypeOK, d.todo # <<>>
  PROVE  /\ 1 \in DOMAIN d.todo /\ Current = d.todo[1]
         /\ Current.req \in Reqs /\ Current.target \in Times
         /\ Tail(d.todo) \in Seq(Todo)
         /\ Len(d.todo) = 1 <=> Tail(d.todo) = <<>>
         /\ \A i \in DOMAIN Tail(d.todo) : /\ i + 1 \in DOMAIN d.todo /\ i + 1 # 1
                                          /\ Tail(d.todo)[i] = d.todo[i+1]
<1> DEFINE s == d.todo
<1>1. s \in Seq(Todo) /\ s # <<>>
  BY DEF TypeOK
<1>2. Current = Head(s)
  BY DEF Current
<1> HIDE DEF s
<1>3. /\ 1 \in DOMAIN s /\ Head(s) = s[1] /\ s[1] \in Todo
      /\ Tail(s) \in Seq(Todo)
      /\ Len(s) = 1 <=> Tail(s) = <<>>
  <2>1. Len(s) \in Nat /\ Len(s) # 0 /\ DOMAIN s = 1 .. Len(s) /\ Head(s) = s[1]
    BY <1>1
  <2>2. 1 \in DOMAIN s
    BY <2>1
  <2>3. s[1] \in Todo
    BY <1>1, <2>1, <2>2
  <2>4. Tail(s) \in Seq(Todo) /\ Len(Tail(s)) = Len(s) - 1
    BY <1>1
  <2>5. Tail(s) = <<>> <=> Len(Tail(s)) = 0
    BY <2>4, EmptySeq
  <2> QED
    BY <2>1, <2>2, <2>3, <2>4, <2>5
<1>4. ASSUME NEW i \in DOMAIN Tail(s)
      PROVE  i + 1 \in DOMAIN s /\ i + 1 # 1 /\ Tail(s)[i] = s[i+1]
  BY <1>1
<1>5. Current.req \in Reqs /\ Current.target \in Times
  BY <1>2, <1>3 DEF Todo
<1> QED
  BY <1>2, <1>3, <1>4, <1>5 DEF s

(* Steps that leave the dispatcher's variables and all that it writes into  *)
(* the table alone.                                                         *)
LEMMA WorkerFrame ==
  ASSUME IInv, UNCHANGED dispatcherVars,
         \A i \in Entries :
           /\ proc_table'[i].cmd = proc_table[i].cmd /\ proc_table'[i].wb = proc_table[i].wb
           /\ proc_table'[i].nsecs_target = proc_table[i].nsecs_target
           /\ proc_table'[i].writeback_cmd = proc_table[i].writeback_cmd
           /\ proc_table'[i].next = proc_table[i].next
           /\ proc_table'[i].prev = proc_table[i].prev
  PROVE  /\ ListInv' /\ OnFree' = OnFree /\ OnIo' = OnIo /\ InHand' = InHand
         /\ FetchInv' /\ HandInv' /\ ReqInv' /\ Ascending'
         /\ \A i \in Entries : RequestOf(i)' = RequestOf(i)
<1>1. UNCHANGED lists /\ d' = d /\ fetched' = fetched /\ late' = late /\ now' = now
  BY DEF dispatcherVars
<1>2. ListInv' /\ OnFree' = OnFree /\ OnIo' = OnIo
  BY <1>1, ListsFrame DEF IInv
<1>3. InHand' = InHand
  BY <1>1 DEF InHand
<1>4. FetchInv'
  BY <1>1 DEF IInv, FetchInv, FetchedCmds
<1>5. \A i \in Entries : RequestOf(i)' = RequestOf(i)
  BY DEF RequestOf
<1>6. HandInv'
  <2>1. HandInv /\ (d.pc \in FillPcs => d.entry \in Entries) /\ free_seq' = free_seq
    BY <1>1, Places DEF IInv, lists
  <2> QED
    BY <1>1, <1>5, <2>1 DEF HandInv, HandLinks, FillPcs, Current
<1>7. OnIo \subseteq Entries
  BY Places DEF IInv
<1>8. ReqInv'
  BY <1>1, <1>2, <1>5, <1>7 DEF IInv, ReqInv
<1>9. Ascending'
  <2>1. \A i \in OnIo : proc_table[i].next \in OnIo \cup {NIL}
    BY ListFacts DEF IInv
  <2> QED
    BY <1>1, <1>2, <1>7, <2>1 DEF IInv, Ascending
<1> QED
  BY <1>2, <1>3, <1>4, <1>5, <1>6, <1>8, <1>9

(* Steps with which the worker only moves on.                               *)
LEMMA MoveIInv ==
  ASSUME IInv, WorkerStart \/ WorkerVisit \/ WorkerNext
  PROVE  IInv'
<1> USE DEF IInv
<1>1. UNCHANGED <<proc_table, dispatcherVars, torn, copied, posted>>
  BY DEF WorkerStart, WorkerVisit, WorkerNext
<1>2. UNCHANGED <<lists, now, d, fetched, late>>
  BY <1>1 DEF dispatcherVars
<1>3. /\ ListInv' /\ OnFree' = OnFree /\ OnIo' = OnIo /\ InHand' = InHand
      /\ FetchInv' /\ HandInv' /\ ReqInv' /\ Ascending'
      /\ \A i \in Entries : RequestOf(i)' = RequestOf(i)
  BY <1>1, WorkerFrame
<1>4. /\ io_seq \in OnIo \cup {NIL}
      /\ \A i \in OnFree : proc_table[i].next \in OnFree \cup {NIL}
      /\ \A i \in OnIo : proc_table[i].next \in OnIo \cup {NIL}
  BY ListFacts
<1>5. /\ NIL \notin Entries /\ OnIo \subseteq Entries /\ OnFree \subseteq Entries
      /\ OnFree \cap OnIo = {} /\ InHand \cap (OnFree \cup OnIo) = {}
      /\ d.pc \in FillPcs => d.entry \in Entries /\ InHand = {d.entry}
      /\ d.pc \notin FillPcs => d.entry = NIL /\ InHand = {}
      /\ \A i \in Entries : proc_table[i] \in Entry /\ RequestOf(i) \in Reqs \cup {NoReq}
      /\ w.pc # "start" => w.curr \in Entries
      /\ OnFree \cup OnIo \cup InHand = Entries
  BY Places, ListFacts
<1>6. TypeOK'
  <2>1. /\ w' \in [pc : {"start", "visit", "copy", "check", "mark", "next"}, curr : Links]
        /\ w'.pc # "start" => w'.curr # NIL
        /\ proc_io_nsecs' \in Times /\ proc_io_nsecs' <= now
    <3>1. CASE WorkerStart
      BY <3>1 DEF WorkerStart, TypeOK
    <3>2. CASE WorkerVisit
      BY <3>2 DEF WorkerVisit, TypeOK, WorkerGoto, Times
    <3>3. CASE WorkerNext
      <4>1. w.curr \in Entries /\ pe.next \in Links
        BY <1>5, <3>3 DEF WorkerNext, Entry, pe
      <4> QED
        BY <3>3, <4>1 DEF WorkerNext, TypeOK
    <3> QED
      BY <3>1, <3>2, <3>3
  <2>2. UNCHANGED <<free_seq, free_seq_end, io_seq, io_seq_end>>
    BY <1>2 DEF lists
  <2> QED
    BY <1>1, <1>2, <2>1, <2>2 DEF TypeOK
<1>7. w'.pc # "mark" /\ w'.pc # "check" /\ w.pc # "mark"
  BY DEF WorkerStart, WorkerVisit, WorkerNext, WorkerGoto, TypeOK
<1>8. WorkerInv'
  <2>1. free_seq' = free_seq /\ proc_table' = proc_table /\ d' = d
    BY <1>1, <1>2 DEF lists
  <2>2. ASSUME w'.pc = "copy"
        PROVE  w'.curr \in OnIo \cup InHand /\ ~proc_table[w'.curr].is_completed
    <3>1. w.pc = "visit" /\ w'.curr = w.curr /\ ~proc_table[w.curr].is_completed
      BY <2>2 DEF WorkerStart, WorkerVisit, WorkerNext, WorkerGoto, TypeOK, pe
    <3> QED
      BY <1>5, <3>1 DEF WorkerInv
  <2>3. ASSUME w'.pc # "start", w'.curr \in OnFree PROVE proc_table[w'.curr].is_completed
    <3>1. CASE WorkerStart
      BY <1>4, <1>5, <2>3, <3>1 DEF WorkerStart
    <3>2. CASE WorkerVisit
      <4>1. w'.curr = w.curr /\ w.pc # "start"
        BY <3>2 DEF WorkerVisit, WorkerGoto, TypeOK
      <4> QED
        BY <2>3, <4>1 DEF WorkerInv
    <3>3. CASE WorkerNext
      <4>1. /\ w.pc # "start" /\ w.curr \in Entries
            /\ w'.curr = proc_table[w.curr].next /\ proc_table[w.curr].next # NIL
        BY <1>5, <2>3, <3>3 DEF WorkerNext, pe
      <4>2. CASE w.curr \in OnFree
        BY <2>3, <4>1, <4>2 DEF WorkerInv
      <4>3. CASE w.curr \in OnIo
        BY <1>4, <1>5, <2>3, <4>1, <4>3
      <4>4. CASE w.curr \in InHand
        <5>1. d.pc \in FillPcs /\ w.curr = d.entry
          BY <1>5, <4>4
        <5>2. d.pc \in {"is_copied", "next"} /\ proc_table[w.curr].next = free_seq
          BY <4>1, <5>1 DEF HandInv, HandLinks, FillPcs
        <5> QED
          BY <4>1, <5>1, <5>2 DEF WorkerInv
      <4> QED
        BY <1>5, <4>1, <4>2, <4>3, <4>4
    <3> QED
      BY <3>1, <3>2, <3>3
  <2>4. ASSUME d.pc \in {"is_copied", "next"}, w'.pc # "start", w'.curr = d.entry
        PROVE  proc_table[free_seq].is_completed
    <3>0. d.pc \in FillPcs /\ d.entry \in InHand
      BY <1>5, <2>4 DEF FillPcs
    <3>1. CASE WorkerStart
      BY <1>4, <1>5, <2>4, <3>0, <3>1 DEF WorkerStart
    <3>2. CASE WorkerVisit
      <4>1. w'.curr = w.curr /\ w.pc # "start"
        BY <3>2 DEF WorkerVisit, WorkerGoto, TypeOK
      <4> QED
        BY <2>4, <4>1 DEF WorkerInv
    <3>3. CASE WorkerNext
      <4>1. /\ w.pc # "start" /\ w.curr \in Entries
            /\ w'.curr = proc_table[w.curr].next /\ proc_table[w.curr].next # NIL
        BY <1>5, <2>4, <3>3 DEF WorkerNext, pe
      <4>2. w.curr \in InHand
        BY <1>4, <1>5, <2>4, <3>0, <4>1
      <4> QED
        BY <1>5, <2>4, <3>0, <4>1, <4>2 DEF WorkerInv
    <3> QED
      BY <3>1, <3>2, <3>3
  <2> QED
    BY <1>3, <1>7, <2>1, <2>2, <2>3, <2>4 DEF WorkerInv
<1>9. InTimeInv'
  BY <1>1, <1>2, <1>3, <1>5, <1>7 DEF InTimeInv, FillPcs
<1>10. CopyInv'
  BY <1>1, <1>2, <1>3, <1>5, <1>7 DEF CopyInv, Current
<1> QED
  BY <1>3, <1>6, <1>8, <1>9, <1>10

(* The worker transfers the data of the entry it stands on.                 *)
LEMMA CopyIInv ==
  ASSUME IInv, WorkerCopy
  PROVE  IInv'
<1> USE DEF IInv
<1>1. /\ UNCHANGED dispatcherVars
      /\ d' = d /\ fetched' = fetched /\ late' = late /\ now' = now
      /\ UNCHANGED <<free_seq, free_seq_end, io_seq, io_seq_end>>
      /\ proc_io_nsecs' = proc_io_nsecs /\ posted' = posted
  BY DEF WorkerCopy, dispatcherVars, lists
<1>2. /\ NIL \notin Entries /\ OnIo \subseteq Entries /\ OnFree \subseteq Entries
      /\ InHand \cap (OnFree \cup OnIo) = {}
      /\ d.pc \in FillPcs => d.entry \in Entries /\ InHand = {d.entry}
      /\ \A i \in Entries : proc_table[i] \in Entry
      /\ w.pc # "start" => w.curr \in Entries
  BY Places
<1>3. w.pc = "copy" /\ w.curr \in Entries /\ w' = [w EXCEPT !.pc = "check"]
  BY <1>2 DEF WorkerCopy, WorkerGoto
<1>4. w'.pc = "check" /\ w'.curr = w.curr
  BY <1>3 DEF TypeOK
<1>5. /\ proc_table' \in [Entries -> Entry]
      /\ \A i \in Entries :
           /\ proc_table'[i].cmd = proc_table[i].cmd /\ proc_table'[i].wb = proc_table[i].wb
           /\ proc_table'[i].nsecs_target = proc_table[i].nsecs_target
           /\ proc_table'[i].writeback_cmd = proc_table[i].writeback_cmd
           /\ proc_table'[i].is_completed = proc_table[i].is_completed
           /\ proc_table'[i].next = proc_table[i].next
           /\ proc_table'[i].prev = proc_table[i].prev
           /\ i # w.curr => proc_table'[i].is_copied = proc_table[i].is_copied
      /\ proc_table'[w.curr].is_copied
  <2>1. proc_table \in [Entries -> Entry]
    BY DEF TypeOK
  <2>2. CASE pe.is_copied
    BY <1>3, <2>1, <2>2 DEF WorkerCopy, pe
  <2>3. CASE ~pe.is_copied
    <3>1. proc_table' = [proc_table EXCEPT ![w.curr].is_copied = TRUE]
      BY <2>3 DEF WorkerCopy
    <3> QED
      BY <1>3, <2>1, <3>1, ZenonT(30) DEF Entry
  <2> QED
    BY <2>2, <2>3
<1>6. /\ ListInv' /\ OnFree' = OnFree /\ OnIo' = OnIo /\ InHand' = InHand
      /\ FetchInv' /\ HandInv' /\ ReqInv' /\ Ascending'
      /\ \A i \in Entries : RequestOf(i)' = RequestOf(i)
  BY <1>1, <1>5, WorkerFrame
<1>7. TypeOK'
  <2>1. w' \in [pc : {"start", "visit", "copy", "check", "mark", "next"}, curr : Links]
    BY <1>3 DEF TypeOK
  <2>2. torn' \in BOOLEAN
    BY DEF WorkerCopy, TypeOK
  <2> QED
    BY <1>1, <1>2, <1>3, <1>4, <1>5, <2>1, <2>2 DEF TypeOK
<1>8. WorkerInv'
  <2>1. \A i \in OnFree : proc_table[i].next \in OnFree \cup {NIL}
    BY ListFacts
  <2>2. free_seq \in OnFree
    BY ListFacts
  <2> QED
    BY <1>1, <1>2, <1>3, <1>4, <1>5, <1>6, <2>1, <2>2 DEF WorkerInv
<1>9. InTimeInv'
  BY <1>1, <1>2, <1>3, <1>4, <1>5, <1>6 DEF InTimeInv
<1>10. CopyInv'
  <2> SUFFICES ASSUME ~torn'
               PROVE  /\ w.curr \in OnIo /\ proc_table'[w.curr].is_copied
                      /\ \A i \in OnIo : proc_table'[i].is_copied /\ ~proc_table'[i].writeback_cmd =>
                           RequestOf(i) \in copied'
                      /\ d.pc \in {"next", "writeback_cmd", "link"} =>
                           proc_table'[d.entry].is_copied = IsWriteback(Current.req)
                      /\ \A r \in Reqs : ~IsWriteback(r) /\ posted[r] >= 1 => r \in copied'
    BY <1>1, <1>2, <1>4, <1>6 DEF CopyInv, Current
  <2>1. ~torn /\ w.curr \notin InHand
    BY DEF WorkerCopy, TypeOK
  <2>2. w.curr \in OnIo
    BY <1>3, <2>1 DEF WorkerInv
  <2>3. copied \subseteq copied'
    BY DEF WorkerCopy, __do_perform_io
  <2>4. ASSUME NEW i \in OnIo, proc_table'[i].is_copied, ~proc_table'[i].writeback_cmd
        PROVE  RequestOf(i) \in copied'
    <3>1. i \in Entries /\ ~proc_table[i].writeback_cmd /\ RequestOf(i) = proc_table[i].cmd
      BY <1>2, <1>5, <2>4 DEF RequestOf
    <3>2. CASE proc_table[i].is_copied
      BY <2>1, <2>3, <2>4, <3>1, <3>2 DEF CopyInv
    <3>3. CASE ~proc_table[i].is_copied
      <4>1. i = w.curr
        BY <1>5, <2>4, <3>1, <3>3
      <4> QED
        BY <3>1, <3>3, <4>1 DEF WorkerCopy, pe, __do_perform_io
    <3> QED
      BY <3>2, <3>3
  <2>5. ASSUME d.pc \in {"next", "writeback_cmd", "link"}
        PROVE  proc_table'[d.entry].is_copied = IsWriteback(Current.req)
    <3>1. d.entry \in Entries /\ d.entry # w.curr
      BY <1>2, <2>1, <2>5 DEF FillPcs
    <3>2. proc_table'[d.entry].is_copied = proc_table[d.entry].is_copied
      BY <1>5, <3>1
    <3> QED
      BY <2>1, <2>5, <3>2 DEF CopyInv
  <2>6. \A r \in Reqs : ~IsWriteback(r) /\ posted[r] >= 1 => r \in copied'
    BY <2>1, <2>3 DEF CopyInv
  <2> QED
    BY <1>5, <2>2, <2>4, <2>5, <2>6
<1> QED
  BY <1>6, <1>7, <1>8, <1>9, <1>10

(* The worker posts a completion when the target is reached.                *)
LEMMA CheckIInv ==
  ASSUME IInv, WorkerCheck
  PROVE  IInv'
<1> USE DEF IInv
<1>1. /\ UNCHANGED dispatcherVars /\ proc_table' = proc_table
      /\ d' = d /\ fetched' = fetched /\ late' = late /\ now' = now
      /\ UNCHANGED <<free_seq, free_seq_end, io_seq, io_seq_end>>
      /\ proc_io_nsecs' = proc_io_nsecs /\ torn' = torn /\ copied' = copied
  BY DEF WorkerCheck, dispatcherVars, lists
<1>2. /\ NIL \notin Entries /\ OnIo \subseteq Entries /\ OnFree \subseteq Entries
      /\ InHand \cap (OnFree \cup OnIo) = {}
      /\ d.pc \in FillPcs => d.entry \in Entries /\ InHand = {d.entry}
      /\ d.pc \notin FillPcs => InHand = {}
      /\ \A i \in Entries : proc_table[i] \in Entry /\ RequestOf(i) \in Reqs \cup {NoReq}
      /\ w.pc # "start" => w.curr \in Entries
  BY Places
<1> DEFINE r0 == RequestOf(w.curr)
           due == pe.nsecs_target <= proc_io_nsecs
<1>3. /\ w.pc = "check" /\ w.curr \in Entries /\ w'.curr = w.curr
      /\ w'.pc = IF due THEN "mark" ELSE "next"
      /\ r0 \in Reqs \cup {NoReq}
      /\ w' \in [pc : {"start", "visit", "copy", "check", "mark", "next"}, curr : Links]
  BY <1>2 DEF WorkerCheck, WorkerGoto, TypeOK
<1>4. /\ due => posted' = [posted EXCEPT ![r0] = @ + 1]
      /\ ~due => posted' = posted
      /\ posted \in [Reqs \cup {NoReq} -> Nat]
  BY DEF WorkerCheck, pe, RequestOf, TypeOK
<1>5. /\ ListInv' /\ OnFree' = OnFree /\ OnIo' = OnIo /\ InHand' = InHand
      /\ FetchInv' /\ HandInv' /\ ReqInv' /\ Ascending'
      /\ \A i \in Entries : RequestOf(i)' = RequestOf(i)
  BY <1>1, WorkerFrame
<1>6. TypeOK'
  <2>1. posted' \in [Reqs \cup {NoReq} -> Nat]
    BY <1>3, <1>4
  <2> QED
    BY <1>1, <1>2, <1>3, <2>1 DEF TypeOK
<1>7. WorkerInv'
  <2>1. /\ \A i \in OnFree : proc_table[i].next \in OnFree \cup {NIL}
        /\ free_seq \in OnFree
    BY ListFacts
  <2> QED
    BY <1>1, <1>2, <1>3, <1>5, <2>1 DEF WorkerInv
<1>8. ASSUME ~late, due
      PROVE  w.curr \in OnIo /\ r0 \in fetched /\ r0 \in Reqs /\ posted[r0] = 0
  <2>1. w.curr \notin InHand
    <3> SUFFICES ASSUME w.curr \in InHand PROVE FALSE
      OBVIOUS
    <3>1. d.pc \in FillPcs /\ w.curr = d.entry
      BY <1>2
    <3>2. pe.nsecs_target = Current.target
      BY <3>1 DEF HandInv, pe
    <3>3. d.todo # <<>>
      BY <3>1 DEF TypeOK
    <3>4. 1 \in DOMAIN d.todo /\ Current = d.todo[1] /\ d.todo[1].target \in Times
      BY <3>3, CurrentIs
    <3>5. Current.target > now
      BY <1>8, <3>4 DEF InTimeInv
    <3>6. proc_io_nsecs <= now /\ proc_io_nsecs \in Int /\ now \in Int /\ Current.target \in Int
      BY <3>4, Bounds DEF TypeOK, Times
    <3> QED
      BY <1>8, <3>2, <3>5, <3>6
  <2>2. w.curr \in OnIo /\ ~proc_table[w.curr].is_completed
    BY <1>3, <2>1 DEF WorkerInv
  <2>3. r0 \in fetched
    BY <2>2 DEF ReqInv
  <2>4. r0 \in Reqs
    BY <2>3 DEF FetchInv
  <2> QED
    BY <1>3, <1>8, <2>2, <2>3, <2>4 DEF InTimeInv
<1>9. InTimeInv'
  <2> SUFFICES ASSUME ~late
               PROVE  InTimeInv'
    BY <1>1 DEF InTimeInv
  <2> HIDE DEF r0, due
  <2>1. CASE ~due
    BY <1>1, <1>2, <1>3, <1>4, <1>5, <2>1 DEF InTimeInv
  <2>2. CASE due
    <3>1. w.curr \in OnIo /\ r0 \in fetched /\ r0 \in Reqs /\ posted[r0] = 0
      BY <1>8, <2>2
    <3>2. \A r \in Reqs \cup {NoReq} : posted'[r] = IF r = r0 THEN 1 ELSE posted[r]
      BY <1>3, <1>4, <2>2, <3>1
    <3>3. \A i \in DOMAIN d.todo : d.todo[i].target > now /\ posted'[d.todo[i].req] = 0
      <4> SUFFICES ASSUME NEW i \in DOMAIN d.todo
                   PROVE  d.todo[i].target > now /\ posted'[d.todo[i].req] = 0
        OBVIOUS
      <4>1. d.todo[i].req \in Reqs
        BY DEF ReqInv, FetchInv
      <4>2. d.todo[i].req # r0
        BY <3>1 DEF ReqInv, r0
      <4> QED
        BY <3>2, <4>1, <4>2 DEF InTimeInv
    <3>4. \A r \in Reqs : posted'[r] <= 1 /\ (r \notin fetched => posted'[r] = 0)
      BY <3>1, <3>2 DEF InTimeInv
    <3>5. \A i \in OnIo : posted'[RequestOf(i)] =
             IF proc_table[i].is_completed \/ w.curr = i THEN 1 ELSE 0
      <4> SUFFICES ASSUME NEW i \in OnIo
                   PROVE  posted'[RequestOf(i)] =
                            IF proc_table[i].is_completed \/ w.curr = i THEN 1 ELSE 0
        OBVIOUS
      <4>1. RequestOf(i) \in Reqs \cup {NoReq}
        BY <1>2
      <4>2. RequestOf(i) = r0 <=> i = w.curr
        BY <3>1 DEF ReqInv, r0
      <4>3. posted[RequestOf(i)] = IF proc_table[i].is_completed THEN 1 ELSE 0
        BY <1>3 DEF InTimeInv
      <4> QED
        BY <3>2, <4>1, <4>2, <4>3
    <3>6. \A i \in OnFree : RequestOf(i) = NoReq \/ posted'[RequestOf(i)] = 1
      <4> SUFFICES ASSUME NEW i \in OnFree, RequestOf(i) # NoReq
                   PROVE  posted'[RequestOf(i)] = 1
        OBVIOUS
      <4>1. RequestOf(i) \in Reqs /\ posted[RequestOf(i)] = 1
        BY <1>2 DEF InTimeInv
      <4> QED
        BY <3>2, <4>1
    <3>7. d.pc \in FillPcs => ~proc_table[d.entry].is_completed
      BY DEF InTimeInv
    <3>8. \A i \in OnIo \cup OnFree : RequestOf(i)' = RequestOf(i)
      BY <1>2, <1>5
    <3> QED
      BY <1>1, <1>3, <1>5, <2>2, <3>1, <3>3, <3>4, <3>5, <3>6, <3>7, <3>8 DEF InTimeInv
  <2> QED
    BY <2>1, <2>2
<1>10. CopyInv'
  <2> SUFFICES ASSUME ~torn
               PROVE  CopyInv'
    BY <1>1 DEF CopyInv
  <2>1. w.curr \in OnIo /\ proc_table[w.curr].is_copied
    BY <1>3 DEF CopyInv
  <2>2. \A r \in Reqs : ~IsWriteback(r) /\ posted'[r] >= 1 => r \in copied
    <3> SUFFICES ASSUME NEW r \in Reqs, ~IsWriteback(r), posted'[r] >= 1
                 PROVE  r \in copied
      OBVIOUS
    <3>1. CASE due /\ r = r0
      <4>1. ~proc_table[w.curr].writeback_cmd
        BY <2>1, <3>1 DEF ReqInv
      <4> QED
        BY <2>1, <3>1, <4>1 DEF CopyInv
    <3>2. CASE ~(due /\ r = r0)
      <4>1. posted'[r] = posted[r]
        BY <1>4, <3>2
      <4> QED
        BY <4>1 DEF CopyInv
    <3> QED
      BY <3>1, <3>2
  <2>3. \A i \in OnIo : RequestOf(i)' = RequestOf(i)
    BY <1>2, <1>5
  <2> QED
    BY <1>1, <1>3, <1>5, <2>1, <2>2, <2>3 DEF CopyInv, Current
<1> QED
  BY <1>5, <1>6, <1>7, <1>9, <1>10

(* The worker marks the entry completed.                                    *)
LEMMA MarkIInv ==
  ASSUME IInv, WorkerMark
  PROVE  IInv'
<1> USE DEF IInv
<1>1. /\ UNCHANGED dispatcherVars
      /\ d' = d /\ fetched' = fetched /\ late' = late /\ now' = now
      /\ UNCHANGED <<free_seq, free_seq_end, io_seq, io_seq_end>>
      /\ proc_io_nsecs' = proc_io_nsecs /\ posted' = posted
      /\ torn' = torn /\ copied' = copied
  BY DEF WorkerMark, dispatcherVars, lists
<1>2. /\ NIL \notin Entries /\ OnIo \subseteq Entries /\ OnFree \subseteq Entries
      /\ InHand \cap (OnFree \cup OnIo) = {} /\ OnFree \cap OnIo = {}
      /\ d.pc \in FillPcs => d.entry \in Entries /\ InHand = {d.entry}
      /\ \A i \in Entries : proc_table[i] \in Entry
      /\ w.pc # "start" => w.curr \in Entries
  BY Places
<1>3. w.pc = "mark" /\ w.curr \in Entries /\ w' = [w EXCEPT !.pc = "next"]
  BY <1>2 DEF WorkerMark, WorkerGoto
<1>4. w'.pc = "next" /\ w'.curr = w.curr
  BY <1>3 DEF TypeOK
<1>5. /\ proc_table' \in [Entries -> Entry]
      /\ \A i \in Entries :
           /\ proc_table'[i].cmd = proc_table[i].cmd /\ proc_table'[i].wb = proc_table[i].wb
           /\ proc_table'[i].nsecs_target = proc_table[i].nsecs_target
           /\ proc_table'[i].writeback_cmd = proc_table[i].writeback_cmd
           /\ proc_table'[i].next = proc_table[i].next
           /\ proc_table'[i].prev = proc_table[i].prev
           /\ proc_table'[i].is_copied = proc_table[i].is_copied
           /\ proc_table'[i].is_completed = (proc_table[i].is_completed \/ i = w.curr)
  <2>1. proc_table \in [Entries -> Entry]
    BY DEF TypeOK
  <2>2. proc_table' = [proc_table EXCEPT ![w.curr].is_completed = TRUE]
    BY DEF WorkerMark
  <2> QED
    BY <1>3, <2>1, <2>2, ZenonT(30) DEF Entry
<1>6. /\ ListInv' /\ OnFree' = OnFree /\ OnIo' = OnIo /\ InHand' = InHand
      /\ FetchInv' /\ HandInv' /\ ReqInv' /\ Ascending'
      /\ \A i \in Entries : RequestOf(i)' = RequestOf(i)
  BY <1>1, <1>5, WorkerFrame
<1>7. TypeOK'
  <2>1. w' \in [pc : {"start", "visit", "copy", "check", "mark", "next"}, curr : Links]
    BY <1>3 DEF TypeOK
  <2> QED
    BY <1>1, <1>2, <1>3, <1>4, <1>5, <2>1 DEF TypeOK
<1>8. w.curr \in OnIo \cup InHand
  BY <1>3 DEF WorkerInv
<1>9. WorkerInv'
  <2>1. /\ \A i \in OnFree : proc_table[i].next \in OnFree \cup {NIL}
        /\ free_seq \in OnFree
    BY ListFacts
  <2>2. w.curr \notin OnFree
    BY <1>2, <1>8
  <2>3. ASSUME NEW i \in OnFree
        PROVE  proc_table'[i].is_completed = proc_table[i].is_completed
    BY <1>2, <1>5, <2>2 DEF Entry
  <2>4. \A i \in OnFree : proc_table'[i].is_completed /\ proc_table'[i].next # NIL =>
          proc_table'[proc_table'[i].next].is_completed
    BY <1>2, <1>5, <2>1, <2>3 DEF WorkerInv
  <2>5. d.pc \in {"is_copied", "next"} /\ w.curr = d.entry => proc_table'[free_seq].is_completed
    BY <1>3, <2>1, <2>3 DEF WorkerInv
  <2> QED
    BY <1>1, <1>4, <1>6, <2>2, <2>4, <2>5 DEF WorkerInv
<1>10. InTimeInv'
  <2> SUFFICES ASSUME ~late
               PROVE  InTimeInv'
    BY <1>1 DEF InTimeInv
  <2>1. w.curr \in OnIo
    BY <1>3 DEF InTimeInv
  <2>2. d.pc \in FillPcs => ~proc_table'[d.entry].is_completed
    BY <1>2, <1>5, <2>1 DEF InTimeInv
  <2>3. \A i \in OnIo \cup OnFree : RequestOf(i)' = RequestOf(i)
    BY <1>2, <1>6
  <2>4. \A i \in OnIo : posted[RequestOf(i)] = IF proc_table'[i].is_completed THEN 1 ELSE 0
    BY <1>2, <1>3, <1>5 DEF InTimeInv
  <2> QED
    BY <1>1, <1>4, <1>6, <2>2, <2>3, <2>4 DEF InTimeInv
<1>11. CopyInv'
  <2>1. \A i \in OnIo : RequestOf(i)' = RequestOf(i)
    BY <1>2, <1>6
  <2> QED
    BY <1>1, <1>2, <1>4, <1>5, <1>6, <2>1 DEF CopyInv, Current, FillPcs
<1> QED
  BY <1>6, <1>7, <1>9, <1>10, <1>11

LEMMA WorkerIInv ==
  ASSUME IInv, Worker
  PROVE  IInv'
BY MoveIInv, CopyIInv, CheckIInv, MarkIInv DEF Worker

-----------------------------------------------------------------------------
(* The dispatcher's steps.                                                  *)

(* Going on with the next request.                                          *)
LEMMA AdvanceIs ==
  ASSUME TypeOK, d.todo # <<>>, d' = Advance(d)
  PROVE  /\ d' \in [pc : {"reclaim", "enqueue"}, todo : Seq(Todo), entry : Links]
         /\ d'.entry = NIL /\ d'.todo = Tail(d.todo) /\ d'.pc \in {"reclaim", "enqueue"}
         /\ d'.pc = "enqueue" <=> d'.todo # <<>>
<1>1. Tail(d.todo) \in Seq(Todo) /\ (Len(d.todo) = 1 <=> Tail(d.todo) = <<>>)
  BY CurrentIs
<1> QED
  BY <1>1 DEF Advance, Links

(* Steps with which the dispatcher fills in the entry in hand, and the      *)
(* refusal of a request: the lists and the linked entries stay as they are. *)
LEMMA FullIInv ==
  ASSUME IInv, EnqueueFull
  PROVE  IInv'
<1> USE DEF IInv
<1>1. /\ UNCHANGED <<proc_table, free_seq, free_seq_end, io_seq, io_seq_end, proc_io_nsecs, now, w,
                     fetched, late, torn, copied, posted>>
      /\ UNCHANGED lists
  BY DEF EnqueueFull, lists
<1>2. d.pc = "enqueue" /\ d.todo # <<>> /\ d.entry = NIL
  BY DEF EnqueueFull, TypeOK, FillPcs
<1>3. /\ d' \in [pc : {"reclaim", "enqueue"}, todo : Seq(Todo), entry : Links]
      /\ d'.entry = NIL /\ d'.todo = Tail(d.todo) /\ d'.pc \in {"reclaim", "enqueue"}
      /\ d'.pc = "enqueue" <=> d'.todo # <<>>
  BY <1>2, AdvanceIs DEF EnqueueFull
<1>4. \A i \in DOMAIN d'.todo : /\ i + 1 \in DOMAIN d.todo /\ d'.todo[i] = d.todo[i+1]
                                /\ i \in Int
  <2>1. Tail(d.todo) \in Seq(Todo)
    BY <1>2, CurrentIs
  <2> QED
    BY <1>2, <1>3, <2>1, CurrentIs
<1>5. ListInv' /\ OnFree' = OnFree /\ OnIo' = OnIo /\ InHand' = InHand
  BY <1>1, <1>2, <1>3, ListsFrame DEF InHand
<1>6. TypeOK'
  BY <1>1, <1>2, <1>3 DEF TypeOK, FillPcs
<1>7. FetchInv'
  BY <1>1 DEF FetchInv, FetchedCmds
<1>8. HandInv'
  BY <1>3 DEF HandInv, HandLinks, FillPcs
<1>9. WorkerInv'
  BY <1>1, <1>3, <1>5 DEF WorkerInv
<1>10. ReqInv'
  BY <1>1, <1>4, <1>5 DEF ReqInv, RequestOf
<1>11. InTimeInv'
  BY <1>1, <1>3, <1>4, <1>5 DEF InTimeInv, RequestOf, FillPcs
<1>12. CopyInv'
  BY <1>1, <1>3, <1>5 DEF CopyInv, RequestOf
<1>13. Ascending'
  BY <1>1, <1>5 DEF Ascending
<1> QED
  BY <1>5, <1>6, <1>7, <1>8, <1>9, <1>10, <1>11, <1>12, <1>13

LEMMA HandFrame ==
  ASSUME IInv, d.pc \in FillPcs,
         d' \in [pc : FillPcs, todo : Seq(Todo), entry : Links],
         d'.pc \in {"next", "writeback_cmd", "link"}, d'.pc = "next" => d.pc = "is_copied",
         d'.entry = d.entry, d'.todo = d.todo,
         UNCHANGED <<lists, proc_io_nsecs, now, w, fetched, late, torn, copied, posted>>,
         proc_table' \in [Entries -> Entry],
         \A i \in Entries \ {d.entry} : proc_table'[i] = proc_table[i],
         proc_table'[d.entry].is_completed = proc_table[d.entry].is_completed,
         ~torn => proc_table'[d.entry].is_copied = IsWriteback(Current.req),
         HandInv'
  PROVE  IInv'
<1> USE DEF IInv
<1>1. /\ UNCHANGED <<free_seq, free_seq_end, io_seq, io_seq_end>>
      /\ UNCHANGED <<proc_io_nsecs, now, w, fetched, late, torn, copied, posted>>
  BY DEF lists
<1>2. /\ NIL \notin Entries /\ OnIo \subseteq Entries /\ OnFree \subseteq Entries
      /\ d.entry \in Entries /\ InHand = {d.entry}
      /\ InHand \cap (OnFree \cup OnIo) = {}
      /\ w.pc # "start" => w.curr \in Entries
  BY Places
<1>3. ListInv' /\ OnFree' = OnFree /\ OnIo' = OnIo /\ InHand' = InHand
  <2>1. UNCHANGED lists
    OBVIOUS
  <2> QED
    BY <1>2, <2>1, ListsFrame DEF InHand
<1>4. \A i \in OnFree \cup OnIo : /\ proc_table'[i] = proc_table[i]
                                  /\ RequestOf(i)' = RequestOf(i)
  <2>1. \A i \in OnFree \cup OnIo : i \in Entries \ {d.entry}
    BY <1>2
  <2> QED
    BY <2>1 DEF RequestOf
<1>5. /\ \A i \in OnFree : proc_table[i].next \in OnFree \cup {NIL}
      /\ \A i \in OnIo : proc_table[i].next \in OnIo \cup {NIL}
      /\ free_seq \in OnFree
  BY ListFacts
<1>6. TypeOK'
  BY <1>1, <1>2 DEF TypeOK, FillPcs
<1>7. FetchInv'
  BY <1>1 DEF FetchInv, FetchedCmds
<1>8. WorkerInv'
  <2>1. \A i \in Entries : proc_table'[i].is_completed = proc_table[i].is_completed
    OBVIOUS
  <2>2. w'.pc \in {"copy", "check", "mark"} =>
          w'.curr \in OnIo \cup InHand /\ ~proc_table'[w'.curr].is_completed
    BY <1>1, <1>2, <2>1 DEF WorkerInv
  <2>3. w'.pc # "start" /\ w'.curr \in OnFree => proc_table'[w'.curr].is_completed
    BY <1>1, <1>4 DEF WorkerInv
  <2>4. \A i \in OnFree : proc_table'[i].is_completed /\ proc_table'[i].next # NIL =>
          proc_table'[proc_table'[i].next].is_completed
    BY <1>4, <1>5 DEF WorkerInv
  <2>5. d'.pc \in {"is_copied", "next"} /\ w'.pc # "start" /\ w'.curr = d'.entry =>
          proc_table'[free_seq].is_completed
    BY <1>1, <1>4, <1>5 DEF WorkerInv
  <2> QED
    BY <1>1, <1>3, <2>2, <2>3, <2>4, <2>5 DEF WorkerInv
<1>9. ReqInv'
  BY <1>1, <1>3, <1>4 DEF ReqInv
<1>10. InTimeInv'
  <2> SUFFICES ASSUME ~late PROVE InTimeInv'
    BY <1>1 DEF InTimeInv
  <2>1. ~proc_table'[d'.entry].is_completed
    BY DEF InTimeInv
  <2> QED
    BY <1>1, <1>3, <1>4, <2>1 DEF InTimeInv
<1>11. CopyInv'
  <2> SUFFICES ASSUME ~torn PROVE CopyInv'
    BY <1>1 DEF CopyInv
  <2>1. proc_table'[d'.entry].is_copied = IsWriteback(Current.req)'
    BY DEF Current, IsWriteback
  <2> QED
    BY <1>1, <1>3, <1>4, <2>1 DEF CopyInv
<1>12. Ascending'
  BY <1>1, <1>3, <1>4, <1>5 DEF Ascending
<1> QED
  BY <1>3, <1>6, <1>7, <1>8, <1>9, <1>10, <1>11, <1>12

LEMMA FillRestIInv ==
  ASSUME IInv, EnqueueIsCopied \/ EnqueueNext \/ EnqueueWritebackCmd
  PROVE  IInv'
<1> USE DEF IInv
<1>1. /\ UNCHANGED <<lists, proc_io_nsecs, now, w, fetched, late, torn, copied, posted>>
      /\ UNCHANGED <<free_seq, free_seq_end, io_seq, io_seq_end>>
      /\ d.pc \in FillPcs
  BY DEF EnqueueIsCopied, EnqueueNext, EnqueueWritebackCmd, lists, FillPcs
<1>2. /\ NIL \notin Entries /\ d.entry \in Entries /\ d.todo # <<>>
      /\ Current.req \in Reqs
  BY <1>1, Places, CurrentIs DEF TypeOK
<1>3. proc_table \in [Entries -> Entry] /\ d.todo \in Seq(Todo) /\ d.entry \in Links
  BY DEF TypeOK
<1>4. IsWriteback(Current.req) \in BOOLEAN
  BY DEF IsWriteback
<1>5. CASE EnqueueIsCopied
  <2>1. d.pc = "is_copied" /\ d' = [d EXCEPT !.pc = "next"]
    BY <1>5 DEF EnqueueIsCopied
  <2>2. d'.pc = "next" /\ d'.entry = d.entry /\ d'.todo = d.todo
        /\ d' \in [pc : FillPcs, todo : Seq(Todo), entry : Links]
    BY <1>3, <2>1 DEF TypeOK, FillPcs
  <2>3. proc_table' = [proc_table EXCEPT ![d.entry].is_copied = IsWriteback(Current.req),
                                         ![d.entry].prev = NIL]
    BY <1>5 DEF EnqueueIsCopied
  <2>4. /\ proc_table' \in [Entries -> Entry]
        /\ \A i \in Entries \ {d.entry} : proc_table'[i] = proc_table[i]
        /\ proc_table'[d.entry].is_copied = IsWriteback(Current.req)
        /\ proc_table'[d.entry].is_completed = proc_table[d.entry].is_completed
        /\ proc_table'[d.entry].nsecs_target = proc_table[d.entry].nsecs_target
        /\ proc_table'[d.entry].cmd = proc_table[d.entry].cmd
        /\ proc_table'[d.entry].next = proc_table[d.entry].next
        /\ proc_table'[d.entry].prev = NIL
    BY <1>2, <1>3, <1>4, <2>3 DEF Entry, Links
  <2>5. HandInv'
    BY <1>1, <2>1, <2>2, <2>4 DEF HandInv, HandLinks, FillPcs, Current, IsWriteback
  <2> QED
    BY <1>1, <2>1, <2>2, <2>4, <2>5, HandFrame
<1>6. CASE EnqueueNext
  <2>1. d.pc = "next" /\ d' = [d EXCEPT !.pc = "writeback_cmd"]
    BY <1>6 DEF EnqueueNext
  <2>2. d'.pc = "writeback_cmd" /\ d'.entry = d.entry /\ d'.todo = d.todo
        /\ d' \in [pc : FillPcs, todo : Seq(Todo), entry : Links]
    BY <1>3, <2>1 DEF TypeOK, FillPcs
  <2>3. proc_table' = [proc_table EXCEPT ![d.entry].next = NIL]
    BY <1>6 DEF EnqueueNext
  <2>4. /\ proc_table' \in [Entries -> Entry]
        /\ \A i \in Entries \ {d.entry} : proc_table'[i] = proc_table[i]
        /\ proc_table'[d.entry].is_copied = proc_table[d.entry].is_copied
        /\ proc_table'[d.entry].is_completed = proc_table[d.entry].is_completed
        /\ proc_table'[d.entry].nsecs_target = proc_table[d.entry].nsecs_target
        /\ proc_table'[d.entry].cmd = proc_table[d.entry].cmd
        /\ proc_table'[d.entry].next = NIL
        /\ proc_table'[d.entry].prev = proc_table[d.entry].prev
    BY <1>2, <1>3, <2>3 DEF Entry, Links
  <2>5. HandInv'
    BY <1>1, <2>1, <2>2, <2>4 DEF HandInv, HandLinks, FillPcs, Current, IsWriteback
  <2>6. ~torn => proc_table'[d.entry].is_copied = IsWriteback(Current.req)
    BY <2>1, <2>4 DEF CopyInv
  <2> QED
    BY <1>1, <2>1, <2>2, <2>4, <2>5, <2>6, HandFrame
<1>7. CASE EnqueueWritebackCmd
  <2>1. d.pc = "writeback_cmd" /\ d' = [d EXCEPT !.pc = "link"]
    BY <1>7 DEF EnqueueWritebackCmd
  <2>2. d'.pc = "link" /\ d'.entry = d.entry /\ d'.todo = d.todo
        /\ d' \in [pc : FillPcs, todo : Seq(Todo), entry : Links]
    BY <1>3, <2>1 DEF TypeOK, FillPcs
  <2> DEFINE wb == IF IsWriteback(Current.req) THEN Current.req ELSE proc_table[d.entry].wb
  <2>4. wb \in Reqs \cup {NoReq}
    BY <1>2, <1>3 DEF Entry
  <2>5. /\ proc_table' \in [Entries -> Entry]
        /\ \A i \in Entries \ {d.entry} : proc_table'[i] = proc_table[i]
        /\ proc_table'[d.entry].is_copied = proc_table[d.entry].is_copied
        /\ proc_table'[d.entry].is_completed = proc_table[d.entry].is_completed
        /\ proc_table'[d.entry].nsecs_target = proc_table[d.entry].nsecs_target
        /\ proc_table'[d.entry].cmd = proc_table[d.entry].cmd
        /\ proc_table'[d.entry].next = proc_table[d.entry].next
        /\ proc_table'[d.entry].prev = proc_table[d.entry].prev
        /\ proc_table'[d.entry].writeback_cmd = IsWriteback(Current.req)
        /\ proc_table'[d.entry].wb = wb
    BY <1>2, <1>3, <1>4, <1>7, <2>4 DEF Entry, EnqueueWritebackCmd
  <2> HIDE DEF wb
  <2>6. Current' = Current
    BY <2>2 DEF Current
  <2>7. HandInv'
    <3>1. RequestOf(d.entry)' = Current.req
      BY <1>1, <2>1, <2>2, <2>5 DEF HandInv, RequestOf, wb
    <3> QED
      BY <1>1, <2>1, <2>2, <2>5, <2>6, <3>1
      DEF HandInv, HandLinks, FillPcs, IsWriteback
  <2>8. ~torn => proc_table'[d.entry].is_copied = IsWriteback(Current.req)
    BY <2>1, <2>5 DEF CopyInv
  <2> QED
    BY <1>1, <2>1, <2>2, <2>5, <2>7, <2>8, HandFrame
<1> QED
  BY <1>5, <1>6, <1>7

(* The head of the free list becomes the entry in hand.                     *)
LEMMA FillIInv ==
  ASSUME IInv, EnqueueFill
  PROVE  IInv'
<1> USE DEF IInv
<1> DEFINE e == free_seq
<1>1. /\ UNCHANGED <<free_seq_end, io_seq, io_seq_end, proc_io_nsecs, now, w,
                     fetched, late, torn, copied, posted>>
      /\ d.pc = "enqueue" /\ d.todo # <<>> /\ InHand = {}
  BY Places DEF EnqueueFill, TypeOK, FillPcs
<1>2. /\ NIL \notin Entries /\ OnIo \subseteq Entries /\ OnFree \subseteq Entries
      /\ OnFree \cap OnIo = {} /\ e \in Entries
      /\ w.pc # "start" => w.curr \in Entries
  BY Places DEF TypeOK
<1>3. d'.pc = "is_copied" /\ d'.entry = e /\ d'.todo = d.todo /\ InHand' = {e}
      /\ d' \in [pc : FillPcs, todo : Seq(Todo), entry : Links]
  <2>1. d' = [d EXCEPT !.pc = "is_copied", !.entry = e]
    BY DEF EnqueueFill
  <2>2. d'.pc = "is_copied" /\ d'.entry = e /\ d'.todo = d.todo
        /\ d' \in [pc : FillPcs, todo : Seq(Todo), entry : Links]
    BY <1>2, <2>1 DEF TypeOK, FillPcs, Links
  <2> QED
    BY <1>2, <2>2 DEF InHand
<1>4. /\ ListInv' /\ OnIo' = OnIo /\ OnFree' = OnFree \ {e} /\ e \in OnFree
      /\ free_seq' \in OnFree' /\ free_seq' = proc_table[e].next
  BY FillLists
<1>5. Current.req \in Reqs /\ Current.target \in Times
  BY <1>1, CurrentIs
<1>6. /\ proc_table' \in [Entries -> Entry]
      /\ \A i \in Entries \ {e} : proc_table'[i] = proc_table[i]
      /\ proc_table'[e].next = proc_table[e].next
      /\ proc_table'[e].nsecs_target = Current.target
      /\ ~IsWriteback(Current.req) => proc_table'[e].cmd = Current.req
      /\ proc_table'[e].is_completed = FALSE
  <2>1. proc_table \in [Entries -> Entry]
    BY DEF TypeOK
  <2> DEFINE c == IF IsWriteback(Current.req) THEN proc_table[e].cmd ELSE Current.req
  <2>2. proc_table' = [proc_table EXCEPT ![e].cmd = c,
           ![e].nsecs_target = Current.target, ![e].is_completed = FALSE]
    BY DEF EnqueueFill
  <2>3. c \in Reqs \cup {NoReq} /\ (~IsWriteback(Current.req) => c = Current.req)
    BY <1>2, <1>5, <2>1 DEF Entry
  <2> HIDE DEF c
  <2>4. proc_table' \in [Entries -> Entry]
    <3> DEFINE x == [proc_table[e] EXCEPT !.cmd = c]
               y == [x EXCEPT !.nsecs_target = Current.target]
               z == [y EXCEPT !.is_completed = FALSE]
    <3>1. x \in Entry
      BY <1>2, <2>1, <2>3 DEF Entry
    <3>2. y \in Entry
      <4> HIDE DEF x
      <4> QED
        BY <1>5, <3>1 DEF Entry
    <3>3. z \in Entry
      <4> HIDE DEF x, y
      <4> QED
        BY <3>2 DEF Entry
    <3>4. proc_table' = [proc_table EXCEPT ![e] = z]
      BY <1>2, <2>1, <2>2
    <3> HIDE DEF x, y, z
    <3> QED
      BY <1>2, <2>1, <3>3, <3>4
  <2> QED
    BY <1>2, <1>5, <2>1, <2>2, <2>3, <2>4 DEF Entry
<1>7. \A i \in OnFree' \cup OnIo : /\ i \in Entries /\ i # e /\ proc_table'[i] = proc_table[i]
                                   /\ RequestOf(i)' = RequestOf(i)
  <2>1. \A i \in OnFree' \cup OnIo : i \in Entries /\ i # e
    BY <1>2, <1>4
  <2> QED
    BY <1>6, <2>1 DEF RequestOf
<1>8. /\ \A i \in OnFree' : proc_table'[i].next \in OnFree' \cup {NIL}
      /\ \A i \in OnIo : proc_table[i].next \in OnIo \cup {NIL}
  BY <1>4, NextStays, ListFacts DEF NextStaysFree
<1>9. TypeOK'
  BY <1>1, <1>2, <1>3, <1>4, <1>6 DEF TypeOK, FillPcs
<1>10. FetchInv'
  BY <1>1 DEF FetchInv, FetchedCmds
<1>11. HandInv'
  <2>1. Current' = Current
    BY <1>3 DEF Current
  <2> QED
    BY <1>3, <1>4, <1>6, <2>1 DEF HandInv, HandLinks, IsWriteback
<1>12. WorkerInv'
  <2>1. w.pc \in {"copy", "check", "mark"} => w.curr \in OnIo /\ ~proc_table[w.curr].is_completed
    BY <1>1 DEF WorkerInv
  <2>2. w'.pc \in {"copy", "check", "mark"} =>
          w'.curr \in OnIo /\ ~proc_table'[w'.curr].is_completed
    BY <1>1, <1>7, <2>1
  <2>3. w'.pc # "start" /\ w'.curr \in OnFree' => proc_table'[w'.curr].is_completed
    BY <1>1, <1>4, <1>7 DEF WorkerInv
  <2>4. ASSUME NEW i \in OnFree', proc_table'[i].is_completed, proc_table'[i].next # NIL
        PROVE  proc_table'[proc_table'[i].next].is_completed
    <3>1. i \in OnFree /\ proc_table'[i] = proc_table[i] /\ proc_table[i].next \in OnFree'
      BY <1>4, <1>7, <1>8, <2>4
    <3>2. proc_table[proc_table[i].next].is_completed
      BY <2>4, <3>1 DEF WorkerInv
    <3> QED
      BY <1>7, <3>1, <3>2
  <2>5. w.pc # "start" /\ w.curr = e => proc_table'[free_seq'].is_completed
    <3> SUFFICES ASSUME w.pc # "start", w.curr = e PROVE proc_table'[free_seq'].is_completed
      OBVIOUS
    <3>1. proc_table[e].is_completed
      BY <1>4 DEF WorkerInv
    <3>2. proc_table[e].next # NIL
      BY <1>4, <1>7, <1>2
    <3>3. proc_table[proc_table[e].next].is_completed
      BY <1>4, <3>1, <3>2 DEF WorkerInv
    <3> QED
      BY <1>4, <1>7, <3>3
  <2> QED
    BY <1>1, <1>3, <1>4, <2>2, <2>3, <2>4, <2>5 DEF WorkerInv
<1>13. ReqInv'
  BY <1>1, <1>3, <1>4, <1>7 DEF ReqInv
<1>14. InTimeInv'
  <2> SUFFICES ASSUME ~late PROVE InTimeInv'
    BY <1>1 DEF InTimeInv
  <2> QED
    BY <1>1, <1>3, <1>4, <1>6, <1>7 DEF InTimeInv
<1>15. CopyInv'
  <2> SUFFICES ASSUME ~torn PROVE CopyInv'
    BY <1>1 DEF CopyInv
  <2> QED
    BY <1>1, <1>3, <1>4, <1>7 DEF CopyInv
<1>16. Ascending'
  BY <1>1, <1>4, <1>7, <1>8 DEF Ascending
<1> QED
  BY <1>4, <1>9, <1>10, <1>11, <1>12, <1>13, <1>14, <1>15, <1>16

(* Where the walks of the link and reclaim steps end.                       *)
LEMMA WalkEnds ==
  ASSUME TypeOK, ListInv
  PROVE  /\ io_seq # NIL => \A target : InsertionPoint(target) \in Links
         /\ LastFinished \in Links
<1>1. PICK f, nf, io, ni : Lists(f, nf, io, ni)
  BY DEF ListInv
<1>2. /\ Threaded(io, ni, io_seq) /\ (ni > 0 => io_seq_end = io[ni])
      /\ \A k \in 1 .. ni : proc_table[io[k]].prev = IF k = 1 THEN NIL ELSE io[k-1]
  BY <1>1 DEF Lists
<1>3. ni \in Nat /\ io \in [1 .. ni -> Entries] /\ io_seq = IF ni = 0 THEN NIL ELSE io[1]
  BY <1>2 DEF Threaded
<1>4. \A p \in 0 .. ni : (IF p = 0 THEN NIL ELSE io[p]) \in Links
  BY <1>3 DEF Links
<1>5. ASSUME io_seq # NIL, NEW target PROVE InsertionPoint(target) \in Links
  <2>1. ni > 0
    BY <1>3, <1>5
  <2>2. \E p \in 0 .. ni : InsertionPoint(target) = IF p = 0 THEN NIL ELSE io[p]
    BY <1>2, <2>1, InsertionPointIs
  <2> QED
    BY <1>4, <2>2
<1>6. LastFinished \in Links
  <2>1. \E p \in 0 .. ni : LastFinished = IF p = 0 THEN NIL ELSE io[p]
    BY <1>2, LastFinishedIs
  <2> QED
    BY <1>4, <2>1
<1> QED
  BY <1>5, <1>6

LEMMA SetLink ==
  ASSUME NEW t \in [Entries -> Entry], NEW i \in Entries, NEW x \in Links
  PROVE  /\ [t EXCEPT ![i].next = x] \in [Entries -> Entry]
         /\ [t EXCEPT ![i].prev = x] \in [Entries -> Entry]
BY DEF Entry

LEMMA LinkTypeOK ==
  ASSUME TypeOK, ListInv, Link
  PROVE  TypeOK'
<1>1. /\ UNCHANGED <<free_seq, free_seq_end, proc_io_nsecs, now, w, late, torn, posted>>
      /\ d.pc = "link" /\ d' = Advance(d)
  BY DEF Link, LinkEmpty, LinkHead, LinkAfter
<1>2. d.entry \in Entries /\ d.todo # <<>> /\ NIL \notin Entries
  BY <1>1, Places DEF TypeOK, FillPcs
<1>3. /\ d' \in [pc : {"reclaim", "enqueue"}, todo : Seq(Todo), entry : Links]
      /\ d'.entry = NIL /\ d'.todo = Tail(d.todo) /\ d'.pc \in {"reclaim", "enqueue"}
      /\ d'.pc = "enqueue" <=> d'.todo # <<>>
  BY <1>1, <1>2, AdvanceIs
<1> DEFINE Type == proc_table' \in [Entries -> Entry] /\ io_seq' \in Links /\ io_seq_end' \in Links
<1>4. ASSUME LinkEmpty PROVE Type
  BY <1>2, <1>4 DEF LinkEmpty, TypeOK, Links
<1>5. ASSUME LinkHead PROVE Type
  <2>1. io_seq \in Entries /\ io_seq \in Links /\ d.entry \in Links
    BY <1>2, <1>5 DEF LinkHead, TypeOK, Links
  <2> DEFINE t == [proc_table EXCEPT ![io_seq].prev = d.entry]
  <2>2. t \in [Entries -> Entry]
    BY <2>1, SetLink DEF TypeOK
  <2>3. proc_table' = [t EXCEPT ![d.entry].next = io_seq]
    BY <1>5 DEF LinkHead
  <2> HIDE DEF t
  <2>4. proc_table' \in [Entries -> Entry]
    BY <1>2, <2>1, <2>2, <2>3, SetLink
  <2> QED
    BY <1>5, <2>1, <2>4 DEF LinkHead, TypeOK
<1>6. ASSUME LinkAfter PROVE Type
  <2> DEFINE curr == InsertionPoint(Current.target)
             succ == proc_table[curr].next
  <2>1. curr \in Entries /\ curr \in Links /\ d.entry \in Links
    BY <1>2, <1>6, WalkEnds DEF LinkAfter, Links
  <2>2. succ \in Links
    BY <2>1 DEF TypeOK, Entry
  <2> DEFINE t1 == [proc_table EXCEPT ![d.entry].prev = curr]
             t2 == [t1 EXCEPT ![d.entry].next = succ]
             t3 == [t2 EXCEPT ![succ].prev = d.entry]
  <2>3. /\ succ = NIL => proc_table' = [t1 EXCEPT ![curr].next = d.entry] /\ io_seq_end' = d.entry
        /\ succ # NIL => proc_table' = [t3 EXCEPT ![curr].next = d.entry] /\ io_seq_end' = io_seq_end
        /\ io_seq' = io_seq
    BY <1>6 DEF LinkAfter
  <2>4. proc_table \in [Entries -> Entry]
    BY DEF TypeOK
  <2> HIDE DEF curr, succ
  <2>5. t1 \in [Entries -> Entry]
    BY <1>2, <2>1, <2>4, SetLink
  <2> HIDE DEF t1
  <2>6. t2 \in [Entries -> Entry]
    BY <1>2, <2>2, <2>5, SetLink
  <2> HIDE DEF t2
  <2>7. succ # NIL => succ \in Entries
    BY <2>2 DEF Links
  <2>8. succ # NIL => t3 \in [Entries -> Entry]
    BY <2>1, <2>6, <2>7, SetLink
  <2> HIDE DEF t3
  <2>9. proc_table' \in [Entries -> Entry]
    <3>1. succ = NIL => [t1 EXCEPT ![curr].next = d.entry] \in [Entries -> Entry]
      BY <2>1, <2>5, SetLink
    <3>2. succ # NIL => [t3 EXCEPT ![curr].next = d.entry] \in [Entries -> Entry]
      BY <2>1, <2>8, SetLink
    <3> QED
      BY <2>3, <3>1, <3>2
  <2> QED
    BY <2>1, <2>3, <2>9 DEF TypeOK
<1>7. Type
  BY <1>4, <1>5, <1>6 DEF Link
<1> QED
  BY <1>1, <1>2, <1>3, <1>7 DEF TypeOK, FillPcs

(* The entry in hand joins the I/O list.                                    *)
LEMMA LinkIInv ==
  ASSUME IInv, Link
  PROVE  IInv'
<1> USE DEF IInv
<1> DEFINE e == d.entry
<1>1. /\ UNCHANGED <<proc_io_nsecs, now, w, fetched, late, torn, copied, posted>>
      /\ d.pc = "link" /\ d' = Advance(d)
  BY DEF Link, LinkEmpty, LinkHead, LinkAfter
<1>2. /\ e \in Entries /\ d.todo # <<>> /\ NIL \notin Entries
      /\ InHand = {e} /\ e \notin OnFree /\ e \notin OnIo
      /\ OnIo \subseteq Entries /\ OnFree \subseteq Entries /\ OnFree \cap OnIo = {}
  BY <1>1, Places DEF TypeOK, FillPcs
<1>3. /\ d'.entry = NIL /\ d'.todo = Tail(d.todo) /\ d'.pc \in {"reclaim", "enqueue"}
  BY <1>1, <1>2, AdvanceIs
<1>4. /\ 1 \in DOMAIN d.todo /\ Current = d.todo[1]
      /\ Current.req \in Reqs /\ Current.target \in Times
      /\ \A i \in DOMAIN d'.todo : /\ i + 1 \in DOMAIN d.todo /\ i + 1 # 1
                                   /\ d'.todo[i] = d.todo[i+1] /\ i \in Int
  <2>1. Tail(d.todo) \in Seq(Todo)
    BY <1>2, CurrentIs
  <2> QED
    BY <1>2, <1>3, <2>1, CurrentIs
<1>5. PICK pred, succ \in Links : LinkedBetween(pred, succ)
  BY LinkLists DEF HandInv
<1>6. /\ ListInv' /\ OnFree' = OnFree /\ OnIo' = OnIo \cup {e} /\ KeepsData
      /\ proc_table'[e].next = succ
      /\ succ # NIL => succ \in OnIo /\ ~StopsAt(succ, Current.target)
      /\ pred # NIL => /\ pred \in OnIo /\ StopsAt(pred, Current.target)
                       /\ proc_table'[pred].next = e
      /\ \A i \in Entries \ {pred, e} : proc_table'[i].next = proc_table[i].next
  BY <1>5 DEF LinkedBetween
<1>7. InHand' = {}
  BY <1>3 DEF InHand
<1>8. \A i \in Entries :
        /\ proc_table'[i].nsecs_target = proc_table[i].nsecs_target
        /\ proc_table'[i].is_completed = proc_table[i].is_completed
        /\ proc_table'[i].is_copied = proc_table[i].is_copied
        /\ proc_table'[i].writeback_cmd = proc_table[i].writeback_cmd
        /\ RequestOf(i)' = RequestOf(i)
  BY <1>6 DEF KeepsData, RequestOf
<1>9. /\ RequestOf(e) = Current.req /\ proc_table[e].nsecs_target = Current.target
      /\ proc_table[e].writeback_cmd = IsWriteback(Current.req)
  BY <1>1 DEF HandInv, FillPcs
<1>10. /\ \A i \in OnFree : proc_table[i].next \in OnFree \cup {NIL}
       /\ \A i \in OnIo : proc_table[i].next \in OnIo \cup {NIL}
  BY ListFacts
<1>11. TypeOK'
  BY LinkTypeOK
<1>12. FetchInv'
  BY <1>1 DEF FetchInv, FetchedCmds
<1>13. HandInv'
  BY <1>3 DEF HandInv, HandLinks, FillPcs
<1>14. WorkerInv'
  <2>1. \A i \in OnFree : proc_table'[i].next = proc_table[i].next
    BY <1>2, <1>6
  <2>2. w'.pc \in {"copy", "check", "mark"} =>
          w'.curr \in OnIo' /\ ~proc_table'[w'.curr].is_completed
    BY <1>1, <1>2, <1>6, <1>8 DEF WorkerInv
  <2>3. w'.pc # "start" /\ w'.curr \in OnFree => proc_table'[w'.curr].is_completed
    BY <1>1, <1>2, <1>8 DEF WorkerInv
  <2>4. \A i \in OnFree : proc_table'[i].is_completed /\ proc_table'[i].next # NIL =>
          proc_table'[proc_table'[i].next].is_completed
    BY <1>2, <1>8, <1>10, <2>1 DEF WorkerInv
  <2> QED
    BY <1>3, <1>6, <2>2, <2>3, <2>4 DEF WorkerInv
<1>15. ReqInv'
  <2>1. \A i \in DOMAIN d'.todo :
           /\ d'.todo[i].req \in fetched
           /\ \A j \in OnIo \cup {e} : RequestOf(j)' # d'.todo[i].req
    <3> SUFFICES ASSUME NEW i \in DOMAIN d'.todo
                 PROVE  /\ d'.todo[i].req \in fetched
                        /\ \A j \in OnIo \cup {e} : RequestOf(j)' # d'.todo[i].req
      OBVIOUS
    <3>1. i + 1 \in DOMAIN d.todo /\ i + 1 # 1 /\ d'.todo[i] = d.todo[i+1]
      BY <1>4
    <3>2. d.todo[i+1].req # Current.req
      BY <1>4, <3>1 DEF ReqInv
    <3> QED
      BY <1>2, <1>8, <1>9, <3>1, <3>2 DEF ReqInv
  <2>2. \A i, j \in DOMAIN d'.todo : d'.todo[i].req = d'.todo[j].req => i = j
    BY <1>4 DEF ReqInv
  <2>3. \A i \in OnIo \cup {e} :
           /\ RequestOf(i)' \in fetched
           /\ proc_table'[i].writeback_cmd = IsWriteback(RequestOf(i)')
    BY <1>2, <1>4, <1>8, <1>9 DEF ReqInv
  <2>4. \A i, j \in OnIo \cup {e} : RequestOf(i)' = RequestOf(j)' => i = j
    BY <1>2, <1>4, <1>8, <1>9 DEF ReqInv
  <2> QED
    BY <1>1, <1>6, <2>1, <2>2, <2>3, <2>4 DEF ReqInv, IsWriteback
<1>16. InTimeInv'
  <2> SUFFICES ASSUME ~late PROVE InTimeInv'
    BY <1>1 DEF InTimeInv
  <2>1. \A i \in DOMAIN d'.todo : d'.todo[i].target > now /\ posted[d'.todo[i].req] = 0
    BY <1>4 DEF InTimeInv
  <2>2. w.pc = "mark" => w.curr \in OnIo
    BY DEF InTimeInv
  <2>3. posted[Current.req] = 0 /\ ~proc_table[e].is_completed
    BY <1>1, <1>4 DEF InTimeInv, FillPcs
  <2>4. \A i \in OnIo \cup {e} :
          posted[RequestOf(i)'] =
            IF proc_table'[i].is_completed \/ (w.pc = "mark" /\ w.curr = i) THEN 1 ELSE 0
    <3> SUFFICES ASSUME NEW i \in OnIo \cup {e}
                 PROVE  posted[RequestOf(i)'] =
            IF proc_table'[i].is_completed \/ (w.pc = "mark" /\ w.curr = i) THEN 1 ELSE 0
      OBVIOUS
    <3>1. CASE i = e
      <4>1. RequestOf(i)' = Current.req /\ ~proc_table'[i].is_completed
        BY <1>2, <1>8, <1>9, <2>3, <3>1
      <4>2. ~(w.pc = "mark" /\ w.curr = i)
        BY <1>2, <2>2, <3>1
      <4> QED
        BY <2>3, <4>1, <4>2
    <3>2. CASE i \in OnIo
      BY <1>2, <1>8, <3>2 DEF InTimeInv
    <3> QED
      BY <3>1, <3>2
  <2>5. \A i \in OnFree : RequestOf(i)' = NoReq \/ posted[RequestOf(i)'] = 1
    BY <1>2, <1>8 DEF InTimeInv
  <2>6. \A r \in Reqs : posted[r] <= 1 /\ (r \notin fetched => posted[r] = 0)
    BY DEF InTimeInv
  <2>7. UNCHANGED <<w, now, posted, fetched, late>> /\ d'.pc \notin FillPcs
    BY <1>1, <1>3 DEF FillPcs
  <2> QED
    BY <1>6, <2>1, <2>2, <2>4, <2>5, <2>6, <2>7 DEF InTimeInv
<1>17. CopyInv'
  <2> SUFFICES ASSUME ~torn PROVE CopyInv'
    BY <1>1 DEF CopyInv
  <2>1. w.pc \in {"check", "mark"} => w.curr \in OnIo /\ proc_table'[w.curr].is_copied
    BY <1>2, <1>8 DEF CopyInv
  <2>2. \A i \in OnIo \cup {e} : proc_table'[i].is_copied /\ ~proc_table'[i].writeback_cmd =>
          RequestOf(i)' \in copied
    <3>1. proc_table[e].is_copied = IsWriteback(Current.req)
      BY <1>1 DEF CopyInv
    <3> QED
      BY <1>2, <1>8, <1>9, <3>1 DEF CopyInv
  <2>3. \A r \in Reqs : ~IsWriteback(r) /\ posted[r] >= 1 => r \in copied
    BY DEF CopyInv
  <2> QED
    BY <1>1, <1>3, <1>6, <2>1, <2>2, <2>3 DEF CopyInv
<1>18. Ascending'
  <2> SUFFICES ASSUME ~late, NEW i \in OnIo \cup {e}, proc_table'[i].next # NIL
               PROVE  proc_table'[i].nsecs_target <= proc_table'[proc_table'[i].next].nsecs_target
    BY <1>1, <1>6 DEF Ascending
  <2>0. \A j \in Entries : proc_table[j].nsecs_target \in Int
    BY Bounds DEF TypeOK, Entry, Times
  <2>1. Current.target \in Int /\ Current.target > proc_io_nsecs /\ proc_io_nsecs \in Int
    <3>1. Current.target > now
      BY <1>4 DEF InTimeInv
    <3> QED
      BY <1>4, <3>1, Bounds DEF TypeOK, Times
  <2>2. CASE i = e
    <3>1. succ \in OnIo /\ ~StopsAt(succ, Current.target) /\ proc_table'[i].next = succ
      BY <1>6, <2>2
    <3>2. proc_table[succ].nsecs_target \in Int /\ succ \in Entries
      BY <1>2, <2>0, <3>1
    <3> QED
      BY <1>2, <1>8, <1>9, <2>1, <2>2, <3>1, <3>2 DEF StopsAt
  <2>3. CASE i = pred
    <3>1. StopsAt(i, Current.target) /\ proc_table'[i].next = e /\ i \in OnIo
      BY <1>2, <1>6, <2>3, Places DEF Links
    <3>2. proc_table[i].nsecs_target \in Int /\ i \in Entries
      BY <1>2, <2>0, <3>1
    <3> QED
      BY <1>2, <1>8, <1>9, <2>1, <3>1, <3>2 DEF StopsAt
  <2>4. CASE i # e /\ i # pred
    <3>1. i \in OnIo /\ i \in Entries /\ proc_table'[i].next = proc_table[i].next
      BY <1>2, <1>6, <2>4
    <3>2. proc_table[i].next \in OnIo
      BY <1>10, <3>1
    <3> QED
      BY <1>2, <1>8, <3>1, <3>2 DEF Ascending
  <2> QED
    BY <2>2, <2>3, <2>4
<1> QED
  BY <1>6, <1>11, <1>12, <1>13, <1>14, <1>15, <1>16, <1>17, <1>18

(* The finished prefix of the I/O list goes back to the free list.          *)
LEMMA ReclaimTypeOK ==
  ASSUME TypeOK, ListInv, Reclaim
  PROVE  TypeOK'
<1>1. /\ UNCHANGED <<free_seq, io_seq_end, proc_io_nsecs, now, w, late, torn, posted>>
      /\ d.pc = "reclaim" /\ d' = [d EXCEPT !.pc = "idle"]
  BY DEF Reclaim
<1>2. d.entry = NIL /\ d.todo = <<>> /\ d.todo \in Seq(Todo) /\ NIL \in Links
  BY <1>1 DEF TypeOK, FillPcs, Links
<1>3. d' = [pc |-> "idle", todo |-> d.todo, entry |-> d.entry]
  BY <1>1 DEF TypeOK
<1> DEFINE last == LastFinished
           succ == proc_table[last].next
<1>4. last \in Links
  BY WalkEnds
<1>5. proc_table' \in [Entries -> Entry] /\ io_seq' \in Links /\ free_seq_end' \in Entries
  <2>1. CASE last = NIL
    BY <2>1 DEF Reclaim, TypeOK
  <2>2. CASE last # NIL
    <3>1. last \in Entries
      BY <1>4, <2>2 DEF Links
    <3>2. succ \in Links
      BY <3>1 DEF TypeOK, Entry
    <3> DEFINE pv(i) == IF i = succ THEN NIL ELSE IF i = io_seq THEN free_seq_end ELSE proc_table[i].prev
               nx(i) == IF i = free_seq_end THEN io_seq ELSE IF i = last THEN NIL ELSE proc_table[i].next
               mid == [i \in Entries |-> [proc_table[i] EXCEPT !.prev = pv(i)]]
               new == [i \in Entries |-> [mid[i] EXCEPT !.next = nx(i)]]
    <3>3. /\ io_seq' = succ /\ free_seq_end' = last
          /\ proc_table' = [i \in Entries |->
               [proc_table[i] EXCEPT
                  !.prev = IF i = succ THEN NIL ELSE IF i = io_seq THEN free_seq_end ELSE @,
                  !.next = IF i = free_seq_end THEN io_seq ELSE IF i = last THEN NIL ELSE @]]
      BY <2>2 DEF Reclaim
    <3>4. \A i \in Entries : proc_table[i] \in Entry /\ pv(i) \in Links /\ nx(i) \in Links
      BY DEF TypeOK, Entry, Links, NIL
    <3>5. \A i \in Entries : /\ proc_table'[i] \in Entry
      <4> HIDE DEF last, succ
      <4> QED
        BY <3>3, <3>4 DEF Entry
    <3>6. proc_table' \in [Entries -> Entry]
      <4> HIDE DEF last, succ
      <4> QED
        BY <3>3, <3>5
    <3> QED
      BY <3>1, <3>2, <3>3, <3>6
  <2> QED
    BY <2>1, <2>2
<1> QED
  BY <1>1, <1>2, <1>3, <1>5 DEF TypeOK, FillPcs

LEMMA ReclaimIInv ==
  ASSUME IInv, Reclaim
  PROVE  IInv'
<1> USE DEF IInv
<1>1. /\ UNCHANGED <<proc_io_nsecs, now, w, fetched, late, torn, copied, posted>>
      /\ d.pc = "reclaim" /\ d' = [d EXCEPT !.pc = "idle"]
  BY DEF Reclaim
<1>2. d'.pc = "idle" /\ d'.todo = <<>> /\ d'.entry = NIL /\ InHand = {} /\ InHand' = {}
  BY <1>1 DEF TypeOK, FillPcs, InHand
<1>3. /\ NIL \notin Entries /\ OnIo \subseteq Entries /\ OnFree \subseteq Entries
      /\ OnFree \cap OnIo = {} /\ free_seq_end \in OnFree
      /\ \A i \in OnFree : proc_table[i].next \in OnFree \cup {NIL}
      /\ \A i \in OnIo : proc_table[i].next \in OnIo \cup {NIL}
  BY Places, ListFacts
<1>4. PICK done \in SUBSET Entries : ReclaimedPrefix(done)
  BY ReclaimLists
<1>5. /\ ListInv' /\ OnIo' = OnIo \ done /\ OnFree' = OnFree \cup done /\ KeepsData
      /\ done \subseteq OnIo /\ \A i \in done : proc_table[i].is_completed
  BY <1>4 DEF ReclaimedPrefix, Finished
<1>6. \A i \in Entries :
        /\ proc_table'[i].nsecs_target = proc_table[i].nsecs_target
        /\ proc_table'[i].is_completed = proc_table[i].is_completed
        /\ proc_table'[i].is_copied = proc_table[i].is_copied
        /\ proc_table'[i].writeback_cmd = proc_table[i].writeback_cmd
        /\ RequestOf(i)' = RequestOf(i)
  BY <1>5 DEF KeepsData, RequestOf
<1>7. w.pc \in {"copy", "check", "mark"} =>
        /\ w.curr \in OnIo \ done /\ ~proc_table[w.curr].is_completed
  BY <1>2, <1>5 DEF WorkerInv
<1>8. TypeOK'
  BY ReclaimTypeOK
<1>9. FetchInv'
  BY <1>1 DEF FetchInv, FetchedCmds
<1>10. HandInv'
  BY <1>2 DEF HandInv, HandLinks, FillPcs
<1>11. WorkerInv'
  <2>1. w'.pc \in {"copy", "check", "mark"} =>
          w'.curr \in OnIo' /\ ~proc_table'[w'.curr].is_completed
    BY <1>1, <1>3, <1>5, <1>6, <1>7
  <2>2. w'.pc # "start" /\ w'.curr \in OnFree' => proc_table'[w'.curr].is_completed
    BY <1>1, <1>3, <1>5, <1>6 DEF WorkerInv
  <2>3. ASSUME NEW i \in OnFree', proc_table'[i].is_completed, proc_table'[i].next # NIL
        PROVE  proc_table'[proc_table'[i].next].is_completed
    <3>0. i \in OnFree \cup done /\ proc_table[i].is_completed
      BY <1>3, <1>5, <1>6, <2>3
    <3>1. CASE done = {}
      BY <1>4, <2>3, <3>0, <3>1 DEF WorkerInv, ReclaimedPrefix
    <3>2. CASE done # {}
      <4>1. PICK last \in done :
              /\ proc_table'[last].next = NIL
              /\ \A j \in done \ {last} : proc_table[j].next \in done
              /\ \A j \in Entries \ {free_seq_end, last} : proc_table'[j].next = proc_table[j].next
        BY <1>4, <3>2 DEF ReclaimedPrefix
      <4>2. io_seq \in done /\ proc_table'[free_seq_end].next = io_seq
        BY <1>4, <3>2 DEF ReclaimedPrefix
      <4>3. CASE i = free_seq_end
        BY <1>3, <1>5, <1>6, <4>2, <4>3
      <4>4. CASE i \in done /\ i # free_seq_end
        <5>1. i # last /\ proc_table'[i].next = proc_table[i].next /\ proc_table[i].next \in done
          BY <2>3, <4>1, <4>4
        <5> QED
          BY <1>5, <1>6, <5>1
      <4>5. CASE i \in OnFree /\ i # free_seq_end
        <5>1. i # last /\ proc_table'[i].next = proc_table[i].next
          BY <1>3, <1>5, <4>1, <4>5
        <5>2. proc_table[i].next \in Entries /\ proc_table[proc_table[i].next].is_completed
          BY <1>3, <2>3, <3>0, <4>5, <5>1 DEF WorkerInv
        <5> QED
          BY <1>6, <5>1, <5>2
      <4> QED
        BY <3>0, <4>3, <4>4, <4>5
    <3> QED
      BY <3>1, <3>2
  <2> QED
    BY <1>2, <2>1, <2>2, <2>3 DEF WorkerInv
<1>12. ReqInv'
  <2>1. \A i \in OnIo' : i \in OnIo /\ i \in Entries
    BY <1>3, <1>5
  <2> QED
    BY <1>1, <1>2, <1>6, <2>1 DEF ReqInv
<1>13. InTimeInv'
  <2> SUFFICES ASSUME ~late PROVE InTimeInv'
    BY <1>1 DEF InTimeInv
  <2>1. \A i \in OnIo' :
          posted[RequestOf(i)'] =
            IF proc_table'[i].is_completed \/ (w.pc = "mark" /\ w.curr = i) THEN 1 ELSE 0
    BY <1>3, <1>5, <1>6 DEF InTimeInv
  <2>2. \A i \in OnFree' : RequestOf(i)' = NoReq \/ posted[RequestOf(i)'] = 1
    BY <1>3, <1>5, <1>6 DEF InTimeInv
  <2>3. \A r \in Reqs : posted[r] <= 1 /\ (r \notin fetched => posted[r] = 0)
    BY DEF InTimeInv
  <2>4. w'.pc = "mark" => w'.curr \in OnIo'
    BY <1>1, <1>5, <1>7
  <2>5. d'.pc \notin FillPcs /\ DOMAIN d'.todo = {}
    BY <1>2 DEF FillPcs
  <2> QED
    BY <1>1, <2>1, <2>2, <2>3, <2>4, <2>5 DEF InTimeInv
<1>14. CopyInv'
  <2> SUFFICES ASSUME ~torn PROVE CopyInv'
    BY <1>1 DEF CopyInv
  <2>1. w.pc \in {"check", "mark"} => w.curr \in OnIo' /\ proc_table'[w.curr].is_copied
    BY <1>3, <1>5, <1>6, <1>7 DEF CopyInv
  <2>2. \A i \in OnIo' : proc_table'[i].is_copied /\ ~proc_table'[i].writeback_cmd =>
          RequestOf(i)' \in copied
    BY <1>3, <1>5, <1>6 DEF CopyInv
  <2>3. \A r \in Reqs : ~IsWriteback(r) /\ posted[r] >= 1 => r \in copied
    BY DEF CopyInv
  <2> QED
    BY <1>1, <1>2, <2>1, <2>2, <2>3 DEF CopyInv
<1>15. Ascending'
  <2>1. \A i \in OnIo' : i \in OnIo /\ i \in Entries /\ proc_table'[i].next = proc_table[i].next
    BY <1>3, <1>4, <1>5 DEF ReclaimedPrefix
  <2> QED
    BY <1>1, <1>3, <1>6, <2>1 DEF Ascending
<1> QED
  BY <1>5, <1>8, <1>9, <1>10, <1>11, <1>12, <1>13, <1>14, <1>15

(* The number of commands fetched so far leaves room for one more.          *)
LEMMA NextCommand ==
  ASSUME NEW n \in Nat, FetchedCmds = (1 .. n) \X {0}, fetched \subseteq Reqs
  PROVE  /\ Cardinality(FetchedCmds) = n
         /\ Cardinality(fetched) \in Nat /\ n <= Cardinality(fetched)
<1>1. IsFiniteSet(1 .. n) /\ Cardinality(1 .. n) = n
  BY FS_Interval
<1>2. IsFiniteSet({0}) /\ Cardinality({0}) = 1
  BY FS_Singleton
<1>3. Cardinality((1 .. n) \X {0}) = n * 1
  BY <1>1, <1>2, FS_Product
<1>4. IsFiniteSet(Reqs)
  <2>1. IsFiniteSet(Cmds) /\ IsFiniteSet(0 .. MaxWriteback)
    BY Bounds, FS_Interval DEF Cmds
  <2> QED
    BY <2>1, FS_Product DEF Reqs
<1>5. IsFiniteSet(fetched) /\ Cardinality(fetched) \in Nat
  BY <1>4, FS_Subset, FS_CardinalityType
<1>6. FetchedCmds \subseteq fetched
  BY DEF FetchedCmds
<1>7. Cardinality(FetchedCmds) <= Cardinality(fetched)
  BY <1>5, <1>6, FS_Subset
<1> QED
  BY <1>3, <1>5, <1>7

(* A new command and its writebacks.                                        *)
LEMMA FetchIInv ==
  ASSUME IInv, NEW k \in 0 .. MaxWriteback, NEW tio \in Times, NEW twb \in Times, Fetch(k, tio, twb)
  PROVE  IInv'
<1> USE DEF IInv
<1>1. /\ UNCHANGED <<proc_table, free_seq, free_seq_end, io_seq, io_seq_end, proc_io_nsecs, now, w,
                     torn, copied, posted>>
      /\ UNCHANGED lists
      /\ d.pc = "idle" /\ d.entry = NIL /\ InHand = {}
  BY DEF Fetch, TypeOK, FillPcs, InHand, lists
<1>2. /\ NIL \notin Entries /\ OnIo \subseteq Entries /\ OnFree \subseteq Entries
  BY Places
<1>3. PICK n \in Nat : /\ FetchedCmds = (1 .. n) \X {0}
                       /\ \A r \in fetched : r \in Reqs /\ r[1] <= n
  BY DEF FetchInv
<1>4. /\ Cardinality(FetchedCmds) = n
      /\ Cardinality(fetched) \in Nat /\ n <= Cardinality(fetched)
  BY <1>3, NextCommand
<1> DEFINE todo == [i \in 1 .. k + 1 |->
                      IF i <= k THEN [req |-> <<n + 1, i>>, target |-> twb]
                                ELSE [req |-> <<n + 1, 0>>, target |-> tio]]
<1>5. /\ fetched' = fetched \cup {todo[i].req : i \in DOMAIN todo}
      /\ late' = (late \/ \E i \in DOMAIN todo : todo[i].target = now)
      /\ d' = [pc |-> "enqueue", entry |-> NIL, todo |-> todo]
      /\ tio >= now /\ twb >= now /\ Cardinality(fetched) + k < NrReqs
  BY <1>4 DEF Fetch
<1>6. /\ k \in Nat /\ k <= MaxWriteback /\ MaxWriteback \in Nat /\ NrReqs \in Nat
      /\ now \in Int /\ tio \in Int /\ twb \in Int
  BY Bounds DEF TypeOK, Times
<1>7. n + 1 \in Cmds
  BY <1>4, <1>5, <1>6 DEF Cmds
<1>8. /\ DOMAIN todo = 1 .. k + 1
      /\ \A i \in 1 .. k + 1 :
           /\ todo[i].req = <<n + 1, IF i <= k THEN i ELSE 0>>
           /\ todo[i].target = IF i <= k THEN twb ELSE tio
           /\ todo[i] \in Todo
  <2>1. \A i \in 1 .. k + 1 : (IF i <= k THEN i ELSE 0) \in 0 .. MaxWriteback
    BY <1>6
  <2> QED
    BY <1>6, <1>7, <2>1 DEF Todo, Reqs
<1>9. todo \in Seq(Todo) /\ todo # <<>>
  <2>1. k + 1 \in Nat
    BY <1>6
  <2>2. todo \in [1 .. k + 1 -> Todo]
    <3>1. todo = [i \in 1 .. k + 1 |-> todo[i]]
      OBVIOUS
    <3> HIDE DEF todo
    <3> QED
      BY <1>8, <3>1
  <2>3. todo[1] \in Todo /\ 1 \in DOMAIN todo
    BY <1>6, <1>8
  <2> HIDE DEF todo
  <2>4. todo \in Seq(Todo)
    BY <2>1, <2>2
  <2> QED
    BY <2>3, <2>4
<1> HIDE DEF todo
<1>10. d'.pc = "enqueue" /\ d'.entry = NIL /\ d'.todo = todo /\ InHand' = {}
  BY <1>5 DEF InHand
<1>11. /\ ListInv' /\ OnFree' = OnFree /\ OnIo' = OnIo
       /\ \A i \in Entries : RequestOf(i)' = RequestOf(i)
  BY <1>1, <1>10, ListsFrame DEF RequestOf
<1>12. TypeOK'
  <2>1. late' \in BOOLEAN
    BY <1>5 DEF TypeOK
  <2>2. d' \in [pc : {"idle", "enqueue", "reclaim"} \cup FillPcs, todo : Seq(Todo), entry : Links]
    BY <1>5, <1>9 DEF Links
  <2> QED
    BY <1>1, <1>9, <1>10, <2>1, <2>2 DEF TypeOK, FillPcs
<1>13. \A i \in DOMAIN todo : todo[i].req \in Reqs /\ todo[i].req[1] = n + 1
  BY <1>8 DEF Todo
<1>14. FetchInv'
  <2>1. FetchedCmds' = (1 .. n + 1) \X {0}
    <3>1. ASSUME NEW r \in FetchedCmds' PROVE r \in (1 .. n + 1) \X {0}
      <4>1. r \in fetched' /\ ~IsWriteback(r)
        BY <3>1 DEF FetchedCmds
      <4>2. CASE r \in fetched
        <5>1. r \in (1 .. n) \X {0}
          BY <1>3, <4>1, <4>2 DEF FetchedCmds
        <5> QED
          BY <5>1
      <4>3. CASE r \notin fetched
        <5>1. PICK i \in DOMAIN todo : r = todo[i].req
          BY <1>5, <4>1, <4>3
        <5>2. r = <<n + 1, 0>>
          BY <1>6, <1>8, <4>1, <5>1 DEF IsWriteback
        <5> QED
          BY <5>2
      <4> QED
        BY <4>2, <4>3
    <3>2. ASSUME NEW r \in (1 .. n + 1) \X {0} PROVE r \in FetchedCmds'
      <4>1. PICK c \in 1 .. n + 1 : r = <<c, 0>>
        BY <3>2
      <4>2. ~IsWriteback(r)
        BY <4>1 DEF IsWriteback
      <4>3. CASE c <= n
        <5>1. r \in FetchedCmds
          BY <1>3, <4>1, <4>3
        <5> QED
          BY <1>5, <4>2, <5>1 DEF FetchedCmds
      <4>4. CASE ~(c <= n)
        <5>1. r = todo[k+1].req /\ k + 1 \in DOMAIN todo
          BY <1>6, <1>8, <4>1, <4>4
        <5> QED
          BY <1>5, <4>2, <5>1 DEF FetchedCmds
      <4> QED
        BY <4>3, <4>4
    <3> QED
      BY <3>1, <3>2
  <2>2. \A r \in fetched' : r \in Reqs /\ r[1] <= n + 1
    <3> SUFFICES ASSUME NEW r \in fetched' PROVE r \in Reqs /\ r[1] <= n + 1
      OBVIOUS
    <3>1. CASE r \in fetched
      <4>1. r \in Reqs /\ r[1] <= n /\ r[1] \in Int
        BY <1>3, <3>1 DEF Reqs, Cmds
      <4> QED
        BY <4>1
    <3>2. CASE r \notin fetched
      BY <1>5, <1>13, <3>2
    <3> QED
      BY <3>1, <3>2
  <2>3. n + 1 \in Nat
    OBVIOUS
  <2> QED
    BY <2>1, <2>2, <2>3 DEF FetchInv
<1>15. \A i \in DOMAIN todo : todo[i].req \notin fetched
  BY <1>3, <1>13
<1>16. HandInv'
  BY <1>10 DEF HandInv, HandLinks, FillPcs
<1>17. WorkerInv'
  BY <1>1, <1>10, <1>11 DEF WorkerInv
<1>18. ReqInv'
  <2>1. fetched \subseteq fetched' /\ \A i \in DOMAIN todo : todo[i].req \in fetched'
    BY <1>5
  <2>2. \A i, j \in DOMAIN todo : todo[i].req = todo[j].req => i = j
    <3> SUFFICES ASSUME NEW i \in DOMAIN todo, NEW j \in DOMAIN todo, todo[i].req = todo[j].req
                 PROVE  i = j
      OBVIOUS
    <3>1. (IF i <= k THEN i ELSE 0) = (IF j <= k THEN j ELSE 0)
      BY <1>8
    <3> QED
      BY <1>6, <1>8, <3>1
  <2>3. \A i \in OnIo : /\ RequestOf(i)' \in fetched'
                        /\ proc_table'[i].writeback_cmd = IsWriteback(RequestOf(i)')
    BY <1>1, <1>2, <1>11, <2>1 DEF ReqInv
  <2>4. \A i, j \in OnIo : RequestOf(i)' = RequestOf(j)' => i = j
    BY <1>2, <1>11 DEF ReqInv
  <2>5. \A i \in DOMAIN todo : \A j \in OnIo : RequestOf(j)' # todo[i].req
    BY <1>2, <1>11, <1>15 DEF ReqInv
  <2> QED
    BY <1>10, <1>11, <2>1, <2>2, <2>3, <2>4, <2>5 DEF ReqInv, IsWriteback
<1>19. InTimeInv'
  <2> SUFFICES ASSUME ~late' PROVE InTimeInv'
    BY DEF InTimeInv
  <2>0. ~late
    BY <1>5 DEF TypeOK
  <2>1. \A i \in DOMAIN todo : todo[i].target > now /\ posted[todo[i].req] = 0
    <3> SUFFICES ASSUME NEW i \in DOMAIN todo
                 PROVE  todo[i].target > now /\ posted[todo[i].req] = 0
      OBVIOUS
    <3>1. todo[i].target # now /\ todo[i].target >= now /\ todo[i].target \in Int
      BY <1>5, <1>6, <1>8
    <3> QED
      BY <1>6, <1>13, <1>15, <2>0, <3>1 DEF InTimeInv
  <2>2. \A r \in Reqs : posted[r] <= 1 /\ (r \notin fetched' => posted[r] = 0)
    BY <1>5, <2>0 DEF InTimeInv
  <2>3. /\ \A i \in OnIo :
             posted[RequestOf(i)'] =
               IF proc_table[i].is_completed \/ (w.pc = "mark" /\ w.curr = i) THEN 1 ELSE 0
        /\ \A i \in OnFree : RequestOf(i)' = NoReq \/ posted[RequestOf(i)'] = 1
        /\ w.pc = "mark" => w.curr \in OnIo
    BY <1>2, <1>11, <2>0 DEF InTimeInv
  <2>4. d'.pc \notin FillPcs
    BY <1>10 DEF FillPcs
  <2> QED
    BY <1>1, <1>10, <1>11, <2>1, <2>2, <2>3, <2>4 DEF InTimeInv
<1>20. CopyInv'
  BY <1>1, <1>2, <1>10, <1>11 DEF CopyInv
<1>21. Ascending'
  <2>1. late' = FALSE => late = FALSE
    BY <1>5 DEF TypeOK
  <2> QED
    BY <1>1, <1>5, <1>11, <2>1 DEF Ascending
<1> QED
  BY <1>11, <1>12, <1>14, <1>16, <1>17, <1>18, <1>19, <1>20, <1>21

LEMMA TickIInv ==
  ASSUME IInv, Tick
  PROVE  IInv'
<1> USE DEF IInv
<1>1. /\ UNCHANGED <<proc_table, free_seq, free_seq_end, io_seq, io_seq_end, proc_io_nsecs, d, w,
                     fetched, torn, copied, posted>>
      /\ UNCHANGED lists
      /\ now' = now + 1 /\ now < MaxTime
      /\ late' = (late \/ \E i \in DOMAIN d.todo : d.todo[i].target <= now + 1)
  BY DEF Tick, lists
<1>2. ListInv' /\ OnFree' = OnFree /\ OnIo' = OnIo /\ InHand' = InHand
  BY <1>1, ListsFrame DEF InHand
<1>3. /\ now \in Int /\ now' \in Times /\ proc_io_nsecs <= now'
      /\ late' \in BOOLEAN /\ (~late' => ~late)
  BY <1>1, Bounds DEF TypeOK, Times
<1>4. TypeOK'
  BY <1>1, <1>3 DEF TypeOK
<1>5. FetchInv' /\ HandInv' /\ ReqInv' /\ WorkerInv'
  <2>1. FetchInv'
    BY <1>1 DEF FetchInv, FetchedCmds
  <2>2. HandInv'
    BY <1>1 DEF HandInv, HandLinks, Current, RequestOf
  <2>3. ReqInv'
    BY <1>1, <1>2 DEF ReqInv, RequestOf
  <2>4. WorkerInv'
    BY <1>1, <1>2 DEF WorkerInv
  <2> QED
    BY <2>1, <2>2, <2>3, <2>4
<1>6. InTimeInv'
  <2> SUFFICES ASSUME ~late' PROVE InTimeInv'
    BY DEF InTimeInv
  <2>1. \A i \in DOMAIN d.todo : d.todo[i].target > now'
    <3> SUFFICES ASSUME NEW i \in DOMAIN d.todo PROVE d.todo[i].target > now'
      OBVIOUS
    <3>1. d.todo[i] \in Todo
      BY DEF TypeOK
    <3>2. d.todo[i].target \in Int
      BY <3>1 DEF Todo, Times
    <3>3. ~(d.todo[i].target <= now + 1)
      BY <1>1
    <3> QED
      BY <1>1, <1>3, <3>2, <3>3
  <2> QED
    BY <1>1, <1>2, <1>3, <2>1 DEF InTimeInv, RequestOf
<1>7. CopyInv'
  BY <1>1, <1>2 DEF CopyInv, RequestOf, Current
<1>8. Ascending'
  BY <1>1, <1>2, <1>3 DEF Ascending
<1> QED
  BY <1>2, <1>4, <1>5, <1>6, <1>7, <1>8

LEMMA StutterIInv ==
  ASSUME IInv, UNCHANGED vars
  PROVE  IInv'
<1> USE DEF IInv
<1>1. /\ UNCHANGED <<proc_table, free_seq, free_seq_end, io_seq, io_seq_end, proc_io_nsecs, now,
                     d, w, fetched, late, torn, copied, posted>>
      /\ UNCHANGED lists
  BY DEF vars, lists
<1>2. ListInv' /\ OnFree' = OnFree /\ OnIo' = OnIo /\ InHand' = InHand
  BY <1>1, ListsFrame DEF InHand
<1>3. TypeOK'
  BY <1>1 DEF TypeOK
<1>4. FetchInv' /\ HandInv'
  BY <1>1 DEF FetchInv, FetchedCmds, HandInv, HandLinks, Current, RequestOf
<1>5. ReqInv' /\ WorkerInv'
  BY <1>1, <1>2 DEF ReqInv, RequestOf, WorkerInv
<1>6. InTimeInv'
  BY <1>1, <1>2 DEF InTimeInv, RequestOf
<1>7. CopyInv' /\ Ascending'
  BY <1>1, <1>2 DEF CopyInv, RequestOf, Current, Ascending
<1> QED
  BY <1>2, <1>3, <1>4, <1>5, <1>6, <1>7

LEMMA StepIInv == IInv /\ [Next]_vars => IInv'
<1> SUFFICES ASSUME IInv, [Next]_vars PROVE IInv'
  OBVIOUS
<1>1. ASSUME NEW k \in 0 .. MaxWriteback, NEW tio \in Times, NEW twb \in Times, Fetch(k, tio, twb)
      PROVE  IInv'
  BY <1>1, FetchIInv
<1>2. CASE Dispatcher
  BY <1>2, FullIInv, FillIInv, FillRestIInv, LinkIInv, ReclaimIInv DEF Dispatcher, Link
<1>3. CASE Worker
  BY <1>3, WorkerIInv
<1>4. CASE Tick
  BY <1>4, TickIInv
<1>5. CASE UNCHANGED vars
  BY <1>5, StutterIInv
<1> QED
  BY <1>1, <1>2, <1>3, <1>4, <1>5 DEF Next

-----------------------------------------------------------------------------
(* The theorems.                                                            *)

(* The inductive invariant: the two lists and the entry in hand are threaded *)
(* through the whole table, the worker stands on an entry it may work on or *)
(* walk past, and posted, is_completed and is_copied agree.                 *)
THEOREM Invariance == Spec => []IInv
<1>1. Init => IInv
  BY InitIInv
<1>2. IInv /\ [Next]_vars => IInv'
  BY StepIInv
<1> QED
  BY <1>1, <1>2, PTL DEF Spec

(* Every variable keeps its type and the control states of both threads fit *)
(* what they hold: the dispatcher has an entry in hand exactly while it     *)
(* fills and links it (__enqueue_io_req), the worker one while it visits.   *)
THEOREM TypeCorrect == Spec => []TypeOK
BY Invariance, PTL DEF IInv

(* What the threads of the table mean for the walks the code takes.         *)
LEMMA ListsPartition ==
  ASSUME TypeOK, ListInv
  PROVE  ListsPartitionTable
<1>1. PICK f, nf, io, ni : Lists(f, nf, io, ni)
  BY DEF ListInv
<1>2. OnFree = Elems(f, nf) /\ OnIo = Elems(io, ni) /\ Ends(free_seq) /\ Ends(io_seq)
  BY <1>1, ShapeHolds DEF Shape
<1>3. /\ OnFree \cup OnIo \cup InHand = Entries
      /\ OnFree \cap OnIo = {} /\ InHand \cap (OnFree \cup OnIo) = {}
      /\ free_seq_end \in OnFree /\ proc_table[free_seq_end].next = NIL
  BY ListFacts
<1>4. ASSUME io_seq # NIL
      PROVE  /\ io_seq_end \in OnIo /\ proc_table[io_seq_end].next = NIL
             /\ proc_table[io_seq].prev = NIL
             /\ \A i \in OnIo : proc_table[i].next # NIL =>
                  proc_table[proc_table[i].next].prev = i
  <2>1. /\ ni \in Nat /\ io \in [1 .. ni -> Entries]
        /\ io_seq = IF ni = 0 THEN NIL ELSE io[1]
        /\ \A k \in 1 .. ni : proc_table[io[k]].next = IF k = ni THEN NIL ELSE io[k+1]
        /\ \A k \in 1 .. ni : proc_table[io[k]].prev = IF k = 1 THEN NIL ELSE io[k-1]
        /\ ni > 0 => io_seq_end = io[ni]
    BY <1>1 DEF Lists, Threaded
  <2>2. ni > 0 /\ 1 \in 1 .. ni /\ ni \in 1 .. ni
    BY <1>4, <2>1
  <2>3. io_seq_end \in OnIo /\ proc_table[io_seq_end].next = NIL /\ proc_table[io_seq].prev = NIL
    BY <1>2, <2>1, <2>2 DEF Elems
  <2>4. ASSUME NEW i \in OnIo, proc_table[i].next # NIL
        PROVE  proc_table[proc_table[i].next].prev = i
    <3>1. PICK k \in 1 .. ni : i = io[k]
      BY <1>2 DEF Elems
    <3>2. k # ni /\ k + 1 \in 1 .. ni /\ proc_table[i].next = io[k+1]
      BY <2>1, <2>4, <3>1
    <3>3. proc_table[io[k+1]].prev = IF k + 1 = 1 THEN NIL ELSE io[(k+1)-1]
      BY <2>1, <3>2
    <3>4. k + 1 # 1 /\ (k + 1) - 1 = k
      BY <3>2
    <3> QED
      BY <3>1, <3>2, <3>3, <3>4
  <2> QED
    BY <2>3, <2>4
<1> QED
  BY <1>2, <1>3, <1>4 DEF ListsPartitionTable, OnFree, OnIo

(* However the worker's steps fall between the dispatcher's, and whatever   *)
(* the size of the table: no entry is lost, linked twice or given out while *)
(* it is in use; both lists end, and prev is the inverse of next on the I/O *)
(* list (__enqueue_io_req, __reclaim_completed_reqs).                       *)
THEOREM TablePartitioned == Spec => []ListsPartitionTable
<1>1. IInv => ListsPartitionTable
  BY ListsPartition DEF IInv
<1> QED
  BY <1>1, Invariance, PTL

(* __reclaim_completed_reqs never frees an entry whose request still waits  *)
(* for its completion, as long as every target lies ahead when its entry is *)
(* linked.                                                                  *)
THEOREM ReclaimedAreOver == Spec => []FreeEntriesAreOver
<1>1. IInv => FreeEntriesAreOver
  <2> SUFFICES ASSUME IInv, ~late, NEW i \in OnFree, RequestOf(i) # NoReq
               PROVE  posted[RequestOf(i)] >= 1
    BY DEF FreeEntriesAreOver, OnFree
  <2>1. posted[RequestOf(i)] = 1
    BY DEF IInv, InTimeInv
  <2> QED
    BY <2>1
<1> QED
  BY <1>1, Invariance, PTL

(* The worker posts no second completion for a request and releases no      *)
(* buffer twice, although it walks the list while entries are reclaimed and *)
(* reused (nvmev_kthread_io), as long as every target lies ahead when its   *)
(* entry is linked.                                                         *)
THEOREM NoSecondCompletion == Spec => []CompletedAtMostOnce
<1>1. IInv => CompletedAtMostOnce
  BY DEF IInv, InTimeInv, CompletedAtMostOnce
<1> QED
  BY <1>1, Invariance, PTL

(* The worker posts the completion of a command only after it transferred   *)
(* the command's data, as long as it never served an entry that the         *)
(* dispatcher was still filling in (nvmev_kthread_io, __do_perform_io).     *)
THEOREM DataBeforeCompletion == Spec => []CopiedBeforeCompleted
<1>1. IInv => CopiedBeforeCompleted
  BY DEF IInv, CopyInv, CopiedBeforeCompleted
<1> QED
  BY <1>1, Invariance, PTL

(* The order io.c's comment promises: targets ascend along the I/O list,    *)
(* although the walk back for the insertion point (__enqueue_io_req)        *)
(* stops early at entries that are due and proc_io_nsecs moves meanwhile.   *)
THEOREM TargetsAscend == Spec => []IoListAscending
<1>1. IInv => IoListAscending
  BY DEF IInv, Ascending, IoListAscending, OnIo
<1> QED
  BY <1>1, Invariance, PTL
=============================================================================
