-------------------------- MODULE QueuePair_proofs --------------------------
(***************************************************************************)
(* Proofs about QueuePair, for rings of any size, any number of command    *)
(* ids and of submission queues.  Whatever workers fill the completion     *)
(* queue, no interrupt is lost.  As long as one worker fills it (OneWorker,*)
(* which a single submission queue per completion queue implies), no entry *)
(* is filled twice (crossed), no command is lost or doubled, the phase bit *)
(* tells new completions from old ones and nr_in_flight is off by whole    *)
(* rounds at most.                                                         *)
(*                                                                         *)
(* The invariants of one worker lean on each other: that the phase bit     *)
(* tells rounds apart needs the completion ring never to fill; that it     *)
(* does not fill is a counting argument on where command ids are; and      *)
(* where they are depends on the host reading exactly the new entries.     *)
(***************************************************************************)
EXTENDS QueuePair, FiniteSetTheorems, WellFoundedInduction, TLAPS

(* The worker that takes the completion queue's interrupt.  With one of     *)
(* them for all its submission queues, a completion queue is filled by one  *)
(* worker at a time; that is what the theorems need.                        *)
Filler == __get_io_worker(cqid)
OneWorker == \A q \in Sqs : __get_io_worker(q) = Filler

(* The next slot of a ring, as a position.                                  *)
Up(a, size) == IF a + 1 = size THEN 0 ELSE a + 1

Pcs == {"walk", "lock", "status", "unlock", "clear", "signal"}
Request == [sqid : Sqs, command_id : Tags, worker : {Filler}, id : Nat]
CqEntry == [command_id : Tags \cup {0}, sq_id : Sqs \cup {0}, phase : {0, 1}]
Doorbells == [sq : [Sqs -> SqSlots], cq : CqSlots]

TypeOK ==
  /\ sq \in [Sqs -> [SqSlots -> Tags \cup {0}]]
  /\ dbs \in Doorbells /\ old_dbs \in Doorbells
  /\ d \in [at : {"sq", "sq_loop", "cq", "cq_loop"}, qid : Sqs, new_db : Nat, pos : Nat]
  /\ d.at = "sq_loop" => d.new_db \in SqSlots /\ d.pos \in SqSlots
  /\ d.at = "cq_loop" => d.new_db \in CqSlots /\ d.pos \in CqSlots
  /\ nr_in_flight \in [Sqs -> Int]
  /\ inflight \in SUBSET Request
  /\ cq \in [entry : [CqSlots -> CqEntry], cq_head : CqSlots, phase : {0, 1},
             interrupt_ready : BOOLEAN,
             entry_lock : Workers \cup {NoOne}, irq_lock : Workers \cup {NoOne}]
  /\ w \in [Workers -> [pc : Pcs, req : Request \cup {NoRequest}, cq_head : CqSlots]]
  /\ host \in [busy : [Sqs -> SUBSET Tags], head : CqSlots, phase : {0, 1},
               irq : BOOLEAN, handling : BOOLEAN, submitted : Nat]
  /\ dispatched \in Nat /\ received \in Nat

(* Only the filler ever leaves the walk over its request list; from         *)
(* FillBegin to FillEnd the cq_head it read is the queue's.                 *)
FillerInv ==
  /\ \A i \in Workers : w[i].pc # "walk" => i = Filler
  /\ w[Filler].pc \in {"lock", "status", "unlock"} =>
       w[Filler].req \in inflight /\ w[Filler].cq_head = cq.cq_head
  /\ w[Filler].pc = "status" =>
       /\ cq.entry[cq.cq_head].sq_id = w[Filler].req.sqid
       /\ cq.entry[cq.cq_head].command_id = w[Filler].req.command_id
  /\ \A r \in inflight : r.id <= dispatched
  /\ crossed = FALSE

(* Where the next completion will be posted, and with which phase.          *)
PostHead == IF w[Filler].pc = "unlock" THEN Up(cq.cq_head, cq_size) ELSE cq.cq_head
PostPhase ==
  IF w[Filler].pc = "unlock" /\ cq.cq_head + 1 = cq_size THEN 1 - cq.phase ELSE cq.phase

(* The three places of a command id, and the one it is in.                  *)
InSq(q, t) == {i \in Waiting(q) : sq[q][i] = t}
InTable(q, t) == {r \in NotPosted : r.sqid = q /\ r.command_id = t}
InCq(q, t) == {i \in Unread : cq.entry[i].sq_id = q /\ cq.entry[i].command_id = t}
One(S) == \E x \in S : S = {x}

Placed(q, t) ==
  IF t \in host.busy[q]
  THEN \/ One(InSq(q, t)) /\ InTable(q, t) = {} /\ InCq(q, t) = {}
       \/ InSq(q, t) = {} /\ One(InTable(q, t)) /\ InCq(q, t) = {}
       \/ InSq(q, t) = {} /\ InTable(q, t) = {} /\ One(InCq(q, t))
  ELSE InSq(q, t) = {} /\ InTable(q, t) = {} /\ InCq(q, t) = {}

PlaceInv ==
  /\ \A q \in Sqs : \A i \in Waiting(q) : sq[q][i] \in Tags
  /\ \A i \in Unread : cq.entry[i].sq_id \in Sqs /\ cq.entry[i].command_id \in Tags
  /\ \A q \in Sqs, t \in Tags : Placed(q, t)

(* What is left of the dispatcher's loop over a submission ring is waiting. *)
LoopInv ==
  d.at = "sq_loop" => Between(d.pos, d.new_db, sq_size) \subseteq Waiting(d.qid)

(* The slots below PostHead hold entries of this round, the others of the   *)
(* last; the host is in this round or, ahead of PostHead, in the last.      *)
PhaseInv ==
  /\ \A i \in CqSlots : cq.entry[i].phase = IF i < PostHead THEN PostPhase ELSE 1 - PostPhase
  /\ host.phase = IF host.head <= PostHead THEN PostPhase ELSE 1 - PostPhase

(* How far the dispatcher has acknowledged completions.                     *)
AckPos == IF d.at = "cq_loop" THEN d.pos ELSE old_dbs.cq
TotalInFlight ==
  LET total[q \in 0 .. nr_sq] == IF q = 0 THEN 0 ELSE total[q-1] + nr_in_flight[q]
  IN  total[nr_sq]

(* The dispatcher is e completions behind the host, b behind the doorbell   *)
(* and n behind the copy of it that it works on.                            *)
Behind(e, b) ==
  /\ TotalInFlight = dispatched - received + e
  /\ b <= e
  /\ (AckPos + e) % cq_size = host.head /\ (AckPos + b) % cq_size = dbs.cq
  /\ d.at = "cq_loop" => \E n \in Nat : n <= b /\ (AckPos + n) % cq_size = d.new_db

CountInv == \E e, b \in Nat : Behind(e, b)

(* Slots never posted to are ahead of everybody, in the first round.        *)
Doorbell == IF d.at = "cq_loop" THEN d.new_db ELSE dbs.cq
Fresh(i) ==
  /\ i >= PostHead /\ PostHead >= host.head /\ host.head >= dbs.cq
  /\ dbs.cq >= Doorbell /\ Doorbell >= AckPos

FreshInv == \A i \in CqSlots : cq.entry[i].sq_id \in Sqs \/ Fresh(i)

QInv ==
  /\ TypeOK /\ FillerInv /\ PlaceInv /\ LoopInv /\ PhaseInv
  /\ CountInv /\ FreshInv

-----------------------------------------------------------------------------
(* Constants and arithmetic of rings.                                       *)

LEMMA Sizes ==
  /\ nr_sq \in Nat /\ nr_sq > 0 /\ nr_io_cpu \in Nat /\ nr_io_cpu > 0
  /\ sq_size \in Nat /\ cq_size \in Nat /\ NrTags \in Nat /\ NrTags > 0
  /\ NrTags < sq_size /\ nr_sq * NrTags < cq_size /\ sq_size > 1 /\ cq_size > 1
  /\ SqSlots = 0 .. sq_size - 1 /\ CqSlots = 0 .. cq_size - 1
  /\ cqid \in Sqs /\ Filler \in Workers /\ NoOne \notin Workers
  /\ cq_start \in CqSlots
<1>1. /\ nr_sq \in Nat /\ nr_sq > 0 /\ nr_io_cpu \in Nat /\ nr_io_cpu > 0
      /\ sq_size \in Nat /\ cq_size \in Nat /\ NrTags \in Nat /\ NrTags > 0
      /\ NrTags < sq_size /\ nr_sq * NrTags < cq_size
      /\ cq_start \in Nat /\ cq_start < cq_size
  BY QueueSizes
<1>2. nr_sq * NrTags \in Nat /\ nr_sq * NrTags > 0
  BY <1>1
<1>3. cqid \in Sqs
  BY <1>1 DEF cqid, Sqs
<1>4. 0 % nr_io_cpu = 0
  BY <1>1
<1>5. Filler \in Workers
  BY <1>1, <1>4 DEF Filler, cqid, __get_io_worker, Workers
<1> HIDE DEF Filler
<1> QED
  BY <1>1, <1>2, <1>3, <1>5 DEF SqSlots, CqSlots, NoOne, Workers

LEMMA UpIs ==
  ASSUME NEW size \in Nat, size > 0, NEW a \in 0 .. size - 1
  PROVE  (a + 1) % size = Up(a, size) /\ Up(a, size) \in 0 .. size - 1
<1>1. (a + 1) % size = IF a + 1 = size THEN 0 ELSE a + 1
  OBVIOUS
<1> QED
  BY <1>1 DEF Up

LEMMA BetweenIs ==
  ASSUME NEW size \in Nat, size > 0, NEW a \in 0 .. size - 1, NEW b \in 0 .. size - 1
  PROVE  Between(a, b, size) =
           {i \in 0 .. size - 1 : IF a <= b THEN a <= i /\ i < b ELSE i >= a \/ i < b}
<1>1. \A x, y \in 0 .. size - 1 : (x - y) % size = IF x >= y THEN x - y ELSE x - y + size
  OBVIOUS
<1>2. ASSUME NEW i \in 0 .. size - 1
      PROVE  (i - a) % size < (b - a) % size
               <=> IF a <= b THEN a <= i /\ i < b ELSE i >= a \/ i < b
  <2>1. (i - a) % size = IF i >= a THEN i - a ELSE i - a + size
    BY <1>1
  <2>2. (b - a) % size = IF b >= a THEN b - a ELSE b - a + size
    BY <1>1
  <2> DEFINE x == (i - a) % size
             y == (b - a) % size
  <2>3. x = (IF i >= a THEN i - a ELSE i - a + size) /\ y = (IF b >= a THEN b - a ELSE b - a + size)
    BY <2>1, <2>2
  <2> HIDE DEF x, y
  <2>4. x < y <=> IF a <= b THEN a <= i /\ i < b ELSE i >= a \/ i < b
    BY <2>3
  <2> QED
    BY <2>4 DEF x, y
<1> QED
  BY <1>2 DEF Between

(* A ring is empty, grows at its end and shrinks at its start, and holds    *)
(* all but one slot when it is full.                                        *)
LEMMA Ring ==
  ASSUME NEW size \in Nat, size > 0, NEW a \in 0 .. size - 1, NEW b \in 0 .. size - 1
  PROVE  /\ Between(a, b, size) \subseteq 0 .. size - 1
         /\ Between(a, b, size) = {} <=> a = b
         /\ b \notin Between(a, b, size)
         /\ Up(b, size) # a => Between(a, Up(b, size), size) = Between(a, b, size) \cup {b}
         /\ a # b => /\ a \in Between(a, b, size)
                     /\ Between(Up(a, size), b, size) = Between(a, b, size) \ {a}
         /\ Up(b, size) = a => Between(a, b, size) = (0 .. size - 1) \ {b}
<1>1. /\ Between(a, b, size) =
           {i \in 0 .. size - 1 : IF a <= b THEN a <= i /\ i < b ELSE i >= a \/ i < b}
  BY BetweenIs
<1>2. Up(a, size) \in 0 .. size - 1 /\ Up(b, size) \in 0 .. size - 1
  BY UpIs
<1>3. Between(a, Up(b, size), size) =
        {i \in 0 .. size - 1 : IF a <= Up(b, size) THEN a <= i /\ i < Up(b, size)
                                                   ELSE i >= a \/ i < Up(b, size)}
  BY <1>2, BetweenIs
<1>4. Between(Up(a, size), b, size) =
        {i \in 0 .. size - 1 : IF Up(a, size) <= b THEN Up(a, size) <= i /\ i < b
                                                   ELSE i >= Up(a, size) \/ i < b}
  BY <1>2, BetweenIs
<1>5. b \notin Between(a, b, size) /\ Between(a, b, size) \subseteq 0 .. size - 1
  BY <1>1
<1>6. Between(a, b, size) = {} <=> a = b
  <2>1. a # b => a \in Between(a, b, size)
    BY <1>1
  <2>2. a = b => Between(a, b, size) = {}
    BY <1>1
  <2> QED
    BY <2>1, <2>2
<1>7. ASSUME Up(b, size) # a
      PROVE  Between(a, Up(b, size), size) = Between(a, b, size) \cup {b}
  BY <1>1, <1>3, <1>7 DEF Up
<1>8. ASSUME a # b
      PROVE  /\ a \in Between(a, b, size)
             /\ Between(Up(a, size), b, size) = Between(a, b, size) \ {a}
  BY <1>1, <1>4, <1>8 DEF Up
<1>9. ASSUME Up(b, size) = a
      PROVE  Between(a, b, size) = (0 .. size - 1) \ {b}
  BY <1>1, <1>9 DEF Up
<1> QED
  BY <1>5, <1>6, <1>7, <1>8, <1>9

(* Positions of a ring that are a number of slots apart.                    *)
LEMMA Apart ==
  ASSUME NEW size \in Nat, size > 0, NEW a \in 0 .. size - 1, NEW k \in Nat
  PROVE  /\ (a + k) % size \in 0 .. size - 1
         /\ (a + (k + 1)) % size = Up((a + k) % size, size)
         /\ (Up(a, size) + k) % size = (a + (k + 1)) % size
<1>1. PICK q \in Int, r \in 0 .. size - 1 : a + k = size * q + r
  <2>1. a + k \in Nat
    OBVIOUS
  <2> DEFINE q == (a + k) \div size
             r == (a + k) % size
  <2>2. q \in Int /\ r \in 0 .. size - 1 /\ a + k = size * q + r
    BY <2>1, SMT
  <2> QED
    BY <2>2
<1>2. \A n \in Int : \A s \in 0 .. size - 1 : (size * n + s) % size = s
  BY SMT
<1>3. (a + k) % size = r
  BY <1>1, <1>2
<1>4. (a + (k + 1)) % size = Up(r, size)
  <2>1. CASE r + 1 = size
    <3>1. a + (k + 1) = size * (q + 1) + 0 /\ q + 1 \in Int /\ 0 \in 0 .. size - 1
      BY <1>1, <2>1
    <3>2. (size * (q + 1) + 0) % size = 0
      BY <1>2, <3>1
    <3> QED
      BY <3>1, <3>2, <2>1 DEF Up
  <2>2. CASE r + 1 # size
    <3>1. a + (k + 1) = size * q + (r + 1) /\ r + 1 \in 0 .. size - 1
      BY <1>1, <2>2
    <3>2. (size * q + (r + 1)) % size = r + 1
      BY <1>2, <3>1
    <3> QED
      BY <3>1, <3>2, <2>2 DEF Up
  <2> QED
    BY <2>1, <2>2
<1>5. (Up(a, size) + k) % size = (a + (k + 1)) % size
  <2>1. CASE a + 1 # size
    <3>1. Up(a, size) + k = a + (k + 1)
      BY <2>1 DEF Up
    <3> QED
      BY <3>1
  <2>2. CASE a + 1 = size
    <3>1. Up(a, size) = 0
      BY <2>2 DEF Up
    <3>2. CASE r + 1 = size
      <4>1. Up(a, size) + k = size * q + 0 /\ 0 \in 0 .. size - 1
        BY <1>1, <2>2, <3>1, <3>2
      <4>2. (size * q + 0) % size = 0
        BY <1>1, <1>2, <4>1
      <4> QED
        BY <1>4, <4>1, <4>2, <3>2 DEF Up
    <3>3. CASE r + 1 # size
      <4>1. Up(a, size) + k = size * (q - 1) + (r + 1) /\ r + 1 \in 0 .. size - 1 /\ q - 1 \in Int
        BY <1>1, <2>2, <3>1, <3>3
      <4>2. (size * (q - 1) + (r + 1)) % size = r + 1
        BY <1>2, <4>1
      <4> QED
        BY <1>4, <4>1, <4>2, <3>3 DEF Up
    <3> QED
      BY <3>2, <3>3
  <2> QED
    BY <2>1, <2>2
<1> QED
  BY <1>3, <1>4, <1>5

(* The same for the two kinds of ring.                                      *)
LEMMA SqUp ==
  \A a \in SqSlots : /\ (a + 1) % sq_size = Up(a, sq_size) /\ (a + 1) % sq_size \in SqSlots
                    /\ Up(a, sq_size) \in SqSlots
<1> SUFFICES ASSUME NEW a \in SqSlots
             PROVE  /\ (a + 1) % sq_size = Up(a, sq_size) /\ (a + 1) % sq_size \in SqSlots
                    /\ Up(a, sq_size) \in SqSlots
  OBVIOUS
<1> DEFINE size == sq_size
<1>1. size \in Nat /\ size > 0 /\ SqSlots = 0 .. size - 1
  BY Sizes
<1> HIDE DEF size
<1>2. a \in 0 .. size - 1
  BY <1>1
<1>3. (a + 1) % size = Up(a, size) /\ Up(a, size) \in 0 .. size - 1
  BY <1>1, <1>2, UpIs
<1> QED
  BY <1>1, <1>3 DEF size

LEMMA CqUp ==
  \A a \in CqSlots : /\ (a + 1) % cq_size = Up(a, cq_size) /\ (a + 1) % cq_size \in CqSlots
                    /\ Up(a, cq_size) \in CqSlots
<1> SUFFICES ASSUME NEW a \in CqSlots
             PROVE  /\ (a + 1) % cq_size = Up(a, cq_size) /\ (a + 1) % cq_size \in CqSlots
                    /\ Up(a, cq_size) \in CqSlots
  OBVIOUS
<1> DEFINE size == cq_size
<1>1. size \in Nat /\ size > 0 /\ CqSlots = 0 .. size - 1
  BY Sizes
<1> HIDE DEF size
<1>2. a \in 0 .. size - 1
  BY <1>1
<1>3. (a + 1) % size = Up(a, size) /\ Up(a, size) \in 0 .. size - 1
  BY <1>1, <1>2, UpIs
<1> QED
  BY <1>1, <1>3 DEF size

LEMMA SqRing ==
  ASSUME NEW a \in SqSlots, NEW b \in SqSlots
  PROVE  /\ (a + 1) % sq_size = Up(a, sq_size) /\ Up(a, sq_size) \in SqSlots
         /\ Between(a, b, sq_size) \subseteq SqSlots
         /\ Between(a, b, sq_size) = {} <=> a = b
         /\ b \notin Between(a, b, sq_size)
         /\ Up(b, sq_size) # a => Between(a, Up(b, sq_size), sq_size) = Between(a, b, sq_size) \cup {b}
         /\ a # b => /\ a \in Between(a, b, sq_size)
                     /\ Between(Up(a, sq_size), b, sq_size) = Between(a, b, sq_size) \ {a}
         /\ Up(b, sq_size) = a => Between(a, b, sq_size) = SqSlots \ {b}
<1> DEFINE size == sq_size
<1>1. size \in Nat /\ size > 0 /\ SqSlots = 0 .. size - 1
  BY Sizes
<1> HIDE DEF size
<1>2. a \in 0 .. size - 1 /\ b \in 0 .. size - 1
  BY <1>1
<1>3. (a + 1) % size = Up(a, size) /\ Up(a, size) \in 0 .. size - 1
  BY <1>1, <1>2, UpIs
<1>4. /\ Between(a, b, size) \subseteq 0 .. size - 1
      /\ Between(a, b, size) = {} <=> a = b
      /\ b \notin Between(a, b, size)
      /\ Up(b, size) # a => Between(a, Up(b, size), size) = Between(a, b, size) \cup {b}
      /\ a # b => /\ a \in Between(a, b, size)
                  /\ Between(Up(a, size), b, size) = Between(a, b, size) \ {a}
      /\ Up(b, size) = a => Between(a, b, size) = (0 .. size - 1) \ {b}
  BY <1>1, <1>2, Ring
<1>5. /\ (a + 1) % size = Up(a, size) /\ Up(a, size) \in SqSlots
      /\ Between(a, b, size) \subseteq SqSlots
      /\ Up(b, size) = a => Between(a, b, size) = SqSlots \ {b}
  BY <1>1, <1>3, <1>4
<1> QED
  BY <1>4, <1>5 DEF size

LEMMA CqRing ==
  ASSUME NEW a \in CqSlots, NEW b \in CqSlots
  PROVE  /\ (a + 1) % cq_size = Up(a, cq_size) /\ Up(a, cq_size) \in CqSlots
         /\ Between(a, b, cq_size) \subseteq CqSlots
         /\ Between(a, b, cq_size) = {} <=> a = b
         /\ b \notin Between(a, b, cq_size)
         /\ Up(b, cq_size) # a => Between(a, Up(b, cq_size), cq_size) = Between(a, b, cq_size) \cup {b}
         /\ a # b => /\ a \in Between(a, b, cq_size)
                     /\ Between(Up(a, cq_size), b, cq_size) = Between(a, b, cq_size) \ {a}
         /\ Up(b, cq_size) = a => Between(a, b, cq_size) = CqSlots \ {b}
<1> DEFINE size == cq_size
<1>1. size \in Nat /\ size > 0 /\ CqSlots = 0 .. size - 1
  BY Sizes
<1> HIDE DEF size
<1>2. a \in 0 .. size - 1 /\ b \in 0 .. size - 1
  BY <1>1
<1>3. (a + 1) % size = Up(a, size) /\ Up(a, size) \in 0 .. size - 1
  BY <1>1, <1>2, UpIs
<1>4. /\ Between(a, b, size) \subseteq 0 .. size - 1
      /\ Between(a, b, size) = {} <=> a = b
      /\ b \notin Between(a, b, size)
      /\ Up(b, size) # a => Between(a, Up(b, size), size) = Between(a, b, size) \cup {b}
      /\ a # b => /\ a \in Between(a, b, size)
                  /\ Between(Up(a, size), b, size) = Between(a, b, size) \ {a}
      /\ Up(b, size) = a => Between(a, b, size) = (0 .. size - 1) \ {b}
  BY <1>1, <1>2, Ring
<1>5. /\ (a + 1) % size = Up(a, size) /\ Up(a, size) \in CqSlots
      /\ Between(a, b, size) \subseteq CqSlots
      /\ Up(b, size) = a => Between(a, b, size) = CqSlots \ {b}
  BY <1>1, <1>3, <1>4
<1> QED
  BY <1>4, <1>5 DEF size

-----------------------------------------------------------------------------
(* Types, and the filler's hold on the queue.                               *)

LEMMA TypeInit == OneWorker /\ Init => TypeOK /\ FillerInv
<1> SUFFICES ASSUME Init PROVE TypeOK /\ FillerInv
  OBVIOUS
<1>1. 0 \in SqSlots /\ 0 \in CqSlots /\ 0 \in Nat /\ 1 \in Sqs /\ 1 \in Tags
      /\ cq_start \in CqSlots
  BY Sizes DEF cqid, Tags
<1>2. sq \in [Sqs -> [SqSlots -> Tags \cup {0}]] /\ dbs \in Doorbells /\ old_dbs \in Doorbells
  BY <1>1 DEF Init, Doorbells
<1>3. d \in [at : {"sq", "sq_loop", "cq", "cq_loop"}, qid : Sqs, new_db : Nat, pos : Nat]
      /\ d.at = "sq"
  BY <1>1 DEF Init, Polling
<1>4. cq \in [entry : [CqSlots -> CqEntry], cq_head : CqSlots, phase : {0, 1},
             interrupt_ready : BOOLEAN,
             entry_lock : Workers \cup {NoOne}, irq_lock : Workers \cup {NoOne}]
  <2>1. [command_id |-> 0, sq_id |-> 0, phase |-> 0] \in CqEntry
        /\ [command_id |-> 1, sq_id |-> 1, phase |-> 1] \in CqEntry
    BY <1>1 DEF CqEntry
  <2>2. [i \in CqSlots |-> IF i < cq_start THEN [command_id |-> 1, sq_id |-> 1, phase |-> 1]
                           ELSE [command_id |-> 0, sq_id |-> 0, phase |-> 0]]
        \in [CqSlots -> CqEntry]
    BY <2>1
  <2> QED
    BY <1>1, <2>2 DEF Init
<1>5. w \in [Workers -> [pc : Pcs, req : Request \cup {NoRequest}, cq_head : CqSlots]]
      /\ \A i \in Workers : w[i].pc = "walk"
  BY <1>1 DEF Init, Walking, Pcs
<1>6. host \in [busy : [Sqs -> SUBSET Tags], head : CqSlots, phase : {0, 1},
               irq : BOOLEAN, handling : BOOLEAN, submitted : Nat]
  BY <1>1 DEF Init
<1>7. /\ nr_in_flight \in [Sqs -> Int] /\ inflight \in SUBSET Request
      /\ dispatched \in Nat /\ received \in Nat
  BY DEF Init
<1>8. TypeOK
  BY <1>2, <1>3, <1>4, <1>5, <1>6, <1>7 DEF TypeOK
<1>9. FillerInv
  BY <1>5, Sizes DEF FillerInv, Init
<1> QED
  BY <1>8, <1>9

(* What a worker that is not walking its list is about to do.               *)
LEMMA Hand ==
  ASSUME TypeOK, FillerInv, NEW i \in Workers, w[i].pc # "walk"
  PROVE  /\ i = Filler /\ w[i].pc = w[Filler].pc
         /\ w[i].pc \in {"lock", "status", "unlock"} =>
              /\ w[i].req \in inflight /\ w[i].req \in Request
              /\ w[i].cq_head = cq.cq_head /\ w[i].cq_head \in CqSlots
BY DEF TypeOK, FillerInv

LEMMA TypeStep ==
  ASSUME OneWorker, TypeOK, FillerInv, PlaceInv, LoopInv, [Next]_vars
  PROVE  TypeOK' /\ FillerInv'
<1> USE Sizes
<1> DEFINE DType == [at : {"sq", "sq_loop", "cq", "cq_loop"}, qid : Sqs, new_db : Nat, pos : Nat]
           CType == [entry : [CqSlots -> CqEntry], cq_head : CqSlots, phase : {0, 1},
                     interrupt_ready : BOOLEAN,
                     entry_lock : Workers \cup {NoOne}, irq_lock : Workers \cup {NoOne}]
           WType == [pc : Pcs, req : Request \cup {NoRequest}, cq_head : CqSlots]
           HType == [busy : [Sqs -> SUBSET Tags], head : CqSlots, phase : {0, 1},
                     irq : BOOLEAN, handling : BOOLEAN, submitted : Nat]
<1>t. /\ sq \in [Sqs -> [SqSlots -> Tags \cup {0}]]
      /\ dbs \in Doorbells /\ old_dbs \in Doorbells
      /\ d \in DType
      /\ d.at = "sq_loop" => d.new_db \in SqSlots /\ d.pos \in SqSlots
      /\ d.at = "cq_loop" => d.new_db \in CqSlots /\ d.pos \in CqSlots
      /\ nr_in_flight \in [Sqs -> Int] /\ inflight \in SUBSET Request
      /\ cq \in CType /\ w \in [Workers -> WType] /\ host \in HType
      /\ dispatched \in Nat /\ received \in Nat
  BY DEF TypeOK
<1>f. /\ \A i \in Workers : w[i].pc # "walk" => i = Filler
      /\ \A r \in inflight : r.id <= dispatched
      /\ crossed = FALSE
  BY DEF FillerInv
<1>n. Walking \in WType /\ Walking.pc = "walk"
  <2>1. 0 \in CqSlots /\ "walk" \in Pcs
    BY DEF Pcs
  <2> QED
    BY <2>1 DEF Walking
<1>p. AfterSq \in DType /\ AfterSq.at \notin {"sq_loop", "cq_loop"} /\ Polling("sq", 1) \in DType
      /\ Polling("sq", 1).at = "sq"
  <2>1. 1 \in Sqs /\ d.qid \in Sqs
    BY <1>t DEF Sqs
  <2>2. d.qid # nr_sq => d.qid + 1 \in Sqs
    BY <2>1 DEF Sqs
  <2>3. Polling("sq", 1) \in DType /\ Polling("cq", 1) \in DType
        /\ Polling("sq", 1).at = "sq" /\ Polling("cq", 1).at = "cq"
    BY <2>1 DEF Polling
  <2>4. d.qid # nr_sq => Polling("sq", d.qid + 1) \in DType /\ Polling("sq", d.qid + 1).at = "sq"
    BY <2>2 DEF Polling
  <2> QED
    BY <2>3, <2>4 DEF AfterSq
(* Steps that leave the workers and the completion queue alone.             *)
<1>q. ASSUME UNCHANGED <<cq, w, inflight, crossed>>, dispatched' = dispatched PROVE FillerInv'
  BY <1>q DEF FillerInv
<1>1. ASSUME NEW q \in Sqs, NEW tag \in Tags, HostSubmit(q, tag) PROVE TypeOK' /\ FillerInv'
  <2>1. sq' \in [Sqs -> [SqSlots -> Tags \cup {0}]]
    BY <1>1, <1>t DEF HostSubmit, Doorbells
  <2>2. dbs' \in Doorbells
    <3>1. dbs.sq[q] \in SqSlots
      BY <1>t DEF Doorbells
    <3>2. (dbs.sq[q] + 1) % sq_size \in SqSlots
      BY <3>1, SqUp
    <3> DEFINE x == (dbs.sq[q] + 1) % sq_size
    <3> HIDE DEF x
    <3>3. dbs' = [dbs EXCEPT !.sq[q] = x]
      BY <1>1 DEF HostSubmit, x
    <3> QED
      BY <1>t, <3>2, <3>3 DEF Doorbells, x
  <2>3. host' \in HType
    <3> DEFINE x == [host EXCEPT !.busy[q] = @ \cup {tag}]
    <3>1. host' = [x EXCEPT !.submitted = @ + 1]
      BY <1>1, <1>t DEF HostSubmit
    <3>2. x \in HType
      BY <1>t, ZenonT(30)
    <3> HIDE DEF x
    <3>3. x.submitted + 1 \in Nat
      BY <3>2
    <3> QED
      BY <3>1, <3>2, <3>3
  <2> QED
    BY <1>1, <1>t, <1>q, <2>1, <2>2, <2>3 DEF HostSubmit, dispatchVars, deviceVars, TypeOK
<1>2. ASSUME HostPoll \/ HostInterrupt PROVE TypeOK' /\ FillerInv'
  <2>1. /\ host' = [host EXCEPT !.irq = FALSE, !.handling = TRUE]
           \/ host' = [host EXCEPT !.handling = TRUE]
        /\ UNCHANGED <<sq, dbs, dispatchVars, deviceVars, received>>
    BY <1>2 DEF HostPoll, HostInterrupt
  <2>2. host' \in HType
    BY <2>1, <1>t
  <2> QED
    BY <1>t, <1>q, <2>1, <2>2 DEF dispatchVars, deviceVars, TypeOK
<1>3. ASSUME HostConsume PROVE TypeOK' /\ FillerInv'
  <2> DEFINE e == cq.entry[host.head]
             wraps == host.head + 1 = cq_size
             x == [host EXCEPT !.busy[e.sq_id] = @ \ {e.command_id}]
             y == [x EXCEPT !.head = IF wraps THEN 0 ELSE @ + 1]
             z == [y EXCEPT !.phase = IF wraps THEN 1 - @ ELSE @]
  <2>1. host' = z
    BY <1>3, <1>t DEF HostConsume
  <2>2. x \in HType
    BY <1>t
  <2>3. host.head \in CqSlots /\ (~wraps => host.head + 1 \in CqSlots)
    BY <1>t, SMTT(30)
  <2>4. x.head = host.head
    BY <1>t
  <2> HIDE DEF x
  <2>5. y \in HType
    <3>1. (IF wraps THEN 0 ELSE x.head + 1) \in CqSlots
      BY <2>3, <2>4
    <3> DEFINE v == IF wraps THEN 0 ELSE x.head + 1
    <3>2. y = [x EXCEPT !.head = v] /\ v \in CqSlots
      BY <3>1
    <3> HIDE DEF v
    <3> QED
      BY <2>2, <3>2
  <2> HIDE DEF y
  <2>6. z \in HType
    <3>1. y.phase \in {0, 1}
      BY <2>5
    <3>2. 1 - y.phase \in {0, 1}
      BY <3>1
    <3> QED
      BY <3>1, <3>2, <2>5
  <2>7. host' \in HType
    BY <2>1, <2>6
  <2>8. UNCHANGED <<sq, dbs, dispatchVars, deviceVars>> /\ received' = received + 1
    BY <1>3 DEF HostConsume
  <2> HIDE DEF z
  <2> QED
    BY <1>t, <1>q, <2>7, <2>8 DEF dispatchVars, deviceVars, TypeOK
<1>4. ASSUME HostDone PROVE TypeOK' /\ FillerInv'
  <2>1. host' \in HType
    BY <1>4, <1>t DEF HostDone
  <2>2. dbs' \in Doorbells
    BY <1>4, <1>t DEF HostDone, Doorbells
  <2> QED
    BY <1>4, <1>t, <1>q, <2>1, <2>2 DEF HostDone, dispatchVars, deviceVars, TypeOK
<1>5. ASSUME SqPoll \/ CqPoll PROVE TypeOK' /\ FillerInv'
  <2>1. /\ d' \in DType
        /\ d'.at = "sq_loop" => d'.new_db \in SqSlots /\ d'.pos \in SqSlots
        /\ d'.at = "cq_loop" => d'.new_db \in CqSlots /\ d'.pos \in CqSlots
    <3>1. d.qid \in Sqs /\ dbs.sq[d.qid] \in SqSlots /\ old_dbs.sq[d.qid] \in SqSlots
          /\ dbs.cq \in CqSlots /\ old_dbs.cq \in CqSlots
      BY <1>t DEF Doorbells
    <3>2. SqSlots \subseteq Nat /\ CqSlots \subseteq Nat
      OBVIOUS
    <3> DEFINE u == [d EXCEPT !.at = "sq_loop", !.new_db = dbs.sq[d.qid],
                              !.pos = old_dbs.sq[d.qid]]
               v == [d EXCEPT !.at = "cq_loop", !.new_db = dbs.cq, !.pos = old_dbs.cq]
               x == [d EXCEPT !.at = "sq"]
    <3>3. d' = AfterSq \/ d' = u \/ d' = v \/ d' = x
      BY <1>5 DEF SqPoll, CqPoll
    <3>4. u \in DType /\ u.at = "sq_loop" /\ u.new_db \in SqSlots /\ u.pos \in SqSlots
      BY <1>t, <3>1, <3>2
    <3>5. v \in DType /\ v.at = "cq_loop" /\ v.new_db \in CqSlots /\ v.pos \in CqSlots
      BY <1>t, <3>1, <3>2
    <3>6. x \in DType /\ x.at = "sq"
      BY <1>t
    <3> HIDE DEF u, v, x
    <3> QED
      BY <1>p, <3>3, <3>4, <3>5, <3>6
  <2> QED
    BY <1>5, <1>t, <1>q, <2>1 DEF SqPoll, CqPoll, dispatchVars, deviceVars, TypeOK
<1>6. ASSUME SqAccept PROVE TypeOK' /\ FillerInv'
  <2> DEFINE r == [sqid |-> d.qid, command_id |-> sq[d.qid][d.pos],
                   worker |-> __get_io_worker(d.qid), id |-> dispatched + 1]
  <2>1. d.at = "sq_loop" /\ d.pos # d.new_db /\ d.qid \in Sqs /\ d.pos \in SqSlots /\ d.new_db \in SqSlots
    BY <1>6, <1>t DEF SqAccept
  <2>2. d.pos \in Waiting(d.qid)
    <3>1. d.pos \in Between(d.pos, d.new_db, sq_size)
      BY <2>1, SqRing, ZenonT(30)
    <3> QED
      BY <2>1, <3>1 DEF LoopInv
  <2>3. sq[d.qid][d.pos] \in Tags
    BY <2>1, <2>2 DEF PlaceInv
  <2>4. r \in Request
    BY <2>1, <2>3, <1>t DEF Request, OneWorker
  <2>5. d' \in DType /\ d'.at = "sq_loop" /\ d'.pos \in SqSlots /\ d'.new_db = d.new_db
    <3>1. (d.pos + 1) % sq_size \in SqSlots
      BY <2>1, SqUp
    <3> DEFINE x == (d.pos + 1) % sq_size
    <3>2. d' = [d EXCEPT !.pos = x]
      BY <1>6 DEF SqAccept
    <3> HIDE DEF x
    <3>3. x \in SqSlots /\ x \in Nat
      BY <3>1 DEF x
    <3> QED
      BY <1>t, <2>1, <3>2, <3>3
  <2>6. inflight' = inflight \cup {r} /\ dispatched' = dispatched + 1
        /\ nr_in_flight' = [nr_in_flight EXCEPT ![d.qid] = @ + 1]
        /\ UNCHANGED <<sq, dbs, old_dbs, cq, w, host, received, crossed>>
    BY <1>6 DEF SqAccept
  <2>7. r.id <= dispatched + 1 /\ \A s \in inflight : s.id <= dispatched + 1
    BY <1>f, <1>t DEF Request
  <2> HIDE DEF r
  <2>8. FillerInv'
    BY <2>6, <2>7 DEF FillerInv
  <2>9. nr_in_flight' \in [Sqs -> Int]
    BY <2>6, <2>1, <1>t
  <2> QED
    BY <1>t, <2>1, <2>4, <2>5, <2>6, <2>8, <2>9, SMTT(30) DEF TypeOK
<1>7. ASSUME SqStop PROVE TypeOK' /\ FillerInv'
  <2>1. old_dbs' \in Doorbells
    BY <1>7, <1>t DEF SqStop, Doorbells
  <2> QED
    BY <1>7, <1>t, <1>q, <1>p, <2>1 DEF SqStop, deviceVars, TypeOK
<1>8. ASSUME CqAck PROVE TypeOK' /\ FillerInv'
  <2>1. d.at = "cq_loop" /\ d.pos \in CqSlots /\ d.new_db \in CqSlots
    BY <1>8, <1>t DEF CqAck
  <2>2. d' \in DType /\ d'.at = "cq_loop" /\ d'.pos \in CqSlots /\ d'.new_db = d.new_db
    <3>1. (d.pos + 1) % cq_size \in CqSlots
      BY <2>1, CqUp
    <3> DEFINE x == (d.pos + 1) % cq_size
    <3>2. d' = [d EXCEPT !.pos = x]
      BY <1>8 DEF CqAck
    <3> HIDE DEF x
    <3>3. x \in CqSlots /\ x \in Nat
      BY <3>1 DEF x
    <3> QED
      BY <1>t, <2>1, <3>2, <3>3
  <2>3. nr_in_flight' \in [Sqs -> Int]
    <3> DEFINE k == cq.entry[d.pos].sq_id
    <3>1. nr_in_flight' = [nr_in_flight EXCEPT ![k] = @ - 1]
      BY <1>8 DEF CqAck
    <3> HIDE DEF k
    <3>2. CASE k \in Sqs
      <4>1. nr_in_flight[k] - 1 \in Int
        BY <1>t, <3>2
      <4> QED
        BY <1>t, <3>1, <3>2, <4>1
    <3>3. CASE k \notin Sqs
      BY <1>t, <3>1, <3>3
    <3> QED
      BY <3>2, <3>3
  <2> QED
    BY <1>8, <1>t, <1>q, <2>1, <2>2, <2>3 DEF CqAck, deviceVars, TypeOK
<1>9. ASSUME CqAckEnd PROVE TypeOK' /\ FillerInv'
  <2>1. old_dbs' \in Doorbells
    BY <1>9, <1>t DEF CqAckEnd, Doorbells
  <2> QED
    BY <1>9, <1>t, <1>q, <1>p, <2>1 DEF CqAckEnd, deviceVars, TypeOK
<1>10. ASSUME NEW i \in Workers, Worker(i) PROVE TypeOK' /\ FillerInv'
  <2>o. UNCHANGED <<sq, dbs, old_dbs, d, nr_in_flight, dispatched, received>>
    BY <1>10 DEF Worker, FillBegin, FillIds, FillStatus, FillEnd, IrqTry, IrqClear, IrqSignal,
                 others, dispatchVars
  <2>m. ASSUME inflight' \in SUBSET Request, cq' \in CType, w' \in [Workers -> WType],
               host' \in HType
        PROVE  TypeOK'
    BY <2>o, <2>m, <1>t DEF TypeOK
  <2>w. w[i] \in WType /\ w[i].pc \in Pcs
    BY <1>t
  <2>1. ASSUME NEW r \in inflight, FillBegin(i, r) PROVE TypeOK' /\ FillerInv'
    <3>1. r \in Request /\ i = Filler
      BY <1>t, <2>1 DEF Request, FillBegin
    <3>2. cq.cq_head \in CqSlots /\ "lock" \in Pcs
      BY <1>t DEF Pcs
    <3>3. [pc |-> "lock", req |-> r, cq_head |-> cq.cq_head] \in WType
      BY <3>1, <3>2
    <3> DEFINE x == [pc |-> "lock", req |-> r, cq_head |-> cq.cq_head]
    <3>4. w' = [w EXCEPT ![i] = x] /\ UNCHANGED <<cq, inflight, host, crossed>>
      BY <2>1 DEF FillBegin
    <3>5. x.pc = "lock" /\ x.req = r /\ x.cq_head = cq.cq_head
      OBVIOUS
    <3> HIDE DEF x
    <3>6. w' \in [Workers -> WType]
      BY <1>t, <3>3, <3>4 DEF x
    <3>7. FillerInv'
      BY <1>t, <1>f, <2>o, <3>1, <3>4, <3>5 DEF FillerInv
    <3> QED
      BY <2>m, <1>t, <3>4, <3>6, <3>7
  <2>2. ASSUME FillIds(i) PROVE TypeOK' /\ FillerInv'
    <3>1. w[i].pc = "lock" /\ i = Filler /\ w[i].req \in inflight /\ w[i].req \in Request
          /\ w[i].cq_head = cq.cq_head /\ w[i].cq_head \in CqSlots
      BY <2>2, Hand DEF FillIds
    <3> DEFINE c == w[i].cq_head
               x == [cq EXCEPT !.entry_lock = i]
               y == [x EXCEPT !.entry[c].command_id = w[i].req.command_id]
               z == [y EXCEPT !.entry[c].sq_id = w[i].req.sqid]
    <3>2. cq' = z /\ w' = [w EXCEPT ![i].pc = "status"] /\ UNCHANGED <<inflight, host>>
      BY <2>2 DEF FillIds
    <3>3. w[i].req.command_id \in Tags /\ w[i].req.sqid \in Sqs /\ c \in CqSlots
      BY <3>1 DEF Request
    <3>4. x \in CType
      BY <1>t
    <3> HIDE DEF c
    <3>5. y \in CType /\ y.entry[c].command_id = w[i].req.command_id /\ y.cq_head = cq.cq_head
      <4> HIDE DEF x
      <4>0. x.cq_head = cq.cq_head
        BY <1>t DEF x
      <4>1. x.entry \in [CqSlots -> CqEntry] /\ x.entry[c] \in CqEntry
        BY <3>3, <3>4
      <4>2. [x.entry[c] EXCEPT !.command_id = w[i].req.command_id] \in CqEntry
        BY <4>1, <3>3 DEF CqEntry
      <4> QED
        BY <3>3, <3>4, <4>0, <4>1, <4>2 DEF CqEntry
    <3> HIDE DEF x, y
    <3>6. z \in CType /\ z.entry[c].command_id = w[i].req.command_id
          /\ z.entry[c].sq_id = w[i].req.sqid /\ z.cq_head = cq.cq_head
      <4>1. y.entry \in [CqSlots -> CqEntry] /\ y.entry[c] \in CqEntry
        BY <3>3, <3>5
      <4>2. [y.entry[c] EXCEPT !.sq_id = w[i].req.sqid] \in CqEntry
        BY <4>1, <3>3 DEF CqEntry
      <4> QED
        BY <3>3, <3>5, <4>1, <4>2 DEF CqEntry
    <3> HIDE DEF z
    <3>7. w' \in [Workers -> WType] /\ w'[i].pc = "status" /\ w'[i].req = w[i].req
          /\ w'[i].cq_head = w[i].cq_head /\ \A j \in Workers \ {i} : w'[j] = w[j]
      <4>1. "status" \in Pcs
        BY DEF Pcs
      <4> QED
        BY <1>t, <2>w, <3>2, <4>1
    <3>8. crossed' = FALSE
      BY <1>f, <2>2, <3>1 DEF FillIds
    <3>9. FillerInv'
      BY <1>f, <2>o, <3>1, <3>2, <3>6, <3>7, <3>8 DEF FillerInv, c
    <3> QED
      BY <2>m, <1>t, <3>2, <3>6, <3>7, <3>9
  <2>3. ASSUME FillStatus(i) PROVE TypeOK' /\ FillerInv'
    <3>1. w[i].pc = "status" /\ i = Filler /\ w[i].req \in inflight /\ w[i].req \in Request
          /\ w[i].cq_head = cq.cq_head /\ w[i].cq_head \in CqSlots
      BY <2>3, Hand DEF FillStatus
    <3> DEFINE c == w[i].cq_head
    <3>2. cq' = [cq EXCEPT !.entry[c].phase = cq.phase]
          /\ w' = [w EXCEPT ![i].pc = "unlock"] /\ UNCHANGED <<inflight, host, crossed>>
      BY <2>3 DEF FillStatus
    <3> HIDE DEF c
    <3>3. c \in CqSlots /\ cq.phase \in {0, 1}
      BY <1>t, <3>1 DEF c
    <3>4. cq' \in CType /\ cq'.cq_head = cq.cq_head
      <4>1. cq.entry \in [CqSlots -> CqEntry] /\ cq.entry[c] \in CqEntry
        BY <1>t, <3>3
      <4>2. [cq.entry[c] EXCEPT !.phase = cq.phase] \in CqEntry
        BY <4>1, <3>3 DEF CqEntry
      <4> QED
        BY <1>t, <3>2, <3>3, <4>1, <4>2 DEF CqEntry
    <3>5. w' \in [Workers -> WType] /\ w'[i].pc = "unlock" /\ w'[i].req = w[i].req
          /\ w'[i].cq_head = w[i].cq_head /\ \A j \in Workers \ {i} : w'[j] = w[j]
      <4>1. "unlock" \in Pcs
        BY DEF Pcs
      <4> QED
        BY <1>t, <2>w, <3>2, <4>1
    <3>6. FillerInv'
      BY <1>f, <2>o, <3>1, <3>2, <3>4, <3>5 DEF FillerInv
    <3> QED
      BY <2>m, <1>t, <3>2, <3>4, <3>5, <3>6
  <2>4. ASSUME FillEnd(i) PROVE TypeOK' /\ FillerInv'
    <3>1. w[i].pc = "unlock" /\ i = Filler /\ w[i].cq_head \in CqSlots
      BY <2>4, Hand DEF FillEnd
    <3> DEFINE h == IF w[i].cq_head + 1 = cq_size THEN 0 ELSE w[i].cq_head + 1
               p == IF w[i].cq_head + 1 = cq_size THEN 1 - cq.phase ELSE cq.phase
               x == [cq EXCEPT !.cq_head = h]
               y == [x EXCEPT !.phase = p]
               z == [y EXCEPT !.interrupt_ready = TRUE, !.entry_lock = NoOne]
    <3>2. h \in CqSlots /\ p \in {0, 1}
      BY <1>t, <3>1
    <3>3. cq' = z /\ w' = [w EXCEPT ![i] = Walking] /\ inflight' = inflight \ {w[i].req}
          /\ host' = host /\ crossed' = crossed
      BY <1>t, <2>4 DEF FillEnd
    <3> HIDE DEF h, p
    <3>4. x \in CType
      BY <1>t, <3>2
    <3> HIDE DEF x
    <3>5. y \in CType
      BY <3>2, <3>4
    <3> HIDE DEF y
    <3>6. z \in CType
      BY <3>5
    <3> HIDE DEF z
    <3>7. w' \in [Workers -> WType] /\ w'[i].pc = "walk" /\ \A j \in Workers \ {i} : w'[j] = w[j]
      BY <1>t, <1>n, <3>3
    <3>8. FillerInv'
      BY <1>f, <2>o, <3>1, <3>3, <3>7 DEF FillerInv
    <3> QED
      BY <2>m, <1>t, <3>3, <3>6, <3>7, <3>8
  <2>5. ASSUME IrqTry(i) \/ IrqClear(i) \/ IrqSignal(i) PROVE TypeOK' /\ FillerInv'
    <3>1. i = Filler
      BY <2>5, <1>f DEF IrqTry, IrqClear, IrqSignal, Filler
    <3>2. PICK pc \in {"walk", "clear", "signal"} : w' = [w EXCEPT ![i].pc = pc]
      BY <2>5 DEF IrqTry, IrqClear, IrqSignal
    <3>3. w' \in [Workers -> WType] /\ w'[i].pc = pc /\ \A j \in Workers \ {i} : w'[j] = w[j]
      <4>1. pc \in Pcs
        BY DEF Pcs
      <4> QED
        BY <1>t, <2>w, <3>2, <4>1
    <3>4. cq' \in CType /\ host' \in HType /\ inflight' = inflight /\ crossed' = crossed
      BY <1>t, <2>5, ZenonT(30) DEF IrqTry, IrqClear, IrqSignal
    <3>5. FillerInv'
      <4>1. \A j \in Workers : w'[j].pc # "walk" => j = Filler
        BY <1>f, <3>1, <3>3
      <4>2. w'[Filler].pc \notin {"lock", "status", "unlock"}
        BY <3>1, <3>3
      <4> QED
        BY <1>f, <2>o, <3>4, <4>1, <4>2 DEF FillerInv
    <3> QED
      BY <2>m, <1>t, <3>3, <3>4, <3>5
  <2> QED
    BY <1>10, <2>1, <2>2, <2>3, <2>4, <2>5 DEF Worker
<1>11. ASSUME UNCHANGED vars PROVE TypeOK' /\ FillerInv'
  BY <1>11, <1>q, <1>t DEF vars, TypeOK
<1> QED
  BY <1>1, <1>2, <1>3, <1>4, <1>5, <1>6, <1>7, <1>8, <1>9, <1>10, <1>11
  DEF Next, Host, Dispatcher

-----------------------------------------------------------------------------
(* What the composite expressions of QueuePair come to when one worker      *)
(* fills the queue.                                                         *)

Front(q) == IF d.at = "sq_loop" /\ d.qid = q THEN d.pos ELSE old_dbs.sq[q]

Views == TypeOK /\ FillerInv =>
  /\ PostHead \in CqSlots
  /\ NotPosted = inflight \ (IF w[Filler].pc = "unlock" THEN {w[Filler].req} ELSE {})
  /\ Unread = Between(host.head, PostHead, cq_size)
  /\ \A q \in Sqs : /\ Front(q) \in SqSlots /\ dbs.sq[q] \in SqSlots
                    /\ Waiting(q) = Between(Front(q), dbs.sq[q], sq_size)

LEMMA ViewsHold == Views
<1> SUFFICES ASSUME TypeOK, FillerInv
             PROVE  /\ PostHead \in CqSlots
                    /\ NotPosted = inflight \ (IF w[Filler].pc = "unlock" THEN {w[Filler].req} ELSE {})
                    /\ Unread = Between(host.head, PostHead, cq_size)
                    /\ \A q \in Sqs : /\ Front(q) \in SqSlots /\ dbs.sq[q] \in SqSlots
                                      /\ Waiting(q) = Between(Front(q), dbs.sq[q], sq_size)
  BY DEF Views
<1>0. Filler \in Workers /\ cq.cq_head \in CqSlots
  BY Sizes DEF TypeOK
<1>1. Up(cq.cq_head, cq_size) \in CqSlots /\ Up(cq.cq_head, cq_size) = (cq.cq_head + 1) % cq_size
  BY <1>0, CqUp
<1>2. PostHead \in CqSlots
  BY <1>0, <1>1 DEF PostHead
<1>3. Posting = IF w[Filler].pc = "unlock" THEN {Filler} ELSE {}
  BY <1>0 DEF Posting, FillerInv
<1>4. NotPosted = inflight \ (IF w[Filler].pc = "unlock" THEN {w[Filler].req} ELSE {})
  BY <1>3 DEF NotPosted
<1>5. (cq.cq_head + Cardinality(Posting)) % cq_size = PostHead
  <2>1. CASE w[Filler].pc = "unlock"
    <3>1. Cardinality(Posting) = 1
      BY <1>3, <2>1, FS_Singleton
    <3> QED
      BY <1>1, <2>1, <3>1 DEF PostHead
  <2>2. CASE w[Filler].pc # "unlock"
    <3>1. Cardinality(Posting) = 0
      BY <1>3, <2>2, FS_EmptySet
    <3>2. cq.cq_head + 0 = cq.cq_head /\ cq.cq_head % cq_size = cq.cq_head
      BY <1>0, Sizes
    <3> QED
      BY <2>2, <3>1, <3>2 DEF PostHead
  <2> QED
    BY <2>1, <2>2
<1>6. Unread = Between(host.head, PostHead, cq_size)
  BY <1>5 DEF Unread
<1>7. ASSUME NEW q \in Sqs
      PROVE  /\ Front(q) \in SqSlots /\ dbs.sq[q] \in SqSlots
             /\ Waiting(q) = Between(Front(q), dbs.sq[q], sq_size)
  <2>1. Waiting(q) = Between(Front(q), dbs.sq[q], sq_size)
    BY DEF Waiting, Front
  <2>2. old_dbs.sq[q] \in SqSlots /\ dbs.sq[q] \in SqSlots
    BY DEF TypeOK, Doorbells
  <2>3. d.at = "sq_loop" => d.pos \in SqSlots
    BY DEF TypeOK
  <2> QED
    BY <2>1, <2>2, <2>3 DEF Front
<1> QED
  BY <1>2, <1>4, <1>6, <1>7

LEMMA ViewsHoldNext == Views'
BY ViewsHold, PTL

(* The entries of a ring that is full, without its one free slot, name as   *)
(* many different things.                                                   *)
LEMMA Crowd ==
  ASSUME NEW size \in Nat, NEW b \in 0 .. size - 1, NEW T, NEW x \in T, IsFiniteSet(T),
         NEW f \in [(0 .. size - 1) \ {b} -> T \ {x}],
         \A i, j \in (0 .. size - 1) \ {b} : f[i] = f[j] => i = j
  PROVE  size <= Cardinality(T)
<1> DEFINE S == (0 .. size - 1) \ {b}
<1>1. IsFiniteSet(0 .. size - 1) /\ Cardinality(0 .. size - 1) = size
  <2>1. 0 \in Int /\ size - 1 \in Int
    OBVIOUS
  <2> QED
    BY <2>1, FS_Interval
<1>2. IsFiniteSet(S) /\ Cardinality(S) = size - 1
  <2> DEFINE R == 0 .. size - 1
  <2>1. IsFiniteSet(R) /\ Cardinality(R) = size /\ b \in R
    BY <1>1
  <2> HIDE DEF R
  <2>2. IsFiniteSet(R \ {b}) /\ Cardinality(R \ {b}) = size - 1
    BY <2>1, FS_RemoveElement
  <2> QED
    BY <2>2 DEF R
<1>3. IsFiniteSet(T \ {x}) /\ Cardinality(T \ {x}) = Cardinality(T) - 1
  BY FS_RemoveElement
<1>4. f \in Injection(S, T \ {x})
  BY DEF Injection, IsInjective
<1>5. Cardinality(S) <= Cardinality(T \ {x})
  BY <1>2, <1>3, <1>4, FS_Injection
<1>6. Cardinality(T) \in Nat
  BY FS_CardinalityType
<1> QED
  BY <1>2, <1>3, <1>5, <1>6

(* The host that may submit leaves a slot of the submission ring free.      *)
LEMMA SqRoom ==
  ASSUME TypeOK, FillerInv, PlaceInv, NEW q \in Sqs, NEW t \in Tags \ host.busy[q]
  PROVE  Up(dbs.sq[q], sq_size) # Front(q)
<1> SUFFICES ASSUME Up(dbs.sq[q], sq_size) = Front(q) PROVE FALSE
  OBVIOUS
<1>1. /\ Front(q) \in SqSlots /\ dbs.sq[q] \in SqSlots
      /\ Waiting(q) = Between(Front(q), dbs.sq[q], sq_size)
  BY ViewsHold DEF Views
<1>2. Waiting(q) = SqSlots \ {dbs.sq[q]}
  BY <1>1, SqRing
<1>3. \A i \in Waiting(q) : sq[q][i] \in Tags \ {t}
  BY DEF PlaceInv, Placed, InSq
<1>4. \A i, j \in Waiting(q) : sq[q][i] = sq[q][j] => i = j
  <2> SUFFICES ASSUME NEW i \in Waiting(q), NEW j \in Waiting(q), sq[q][i] = sq[q][j]
               PROVE  i = j
    OBVIOUS
  <2> DEFINE u == sq[q][i]
  <2>1. u \in Tags /\ i \in InSq(q, u) /\ j \in InSq(q, u)
    BY <1>3 DEF InSq
  <2> HIDE DEF u
  <2>2. One(InSq(q, u))
    BY <2>1 DEF PlaceInv, Placed
  <2> QED
    BY <2>1, <2>2 DEF One
<1>5. NrTags \in Nat /\ IsFiniteSet(Tags) /\ Cardinality(Tags) = NrTags
  <2>1. NrTags \in Nat /\ 1 \in Int
    BY Sizes
  <2>2. IsFiniteSet(1 .. NrTags) /\ Cardinality(1 .. NrTags) = IF 1 > NrTags THEN 0 ELSE NrTags - 1 + 1
    BY <2>1, FS_Interval
  <2> QED
    BY <2>1, <2>2, Sizes DEF Tags
<1> DEFINE f == [i \in SqSlots \ {dbs.sq[q]} |-> sq[q][i]]
<1>6. f \in [SqSlots \ {dbs.sq[q]} -> Tags \ {t}]
      /\ \A i, j \in SqSlots \ {dbs.sq[q]} : f[i] = f[j] => i = j
  BY <1>2, <1>3, <1>4
<1> HIDE DEF f
<1>7. sq_size <= Cardinality(Tags)
  BY <1>1, <1>5, <1>6, Sizes, Crowd
<1> QED
  BY <1>5, <1>7, Sizes

(* A completion about to be posted has a slot to go to that the host has    *)
(* read.                                                                    *)
LEMMA CqRoom ==
  ASSUME TypeOK, FillerInv, PlaceInv, w[Filler].pc = "status"
  PROVE  Up(cq.cq_head, cq_size) # host.head
<1> SUFFICES ASSUME Up(cq.cq_head, cq_size) = host.head PROVE FALSE
  OBVIOUS
<1> DEFINE r == w[Filler].req
           p == <<r.sqid, r.command_id>>
           T == Sqs \X Tags
<1>1. Unread = Between(host.head, cq.cq_head, cq_size) /\ cq.cq_head \in CqSlots
      /\ host.head \in CqSlots /\ NotPosted = inflight
  BY ViewsHold DEF Views, PostHead, TypeOK
<1>2. Unread = CqSlots \ {cq.cq_head}
  BY <1>1, CqRing
<1>3. r \in NotPosted /\ r.sqid \in Sqs /\ r.command_id \in Tags
  BY <1>1 DEF TypeOK, FillerInv, Request
<1>4. p \in T /\ r \in InTable(r.sqid, r.command_id)
  BY <1>3 DEF InTable
<1>5. InCq(r.sqid, r.command_id) = {}
  BY <1>3, <1>4 DEF PlaceInv, Placed
<1> DEFINE f == [i \in CqSlots \ {cq.cq_head} |-> <<cq.entry[i].sq_id, cq.entry[i].command_id>>]
<1>6. \A i \in CqSlots \ {cq.cq_head} : f[i] \in T \ {p}
  BY <1>2, <1>5 DEF PlaceInv, InCq
<1>7. ASSUME NEW i \in CqSlots \ {cq.cq_head}, NEW j \in CqSlots \ {cq.cq_head}, f[i] = f[j]
      PROVE  i = j
  <2> DEFINE qq == cq.entry[i].sq_id
             tt == cq.entry[i].command_id
  <2>1. qq \in Sqs /\ tt \in Tags /\ i \in InCq(qq, tt) /\ j \in InCq(qq, tt)
    BY <1>2, <1>7 DEF PlaceInv, InCq
  <2> HIDE DEF qq, tt
  <2>2. One(InCq(qq, tt))
    BY <2>1 DEF PlaceInv, Placed
  <2> QED
    BY <2>1, <2>2 DEF One
<1>8. f \in [CqSlots \ {cq.cq_head} -> T \ {p}]
  BY <1>6
<1>9. IsFiniteSet(T) /\ Cardinality(T) = nr_sq * NrTags
  <2>1. IsFiniteSet(Tags) /\ Cardinality(Tags) = NrTags
    <3>1. NrTags \in Nat /\ 1 \in Int /\ NrTags > 0
      BY Sizes
    <3>2. IsFiniteSet(1 .. NrTags) /\ Cardinality(1 .. NrTags) = IF 1 > NrTags THEN 0 ELSE NrTags - 1 + 1
      BY <3>1, FS_Interval
    <3> QED
      BY <3>1, <3>2 DEF Tags
  <2>2. IsFiniteSet(Sqs) /\ Cardinality(Sqs) = nr_sq
    <3>1. nr_sq \in Nat /\ 1 \in Int /\ nr_sq > 0
      BY Sizes
    <3>2. IsFiniteSet(1 .. nr_sq) /\ Cardinality(1 .. nr_sq) = IF 1 > nr_sq THEN 0 ELSE nr_sq - 1 + 1
      BY <3>1, FS_Interval
    <3> QED
      BY <3>1, <3>2 DEF Sqs
  <2> QED
    BY <2>1, <2>2, FS_Product
<1> HIDE DEF f, T, p
<1>10. cq_size <= Cardinality(T)
  <2>1. cq_size \in Nat /\ CqSlots = 0 .. cq_size - 1
    BY Sizes
  <2>2. /\ cq.cq_head \in 0 .. cq_size - 1 /\ f \in [(0 .. cq_size - 1) \ {cq.cq_head} -> T \ {p}]
        /\ \A i, j \in (0 .. cq_size - 1) \ {cq.cq_head} : f[i] = f[j] => i = j
    BY <1>1, <1>7, <1>8, <2>1
  <2> QED
    BY <1>4, <1>9, <2>1, <2>2, Crowd
<1> QED
  BY <1>9, <1>10, Sizes

-----------------------------------------------------------------------------
(* Four actions move a command id from one place to the next.  All others   *)
(* are quiet: they leave the places, the phases and the histories alone.    *)

Quiet ==
  /\ sq' = sq /\ host'.busy = host.busy
  /\ \A q \in Sqs : Front(q)' = Front(q) /\ dbs'.sq[q] = dbs.sq[q]
  /\ NotPosted' = NotPosted
  /\ PostHead' = PostHead /\ PostPhase' = PostPhase
  /\ host'.head = host.head /\ host'.phase = host.phase
  /\ \A i \in CqSlots \ {PostHead} : cq'.entry[i] = cq.entry[i]
  /\ \A i \in CqSlots : cq'.entry[i].phase = cq.entry[i].phase
  /\ dispatched' = dispatched /\ received' = received

LEMMA QuietSteps ==
  ASSUME OneWorker, TypeOK, FillerInv, TypeOK', FillerInv', [Next]_vars
  PROVE  \/ \E q \in Sqs, tag \in Tags : HostSubmit(q, tag)
         \/ HostConsume \/ SqAccept \/ FillStatus(Filler)
         \/ Quiet
<1>v. /\ PostHead \in CqSlots /\ NotPosted = inflight \ (IF w[Filler].pc = "unlock" THEN {w[Filler].req} ELSE {})
      /\ PostHead' \in CqSlots /\ NotPosted' = inflight' \ (IF w'[Filler].pc = "unlock" THEN {w'[Filler].req} ELSE {})
  BY ViewsHold, ViewsHoldNext DEF Views
<1>a. ASSUME UNCHANGED <<d, old_dbs>>, dbs'.sq = dbs.sq
      PROVE  \A q \in Sqs : Front(q)' = Front(q) /\ dbs'.sq[q] = dbs.sq[q]
  BY <1>a DEF Front
<1>c. ASSUME UNCHANGED <<inflight, cq, w>>
      PROVE  /\ NotPosted' = NotPosted
             /\ PostHead' = PostHead /\ PostPhase' = PostPhase
             /\ \A i \in CqSlots \ {PostHead} : cq'.entry[i] = cq.entry[i]
             /\ \A i \in CqSlots : cq'.entry[i].phase = cq.entry[i].phase
  BY <1>c, <1>v DEF PostHead, PostPhase
<1>1. ASSUME HostPoll \/ HostInterrupt PROVE Quiet
  <2>1. /\ UNCHANGED <<sq, dbs, dispatchVars, deviceVars, received>>
        /\ host'.busy = host.busy /\ host'.head = host.head /\ host'.phase = host.phase
    BY <1>1, ZenonT(30) DEF HostPoll, HostInterrupt, TypeOK
  <2> QED
    BY <2>1, <1>a, <1>c DEF Quiet, dispatchVars, deviceVars
<1>2. ASSUME HostDone PROVE Quiet
  <2>1. /\ UNCHANGED <<sq, dispatchVars, deviceVars, received>> /\ dbs'.sq = dbs.sq
        /\ host'.busy = host.busy /\ host'.head = host.head /\ host'.phase = host.phase
    BY <1>2 DEF HostDone, TypeOK, Doorbells
  <2> QED
    BY <2>1, <1>a, <1>c DEF Quiet, dispatchVars, deviceVars
<1>3. ASSUME SqPoll \/ SqStop \/ CqPoll \/ CqAck \/ CqAckEnd PROVE Quiet
  <2>1. UNCHANGED <<sq, dbs, dispatched, deviceVars, host, received>>
    BY <1>3 DEF SqPoll, SqStop, CqPoll, CqAck, CqAckEnd
  <2>p. AfterSq.at # "sq_loop" /\ Polling("sq", 1).at # "sq_loop"
    BY DEF AfterSq, Polling
  <2>q. d.qid \in Sqs /\ d \in [at : {"sq", "sq_loop", "cq", "cq_loop"}, qid : Sqs, new_db : Nat, pos : Nat]
        /\ old_dbs \in Doorbells
    BY DEF TypeOK
  <2>2. ASSUME SqPoll, NEW q \in Sqs PROVE Front(q)' = Front(q)
    BY <2>2, <2>p, <2>q DEF SqPoll, Front
  <2>3. ASSUME SqStop, NEW q \in Sqs PROVE Front(q)' = Front(q)
    BY <2>3, <2>p, <2>q DEF SqStop, Front, Doorbells
  <2>4. ASSUME CqPoll \/ CqAck, NEW q \in Sqs PROVE Front(q)' = Front(q)
    <3>1. old_dbs' = old_dbs /\ d.at # "sq_loop" /\ d'.at # "sq_loop"
      BY <2>4, <2>q DEF CqPoll, CqAck
    <3> QED
      BY <3>1 DEF Front
  <2>5. ASSUME CqAckEnd, NEW q \in Sqs PROVE Front(q)' = Front(q)
    BY <2>5, <2>p, <2>q DEF CqAckEnd, Front, Doorbells
  <2>6. \A q \in Sqs : Front(q)' = Front(q) /\ dbs'.sq[q] = dbs.sq[q]
    BY <1>3, <2>1, <2>2, <2>3, <2>4, <2>5
  <2> QED
    BY <2>1, <2>6, <1>c DEF Quiet, deviceVars
<1>4. ASSUME NEW i \in Workers, Worker(i), ~FillStatus(i) PROVE Quiet
  <2>o. UNCHANGED <<sq, dbs, old_dbs, d, nr_in_flight, dispatched, received>>
        /\ host'.busy = host.busy /\ host'.head = host.head /\ host'.phase = host.phase
    BY <1>4 DEF Worker, FillBegin, FillIds, FillStatus, FillEnd, IrqTry, IrqClear, IrqSignal,
                others, dispatchVars, TypeOK
  <2>q. /\ NotPosted' = NotPosted /\ PostHead' = PostHead /\ PostPhase' = PostPhase
        /\ \A j \in CqSlots \ {PostHead} : cq'.entry[j] = cq.entry[j]
        /\ \A j \in CqSlots : cq'.entry[j].phase = cq.entry[j].phase
        => Quiet
    BY <2>o, <1>a DEF Quiet
  <2>t. /\ w \in [Workers -> [pc : Pcs, req : Request \cup {NoRequest}, cq_head : CqSlots]]
        /\ cq \in [entry : [CqSlots -> CqEntry], cq_head : CqSlots, phase : {0, 1},
                   interrupt_ready : BOOLEAN,
                   entry_lock : Workers \cup {NoOne}, irq_lock : Workers \cup {NoOne}]
        /\ Filler \in Workers /\ cq_size \in Nat /\ CqSlots = 0 .. cq_size - 1
    BY Sizes DEF TypeOK
  <2>f. \A j \in Workers : w[j].pc # "walk" => j = Filler
    BY DEF FillerInv
  <2>1. ASSUME NEW r \in inflight, FillBegin(i, r) PROVE Quiet
    <3>1. UNCHANGED <<cq, inflight>> /\ w[i].pc = "walk" /\ i = Filler
      BY <2>1 DEF FillBegin, TypeOK, Request
    <3>2. w'[Filler].pc = "lock"
      BY <2>1, <2>t, <3>1 DEF FillBegin
    <3> QED
      BY <1>v, <2>q, <3>1, <3>2 DEF PostHead, PostPhase
  <2>2. ASSUME FillIds(i) PROVE Quiet
    <3>1. inflight' = inflight /\ w[i].pc = "lock" /\ i = Filler /\ w[i].cq_head = cq.cq_head
      BY <2>2, Hand DEF FillIds
    <3>2. w'[Filler].pc = "status"
      BY <2>2, <2>t, <3>1 DEF FillIds
    <3>3. cq'.cq_head = cq.cq_head /\ cq'.phase = cq.phase
      BY <2>2, <2>t DEF FillIds
    <3>4. PostHead = cq.cq_head
      BY <3>1 DEF PostHead
    <3>5. ASSUME NEW j \in CqSlots
          PROVE  /\ j # PostHead => cq'.entry[j] = cq.entry[j]
                 /\ cq'.entry[j].phase = cq.entry[j].phase
      <4> DEFINE c == w[i].cq_head
                 x == [cq EXCEPT !.entry_lock = i]
                 y == [x EXCEPT !.entry[c].command_id = w[i].req.command_id]
                 z == [y EXCEPT !.entry[c].sq_id = w[i].req.sqid]
      <4>1. cq' = z
        BY <2>2 DEF FillIds
      <4>2. x.entry = cq.entry /\ c = PostHead
        BY <2>t, <3>1, <3>4
      <4>3. x.entry \in [CqSlots -> CqEntry]
        BY <2>t, <4>2
      <4> HIDE DEF x, c
      <4>4. y.entry \in [CqSlots -> CqEntry] /\ (j # c => y.entry[j] = x.entry[j])
            /\ y.entry[j].phase = x.entry[j].phase
        <5> DEFINE m == w[i].req.command_id
        <5>1. y.entry = [x.entry EXCEPT ![c].command_id = m]
          BY <2>t DEF x
        <5>2. m \in Tags
          BY <2>2, Hand DEF FillIds, Request
        <5>3. c \in CqSlots
          BY <1>v, <4>2
        <5> HIDE DEF m, y
        <5>4. x.entry[c] \in CqEntry /\ x.entry[j] \in CqEntry
          BY <4>3, <5>3
        <5>5. [x.entry[c] EXCEPT !.command_id = m] \in CqEntry
              /\ [x.entry[c] EXCEPT !.command_id = m].phase = x.entry[c].phase
          BY <5>2, <5>4 DEF CqEntry
        <5> QED
          BY <4>3, <5>1, <5>3, <5>4, <5>5
      <4>5. z.entry = [y.entry EXCEPT ![c].sq_id = w[i].req.sqid]
        BY <2>t DEF x
      <4> HIDE DEF y, z
      <4>6. (j # c => z.entry[j] = y.entry[j]) /\ z.entry[j].phase = y.entry[j].phase
        BY <4>4, <4>5 DEF CqEntry
      <4> QED
        BY <4>1, <4>2, <4>4, <4>6
    <3> QED
      BY <1>v, <2>q, <3>1, <3>2, <3>3, <3>5 DEF PostHead, PostPhase
  <2>3. ASSUME FillEnd(i) PROVE Quiet
    <3>1. w[i].pc = "unlock" /\ i = Filler /\ w[i].cq_head = cq.cq_head /\ cq.cq_head \in CqSlots
      BY <2>3, Hand DEF FillEnd
    <3>2. w'[Filler].pc = "walk"
      BY <2>3, <2>t, <3>1 DEF FillEnd, Walking
    <3>3. /\ cq'.cq_head = Up(cq.cq_head, cq_size) /\ cq'.entry = cq.entry
          /\ cq'.phase = IF cq.cq_head + 1 = cq_size THEN 1 - cq.phase ELSE cq.phase
      BY <2>3, <2>t, <3>1 DEF FillEnd, Up
    <3>4. inflight' = inflight \ {w[Filler].req}
      BY <2>3, <3>1 DEF FillEnd
    <3> QED
      BY <1>v, <2>q, <3>1, <3>2, <3>3, <3>4 DEF PostHead, PostPhase
  <2>4. ASSUME IrqTry(i) \/ IrqClear(i) \/ IrqSignal(i) PROVE Quiet
    <3>1. /\ i = Filler /\ w[i].pc # "unlock" /\ inflight' = inflight
          /\ cq'.cq_head = cq.cq_head /\ cq'.phase = cq.phase /\ cq'.entry = cq.entry
      BY <2>4, <2>t, <2>f DEF IrqTry, IrqClear, IrqSignal, Filler
    <3>2. w'[Filler].pc # "unlock"
      BY <2>4, <2>t, <3>1 DEF IrqTry, IrqClear, IrqSignal
    <3> QED
      BY <1>v, <2>q, <3>1, <3>2 DEF PostHead, PostPhase
  <2> QED
    BY <1>4, <2>1, <2>2, <2>3, <2>4 DEF Worker
<1>5. ASSUME NEW i \in Workers, FillStatus(i) PROVE FillStatus(Filler)
  BY <1>5, Hand DEF FillStatus
<1>6. ASSUME UNCHANGED vars PROVE Quiet
  BY <1>6, <1>a, <1>c DEF Quiet, vars
<1> QED
  BY <1>1, <1>2, <1>3, <1>4, <1>5, <1>6 DEF Next, Host, Dispatcher

(* What the four moves do to the places.                                    *)
LEMMA SubmitMoves ==
  ASSUME TypeOK, FillerInv, TypeOK', FillerInv',
         NEW q \in Sqs, NEW tag \in Tags, HostSubmit(q, tag)
  PROVE  /\ tag \notin host.busy[q]
         /\ sq' = [sq EXCEPT ![q][dbs.sq[q]] = tag]
         /\ host'.busy = [host.busy EXCEPT ![q] = @ \cup {tag}]
         /\ dbs'.sq[q] = Up(dbs.sq[q], sq_size)
         /\ \A x \in Sqs : Front(x)' = Front(x) /\ (x # q => dbs'.sq[x] = dbs.sq[x])
         /\ NotPosted' = NotPosted /\ PostHead' = PostHead /\ PostPhase' = PostPhase
         /\ dbs'.cq = dbs.cq /\ host'.head = host.head /\ host'.phase = host.phase
         /\ host'.handling = host.handling /\ host'.irq = host.irq
         /\ UNCHANGED <<d, old_dbs, cq, w, inflight, nr_in_flight, dispatched, received>>
<1>1. UNCHANGED <<d, old_dbs, cq, w, inflight, nr_in_flight, dispatched, received>>
  BY DEF HostSubmit, dispatchVars, deviceVars
<1>2. /\ tag \notin host.busy[q]
      /\ sq' = [sq EXCEPT ![q][dbs.sq[q]] = tag]
      /\ host'.busy = [host.busy EXCEPT ![q] = @ \cup {tag}]
      /\ host'.head = host.head /\ host'.phase = host.phase
      /\ host'.handling = host.handling /\ host'.irq = host.irq
  BY DEF HostSubmit, TypeOK
<1>3. dbs'.sq = [dbs.sq EXCEPT ![q] = (dbs.sq[q] + 1) % sq_size] /\ dbs'.cq = dbs.cq
  BY DEF HostSubmit, TypeOK, Doorbells
<1>4. dbs.sq \in [Sqs -> SqSlots]
  BY DEF TypeOK, Doorbells
<1>5. (dbs.sq[q] + 1) % sq_size = Up(dbs.sq[q], sq_size)
  BY <1>4, SqUp
<1>6. NotPosted' = NotPosted /\ PostHead' = PostHead /\ PostPhase' = PostPhase
  BY <1>1, ViewsHold, ViewsHoldNext DEF Views, PostHead, PostPhase
<1>7. \A x \in Sqs : Front(x)' = Front(x)
  BY <1>1 DEF Front
<1> QED
  BY <1>1, <1>2, <1>3, <1>4, <1>5, <1>6, <1>7

LEMMA ConsumeMoves ==
  ASSUME TypeOK, FillerInv, TypeOK', FillerInv', HostConsume
  PROVE  /\ HostSeesEntry /\ host.handling /\ host'.handling = host.handling /\ host'.irq = host.irq
         /\ host'.head = Up(host.head, cq_size)
         /\ host'.phase = IF host.head + 1 = cq_size THEN 1 - host.phase ELSE host.phase
         /\ host'.busy = [host.busy EXCEPT ![cq.entry[host.head].sq_id] =
                                             @ \ {cq.entry[host.head].command_id}]
         /\ received' = received + 1
         /\ \A x \in Sqs : Front(x)' = Front(x)
         /\ NotPosted' = NotPosted /\ PostHead' = PostHead /\ PostPhase' = PostPhase
         /\ UNCHANGED <<sq, dbs, d, old_dbs, cq, w, inflight, nr_in_flight, dispatched>>
<1>1. UNCHANGED <<sq, dbs, d, old_dbs, cq, w, inflight, nr_in_flight, dispatched>>
  BY DEF HostConsume, dispatchVars, deviceVars
<1>2. NotPosted' = NotPosted /\ PostHead' = PostHead /\ PostPhase' = PostPhase
  BY <1>1, ViewsHold, ViewsHoldNext DEF Views, PostHead, PostPhase
<1>3. \A x \in Sqs : Front(x)' = Front(x)
  BY <1>1 DEF Front
<1>4. /\ HostSeesEntry /\ host.handling /\ host'.handling = host.handling /\ host'.irq = host.irq
      /\ host'.head = Up(host.head, cq_size)
      /\ host'.phase = IF host.head + 1 = cq_size THEN 1 - host.phase ELSE host.phase
      /\ host'.busy = [host.busy EXCEPT ![cq.entry[host.head].sq_id] =
                                          @ \ {cq.entry[host.head].command_id}]
      /\ received' = received + 1
  BY DEF HostConsume, TypeOK, Up
<1> QED
  BY <1>1, <1>2, <1>3, <1>4

Accepted == [sqid |-> d.qid, command_id |-> sq[d.qid][d.pos],
             worker |-> __get_io_worker(d.qid), id |-> dispatched + 1]

LEMMA AcceptMoves ==
  ASSUME TypeOK, FillerInv, TypeOK', FillerInv', LoopInv, SqAccept
  PROVE  /\ d.at = "sq_loop" /\ d.qid \in Sqs /\ d.pos # d.new_db
         /\ d' = [d EXCEPT !.pos = Up(d.pos, sq_size)]
         /\ Front(d.qid) = d.pos /\ Front(d.qid)' = Up(d.pos, sq_size)
         /\ d.pos \in Waiting(d.qid)
         /\ \A x \in Sqs \ {d.qid} : Front(x)' = Front(x)
         /\ Accepted \notin NotPosted /\ NotPosted' = NotPosted \cup {Accepted}
         /\ PostHead' = PostHead /\ PostPhase' = PostPhase
         /\ dispatched' = dispatched + 1
         /\ nr_in_flight' = [nr_in_flight EXCEPT ![d.qid] = @ + 1]
         /\ UNCHANGED <<sq, dbs, old_dbs, cq, w, host, received>>
<1>1. /\ UNCHANGED <<sq, dbs, old_dbs, cq, w, host, received>> /\ dispatched' = dispatched + 1
      /\ nr_in_flight' = [nr_in_flight EXCEPT ![d.qid] = @ + 1]
      /\ inflight' = inflight \cup {Accepted} /\ d.at = "sq_loop" /\ d.pos # d.new_db
      /\ d' = [d EXCEPT !.pos = (d.pos + 1) % sq_size]
  BY DEF SqAccept, Accepted
<1>2. d.qid \in Sqs /\ d.pos \in SqSlots /\ d.new_db \in SqSlots
      /\ d \in [at : {"sq", "sq_loop", "cq", "cq_loop"}, qid : Sqs, new_db : Nat, pos : Nat]
  BY <1>1 DEF TypeOK
<1>3. (d.pos + 1) % sq_size = Up(d.pos, sq_size)
  BY <1>2, SqUp
<1>4. d' = [d EXCEPT !.pos = Up(d.pos, sq_size)]
  BY <1>1, <1>3
<1>5. /\ Front(d.qid) = d.pos /\ Front(d.qid)' = Up(d.pos, sq_size)
      /\ \A x \in Sqs \ {d.qid} : Front(x)' = Front(x)
  BY <1>1, <1>2, <1>4 DEF Front
<1>6. d.pos \in Waiting(d.qid)
  <2>1. d.pos \in Between(d.pos, d.new_db, sq_size)
    BY <1>1, <1>2, SqRing
  <2> QED
    BY <1>1, <2>1 DEF LoopInv
<1>7. Accepted \notin inflight
  <2>1. Accepted.id = dispatched + 1 /\ dispatched \in Nat /\ \A r \in inflight : r.id <= dispatched
    BY DEF Accepted, TypeOK, FillerInv
  <2> QED
    BY <2>1
<1>8. w[Filler].pc = "unlock" => w[Filler].req \in inflight
  BY DEF FillerInv
<1>9. Accepted \notin NotPosted /\ NotPosted' = NotPosted \cup {Accepted}
      /\ PostHead' = PostHead /\ PostPhase' = PostPhase
  BY <1>1, <1>7, <1>8, ViewsHold, ViewsHoldNext DEF Views, PostHead, PostPhase
<1> QED
  BY <1>1, <1>2, <1>4, <1>5, <1>6, <1>9

LEMMA StatusMoves ==
  ASSUME TypeOK, FillerInv, TypeOK', FillerInv', FillStatus(Filler)
  PROVE  /\ w[Filler].pc = "status" /\ w'[Filler].pc = "unlock"
         /\ PostHead = cq.cq_head /\ PostHead' = Up(PostHead, cq_size) /\ PostPhase = cq.phase
         /\ PostPhase' = IF PostHead + 1 = cq_size THEN 1 - PostPhase ELSE PostPhase
         /\ \A i \in CqSlots : /\ i # PostHead => cq'.entry[i] = cq.entry[i]
                               /\ cq'.entry[i].sq_id = cq.entry[i].sq_id
                               /\ cq'.entry[i].command_id = cq.entry[i].command_id
         /\ cq'.entry[PostHead].phase = PostPhase
         /\ cq.entry[PostHead].sq_id = w[Filler].req.sqid
         /\ cq.entry[PostHead].command_id = w[Filler].req.command_id
         /\ w[Filler].req \in NotPosted /\ NotPosted' = NotPosted \ {w[Filler].req}
         /\ w[Filler].req.sqid \in Sqs /\ w[Filler].req.command_id \in Tags
         /\ \A x \in Sqs : Front(x)' = Front(x)
         /\ UNCHANGED <<sq, dbs, d, old_dbs, host, nr_in_flight, dispatched, received>>
<1>1. UNCHANGED <<sq, dbs, d, old_dbs, host, inflight, nr_in_flight, dispatched, received>>
  BY DEF FillStatus, others, dispatchVars
<1>2. /\ w[Filler].pc = "status" /\ w[Filler].req \in inflight /\ w[Filler].req \in Request
      /\ w[Filler].cq_head = cq.cq_head /\ cq.cq_head \in CqSlots
      /\ cq.entry[cq.cq_head].sq_id = w[Filler].req.sqid
      /\ cq.entry[cq.cq_head].command_id = w[Filler].req.command_id
  BY DEF FillStatus, TypeOK, FillerInv
<1>3. w'[Filler].pc = "unlock" /\ w'[Filler].req = w[Filler].req
  BY Sizes DEF FillStatus, TypeOK
<1>4. cq' = [cq EXCEPT !.entry[cq.cq_head].phase = cq.phase]
  BY <1>2 DEF FillStatus
<1>5. /\ cq'.cq_head = cq.cq_head /\ cq'.phase = cq.phase
      /\ cq'.entry = [cq.entry EXCEPT ![cq.cq_head].phase = cq.phase]
      /\ cq.entry \in [CqSlots -> CqEntry]
  BY <1>4 DEF TypeOK
<1>6. /\ PostHead = cq.cq_head /\ PostHead' = Up(PostHead, cq_size) /\ PostPhase = cq.phase
      /\ PostPhase' = IF PostHead + 1 = cq_size THEN 1 - PostPhase ELSE PostPhase
  BY <1>2, <1>3, <1>5 DEF PostHead, PostPhase
<1>7. ASSUME NEW i \in CqSlots
      PROVE  /\ i # PostHead => cq'.entry[i] = cq.entry[i]
             /\ cq'.entry[i].sq_id = cq.entry[i].sq_id
             /\ cq'.entry[i].command_id = cq.entry[i].command_id
  <2>1. cq.entry[i] \in CqEntry
    BY <1>5
  <2> QED
    BY <1>5, <1>6, <2>1 DEF CqEntry
<1>8. cq'.entry[PostHead].phase = PostPhase
  <2>1. cq.entry[PostHead] \in CqEntry /\ PostHead \in CqSlots
    BY <1>2, <1>5, <1>6
  <2> QED
    BY <1>5, <1>6, <2>1 DEF CqEntry
<1>9. w[Filler].req \in NotPosted /\ NotPosted' = NotPosted \ {w[Filler].req}
  BY <1>1, <1>2, <1>3, ViewsHold, ViewsHoldNext DEF Views
<1>10. \A x \in Sqs : Front(x)' = Front(x)
  BY <1>1 DEF Front
<1>11. w[Filler].req.sqid \in Sqs /\ w[Filler].req.command_id \in Tags
  BY <1>2 DEF Request
<1> QED
  BY <1>1, <1>2, <1>3, <1>6, <1>7, <1>8, <1>9, <1>10, <1>11

-----------------------------------------------------------------------------
(* The phase bit.                                                           *)

(* The host takes the entry at its head for new when one was posted there.  *)
LEMMA Tells ==
  ASSUME TypeOK, FillerInv, PhaseInv
  PROVE  (HostSeesEntry <=> host.head # PostHead) /\ (HostSeesEntry <=> Unread # {})
<1>1. PostHead \in CqSlots /\ host.head \in CqSlots /\ CqSlots = 0 .. cq_size - 1
      /\ cq_size \in Nat /\ Unread = Between(host.head, PostHead, cq_size)
  BY ViewsHold, Sizes DEF Views, TypeOK
<1>2. PostPhase \in {0, 1}
  BY DEF PostPhase, TypeOK
<1>3. /\ cq.entry[host.head].phase = IF host.head < PostHead THEN PostPhase ELSE 1 - PostPhase
      /\ host.phase = IF host.head <= PostHead THEN PostPhase ELSE 1 - PostPhase
  BY <1>1 DEF PhaseInv
<1>4. HostSeesEntry <=> host.head # PostHead
  BY <1>1, <1>2, <1>3 DEF HostSeesEntry
<1>5. Unread = {} <=> host.head = PostHead
  BY <1>1, CqRing
<1> QED
  BY <1>4, <1>5

LEMMA PhaseStep ==
  ASSUME OneWorker, TypeOK, FillerInv, PlaceInv, LoopInv, PhaseInv, TypeOK', FillerInv', [Next]_vars
  PROVE  PhaseInv'
<1>1. PostHead \in CqSlots /\ host.head \in CqSlots /\ CqSlots = 0 .. cq_size - 1 /\ cq_size \in Nat
      /\ cq_size > 1
  BY ViewsHold, Sizes DEF Views, TypeOK
<1>2. PostPhase \in {0, 1}
  BY DEF PostPhase, TypeOK
<1>3. /\ \A i \in CqSlots : cq.entry[i].phase = IF i < PostHead THEN PostPhase ELSE 1 - PostPhase
      /\ host.phase = IF host.head <= PostHead THEN PostPhase ELSE 1 - PostPhase
  BY DEF PhaseInv
<1>4. CASE Quiet
  BY <1>3, <1>4 DEF Quiet, PhaseInv
<1>5. ASSUME NEW q \in Sqs, NEW tag \in Tags, HostSubmit(q, tag) PROVE PhaseInv'
  <2>1. PostHead' = PostHead /\ PostPhase' = PostPhase /\ cq' = cq /\ host'.head = host.head
        /\ host'.phase = host.phase
    BY <1>5, SubmitMoves
  <2> QED
    BY <1>3, <2>1 DEF PhaseInv
<1>6. CASE SqAccept
  <2>1. PostHead' = PostHead /\ PostPhase' = PostPhase /\ cq' = cq /\ host' = host
    BY <1>6, AcceptMoves
  <2> QED
    BY <1>3, <2>1 DEF PhaseInv
<1>7. CASE HostConsume
  <2>1. /\ PostHead' = PostHead /\ PostPhase' = PostPhase /\ cq' = cq /\ HostSeesEntry
        /\ host'.head = Up(host.head, cq_size)
        /\ host'.phase = IF host.head + 1 = cq_size THEN 1 - host.phase ELSE host.phase
    BY <1>7, ConsumeMoves
  <2>2. host.head # PostHead
    BY <2>1, Tells
  <2> DEFINE hd == host.head
             up == host'.head
             hp == host.phase
             up_p == host'.phase
  <2>3. up_p = IF up <= PostHead THEN PostPhase ELSE 1 - PostPhase
    <3>1. /\ up = (IF hd + 1 = cq_size THEN 0 ELSE hd + 1)
          /\ up_p = (IF hd + 1 = cq_size THEN 1 - hp ELSE hp)
          /\ hp = (IF hd <= PostHead THEN PostPhase ELSE 1 - PostPhase)
          /\ hd # PostHead /\ hd \in 0 .. cq_size - 1 /\ PostHead \in 0 .. cq_size - 1
      BY <1>1, <1>3, <2>1, <2>2 DEF Up
    <3> HIDE DEF hd, up, hp, up_p
    <3> QED
      BY <1>1, <1>2, <3>1
  <2> QED
    BY <1>3, <2>1, <2>3 DEF PhaseInv
<1>8. CASE FillStatus(Filler)
  <2>1. /\ w[Filler].pc = "status" /\ PostHead = cq.cq_head /\ PostHead' = Up(PostHead, cq_size)
        /\ PostPhase' = IF PostHead + 1 = cq_size THEN 1 - PostPhase ELSE PostPhase
        /\ \A i \in CqSlots : i # PostHead => cq'.entry[i] = cq.entry[i]
        /\ cq'.entry[PostHead].phase = PostPhase
        /\ host' = host
    BY <1>8, StatusMoves
  <2>2. Up(PostHead, cq_size) # host.head
    BY <2>1, CqRoom
  <2> DEFINE ph == PostHead
             up == PostHead'
             pp == PostPhase
             up_p == PostPhase'
             hd == host.head
  <2>3. /\ up = (IF ph + 1 = cq_size THEN 0 ELSE ph + 1)
        /\ up_p = (IF ph + 1 = cq_size THEN 1 - pp ELSE pp)
        /\ hd # up /\ ph \in 0 .. cq_size - 1 /\ hd \in 0 .. cq_size - 1 /\ pp \in {0, 1}
    BY <1>1, <1>2, <2>1, <2>2 DEF Up
  <2>4. host.phase = IF hd <= up THEN up_p ELSE 1 - up_p
    <3>1. host.phase = IF hd <= ph THEN pp ELSE 1 - pp
      BY <1>3
    <3> HIDE DEF ph, up, pp, up_p, hd
    <3> QED
      BY <1>1, <2>3, <3>1
  <2>5. ASSUME NEW i \in CqSlots PROVE cq'.entry[i].phase = IF i < up THEN up_p ELSE 1 - up_p
    <3>1. cq'.entry[i].phase = IF i <= ph THEN pp ELSE 1 - pp
      <4>1. CASE i = ph
        BY <2>1, <2>3, <4>1
      <4>2. CASE i # ph
        <5>1. cq'.entry[i].phase = IF i < ph THEN pp ELSE 1 - pp
          BY <1>3, <2>1, <4>2
        <5> HIDE DEF ph, pp
        <5> QED
          BY <1>1, <2>3, <4>2, <5>1
      <4> QED
        BY <4>1, <4>2
    <3>2. i \in 0 .. cq_size - 1
      BY <1>1
    <3> HIDE DEF ph, up, pp, up_p, hd
    <3> QED
      BY <1>1, <2>3, <3>1, <3>2
  <2> QED
    BY <2>1, <2>4, <2>5 DEF PhaseInv
<1> QED
  BY <1>4, <1>5, <1>6, <1>7, <1>8, QuietSteps

-----------------------------------------------------------------------------
(* The dispatcher's loop, and the interrupt.                                *)

LEMMA LoopStep ==
  ASSUME OneWorker, TypeOK, FillerInv, PlaceInv, LoopInv, TypeOK', FillerInv', [Next]_vars
  PROVE  LoopInv'
<1>v. /\ \A q \in Sqs : /\ Front(q) \in SqSlots /\ dbs.sq[q] \in SqSlots
                        /\ Waiting(q) = Between(Front(q), dbs.sq[q], sq_size)
      /\ \A q \in Sqs : Waiting(q)' = Between(Front(q)', dbs'.sq[q], sq_size)
  BY ViewsHold, ViewsHoldNext DEF Views
<1>t. d.qid \in Sqs /\ d \in [at : {"sq", "sq_loop", "cq", "cq_loop"}, qid : Sqs, new_db : Nat, pos : Nat]
      /\ (d.at = "sq_loop" => d.pos \in SqSlots /\ d.new_db \in SqSlots)
  BY DEF TypeOK
<1>p. AfterSq.at # "sq_loop" /\ Polling("sq", 1).at # "sq_loop"
  BY DEF AfterSq, Polling
<1>1. ASSUME SqPoll PROVE LoopInv'
  <2>1. CASE dbs.sq[d.qid] = old_dbs.sq[d.qid]
    BY <1>1, <1>p, <2>1 DEF SqPoll, LoopInv
  <2>2. CASE dbs.sq[d.qid] # old_dbs.sq[d.qid]
    <3>1. /\ d'.at = "sq_loop" /\ d'.qid = d.qid /\ d'.new_db = dbs.sq[d.qid]
          /\ d'.pos = old_dbs.sq[d.qid] /\ dbs' = dbs
      BY <1>1, <1>t, <2>2 DEF SqPoll
    <3>2. Front(d.qid)' = d'.pos
      BY <3>1 DEF Front
    <3>3. Waiting(d.qid)' = Between(d'.pos, d'.new_db, sq_size)
      BY <1>v, <1>t, <3>1, <3>2
    <3> QED
      BY <3>1, <3>3 DEF LoopInv, Waiting
  <2> QED
    BY <2>1, <2>2
<1>2. ASSUME SqAccept PROVE LoopInv'
  <2>1. /\ d.at = "sq_loop" /\ d.pos # d.new_db
        /\ d' = [d EXCEPT !.pos = Up(d.pos, sq_size)]
        /\ Front(d.qid) = d.pos /\ Front(d.qid)' = Up(d.pos, sq_size)
        /\ d.pos \in Waiting(d.qid) /\ dbs' = dbs
    BY <1>2, AcceptMoves
  <2>2. d.pos # dbs.sq[d.qid]
    BY <1>v, <1>t, <2>1, SqRing
  <2>3. Between(Up(d.pos, sq_size), d.new_db, sq_size) = Between(d.pos, d.new_db, sq_size) \ {d.pos}
    BY <1>t, <2>1, SqRing
  <2>4. Between(Up(d.pos, sq_size), dbs.sq[d.qid], sq_size) = Waiting(d.qid) \ {d.pos}
    <3>1. d.pos \in SqSlots /\ dbs.sq[d.qid] \in SqSlots
          /\ Waiting(d.qid) = Between(d.pos, dbs.sq[d.qid], sq_size)
      BY <1>v, <1>t, <2>1
    <3> QED
      BY <2>2, <3>1, SqRing
  <2>5. Waiting(d.qid)' = Waiting(d.qid) \ {d.pos}
    BY <1>v, <1>t, <2>1, <2>4
  <2>6. d'.qid = d.qid /\ d'.pos = Up(d.pos, sq_size) /\ d'.new_db = d.new_db
    BY <1>t, <2>1
  <2> QED
    BY <2>1, <2>3, <2>5, <2>6 DEF LoopInv, Waiting
<1>3. ASSUME SqStop \/ CqPoll \/ CqAck \/ CqAckEnd PROVE LoopInv'
  <2>1. d'.at # "sq_loop"
    BY <1>3, <1>p, <1>t DEF SqStop, CqPoll, CqAck, CqAckEnd
  <2> QED
    BY <2>1 DEF LoopInv
<1>4. ASSUME NEW q \in Sqs, NEW tag \in Tags, HostSubmit(q, tag) PROVE LoopInv'
  <2>1. /\ d' = d /\ tag \notin host.busy[q] /\ Front(d.qid)' = Front(d.qid)
        /\ dbs'.sq[q] = Up(dbs.sq[q], sq_size)
        /\ (d.qid # q => dbs'.sq[d.qid] = dbs.sq[d.qid])
    BY <1>4, <1>t, SubmitMoves
  <2>2. Waiting(d.qid) \subseteq Waiting(d.qid)'
    <3>1. CASE d.qid = q
      <4>1. Up(dbs.sq[q], sq_size) # Front(q)
        BY <2>1, SqRoom
      <4>2. Between(Front(q), Up(dbs.sq[q], sq_size), sq_size)
              = Between(Front(q), dbs.sq[q], sq_size) \cup {dbs.sq[q]}
        BY <1>v, <4>1, SqRing
      <4> QED
        BY <1>v, <2>1, <3>1, <4>2
    <3>2. CASE d.qid # q
      BY <1>v, <1>t, <2>1, <3>2
    <3> QED
      BY <3>1, <3>2
  <2> QED
    BY <2>1, <2>2 DEF LoopInv, Waiting
<1>5. ASSUME UNCHANGED <<d, old_dbs>>, dbs'.sq = dbs.sq PROVE LoopInv'
  BY <1>5 DEF LoopInv, Waiting
<1>6. ASSUME HostPoll \/ Host PROVE LoopInv'
  BY <1>5, <1>6 DEF HostPoll, Host, HostInterrupt, HostConsume, HostDone, dispatchVars,
                    TypeOK, Doorbells
<1>7. ASSUME NEW i \in Workers, Worker(i) PROVE LoopInv'
  BY <1>5, <1>7 DEF Worker, FillBegin, FillIds, FillStatus, FillEnd, IrqTry, IrqClear, IrqSignal,
                    others, dispatchVars
<1>8. ASSUME UNCHANGED vars PROVE LoopInv'
  BY <1>5, <1>8 DEF vars
<1> QED
  BY <1>1, <1>2, <1>3, <1>4, <1>6, <1>7, <1>8 DEF Next, Dispatcher

-----------------------------------------------------------------------------
(* A command id goes from the submission ring to a request to the           *)
(* completion ring and back to the host.                                    *)

(* A command id whose places and status do not change.                      *)
LEMMA PlacedStays ==
  ASSUME NEW x \in Sqs, NEW t \in Tags, Placed(x, t),
         (t \in host'.busy[x]) <=> (t \in host.busy[x]),
         InSq(x, t)' = InSq(x, t), InTable(x, t)' = InTable(x, t), InCq(x, t)' = InCq(x, t)
  PROVE  Placed(x, t)'
BY DEF Placed

LEMMA PlaceStep ==
  ASSUME OneWorker, TypeOK, FillerInv, PlaceInv, LoopInv, PhaseInv, TypeOK', FillerInv', [Next]_vars
  PROVE  PlaceInv'
<1>v. /\ \A q \in Sqs : /\ Front(q) \in SqSlots /\ dbs.sq[q] \in SqSlots
                        /\ Waiting(q) = Between(Front(q), dbs.sq[q], sq_size)
                        /\ Waiting(q)' = Between(Front(q)', dbs'.sq[q], sq_size)
      /\ Unread = Between(host.head, PostHead, cq_size) /\ Unread' = Between(host'.head, PostHead', cq_size)
      /\ host.head \in CqSlots /\ PostHead \in CqSlots
  BY ViewsHold, ViewsHoldNext DEF Views, TypeOK
<1>w. /\ \A q \in Sqs : Waiting(q) \subseteq SqSlots \ {dbs.sq[q]}
      /\ Unread \subseteq CqSlots \ {PostHead}
  <2>1. ASSUME NEW q \in Sqs PROVE Waiting(q) \subseteq SqSlots \ {dbs.sq[q]}
    BY <1>v, SqRing
  <2>2. Unread \subseteq CqSlots \ {PostHead}
    BY <1>v, CqRing
  <2> QED
    BY <2>1, <2>2
<1>p. /\ \A q \in Sqs : \A i \in Waiting(q) : sq[q][i] \in Tags
      /\ \A i \in Unread : cq.entry[i].sq_id \in Sqs /\ cq.entry[i].command_id \in Tags
      /\ \A q \in Sqs, t \in Tags : Placed(q, t)
  BY DEF PlaceInv
<1>b. host.busy \in [Sqs -> SUBSET Tags] /\ sq \in [Sqs -> [SqSlots -> Tags \cup {0}]]
  BY DEF TypeOK
(* Steps that leave one or the other kind of place alone.                   *)
<1>s. ASSUME sq' = sq, \A q \in Sqs : Front(q)' = Front(q) /\ dbs'.sq[q] = dbs.sq[q]
      PROVE  /\ \A q \in Sqs : \A i \in Waiting(q)' : sq'[q][i] \in Tags
             /\ \A q \in Sqs, t \in Tags : InSq(q, t)' = InSq(q, t)
  <2>1. \A q \in Sqs : Waiting(q)' = Waiting(q)
    BY <1>s, <1>v
  <2> QED
    BY <1>s, <1>p, <2>1 DEF InSq
<1>t. ASSUME NotPosted' = NotPosted PROVE \A q \in Sqs, t \in Tags : InTable(q, t)' = InTable(q, t)
  BY <1>t DEF InTable
<1>c. ASSUME \A i \in CqSlots \ {PostHead} : cq'.entry[i] = cq.entry[i],
             host'.head = host.head, PostHead' = PostHead
      PROVE  /\ \A i \in Unread' : cq'.entry[i].sq_id \in Sqs /\ cq'.entry[i].command_id \in Tags
             /\ \A q \in Sqs, t \in Tags : InCq(q, t)' = InCq(q, t)
  <2>1. Unread' = Unread /\ \A i \in Unread : cq'.entry[i] = cq.entry[i]
    BY <1>c, <1>v, <1>w
  <2> QED
    BY <1>p, <2>1 DEF InCq
<1>1. CASE Quiet
  <2>1. ASSUME NEW x \in Sqs, NEW t \in Tags PROVE Placed(x, t)'
    <3>1. /\ InSq(x, t)' = InSq(x, t) /\ InTable(x, t)' = InTable(x, t) /\ InCq(x, t)' = InCq(x, t)
          /\ host'.busy = host.busy
      BY <1>1, <1>s, <1>t, <1>c DEF Quiet
    <3> QED
      BY <1>p, <3>1, PlacedStays
  <2> QED
    BY <1>1, <1>s, <1>c, <2>1 DEF Quiet, PlaceInv
<1>2. ASSUME NEW q \in Sqs, NEW tag \in Tags, HostSubmit(q, tag) PROVE PlaceInv'
  <2> DEFINE tail == dbs.sq[q]
  <2>m. /\ tag \notin host.busy[q]
        /\ sq' = [sq EXCEPT ![q][tail] = tag]
        /\ host'.busy = [host.busy EXCEPT ![q] = @ \cup {tag}]
        /\ dbs'.sq[q] = Up(tail, sq_size)
        /\ \A x \in Sqs : Front(x)' = Front(x) /\ (x # q => dbs'.sq[x] = dbs.sq[x])
        /\ NotPosted' = NotPosted /\ PostHead' = PostHead
        /\ cq' = cq /\ host'.head = host.head
    BY <1>2, SubmitMoves
  <2>1. Up(tail, sq_size) # Front(q)
    BY <2>m, SqRoom
  <2>2. Waiting(q)' = Waiting(q) \cup {tail} /\ tail \in SqSlots /\ tail \notin Waiting(q)
    BY <1>v, <1>w, <2>m, <2>1, SqRing
  <2>3. \A x \in Sqs \ {q} : Waiting(x)' = Waiting(x)
    BY <1>v, <2>m
  <2> HIDE DEF tail
  <2>4. /\ \A x \in Sqs \ {q} : sq'[x] = sq[x]
        /\ sq'[q][tail] = tag /\ \A i \in SqSlots \ {tail} : sq'[q][i] = sq[q][i]
    BY <1>b, <2>m, <2>2
  <2>5. \A x \in Sqs : \A i \in Waiting(x)' : sq'[x][i] \in Tags
    BY <1>p, <1>w, <2>2, <2>3, <2>4
  <2>6. ASSUME NEW x \in Sqs, NEW t \in Tags PROVE Placed(x, t)'
    <3>1. InTable(x, t)' = InTable(x, t) /\ InCq(x, t)' = InCq(x, t)
      BY <1>t, <1>c, <2>m
    <3>2. CASE x = q /\ t = tag
      <4>1. InSq(q, tag) = {} /\ InTable(q, tag) = {} /\ InCq(q, tag) = {}
        BY <1>p, <2>m DEF Placed
      <4>2. InSq(q, tag)' = {tail}
        <5>1. \A i \in Waiting(q) : sq[q][i] # tag /\ sq'[q][i] = sq[q][i]
          BY <1>w, <2>2, <2>4, <4>1 DEF InSq
        <5> QED
          BY <2>2, <2>4, <5>1 DEF InSq
      <4>3. tag \in host'.busy[q] /\ One(InSq(q, tag)')
        BY <1>b, <2>m, <4>2 DEF One
      <4> QED
        BY <3>1, <3>2, <4>1, <4>3 DEF Placed
    <3>3. CASE x = q /\ t # tag
      <4>1. InSq(q, t)' = InSq(q, t)
        BY <1>w, <2>2, <2>4, <3>3 DEF InSq
      <4>2. (t \in host'.busy[q]) <=> (t \in host.busy[q])
        BY <1>b, <2>m, <3>3
      <4> QED
        BY <1>p, <3>1, <3>3, <4>1, <4>2, PlacedStays
    <3>4. CASE x # q
      <4>1. InSq(x, t)' = InSq(x, t)
        BY <2>3, <2>4, <3>4 DEF InSq
      <4>2. host'.busy[x] = host.busy[x]
        BY <1>b, <2>m, <3>4
      <4> QED
        BY <1>p, <3>1, <3>4, <4>1, <4>2, PlacedStays
    <3> QED
      BY <3>2, <3>3, <3>4
  <2> QED
    BY <1>c, <2>m, <2>5, <2>6 DEF PlaceInv
<1>3. CASE SqAccept
  <2>q. PICK q \in Sqs, p \in SqSlots, t0 \in Tags : q = d.qid /\ p = d.pos /\ t0 = sq[d.qid][d.pos]
    <3>1. d.qid \in Sqs /\ d.pos \in Waiting(d.qid)
      BY <1>3, AcceptMoves
    <3> QED
      BY <1>p, <1>w, <3>1
  <2>m. /\ Front(q) = p /\ Front(q)' = Up(p, sq_size) /\ p \in Waiting(q)
        /\ \A x \in Sqs \ {q} : Front(x)' = Front(x)
        /\ Accepted \notin NotPosted /\ NotPosted' = NotPosted \cup {Accepted}
        /\ PostHead' = PostHead /\ UNCHANGED <<sq, dbs, cq, host>>
        /\ Accepted.sqid = q /\ Accepted.command_id = t0
    <3>1. Front(d.qid) = p /\ d.pos \in Waiting(d.qid) /\ \A x \in Sqs \ {d.qid} : Front(x)' = Front(x)
      BY <1>3, <2>q, AcceptMoves
    <3>2. Front(q)' = Up(p, sq_size)
      <4>1. d.at = "sq_loop" /\ d' = [d EXCEPT !.pos = Up(d.pos, sq_size)]
        BY <1>3, AcceptMoves
      <4> QED
        BY <2>q, <4>1 DEF Front, TypeOK
    <3>3. /\ Accepted \notin NotPosted /\ NotPosted' = NotPosted \cup {Accepted}
          /\ PostHead' = PostHead /\ UNCHANGED <<sq, dbs, cq, host>>
      BY <1>3, AcceptMoves
    <3> QED
      BY <2>q, <3>1, <3>2, <3>3 DEF Accepted
  <2>1. p \in SqSlots /\ p # dbs.sq[q]
    BY <1>w, <2>m
  <2>2. Waiting(q)' = Waiting(q) \ {p}
    <3>1. dbs.sq[q] \in SqSlots /\ Waiting(q) = Between(p, dbs.sq[q], sq_size)
          /\ Waiting(q)' = Between(Up(p, sq_size), dbs.sq[q], sq_size)
      BY <1>v, <2>m
    <3> QED
      BY <2>1, <3>1, SqRing
  <2>3. \A x \in Sqs \ {q} : Waiting(x)' = Waiting(x)
    BY <1>v, <2>m
  <2>4. p \in InSq(q, t0)
    BY <2>m, <2>q DEF InSq
  <2>5. ASSUME NEW x \in Sqs, NEW t \in Tags PROVE Placed(x, t)'
    <3>1. InCq(x, t)' = InCq(x, t)
      BY <1>c, <2>m
    <3>2. CASE x = q /\ t = t0
      <4>1. InSq(q, t) = {p} /\ InTable(q, t) = {} /\ InCq(q, t) = {} /\ t \in host.busy[q]
        BY <1>p, <2>4, <2>m, <3>2 DEF Placed, One
      <4>2. InSq(q, t)' = {}
        BY <2>2, <2>m, <4>1 DEF InSq
      <4>3. One(InTable(q, t)')
        <5>1. PICK a : a = Accepted
          OBVIOUS
        <5>2. InTable(q, t)' = {a}
          BY <2>m, <3>2, <4>1, <5>1 DEF InTable
        <5> QED
          BY <5>2 DEF One
      <4> QED
        BY <2>m, <3>1, <3>2, <4>1, <4>2, <4>3 DEF Placed
    <3>3. CASE ~(x = q /\ t = t0)
      <4>1. InSq(x, t)' = InSq(x, t)
        <5>1. CASE x = q
          <6>1. sq[q][p] # t
            BY <2>4, <3>3, <5>1 DEF InSq
          <6> QED
            BY <2>2, <2>m, <5>1, <6>1 DEF InSq
        <5>2. CASE x # q
          BY <2>3, <2>m, <5>2 DEF InSq
        <5> QED
          BY <5>1, <5>2
      <4>2. InTable(x, t)' = InTable(x, t)
        BY <2>m, <3>3 DEF InTable
      <4> QED
        BY <1>p, <2>m, <3>1, <4>1, <4>2, PlacedStays
    <3> QED
      BY <3>2, <3>3
  <2>6. \A x \in Sqs : \A i \in Waiting(x)' : sq'[x][i] \in Tags
    BY <1>p, <2>2, <2>3, <2>m
  <2> QED
    BY <1>c, <2>m, <2>5, <2>6 DEF PlaceInv
<1>4. CASE FillStatus(Filler)
  <2> DEFINE r == w[Filler].req
             q == r.sqid
             t0 == r.command_id
             h == PostHead
  <2>m. /\ w[Filler].pc = "status" /\ h = cq.cq_head /\ PostHead' = Up(h, cq_size)
        /\ \A i \in CqSlots : /\ cq'.entry[i].sq_id = cq.entry[i].sq_id
                              /\ cq'.entry[i].command_id = cq.entry[i].command_id
        /\ cq.entry[h].sq_id = q /\ cq.entry[h].command_id = t0
        /\ r \in NotPosted /\ NotPosted' = NotPosted \ {r}
        /\ q \in Sqs /\ t0 \in Tags
        /\ \A x \in Sqs : Front(x)' = Front(x)
        /\ UNCHANGED <<sq, dbs, host>>
    BY <1>4, StatusMoves
  <2>1. Up(h, cq_size) # host.head
    BY <2>m, CqRoom
  <2>2. Unread' = Unread \cup {h} /\ h \notin Unread /\ h \in CqSlots
    BY <1>v, <1>w, <2>m, <2>1, CqRing
  <2>3. r \in InTable(q, t0)
    BY <2>m DEF InTable
  <2> HIDE DEF h, r
  <2>4. ASSUME NEW x \in Sqs, NEW t \in Tags PROVE Placed(x, t)'
    <3>1. InSq(x, t)' = InSq(x, t)
      BY <1>s, <2>m
    <3>2. InCq(x, t)' = InCq(x, t) \cup (IF x = q /\ t = t0 THEN {h} ELSE {})
      BY <1>w, <2>m, <2>2 DEF InCq
    <3>3. InTable(x, t)' = InTable(x, t) \ (IF x = q /\ t = t0 THEN {r} ELSE {})
      BY <2>m DEF InTable
    <3>4. CASE x = q /\ t = t0
      <4>1. InSq(q, t) = {} /\ InTable(q, t) = {r} /\ InCq(q, t) = {} /\ t \in host.busy[q]
        BY <1>p, <2>3, <2>m, <3>4 DEF Placed, One
      <4> QED
        BY <2>m, <3>1, <3>2, <3>3, <3>4, <4>1 DEF Placed, One
    <3>5. CASE ~(x = q /\ t = t0)
      BY <1>p, <2>m, <3>1, <3>2, <3>3, <3>5, PlacedStays
    <3> QED
      BY <3>4, <3>5
  <2>5. \A i \in Unread' : cq'.entry[i].sq_id \in Sqs /\ cq'.entry[i].command_id \in Tags
    BY <1>p, <1>w, <2>2, <2>m
  <2> QED
    BY <1>s, <2>m, <2>4, <2>5 DEF PlaceInv
<1>5. CASE HostConsume
  <2> DEFINE h == host.head
             q == cq.entry[h].sq_id
             t0 == cq.entry[h].command_id
  <2>m. /\ HostSeesEntry /\ host'.head = Up(h, cq_size)
        /\ host'.busy = [host.busy EXCEPT ![q] = @ \ {t0}]
        /\ \A x \in Sqs : Front(x)' = Front(x)
        /\ NotPosted' = NotPosted /\ PostHead' = PostHead
        /\ UNCHANGED <<sq, dbs, cq>>
    BY <1>5, ConsumeMoves
  <2>1. h # PostHead
    BY <2>m, Tells
  <2>2. h \in Unread /\ Unread' = Unread \ {h}
    BY <1>v, <2>m, <2>1, CqRing
  <2> HIDE DEF h
  <2>3. q \in Sqs /\ t0 \in Tags /\ h \in InCq(q, t0)
    BY <1>p, <2>2 DEF InCq
  <2>4. ASSUME NEW x \in Sqs, NEW t \in Tags PROVE Placed(x, t)'
    <3>1. InSq(x, t)' = InSq(x, t) /\ InTable(x, t)' = InTable(x, t)
      BY <1>s, <1>t, <2>m
    <3>2. InCq(x, t)' = InCq(x, t) \ (IF x = q /\ t = t0 THEN {h} ELSE {})
      BY <2>m, <2>2 DEF InCq
    <3>3. t \in host'.busy[x] <=> t \in host.busy[x] /\ ~(x = q /\ t = t0)
      BY <1>b, <2>m, <2>3
    <3>4. CASE x = q /\ t = t0
      <4>1. InSq(q, t) = {} /\ InTable(q, t) = {} /\ InCq(q, t) = {h}
        BY <1>p, <2>3, <3>4 DEF Placed, One
      <4> QED
        BY <3>1, <3>2, <3>3, <3>4, <4>1 DEF Placed
    <3>5. CASE ~(x = q /\ t = t0)
      BY <1>p, <3>1, <3>2, <3>3, <3>5, PlacedStays
    <3> QED
      BY <3>4, <3>5
  <2>5. \A i \in Unread' : cq'.entry[i].sq_id \in Sqs /\ cq'.entry[i].command_id \in Tags
    BY <1>p, <2>2, <2>m
  <2> QED
    BY <1>s, <2>m, <2>4, <2>5 DEF PlaceInv
<1> QED
  BY <1>1, <1>2, <1>3, <1>4, <1>5, QuietSteps

-----------------------------------------------------------------------------
(* Sums over the submission queues, as InFlightCounted takes them.          *)

Sums(n, c, f) == f = [q \in 0 .. n |-> IF q = 0 THEN 0 ELSE f[q-1] + c[q]]

LEMMA LeastElement ==
  ASSUME NEW T \in SUBSET Nat, T # {}
  PROVE  \E x \in T : \A y \in T : x <= y
<1> DEFINE Less == {p \in Nat \X Nat : p[1] < p[2]}
<1>1. OpToRel(<, Nat) = Less
  BY DEF OpToRel
<1>2. IsWellFoundedOn(OpToRel(<, Nat), Nat)
  BY NatLessThanWellFounded
<1>3. \E x \in T : \A y \in T : ~ (<<y, x>> \in Less)
  BY <1>1, <1>2, WFMin, ZenonT(30)
<1>4. \A x, y \in Nat : ~ (<<y, x>> \in Less) => x <= y
  OBVIOUS
<1> HIDE DEF Less
<1> QED
  BY <1>3, <1>4

LEMMA SumExists ==
  ASSUME NEW n \in Nat, NEW c \in [1 .. n -> Int]
  PROVE  \E f \in [0 .. n -> Int] : Sums(n, c, f)
<1> DEFINE T == {m \in 0 .. n : ~ \E f \in [0 .. m -> Int] : Sums(m, c, f)}
<1>1. T \in SUBSET Nat
  OBVIOUS
<1>2. ASSUME T # {} PROVE FALSE
  <2>1. PICK m \in T : \A y \in T : m <= y
    <3> HIDE DEF T
    <3> QED
      BY <1>1, <1>2, LeastElement
  <2>2. m \in 0 .. n /\ ~ \E f \in [0 .. m -> Int] : Sums(m, c, f)
    BY <2>1
  <2>3. CASE m = 0
    <3> DEFINE f == [q \in 0 .. 0 |-> 0]
    <3>1. f \in [0 .. 0 -> Int] /\ Sums(0, c, f)
      BY DEF Sums
    <3> QED
      BY <2>2, <2>3, <3>1
  <2>4. CASE m # 0
    <3>1. m - 1 \in 0 .. n /\ m - 1 < m /\ m \in 1 .. n
      BY <2>2, <2>4
    <3>2. m - 1 \notin T
      BY <2>1, <3>1
    <3>3. PICK g \in [0 .. m - 1 -> Int] : Sums(m - 1, c, g)
      BY <3>1, <3>2
    <3>4. \A q \in 0 .. m - 1 : g[q] = IF q = 0 THEN 0 ELSE g[q-1] + c[q]
      <4>1. g = [q \in 0 .. m - 1 |-> IF q = 0 THEN 0 ELSE g[q-1] + c[q]]
        BY <3>3 DEF Sums
      <4> HIDE DEF T
      <4> QED
        BY <4>1
    <3> DEFINE f == [q \in 0 .. m |-> IF q = m THEN g[m-1] + c[m] ELSE g[q]]
    <3>5. f \in [0 .. m -> Int]
      <4>1. g[m-1] + c[m] \in Int
        BY <3>1, <3>3
      <4>2. \A q \in 0 .. m : q # m => q \in 0 .. m - 1 /\ g[q] \in Int
        BY <3>1, <3>3
      <4> QED
        BY <4>1, <4>2
    <3>6. ASSUME NEW q \in 0 .. m PROVE f[q] = IF q = 0 THEN 0 ELSE f[q-1] + c[q]
      <4>1. CASE q = m
        <5>1. q # 0 /\ q - 1 \in 0 .. m /\ q - 1 # m /\ f[q] = g[m-1] + c[m] /\ f[q-1] = g[m-1]
          BY <3>1, <4>1
        <5> QED
          BY <4>1, <5>1
      <4>2. CASE q # m /\ q # 0
        <5>1. q \in 0 .. m - 1 /\ q - 1 \in 0 .. m /\ q - 1 # m /\ f[q] = g[q] /\ f[q-1] = g[q-1]
          BY <3>1, <4>2
        <5> QED
          BY <3>4, <4>2, <5>1
      <4>3. CASE q = 0
        <5>1. q \in 0 .. m - 1 /\ f[q] = g[q]
          BY <3>1, <4>3
        <5> QED
          BY <3>4, <4>3, <5>1
      <4> QED
        BY <4>1, <4>2, <4>3
    <3>7. Sums(m, c, f)
      <4>1. f = [q \in 0 .. m |-> f[q]]
        OBVIOUS
      <4> HIDE DEF f
      <4> QED
        BY <3>6, <4>1 DEF Sums
    <3> QED
      BY <2>2, <3>5, <3>7
  <2> QED
    BY <2>3, <2>4
<1>3. n \in 0 .. n
  OBVIOUS
<1> QED
  BY <1>2, <1>3

(* A sum moves with one of its terms.                                       *)
LEMMA SumShift ==
  ASSUME NEW n \in Nat, NEW c \in [1 .. n -> Int], NEW k \in 1 .. n, NEW v \in Int,
         NEW f, NEW g, NEW s, Sums(n, c, f), Sums(n, s, g),
         s[k] = c[k] + v, \A q \in 1 .. n : q # k => s[q] = c[q]
  PROVE  f[n] \in Int /\ g[n] = f[n] + v
<1>0. /\ \A q \in 0 .. n : f[q] = IF q = 0 THEN 0 ELSE f[q-1] + c[q]
      /\ \A q \in 0 .. n : g[q] = IF q = 0 THEN 0 ELSE g[q-1] + s[q]
  <2>1. f = [q \in 0 .. n |-> IF q = 0 THEN 0 ELSE f[q-1] + c[q]]
    BY DEF Sums
  <2>2. g = [q \in 0 .. n |-> IF q = 0 THEN 0 ELSE g[q-1] + s[q]]
    BY DEF Sums
  <2>3. \A q \in 0 .. n : f[q] = IF q = 0 THEN 0 ELSE f[q-1] + c[q]
    BY <2>1
  <2>4. \A q \in 0 .. n : g[q] = IF q = 0 THEN 0 ELSE g[q-1] + s[q]
    BY <2>2
  <2> QED
    BY <2>3, <2>4
<1> DEFINE Good(q) == f[q] \in Int /\ g[q] = f[q] + (IF q >= k THEN v ELSE 0)
           T == {q \in 0 .. n : ~Good(q)}
<1>1. T \in SUBSET Nat
  OBVIOUS
<1>2. ASSUME T # {} PROVE FALSE
  <2>1. PICK q \in T : \A y \in T : q <= y
    <3> HIDE DEF T
    <3> QED
      BY <1>1, <1>2, LeastElement
  <2>2. q \in 0 .. n /\ ~Good(q)
    BY <2>1
  <2>3. CASE q = 0
    <3>1. f[0] = 0 /\ g[0] = 0 /\ ~(0 >= k)
      BY <1>0, <2>2, <2>3
    <3> QED
      BY <2>2, <2>3, <3>1
  <2>4. CASE q # 0
    <3>1. q - 1 \in 0 .. n /\ q - 1 < q /\ q \in 1 .. n /\ q \in Int /\ k \in Int
      BY <2>2, <2>4
    <3>2. Good(q - 1)
      BY <2>1, <3>1
    <3>3. f[q] = f[q-1] + c[q] /\ g[q] = g[q-1] + s[q] /\ c[q] \in Int
      BY <1>0, <2>2, <2>4, <3>1
    <3>4. s[q] = c[q] + (IF q = k THEN v ELSE 0)
      BY <3>1, <3>3
    <3> DEFINE x == f[q-1]
               y == g[q-1]
    <3>5. x \in Int /\ y = x + (IF q - 1 >= k THEN v ELSE 0)
      BY <3>2
    <3>6. f[q] = x + c[q] /\ g[q] = y + s[q]
      BY <3>3
    <3> HIDE DEF x, y, T
    <3>7. Good(q)
      BY <3>1, <3>3, <3>4, <3>5, <3>6
    <3> QED
      BY <2>2, <3>7
  <2> QED
    BY <2>3, <2>4
<1>3. n \in 0 .. n /\ n >= k
  OBVIOUS
<1>4. Good(n)
  BY <1>2, <1>3
<1> QED
  BY <1>3, <1>4

TotalSums ==
  nr_in_flight \in [Sqs -> Int] =>
    \E f : Sums(nr_sq, nr_in_flight, f) /\ TotalInFlight = f[nr_sq]

LEMMA TotalSumsHolds == TotalSums
<1> SUFFICES ASSUME nr_in_flight \in [Sqs -> Int]
             PROVE  \E f : Sums(nr_sq, nr_in_flight, f) /\ TotalInFlight = f[nr_sq]
  BY DEF TotalSums
<1>1. nr_sq \in Nat /\ nr_in_flight \in [1 .. nr_sq -> Int]
  BY Sizes DEF Sqs
<1>2. \E f : Sums(nr_sq, nr_in_flight, f)
  BY <1>1, SumExists
<1>3. TotalInFlight = (CHOOSE f : Sums(nr_sq, nr_in_flight, f))[nr_sq]
  BY DEF TotalInFlight, Sums
<1> QED
  BY <1>2, <1>3

LEMMA TotalSumsHoldsNext == TotalSums'
BY TotalSumsHolds, PTL

LEMMA TotalShifts ==
  ASSUME nr_in_flight \in [Sqs -> Int], NEW q \in Sqs, NEW v \in Int,
         nr_in_flight' = [nr_in_flight EXCEPT ![q] = @ + v]
  PROVE  TotalInFlight \in Int /\ TotalInFlight' = TotalInFlight + v
<1>1. nr_sq \in Nat /\ nr_in_flight \in [1 .. nr_sq -> Int] /\ q \in 1 .. nr_sq
  BY Sizes DEF Sqs
<1>2. PICK f : Sums(nr_sq, nr_in_flight, f) /\ TotalInFlight = f[nr_sq]
  BY TotalSumsHolds DEF TotalSums
<1>3. nr_in_flight' \in [Sqs -> Int]
  <2>1. nr_in_flight[q] + v \in Int
    OBVIOUS
  <2> QED
    BY <2>1
<1>4. PICK g : Sums(nr_sq, nr_in_flight', g) /\ TotalInFlight' = g[nr_sq]
  BY <1>3, TotalSumsHoldsNext DEF TotalSums
<1>5. f[nr_sq] \in Int /\ g[nr_sq] = f[nr_sq] + v
  <2>1. PICK n, c, s : n = nr_sq /\ c = nr_in_flight /\ s = nr_in_flight'
    OBVIOUS
  <2>2. n \in Nat /\ c \in [1 .. n -> Int] /\ q \in 1 .. n
    BY <1>1, <2>1
  <2>3. Sums(n, c, f) /\ Sums(n, s, g)
    BY <1>2, <1>4, <2>1
  <2>5. s[q] = c[q] + v /\ \A j \in 1 .. n : j # q => s[j] = c[j]
    BY <2>1, <2>2
  <2>4. f[n] \in Int /\ g[n] = f[n] + v
    BY <2>2, <2>3, <2>5, SumShift, ZenonT(30)
  <2> QED
    BY <2>1, <2>4
<1> QED
  BY <1>2, <1>4, <1>5

-----------------------------------------------------------------------------
(* The count of commands in flight.                                         *)

(* Positions of the completion ring that are a number of slots apart.       *)
LEMMA CqApart ==
  ASSUME NEW a \in CqSlots, NEW k \in Nat
  PROVE  /\ (a + (k + 1)) % cq_size = Up((a + k) % cq_size, cq_size)
         /\ (Up(a, cq_size) + k) % cq_size = (a + (k + 1)) % cq_size
         /\ (a + 0) % cq_size = a
<1> DEFINE size == cq_size
<1>1. size \in Nat /\ size > 0 /\ CqSlots = 0 .. size - 1
  BY Sizes
<1> HIDE DEF size
<1>2. a \in 0 .. size - 1
  BY <1>1
<1>3. /\ (a + (k + 1)) % size = Up((a + k) % size, size)
      /\ (Up(a, size) + k) % size = (a + (k + 1)) % size
  BY <1>1, <1>2, Apart
<1>4. (a + 0) % size = a
  BY <1>1, <1>2
<1> QED
  BY <1>3, <1>4 DEF size

LEMMA FreshStep ==
  ASSUME OneWorker, TypeOK, FillerInv, PlaceInv, LoopInv, PhaseInv, FreshInv,
         TypeOK', FillerInv', [Next]_vars
  PROVE  FreshInv'
<1>t. /\ CqSlots = 0 .. cq_size - 1 /\ cq_size \in Nat /\ PostHead \in CqSlots
      /\ host.head \in CqSlots /\ dbs.cq \in CqSlots /\ old_dbs.cq \in CqSlots
      /\ (d.at = "cq_loop" => d.pos \in CqSlots /\ d.new_db \in CqSlots)
      /\ d \in [at : {"sq", "sq_loop", "cq", "cq_loop"}, qid : Sqs, new_db : Nat, pos : Nat]
      /\ old_dbs \in Doorbells
  BY ViewsHold, Sizes DEF Views, TypeOK, Doorbells
<1>a. AckPos \in CqSlots /\ Doorbell \in CqSlots
  BY <1>t DEF AckPos, Doorbell
<1>f. \A i \in CqSlots : cq.entry[i].sq_id \in Sqs \/ Fresh(i)
  BY DEF FreshInv
<1>p. AfterSq.at # "cq_loop" /\ Polling("sq", 1).at # "cq_loop"
  BY DEF AfterSq, Polling
(* Steps that leave the dispatcher's side alone.                            *)
<1>d. ASSUME UNCHANGED <<d, old_dbs>>, dbs'.cq = dbs.cq
      PROVE  AckPos' = AckPos /\ Doorbell' = Doorbell
  BY <1>d DEF AckPos, Doorbell
<1>1. ASSUME NEW q \in Sqs, NEW tag \in Tags, HostSubmit(q, tag) PROVE FreshInv'
  <2>1. PostHead' = PostHead /\ dbs'.cq = dbs.cq /\ host'.head = host.head /\ UNCHANGED <<d, old_dbs, cq>>
    BY <1>1, SubmitMoves
  <2> QED
    BY <1>d, <1>f, <2>1 DEF FreshInv, Fresh
<1>2. ASSUME HostPoll \/ HostInterrupt \/ UNCHANGED vars PROVE FreshInv'
  <2>1. UNCHANGED <<cq, w, d, old_dbs, dbs>> /\ host'.head = host.head
    BY <1>2 DEF HostPoll, HostInterrupt, dispatchVars, deviceVars, vars, TypeOK
  <2>2. PostHead' = PostHead
    BY <2>1 DEF PostHead
  <2> QED
    BY <1>d, <1>f, <2>1, <2>2 DEF FreshInv, Fresh
<1>3. ASSUME HostConsume PROVE FreshInv'
  <2>1. /\ HostSeesEntry /\ host'.head = Up(host.head, cq_size) /\ PostHead' = PostHead
        /\ UNCHANGED <<dbs, d, old_dbs, cq>>
    BY <1>3, ConsumeMoves
  <2>2. host.head # PostHead
    BY <2>1, Tells
  <2>3. AckPos' = AckPos /\ Doorbell' = Doorbell
    BY <1>d, <2>1
  <2>4. ASSUME NEW i \in CqSlots, Fresh(i) PROVE Fresh(i)'
    <3>1. host.head < PostHead /\ host.head \in Int /\ PostHead \in Int /\ host.head >= dbs.cq /\ dbs.cq \in Int
          /\ PostHead < cq_size
      BY <1>t, <2>2, <2>4 DEF Fresh
    <3>2. host'.head = host.head + 1
      BY <2>1, <3>1, <1>t DEF Up
    <3>3. PostHead >= host.head + 1 /\ host.head + 1 >= dbs.cq
      BY <3>1
    <3> QED
      BY <2>1, <2>3, <2>4, <3>2, <3>3 DEF Fresh
  <2> QED
    BY <1>f, <2>1, <2>4 DEF FreshInv
<1>4. ASSUME HostDone PROVE FreshInv'
  <2>1. UNCHANGED <<cq, w, d, old_dbs>> /\ host'.head = host.head /\ dbs'.cq = host.head
    BY <1>4 DEF HostDone, dispatchVars, deviceVars, TypeOK, Doorbells
  <2>2. PostHead' = PostHead /\ AckPos' = AckPos
        /\ Doorbell' = IF d.at = "cq_loop" THEN d.new_db ELSE host.head
    BY <2>1 DEF PostHead, AckPos, Doorbell
  <2>3. ASSUME NEW i \in CqSlots, Fresh(i) PROVE Fresh(i)'
    <3> DEFINE h == host.head
               ddb == Doorbell'
    <3>1. h \in Int /\ dbs.cq \in Int /\ Doorbell \in Int /\ AckPos \in Int /\ ddb \in Int
      BY <1>t, <1>a, <2>2
    <3>2. h >= dbs.cq /\ dbs.cq >= Doorbell /\ Doorbell >= AckPos /\ i >= PostHead /\ PostHead >= h
      BY <2>3 DEF Fresh
    <3>3. ddb = Doorbell \/ ddb = h
      BY <2>2 DEF Doorbell
    <3>4. h >= ddb /\ ddb >= AckPos
      <4> HIDE DEF h, ddb
      <4> QED
        BY <3>1, <3>2, <3>3
    <3>5. h >= h
      BY <3>1
    <3> QED
      BY <2>1, <2>2, <3>2, <3>4, <3>5 DEF Fresh
  <2> QED
    BY <1>f, <2>1, <2>3 DEF FreshInv
<1>5. ASSUME SqPoll \/ SqStop \/ SqAccept \/ CqPoll \/ CqAckEnd PROVE FreshInv'
  <2>1. UNCHANGED <<cq, w, dbs, host>>
    BY <1>5 DEF SqPoll, SqStop, SqAccept, CqPoll, CqAckEnd, deviceVars
  <2>2. PostHead' = PostHead
    BY <2>1 DEF PostHead
  <2>3. AckPos' = AckPos
    <3>1. CASE SqPoll
      BY <1>t, <1>p, <3>1 DEF SqPoll, AckPos
    <3>2. CASE SqStop
      BY <1>t, <1>p, <3>2 DEF SqStop, AckPos, Doorbells
    <3>3. CASE SqAccept
      BY <1>t, <3>3 DEF SqAccept, AckPos
    <3>4. CASE CqPoll
      BY <1>t, <3>4 DEF CqPoll, AckPos
    <3>5. CASE CqAckEnd
      BY <1>t, <1>p, <3>5 DEF CqAckEnd, AckPos, Doorbells
    <3> QED
      BY <1>5, <3>1, <3>2, <3>3, <3>4, <3>5
  <2>4. Doorbell' = Doorbell \/ Doorbell' = dbs.cq
    <3>1. CASE d'.at # "cq_loop"
      BY <2>1, <3>1 DEF Doorbell
    <3>2. CASE d'.at = "cq_loop"
      <4>1. CqPoll /\ d'.new_db = dbs.cq
        <5>1. CASE CqPoll
          BY <1>t, <3>2, <5>1 DEF CqPoll
        <5>2. CASE SqPoll \/ SqStop \/ SqAccept \/ CqAckEnd
          <6>1. d'.at # "cq_loop"
            BY <1>t, <1>p, <5>2 DEF SqPoll, SqStop, SqAccept, CqAckEnd
          <6> QED
            BY <3>2, <6>1
        <5> QED
          BY <1>5, <5>1, <5>2
      <4> QED
        BY <3>2, <4>1 DEF Doorbell
    <3> QED
      BY <3>1, <3>2
  <2>5. ASSUME NEW i \in CqSlots, Fresh(i) PROVE Fresh(i)'
    <3>1. dbs.cq >= Doorbell /\ Doorbell >= AckPos /\ dbs.cq \in Int /\ Doorbell \in Int /\ AckPos \in Int
      BY <1>t, <1>a, <2>5 DEF Fresh
    <3>2. dbs.cq >= Doorbell' /\ Doorbell' >= AckPos
      BY <2>4, <3>1
    <3> QED
      BY <2>1, <2>2, <2>3, <2>5, <3>2 DEF Fresh
  <2> QED
    BY <1>f, <2>1, <2>5 DEF FreshInv
<1>6. ASSUME CqAck PROVE FreshInv'
  <2>1. UNCHANGED <<cq, w, dbs, host>> /\ d.at = "cq_loop" /\ d.pos # d.new_db
        /\ d' = [d EXCEPT !.pos = (d.pos + 1) % cq_size]
    BY <1>6 DEF CqAck, deviceVars
  <2>2. (d.pos + 1) % cq_size = Up(d.pos, cq_size)
    BY <1>t, <2>1, CqUp
  <2>3. PostHead' = PostHead /\ Doorbell' = Doorbell /\ AckPos' = Up(AckPos, cq_size) /\ AckPos # Doorbell
    BY <1>t, <2>1, <2>2 DEF PostHead, AckPos, Doorbell
  <2>4. ASSUME NEW i \in CqSlots, Fresh(i) PROVE Fresh(i)'
    <3>1. Doorbell > AckPos /\ Doorbell \in Int /\ AckPos \in Int /\ Doorbell < cq_size
      BY <1>t, <1>a, <2>3, <2>4 DEF Fresh
    <3>2. Doorbell >= Up(AckPos, cq_size)
      BY <1>t, <3>1 DEF Up
    <3> QED
      BY <2>1, <2>3, <2>4, <3>2 DEF Fresh
  <2> QED
    BY <1>f, <2>1, <2>4 DEF FreshInv
<1>7. ASSUME NEW i \in Workers, Worker(i) PROVE FreshInv'
  <2>1. UNCHANGED <<dbs, old_dbs, d>> /\ host'.head = host.head
    BY <1>7 DEF Worker, FillBegin, FillIds, FillStatus, FillEnd, IrqTry, IrqClear, IrqSignal,
                others, dispatchVars, TypeOK
  <2>2. AckPos' = AckPos /\ Doorbell' = Doorbell
    BY <1>d, <2>1
  <2>3. CASE FillStatus(Filler)
    <3>1. /\ PostHead' = Up(PostHead, cq_size) /\ cq.entry[PostHead].sq_id \in Sqs
          /\ \A j \in CqSlots : cq'.entry[j].sq_id = cq.entry[j].sq_id
      BY <2>3, StatusMoves
    <3>2. ASSUME NEW j \in CqSlots, cq.entry[j].sq_id \notin Sqs PROVE Fresh(j)'
      <4>1. Fresh(j) /\ j # PostHead
        BY <1>f, <3>1, <3>2
      <4>2. j > PostHead /\ PostHead >= host.head /\ j < cq_size /\ j \in Int /\ PostHead \in Int
            /\ host.head \in Int
        BY <1>t, <4>1 DEF Fresh
      <4>3. PostHead' = PostHead + 1
        BY <1>t, <3>1, <4>2 DEF Up
      <4>4. j >= PostHead + 1 /\ PostHead + 1 >= host.head
        BY <4>2
      <4> QED
        BY <2>1, <2>2, <4>1, <4>3, <4>4 DEF Fresh
    <3> QED
      BY <3>1, <3>2 DEF FreshInv
  <2>4. CASE ~FillStatus(Filler)
    <3>0. ~FillStatus(i)
      BY <2>4, Hand DEF FillStatus
    <3>1. \A j \in CqSlots : cq'.entry[j].sq_id \in Sqs \/ cq'.entry[j].sq_id = cq.entry[j].sq_id
      <4>1. CASE FillIds(i)
        <5>1. /\ w[i].cq_head \in CqSlots /\ w[i].req.sqid \in Sqs
          BY <4>1, Hand DEF FillIds, Request
        <5> DEFINE c == w[i].cq_head
                   x == [cq EXCEPT !.entry_lock = i]
                   y == [x EXCEPT !.entry[c].command_id = w[i].req.command_id]
                   z == [y EXCEPT !.entry[c].sq_id = w[i].req.sqid]
        <5>2. cq' = z
          BY <4>1 DEF FillIds
        <5>3. x.entry = cq.entry /\ cq.entry \in [CqSlots -> CqEntry]
          BY DEF TypeOK
        <5>4. y.entry = [cq.entry EXCEPT ![c].command_id = w[i].req.command_id]
          BY DEF TypeOK
        <5>5. z.entry = [y.entry EXCEPT ![c].sq_id = w[i].req.sqid]
          BY DEF TypeOK
        <5> HIDE DEF x, y, z, c
        <5>6. ASSUME NEW j \in CqSlots
              PROVE  z.entry[j].sq_id \in Sqs \/ z.entry[j].sq_id = cq.entry[j].sq_id
          <6>1. cq.entry[j] \in CqEntry
            BY <5>3
          <6>2. j # c => z.entry[j] = cq.entry[j]
            BY <5>3, <5>4, <5>5
          <6>3. j = c => z.entry[j].sq_id = w[i].req.sqid
            <7>1. y.entry[j] = [cq.entry[j] EXCEPT !.command_id = w[i].req.command_id] \/ j # c
              BY <5>3, <5>4
            <7> QED
              BY <5>3, <5>4, <5>5, <6>1, <7>1 DEF CqEntry
          <6> QED
            BY <5>1, <6>2, <6>3
        <5> QED
          BY <5>2, <5>6
      <4>2. CASE ~FillIds(i)
        <5>t. cq \in [entry : [CqSlots -> CqEntry], cq_head : CqSlots, phase : {0, 1},
                      interrupt_ready : BOOLEAN,
                      entry_lock : Workers \cup {NoOne}, irq_lock : Workers \cup {NoOne}]
          BY DEF TypeOK
        <5>2. ASSUME NEW r, FillBegin(i, r) PROVE cq'.entry = cq.entry
          BY <5>2 DEF FillBegin
        <5>3. ASSUME FillEnd(i) PROVE cq'.entry = cq.entry
          BY <5>t, <5>3 DEF FillEnd
        <5>4. ASSUME IrqTry(i) \/ IrqClear(i) \/ IrqSignal(i) PROVE cq'.entry = cq.entry
          BY <5>t, <5>4 DEF IrqTry, IrqClear, IrqSignal
        <5>1. cq'.entry = cq.entry
          BY <1>7, <3>0, <4>2, <5>2, <5>3, <5>4 DEF Worker
        <5> QED
          BY <5>1
      <4> QED
        BY <4>1, <4>2
    <3>2. PostHead' = PostHead
      <4>1. Quiet \/ (\E q \in Sqs, tag \in Tags : HostSubmit(q, tag))
                  \/ HostConsume \/ SqAccept \/ FillStatus(Filler)
        BY QuietSteps
      <4>2. ASSUME NEW q \in Sqs, NEW tag \in Tags, HostSubmit(q, tag) PROVE PostHead' = PostHead
        BY <4>2, SubmitMoves
      <4>3. HostConsume => PostHead' = PostHead
        BY ConsumeMoves
      <4>4. SqAccept => PostHead' = PostHead
        BY AcceptMoves
      <4> QED
        BY <2>4, <4>1, <4>2, <4>3, <4>4 DEF Quiet
    <3> QED
      BY <1>f, <2>1, <2>2, <3>1, <3>2 DEF FreshInv, Fresh
  <2> QED
    BY <2>3, <2>4
<1> QED
  BY <1>1, <1>2, <1>3, <1>4, <1>5, <1>6, <1>7 DEF Next, Host, Dispatcher

LEMMA CountStep ==
  ASSUME OneWorker, TypeOK, FillerInv, PlaceInv, LoopInv, PhaseInv, FreshInv, CountInv,
         TypeOK', FillerInv', [Next]_vars
  PROVE  CountInv'
<1>t. /\ CqSlots = 0 .. cq_size - 1 /\ cq_size \in Nat
      /\ host.head \in CqSlots /\ dbs.cq \in CqSlots /\ old_dbs.cq \in CqSlots
      /\ (d.at = "cq_loop" => d.pos \in CqSlots /\ d.new_db \in CqSlots)
      /\ d \in [at : {"sq", "sq_loop", "cq", "cq_loop"}, qid : Sqs, new_db : Nat, pos : Nat]
      /\ old_dbs \in Doorbells /\ nr_in_flight \in [Sqs -> Int]
      /\ dispatched \in Nat /\ received \in Nat
  BY ViewsHold, Sizes DEF Views, TypeOK, Doorbells
<1>a. AckPos \in CqSlots
  BY <1>t DEF AckPos
<1>e. PICK e \in Nat, b \in Nat : Behind(e, b)
  BY DEF CountInv
<1>b. /\ TotalInFlight = dispatched - received + e
      /\ b <= e
      /\ (AckPos + e) % cq_size = host.head /\ (AckPos + b) % cq_size = dbs.cq
      /\ d.at = "cq_loop" => \E n \in Nat : n <= b /\ (AckPos + n) % cq_size = d.new_db
  BY <1>e DEF Behind
<1>p. AfterSq.at # "cq_loop" /\ Polling("sq", 1).at # "cq_loop"
  BY DEF AfterSq, Polling
(* Steps that leave all of it alone.                                        *)
<1>s. ASSUME UNCHANGED <<d, old_dbs, nr_in_flight, dispatched, received>>, dbs'.cq = dbs.cq,
             host'.head = host.head
      PROVE  CountInv'
  <2>1. AckPos' = AckPos /\ TotalInFlight' = TotalInFlight
    BY <1>s DEF AckPos, TotalInFlight
  <2>2. Behind(e, b)'
    BY <1>b, <1>s, <2>1 DEF Behind
  <2> QED
    BY <2>2 DEF CountInv
<1>1. ASSUME NEW q \in Sqs, NEW tag \in Tags, HostSubmit(q, tag) PROVE CountInv'
  <2>1. /\ UNCHANGED <<d, old_dbs, nr_in_flight, dispatched, received>>
        /\ dbs'.cq = dbs.cq /\ host'.head = host.head
    BY <1>1, SubmitMoves
  <2> QED
    BY <1>s, <2>1
<1>2. ASSUME HostPoll \/ HostInterrupt \/ UNCHANGED vars PROVE CountInv'
  <2>1. UNCHANGED <<d, old_dbs, nr_in_flight, dispatched, received, dbs>> /\ host'.head = host.head
    BY <1>2 DEF HostPoll, HostInterrupt, dispatchVars, vars, TypeOK
  <2> QED
    BY <1>s, <2>1
<1>3. ASSUME HostConsume PROVE CountInv'
  <2>1. /\ host'.head = Up(host.head, cq_size) /\ received' = received + 1
        /\ UNCHANGED <<dbs, d, old_dbs, nr_in_flight, dispatched>>
    BY <1>3, ConsumeMoves
  <2>2. AckPos' = AckPos /\ TotalInFlight' = TotalInFlight
    BY <2>1 DEF AckPos, TotalInFlight
  <2>3. (AckPos + (e + 1)) % cq_size = Up(host.head, cq_size)
    BY <1>a, <1>b, CqApart
  <2>4. dispatched - received + e = dispatched - (received + 1) + (e + 1) /\ b <= e + 1
        /\ e + 1 \in Nat
    BY <1>t, <1>b
  <2>5. Behind(e + 1, b)'
    <3>1. /\ TotalInFlight' = dispatched' - received' + (e + 1) /\ b <= e + 1
          /\ (AckPos' + (e + 1)) % cq_size = host'.head /\ (AckPos' + b) % cq_size = dbs'.cq
      BY <1>b, <2>1, <2>2, <2>3, <2>4
    <3>2. d'.at = "cq_loop" => \E n \in Nat : n <= b /\ (AckPos' + n) % cq_size = d'.new_db
      BY <1>b, <2>1, <2>2
    <3> QED
      BY <3>1, <3>2 DEF Behind
  <2> QED
    BY <2>4, <2>5 DEF CountInv
<1>4. ASSUME HostDone PROVE CountInv'
  <2>1. /\ UNCHANGED <<d, old_dbs, nr_in_flight, dispatched, received>>
        /\ host'.head = host.head /\ dbs'.cq = host.head
    BY <1>4 DEF HostDone, dispatchVars, TypeOK, Doorbells
  <2>2. AckPos' = AckPos /\ TotalInFlight' = TotalInFlight
    BY <2>1 DEF AckPos, TotalInFlight
  <2>3. Behind(e, e)'
    <3>1. /\ TotalInFlight' = dispatched' - received' + e /\ e <= e
          /\ (AckPos' + e) % cq_size = host'.head /\ (AckPos' + e) % cq_size = dbs'.cq
      BY <1>b, <2>1, <2>2
    <3>2. ASSUME d'.at = "cq_loop"
          PROVE  \E n \in Nat : n <= e /\ (AckPos' + n) % cq_size = d'.new_db
      <4>1. PICK n \in Nat : n <= b /\ (AckPos + n) % cq_size = d.new_db
        BY <1>b, <2>1, <3>2
      <4>2. n <= e
        BY <1>b, <4>1
      <4> QED
        BY <2>1, <2>2, <4>1, <4>2
    <3> QED
      BY <3>1, <3>2 DEF Behind
  <2> QED
    BY <2>3 DEF CountInv
<1>5. ASSUME SqAccept PROVE CountInv'
  <2>1. /\ d.at = "sq_loop" /\ d.qid \in Sqs /\ d' = [d EXCEPT !.pos = Up(d.pos, sq_size)]
        /\ dispatched' = dispatched + 1 /\ nr_in_flight' = [nr_in_flight EXCEPT ![d.qid] = @ + 1]
        /\ UNCHANGED <<dbs, old_dbs, host, received>>
    BY <1>5, AcceptMoves
  <2>2. TotalInFlight' = TotalInFlight + 1
    <3>1. PICK k \in Sqs : k = d.qid
      BY <2>1
    <3>2. nr_in_flight' = [nr_in_flight EXCEPT ![k] = @ + 1] /\ 1 \in Int
      BY <2>1, <3>1
    <3> QED
      BY <1>t, <3>2, TotalShifts
  <2>3. d'.at = "sq_loop" /\ AckPos' = AckPos
    BY <1>t, <2>1 DEF AckPos
  <2>4. TotalInFlight' = dispatched' - received' + e
    BY <1>t, <1>b, <2>1, <2>2
  <2>5. Behind(e, b)'
    BY <1>b, <2>1, <2>3, <2>4 DEF Behind
  <2> QED
    BY <2>5 DEF CountInv
<1>6. ASSUME SqPoll \/ SqStop \/ CqAckEnd PROVE CountInv'
  <2>1. UNCHANGED <<dbs, host, nr_in_flight, dispatched, received>>
    BY <1>6 DEF SqPoll, SqStop, CqAckEnd
  <2>2. d'.at # "cq_loop"
    BY <1>6, <1>t, <1>p DEF SqPoll, SqStop, CqAckEnd
  <2>3. AckPos' = AckPos
    <3>1. CASE SqPoll
      BY <1>t, <2>2, <3>1 DEF SqPoll, AckPos
    <3>2. CASE SqStop
      BY <1>t, <2>2, <3>2 DEF SqStop, AckPos, Doorbells
    <3>3. CASE CqAckEnd
      BY <1>t, <2>2, <3>3 DEF CqAckEnd, AckPos, Doorbells
    <3> QED
      BY <1>6, <3>1, <3>2, <3>3
  <2>4. TotalInFlight' = TotalInFlight
    BY <2>1 DEF TotalInFlight
  <2>5. Behind(e, b)'
    BY <1>b, <2>1, <2>2, <2>3, <2>4 DEF Behind
  <2> QED
    BY <2>5 DEF CountInv
<1>7. ASSUME CqPoll PROVE CountInv'
  <2>1. UNCHANGED <<dbs, old_dbs, host, nr_in_flight, dispatched, received>>
    BY <1>7 DEF CqPoll
  <2>2. AckPos' = AckPos /\ (d'.at = "cq_loop" => d'.new_db = dbs.cq)
    BY <1>t, <1>7 DEF CqPoll, AckPos
  <2>3. TotalInFlight' = TotalInFlight
    BY <2>1 DEF TotalInFlight
  <2>4. d'.at = "cq_loop" => \E n \in Nat : n <= b /\ (AckPos' + n) % cq_size = d'.new_db
    <3>1. b \in Nat /\ b <= b
      OBVIOUS
    <3> QED
      BY <1>b, <2>2, <3>1
  <2>5. Behind(e, b)'
    BY <1>b, <2>1, <2>2, <2>3, <2>4 DEF Behind
  <2> QED
    BY <2>5 DEF CountInv
<1>8. ASSUME CqAck PROVE CountInv'
  <2>1. /\ d.at = "cq_loop" /\ d.pos # d.new_db
        /\ d' = [d EXCEPT !.pos = (d.pos + 1) % cq_size]
        /\ nr_in_flight' = [nr_in_flight EXCEPT ![cq.entry[d.pos].sq_id] = @ - 1]
        /\ UNCHANGED <<dbs, old_dbs, host, dispatched, received>>
    BY <1>8 DEF CqAck
  <2>2. (d.pos + 1) % cq_size = Up(d.pos, cq_size)
    BY <1>t, <2>1, CqUp
  <2>3. /\ AckPos = d.pos /\ AckPos' = Up(AckPos, cq_size)
        /\ d'.at = "cq_loop" /\ d'.new_db = d.new_db
    BY <1>t, <2>1, <2>2 DEF AckPos
  <2>4. cq.entry[d.pos].sq_id \in Sqs
    <3>1. d.pos \in CqSlots
      BY <1>t, <2>1
    <3>2. ASSUME Fresh(d.pos) PROVE FALSE
      <4>1. /\ d.pos >= PostHead /\ PostHead >= host.head /\ host.head >= dbs.cq
            /\ dbs.cq >= d.new_db /\ d.new_db >= d.pos
        BY <2>1, <3>2 DEF Fresh, Doorbell, AckPos
      <4>2. d.pos \in Int /\ PostHead \in Int /\ host.head \in Int /\ dbs.cq \in Int /\ d.new_db \in Int
        BY <1>t, <2>1, ViewsHold DEF Views
      <4> DEFINE x1 == d.pos
                 x2 == PostHead
                 x3 == host.head
                 x4 == dbs.cq
                 x5 == d.new_db
      <4>3. /\ x1 >= x2 /\ x2 >= x3 /\ x3 >= x4 /\ x4 >= x5 /\ x5 >= x1 /\ x1 # x5
            /\ x1 \in Int /\ x2 \in Int /\ x3 \in Int /\ x4 \in Int /\ x5 \in Int
        BY <2>1, <4>1, <4>2
      <4> HIDE DEF x1, x2, x3, x4, x5
      <4> QED
        BY <4>3
    <3> QED
      BY <3>1, <3>2 DEF FreshInv
  <2>5. TotalInFlight' = TotalInFlight + (-1)
    <3> DEFINE k == cq.entry[d.pos].sq_id
    <3>1. nr_in_flight' = [nr_in_flight EXCEPT ![k] = @ - 1] /\ k \in Sqs
      BY <2>1, <2>4
    <3> HIDE DEF k
    <3>2. nr_in_flight[k] - 1 = nr_in_flight[k] + (-1)
      BY <1>t, <3>1
    <3>3. nr_in_flight' = [nr_in_flight EXCEPT ![k] = @ + (-1)]
      BY <3>1, <3>2
    <3>4. -1 \in Int
      OBVIOUS
    <3> QED
      BY <1>t, <3>1, <3>3, <3>4, TotalShifts
  <2>6. PICK n \in Nat : n <= b /\ (AckPos + n) % cq_size = d.new_db
    BY <1>b, <2>1
  <2>7. n # 0
    BY <1>a, <2>1, <2>3, <2>6, CqApart
  <2>8. n - 1 \in Nat /\ b - 1 \in Nat /\ e - 1 \in Nat /\ n - 1 <= b - 1 /\ b - 1 <= e - 1
        /\ (n - 1) + 1 = n /\ (b - 1) + 1 = b /\ (e - 1) + 1 = e
    BY <1>b, <2>6, <2>7
  <2>9. \A k \in Nat : (Up(AckPos, cq_size) + k) % cq_size = (AckPos + (k + 1)) % cq_size
    BY <1>a, CqApart
  <2>10. /\ (AckPos' + (n - 1)) % cq_size = d.new_db
         /\ (AckPos' + (b - 1)) % cq_size = dbs.cq
         /\ (AckPos' + (e - 1)) % cq_size = host.head
    <3>1. (AckPos' + (n - 1)) % cq_size = (AckPos + ((n - 1) + 1)) % cq_size
      BY <2>3, <2>8, <2>9
    <3>2. (AckPos' + (b - 1)) % cq_size = (AckPos + ((b - 1) + 1)) % cq_size
      BY <2>3, <2>8, <2>9
    <3>3. (AckPos' + (e - 1)) % cq_size = (AckPos + ((e - 1) + 1)) % cq_size
      BY <2>3, <2>8, <2>9
    <3> QED
      BY <1>b, <2>6, <2>8, <3>1, <3>2, <3>3
  <2>11. TotalInFlight' = dispatched - received + (e - 1)
    BY <1>t, <1>b, <2>5
  <2>12. Behind(e - 1, b - 1)'
    <3>1. /\ TotalInFlight' = dispatched' - received' + (e - 1) /\ b - 1 <= e - 1
          /\ (AckPos' + (e - 1)) % cq_size = host'.head /\ (AckPos' + (b - 1)) % cq_size = dbs'.cq
      BY <2>1, <2>8, <2>10, <2>11
    <3>2. \E m \in Nat : m <= b - 1 /\ (AckPos' + m) % cq_size = d'.new_db
      BY <2>3, <2>8, <2>10
    <3> QED
      BY <3>1, <3>2 DEF Behind
  <2> QED
    BY <2>8, <2>12 DEF CountInv
<1>9. ASSUME NEW i \in Workers, Worker(i) PROVE CountInv'
  <2>1. /\ UNCHANGED <<d, old_dbs, nr_in_flight, dispatched, received, dbs>>
        /\ host'.head = host.head
    BY <1>9 DEF Worker, FillBegin, FillIds, FillStatus, FillEnd, IrqTry, IrqClear, IrqSignal,
                others, dispatchVars, TypeOK
  <2> QED
    BY <1>s, <2>1
<1> QED
  BY <1>1, <1>2, <1>3, <1>4, <1>5, <1>6, <1>7, <1>8, <1>9 DEF Next, Host, Dispatcher

-----------------------------------------------------------------------------
(* The inductive invariant.                                                 *)

LEMMA QInvInit == OneWorker /\ Init => QInv
<1> SUFFICES ASSUME OneWorker, Init PROVE QInv
  OBVIOUS
<1>1. TypeOK /\ FillerInv
  BY TypeInit
<1>2. /\ w[Filler].pc = "walk" /\ cq.cq_head = cq_start /\ cq.phase = 1
      /\ host.head = cq_start /\ host.phase = 1
      /\ dbs.cq = cq_start /\ old_dbs.cq = cq_start /\ d.at = "sq" /\ inflight = {}
      /\ dispatched = 0 /\ received = 0
      /\ \A i \in CqSlots : cq.entry[i].phase = IF i < cq_start THEN 1 ELSE 0
      /\ \A i \in CqSlots : i < cq_start => cq.entry[i].sq_id = 1
      /\ \A q \in Sqs : dbs.sq[q] = 0 /\ old_dbs.sq[q] = 0 /\ host.busy[q] = {}
  BY Sizes DEF Init, Walking, Polling
<1>3. PostHead = cq_start /\ PostPhase = 1 /\ AckPos = cq_start /\ Doorbell = cq_start
      /\ \A q \in Sqs : Front(q) = 0
  BY <1>2 DEF PostHead, PostPhase, AckPos, Doorbell, Front
<1>4. cq_start \in CqSlots /\ 0 \in SqSlots /\ CqSlots \subseteq Nat /\ 1 \in Sqs
  BY Sizes DEF cqid
<1>5. Unread = {} /\ NotPosted = {} /\ \A q \in Sqs : Waiting(q) = {}
  <2>1. /\ Unread = Between(cq_start, cq_start, cq_size) /\ NotPosted = {}
        /\ \A q \in Sqs : Waiting(q) = Between(0, 0, sq_size)
    BY <1>1, <1>2, <1>3, ViewsHold DEF Views
  <2>2. Between(cq_start, cq_start, cq_size) = {} /\ Between(0, 0, sq_size) = {}
    BY <1>4, SqRing, CqRing
  <2> QED
    BY <2>1, <2>2
<1>6. PlaceInv
  BY <1>2, <1>5 DEF PlaceInv, Placed, InSq, InTable, InCq
<1>7. LoopInv
  BY <1>2 DEF LoopInv
<1>8. PhaseInv
  <2>1. cq_start <= cq_start
    BY <1>4
  <2> QED
    BY <1>2, <1>3, <2>1 DEF PhaseInv
<1>9. FreshInv
  <2>1. cq_start >= cq_start /\ \A i \in CqSlots : i < cq_start \/ i >= cq_start
    BY <1>4
  <2> QED
    BY <1>2, <1>3, <1>4, <2>1 DEF FreshInv, Fresh
<1>10. CountInv
  <2>1. TotalInFlight = 0
    <3>1. nr_in_flight \in [Sqs -> Int] /\ \A q \in Sqs : nr_in_flight[q] = 0
      BY DEF Init
    <3>2. PICK g : Sums(nr_sq, nr_in_flight, g) /\ TotalInFlight = g[nr_sq]
      BY <3>1, TotalSumsHolds DEF TotalSums
    <3> DEFINE f == [q \in 0 .. nr_sq |-> 0]
    <3>3. nr_sq \in Nat /\ Sqs = 1 .. nr_sq /\ 1 \in Sqs /\ 0 \in Int
      BY Sizes DEF Sqs
    <3>4. Sums(nr_sq, nr_in_flight, f)
      <4>1. \A q \in 0 .. nr_sq : q # 0 => q \in Sqs /\ q - 1 \in 0 .. nr_sq
        BY <3>3
      <4>2. \A q \in 0 .. nr_sq : f[q] = IF q = 0 THEN 0 ELSE f[q-1] + nr_in_flight[q]
        BY <3>1, <4>1
      <4>3. f = [q \in 0 .. nr_sq |-> f[q]]
        OBVIOUS
      <4> HIDE DEF f
      <4> QED
        BY <4>2, <4>3 DEF Sums
    <3>5. f[nr_sq] = 0
      BY <3>3
    <3> HIDE DEF f
    <3>6. PICK n, c, s, k : n = nr_sq /\ c = nr_in_flight /\ s = nr_in_flight /\ k = 1
      OBVIOUS
    <3>7. n \in Nat /\ c \in [1 .. n -> Int] /\ k \in 1 .. n /\ Sums(n, c, f) /\ Sums(n, s, g)
      BY <3>1, <3>2, <3>3, <3>4, <3>6
    <3>8. PICK v \in Int : v = 0
      BY <3>3
    <3>9. s[k] = c[k] + v /\ \A q \in 1 .. n : q # k => s[q] = c[q]
      BY <3>6, <3>7, <3>8
    <3>10. f[n] \in Int /\ g[n] = f[n] + v
      BY <3>7, <3>9, SumShift, ZenonT(30)
    <3> QED
      BY <3>2, <3>5, <3>6, <3>8, <3>10
  <2>2. (cq_start + 0) % cq_size = cq_start
    BY <1>4, CqApart
  <2>3. Behind(0, 0)
    BY <1>2, <1>3, <2>1, <2>2 DEF Behind
  <2> QED
    BY <2>3 DEF CountInv
<1> QED
  BY <1>1, <1>6, <1>7, <1>8, <1>9, <1>10 DEF QInv

LEMMA QInvStep ==
  ASSUME OneWorker, QInv, [Next]_vars
  PROVE  QInv'
<1>1. TypeOK' /\ FillerInv'
  BY TypeStep DEF QInv
<1>2. PlaceInv' /\ LoopInv' /\ PhaseInv'
  BY <1>1, PlaceStep, LoopStep, PhaseStep DEF QInv
<1>3. FreshInv' /\ CountInv'
  BY <1>1, FreshStep, CountStep DEF QInv
<1> QED
  BY <1>1, <1>2, <1>3 DEF QInv

THEOREM Invariance ==
  ASSUME OneWorker
  PROVE  Spec => []QInv
<1>1. Init => QInv
  BY QInvInit
<1>2. QInv /\ [Next]_vars => QInv'
  BY QInvStep
<1> QED
  BY <1>1, <1>2, PTL DEF Spec

(* The rings, doorbells, completion entries and worker states keep their    *)
(* types: no index leaves its ring (SQ_ENTRY_TO_PAGE_NUM and CQ_ENTRY of    *)
(* nvmev.h index page tables with them).                                    *)
THEOREM TypeCorrect ==
  ASSUME OneWorker
  PROVE  Spec => []TypeOK
<1>1. QInv => TypeOK
  BY DEF QInv
<1> QED
  BY <1>1, Invariance, PTL

(* Through any number of wraps, the host takes the completion entry at its  *)
(* head for new exactly when __fill_cq_result has posted it in this round.  *)
THEOREM PhaseTells ==
  ASSUME OneWorker
  PROVE  Spec => []PhaseTellsNewEntries
<1>1. QInv => PhaseTellsNewEntries
  BY Tells DEF QInv, PhaseTellsNewEntries
<1> QED
  BY <1>1, Invariance, PTL

(* A command the driver has outstanding is in exactly one place: waiting in *)
(* its submission ring for nvmev_proc_io_sq, a request of a worker, or a    *)
(* completion entry the driver will read next time it looks.                *)
THEOREM NothingLostOrDoubled ==
  ASSUME OneWorker
  PROVE  Spec => []EveryCommandInOnePlace
<1>1. ASSUME QInv PROVE EveryCommandInOnePlace
  <2> SUFFICES ASSUME NEW q \in Sqs, NEW t \in Tags
               PROVE  Cardinality({i \in Waiting(q) : sq[q][i] = t})
                        + Cardinality({r \in NotPosted : r.sqid = q /\ r.command_id = t})
                        + Cardinality({i \in Unread : /\ cq.entry[i].sq_id = q
                                                      /\ cq.entry[i].command_id = t})
                      = IF t \in host.busy[q] THEN 1 ELSE 0
    BY DEF EveryCommandInOnePlace
  <2>1. Placed(q, t)
    BY <1>1 DEF QInv, PlaceInv
  <2>2. \A S : One(S) => Cardinality(S) = 1
    BY FS_Singleton DEF One
  <2>3. Cardinality({}) = 0
    BY FS_EmptySet
  <2> DEFINE a == Cardinality(InSq(q, t))
             b == Cardinality(InTable(q, t))
             c == Cardinality(InCq(q, t))
  <2>4. /\ t \in host.busy[q] => \/ a = 1 /\ b = 0 /\ c = 0
                                 \/ a = 0 /\ b = 1 /\ c = 0
                                 \/ a = 0 /\ b = 0 /\ c = 1
        /\ t \notin host.busy[q] => a = 0 /\ b = 0 /\ c = 0
    BY <2>1, <2>2, <2>3 DEF Placed
  <2>5. a + b + c = IF t \in host.busy[q] THEN 1 ELSE 0
    <3> HIDE DEF a, b, c
    <3> QED
      BY <2>4
  <2> QED
    BY <2>5 DEF InSq, InTable, InCq
<1> QED
  BY <1>1, Invariance, PTL

(* With one worker the cq_head that __fill_cq_result reads before it takes  *)
(* entry_lock is still the queue's when the entry is written.               *)
THEOREM NoEntryFilledTwice ==
  ASSUME OneWorker
  PROVE  Spec => []~crossed
<1>1. QInv => ~crossed
  BY DEF QInv, FillerInv
<1> QED
  BY <1>1, Invariance, PTL

(* nr_in_flight, which nvmev_proc_io_cq decrements by the sq_id it finds in *)
(* a slot, never counts too few commands, and once the dispatcher is back   *)
(* at the host's position it counts too many by whole rounds of the ring.   *)
THEOREM InFlightRight ==
  ASSUME OneWorker
  PROVE  Spec => []InFlightCounted
<1>1. ASSUME QInv PROVE InFlightCounted
  <2>1. PICK e \in Nat, b \in Nat : Behind(e, b)
    BY <1>1 DEF QInv, CountInv
  <2>2. TotalInFlight = dispatched - received + e /\ (AckPos + e) % cq_size = host.head
    BY <2>1 DEF Behind
  <2>3. /\ dispatched \in Nat /\ received \in Nat /\ old_dbs.cq \in CqSlots
        /\ CqSlots = 0 .. cq_size - 1 /\ cq_size \in Nat /\ cq_size > 0
    BY <1>1, Sizes DEF QInv, TypeOK, Doorbells
  <2>4. TotalInFlight - (dispatched - received) = e
    BY <2>2, <2>3
  <2>5. ASSUME d.at # "cq_loop" /\ old_dbs.cq = host.head PROVE e % cq_size = 0
    <3>1. PICK a \in CqSlots : (a + e) % cq_size = a
      BY <2>2, <2>3, <2>5 DEF AckPos
    <3> DEFINE size == cq_size
    <3>2. size \in Nat /\ size > 0 /\ a \in 0 .. size - 1 /\ (a + e) % size = a
      BY <2>3, <3>1
    <3> HIDE DEF size
    <3>3. PICK q \in Int, r \in 0 .. size - 1 : e = size * q + r /\ e % size = r
      <4> DEFINE q == e \div size
                 r == e % size
      <4>1. q \in Int /\ r \in 0 .. size - 1 /\ e = size * q + r
        BY <3>2, SMT
      <4> QED
        BY <4>1
    <3>4. \A n \in Int : \A s \in 0 .. size - 1 : (size * n + s) % size = s
      BY <3>2, SMT
    <3>5. CASE a + r < size
      <4>1. a + e = size * q + (a + r) /\ a + r \in 0 .. size - 1
        BY <3>2, <3>3, <3>5
      <4>2. (a + e) % size = a + r
        BY <3>3, <3>4, <4>1
      <4> QED
        BY <3>2, <3>3, <4>2 DEF size
    <3>6. CASE a + r >= size
      <4>1. a + e = size * (q + 1) + (a + r - size) /\ a + r - size \in 0 .. size - 1 /\ q + 1 \in Int
        BY <3>2, <3>3, <3>6
      <4>2. (a + e) % size = a + r - size
        BY <3>4, <4>1
      <4> QED
        BY <3>2, <3>3, <4>2
    <3> QED
      BY <3>2, <3>3, <3>5, <3>6
  <2>6. /\ TotalInFlight - (dispatched - received) >= 0
        /\ d.at # "cq_loop" /\ old_dbs.cq = host.head =>
             (TotalInFlight - (dispatched - received)) % cq_size = 0
    <3>1. e >= 0
      OBVIOUS
    <3> QED
      BY <2>4, <2>5, <3>1
  <2> QED
    BY <2>6 DEF InFlightCounted, TotalInFlight
<1> QED
  BY <1>1, Invariance, PTL

-----------------------------------------------------------------------------
(* The interrupt, with any number of workers filling the queue: the types   *)
(* of what its argument reads, which need no filler, and the steps that     *)
(* change the phase of an entry, the mark, or who has been interrupted.     *)

AnyRequest == [sqid : Sqs, command_id : Tags \cup {0}, worker : Workers, id : Nat]

SharedTypeOK ==
  /\ sq \in [Sqs -> [SqSlots -> Tags \cup {0}]]
  /\ dbs \in Doorbells /\ old_dbs \in Doorbells
  /\ d \in [at : {"sq", "sq_loop", "cq", "cq_loop"}, qid : Sqs, new_db : Nat, pos : Nat]
  /\ d.at = "sq_loop" => d.new_db \in SqSlots /\ d.pos \in SqSlots
  /\ d.at = "cq_loop" => d.new_db \in CqSlots
  /\ inflight \in SUBSET AnyRequest
  /\ dispatched \in Nat
  /\ cq \in [entry : [CqSlots -> CqEntry], cq_head : CqSlots, phase : {0, 1},
             interrupt_ready : BOOLEAN,
             entry_lock : Workers \cup {NoOne}, irq_lock : Workers \cup {NoOne}]
  /\ w \in [Workers -> [pc : Pcs, req : AnyRequest \cup {NoRequest}, cq_head : CqSlots]]
  /\ \A i \in Workers : w[i].pc = "lock" => w[i].req \in AnyRequest
  /\ host \in [busy : [Sqs -> SUBSET Tags], head : CqSlots, phase : {0, 1},
               irq : BOOLEAN, handling : BOOLEAN, submitted : Nat]

LEMMA SharedTypeInit == Init => SharedTypeOK
<1> SUFFICES ASSUME Init PROVE SharedTypeOK
  OBVIOUS
<1>1. 0 \in SqSlots /\ 0 \in CqSlots /\ 0 \in Nat /\ 1 \in Sqs /\ 1 \in Tags
      /\ cq_start \in CqSlots
  BY Sizes DEF cqid, Tags
<1>2. sq \in [Sqs -> [SqSlots -> Tags \cup {0}]] /\ dbs \in Doorbells /\ old_dbs \in Doorbells
  BY <1>1 DEF Init, Doorbells
<1>3. d \in [at : {"sq", "sq_loop", "cq", "cq_loop"}, qid : Sqs, new_db : Nat, pos : Nat]
      /\ d.at = "sq"
  BY <1>1 DEF Init, Polling
<1>4. cq \in [entry : [CqSlots -> CqEntry], cq_head : CqSlots, phase : {0, 1},
             interrupt_ready : BOOLEAN,
             entry_lock : Workers \cup {NoOne}, irq_lock : Workers \cup {NoOne}]
  <2>1. [command_id |-> 0, sq_id |-> 0, phase |-> 0] \in CqEntry
        /\ [command_id |-> 1, sq_id |-> 1, phase |-> 1] \in CqEntry
    BY <1>1 DEF CqEntry
  <2>2. [i \in CqSlots |-> IF i < cq_start THEN [command_id |-> 1, sq_id |-> 1, phase |-> 1]
                           ELSE [command_id |-> 0, sq_id |-> 0, phase |-> 0]]
        \in [CqSlots -> CqEntry]
    BY <2>1
  <2> QED
    BY <1>1, <2>2 DEF Init
<1>5. w \in [Workers -> [pc : Pcs, req : AnyRequest \cup {NoRequest}, cq_head : CqSlots]]
      /\ \A i \in Workers : w[i].pc = "walk"
  BY <1>1 DEF Init, Walking, Pcs
<1>6. host \in [busy : [Sqs -> SUBSET Tags], head : CqSlots, phase : {0, 1},
               irq : BOOLEAN, handling : BOOLEAN, submitted : Nat]
  BY <1>1 DEF Init
<1>7. inflight \in SUBSET AnyRequest /\ dispatched \in Nat
  BY DEF Init
<1> QED
  BY <1>2, <1>3, <1>4, <1>5, <1>6, <1>7 DEF SharedTypeOK

LEMMA WorkerOf == \A q \in Sqs : __get_io_worker(q) \in Workers
<1> SUFFICES ASSUME NEW q \in Sqs PROVE __get_io_worker(q) \in Workers
  OBVIOUS
<1> DEFINE n == nr_io_cpu
<1>1. n \in Nat /\ n > 0 /\ q - 1 \in Nat
  BY Sizes DEF Sqs
<1> HIDE DEF n
<1>2. (q - 1) % n \in 0 .. n - 1
  BY <1>1
<1> QED
  BY <1>2 DEF n, __get_io_worker, Workers

LEMMA SharedTypeStep ==
  ASSUME SharedTypeOK, [Next]_vars
  PROVE  SharedTypeOK'
<1> USE Sizes
<1> DEFINE DType == [at : {"sq", "sq_loop", "cq", "cq_loop"}, qid : Sqs, new_db : Nat, pos : Nat]
           CType == [entry : [CqSlots -> CqEntry], cq_head : CqSlots, phase : {0, 1},
                     interrupt_ready : BOOLEAN,
                     entry_lock : Workers \cup {NoOne}, irq_lock : Workers \cup {NoOne}]
           WType == [pc : Pcs, req : AnyRequest \cup {NoRequest}, cq_head : CqSlots]
           HType == [busy : [Sqs -> SUBSET Tags], head : CqSlots, phase : {0, 1},
                     irq : BOOLEAN, handling : BOOLEAN, submitted : Nat]
<1>t. /\ sq \in [Sqs -> [SqSlots -> Tags \cup {0}]]
      /\ dbs \in Doorbells /\ old_dbs \in Doorbells
      /\ d \in DType
      /\ d.at = "sq_loop" => d.new_db \in SqSlots /\ d.pos \in SqSlots
      /\ d.at = "cq_loop" => d.new_db \in CqSlots
      /\ inflight \in SUBSET AnyRequest /\ dispatched \in Nat
      /\ cq \in CType /\ w \in [Workers -> WType] /\ host \in HType
      /\ \A i \in Workers : w[i].pc = "lock" => w[i].req \in AnyRequest
  BY DEF SharedTypeOK
<1>n. Walking \in WType /\ Walking.pc = "walk"
  <2>1. 0 \in CqSlots /\ "walk" \in Pcs
    BY DEF Pcs
  <2> QED
    BY <2>1 DEF Walking
<1>p. AfterSq \in DType /\ AfterSq.at \notin {"sq_loop", "cq_loop"} /\ Polling("sq", 1) \in DType
      /\ Polling("sq", 1).at = "sq"
  <2>1. 1 \in Sqs /\ d.qid \in Sqs
    BY <1>t DEF Sqs
  <2>2. d.qid # nr_sq => d.qid + 1 \in Sqs
    BY <2>1 DEF Sqs
  <2>3. Polling("sq", 1) \in DType /\ Polling("cq", 1) \in DType
        /\ Polling("sq", 1).at = "sq" /\ Polling("cq", 1).at = "cq"
    BY <2>1 DEF Polling
  <2>4. d.qid # nr_sq => Polling("sq", d.qid + 1) \in DType /\ Polling("sq", d.qid + 1).at = "sq"
    BY <2>2 DEF Polling
  <2> QED
    BY <2>3, <2>4 DEF AfterSq
<1>1. ASSUME NEW q \in Sqs, NEW tag \in Tags, HostSubmit(q, tag) PROVE SharedTypeOK'
  <2>1. sq' \in [Sqs -> [SqSlots -> Tags \cup {0}]]
    BY <1>1, <1>t DEF HostSubmit, Doorbells
  <2>2. dbs' \in Doorbells
    <3>1. dbs.sq[q] \in SqSlots
      BY <1>t DEF Doorbells
    <3>2. (dbs.sq[q] + 1) % sq_size \in SqSlots
      BY <3>1, SqUp
    <3> DEFINE x == (dbs.sq[q] + 1) % sq_size
    <3> HIDE DEF x
    <3>3. dbs' = [dbs EXCEPT !.sq[q] = x]
      BY <1>1 DEF HostSubmit, x
    <3> QED
      BY <1>t, <3>2, <3>3 DEF Doorbells, x
  <2>3. host' \in HType
    <3> DEFINE x == [host EXCEPT !.busy[q] = @ \cup {tag}]
    <3>1. host' = [x EXCEPT !.submitted = @ + 1]
      BY <1>1, <1>t DEF HostSubmit
    <3>2. x \in HType
      BY <1>t, ZenonT(30)
    <3> HIDE DEF x
    <3>3. x.submitted + 1 \in Nat
      BY <3>2
    <3> QED
      BY <3>1, <3>2, <3>3
  <2> QED
    BY <1>1, <1>t, <2>1, <2>2, <2>3 DEF HostSubmit, dispatchVars, deviceVars, SharedTypeOK
<1>2. ASSUME HostPoll \/ HostInterrupt PROVE SharedTypeOK'
  <2>1. /\ host' = [host EXCEPT !.irq = FALSE, !.handling = TRUE]
           \/ host' = [host EXCEPT !.handling = TRUE]
        /\ UNCHANGED <<sq, dbs, dispatchVars, deviceVars, received>>
    BY <1>2 DEF HostPoll, HostInterrupt
  <2>2. host' \in HType
    BY <2>1, <1>t
  <2> QED
    BY <1>t, <2>1, <2>2 DEF dispatchVars, deviceVars, SharedTypeOK
<1>3. ASSUME HostConsume PROVE SharedTypeOK'
  <2> DEFINE e == cq.entry[host.head]
             wraps == host.head + 1 = cq_size
             x == [host EXCEPT !.busy[e.sq_id] = @ \ {e.command_id}]
             y == [x EXCEPT !.head = IF wraps THEN 0 ELSE @ + 1]
             z == [y EXCEPT !.phase = IF wraps THEN 1 - @ ELSE @]
  <2>1. host' = z
    BY <1>3, <1>t DEF HostConsume
  <2>2. x \in HType
    BY <1>t
  <2>3. host.head \in CqSlots /\ (~wraps => host.head + 1 \in CqSlots)
    BY <1>t, SMTT(30)
  <2>4. x.head = host.head
    BY <1>t
  <2> HIDE DEF x
  <2>5. y \in HType
    <3>1. (IF wraps THEN 0 ELSE x.head + 1) \in CqSlots
      BY <2>3, <2>4
    <3> DEFINE v == IF wraps THEN 0 ELSE x.head + 1
    <3>2. y = [x EXCEPT !.head = v] /\ v \in CqSlots
      BY <3>1
    <3> HIDE DEF v
    <3> QED
      BY <2>2, <3>2
  <2> HIDE DEF y
  <2>6. z \in HType
    <3>1. y.phase \in {0, 1}
      BY <2>5
    <3>2. 1 - y.phase \in {0, 1}
      BY <3>1
    <3> QED
      BY <3>1, <3>2, <2>5
  <2>7. host' \in HType
    BY <2>1, <2>6
  <2>8. UNCHANGED <<sq, dbs, dispatchVars, deviceVars>> 
    BY <1>3 DEF HostConsume
  <2> HIDE DEF z
  <2> QED
    BY <1>t, <2>7, <2>8 DEF dispatchVars, deviceVars, SharedTypeOK
<1>4. ASSUME HostDone PROVE SharedTypeOK'
  <2>1. host' \in HType
    BY <1>4, <1>t DEF HostDone
  <2>2. dbs' \in Doorbells
    BY <1>4, <1>t DEF HostDone, Doorbells
  <2> QED
    BY <1>4, <1>t, <2>1, <2>2 DEF HostDone, dispatchVars, deviceVars, SharedTypeOK
<1>5. ASSUME SqPoll \/ CqPoll PROVE SharedTypeOK'
  <2>1. /\ d' \in DType
        /\ d'.at = "sq_loop" => d'.new_db \in SqSlots /\ d'.pos \in SqSlots
        /\ d'.at = "cq_loop" => d'.new_db \in CqSlots
    <3>1. d.qid \in Sqs /\ dbs.sq[d.qid] \in SqSlots /\ old_dbs.sq[d.qid] \in SqSlots
          /\ dbs.cq \in CqSlots /\ old_dbs.cq \in CqSlots
      BY <1>t DEF Doorbells
    <3>2. SqSlots \subseteq Nat /\ CqSlots \subseteq Nat
      OBVIOUS
    <3> DEFINE u == [d EXCEPT !.at = "sq_loop", !.new_db = dbs.sq[d.qid],
                              !.pos = old_dbs.sq[d.qid]]
               v == [d EXCEPT !.at = "cq_loop", !.new_db = dbs.cq, !.pos = old_dbs.cq]
               x == [d EXCEPT !.at = "sq"]
    <3>3. d' = AfterSq \/ d' = u \/ d' = v \/ d' = x
      BY <1>5 DEF SqPoll, CqPoll
    <3>4. u \in DType /\ u.at = "sq_loop" /\ u.new_db \in SqSlots /\ u.pos \in SqSlots
      BY <1>t, <3>1, <3>2
    <3>5. v \in DType /\ v.at = "cq_loop" /\ v.new_db \in CqSlots /\ v.pos \in CqSlots
      BY <1>t, <3>1, <3>2
    <3>6. x \in DType /\ x.at = "sq"
      BY <1>t
    <3> HIDE DEF u, v, x
    <3> QED
      BY <1>p, <3>3, <3>4, <3>5, <3>6
  <2> QED
    BY <1>5, <1>t, <2>1 DEF SqPoll, CqPoll, dispatchVars, deviceVars, SharedTypeOK
<1>6. ASSUME SqAccept PROVE SharedTypeOK'
  <2> DEFINE r == [sqid |-> d.qid, command_id |-> sq[d.qid][d.pos],
                   worker |-> __get_io_worker(d.qid), id |-> dispatched + 1]
  <2>1. d.at = "sq_loop" /\ d.pos # d.new_db /\ d.qid \in Sqs /\ d.pos \in SqSlots /\ d.new_db \in SqSlots
    BY <1>6, <1>t DEF SqAccept
  <2>4. r \in AnyRequest
    <3>1. sq[d.qid][d.pos] \in Tags \cup {0}
      BY <2>1, <1>t
    <3>2. __get_io_worker(d.qid) \in Workers
      BY <2>1, WorkerOf
    <3>3. dispatched + 1 \in Nat
      BY <1>t
    <3> QED
      BY <2>1, <3>1, <3>2, <3>3 DEF AnyRequest
  <2>5. d' \in DType /\ d'.at = "sq_loop" /\ d'.pos \in SqSlots /\ d'.new_db = d.new_db
    <3>1. (d.pos + 1) % sq_size \in SqSlots
      BY <2>1, SqUp
    <3> DEFINE x == (d.pos + 1) % sq_size
    <3>2. d' = [d EXCEPT !.pos = x]
      BY <1>6 DEF SqAccept
    <3> HIDE DEF x
    <3>3. x \in SqSlots /\ x \in Nat
      BY <3>1 DEF x
    <3> QED
      BY <1>t, <2>1, <3>2, <3>3
  <2>6. inflight' = inflight \cup {r} /\ dispatched' = dispatched + 1
        /\ UNCHANGED <<sq, dbs, old_dbs, cq, w, host, received, crossed>>
    BY <1>6 DEF SqAccept
  <2> HIDE DEF r
  <2> QED
    BY <1>t, <2>1, <2>4, <2>5, <2>6, SMTT(30) DEF SharedTypeOK
<1>7. ASSUME SqStop PROVE SharedTypeOK'
  <2>1. old_dbs' \in Doorbells
    BY <1>7, <1>t DEF SqStop, Doorbells
  <2> QED
    BY <1>7, <1>t, <1>p, <2>1 DEF SqStop, deviceVars, SharedTypeOK
<1>8. ASSUME CqAck PROVE SharedTypeOK'
  <2>1. d.at = "cq_loop" /\ d.pos \in Nat
    BY <1>8, <1>t DEF CqAck
  <2>2. d' \in DType /\ d'.at = "cq_loop" /\ d'.new_db = d.new_db
    <3> DEFINE x == (d.pos + 1) % cq_size
    <3>1. x \in Nat
      BY <2>1
    <3>2. d' = [d EXCEPT !.pos = x]
      BY <1>8 DEF CqAck
    <3> HIDE DEF x
    <3>3. x \in Nat
      BY <3>1 DEF x
    <3> QED
      BY <1>t, <2>1, <3>2, <3>3
  <2> QED
    BY <1>8, <1>t, <2>1, <2>2 DEF CqAck, deviceVars, SharedTypeOK
<1>9. ASSUME CqAckEnd PROVE SharedTypeOK'
  <2>1. old_dbs' \in Doorbells
    BY <1>9, <1>t DEF CqAckEnd, Doorbells
  <2> QED
    BY <1>9, <1>t, <1>p, <2>1 DEF CqAckEnd, deviceVars, SharedTypeOK
<1>10. ASSUME NEW i \in Workers, Worker(i) PROVE SharedTypeOK'
  <2>o. UNCHANGED <<sq, dbs, old_dbs, d, nr_in_flight, dispatched, received>>
    BY <1>10 DEF Worker, FillBegin, FillIds, FillStatus, FillEnd, IrqTry, IrqClear, IrqSignal,
                 others, dispatchVars
  <2>m. ASSUME inflight' \in SUBSET AnyRequest, cq' \in CType, w' \in [Workers -> WType],
               host' \in HType, \A j \in Workers : w'[j].pc = "lock" => w'[j].req \in AnyRequest
        PROVE  SharedTypeOK'
    BY <2>o, <2>m, <1>t DEF SharedTypeOK
  <2>w. w[i] \in WType /\ w[i].pc \in Pcs
    BY <1>t
  <2>p. ASSUME NEW pc \in Pcs \ {"lock"}, w' = [w EXCEPT ![i].pc = pc]
        PROVE  /\ w' \in [Workers -> WType]
               /\ \A j \in Workers : w'[j].pc = "lock" => w'[j].req \in AnyRequest
    <3>1. w'[i].pc = pc /\ \A j \in Workers \ {i} : w'[j] = w[j]
      BY <1>t, <2>p
    <3>2. w' \in [Workers -> WType]
      BY <1>t, <2>w, <2>p
    <3> QED
      BY <1>t, <3>1, <3>2
  <2>1. ASSUME NEW r \in inflight, FillBegin(i, r) PROVE SharedTypeOK'
    <3>1. r \in AnyRequest /\ cq.cq_head \in CqSlots /\ "lock" \in Pcs
      BY <1>t DEF Pcs
    <3> DEFINE x == [pc |-> "lock", req |-> r, cq_head |-> cq.cq_head]
    <3>2. x \in WType /\ x.req = r
      BY <3>1
    <3>3. w' = [w EXCEPT ![i] = x] /\ UNCHANGED <<cq, inflight, host>>
      BY <2>1 DEF FillBegin
    <3> HIDE DEF x
    <3>4. w' \in [Workers -> WType] /\ w'[i] = x /\ \A j \in Workers \ {i} : w'[j] = w[j]
      BY <1>t, <3>2, <3>3
    <3>5. \A j \in Workers : w'[j].pc = "lock" => w'[j].req \in AnyRequest
      BY <1>t, <3>1, <3>2, <3>4
    <3> QED
      BY <2>m, <1>t, <3>3, <3>4, <3>5
  <2>2. ASSUME FillIds(i) PROVE SharedTypeOK'
    <3>1. w[i].pc = "lock" /\ w[i].req \in AnyRequest /\ w[i].cq_head \in CqSlots
      BY <1>t, <2>2 DEF FillIds
    <3> DEFINE c == w[i].cq_head
               x == [cq EXCEPT !.entry_lock = i]
               y == [x EXCEPT !.entry[c].command_id = w[i].req.command_id]
               z == [y EXCEPT !.entry[c].sq_id = w[i].req.sqid]
    <3>2. cq' = z /\ w' = [w EXCEPT ![i].pc = "status"] /\ UNCHANGED <<inflight, host>>
      BY <2>2 DEF FillIds
    <3>3. w[i].req.command_id \in Tags \cup {0} /\ w[i].req.sqid \in Sqs /\ c \in CqSlots
      BY <3>1 DEF AnyRequest
    <3>4. x \in CType
      BY <1>t
    <3> HIDE DEF c
    <3>5. y \in CType
      <4> HIDE DEF x
      <4>1. x.entry \in [CqSlots -> CqEntry] /\ x.entry[c] \in CqEntry
        BY <3>3, <3>4
      <4>2. [x.entry[c] EXCEPT !.command_id = w[i].req.command_id] \in CqEntry
        BY <4>1, <3>3 DEF CqEntry
      <4> QED
        BY <3>3, <3>4, <4>1, <4>2
    <3> HIDE DEF x, y
    <3>6. z \in CType
      <4>1. y.entry \in [CqSlots -> CqEntry] /\ y.entry[c] \in CqEntry
        BY <3>3, <3>5
      <4>2. [y.entry[c] EXCEPT !.sq_id = w[i].req.sqid] \in CqEntry
        BY <4>1, <3>3 DEF CqEntry
      <4> QED
        BY <3>3, <3>5, <4>1, <4>2
    <3> HIDE DEF z
    <3> QED
      BY <2>m, <2>p, <1>t, <3>2, <3>6 DEF Pcs
  <2>3. ASSUME FillStatus(i) PROVE SharedTypeOK'
    <3> DEFINE c == w[i].cq_head
    <3>1. cq' = [cq EXCEPT !.entry[c].phase = cq.phase]
          /\ w' = [w EXCEPT ![i].pc = "unlock"] /\ UNCHANGED <<inflight, host>>
      BY <2>3 DEF FillStatus
    <3>2. c \in CqSlots /\ cq.phase \in {0, 1}
      BY <1>t
    <3> HIDE DEF c
    <3>3. cq' \in CType
      <4>1. cq.entry \in [CqSlots -> CqEntry] /\ cq.entry[c] \in CqEntry
        BY <1>t, <3>2
      <4>2. [cq.entry[c] EXCEPT !.phase = cq.phase] \in CqEntry
        BY <4>1, <3>2 DEF CqEntry
      <4> QED
        BY <1>t, <3>1, <3>2, <4>1, <4>2
    <3> QED
      BY <2>m, <2>p, <1>t, <3>1, <3>3 DEF Pcs
  <2>4. ASSUME FillEnd(i) PROVE SharedTypeOK'
    <3>1. w[i].cq_head \in CqSlots
      BY <1>t
    <3> DEFINE h == IF w[i].cq_head + 1 = cq_size THEN 0 ELSE w[i].cq_head + 1
               p == IF w[i].cq_head + 1 = cq_size THEN 1 - cq.phase ELSE cq.phase
               x == [cq EXCEPT !.cq_head = h]
               y == [x EXCEPT !.phase = p]
               z == [y EXCEPT !.interrupt_ready = TRUE, !.entry_lock = NoOne]
    <3>2. h \in CqSlots /\ p \in {0, 1}
      BY <1>t, <3>1
    <3>3. cq' = z /\ w' = [w EXCEPT ![i] = Walking] /\ inflight' = inflight \ {w[i].req}
          /\ host' = host
      BY <1>t, <2>4 DEF FillEnd
    <3> HIDE DEF h, p
    <3>4. x \in CType
      BY <1>t, <3>2
    <3> HIDE DEF x
    <3>5. y \in CType
      BY <3>2, <3>4
    <3> HIDE DEF y
    <3>6. z \in CType
      BY <3>5
    <3> HIDE DEF z
    <3>7. w' \in [Workers -> WType] /\ w'[i].pc = "walk" /\ \A j \in Workers \ {i} : w'[j] = w[j]
      BY <1>t, <1>n, <3>3
    <3>8. \A j \in Workers : w'[j].pc = "lock" => w'[j].req \in AnyRequest
      BY <1>t, <3>7
    <3> QED
      BY <2>m, <1>t, <3>3, <3>6, <3>7, <3>8
  <2>5. ASSUME IrqTry(i) \/ IrqClear(i) \/ IrqSignal(i) PROVE SharedTypeOK'
    <3>1. PICK pc \in {"walk", "clear", "signal"} : w' = [w EXCEPT ![i].pc = pc]
      BY <2>5 DEF IrqTry, IrqClear, IrqSignal
    <3>2. pc \in Pcs \ {"lock"}
      BY DEF Pcs
    <3>3. cq' \in CType /\ host' \in HType /\ inflight' = inflight
      BY <1>t, <2>5, ZenonT(30) DEF IrqTry, IrqClear, IrqSignal
    <3> QED
      BY <2>m, <2>p, <1>t, <3>1, <3>2, <3>3
  <2> QED
    BY <1>10, <2>1, <2>2, <2>3, <2>4, <2>5 DEF Worker
<1>11. ASSUME UNCHANGED vars PROVE SharedTypeOK'
  BY <1>11, <1>t DEF vars, SharedTypeOK
<1> QED
  BY <1>1, <1>2, <1>3, <1>4, <1>5, <1>6, <1>7, <1>8, <1>9, <1>10, <1>11
  DEF Next, Host, Dispatcher

(* An entry becomes new to the host with its phase bit, or because the host *)
(* has moved on, which it does while it handles an interrupt.               *)
LEMMA InterruptStep ==
  ASSUME SharedTypeOK, InterruptNotLost, [Next]_vars
  PROVE  InterruptNotLost'
<1>t. /\ w \in [Workers -> [pc : Pcs, req : AnyRequest \cup {NoRequest}, cq_head : CqSlots]]
      /\ host \in [busy : [Sqs -> SUBSET Tags], head : CqSlots, phase : {0, 1},
                   irq : BOOLEAN, handling : BOOLEAN, submitted : Nat]
      /\ cq \in [entry : [CqSlots -> CqEntry], cq_head : CqSlots, phase : {0, 1},
                 interrupt_ready : BOOLEAN,
                 entry_lock : Workers \cup {NoOne}, irq_lock : Workers \cup {NoOne}]
  BY DEF SharedTypeOK
<1> DEFINE Busy(i) == w[i].pc \in {"unlock", "clear", "signal"}
<1>s. ASSUME host'.head = host.head, host'.phase = host.phase,
             cq'.entry[host.head].phase = cq.entry[host.head].phase,
             host.irq => host'.irq, host.handling => host'.handling,
             cq.interrupt_ready => cq'.interrupt_ready,
             \A i \in Workers : Busy(i) => w'[i].pc \in {"unlock", "clear", "signal"}
      PROVE  InterruptNotLost'
  BY <1>s DEF InterruptNotLost, HostSeesEntry
<1>1. ASSUME NEW q \in Sqs, NEW tag \in Tags, HostSubmit(q, tag) PROVE InterruptNotLost'
  <2>1. /\ host'.head = host.head /\ host'.phase = host.phase /\ host'.irq = host.irq
        /\ host'.handling = host.handling /\ UNCHANGED <<cq, w>>
    BY <1>1, <1>t DEF HostSubmit, deviceVars
  <2> QED
    BY <1>s, <2>1
<1>2. ASSUME HostPoll \/ HostInterrupt \/ HostConsume PROVE InterruptNotLost'
  <2>1. host'.handling
    BY <1>2, <1>t DEF HostPoll, HostInterrupt, HostConsume
  <2> QED
    BY <2>1 DEF InterruptNotLost
<1>3. ASSUME HostDone PROVE InterruptNotLost'
  <2>1. host'.head = host.head /\ host'.phase = host.phase /\ cq' = cq /\ ~HostSeesEntry
    BY <1>3, <1>t DEF HostDone, deviceVars
  <2> QED
    BY <2>1 DEF InterruptNotLost, HostSeesEntry
<1>4. ASSUME Dispatcher PROVE InterruptNotLost'
  <2>1. UNCHANGED <<cq, w, host>>
    BY <1>4 DEF Dispatcher, SqPoll, SqAccept, SqStop, CqPoll, CqAck, CqAckEnd, deviceVars
  <2> QED
    BY <1>s, <2>1
<1>5. ASSUME NEW i \in Workers, Worker(i) PROVE InterruptNotLost'
  <2>1. ASSUME NEW r \in inflight, FillBegin(i, r) PROVE InterruptNotLost'
    <3>1. ~Busy(i) /\ UNCHANGED <<cq, host>> /\ \A j \in Workers \ {i} : w'[j] = w[j]
      BY <1>t, <2>1 DEF FillBegin
    <3> QED
      BY <1>s, <3>1
  <2>2. ASSUME FillIds(i) PROVE InterruptNotLost'
    <3>1. ~Busy(i) /\ host' = host /\ \A j \in Workers \ {i} : w'[j] = w[j]
      BY <1>t, <2>2 DEF FillIds
    <3>2. cq'.interrupt_ready = cq.interrupt_ready
      BY <1>t, <2>2 DEF FillIds
    <3>3. cq'.entry[host.head].phase = cq.entry[host.head].phase
      <4> DEFINE c == w[i].cq_head
                 h == host.head
                 x == [cq.entry[c] EXCEPT !.command_id = w[i].req.command_id]
                 y == [x EXCEPT !.sq_id = w[i].req.sqid]
      <4>1. c \in CqSlots /\ h \in CqSlots /\ cq.entry \in [CqSlots -> CqEntry]
            /\ cq.entry[c] \in CqEntry
        BY <1>t
      <4>2. cq'.entry = [cq.entry EXCEPT ![c] = y]
        BY <1>t, <2>2 DEF FillIds
      <4>3. y.phase = cq.entry[c].phase
        BY <4>1 DEF CqEntry
      <4> HIDE DEF x, y, c, h
      <4>4. cq'.entry[h].phase = cq.entry[h].phase
        BY <4>1, <4>2, <4>3
      <4> QED
        BY <4>4 DEF h
    <3> QED
      BY <1>s, <3>1, <3>2, <3>3
  <2>3. ASSUME FillStatus(i) PROVE InterruptNotLost'
    <3>1. w'[i].pc = "unlock"
      BY <1>t, <2>3 DEF FillStatus
    <3> QED
      BY <3>1 DEF InterruptNotLost
  <2>4. ASSUME FillEnd(i) PROVE InterruptNotLost'
    <3>1. cq'.interrupt_ready
      BY <1>t, <2>4 DEF FillEnd
    <3> QED
      BY <3>1 DEF InterruptNotLost
  <2>5. ASSUME IrqTry(i) \/ IrqClear(i) PROVE InterruptNotLost'
    <3>1. w'[i].pc \in {"clear", "signal"}
      BY <1>t, <2>5 DEF IrqTry, IrqClear
    <3> QED
      BY <3>1 DEF InterruptNotLost
  <2>6. ASSUME IrqSignal(i) PROVE InterruptNotLost'
    <3>1. host'.irq
      BY <1>t, <2>6 DEF IrqSignal
    <3> QED
      BY <3>1 DEF InterruptNotLost
  <2> QED
    BY <1>5, <2>1, <2>2, <2>3, <2>4, <2>5, <2>6 DEF Worker
<1>6. ASSUME UNCHANGED vars PROVE InterruptNotLost'
  BY <1>s, <1>6 DEF vars
<1> QED
  BY <1>1, <1>2, <1>3, <1>4, <1>5, <1>6 DEF Next, Host

(* An entry that is new to the driver finds the queue marked                *)
(* interrupt_ready, a worker about to mark or to signal it, or the driver   *)
(* interrupted or reading: __fill_cq_result marks the queue under           *)
(* entry_lock, from any worker, while nvmev_kthread_io clears the mark      *)
(* under irq_lock before nvmev_signal_irq.                                  *)
THEOREM NoInterruptLost == Spec => []InterruptNotLost
<1>1. Init => SharedTypeOK /\ InterruptNotLost
  <2>1. ASSUME Init PROVE ~HostSeesEntry
    <3>1. cq_start \in CqSlots /\ ~(cq_start < cq_start)
      BY Sizes
    <3> QED
      BY <2>1, <3>1 DEF Init, HostSeesEntry
  <2> QED
    BY <2>1, SharedTypeInit DEF InterruptNotLost
<1>2. (SharedTypeOK /\ InterruptNotLost) /\ [Next]_vars => (SharedTypeOK /\ InterruptNotLost)'
  BY SharedTypeStep, InterruptStep
<1> QED
  BY <1>1, <1>2, PTL DEF Spec
=============================================================================
