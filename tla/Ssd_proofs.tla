----------------------------- MODULE Ssd_proofs -----------------------------
(***************************************************************************)
(* Proofs about ChannelModel and Ssd.                                      *)
(*                                                                         *)
(* First the credit ring by itself, for every size of the ring, interval,  *)
(* bandwidth and width of the counters.  What an entry is filled with is   *)
(* FullSlot: the bandwidth of a slot while it fits a credit_t.  The times  *)
(* a clock shows are not bounded: where the uint32_t offset comes out too  *)
(* short the history variable shortened says so, and RingShowsTime speaks  *)
(* of behaviours up to there; the types and the window need no such guard. *)
(*                                                                         *)
(* Then the NAND commands: the channel's ring stays right under their      *)
(* requests, whose times may lie behind LastTime, and the dies serve their *)
(* commands in turn, for any number of dies, latencies and sizes.          *)
(***************************************************************************)
EXTENDS Ssd, WellFoundedInduction, TLAPS

-----------------------------------------------------------------------------
(* The inductive invariant.  RingShowsTime needs two facts more: what lies *)
(* outside the window is unused, also in the middle of a call, whose       *)
(* entries the window does not cover yet; and so is everything behind the  *)
(* end of the ring.                                                        *)
UnusedOutside ==
    \A p \in Entries :
        Ahead(head, p) >= valid_len /\ (call.pc = "loop" => Ahead(head, p) >= Ahead(head, call.pos))
            => avail_credits[p] = FullSlot

FutureUnused ==
    \A s \in TimeSlots : s >= Slot(cur_time) + NR_CREDIT_ENTRIES => used[s] = 0

DelayBounded == call.pc = "loop" => call.delay <= Ahead(head, call.pos)

IInv == TypeOK /\ RingShowsTime /\ UnusedOutside /\ FutureUnused /\ DelayBounded

-----------------------------------------------------------------------------
(* Dividing a time by the interval of a slot gives a natural number. *)
LEMMA DivNat ==
    ASSUME NEW a \in Nat, NEW i \in Nat \ {0}
    PROVE  a \div i \in Nat
BY SMT

(* Division by the interval of a slot is monotonic. *)
LEMMA DivMonotonic ==
    ASSUME NEW a \in Nat, NEW b \in Nat, NEW i \in Nat \ {0}, a <= b
    PROVE  a \div i <= b \div i
BY SMT

(* A value cut off at the width of its type is a natural number. *)
LEMMA ModNat ==
    ASSUME NEW a \in Nat, NEW i \in Nat \ {0}
    PROVE  a % i \in Nat
BY SMT

(* What an entry is filled with. *)
LEMMA FullSlotNat == FullSlot \in Nat
BY RingAssumption, ModNat DEF FullSlot

(* Slots of times are ordered as the times are. *)
LEMMA SlotFacts ==
    /\ \A t \in Times : Slot(t) \in 0..Slot(LastTime)
    /\ \A t, u \in Times : t <= u => Slot(t) <= Slot(u)
    /\ Slot(LastTime) \in Nat
<1>1. UNIT_TIME_INTERVAL \in Nat \ {0} /\ LastTime \in Nat
  BY RingAssumption
<1>2. Slot(LastTime) \in Nat
  BY <1>1, DivNat DEF Slot
<1>3. \A t, u \in Times : t <= u => Slot(t) <= Slot(u)
  BY <1>1, DivMonotonic DEF Slot, Times
<1>4. \A t \in Times : Slot(t) \in 0..Slot(LastTime)
  <2> SUFFICES ASSUME NEW t \in Times PROVE Slot(t) \in 0..Slot(LastTime)
    OBVIOUS
  <2>1. t \in Nat /\ t <= LastTime /\ LastTime \in Times
    BY <1>1 DEF Times
  <2>2. Slot(t) \in Nat
    BY <1>1, <2>1, DivNat DEF Slot
  <2> QED
    BY <1>2, <1>3, <2>1, <2>2
<1> QED
  BY <1>2, <1>3, <1>4

(* Positions on the ring: distances from head are positions, different for *)
(* different entries, and wrapping around gives a position again.          *)
LEMMA RingFacts ==
    /\ NR_CREDIT_ENTRIES \in Nat \ {0}
    /\ \A h, p \in Entries : Ahead(h, p) \in Entries
    /\ \A h, p, q \in Entries : Ahead(h, p) = Ahead(h, q) => p = q
    /\ \A h \in Entries, k \in 0..NR_CREDIT_ENTRIES : Wrap(h + k) \in Entries
BY RingAssumption DEF Ahead, Wrap, Entries

(* A distance on the ring is less than its size. *)
LEMMA AheadRange ==
    ASSUME NEW h \in Entries, NEW p \in Entries
    PROVE  /\ Ahead(h, p) \in Entries
           /\ Ahead(h, p) \in Nat
           /\ Ahead(h, p) < NR_CREDIT_ENTRIES
<1>1. Ahead(h, p) \in Entries
  BY RingFacts
<1> QED
  BY <1>1, RingAssumption DEF Entries

(* The entry k places ahead of h. *)
LEMMA EntryAt ==
    ASSUME NEW h \in Entries, NEW k \in Nat, k < NR_CREDIT_ENTRIES
    PROVE  Wrap(h + k) \in Entries /\ Ahead(h, Wrap(h + k)) = k
BY RingAssumption DEF Ahead, Wrap, Entries

(* What moving head by k entries does to the distance of the others. *)
LEMMA AheadMove ==
    \A h, p \in Entries, k \in 0..NR_CREDIT_ENTRIES :
        Ahead(Wrap(h + k), p) = IF Ahead(h, p) >= k THEN Ahead(h, p) - k
                                ELSE Ahead(h, p) + NR_CREDIT_ENTRIES - k
BY RingAssumption DEF Ahead, Wrap, Entries

(* The entry after p, if the ring does not end there. *)
LEMMA AheadNext ==
    \A h, p \in Entries : /\ Wrap(p + 1) \in Entries
                          /\ Wrap(p + 1) # h => Ahead(h, Wrap(p + 1)) = Ahead(h, p) + 1
BY RingAssumption DEF Ahead, Wrap, Entries

(* Every entry stands for a slot of the history. *)
LEMMA SlotOfType ==
    ASSUME TypeOK, NEW p \in Entries
    PROVE  SlotOf(p) \in TimeSlots /\ SlotOf(p) < Slot(cur_time) + NR_CREDIT_ENTRIES
<1>1. head \in Entries /\ cur_time \in Times
  BY DEF TypeOK
<1>2. Slot(cur_time) \in 0..Slot(LastTime) /\ Slot(LastTime) \in Nat
  BY <1>1, SlotFacts
<1>3. Ahead(head, p) \in Nat /\ Ahead(head, p) < NR_CREDIT_ENTRIES
  BY <1>1, AheadRange
<1> QED
  BY <1>2, <1>3, RingAssumption DEF SlotOf, TimeSlots

-----------------------------------------------------------------------------
(* chmodel_init establishes the invariant. *)
LEMMA InitIInv == Init => IInv
<1> SUFFICES ASSUME Init PROVE IInv
  OBVIOUS
<1> USE RingAssumption
<1>1. TypeOK
  <2>1. FullSlot \in 0..FullSlot
    BY FullSlotNat
  <2>2. avail_credits \in [Entries -> 0..FullSlot] /\ shortened \in BOOLEAN
    BY <2>1 DEF Init
  <2>3. head \in Entries /\ valid_len \in 0..NR_CREDIT_ENTRIES /\ cur_time \in Times
    BY DEF Init, Entries, Times
  <2>4. answer \in Nat /\ used \in [TimeSlots -> Nat] /\ call = NoCall
    BY DEF Init
  <2> QED
    BY <2>2, <2>3, <2>4 DEF TypeOK
<1>2. \A p \in Entries : SlotOf(p) \in TimeSlots
  BY <1>1, SlotOfType
<1>3. RingShowsTime
  BY <1>2, FullSlotNat DEF Init, RingShowsTime
<1>4. UnusedOutside /\ FutureUnused /\ DelayBounded
  BY DEF Init, UnusedOutside, FutureUnused, DelayBounded, NoCall
<1> QED
  BY <1>1, <1>3, <1>4 DEF IInv

(* Moving head keeps the ring in step with time. *)
LEMMA MoveHeadFacts ==
    ASSUME IInv, call.pc = "none",
           NEW now \in Times, now >= cur_time, MoveHead(now), UNCHANGED used
    PROVE  /\ head' \in Entries
           /\ valid_len' \in 0..NR_CREDIT_ENTRIES
           /\ cur_time' \in Times
           /\ avail_credits' \in [Entries -> 0..FullSlot]
           /\ shortened' \in BOOLEAN
           /\ RingShowsTime'
           /\ \A p \in Entries : Ahead(head', p) >= valid_len' => avail_credits'[p] = FullSlot
           /\ FutureUnused'
<1> DEFINE D == Slot(now) - Slot(cur_time)
           offs == TimeOffset(now)
<1> USE RingAssumption
<1>1. /\ head \in Entries /\ valid_len \in 0..NR_CREDIT_ENTRIES /\ cur_time \in Times
      /\ avail_credits \in [Entries -> 0..FullSlot] /\ used \in [TimeSlots -> Nat]
  BY DEF IInv, TypeOK
<1>2. D \in Nat /\ Slot(now) \in Nat /\ Slot(cur_time) \in Nat
  BY <1>1, SlotFacts DEF Times
<1>3. D % UintRange \in Nat
  BY <1>2, ModNat
<1>4. offs \in 0..NR_CREDIT_ENTRIES /\ offs <= valid_len
  BY <1>1, <1>3 DEF TimeOffset, Least
<1>5. /\ head' = Wrap(head + offs) /\ valid_len' = valid_len - offs /\ cur_time' = now
      /\ avail_credits' = [i \in Entries |-> IF Ahead(head, i) < offs THEN FullSlot
                                             ELSE avail_credits[i]]
  BY DEF MoveHead
<1>11. /\ shortened' \in BOOLEAN
       /\ ~shortened' => ~shortened /\ offs = IF D <= valid_len THEN D ELSE valid_len
  BY DEF MoveHead, NoteShortened, Least
<1> HIDE DEF D, offs
<1>6. /\ head' \in Entries
      /\ valid_len' \in 0..NR_CREDIT_ENTRIES
      /\ cur_time' \in Times
      /\ avail_credits' \in [Entries -> 0..FullSlot]
  <2>1. FullSlot \in 0..FullSlot
    BY FullSlotNat
  <2>2. avail_credits' \in [Entries -> 0..FullSlot]
    BY <1>1, <1>5, <2>1
  <2>3. head' \in Entries
    BY <1>1, <1>4, <1>5, RingFacts
  <2>4. valid_len' \in 0..NR_CREDIT_ENTRIES /\ cur_time' \in Times
    BY <1>1, <1>4, <1>5
  <2> QED
    BY <2>2, <2>3, <2>4
<1>7. \A p \in Entries : Ahead(head, p) >= valid_len => avail_credits[p] = FullSlot
  BY DEF IInv, UnusedOutside
<1>8. \A p \in Entries : Ahead(head', p) >= valid_len' => avail_credits'[p] = FullSlot
  <2> SUFFICES ASSUME NEW p \in Entries, Ahead(head', p) >= valid_len'
               PROVE  avail_credits'[p] = FullSlot
    OBVIOUS
  <2>1. Ahead(head, p) \in Entries
    BY <1>1, RingFacts
  <2>2. Ahead(head', p) = IF Ahead(head, p) >= offs THEN Ahead(head, p) - offs
                          ELSE Ahead(head, p) + NR_CREDIT_ENTRIES - offs
    BY <1>1, <1>4, <1>5, AheadMove
  <2>3. Ahead(head, p) < offs \/ Ahead(head, p) >= valid_len
    BY <1>1, <1>4, <1>5, <2>1, <2>2 DEF Entries
  <2> QED
    BY <1>5, <1>7, <2>3
<1>9. FutureUnused'
  <2>1. Slot(now) >= Slot(cur_time)
    BY <1>1, <1>2, SlotFacts DEF D
  <2> SUFFICES ASSUME NEW s \in TimeSlots, s >= Slot(now) + NR_CREDIT_ENTRIES
               PROVE  used[s] = 0
    BY <1>5 DEF FutureUnused
  <2>2. s \in Nat
    BY SlotFacts DEF TimeSlots
  <2>3. s >= Slot(cur_time) + NR_CREDIT_ENTRIES
    BY <1>2, <2>1, <2>2
  <2> QED
    BY <2>3 DEF IInv, FutureUnused
<1>10. RingShowsTime'
  <2> SUFFICES ASSUME ~shortened', NEW p \in Entries
               PROVE  avail_credits'[p] + used[Slot(now) + Ahead(head', p)] = FullSlot
    BY <1>5 DEF RingShowsTime, SlotOf
  <2>0. ~shortened /\ offs = (IF D <= valid_len THEN D ELSE valid_len) /\ offs <= D
    BY <1>1, <1>2, <1>11
  <2>1. /\ Ahead(head, p) \in Entries /\ Ahead(head', p) \in Entries
        /\ Ahead(head', p) = IF Ahead(head, p) >= offs THEN Ahead(head, p) - offs
                             ELSE Ahead(head, p) + NR_CREDIT_ENTRIES - offs
    <3>1. Ahead(head, p) \in Entries /\ Ahead(head', p) \in Entries
      BY <1>1, <1>6, RingFacts
    <3>2. Ahead(Wrap(head + offs), p) = IF Ahead(head, p) >= offs THEN Ahead(head, p) - offs
                                        ELSE Ahead(head, p) + NR_CREDIT_ENTRIES - offs
      BY <1>1, <1>4, AheadMove
    <3> QED
      BY <1>5, <3>1, <3>2
  <2>2. avail_credits[p] + used[Slot(cur_time) + Ahead(head, p)] = FullSlot
    BY <2>0 DEF IInv, RingShowsTime, SlotOf
  <2>3. Slot(now) = Slot(cur_time) + D
    BY <1>2 DEF D
  <2>4. Slot(now) + Ahead(head', p) \in TimeSlots
    BY <2>1, SlotFacts DEF TimeSlots, Entries
  <2>5. avail_credits'[p] = IF Ahead(head, p) < offs THEN FullSlot ELSE avail_credits[p]
    BY <1>5
  <2>6. CASE offs = D /\ Ahead(head, p) >= offs
    <3>1. Ahead(head, p) \in Nat
      BY <1>1, AheadRange
    <3>2. Slot(now) + Ahead(head', p) = Slot(cur_time) + Ahead(head, p)
      BY <1>2, <2>1, <2>3, <2>6, <3>1
    <3>3. ~(Ahead(head, p) < offs)
      BY <1>2, <2>6, <3>1
    <3> QED
      BY <2>2, <2>5, <3>2, <3>3
  <2>7. CASE offs = D /\ Ahead(head, p) < offs
    <3>1. Slot(now) + Ahead(head', p) >= Slot(cur_time) + NR_CREDIT_ENTRIES
      BY <1>2, <1>4, <2>0, <2>1, <2>3, <2>7 DEF Entries
    <3>2. used[Slot(now) + Ahead(head', p)] = 0
      BY <2>4, <3>1 DEF IInv, FutureUnused
    <3> QED
      BY <2>5, <2>7, <3>2, FullSlotNat
  <2>8. CASE offs # D
    <3>1. offs = valid_len /\ D > valid_len
      BY <1>1, <1>2, <2>0, <2>8
    <3>2. avail_credits'[p] = FullSlot
      BY <1>1, <1>7, <2>1, <2>5, <3>1 DEF Entries
    <3> DEFINE s == Slot(now) + Ahead(head', p)
    <3>3. CASE s >= Slot(cur_time) + NR_CREDIT_ENTRIES
      BY <2>4, <3>2, <3>3, FullSlotNat DEF IInv, FutureUnused
    <3>4. CASE s < Slot(cur_time) + NR_CREDIT_ENTRIES
      <4> DEFINE k == D + Ahead(head', p)
                 q == Wrap(head + k)
      <4>0. Ahead(head', p) \in Nat
        BY <1>6, AheadRange
      <4>1. k \in Nat /\ k < NR_CREDIT_ENTRIES /\ k > valid_len /\ s = Slot(cur_time) + k
        BY <1>1, <1>2, <2>3, <3>1, <3>4, <4>0
      <4> HIDE DEF k
      <4>2. q \in Entries /\ Ahead(head, q) = k
        BY <1>1, <4>1, EntryAt
      <4> HIDE DEF q
      <4>3. avail_credits[q] = FullSlot
        BY <1>1, <1>7, <4>1, <4>2
      <4>4. avail_credits[q] + used[Slot(cur_time) + Ahead(head, q)] = FullSlot
        BY <2>0, <4>2 DEF IInv, RingShowsTime, SlotOf
      <4>5. Slot(cur_time) + Ahead(head, q) = s /\ s \in TimeSlots
        BY <2>4, <4>1, <4>2
      <4>6. used[s] = 0
        BY <1>1, <4>3, <4>4, <4>5, FullSlotNat
      <4> QED
        BY <3>2, <4>6, FullSlotNat
    <3> QED
      BY <1>2, <2>1, <3>3, <3>4 DEF Entries
  <2> QED
    BY <1>4, <2>1, <2>6, <2>7, <2>8 DEF Entries
<1> QED
  BY <1>6, <1>8, <1>9, <1>10, <1>11

-----------------------------------------------------------------------------
(* The start of chmodel_request keeps the invariant, with or without an    *)
(* early return.                                                           *)
LEMMA RequestIInv ==
    ASSUME IInv,
           NEW now \in Times, NEW t \in Nat, NEW units \in 0..MaxUnits,
           chmodel_request(now, t, units)
    PROVE  IInv'
<1> USE RingAssumption
<1> DEFINE offs == RequestOffset(now, t)
<1>1. call.pc = "none" /\ now >= cur_time /\ MoveHead(now) /\ UNCHANGED used
  BY DEF chmodel_request
<1>2. /\ head' \in Entries
      /\ valid_len' \in 0..NR_CREDIT_ENTRIES
      /\ cur_time' \in Times
      /\ avail_credits' \in [Entries -> 0..FullSlot]
      /\ shortened' \in BOOLEAN
      /\ RingShowsTime'
      /\ \A p \in Entries : Ahead(head', p) >= valid_len' => avail_credits'[p] = FullSlot
      /\ FutureUnused'
  BY <1>1, MoveHeadFacts
<1>3. answer \in Nat /\ used' \in [TimeSlots -> Nat] /\ call = NoCall
  BY <1>1 DEF IInv, TypeOK
<1>4. CASE t < now \/ offs >= NR_CREDIT_ENTRIES
  <2>1. answer' = t /\ call' = NoCall
    BY <1>3, <1>4 DEF chmodel_request
  <2>2. TypeOK'
    BY <1>2, <1>3, <2>1 DEF TypeOK, Times
  <2>3. UnusedOutside' /\ DelayBounded'
    BY <1>2, <2>1 DEF UnusedOutside, DelayBounded, NoCall
  <2> QED
    BY <1>2, <2>2, <2>3 DEF IInv
<1>5. CASE ~(t < now \/ offs >= NR_CREDIT_ENTRIES)
  <2>1. /\ call' = [pc |-> "loop", time |-> t, units |-> units,
                    pos |-> Wrap(head' + offs), remaining |-> units, delay |-> 0]
        /\ answer' = answer
    BY <1>5 DEF chmodel_request
  <2>2. offs \in 0..NR_CREDIT_ENTRIES
    <3>1. Slot(t) - Slot(now) \in Int
      BY SlotFacts, DivNat DEF Slot
    <3>2. offs \in Nat
      BY <3>1 DEF RequestOffset
    <3> QED
      BY <1>5, <3>2
  <2>3. Wrap(head' + offs) \in Entries
    BY <1>2, <2>2, RingFacts
  <2>4. TypeOK'
    BY <1>2, <1>3, <2>1, <2>3 DEF TypeOK
  <2>5. Ahead(head', call'.pos) \in Nat /\ call'.delay = 0
    BY <1>2, <2>1, <2>3, RingFacts, SMTT(30) DEF Entries
  <2>6. UnusedOutside' /\ DelayBounded'
    BY <1>2, <2>5 DEF UnusedOutside, DelayBounded
  <2> QED
    BY <1>2, <2>4, <2>6 DEF IInv
<1> QED
  BY <1>4, <1>5

(* One iteration of the loop: the entry and the history change by the same *)
(* amount.                                                                 *)
LEMMA TakeCreditsIInv ==
    ASSUME IInv, TakeCredits
    PROVE  IInv'
<1> USE RingAssumption
<1> DEFINE p == call.pos
           consumed == Least(call.remaining, avail_credits[p])
           left == call.remaining - consumed
           length == WindowLength(p)
<1>1. /\ call \in [pc : {"loop"}, time : Nat, units : 0..MaxUnits, pos : Entries,
                   remaining : 0..MaxUnits, delay : 0..NR_CREDIT_ENTRIES - 1]
      /\ call.pc = "loop"
  BY DEF TakeCredits, IInv, TypeOK, NoCall
<1>2. /\ head \in Entries /\ valid_len \in 0..NR_CREDIT_ENTRIES /\ cur_time \in Times
      /\ avail_credits \in [Entries -> 0..FullSlot] /\ used \in [TimeSlots -> Nat]
      /\ answer \in Nat /\ shortened \in BOOLEAN
  BY DEF IInv, TypeOK
<1>3. p \in Entries /\ avail_credits[p] \in 0..FullSlot /\ call.remaining \in 0..MaxUnits
  BY <1>1, <1>2
<1>4. consumed \in 0..avail_credits[p] /\ left \in 0..MaxUnits
  BY <1>3, FullSlotNat DEF Least
<1>5. /\ avail_credits' = [avail_credits EXCEPT ![p] = @ - consumed]
      /\ used' = [used EXCEPT ![SlotOf(p)] = @ + consumed]
      /\ head' = head /\ cur_time' = cur_time /\ shortened' = shortened
  BY DEF TakeCredits
<1> HIDE DEF consumed
<1>6. avail_credits' \in [Entries -> 0..FullSlot]
  BY <1>2, <1>3, <1>4, <1>5, FullSlotNat
<1>7. SlotOf(p) \in TimeSlots /\ SlotOf(p) < Slot(cur_time) + NR_CREDIT_ENTRIES
  BY <1>3, SlotOfType DEF IInv
<1>8. used' \in [TimeSlots -> Nat]
  BY <1>2, <1>3, <1>4, <1>5, <1>7
<1>9. Slot(cur_time) \in Nat
  BY <1>2, SlotFacts
<1>10. RingShowsTime'
  <2> SUFFICES ASSUME ~shortened, NEW q \in Entries
               PROVE  avail_credits'[q] + used'[SlotOf(q)] = FullSlot
    BY <1>5 DEF RingShowsTime, SlotOf
  <2>1. avail_credits[q] + used[SlotOf(q)] = FullSlot /\ SlotOf(q) \in TimeSlots
    BY SlotOfType DEF IInv, RingShowsTime
  <2>2. CASE q = p
    BY <1>2, <1>3, <1>4, <1>5, <1>7, <2>1, <2>2, FullSlotNat
  <2>3. CASE q # p
    <3>1. Ahead(head, q) # Ahead(head, p) /\ Ahead(head, q) \in Int /\ Ahead(head, p) \in Int
      BY <1>2, <1>3, <2>3, RingFacts, AheadRange
    <3>2. SlotOf(q) # SlotOf(p)
      BY <1>9, <3>1 DEF SlotOf
    <3> QED
      BY <1>2, <1>5, <2>1, <2>3, <3>2
  <2> QED
    BY <2>2, <2>3
<1>11. FutureUnused'
  <2> SUFFICES ASSUME NEW s \in TimeSlots, s >= Slot(cur_time) + NR_CREDIT_ENTRIES
               PROVE  used'[s] = 0
    BY <1>5 DEF FutureUnused
  <2>1. s # SlotOf(p)
    BY <1>7, <1>9 DEF TimeSlots
  <2> QED
    BY <1>2, <1>5, <2>1 DEF IInv, FutureUnused
<1>12. \A q \in Entries : Ahead(head, q) >= valid_len /\ Ahead(head, q) > Ahead(head, p)
                             => avail_credits'[q] = FullSlot
  <2> SUFFICES ASSUME NEW q \in Entries, Ahead(head, q) >= valid_len, Ahead(head, q) > Ahead(head, p)
               PROVE  avail_credits'[q] = FullSlot
    OBVIOUS
  <2>1. Ahead(head, q) \in Int /\ Ahead(head, p) \in Int
    BY <1>2, <1>3, AheadRange
  <2>2. q # p /\ avail_credits[q] = FullSlot
    BY <1>1, <2>1 DEF IInv, UnusedOutside
  <2> QED
    BY <1>2, <1>5, <2>2
<1>13. Ahead(head, p) \in Entries /\ call.delay \in Nat /\ call.delay <= Ahead(head, p)
  BY <1>1, <1>2, <1>3, RingFacts DEF IInv, DelayBounded
<1>14. CASE left > 0 /\ ~RingEnd(p)
  <2>1. /\ call' = [call EXCEPT !.pos = Wrap(p + 1), !.remaining = left, !.delay = @ + 1]
        /\ valid_len' = valid_len /\ answer' = answer
    BY <1>14 DEF TakeCredits, consumed
  <2>2. Wrap(p + 1) \in Entries /\ Ahead(head, Wrap(p + 1)) = Ahead(head, p) + 1
    BY <1>2, <1>3, <1>14, AheadNext DEF RingEnd
  <2>3. Ahead(head, Wrap(p + 1)) \in Entries
    BY <1>2, <2>2, RingFacts
  <2>4. call.delay + 1 \in 0..NR_CREDIT_ENTRIES - 1
    BY <1>13, <2>2, <2>3 DEF Entries
  <2>5. /\ call' \in [pc : {"loop"}, time : Nat, units : 0..MaxUnits, pos : Entries,
                      remaining : 0..MaxUnits, delay : 0..NR_CREDIT_ENTRIES - 1]
        /\ call'.pc = "loop" /\ call'.pos = Wrap(p + 1) /\ call'.delay = call.delay + 1
    BY <1>1, <1>4, <2>1, <2>2, <2>4
  <2>6. TypeOK'
    BY <1>2, <1>5, <1>6, <1>8, <2>1, <2>5 DEF TypeOK
  <2>7. UnusedOutside' /\ DelayBounded'
    <3>1. DelayBounded'
      BY <1>5, <1>13, <2>2, <2>5 DEF DelayBounded, Entries
    <3>2. \A q \in Entries : Ahead(head, q) \in Int
      BY <1>2, RingFacts DEF Entries
    <3>3. UnusedOutside'
      BY <1>5, <1>12, <1>13, <2>1, <2>2, <2>5, <3>2 DEF UnusedOutside, Entries
    <3> QED
      BY <3>1, <3>3
  <2> QED
    BY <1>10, <1>11, <2>6, <2>7 DEF IInv
<1>15. CASE ~(left > 0 /\ ~RingEnd(p))
  <2>1. /\ valid_len' = IF length > valid_len THEN length ELSE valid_len
        /\ answer' = call.time + Latency(call)
        /\ call' = NoCall
    BY <1>15 DEF TakeCredits, consumed
  <2>2. length = Ahead(head, p) + 1
    BY DEF WindowLength
  <2>3. valid_len' \in 0..NR_CREDIT_ENTRIES
    BY <1>2, <1>13, <2>1, <2>2 DEF Entries
  <2>4. Latency(call) \in Nat
    <3>1. call.units \in Nat /\ call.delay \in Nat
      BY <1>1, <1>13
    <3>2. call.units \div max_credits \in Nat
      BY <3>1, DivNat
    <3> DEFINE extra == IF call.delay > call.units \div max_credits
                        THEN call.delay - (call.units \div max_credits) ELSE 0
    <3>3. extra \in Nat
      BY <3>1, <3>2
    <3>4. Latency(call) = xfer_lat * call.units + extra * UNIT_TIME_INTERVAL
      BY DEF Latency
    <3> HIDE DEF extra
    <3> QED
      BY <3>1, <3>3, <3>4
  <2>5. answer' \in Nat
    BY <1>1, <2>1, <2>4 DEF Times
  <2>6. TypeOK'
    BY <1>2, <1>5, <1>6, <1>8, <2>1, <2>3, <2>5 DEF TypeOK
  <2>7. DelayBounded'
    BY <2>1 DEF DelayBounded, NoCall
  <2>8. \A q \in Entries : Ahead(head, q) \in Int
    BY <1>2, RingFacts DEF Entries
  <2>9. UnusedOutside'
    <3> SUFFICES ASSUME NEW q \in Entries, Ahead(head, q) >= valid_len'
                 PROVE  avail_credits'[q] = FullSlot
      BY <1>5 DEF UnusedOutside
    <3>1. Ahead(head, q) >= valid_len /\ Ahead(head, q) > Ahead(head, p)
      <4>1. Ahead(head, q) \in Int /\ Ahead(head, p) \in Int /\ valid_len \in Int
        BY <1>2, <1>3, <2>8
      <4>2. valid_len' >= valid_len /\ valid_len' >= length
        BY <2>1, <2>2, <4>1
      <4>3. valid_len' \in Int
        BY <2>3
      <4> QED
        BY <2>2, <4>1, <4>2, <4>3
    <3> QED
      BY <1>12, <3>1
  <2> QED
    BY <1>10, <1>11, <2>6, <2>7, <2>9 DEF IInv
<1> QED
  BY <1>14, <1>15

-----------------------------------------------------------------------------
(* The inductive invariant of the ring holds in every behaviour, whatever  *)
(* the clock shows.                                                        *)
THEOREM ChannelInvariance == Spec => []IInv
<1>1. Init => IInv
  BY InitIInv
<1>2. IInv /\ [Next]_vars => IInv'
  <2> SUFFICES ASSUME IInv, [Next]_vars PROVE IInv'
    OBVIOUS
  <2>1. CASE UNCHANGED vars
    BY <2>1 DEF vars, chVars, IInv, TypeOK, RingShowsTime, UnusedOutside, FutureUnused,
                DelayBounded, SlotOf
  <2>2. ASSUME NEW now \in Times, NEW t \in Times, NEW units \in 0..MaxUnits,
               chmodel_request(now, t, units)
        PROVE  IInv'
    BY <2>2, RequestIInv DEF Times
  <2>3. CASE TakeCredits
    BY <2>3, TakeCreditsIInv
  <2> QED
    BY <2>1, <2>2, <2>3 DEF Next
<1> QED
  BY <1>1, <1>2, PTL DEF Spec

(* Type correctness; in particular "Invalid valid_len" is never asserted.  *)
THEOREM ChannelTypeCorrect == Spec => []TypeOK
<1>1. IInv => TypeOK
  BY DEF IInv
<1> QED
  BY <1>1, ChannelInvariance, PTL

(* What a slot was filled with is never exceeded and never withheld: the   *)
(* ring shows for every slot of time what is left of it, as long as no     *)
(* offset has wrapped over entries in use.                                 *)
THEOREM RingIsTime == Spec => []RingShowsTime
<1>1. IInv => RingShowsTime
  BY DEF IInv
<1> QED
  BY <1>1, ChannelInvariance, PTL

(* Behind the window no credit has been taken. *)
THEOREM WindowCoversUse == Spec => []UnusedBehindWindow
<1>1. IInv => UnusedBehindWindow
  BY DEF IInv, UnusedOutside, UnusedBehindWindow
<1> QED
  BY <1>1, ChannelInvariance, PTL

-----------------------------------------------------------------------------
(* The NAND commands of the dies.                                          *)

(* The types of the dies' variables.                                        *)
NandOps == [pc : {"channel", "answer"}, cmd : {"NAND_READ", "NAND_WRITE"}, lun : Luns, from : Nat,
            lat : Nat, chnl_stime : Nat, remaining : 0 .. MaxUnits]
Intervals == [lun : Luns, from : Nat, to : Nat]

SsdTypeOK ==
  /\ next_lun_avail_time \in [Luns -> Nat]
  /\ io_clock \in Times
  /\ media \in Seq(Intervals)
  /\ op = NoOp \/ op \in NandOps

(* A command in progress has begun after everything its die did before,     *)
(* and the channel's answer, or the call that will give it, is not earlier  *)
(* than the transfer.                                                       *)
OpInTurn ==
  op.pc # "none" =>
    /\ next_lun_avail_time[op.lun] <= op.from /\ op.from <= op.chnl_stime
    /\ op.pc = "answer" =>
         /\ call.pc = "none" => op.chnl_stime <= answer
         /\ call.pc = "loop" => op.chnl_stime <= call.time

(* next_lun_avail_time is behind everything its die did.                    *)
AvailCoversMedia ==
  \A i \in DOMAIN media : /\ media[i].from <= media[i].to
                          /\ media[i].to <= next_lun_avail_time[media[i].lun]

SsdIInv == IInv /\ SsdTypeOK /\ OpInTurn /\ AvailCoversMedia /\ LunsServeInTurn

-----------------------------------------------------------------------------
(* What the end of a command does, if it began in turn: BusyUntil keeps the *)
(* part of the invariant that is about the dies.                            *)
LEMMA BusyUntilInTurn ==
    ASSUME SsdTypeOK, AvailCoversMedia, LunsServeInTurn, UNCHANGED io_clock \/ io_clock' \in Times,
           NEW l \in Luns, NEW cmd, NEW from \in Nat, NEW to \in Nat,
           next_lun_avail_time[l] <= from, from <= to,
           BusyUntil(l, cmd, from, to)
    PROVE  SsdTypeOK' /\ OpInTurn' /\ AvailCoversMedia' /\ LunsServeInTurn'
<1> DEFINE e == [lun |-> l, from |-> from, to |-> to]
<1>1. /\ next_lun_avail_time' = [next_lun_avail_time EXCEPT ![l] = to]
      /\ op' = NoOp
      /\ media' = media \/ media' = Append(media, e)
  BY DEF BusyUntil
<1>2. e \in Intervals /\ e.lun = l /\ e.from = from /\ e.to = to
  BY DEF Intervals
<1>3. /\ next_lun_avail_time \in [Luns -> Nat] /\ media \in Seq(Intervals)
      /\ \A i \in DOMAIN media : media[i] \in Intervals /\ media[i].lun \in Luns
                                 /\ media[i].from \in Nat /\ media[i].to \in Nat
  <2>1. next_lun_avail_time \in [Luns -> Nat] /\ media \in Seq(Intervals)
    BY DEF SsdTypeOK
  <2>2. \A i \in DOMAIN media : media[i] \in Intervals
    BY <2>1
  <2>3. \A x \in Intervals : x.lun \in Luns /\ x.from \in Nat /\ x.to \in Nat
    BY DEF Intervals
  <2> QED
    BY <2>1, <2>2, <2>3
<1> HIDE DEF e
<1>4. SsdTypeOK'
  <2>1. next_lun_avail_time' \in [Luns -> Nat]
    BY <1>1, <1>3
  <2>2. media' \in Seq(Intervals)
    BY <1>1, <1>2, <1>3
  <2> QED
    BY <1>1, <2>1, <2>2 DEF SsdTypeOK
<1>5. OpInTurn'
  BY <1>1 DEF OpInTurn, NoOp
<1>6. \A m \in Luns : next_lun_avail_time[m] <= next_lun_avail_time'[m]
  BY <1>1, <1>3
<1>7. \A i \in DOMAIN media : /\ media[i].from <= media[i].to
                              /\ media[i].to <= next_lun_avail_time'[media[i].lun]
  <2> SUFFICES ASSUME NEW i \in DOMAIN media
               PROVE  /\ media[i].from <= media[i].to
                      /\ media[i].to <= next_lun_avail_time'[media[i].lun]
    OBVIOUS
  <2>1. /\ media[i].from <= media[i].to
        /\ media[i].to <= next_lun_avail_time[media[i].lun]
    BY DEF AvailCoversMedia
  <2>2. /\ media[i].lun \in Luns /\ media[i].to \in Nat
        /\ next_lun_avail_time[media[i].lun] \in Nat /\ next_lun_avail_time'[media[i].lun] \in Nat
    BY <1>3, <1>4 DEF SsdTypeOK
  <2> QED
    BY <1>6, <2>1, <2>2
<1>8. CASE media' = media
  BY <1>4, <1>5, <1>7, <1>8 DEF AvailCoversMedia, LunsServeInTurn
<1>9. CASE media' = Append(media, e)
  <2>1. /\ DOMAIN media' = DOMAIN media \cup {Len(media) + 1}
        /\ \A i \in DOMAIN media : media'[i] = media[i] /\ i < Len(media) + 1
        /\ media'[Len(media) + 1] = e
        /\ DOMAIN media \subseteq Nat /\ Len(media) \in Nat
    BY <1>2, <1>3, <1>9
  <2>2. AvailCoversMedia'
    <3>1. e.from <= e.to /\ e.to <= next_lun_avail_time'[e.lun]
      BY <1>1, <1>2, <1>3
    <3> QED
      BY <1>7, <2>1, <3>1 DEF AvailCoversMedia
  <2>3. LunsServeInTurn'
    <3> SUFFICES ASSUME NEW i \in DOMAIN media', NEW j \in DOMAIN media',
                        i < j, media'[i].lun = media'[j].lun
                 PROVE  media'[i].to <= media'[j].from
      BY DEF LunsServeInTurn
    <3>1. i \in DOMAIN media
      BY <2>1
    <3>2. CASE j \in DOMAIN media
      BY <2>1, <3>1, <3>2 DEF LunsServeInTurn
    <3>3. CASE j = Len(media) + 1
      <4>1. media[i].to <= next_lun_avail_time[media[i].lun]
        BY <3>1 DEF AvailCoversMedia
      <4>2. media[i].lun = l /\ media[i].to \in Nat /\ next_lun_avail_time[l] \in Nat
        BY <1>2, <1>3, <2>1, <3>1, <3>3
      <4>3. media'[i].to = media[i].to /\ media'[j].from = from
        BY <1>2, <2>1, <3>1, <3>3
      <4> QED
        BY <4>1, <4>2, <4>3
    <3> QED
      BY <2>1, <3>2, <3>3
  <2> QED
    BY <1>4, <1>5, <2>2, <2>3
<1> QED
  BY <1>1, <1>8, <1>9

(* Steps that leave the ring alone.                                         *)
LEMMA RingUntouched ==
    ASSUME IInv, UNCHANGED <<chVars, call, answer, used>>
    PROVE  IInv'
BY DEF chVars, IInv, TypeOK, RingShowsTime, UnusedOutside, FutureUnused, DelayBounded, SlotOf

(* The answer of the channel is not before the transfer was asked for.      *)
LEMMA AnswerNotEarlier ==
    ASSUME IInv, TakeCredits
    PROVE  /\ call'.pc = "loop" => call'.time = call.time
           /\ call'.pc = "none" => call.time <= answer'
<1> USE RingAssumption
<1>1. /\ call \in [pc : {"loop"}, time : Nat, units : 0 .. MaxUnits, pos : Entries,
                   remaining : 0 .. MaxUnits, delay : 0 .. NR_CREDIT_ENTRIES - 1]
      /\ call.pc = "loop"
  BY DEF TakeCredits, IInv, TypeOK, NoCall
<1> DEFINE default_delay == call.units \div max_credits
           extra == IF call.delay > default_delay THEN call.delay - default_delay ELSE 0
<1>2. call.units \in Nat /\ call.delay \in Nat /\ call.time \in Nat
  BY <1>1
<1>3. default_delay \in Nat
  BY <1>2, DivNat
<1>4. Latency(call) = xfer_lat * call.units + extra * UNIT_TIME_INTERVAL
  BY DEF Latency
<1>5. extra \in Nat
  BY <1>2, <1>3
<1> HIDE DEF default_delay, extra
<1>6. Latency(call) \in Nat
  BY <1>2, <1>4, <1>5
<1>7. \/ call' = NoCall /\ answer' = call.time + Latency(call)
      \/ \E pos, left : call' = [call EXCEPT !.pos = pos, !.remaining = left, !.delay = @ + 1]
  BY DEF TakeCredits
<1>8. CASE call' = NoCall /\ answer' = call.time + Latency(call)
  BY <1>2, <1>6, <1>8 DEF NoCall
<1>9. ASSUME NEW pos, NEW left,
             call' = [call EXCEPT !.pos = pos, !.remaining = left, !.delay = @ + 1]
      PROVE  call'.pc = "loop" /\ call'.time = call.time
  BY <1>1, <1>9
<1> QED
  BY <1>7, <1>8, <1>9

-----------------------------------------------------------------------------
(* Init establishes the invariant.                                          *)
LEMMA SsdInitIInv == SsdInit => SsdIInv
<1> SUFFICES ASSUME SsdInit PROVE SsdIInv
  OBVIOUS
<1>1. IInv
  BY InitIInv DEF SsdInit
<1>2. SsdTypeOK
  BY RingAssumption DEF SsdInit, SsdTypeOK, Times
<1>3. OpInTurn /\ AvailCoversMedia /\ LunsServeInTurn
  BY DEF SsdInit, OpInTurn, AvailCoversMedia, LunsServeInTurn, NoOp
<1> QED
  BY <1>1, <1>2, <1>3 DEF SsdIInv

(* A new NAND command.                                                      *)
LEMMA AdvanceNandIInv ==
    ASSUME SsdIInv, NEW c \in NandCommands, NEW l \in Luns, NEW stime \in Times, NEW now \in Times,
           ssd_advance_nand(c[1], l, stime, now, c[2], c[3])
    PROVE  SsdIInv'
<1> DEFINE start == WhenFree(l, IF stime = 0 THEN now ELSE stime)
           cmd == c[1]
           units == c[2]
           lat == c[3]
<1>1. IInv'
  BY RingUntouched DEF SsdIInv, ssd_advance_nand
<1>2. /\ cmd \in {"NAND_READ", "NAND_WRITE", "NAND_ERASE", "NAND_NOP"}
      /\ units \in Nat /\ lat \in Nat
      /\ cmd \in {"NAND_READ", "NAND_WRITE"} => units \in 0 .. MaxUnits
      /\ cmd = "NAND_NOP" => lat = 0
  <2>1. CASE c \in {"NAND_READ", "NAND_WRITE"} \X (1 .. MaxUnits) \X NandLatencies
    <3>1. cmd \in {"NAND_READ", "NAND_WRITE"} /\ units \in 1 .. MaxUnits /\ lat \in NandLatencies
      BY <2>1
    <3> HIDE DEF cmd, units, lat
    <3> QED
      BY <3>1, RingAssumption, SsdAssumption
  <2>2. CASE c \in {"NAND_ERASE"} \X {0} \X NandLatencies
    <3>1. cmd \in {"NAND_ERASE"} /\ units \in {0} /\ lat \in NandLatencies
      BY <2>2
    <3> HIDE DEF cmd, units, lat
    <3> QED
      BY <3>1, SsdAssumption
  <2>3. CASE c = <<"NAND_NOP", 0, 0>>
    BY <2>3
  <2> QED
    BY <2>1, <2>2, <2>3 DEF NandCommands
<1>3. next_lun_avail_time \in [Luns -> Nat] /\ next_lun_avail_time[l] \in Nat /\ now \in Nat
  BY DEF SsdIInv, SsdTypeOK, Times
<1>4. start \in Nat /\ next_lun_avail_time[l] <= start
  BY <1>3 DEF WhenFree, Latest, Times
<1>5. io_clock' = now
  BY DEF ssd_advance_nand
<1>6. start + lat \in Nat /\ start <= start + lat
  BY <1>2, <1>4
<1>7. CASE cmd \in {"NAND_READ", "NAND_WRITE"}
  <2>1. /\ UNCHANGED <<next_lun_avail_time, media>>
        /\ \E from, lt : /\ op' = [pc |-> "channel", cmd |-> cmd, lun |-> l, from |-> start, lat |-> lt,
                                    chnl_stime |-> from, remaining |-> units]
                         /\ from \in {start, start + lat} /\ lt \in {0, lat}
    BY <1>7 DEF ssd_advance_nand
  <2> HIDE DEF start, cmd, units, lat
  <2>2. PICK from, lt : /\ op' = [pc |-> "channel", cmd |-> cmd, lun |-> l, from |-> start, lat |-> lt,
                                  chnl_stime |-> from, remaining |-> units]
                        /\ from \in {start, start + lat} /\ lt \in {0, lat}
    BY <2>1
  <2>3. from \in Nat /\ start <= from /\ lt \in Nat
    BY <1>2, <1>4, <1>6, <2>2
  <2>4. op' \in NandOps
    BY <1>2, <1>4, <1>7, <2>2, <2>3 DEF NandOps
  <2>5. SsdTypeOK'
    BY <1>5, <2>1, <2>4 DEF SsdTypeOK, SsdIInv
  <2>6. OpInTurn'
    BY <1>4, <2>1, <2>2, <2>3 DEF OpInTurn
  <2>7. AvailCoversMedia' /\ LunsServeInTurn'
    BY <2>1 DEF SsdIInv, AvailCoversMedia, LunsServeInTurn
  <2> QED
    BY <1>1, <2>5, <2>6, <2>7 DEF SsdIInv
<1>8. CASE cmd \in {"NAND_ERASE", "NAND_NOP"}
  <2>1. BusyUntil(l, cmd, start, start + lat) \/ BusyUntil(l, cmd, start, start)
    BY <1>8 DEF ssd_advance_nand
  <2> HIDE DEF start, cmd, units, lat
  <2>2. SsdTypeOK' /\ OpInTurn' /\ AvailCoversMedia' /\ LunsServeInTurn'
    BY <1>4, <1>5, <1>6, <2>1, BusyUntilInTurn DEF SsdIInv
  <2> QED
    BY <1>1, <2>2 DEF SsdIInv
<1> QED
  BY <1>2, <1>7, <1>8

(* A transfer is asked of the channel.                                      *)
LEMMA RequestChannelIInv ==
    ASSUME SsdIInv, NEW now \in Times, RequestChannel(now)
    PROVE  SsdIInv'
<1>1. /\ op \in NandOps /\ op.pc = "channel"
      /\ next_lun_avail_time' = next_lun_avail_time /\ media' = media /\ io_clock' = now
      /\ op' = [op EXCEPT !.pc = "answer", !.remaining = @ - XferSize]
  BY DEF RequestChannel, SsdIInv, SsdTypeOK, NoOp
<1>2. XferSize \in 0 .. op.remaining /\ op.remaining \in 0 .. MaxUnits /\ op.chnl_stime \in Nat
  BY <1>1, SsdAssumption, RingAssumption DEF XferSize, Least, NandOps
<1>3. chmodel_request(now, op.chnl_stime, XferSize)
  BY DEF RequestChannel
<1>4. XferSize \in 0 .. MaxUnits
  BY <1>2, RingAssumption
<1>5. IInv'
  BY <1>2, <1>3, <1>4, RequestIInv DEF SsdIInv
<1>6. \/ answer' = op.chnl_stime /\ call' = NoCall
      \/ call'.pc = "loop" /\ call'.time = op.chnl_stime
  <2>1. call = NoCall
    BY <1>3 DEF chmodel_request, SsdIInv, IInv, TypeOK
  <2> QED
    BY <1>3, <2>1 DEF chmodel_request
<1>7. /\ op' \in NandOps /\ op'.pc = "answer" /\ op'.lun = op.lun /\ op'.from = op.from
      /\ op'.chnl_stime = op.chnl_stime
  <2>1. op.remaining - XferSize \in 0 .. MaxUnits
    BY <1>2, RingAssumption
  <2> QED
    BY <1>1, <2>1 DEF NandOps
<1>8. SsdTypeOK'
  BY <1>1, <1>7 DEF SsdIInv, SsdTypeOK
<1>9. OpInTurn'
  BY <1>1, <1>2, <1>6, <1>7 DEF SsdIInv, OpInTurn, NoCall
<1>10. AvailCoversMedia' /\ LunsServeInTurn'
  BY <1>1 DEF SsdIInv, AvailCoversMedia, LunsServeInTurn
<1> QED
  BY <1>5, <1>8, <1>9, <1>10 DEF SsdIInv

(* The channel serves a slot of the call.                                   *)
LEMMA ServeChannelIInv ==
    ASSUME SsdIInv, ServeChannel
    PROVE  SsdIInv'
<1>1. TakeCredits /\ UNCHANGED ssdVars
  BY DEF ServeChannel
<1>2. IInv'
  BY <1>1, TakeCreditsIInv DEF SsdIInv
<1>3. SsdTypeOK' /\ AvailCoversMedia' /\ LunsServeInTurn'
  BY <1>1 DEF ssdVars, SsdIInv, SsdTypeOK, AvailCoversMedia, LunsServeInTurn
<1>4. OpInTurn'
  <2>1. call.pc = "loop"
    BY <1>1 DEF TakeCredits
  <2>2. call.time \in Nat /\ answer' \in Nat /\ (op.pc # "none" => op.chnl_stime \in Nat)
    BY <1>2, <2>1, SMTT(30) DEF SsdIInv, SsdTypeOK, NandOps, NoOp, IInv, TypeOK, NoCall
  <2>3. /\ call'.pc = "loop" => call'.time = call.time
        /\ call'.pc = "none" => call.time <= answer'
    BY <1>1, AnswerNotEarlier DEF SsdIInv
  <2> QED
    BY <1>1, <2>1, <2>2, <2>3 DEF ssdVars, SsdIInv, OpInTurn
<1> QED
  BY <1>2, <1>3, <1>4 DEF SsdIInv

(* The channel has answered.                                                *)
LEMMA ChannelAnsweredIInv ==
    ASSUME SsdIInv, ChannelAnswered
    PROVE  SsdIInv'
<1>1. IInv'
  BY RingUntouched DEF SsdIInv, ChannelAnswered
<1>2. /\ op \in NandOps /\ op.pc = "answer" /\ call.pc = "none" /\ io_clock' = io_clock
      /\ answer' = answer /\ call' = call
  BY DEF ChannelAnswered, SsdIInv, SsdTypeOK, NoOp
<1>3. /\ answer \in Nat /\ op.from \in Nat /\ op.chnl_stime \in Nat /\ op.lat \in Nat /\ op.lun \in Luns
      /\ next_lun_avail_time[op.lun] <= op.from /\ op.from <= op.chnl_stime
      /\ op.chnl_stime <= answer
  BY <1>2 DEF SsdIInv, IInv, TypeOK, NandOps, OpInTurn
<1>4. CASE op.remaining > 0
  <2>1. op' = [op EXCEPT !.pc = "channel", !.chnl_stime = answer]
        /\ UNCHANGED <<next_lun_avail_time, media>>
    BY <1>4 DEF ChannelAnswered
  <2>2. /\ op' \in NandOps /\ op'.pc = "channel" /\ op'.lun = op.lun /\ op'.from = op.from
        /\ op'.chnl_stime = answer
    BY <1>2, <1>3, <2>1 DEF NandOps
  <2>3. SsdTypeOK'
    BY <1>2, <2>1, <2>2 DEF SsdIInv, SsdTypeOK
  <2>4. OpInTurn'
    BY <1>3, <2>1, <2>2 DEF OpInTurn
  <2>5. AvailCoversMedia' /\ LunsServeInTurn'
    BY <2>1 DEF SsdIInv, AvailCoversMedia, LunsServeInTurn
  <2> QED
    BY <1>1, <2>3, <2>4, <2>5 DEF SsdIInv
<1>5. CASE ~(op.remaining > 0)
  <2>1. BusyUntil(op.lun, op.cmd, op.from, answer + op.lat)
    BY <1>5 DEF ChannelAnswered
  <2>2. answer + op.lat \in Nat /\ op.from <= answer + op.lat
    BY <1>3
  <2>3. SsdTypeOK' /\ OpInTurn' /\ AvailCoversMedia' /\ LunsServeInTurn'
    BY <1>2, <1>3, <2>1, <2>2, BusyUntilInTurn DEF SsdIInv
  <2> QED
    BY <1>1, <2>3 DEF SsdIInv
<1> QED
  BY <1>4, <1>5

-----------------------------------------------------------------------------
(* The invariant of the dies and their channel.                             *)
THEOREM SsdInvariance == SsdSpec => []SsdIInv
<1>1. SsdInit => SsdIInv
  BY SsdInitIInv
<1>2. SsdIInv /\ [SsdNext]_<<vars, ssdVars>> => SsdIInv'
  <2> SUFFICES ASSUME SsdIInv, [SsdNext]_<<vars, ssdVars>> PROVE SsdIInv'
    OBVIOUS
  <2>1. CASE UNCHANGED <<vars, ssdVars>>
    <3>1. IInv'
      BY <2>1, RingUntouched DEF vars, SsdIInv
    <3>2. UNCHANGED ssdVars /\ UNCHANGED <<answer, call>>
      BY <2>1 DEF vars
    <3>3. SsdTypeOK' /\ OpInTurn' /\ AvailCoversMedia' /\ LunsServeInTurn'
      BY <3>2 DEF ssdVars, SsdIInv, SsdTypeOK, OpInTurn, AvailCoversMedia, LunsServeInTurn
    <3> QED
      BY <3>1, <3>3 DEF SsdIInv
  <2>2. ASSUME NEW c \in NandCommands, NEW l \in Luns, NEW stime \in Times, NEW now \in Times,
               ssd_advance_nand(c[1], l, stime, now, c[2], c[3])
        PROVE  SsdIInv'
    BY <2>2, AdvanceNandIInv
  <2>3. ASSUME NEW now \in Times, RequestChannel(now)
        PROVE  SsdIInv'
    BY <2>3, RequestChannelIInv
  <2>4. CASE ServeChannel
    BY <2>4, ServeChannelIInv
  <2>5. CASE ChannelAnswered
    BY <2>5, ChannelAnsweredIInv
  <2> QED
    BY <2>1, <2>2, <2>3, <2>4, <2>5 DEF SsdNext
<1> QED
  BY <1>1, <1>2, PTL DEF SsdSpec

(* The dies of a channel each do one thing after the other, whatever start  *)
(* times their commands have and however they compete for the channel.      *)
THEOREM DiesServeInTurn == SsdSpec => []LunsServeInTurn
<1>1. SsdIInv => LunsServeInTurn
  BY DEF SsdIInv
<1> QED
  BY <1>1, SsdInvariance, PTL

(* Under the requests of NAND commands, whose times the channel chose       *)
(* itself in part, its ring shows what is left of each slot.                *)
THEOREM NandRingIsTime == SsdSpec => []RingShowsTime
<1>1. SsdIInv => RingShowsTime
  BY DEF SsdIInv, IInv
<1> QED
  BY <1>1, SsdInvariance, PTL

-----------------------------------------------------------------------------
(* The flush.                                                               *)

(* A set of natural numbers has a least element.                            *)
LEMMA LeastElement ==
    ASSUME NEW T \in SUBSET Nat, T # {}
    PROVE  \E x \in T : \A y \in T : x <= y
<1> DEFINE Less == {p \in Nat \X Nat : p[1] < p[2]}
<1>1. OpToRel(<, Nat) = Less
  BY DEF OpToRel
<1>2. IsWellFoundedOn(OpToRel(<, Nat), Nat)
  BY NatLessThanWellFounded
<1>3. \E x \in T : \A y \in T : ~ (<<y, x>> \in Less)
  BY <1>1, <1>2, WFMin, ZenonT(30)
<1>4. \A x, y \in Nat : ~ (<<y, x>> \in Less) => x <= y
  OBVIOUS
<1> HIDE DEF Less
<1> QED
  BY <1>3, <1>4

(* Among finitely many numbers one is the largest: the first of them has a  *)
(* largest, and so have the first k for the least k that is left.           *)
LEMMA LargestOfMany ==
    ASSUME NEW n \in Nat \ {0}, NEW g \in [1..n -> Nat]
    PROVE  \E m \in 1..n : \A i \in 1..n : g[i] <= g[m]
<1> DEFINE Bounded(k) == \E m \in 1..k : \A i \in 1..k : g[i] <= g[m]
           T == {k \in 1..n : ~Bounded(k)}
<1>1. ASSUME T # {}
      PROVE  FALSE
  <2>1. T \in SUBSET Nat
    OBVIOUS
  <2>2. PICK k \in T : \A j \in T : k <= j
    <3> HIDE DEF T
    <3> QED
      BY <1>1, <2>1, LeastElement
  <2>3. k \in 1..n /\ ~Bounded(k)
    BY <2>2
  <2>4. CASE k = 1
    <3>1. Bounded(1)
      OBVIOUS
    <3> HIDE DEF Bounded
    <3> QED
      BY <2>3, <2>4, <3>1
  <2>5. CASE k > 1
    <3>1. PICK j : j = k - 1
      OBVIOUS
    <3>2. j \in Nat /\ j \in 1..n /\ ~(k <= j) /\ k = j + 1
      BY <2>3, <2>5, <3>1
    <3>3. Bounded(j)
      <4> HIDE DEF Bounded
      <4> QED
        BY <2>2, <3>2
    <3>4. PICK m \in 1..j : \A i \in 1..j : g[i] <= g[m]
      BY <3>3
    <3>5. m \in 1..k /\ g[m] \in Nat /\ g[k] \in Nat /\ k \in 1..k
      BY <2>3, <3>2
    <3>6. \A i \in 1..k : (i = k \/ i \in 1..j) /\ g[i] \in Nat
      BY <2>3, <3>2
    <3>7. CASE g[k] <= g[m]
      <4>1. \A i \in 1..k : g[i] <= g[m]
        BY <3>4, <3>6, <3>7
      <4> QED
        BY <2>3, <3>5, <4>1
    <3>8. CASE g[m] < g[k]
      <4>1. \A i \in 1..k : g[i] <= g[k]
        BY <3>4, <3>5, <3>6, <3>8
      <4> QED
        BY <2>3, <3>5, <4>1
    <3> QED
      BY <3>5, <3>7, <3>8
  <2> QED
    BY <2>3, <2>4, <2>5
<1>2. n \in 1..n
  OBVIOUS
<1>3. Bounded(n)
  <2> HIDE DEF Bounded
  <2> QED
    BY <1>1, <1>2
<1> QED
  BY <1>3

(* One of finitely many dies is the last to be free.                        *)
LEMMA LastOfFinite ==
    ASSUME NEW S, IsFiniteSet(S), S # {}, NEW f \in [S -> Nat]
    PROVE  \E m \in S : \A l \in S : f[l] <= f[m]
<1>1. PICK seq \in Seq(S) : \A l \in S : \E i \in 1..Len(seq) : seq[i] = l
  BY DEF IsFiniteSet
<1>2. PICK n \in Nat : n = Len(seq)
  BY <1>1
<1>3. \A i \in 1..n : seq[i] \in S
  BY <1>1, <1>2
<1>4. n # 0
  BY <1>1, <1>2
<1> DEFINE g == [i \in 1..n |-> f[seq[i]]]
<1>5. g \in [1..n -> Nat] /\ \A i \in 1..n : g[i] = f[seq[i]]
  BY <1>3
<1> HIDE DEF g
<1>6. PICK m \in 1..n : \A i \in 1..n : g[i] <= g[m]
  BY <1>4, <1>5, LargestOfMany
<1>7. \A l \in S : f[l] <= f[seq[m]]
  BY <1>1, <1>2, <1>5, <1>6
<1> QED
  BY <1>3, <1>7

(* ssd_next_idle_time is not before any die is free.                        *)
LEMMA IdleAfterAllDies ==
    ASSUME SsdTypeOK
    PROVE  ssd_next_idle_time \in Nat /\ \A l \in Luns : next_lun_avail_time[l] <= ssd_next_idle_time
<1> DEFINE times == {io_clock} \cup {next_lun_avail_time[l] : l \in Luns}
<1>1. io_clock \in Nat /\ next_lun_avail_time \in [Luns -> Nat] /\ times \subseteq Nat
  BY RingAssumption DEF SsdTypeOK, Times
<1>2. \E t \in times : \A s \in times : s <= t
  <2>1. CASE Luns = {}
    BY <1>1, <2>1
  <2>2. CASE Luns # {}
    <3>1. PICK m \in Luns : \A l \in Luns : next_lun_avail_time[l] <= next_lun_avail_time[m]
      BY <1>1, <2>2, LastOfFinite, SsdAssumption
    <3>2. next_lun_avail_time[m] \in Nat
      BY <1>1
    <3>3. CASE io_clock <= next_lun_avail_time[m]
      BY <3>1, <3>3
    <3>4. CASE next_lun_avail_time[m] < io_clock
      <4>1. \A l \in Luns : next_lun_avail_time[l] <= io_clock
        BY <1>1, <3>1, <3>2, <3>4
      <4> QED
        BY <1>1, <4>1
    <3> QED
      BY <1>1, <3>2, <3>3, <3>4
  <2> QED
    BY <2>1, <2>2
<1>3. ssd_next_idle_time \in times /\ \A s \in times : s <= ssd_next_idle_time
  BY <1>2 DEF ssd_next_idle_time
<1> QED
  BY <1>1, <1>3

(* What conv_flush and zns_flush answer is not before the end of any read,  *)
(* program or erase that was asked for, on any of the dies.                 *)
THEOREM FlushCovers == SsdSpec => []FlushCoversMedia
<1>1. SsdIInv => FlushCoversMedia
  <2> SUFFICES ASSUME SsdIInv, NEW i \in DOMAIN media
               PROVE  media[i].from <= media[i].to /\ media[i].to <= ssd_next_idle_time
    BY DEF FlushCoversMedia
  <2>1. SsdTypeOK /\ AvailCoversMedia
    BY DEF SsdIInv
  <2>2. media[i] \in Intervals
    BY <2>1 DEF SsdTypeOK
  <2>3. media[i].lun \in Luns /\ media[i].to \in Nat
    BY <2>2 DEF Intervals
  <2>4. next_lun_avail_time[media[i].lun] \in Nat
    BY <2>1, <2>3 DEF SsdTypeOK
  <2>5. media[i].from <= media[i].to /\ media[i].to <= next_lun_avail_time[media[i].lun]
    BY <2>1 DEF AvailCoversMedia
  <2> QED
    BY <2>1, <2>3, <2>4, <2>5, IdleAfterAllDies
<1> QED
  BY <1>1, SsdInvariance, PTL
=============================================================================
