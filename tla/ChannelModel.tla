---------------------------- MODULE ChannelModel ----------------------------
(***************************************************************************)
(* The bandwidth model of a NAND channel and of the PCIe link: a ring of   *)
(* NR_CREDIT_ENTRIES time slots, each with the credits still free in it.   *)
(* head is the slot of cur_time, and valid_len slots from head on may have *)
(* been used; the rest of the ring is full of credits.                     *)
(*                                                                         *)
(* A request is one call of chmodel_request; the loop over slots is one    *)
(* step per slot.  Only the dispatcher calls it.  Length is in transfer    *)
(* units, one credit each (command_credits is 0).                          *)
(*                                                                         *)
(* Two widths of the code matter.  A ring entry is a credit_t of 8 bits,   *)
(* so a slot of a link with 256 credits or more is filled with less than   *)
(* its bandwidth; and the offset by which head moves is a uint32_t, so     *)
(* head stays behind after a pause of 2^32 intervals and more.             *)
(***************************************************************************)
EXTENDS Integers

CONSTANTS NR_CREDIT_ENTRIES,
          UNIT_TIME_INTERVAL,
          max_credits,
          xfer_lat,
          LastTime,       \* bound: the times the model runs through are 0..LastTime
          MaxUnits,       \* bound: units of the longest request
          UintRange,      \* 2^32: the offsets in the ring are uint32_t
          CREDIT_RANGE    \* 2^8: an entry of the ring is a credit_t, a uint8_t

ASSUME RingAssumption ==
    /\ NR_CREDIT_ENTRIES \in Nat \ {0}
    /\ UNIT_TIME_INTERVAL \in Nat \ {0}
    /\ max_credits \in Nat \ {0}
    /\ xfer_lat \in Nat /\ LastTime \in Nat /\ MaxUnits \in Nat
    /\ UintRange \in Nat /\ UintRange > NR_CREDIT_ENTRIES
    /\ CREDIT_RANGE \in Nat \ {0}

Entries == 0..NR_CREDIT_ENTRIES - 1
Times == 0..LastTime

(* The slot of a time, and the slots that can be reached. *)
Slot(t) == t \div UNIT_TIME_INTERVAL
TimeSlots == 0..Slot(LastTime) + NR_CREDIT_ENTRIES

VARIABLES head, valid_len, cur_time, avail_credits,   \* struct channel_model
          call,       \* the call in progress
          answer,     \* what the last call returned
          used,       \* history: credits taken in each slot of absolute time
          shortened   \* history: head has once moved by less than the slots that passed

chVars == <<head, valid_len, cur_time, avail_credits, shortened>>
vars == <<chVars, call, answer, used>>

(* i % NR_CREDIT_ENTRIES, for sums of two ring positions. *)
Wrap(i) == IF i >= NR_CREDIT_ENTRIES THEN i - NR_CREDIT_ENTRIES ELSE i

(* How many entries position i is ahead of position h. *)
Ahead(h, i) == IF i >= h THEN i - h ELSE NR_CREDIT_ENTRIES - (h - i)

Least(a, b) == IF a <= b THEN a ELSE b

(* What an entry of the ring is filled with: the credits of a slot, cut    *)
(* off at the width of credit_t.                                           *)
FullSlot == max_credits % CREDIT_RANGE

NoCall == [pc |-> "none"]

(* chmodel_init *)
Init ==
    /\ head = 0 /\ valid_len = 0 /\ cur_time = 0
    /\ avail_credits = [i \in Entries |-> FullSlot]
    /\ call = NoCall
    /\ answer = 0
    /\ shortened = FALSE
    /\ used = [s \in TimeSlots |-> 0]

-----------------------------------------------------------------------------
(* Faulty variant: head moves by the whole time that has passed, without   *)
(* regard to valid_len.                                                    *)
TimeOffsetUnbounded(now) == (Slot(now) - Slot(cur_time)) % UintRange

(* cur_time_offs: the slots that have passed since the last call, of which *)
(* at most valid_len matter.                                               *)
TimeOffset(now) == Least((Slot(now) - Slot(cur_time)) % UintRange, valid_len)

(* History: the offset came out shorter than the slots that have passed.   *)
NoteShortened(now) ==
    shortened' = (shortened \/ TimeOffset(now) # Least(Slot(now) - Slot(cur_time), valid_len))

(* Faulty variant: head moves on without filling the slots that passed. *)
MoveHeadOnly(now) ==
    /\ head' = Wrap(head + TimeOffset(now))
    /\ valid_len' = valid_len - TimeOffset(now)
    /\ cur_time' = now
    /\ NoteShortened(now)
    /\ UNCHANGED avail_credits

(* The slots that have passed are filled again, around the end of the ring *)
(* if need be, and head moves on.                                          *)
MoveHead(now) ==
    LET offs == TimeOffset(now)
    IN  /\ avail_credits' = [i \in Entries |-> IF Ahead(head, i) < offs THEN FullSlot
                                               ELSE avail_credits[i]]
        /\ head' = Wrap(head + offs)
        /\ valid_len' = valid_len - offs
        /\ cur_time' = now
        /\ NoteShortened(now)

(* The start of chmodel_request at time now: a request for a time that is  *)
(* over, or behind the end of the ring, gets its own time back.            *)
RequestOffset(now, t) == (Slot(t) - Slot(now)) % UintRange
chmodel_request(now, t, units) ==
    LET offs == RequestOffset(now, t)
    IN  /\ call.pc = "none"
        /\ now >= cur_time
        /\ MoveHead(now)
        /\ IF t < now \/ offs >= NR_CREDIT_ENTRIES
           THEN answer' = t /\ UNCHANGED call
           ELSE /\ call' = [pc |-> "loop", time |-> t, units |-> units,
                            pos |-> Wrap(head' + offs), remaining |-> units, delay |-> 0]
                /\ UNCHANGED answer
        /\ UNCHANGED used

(* "If array is full": the next entry is head. *)
RingEnd(p) == Wrap(p + 1) = head

(* The slot of absolute time that an entry stands for. *)
SlotOf(p) == Slot(cur_time) + Ahead(head, p)

(* Faulty variant: the last slot is not counted. *)
WindowLengthShort(p) == Ahead(head, p)

(* valid_length: the entries from head up to the last one used. *)
WindowLength(p) == Ahead(head, p) + 1

(* The answer: the transfer time, and the slots by which the request was   *)
(* delayed beyond those its own length takes.                              *)
Latency(c) ==
    LET default_delay == c.units \div max_credits
        extra == IF c.delay > default_delay THEN c.delay - default_delay ELSE 0
    IN  xfer_lat * c.units + extra * UNIT_TIME_INTERVAL

(* One iteration of the loop: take what the slot has.  Credits that do not *)
(* fit the ring are dropped.  At the end valid_len covers the last slot.   *)
TakeCredits ==
    LET p == call.pos
        consumed == Least(call.remaining, avail_credits[p])
        left == call.remaining - consumed
        length == WindowLength(p)
    IN  /\ call.pc = "loop"
        /\ avail_credits' = [avail_credits EXCEPT ![p] = @ - consumed]
        /\ used' = [used EXCEPT ![SlotOf(p)] = @ + consumed]
        /\ IF left > 0 /\ ~RingEnd(p)
           THEN /\ call' = [call EXCEPT !.pos = Wrap(p + 1), !.remaining = left,
                                        !.delay = @ + 1]
                /\ UNCHANGED <<valid_len, answer>>
           ELSE /\ valid_len' = IF length > valid_len THEN length ELSE valid_len
                /\ answer' = call.time + Latency(call)
                /\ call' = NoCall
        /\ UNCHANGED <<head, cur_time, shortened>>

Next ==
    \/ \E now \in Times, t \in Times, units \in 0..MaxUnits : chmodel_request(now, t, units)
    \/ TakeCredits

Spec == Init /\ [][Next]_vars

-----------------------------------------------------------------------------
(* The type invariant: no counter wraps, and valid_len never exceeds the   *)
(* ring, which chmodel_request asserts.                                    *)
TypeOK ==
    /\ head \in Entries
    /\ valid_len \in 0..NR_CREDIT_ENTRIES
    /\ cur_time \in Times
    /\ avail_credits \in [Entries -> 0..FullSlot]
    /\ answer \in Nat
    /\ shortened \in BOOLEAN
    /\ used \in [TimeSlots -> Nat]
    /\ \/ call = NoCall
       \/ call \in [pc : {"loop"}, time : Nat, units : 0..MaxUnits, pos : Entries,
                    remaining : 0..MaxUnits, delay : 0..NR_CREDIT_ENTRIES - 1]

(* "Search current time index and move head to it": the ring, read from    *)
(* head on, shows for each slot from now on what is left of it.  However   *)
(* calls, pauses and wrap-around of the ring follow each other, no slot    *)
(* gives away more credits than it was filled with, and no credit of a     *)
(* free slot is withheld; until a pause of 2^32 intervals has come while   *)
(* entries ahead were in use.                                              *)
RingShowsTime ==
    ~shortened => \A p \in Entries : avail_credits[p] + used[SlotOf(p)] = FullSlot

(* Outside the valid_len entries from head on the ring is full of credits: *)
(* that is why head need not move further when time does.                  *)
UnusedBehindWindow ==
    call.pc = "none" => \A p \in Entries : Ahead(head, p) >= valid_len =>
                                              avail_credits[p] = FullSlot
=============================================================================
