--------------------------- MODULE PriorityQueue ---------------------------
(***************************************************************************)
(* What the collector is promised: a set of items with priorities that can *)
(* change while an item is in the set, and from which an item of the most  *)
(* urgent priority, the smallest number, is taken; when nothing forces the *)
(* caller to take one, only of a priority that pays.  PQueue implements it.*)
(***************************************************************************)
EXTENDS Naturals

CONSTANTS Items, Priorities, None,
          Acceptable               \* the last priority that is taken without force

VARIABLES members, pri, popped   \* popped: the item the last operation returned

pqVars == <<members, pri, popped>>

Init ==
    /\ members = {}
    /\ pri \in [Items -> Priorities]
    /\ popped = None

(* An item outside the queue is inserted, with any priority. *)
Insert(x, p) ==
    /\ x \in Items \ members
    /\ members' = members \cup {x}
    /\ pri' = [pri EXCEPT ![x] = p]
    /\ popped' = None

ChangePriority(x, p) ==
    /\ x \in members
    /\ pri' = [pri EXCEPT ![x] = p]
    /\ members' = members /\ popped' = None

Pop(force) ==
    \/ /\ \A x \in members : ~force /\ pri[x] > Acceptable
       /\ popped' = None
       /\ UNCHANGED <<members, pri>>
    \/ \E x \in members :
          /\ force \/ pri[x] <= Acceptable
          /\ \A y \in members : pri[x] <= pri[y]
          /\ members' = members \ {x}
          /\ popped' = x
          /\ UNCHANGED pri

Next ==
    \/ \E x \in Items, p \in Priorities : Insert(x, p) \/ ChangePriority(x, p)
    \/ \E force \in BOOLEAN : Pop(force)

Spec == Init /\ [][Next]_pqVars
=============================================================================
