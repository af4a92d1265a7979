------------------------------- MODULE KvMap -------------------------------
(***************************************************************************)
(* What the key-value FTL promises its host: a map from keys to values,    *)
(* where a value is some data repeated over a length, and where retrieving *)
(* into a short buffer returns a prefix, until an entry or a value is      *)
(* lost.  KvFtl is shown to implement it.                                  *)
(***************************************************************************)
EXTENDS Naturals

CONSTANTS Keys, Data, Lengths, Absent

VARIABLES map,     \* [Keys -> values], Absent for keys that do not exist
          reply,   \* the reply to the last command; asked is the length of its buffer
          broken   \* whether an entry or a value was lost; no promise after that

mapVars == <<map, reply, broken>>

Values == [data : Data, length : Lengths]

NoReply == [op |-> "none", key |-> Absent, asked |-> 0, status |-> "ok", data |-> << >>]
Reply(op, k, n, status, data) ==
    [op |-> op, key |-> k, asked |-> n, status |-> status, data |-> data]

Prefix(v, n) == [i \in 1..(IF n < v.length THEN n ELSE v.length) |-> v.data]

Init == map = [k \in Keys |-> Absent] /\ reply = NoReply /\ ~broken

Store(k, v) ==
    /\ map' = [map EXCEPT ![k] = v]
    /\ reply' = Reply("store", k, 0, "ok", << >>)

Retrieve(k, n) ==
    /\ reply' = IF map[k] = Absent
                THEN Reply("retrieve", k, n, "not_exist", << >>)
                ELSE Reply("retrieve", k, n, "ok", Prefix(map[k], n))
    /\ UNCHANGED map

Exist(k) ==
    /\ reply' = Reply("exist", k, 0, IF map[k] = Absent THEN "not_exist" ELSE "ok", << >>)
    /\ UNCHANGED map

Delete(k) ==
    /\ reply' = Reply("delete", k, 0, IF map[k] = Absent THEN "not_exist" ELSE "ok", << >>)
    /\ map' = [map EXCEPT ![k] = Absent]

Operation == \E k \in Keys : \/ \E v \in Values : Store(k, v)
                             \/ \E n \in Lengths : Retrieve(k, n)
                             \/ Exist(k)
                             \/ Delete(k)

(* A step that breaks the map may be any, and so may those after it.       *)
Next == broken' \/ (Operation /\ UNCHANGED broken)

Spec == Init /\ [][Next]_mapVars
=============================================================================
