------------------------------ MODULE MCKvFtl ------------------------------
(* KvFtl for model checking: hash functions and value lengths of small tables. *)
EXTENDS KvFtl, TLC

(* One hash value for three keys. *)
OneHome == [k \in {"k1", "k2", "k3"} |-> 1]
(* Two hash values for three keys. *)
TwoHomes == [k \in {"k1", "k2", "k3"} |-> IF k = "k3" THEN 1 ELSE 0]

(* One key with small values of two lengths, the others with one length each. *)
MixedLengths == [k \in {"k1", "k2", "k3"} |->
                    CASE k = "k1" -> {1, 2} [] k = "k2" -> {4} [] k = "k3" -> {2}]
MixedBatches == [k \in {"k1", "k2", "k3"} |-> IF k = "k1" THEN {2} ELSE {}]
OneLengthEach == [k \in {"k1", "k2", "k3"} |->
                     CASE k = "k1" -> {1} [] k = "k2" -> {3} [] k = "k3" -> {2}]
UnitLengths == [k \in {"k1", "k2", "k3"} |-> {1}]
NoBatches == [k \in {"k1", "k2", "k3"} |-> {}]

(* No promise is left to check after a mishap.                             *)
NoMishapYet == mishaps = {}

DataSymmetry == Permutations(Data)

TwoPrefixes == {{"k1", "k3"}, {"k1", "k2", "k3"}}
=============================================================================
