------------------------------- MODULE MCSsd -------------------------------
(* Ssd for TLC; the dies of a channel differ in nothing.                    *)
EXTENDS Ssd, TLC

Dies == Permutations(Luns)
=============================================================================
