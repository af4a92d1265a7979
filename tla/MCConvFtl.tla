----------------------------- MODULE MCConvFtl -----------------------------
(* ConvFtl for model checking. *)
EXTENDS ConvFtl

(* Two logical pages suffice to use up a line of the conventional build;   *)
(* the hybrid build's hotness table needs more of them than it has slots.  *)
FewOrAll == [h \in BOOLEAN |-> IF h THEN NLpns ELSE 2]

(* The conventional build's buffer takes a line; in the hybrid build every  *)
(* write pointer reaches the end of its block within seven pages.           *)
LineOrSeven == [h \in BOOLEAN |-> IF h THEN 14 ELSE 32]

Zeroes == [ch |-> 0, lun |-> 0, blk |-> 0, pg |-> 0, pl |-> 0]
ZeroWps == {Zeroes}
(* Zeroes, another page, values out of range, and values that a field of   *)
(* struct ppa cannot hold (a block that becomes 3, a page that becomes 1). *)
AnyWps == ZeroWps \cup {[Zeroes EXCEPT !.ch = 5, !.lun = 1, !.blk = 1, !.pg = 1],
                        [Zeroes EXCEPT !.blk = 14], [Zeroes EXCEPT !.blk = 19, !.pl = 8],
                        [Zeroes EXCEPT !.pg = 9], [Zeroes EXCEPT !.pl = 7]}
=============================================================================
