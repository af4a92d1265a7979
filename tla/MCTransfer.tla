----------------------------- MODULE MCTransfer -----------------------------
(* Transfer for TLC: one worker with any short command, another with one    *)
(* write; their sectors and memory do not meet.                             *)
EXTENDS Transfer

(* Four frames in every order: all ways in which the pages of a buffer can   *)
(* follow each other in memory or not.                                      *)
Layouts == {f \in [1 .. 4 -> 1 .. 4] : {f[i] : i \in 1 .. 4} = 1 .. 4}

Short == [op : {"write", "read"}, slba : {0}, off : 0 .. PAGE_SIZE - 1,
          len : 1 .. 3 * PAGE_SIZE, frames : Layouts]
Flush == [op |-> "other", slba |-> 0, off |-> 1, len |-> 2 * PAGE_SIZE, frames |-> <<4, 1, 2>>]
Other == [op |-> "write", slba |-> 6, off |-> 1, len |-> PAGE_SIZE + 1, frames |-> <<5, 7>>]
Storage == 0 .. 8
Memory == 0 .. 8 * PAGE_SIZE - 1
Commands == {[w \in Workers |-> IF w = "w1" THEN c ELSE Other] : c \in Short \cup {Flush}}
=============================================================================
