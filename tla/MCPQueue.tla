------------------------------ MODULE MCPQueue ------------------------------
(* PQueue for model checking.  Lines differ only in their priorities, and   *)
(* every property checked is a safety property, so renaming lines is sound. *)
EXTENDS PQueue, TLC

LinesAlike == Permutations(Items)
=============================================================================
