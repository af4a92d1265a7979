---------------------------- MODULE MCProcTable ----------------------------
(* ProcTable for TLC: the values of the bounds are in the .cfg files.       *)
EXTENDS ProcTable
=============================================================================
