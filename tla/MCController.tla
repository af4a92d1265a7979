---------------------------- MODULE MCController ----------------------------
(* Controller for TLC: the values of the bounds are in the .cfg files.      *)
EXTENDS Controller
=============================================================================
