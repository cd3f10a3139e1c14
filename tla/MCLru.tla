--------------------------------- MODULE MCLru ---------------------------------
(* Values for the constants of LruRefinement.                              *)
EXTENDS LruRefinement

(* Lines of two bytes in two sets: tags 1, 3, 5 share a set, and 2 is in   *)
(* the other one; the instruction's own line conflicts with the data.      *)
MCAddrs == {3, 4, 6, 10}
MCInsts == {2}
MCSizes == {8}
MCInitialMruIds == {0, 7}
=============================================================================
