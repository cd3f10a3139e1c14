------------------------------- MODULE MCOptimal -------------------------------
(* Values for the constants of OptimalReference: four lines, one of them   *)
(* the instruction's, compete for the two ways of set 0, and the fifth has *)
(* set 1 to itself.                                                        *)
EXTENDS OptimalReference

MCAddrs == {2, 4, 6, 3}
MCInsts == {8}
MCKnobs == {<<1, 1>>, <<1, 2>>}
MCNoWindow == {<<1, 0>>}
=============================================================================
