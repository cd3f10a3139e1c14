--------------------------- MODULE MCCacheSimulator ---------------------------
(* Values for the constants of CacheSimulator: three data lines and one    *)
(* line of instructions.                                                   *)
EXTENDS CacheSimulator

MCAddrs == {1, 2, 3}
MCInsts == {4}
MCInitialMruIds == {0}
=============================================================================
