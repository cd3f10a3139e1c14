------------------------- MODULE MCParallelMergeSort -------------------------
(* Values for the constants of ParallelMergeSort.                          *)
EXTENDS ParallelMergeSort

MCThreads == {"t1", "t2"}
=============================================================================
