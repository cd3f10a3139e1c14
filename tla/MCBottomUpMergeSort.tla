------------------------- MODULE MCBottomUpMergeSort -------------------------
(* Values for the constants of BottomUpMergeSort.                          *)
EXTENDS BottomUpMergeSort

MCThreads == {"t1", "t2"}
=============================================================================
