-------------------------------- MODULE Sorting --------------------------------
(***************************************************************************)
(* What the sorting programs of hw4 promise: the array they were given     *)
(* ends up, in one step as far as anyone can see, as the same elements in  *)
(* ascending order, and that does happen.                                  *)
(***************************************************************************)
EXTENDS Integers, FiniteSets

CONSTANTS Lengths, Values     \* how long the array may be, and what it may hold

VARIABLES array, finished

Arrays == UNION {[0 .. n - 1 -> Values] : n \in Lengths}

(* What verify_sorted checks.                                              *)
Sorted(a) == \A i \in DOMAIN a : i > 0 => a[i - 1] <= a[i]

Occurrences(a, v) == Cardinality({i \in DOMAIN a : a[i] = v})
SameElements(a, b) == \A v \in Values : Occurrences(a, v) = Occurrences(b, v)

Init ==
    /\ array \in Arrays
    /\ finished = FALSE

Sort ==
    /\ ~finished
    /\ finished' = TRUE
    /\ array' \in [DOMAIN array -> Values]
    /\ Sorted(array')
    /\ SameElements(array', array)

Spec == Init /\ [][Sort]_<<array, finished>> /\ WF_<<array, finished>>(Sort)
=============================================================================
