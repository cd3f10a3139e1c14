----------------------------- MODULE MCBigMultiply -----------------------------
(* Values for the constants of BigMultiply: base 3, vectors of two lanes.  *)
(* Seven digits of B are a double vector, a vector and a single digit.     *)
(* Words are shorter numbers, since TLC computes their value.              *)
EXTENDS BigMultiply

Long == [lenA |-> {1, 2}, lenB |-> {1, 2, 3, 5, 7}, digits |-> {0, 2}]
Square == [lenA |-> 1 .. 3, lenB |-> 1 .. 3, digits |-> 0 .. 2]
FewWords == [lenA |-> 1 .. 2, lenB |-> 1 .. 2, digits |-> {0, 1, Word - 2, Word - 1}]

MCInputs ==
    [r \in Deferred \cup Inline |->
        CASE r = "multiply" -> FewWords
          [] r \in {"multiplyBigInt", "multiply_baseline"} -> Square
          [] OTHER -> Long]
=============================================================================
