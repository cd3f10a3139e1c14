------------------------------ MODULE BigMultiply ------------------------------
(***************************************************************************)
(* The big integer multiplications of hw3.  All of them compute the        *)
(* product digit array C of A and B row by row; they differ in when they   *)
(* carry:                                                                  *)
(*   multiplyBigInt                 once, after all rows (base.c)          *)
(*   multiply_vectorized_optimized  once, with a running carry             *)
(*                                  (vetorized_multiply_1.c)               *)
(*   multiply_vectorized            after each row (vectorized_multiply.c; *)
(*                                  multiply_vectorized_simple is the same)*)
(*   multiply_baseline              within the row, in 64 bits             *)
(*                                  (vectorized_multiply_simple.c)         *)
(*   multiply                       within the row, on 32 bit words        *)
(*                                  (multiply.c)                           *)
(* The vector versions take LANES digits of B at a time where as many are  *)
(* left.  Numbers are stored lowest digit first, from cell 0.  One step is *)
(* one iteration of an inner loop.                                         *)
(***************************************************************************)
EXTENDS Integers

CONSTANTS
    BASE, MAX_DIGITS,   \* the macros of the code
    LANES,              \* 32 bit lanes of a vector
    Word,               \* a cell has 32 bits: arithmetic modulo this
    Inputs              \* for each function, the numbers it is given:
                        \* their lengths and the digits they are made of

ASSUME MultiplyAssumption ==
    /\ BASE \in Nat /\ BASE >= 2
    /\ MAX_DIGITS \in Nat \ {0} /\ LANES \in Nat \ {0}

(* A cell, of which one bit may be a sign, is wide enough for a product of *)
(* digits and a carry in every row.                                        *)
ASSUME WidthAssumption == Word \in Nat /\ Word >= 2 * (MAX_DIGITS + 1) * (BASE * (BASE - 1))

VARIABLES
    routine,        \* which of the functions is executing
    A, lenA, B, lenB,
    C,
    pc,             \* "row", "carry" or "done"
    i, j,           \* position in A and B
    k,              \* position of the carry loop
    carry

vars == <<routine, A, lenA, B, lenB, C, pc, i, j, k, carry>>
operands == <<routine, A, lenA, B, lenB>>

Deferred == {"multiplyBigInt", "multiply_vectorized", "multiply_vectorized_optimized"}
Inline == {"multiply_baseline", "multiply"}

RadixOf(r) == IF r = "multiply" THEN Word ELSE BASE
Radix == RadixOf(routine)

(* The cells of these two are int, the others' uint32_t.                   *)
Limit == IF routine \in {"multiplyBigInt", "multiply_vectorized_optimized"}
         THEN Word \div 2 ELSE Word

ASSUME InputsAssumption ==
    \A r \in Deferred \cup Inline :
        /\ Inputs[r].lenA \subseteq 1 .. MAX_DIGITS
        /\ Inputs[r].lenB \subseteq 1 .. MAX_DIGITS
        /\ Inputs[r].digits \subseteq 0 .. RadixOf(r) - 1

Number == 0 .. MAX_DIGITS - 1       \* cells of A and B
Product == 0 .. 2 * MAX_DIGITS - 1  \* cells of C

-----------------------------------------------------------------------------
(* How many digits of B the next iteration of the row takes.               *)
(* Bug: a vector is loaded wherever the digits left end.                   *)
WidthUnguarded == IF routine = "multiplyBigInt" THEN 1 ELSE LANES

Width ==
    LET left == lenB - j
    IN  CASE routine = "multiply_vectorized" -> IF LANES <= left THEN LANES ELSE left
          [] routine = "multiply_vectorized_optimized" ->
                IF 2 * LANES <= left THEN 2 * LANES
                ELSE IF LANES <= left THEN LANES ELSE 1
          [] OTHER -> 1

(* The products are added to the cells, and nothing is carried.            *)
AddProducts ==
    /\ pc = "row" /\ routine \in Deferred
    /\ i < lenA /\ j < lenB
    /\ C' = [c \in Product |-> IF c \in i + j .. i + j + Width - 1
                               THEN (C[c] + A[i] * B[c - i]) % Word ELSE C[c]]
    /\ j' = j + Width
    /\ UNCHANGED <<operands, pc, i, k, carry>>

(* A row is finished; multiply_vectorized carries now.                     *)
NextRow ==
    /\ pc = "row" /\ routine \in Deferred
    /\ i < lenA /\ j >= lenB
    /\ IF routine = "multiply_vectorized"
       THEN pc' = "carry" /\ k' = 0 /\ UNCHANGED <<i, j>>
       ELSE i' = i + 1 /\ j' = 0 /\ UNCHANGED <<pc, k>>
    /\ UNCHANGED <<operands, C, carry>>

(* All rows are: the other two carry now.                                  *)
StartCarry ==
    /\ pc = "row" /\ routine \in Deferred
    /\ i = lenA
    /\ pc' = IF routine = "multiply_vectorized" THEN "done" ELSE "carry"
    /\ k' = 0
    /\ UNCHANGED <<operands, C, i, j, carry>>

(* Bug: the last cell to carry from is left out.                           *)
CarryEndShort == lenA + lenB - 1 - (IF routine = "multiply_vectorized" THEN 1 ELSE 0)

(* Bug: the carry loop visits one cell more.                               *)
CarryEndLong == lenA + lenB + (IF routine = "multiply_vectorized" THEN 0 ELSE 1)

(* The carry loop stops before this cell.                                  *)
CarryEnd == IF routine = "multiply_vectorized" THEN lenA + lenB - 1 ELSE lenA + lenB

(* The cell keeps the low digit, the next one takes the rest.              *)
CarryToNext ==
    /\ pc = "carry" /\ routine # "multiply_vectorized_optimized"
    /\ k < CarryEnd
    /\ C' = IF C[k] >= BASE
            THEN [C EXCEPT ![k] = @ % BASE, ![k + 1] = (@ + C[k] \div BASE) % Word]
            ELSE C
    /\ k' = k + 1
    /\ UNCHANGED <<operands, pc, i, j, carry>>

(* The same with the carry in a variable.                                  *)
CarryInVariable ==
    /\ pc = "carry" /\ routine = "multiply_vectorized_optimized"
    /\ k < CarryEnd
    /\ LET total == (C[k] + carry) % Word
       IN  /\ C' = [C EXCEPT ![k] = total % BASE]
           /\ carry' = total \div BASE
    /\ k' = k + 1
    /\ UNCHANGED <<operands, pc, i, j>>

Carried ==
    /\ pc = "carry" /\ k >= CarryEnd
    /\ IF routine = "multiply_vectorized"
       THEN pc' = "row" /\ i' = i + 1 /\ j' = 0
       ELSE pc' = "done" /\ UNCHANGED <<i, j>>
    /\ UNCHANGED <<operands, C, k, carry>>

-----------------------------------------------------------------------------
(* multiply_baseline and multiply: the product, the cell and the carry are *)
(* added in 64 bits.                                                       *)

(* Bug: the factors are not converted to 64 bits.                          *)
WideNarrow == Word

Wide == Word * Word

MultiplyAndCarry ==
    /\ pc = "row" /\ routine \in Inline
    /\ i < lenA /\ j < lenB
    /\ LET prod == (A[i] * B[j] + C[i + j] + carry) % Wide
       IN  /\ C' = [C EXCEPT ![i + j] = prod % Radix]
           /\ carry' = (prod \div Radix) % Word
    /\ j' = j + 1
    /\ UNCHANGED <<operands, pc, i, k>>

(* Bug: the carry of a row is dropped.                                     *)
LastCarryDropped ==
    /\ pc = "row" /\ routine \in Inline
    /\ i < lenA /\ j >= lenB
    /\ i' = i + 1 /\ j' = 0 /\ carry' = 0
    /\ UNCHANGED <<operands, C, pc, k>>

(* The last carry goes to the cell after the row: assigned by one, added   *)
(* by the other.                                                           *)
LastCarry ==
    /\ pc = "row" /\ routine \in Inline
    /\ i < lenA /\ j >= lenB
    /\ C' = [C EXCEPT ![i + lenB] = IF routine = "multiply" THEN (@ + carry) % Word
                                                            ELSE carry]
    /\ i' = i + 1 /\ j' = 0 /\ carry' = 0
    /\ UNCHANGED <<operands, pc, k>>

RowsDone ==
    /\ pc = "row" /\ routine \in Inline
    /\ i = lenA
    /\ pc' = "done"
    /\ UNCHANGED <<operands, C, i, j, k, carry>>

-----------------------------------------------------------------------------
(* main clears the arrays before stringToBigInt stores the digits of a     *)
(* non-empty word in them.                                                 *)
Numbers(len, digits) ==
    {[c \in Number |-> IF c < len THEN d[c] ELSE 0] : d \in [0 .. len - 1 -> digits]}

Init ==
    /\ routine \in Deferred \cup Inline
    /\ lenA \in Inputs[routine].lenA /\ lenB \in Inputs[routine].lenB
    /\ A \in Numbers(lenA, Inputs[routine].digits)
    /\ B \in Numbers(lenB, Inputs[routine].digits)
    /\ C = [c \in Product |-> 0]
    /\ pc = "row"
    /\ i = 0 /\ j = 0 /\ k = 0 /\ carry = 0

Next ==
    \/ AddProducts \/ NextRow \/ StartCarry \/ CarryToNext \/ CarryInVariable \/ Carried
    \/ MultiplyAndCarry \/ LastCarry \/ RowsDone

Spec == Init /\ [][Next]_vars
-----------------------------------------------------------------------------
(***************************************************************************)
(* Properties.                                                             *)
(***************************************************************************)

(* Type correctness: cells are words, and the loops stay where they may.   *)
TypeOK ==
    /\ routine \in Deferred \cup Inline
    /\ lenA \in 1 .. MAX_DIGITS /\ lenB \in 1 .. MAX_DIGITS
    /\ A \in [Number -> 0 .. Radix - 1] /\ B \in [Number -> 0 .. Radix - 1]
    /\ C \in [Product -> 0 .. Word - 1]
    /\ pc \in {"row", "carry", "done"}
    /\ i \in 0 .. lenA /\ j \in 0 .. lenB /\ k \in 0 .. lenA + lenB
    /\ carry \in 0 .. Word - 1

(* b to the n.                                                             *)
Power(b, n) ==
    LET power[m \in 0 .. n] == IF m = 0 THEN 1 ELSE power[m - 1] * b IN power[n]

(* What the first n digits of a number in base b are worth.                *)
Value(b, n, f) ==
    LET worth[m \in 0 .. n] ==
          IF m = 0 THEN 0 ELSE worth[m - 1] + f[m - 1] * Power(b, m - 1)
    IN  worth[n]

(* The cell the carry belongs to.                                          *)
CarryCell == IF routine \in Inline THEN i + j ELSE k

(* The products done so far, at any moment of any of the functions, are    *)
(* what the cells and the carry are worth together; at the end, when the   *)
(* carry is dropped, the cells alone are worth A times B.                  *)
PartialProduct ==
    LET rows == Value(Radix, i, A) * Value(Radix, lenB, B)
        row  == IF i < lenA THEN A[i] * Power(Radix, i) * Value(Radix, j, B) ELSE 0
        left == IF pc = "done" THEN 0 ELSE carry * Power(Radix, CarryCell)
    IN  Value(Radix, lenA + lenB, C) + left = rows + row

(* Every cell is a digit when the function returns, beyond the product all *)
(* are zero, and no carry is left over: also after the loop that stops one *)
(* cell short (multiply_vectorized).  There the same holds after each row. *)
Reduced ==
    \/ pc = "done"
    \/ routine \in Inline
    \/ routine = "multiply_vectorized" /\ pc = "row" /\ j = 0

Normalised ==
    /\ Reduced => \A c \in Product : C[c] < Radix /\ (c >= lenA + lenB => C[c] = 0)
    /\ pc = "done" => carry = 0

(* No iteration reads B beyond its digits or writes C beyond the cells     *)
(* that were cleared for the product: vectors end where the digits do, and *)
(* the carry loop, which stores to C[k + 1], has nothing to carry from the *)
(* last cell.                                                              *)
WithinProduct ==
    /\ pc = "row" /\ i < lenA /\ j < lenB => j + Width <= lenB
    /\ pc = "carry" /\ k < CarryEnd /\ C[k] >= BASE
         /\ routine # "multiply_vectorized_optimized" => k + 1 < lenA + lenB

(* No sum is ever cut off: the lanes and cells hold the products of all    *)
(* the rows that are added before a carry, 64 bits hold the product of two *)
(* words with a cell and a carry, and the cell that is given the last      *)
(* carry of a row is still empty.                                          *)
NeverWraps ==
    /\ pc = "row" /\ routine \in Deferred /\ i < lenA /\ j < lenB =>
         \A c \in i + j .. i + j + Width - 1 : C[c] + A[i] * B[c - i] < Limit
    /\ pc = "carry" /\ k < CarryEnd =>
         IF routine = "multiply_vectorized_optimized"
         THEN C[k] + carry < Limit
         ELSE C[k] >= BASE => C[k + 1] + C[k] \div BASE < Limit
    /\ pc = "row" /\ routine \in Inline /\ i < lenA =>
         /\ j < lenB => LET prod == A[i] * B[j] + C[i + j] + carry
                        IN  prod < Wide /\ prod \div Radix < Word
         /\ C[i + lenB] = 0
=============================================================================
