--------------------------- MODULE BigMultiplyProofs ---------------------------
(***************************************************************************)
(* Proofs about BigMultiply, for numbers, bases and vectors of any size    *)
(* the assumptions allow: the loops stay within the product, no sum is cut *)
(* off, the cells are digits in the end, and they are worth the product.   *)
(* The inductive invariant bounds every cell by the number of products it  *)
(* may hold so far; with it no step changes what the cells, the carry and  *)
(* the products still to come are worth together.                          *)
(***************************************************************************)
EXTENDS BigMultiply, WellFoundedInduction, TLAPS

Top == BASE - 1                     \* the largest digit
Products(n) == n * (Top * Top)      \* n products of two digits at most
Digits(n) == n * Top                \* n digits at most
Pos(n) == IF n > 0 THEN n ELSE 0

CarryOnce == {"multiplyBigInt", "multiply_vectorized_optimized"}

(* How the positions of the loops depend on each other, and when there is  *)
(* a carry.                                                                *)
Control ==
    /\ pc \in {"row", "done"} /\ i = lenA => j = 0
    /\ pc = "done" => i = lenA
    /\ routine \in Inline => pc # "carry" /\ (j = 0 => carry = 0)
    /\ routine \in Deferred /\ (pc # "carry" \/ routine # "multiply_vectorized_optimized") =>
         carry = 0
    /\ pc = "carry" =>
         IF routine = "multiply_vectorized" THEN i < lenA /\ j = lenB /\ k <= CarryEnd
         ELSE i = lenA /\ j = 0

(* Has this row added to the cell?                                         *)
Added(c) == IF i <= c /\ c < i + j THEN 1 ELSE 0

(* While rows are added without a carry: a product for every row, and no   *)
(* more than there are rows which reach the cell.                          *)
OnceRow ==
    routine \in CarryOnce /\ pc = "row" =>
        \A c \in Product :
            /\ C[c] <= Products(i + Added(c))
            /\ C[c] <= Products(Pos(i + lenB - 1 - c) + Added(c))

(* While they are carried: digits up to k, products above, and what k was  *)
(* carried is no more than the cells above k can take.                     *)
OnceCarry ==
    routine \in CarryOnce /\ pc = "carry" =>
        /\ \A c \in Product :
             /\ c < k => C[c] <= Top
             /\ c > k => /\ C[c] <= Products(lenA)
                         /\ C[c] <= Products(Pos(lenA + lenB - 1 - c))
             /\ c = k => /\ C[c] + carry <= Products(lenA) + Digits(lenA)
                         /\ C[c] + carry <= Products(Pos(lenA + lenB - 1 - c))
                                              + Digits(lenA + lenB - c)
        /\ k = lenA + lenB => carry = 0

(* multiply_vectorized: a cell holds a digit, and a product where the row  *)
(* has been.                                                               *)
EachRow ==
    routine = "multiply_vectorized" /\ pc = "row" =>
        \A c \in Product :
            /\ C[c] <= Top + (IF Added(c) = 1 THEN Top * Top ELSE 0)
            /\ c >= i + lenB => C[c] = 0

EachCarry ==
    routine = "multiply_vectorized" /\ pc = "carry" =>
        \A c \in Product :
            /\ c < k => C[c] <= Top
            /\ c >= k /\ c < i + lenB =>
                 C[c] <= Top + Top * Top + (IF c = k THEN Top ELSE 0)
            /\ c = i + lenB /\ c >= k => C[c] <= IF c = k THEN Top ELSE 0
            /\ c > i + lenB => C[c] = 0

(* multiply_baseline and multiply: digits, and none beyond the rows so far. *)
InlineRow ==
    routine \in Inline =>
        /\ carry < Radix
        /\ \A c \in Product : C[c] < Radix /\ (c >= i + lenB => C[c] = 0)

Finished ==
    pc = "done" =>
        \A c \in Product : C[c] < Radix /\ (c >= lenA + lenB => C[c] = 0)

IInv ==
    /\ TypeOK /\ Control
    /\ OnceRow /\ OnceCarry /\ EachRow /\ EachCarry /\ InlineRow /\ Finished
-----------------------------------------------------------------------------
(* Arithmetic.                                                             *)

(* Division and remainder of naturals.                                     *)
LEMMA DivMod ==
    ASSUME NEW x \in Nat, NEW b \in Nat \ {0}
    PROVE  /\ x \div b \in Nat /\ x % b \in 0 .. b - 1
           /\ x = b * (x \div b) + (x % b)
           /\ x < b => x % b = x
OBVIOUS

(* A number below the modulus is its own remainder.                        *)
LEMMA SmallMod ==
    ASSUME NEW x \in Nat, NEW w \in Nat, x < w
    PROVE  x % w = x
OBVIOUS

(* A quotient is bounded by what the number is below.                      *)
LEMMA DivBound ==
    ASSUME NEW x \in Nat, NEW b \in Nat \ {0}, NEW q \in Nat, x < (q + 1) * b
    PROVE  x \div b <= q
<1> DEFINE d == x \div b
<1>1. d \in Nat /\ x >= b * d
  BY DivMod
<1> HIDE DEF d
<1>2. SUFFICES ASSUME d >= q + 1 PROVE FALSE
  BY <1>1 DEF d
<1>3. b * d >= b * (q + 1)
  BY <1>1, <1>2
<1> QED BY <1>1, <1>3

(* The largest digit.                                                      *)
LEMMA TopFacts == Top \in Nat /\ Top >= 1 /\ BASE = Top + 1 /\ Top * Top \in Nat
BY MultiplyAssumption DEF Top

(* Bounds of products and digits grow by one product, one digit at a time. *)
LEMMA ProductsFacts ==
    ASSUME NEW n \in Nat
    PROVE  /\ Products(n) \in Nat
           /\ Products(n + 1) = Products(n) + Products(1)
           /\ \A m \in Nat : n <= m => Products(n) <= Products(m)
           /\ Products(0) = 0 /\ Products(1) = Top * Top
<1> DEFINE sq == Top * Top
<1>1. sq \in Nat
  BY TopFacts
<1> HIDE DEF sq
<1>2. /\ n * sq \in Nat
      /\ (n + 1) * sq = n * sq + sq
      /\ \A m \in Nat : n <= m => n * sq <= m * sq
      /\ 0 * sq = 0 /\ 1 * sq = sq
  BY <1>1
<1> QED BY <1>2 DEF Products, sq

(* The largest sum of n digits grows by a digit with n.                    *)
LEMMA DigitsFacts ==
    ASSUME NEW n \in Nat
    PROVE  /\ Digits(n) \in Nat
           /\ Digits(n + 1) = Digits(n) + Top
           /\ \A m \in Nat : n <= m => Digits(n) <= Digits(m)
           /\ Digits(0) = 0 /\ Digits(1) = Top /\ Digits(2) = Top + Top
BY TopFacts DEF Digits

(* The bounds for none and for one or two summands.                        *)
LEMMA FewFacts ==
    /\ Products(0) = 0 /\ Products(1) = Top * Top /\ Products(1) \in Nat
    /\ Digits(0) = 0 /\ Digits(1) = Top /\ Digits(2) = Top + Top
<1>1. 0 \in Nat
  OBVIOUS
<1> QED BY <1>1, ProductsFacts, DigitsFacts, TopFacts

(* Two digits make a product.                                              *)
LEMMA DigitTimesDigit ==
    ASSUME NEW a \in 0 .. BASE - 1, NEW b \in 0 .. BASE - 1
    PROVE  a * b \in Nat /\ a * b <= Products(1)
<1>1. a \in Nat /\ b \in Nat /\ a <= Top /\ b <= Top
  BY TopFacts
<1>2. a * b <= Top * b /\ Top * b <= Top * Top /\ a * b \in Nat /\ Top * b \in Nat
  BY <1>1, TopFacts
<1>3. a * b <= Top * Top
  BY <1>2, TopFacts
<1> QED BY <1>2, <1>3, ProductsFacts

(* What is left of a cell is a digit; what is carried is bounded by what   *)
(* the cells above can take.                                               *)
LEMMA CarryBound ==
    ASSUME NEW x \in Nat, NEW m \in Nat, x <= Products(m) + Digits(m + 1)
    PROVE  x \div BASE \in Nat /\ x \div BASE <= Digits(m) /\ x % BASE \in 0 .. Top
<1>1. BASE \in Nat \ {0}
  BY TopFacts
<1>2. Products(m) + Digits(m + 1) < (Digits(m) + 1) * BASE
  <2> DEFINE d == Digits(m)
  <2>1. d \in Nat /\ Digits(m + 1) = d + Top
    BY DigitsFacts
  <2>2. Products(m) = d * Top
    BY TopFacts DEF Products, Digits
  <2> HIDE DEF d
  <2>3. (d + 1) * (Top + 1) = d * Top + d + Top + 1 /\ d * Top \in Nat
    BY <2>1, TopFacts
  <2> QED BY <2>1, <2>2, <2>3, TopFacts DEF d
<1>3. x < (Digits(m) + 1) * BASE
  <2>1. (Digits(m) + 1) * BASE \in Int
    BY DigitsFacts, TopFacts
  <2> QED BY <1>2, <2>1, ProductsFacts, DigitsFacts
<1>4. Digits(m) \in Nat
  BY DigitsFacts
<1>5. x \div BASE <= Digits(m)
  BY <1>1, <1>3, <1>4, DivBound
<1>6. x \div BASE \in Nat /\ x % BASE \in 0 .. BASE - 1
  BY <1>1, DivMod
<1> QED BY <1>5, <1>6, TopFacts

(* The cells are wide enough.                                              *)
LEMMA WordFacts ==
    /\ Word \in Nat /\ Word \div 2 \in Nat /\ Word \div 2 <= Word
    /\ BASE < Word
    /\ \A n \in 0 .. MAX_DIGITS : Products(n) + Digits(n) < Word \div 2
    /\ Products(1) + Top + Top < Word \div 2
<1> DEFINE u == Top * Top + Top
           half == Word \div 2
<1>1. u \in Nat /\ u >= Top /\ u >= 2 /\ BASE * (BASE - 1) = u
  <2>1. Top * Top >= 1
    BY TopFacts
  <2>2. BASE * (BASE - 1) = (Top + 1) * Top
    BY MultiplyAssumption DEF Top
  <2> QED BY <2>1, <2>2, TopFacts
<1>2. \A n \in Nat : Products(n) + Digits(n) = n * u
  BY TopFacts DEF Products, Digits
<1>3. Word \in Nat /\ Word >= 2 * ((MAX_DIGITS + 1) * u)
  <2>1. 2 * (MAX_DIGITS + 1) * u = 2 * ((MAX_DIGITS + 1) * u)
    BY <1>1, MultiplyAssumption
  <2> QED BY <1>1, <2>1, WidthAssumption
<1>4. BASE <= u + 1
  BY <1>1, TopFacts
<1> HIDE DEF u
<1>5. /\ (MAX_DIGITS + 1) * u \in Nat
      /\ \A n \in 0 .. MAX_DIGITS : n * u \in Nat /\ n * u < (MAX_DIGITS + 1) * u
      /\ 2 * u <= (MAX_DIGITS + 1) * u
  <2>1. ASSUME NEW n \in 0 .. MAX_DIGITS PROVE n * u \in Nat /\ n * u < (MAX_DIGITS + 1) * u
    <3>1. n * u <= MAX_DIGITS * u /\ (MAX_DIGITS + 1) * u = MAX_DIGITS * u + u
          /\ n * u \in Nat /\ MAX_DIGITS * u \in Nat
      BY <1>1, MultiplyAssumption
    <3> QED BY <3>1, <1>1
  <2>2. 2 * u <= (MAX_DIGITS + 1) * u /\ (MAX_DIGITS + 1) * u \in Nat
    BY <1>1, MultiplyAssumption
  <2> QED BY <2>1, <2>2
<1>6. half \in Nat /\ half <= Word /\ half >= (MAX_DIGITS + 1) * u
  BY <1>3, <1>5
<1> HIDE DEF half
<1>7. Products(1) + Top + Top < 2 * u
  BY <1>1, TopFacts, ProductsFacts DEF u
<1>8. \A n \in 0 .. MAX_DIGITS : Products(n) + Digits(n) < half
  BY <1>2, <1>5, <1>6, MultiplyAssumption
<1>9. Products(1) + Top + Top < half
  BY <1>1, <1>5, <1>6, <1>7, TopFacts, ProductsFacts
<1>10. BASE < Word
  BY <1>1, <1>3, <1>4, <1>5, TopFacts
<1> QED BY <1>3, <1>6, <1>8, <1>9, <1>10 DEF half
-----------------------------------------------------------------------------
(* What the invariant says of a state.                                     *)

(* The ranges of the variables.                                            *)
LEMMA Ranges ==
    ASSUME TypeOK
    PROVE  /\ lenA \in Nat /\ lenB \in Nat /\ lenA >= 1 /\ lenB >= 1
           /\ lenA <= MAX_DIGITS /\ lenB <= MAX_DIGITS /\ MAX_DIGITS \in Nat
           /\ i \in Nat /\ j \in Nat /\ k \in Nat /\ carry \in Nat
           /\ i <= lenA /\ j <= lenB /\ k <= lenA + lenB
           /\ \A c \in Product : C[c] \in Nat /\ C[c] < Word
           /\ Word \in Nat /\ BASE \in Nat
BY MultiplyAssumption, WidthAssumption DEF TypeOK

(* Which of the two radices a routine carries in.                          *)
LEMMA RadixFacts ==
    ASSUME TypeOK
    PROVE  /\ Radix \in Nat /\ Radix >= 2 /\ Radix <= Word
           /\ routine # "multiply" => Radix = BASE
           /\ routine = "multiply" => Radix = Word
           /\ routine \in Deferred => Radix = BASE
BY WordFacts, TopFacts DEF Radix, RadixOf, Deferred

(* A vector ends where the digits do.                                      *)
LEMMA WidthFacts ==
    ASSUME TypeOK, j < lenB
    PROVE  Width \in Nat /\ Width >= 1 /\ j + Width <= lenB
BY Ranges, MultiplyAssumption DEF Width

(* The sum an iteration of a row stores in a cell.                         *)
LEMMA SumFits ==
    ASSUME IInv, pc = "row", routine \in Deferred, i < lenA, j < lenB,
           NEW c \in i + j .. i + j + Width - 1
    PROVE  LET sum == C[c] + A[i] * B[c - i]
           IN  /\ c \in Product
               /\ sum \in Nat /\ sum < Word \div 2 /\ sum % Word = sum
               /\ routine \in CarryOnce =>
                    sum <= Products(i + 1) /\ sum <= Products(Pos(i + lenB - 1 - c) + 1)
               /\ routine = "multiply_vectorized" => sum <= Top + Top * Top
               /\ c < i + lenB
<1> DEFINE sum == C[c] + A[i] * B[c - i]
<1> USE Ranges DEF IInv
<1>1. Width \in Nat /\ j + Width <= lenB
  BY WidthFacts
<1>2. c \in Product /\ i \in Number /\ c - i \in Number /\ c < i + lenB
  BY <1>1 DEF Product, Number
<1>3. A[i] \in 0 .. BASE - 1 /\ B[c - i] \in 0 .. BASE - 1
  BY <1>2, RadixFacts DEF TypeOK
<1>4. A[i] * B[c - i] \in Nat /\ A[i] * B[c - i] <= Products(1)
  BY <1>3, DigitTimesDigit
<1>5. Added(c) = 0
  BY <1>1 DEF Added
<1>6. sum \in Nat
  BY <1>2, <1>4
<1>7. CASE routine \in CarryOnce
  <2> DEFINE n == Pos(i + lenB - 1 - c)
  <2>1. C[c] <= Products(i) /\ C[c] <= Products(n) /\ n \in Nat
    BY <1>2, <1>5, <1>7 DEF OnceRow, Pos
  <2> HIDE DEF n
  <2>2. /\ Products(i + 1) = Products(i) + Products(1) /\ Products(i) \in Nat
        /\ Products(n + 1) = Products(n) + Products(1) /\ Products(n) \in Nat
        /\ Products(1) \in Nat
    BY <2>1, ProductsFacts
  <2>3. sum <= Products(i + 1) /\ sum <= Products(n + 1)
    BY <1>2, <1>4, <2>1, <2>2
  <2>4. Products(i + 1) \in Nat /\ Digits(i + 1) \in Nat
        /\ Products(i + 1) + Digits(i + 1) < Word \div 2
    <3>1. i + 1 \in 0 .. MAX_DIGITS /\ i + 1 \in Nat
      OBVIOUS
    <3> QED BY <3>1, WordFacts, ProductsFacts, DigitsFacts
  <2>5. sum < Word \div 2
    BY <1>6, <2>3, <2>4, WordFacts
  <2>6. sum % Word = sum
    <3>1. sum < Word
      BY <1>6, <2>5, WordFacts
    <3> HIDE DEF sum
    <3> QED BY <1>6, <3>1, WordFacts, SmallMod
  <2> QED BY <1>2, <1>6, <1>7, <2>3, <2>5, <2>6 DEF n, CarryOnce
<1>8. CASE routine = "multiply_vectorized"
  <2>1. C[c] <= Top
    BY <1>2, <1>5, <1>8, TopFacts DEF EachRow
  <2>2. sum <= Top + Top * Top
    BY <1>2, <1>4, <2>1, TopFacts, FewFacts
  <2>3. sum < Word \div 2
    BY <1>6, <2>2, WordFacts, TopFacts, FewFacts
  <2>4. sum % Word = sum
    <3>1. sum < Word
      BY <1>6, <2>3, WordFacts
    <3> HIDE DEF sum
    <3> QED BY <1>6, <3>1, WordFacts, SmallMod
  <2> QED BY <1>2, <1>6, <1>8, <2>2, <2>3, <2>4 DEF CarryOnce
<1> QED BY <1>7, <1>8 DEF Deferred, CarryOnce
-----------------------------------------------------------------------------
(* The steps.                                                              *)

(* The operands do not change.                                             *)
LEMMA SameOperands ==
    ASSUME TypeOK, UNCHANGED operands
    PROVE  /\ lenA' = lenA /\ lenB' = lenB /\ routine' = routine /\ Radix' = Radix
           /\ routine' \in Deferred \cup Inline
           /\ lenA' \in 1 .. MAX_DIGITS /\ lenB' \in 1 .. MAX_DIGITS
           /\ A' \in [Number -> 0 .. Radix - 1] /\ B' \in [Number -> 0 .. Radix - 1]
BY DEF TypeOK, operands, Radix

(* Adding products to some cells of a row.                                 *)
LEMMA AddProductsStep ==
    ASSUME IInv, AddProducts
    PROVE  IInv'
<1> DEFINE cells == i + j .. i + j + Width - 1
           sum(c) == C[c] + A[i] * B[c - i]
<1> USE Ranges DEF IInv
<1>1. /\ pc = "row" /\ pc' = "row" /\ routine \in Deferred /\ i < lenA /\ j < lenB
      /\ i' = i /\ k' = k /\ carry' = carry /\ j' = j + Width /\ UNCHANGED operands
      /\ C' = [c \in Product |-> IF c \in cells THEN sum(c) % Word ELSE C[c]]
  BY DEF AddProducts
<1>2. Width \in Nat /\ Width >= 1 /\ j + Width <= lenB
  BY <1>1, WidthFacts
<1>3. /\ lenA' = lenA /\ lenB' = lenB /\ routine' = routine /\ Radix' = Radix
      /\ routine \notin Inline
  BY <1>1, SameOperands DEF Deferred, Inline
<1>4. ASSUME NEW c \in Product
      PROVE  /\ c \in cells => /\ C'[c] = sum(c) /\ C'[c] \in Nat /\ C'[c] < Word
                               /\ Added(c) = 0 /\ Added(c)' = 1
             /\ c \notin cells => /\ C'[c] = C[c] /\ Added(c)' = Added(c)
  <2>1. CASE c \in cells
    <3>1. sum(c) \in Nat /\ sum(c) < Word \div 2 /\ sum(c) % Word = sum(c)
      BY <1>1, <2>1, SumFits
    <3>2. C'[c] = sum(c) /\ sum(c) < Word
      BY <1>1, <2>1, <3>1, WordFacts
    <3>3. Added(c) = 0 /\ Added(c)' = 1
      BY <1>1, <1>2, <2>1 DEF Added
    <3> QED BY <2>1, <3>1, <3>2, <3>3
  <2>2. CASE c \notin cells
    <3>1. c \in Int /\ (c < i + j \/ c >= i + j + Width)
      BY <1>2, <2>2 DEF Product
    <3>2. i' = i /\ j' = j + Width
      BY <1>1
    <3>3. Added(c)' = IF i <= c /\ c < i + (j + Width) THEN 1 ELSE 0
      BY <3>2 DEF Added
    <3>4. Added(c)' = Added(c)
      BY <1>2, <3>1, <3>3 DEF Added
    <3> QED BY <1>1, <2>2, <3>4
  <2> QED BY <2>1, <2>2
<1>5. TypeOK'
  <2>1. C' \in [Product -> 0 .. Word - 1]
    <3>1. \A c \in Product : C'[c] \in 0 .. Word - 1
      BY <1>4
    <3> QED BY <1>1, <3>1
  <2> QED BY <1>1, <1>2, <1>3, <2>1, SameOperands DEF TypeOK
<1>6. Control'
  BY <1>1, <1>2, <1>3 DEF Control
<1>7. OnceRow'
  <2> SUFFICES ASSUME routine \in CarryOnce, NEW c \in Product
               PROVE  /\ C'[c] <= Products(i + Added(c)')
                      /\ C'[c] <= Products(Pos(i + lenB - 1 - c) + Added(c)')
    BY <1>1, <1>3 DEF OnceRow
  <2>1. CASE c \in cells
    BY <1>1, <1>4, <2>1, SumFits
  <2>2. CASE c \notin cells
    BY <1>1, <1>4, <2>2 DEF OnceRow
  <2> QED BY <2>1, <2>2
<1>8. EachRow'
  <2> SUFFICES ASSUME routine = "multiply_vectorized", NEW c \in Product
               PROVE  /\ C'[c] <= Top + (IF Added(c)' = 1 THEN Top * Top ELSE 0)
                      /\ c >= i + lenB => C'[c] = 0
    BY <1>1, <1>3 DEF EachRow
  <2>1. CASE c \in cells
    BY <1>1, <1>4, <2>1, SumFits
  <2>2. CASE c \notin cells
    BY <1>1, <1>4, <2>2 DEF EachRow
  <2> QED BY <2>1, <2>2
<1> QED BY <1>1, <1>3, <1>5, <1>6, <1>7, <1>8 DEF OnceCarry, EachCarry, InlineRow, Finished

(* Going to the next row, or to carrying.                                  *)
LEMMA NextRowStep ==
    ASSUME IInv, NextRow
    PROVE  IInv'
<1> USE Ranges DEF IInv
<1>1. /\ pc = "row" /\ routine \in Deferred /\ i < lenA /\ j = lenB /\ lenB >= 1
      /\ C' = C /\ carry' = carry /\ UNCHANGED operands
  BY DEF NextRow
<1>2. /\ lenA' = lenA /\ lenB' = lenB /\ routine' = routine /\ Radix' = Radix
      /\ routine \notin Inline
  BY <1>1, SameOperands DEF Deferred, Inline
<1>3. CASE routine = "multiply_vectorized"
  <2>1. pc' = "carry" /\ k' = 0 /\ i' = i /\ j' = j /\ 0 <= CarryEnd /\ CarryEnd' = CarryEnd
    BY <1>1, <1>2, <1>3 DEF NextRow, CarryEnd
  <2>2. TypeOK'
    BY <1>1, <1>2, <2>1, SameOperands DEF TypeOK
  <2>3. Control'
    BY <1>1, <1>2, <1>3, <2>1 DEF Control
  <2>4. EachCarry'
    <3> SUFFICES ASSUME NEW c \in Product
                 PROVE  /\ c < i + lenB => C[c] <= Top + Top * Top
                        /\ c >= i + lenB => C[c] = 0
      BY <1>1, <1>2, <1>3, <2>1, TopFacts DEF EachCarry, Product
    <3>1. C[c] <= Top + (IF Added(c) = 1 THEN Top * Top ELSE 0) /\ (c >= i + lenB => C[c] = 0)
      BY <1>1, <1>3 DEF EachRow
    <3> QED BY <3>1, TopFacts
  <2> QED BY <1>2, <1>3, <2>1, <2>2, <2>3, <2>4
          DEF OnceRow, OnceCarry, EachRow, InlineRow, Finished, CarryOnce
<1>4. CASE routine # "multiply_vectorized"
  <2>1. pc' = "row" /\ k' = k /\ i' = i + 1 /\ j' = 0 /\ routine \in CarryOnce
    BY <1>1, <1>4 DEF NextRow, CarryOnce, Deferred
  <2>2. TypeOK'
    BY <1>1, <1>2, <2>1, SameOperands DEF TypeOK
  <2>3. Control'
    BY <1>1, <1>2, <1>4, <2>1 DEF Control
  <2>4. OnceRow'
    <3> SUFFICES ASSUME NEW c \in Product
                 PROVE  /\ C[c] <= Products(i + 1 + Added(c)')
                        /\ C[c] <= Products(Pos(i + 1 + lenB - 1 - c) + Added(c)')
      BY <1>1, <1>2, <2>1 DEF OnceRow
    <3> DEFINE n == Pos(i + lenB - 1 - c) + Added(c)
               m == Pos(i + 1 + lenB - 1 - c)
    <3>1. C[c] <= Products(i + Added(c)) /\ C[c] <= Products(n)
      BY <1>1, <2>1 DEF OnceRow
    <3>2. Added(c)' = 0
      BY <2>1 DEF Added, Product
    <3>3. Added(c) \in {0, 1} /\ n \in Nat /\ m \in Nat /\ n <= m
      BY <1>1 DEF Added, Pos, Product
    <3> HIDE DEF n, m
    <3>4. i + Added(c) \in Nat /\ i + 1 \in Nat /\ i + Added(c) <= i + 1
      BY <3>3
    <3>5. Products(i + Added(c)) <= Products(i + 1) /\ Products(n) <= Products(m)
          /\ Products(i + Added(c)) \in Nat /\ Products(i + 1) \in Nat
          /\ Products(n) \in Nat /\ Products(m) \in Nat
      BY <3>3, <3>4, ProductsFacts
    <3>6. C[c] <= Products(i + 1) /\ C[c] <= Products(m) /\ m + 0 = m /\ i + 1 + 0 = i + 1
      BY <3>1, <3>3, <3>5
    <3> QED BY <3>2, <3>6 DEF m
  <2> QED BY <1>2, <1>4, <2>1, <2>2, <2>3, <2>4
          DEF OnceCarry, EachRow, EachCarry, InlineRow, Finished
<1> QED BY <1>3, <1>4

(* The end of the rows of a routine that carries afterwards keeps IInv.    *)
LEMMA StartCarryStep ==
    ASSUME IInv, StartCarry
    PROVE  IInv'
<1> USE Ranges DEF IInv
<1>1. /\ pc = "row" /\ routine \in Deferred /\ i = lenA /\ j = 0 /\ k' = 0 /\ carry = 0
      /\ C' = C /\ carry' = carry /\ i' = i /\ j' = j /\ UNCHANGED operands
      /\ pc' = IF routine = "multiply_vectorized" THEN "done" ELSE "carry"
  BY DEF StartCarry, Control
<1>2. /\ lenA' = lenA /\ lenB' = lenB /\ routine' = routine /\ Radix' = Radix
      /\ routine \notin Inline /\ Radix = BASE
  BY <1>1, SameOperands, RadixFacts DEF Deferred, Inline
<1>3. TypeOK'
  BY <1>1, <1>2, SameOperands DEF TypeOK
<1>4. Control'
  BY <1>1, <1>2 DEF Control
<1>5. \A c \in Product : Added(c) = 0
  BY <1>1 DEF Added, Product
<1>6. CASE routine = "multiply_vectorized"
  <2>1. Finished'
    BY <1>1, <1>2, <1>5, <1>6, TopFacts DEF Finished, EachRow
  <2> QED BY <1>1, <1>2, <1>3, <1>4, <1>6, <2>1
          DEF OnceRow, OnceCarry, EachRow, EachCarry, InlineRow, CarryOnce
<1>7. CASE routine # "multiply_vectorized"
  <2>1. pc' = "carry" /\ routine \in CarryOnce
    BY <1>1, <1>7 DEF CarryOnce, Deferred
  <2>2. ASSUME NEW c \in Product
        PROVE  /\ C[c] <= Products(lenA) /\ C[c] <= Products(Pos(lenA + lenB - 1 - c))
               /\ Products(lenA) \in Nat /\ Products(Pos(lenA + lenB - 1 - c)) \in Nat
    <3> DEFINE n == Pos(lenA + lenB - 1 - c)
    <3>1. n \in Nat
      BY DEF Pos, Product
    <3>2. C[c] <= Products(lenA + 0) /\ C[c] <= Products(n + 0)
      BY <1>1, <1>5, <2>1 DEF OnceRow
    <3> HIDE DEF n
    <3>3. n + 0 = n /\ lenA + 0 = lenA /\ lenA \in Nat
      BY <3>1
    <3>4. Products(n) \in Nat
      BY <3>1, ProductsFacts
    <3>5. Products(lenA) \in Nat
      BY <3>3, ProductsFacts
    <3> QED BY <3>2, <3>3, <3>4, <3>5 DEF n
  <2>3. Digits(lenA) \in Nat /\ Digits(lenA + lenB - 0) \in Nat
    <3>1. lenA \in Nat /\ lenA + lenB - 0 \in Nat
      OBVIOUS
    <3> QED BY <3>1, DigitsFacts
  <2>4. OnceCarry'
    <3>1. ASSUME NEW c \in Product, c = 0
          PROVE  /\ C[c] + 0 <= Products(lenA) + Digits(lenA)
                 /\ C[c] + 0 <= Products(Pos(lenA + lenB - 1 - c)) + Digits(lenA + lenB - c)
      BY <2>2, <2>3, <3>1
    <3> QED BY <1>1, <1>2, <2>1, <2>2, <3>1 DEF OnceCarry, Product
  <2> QED BY <1>1, <1>2, <1>3, <1>4, <1>7, <2>1, <2>4
          DEF OnceRow, EachRow, EachCarry, InlineRow, Finished
<1> QED BY <1>6, <1>7

(* What is carried from k when the carry comes after all rows: nothing     *)
(* from the last cell.                                                     *)
LEMMA OnceDigit ==
    ASSUME IInv, routine \in CarryOnce, pc = "carry", k < CarryEnd
    PROVE  LET total == C[k] + carry
           IN  /\ k \in Product /\ k < lenA + lenB
               /\ total \in Nat /\ total < Word \div 2
               /\ total \div BASE \in Nat /\ total % BASE \in 0 .. Top
               /\ total \div BASE <= Digits(lenA)
               /\ total \div BASE <= Digits(lenA + lenB - 1 - k)
               /\ k + 1 = lenA + lenB => total \div BASE = 0 /\ total < BASE
<1> DEFINE total == C[k] + carry
           m == lenA + lenB - 1 - k
<1> USE Ranges DEF IInv
<1>1. k < lenA + lenB /\ k \in Product
  BY DEF CarryEnd, CarryOnce, Product
<1>2. m \in Nat /\ lenA + lenB - k = m + 1 /\ Pos(lenA + lenB - 1 - k) = m
  BY <1>1 DEF Pos
<1>3. total \in Nat
  BY <1>1
<1>4. /\ total <= Products(lenA) + Digits(lenA)
      /\ total <= Products(m) + Digits(m + 1)
  BY <1>1, <1>2 DEF OnceCarry
<1> HIDE DEF total, m
<1>5. lenA \in Nat /\ lenA \in 0 .. MAX_DIGITS /\ lenA + 1 \in Nat
  OBVIOUS
<1>6. /\ Products(lenA) \in Nat /\ Digits(lenA) \in Nat /\ Digits(lenA + 1) \in Nat
      /\ Digits(lenA) <= Digits(lenA + 1)
  BY <1>5, ProductsFacts, DigitsFacts, TopFacts
<1>7. total <= Products(lenA) + Digits(lenA + 1)
  BY <1>3, <1>4, <1>6
<1>8. total \div BASE \in Nat /\ total \div BASE <= Digits(lenA) /\ total % BASE \in 0 .. Top
  BY <1>3, <1>5, <1>7, CarryBound
<1>9. total \div BASE <= Digits(m)
  BY <1>2, <1>3, <1>4, CarryBound
<1>10. total < Word \div 2
  <2>1. Products(lenA) + Digits(lenA) < Word \div 2 /\ Word \div 2 \in Nat
    BY <1>5, WordFacts
  <2> QED BY <1>3, <1>4, <1>6, <2>1
<1>11. ASSUME k + 1 = lenA + lenB PROVE total \div BASE = 0 /\ total < BASE
  <2>1. m = 0
    BY <1>11 DEF m
  <2>2. total \div BASE <= 0 /\ total <= Products(0) + Digits(0 + 1)
    BY <1>4, <1>9, <2>1, FewFacts
  <2>3. total < BASE
    BY <1>3, <2>2, FewFacts, TopFacts
  <2> QED BY <1>8, <2>2, <2>3
<1> QED BY <1>1, <1>3, <1>8, <1>9, <1>10, <1>11 DEF total, m

(* What the next cell becomes.                                             *)
LEMMA OnceNextCell ==
    ASSUME IInv, routine \in CarryOnce, pc = "carry", k < CarryEnd, k + 1 \in Product
    PROVE  LET next == C[k + 1] + (C[k] + carry) \div BASE
           IN  /\ next \in Nat /\ next < Word \div 2
               /\ next <= Products(lenA) + Digits(lenA)
               /\ next <= Products(Pos(lenA + lenB - 1 - (k + 1)))
                            + Digits(lenA + lenB - (k + 1))
<1> DEFINE d == (C[k] + carry) \div BASE
           n == Pos(lenA + lenB - 1 - (k + 1))
<1> USE Ranges DEF IInv
<1>1. /\ d \in Nat /\ d <= Digits(lenA) /\ d <= Digits(lenA + lenB - 1 - k)
      /\ lenA + lenB - 1 - k = lenA + lenB - (k + 1)
      /\ lenA + lenB - (k + 1) \in Nat
  BY OnceDigit
<1>2. C[k + 1] \in Nat /\ C[k + 1] <= Products(lenA) /\ C[k + 1] <= Products(n)
  BY DEF OnceCarry
<1>3. n \in Nat
  BY DEF Pos
<1> HIDE DEF d, n
<1>4. lenA \in Nat /\ lenA \in 0 .. MAX_DIGITS
  OBVIOUS
<1>5. /\ Products(lenA) \in Nat /\ Digits(lenA) \in Nat /\ Products(n) \in Nat
      /\ Digits(lenA + lenB - (k + 1)) \in Nat
  BY <1>1, <1>3, <1>4, ProductsFacts, DigitsFacts
<1>6. Products(lenA) + Digits(lenA) < Word \div 2 /\ Word \div 2 \in Nat
  BY <1>4, WordFacts
<1>7. d <= Digits(lenA + lenB - (k + 1))
  BY <1>1
<1>8. /\ C[k + 1] + d \in Nat
      /\ C[k + 1] + d <= Products(lenA) + Digits(lenA)
      /\ C[k + 1] + d <= Products(n) + Digits(lenA + lenB - (k + 1))
  BY <1>1, <1>2, <1>5, <1>7
<1>9. C[k + 1] + d < Word \div 2
  BY <1>5, <1>6, <1>8
<1> QED BY <1>8, <1>9 DEF d, n

(* What is carried from k after a row: at most a digit, and nothing from   *)
(* beyond the cells of the row.                                            *)
LEMMA EachDigit ==
    ASSUME IInv, routine = "multiply_vectorized", pc = "carry", k < CarryEnd
    PROVE  /\ k \in Product /\ k + 1 \in Product /\ k + 1 < lenA + lenB
           /\ C[k] \div BASE \in Nat /\ C[k] % BASE \in 0 .. Top
           /\ C[k] \div BASE <= Top
           /\ C[k] >= BASE => k < i + lenB
           /\ k < i + lenB =>
                /\ C[k + 1] + C[k] \div BASE < Word \div 2
                /\ k + 1 < i + lenB => C[k + 1] + C[k] \div BASE <= Top + Top * Top + Top
                /\ k + 1 = i + lenB => C[k + 1] + C[k] \div BASE <= Top
<1> USE Ranges DEF IInv
<1>1. k \in Product /\ k + 1 \in Product /\ k + 1 < lenA + lenB /\ i < lenA
  BY DEF CarryEnd, Product, Control
<1>2. C[k] \in Nat /\ C[k + 1] \in Nat
  BY <1>1
<1>3. /\ k < i + lenB => C[k] <= Top + Top * Top + Top
      /\ k >= i + lenB => C[k] <= Top
      /\ k + 1 < i + lenB => C[k + 1] <= Top + Top * Top
      /\ k + 1 >= i + lenB => C[k + 1] = 0
  BY <1>1, <1>2, TopFacts DEF EachCarry
<1>4. C[k] <= Products(1) + Digits(1 + 1)
  BY <1>2, <1>3, FewFacts, TopFacts
<1>5. C[k] \div BASE \in Nat /\ C[k] \div BASE <= Top /\ C[k] % BASE \in 0 .. Top
  BY <1>2, <1>4, CarryBound, FewFacts
<1>6. C[k] >= BASE => k < i + lenB
  BY <1>1, <1>2, <1>3, TopFacts
<1> DEFINE d == C[k] \div BASE
<1> HIDE DEF d
<1>7. /\ k + 1 < i + lenB => C[k + 1] + d <= Top + Top * Top + Top
      /\ k + 1 = i + lenB => C[k + 1] + d <= Top
  BY <1>2, <1>3, <1>5, TopFacts DEF d
<1>8. k < i + lenB => C[k + 1] + d < Word \div 2
  BY <1>2, <1>3, <1>5, <1>7, TopFacts, WordFacts, FewFacts DEF d
<1> QED BY <1>1, <1>5, <1>6, <1>7, <1>8 DEF d

(* The two carry loops.                                                    *)
LEMMA CarryToNextStep ==
    ASSUME IInv, CarryToNext
    PROVE  IInv'
<1> DEFINE d == C[k] \div BASE
<1> USE Ranges DEF IInv
<1>1. /\ pc = "carry" /\ pc' = "carry" /\ routine # "multiply_vectorized_optimized"
      /\ k < CarryEnd /\ k' = k + 1 /\ carry' = carry /\ i' = i /\ j' = j
      /\ UNCHANGED operands
      /\ C' = IF C[k] >= BASE
              THEN [C EXCEPT ![k] = C[k] % BASE, ![k + 1] = (C[k + 1] + d) % Word]
              ELSE C
  BY DEF CarryToNext
<1>2. /\ lenA' = lenA /\ lenB' = lenB /\ routine' = routine /\ Radix' = Radix
      /\ routine \notin Inline /\ carry = 0 /\ CarryEnd' = CarryEnd
      /\ routine \in {"multiplyBigInt", "multiply_vectorized"}
  BY <1>1, SameOperands DEF Deferred, Inline, Control, CarryEnd, TypeOK
<1>3. ASSUME d \in Nat, C[k] % BASE \in 0 .. Top, k \in Product,
             C[k] >= BASE => k + 1 \in Product /\ C[k + 1] + d < Word \div 2
      PROVE  /\ C' \in [Product -> 0 .. Word - 1]
             /\ \A c \in Product \ {k, k + 1} : C'[c] = C[c]
             /\ C'[k] <= Top
             /\ k + 1 \in Product /\ C[k] >= BASE => C'[k + 1] = C[k + 1] + d
             /\ k + 1 \in Product /\ C[k] < BASE => C'[k + 1] = C[k + 1]
  <2>1. C \in [Product -> 0 .. Word - 1]
    BY DEF TypeOK
  <2>2. CASE C[k] < BASE
    <3>1. C' = C
      BY <1>1, <1>3, <2>2
    <3> QED BY <1>3, <2>1, <2>2, <3>1, TopFacts
  <2>3. CASE C[k] >= BASE
    <3>1. C[k + 1] + d \in Nat /\ C[k + 1] + d < Word /\ k + 1 # k
      BY <1>3, <2>3, WordFacts
    <3>2. (C[k + 1] + d) % Word = C[k + 1] + d
      <4> HIDE DEF d
      <4> QED BY <3>1, SmallMod
    <3>3. C' = [C EXCEPT ![k] = C[k] % BASE, ![k + 1] = C[k + 1] + d]
      BY <1>1, <2>3, <3>2
    <3>4. C[k] % BASE \in 0 .. Word - 1
      BY <1>3, TopFacts, WordFacts
    <3> HIDE DEF d
    <3> QED BY <1>3, <2>1, <2>3, <3>1, <3>3, <3>4, TopFacts
  <2> QED BY <1>3, <2>2, <2>3
<1>4. CASE routine = "multiplyBigInt"
  <2>1. routine \in CarryOnce /\ CarryEnd = lenA + lenB
    BY <1>4 DEF CarryOnce, CarryEnd
  <2>2. C[k] + carry = C[k] /\ k \in Product /\ k < lenA + lenB
    BY <1>1, <1>2, <2>1, OnceDigit
  <2>3. d \in Nat /\ C[k] % BASE \in 0 .. Top /\ (k + 1 = lenA + lenB => d = 0 /\ C[k] < BASE)
    BY <1>1, <2>1, <2>2, OnceDigit
  <2>4. C[k] >= BASE => k + 1 \in Product
    <3>1. C[k] \in Nat
      BY <2>2
    <3>2. C[k] >= BASE => k + 1 # lenA + lenB
      BY <2>3, <3>1
    <3> QED BY <2>2, <3>2 DEF Product
  <2>5. k + 1 \in Product =>
          /\ C[k + 1] + d < Word \div 2 /\ C[k + 1] + d <= Products(lenA) + Digits(lenA)
          /\ C[k + 1] + d <= Products(Pos(lenA + lenB - 1 - (k + 1)))
                               + Digits(lenA + lenB - (k + 1))
    BY <1>1, <2>1, <2>2, OnceNextCell
  <2> HIDE DEF d
  <2>6. /\ C' \in [Product -> 0 .. Word - 1]
        /\ \A c \in Product \ {k, k + 1} : C'[c] = C[c]
        /\ C'[k] <= Top
        /\ k + 1 \in Product => C'[k + 1] <= C[k + 1] + d
    BY <1>3, <2>2, <2>3, <2>4, <2>5
  <2>7. TypeOK'
    BY <1>1, <1>2, <2>2, <2>6, SameOperands DEF TypeOK
  <2>8. Control'
    BY <1>1, <1>2, <1>4 DEF Control
  <2>9. OnceCarry'
    <3> SUFFICES ASSUME NEW c \in Product
                 PROVE  /\ c < k + 1 => C'[c] <= Top
                        /\ c > k + 1 => /\ C'[c] <= Products(lenA)
                                        /\ C'[c] <= Products(Pos(lenA + lenB - 1 - c))
                        /\ c = k + 1 =>
                             /\ C'[c] + 0 <= Products(lenA) + Digits(lenA)
                             /\ C'[c] + 0 <= Products(Pos(lenA + lenB - 1 - c))
                                               + Digits(lenA + lenB - c)
      BY <1>1, <1>2 DEF OnceCarry
    <3>0. /\ c < k => C[c] <= Top
          /\ c > k => /\ C[c] <= Products(lenA)
                      /\ C[c] <= Products(Pos(lenA + lenB - 1 - c))
      BY <1>1, <2>1 DEF OnceCarry
    <3>5. c \in Int /\ (c # k /\ c # k + 1 => C'[c] = C[c])
      <4>1. c # k /\ c # k + 1 => C'[c] = C[c]
        BY <2>6
      <4> QED BY <4>1 DEF Product
    <3>1. CASE c < k
      BY <2>2, <3>0, <3>5, <3>1
    <3>2. CASE c = k
      BY <2>6, <3>2
    <3>3. CASE c = k + 1
      <4>1. C'[c] \in Nat /\ C'[c] <= C[c] + d /\ C[c] + d \in Nat
        BY <2>3, <2>6, <3>3
      <4>2. lenA \in Nat /\ Pos(lenA + lenB - 1 - c) \in Nat /\ lenA + lenB - c \in Nat
        BY <2>2, <3>3 DEF Pos
      <4>3. Products(lenA) \in Nat /\ Digits(lenA) \in Nat
        BY <4>2, ProductsFacts, DigitsFacts
      <4>4. Products(Pos(lenA + lenB - 1 - c)) \in Nat /\ Digits(lenA + lenB - c) \in Nat
        BY <4>2, ProductsFacts, DigitsFacts
      <4> QED BY <2>5, <3>3, <4>1, <4>3, <4>4
    <3>4. CASE c > k + 1
      BY <2>2, <3>0, <3>5, <3>4
    <3> QED BY <3>1, <3>2, <3>3, <3>4 DEF Product
  <2> QED BY <1>1, <1>2, <1>4, <2>7, <2>8, <2>9
          DEF OnceRow, EachRow, EachCarry, InlineRow, Finished
<1>5. CASE routine = "multiply_vectorized"
  <2>1. /\ k \in Product /\ k + 1 \in Product /\ k + 1 < lenA + lenB
        /\ d \in Nat /\ C[k] % BASE \in 0 .. Top
        /\ C[k] >= BASE => k < i + lenB
        /\ k < i + lenB =>
             /\ C[k + 1] + d < Word \div 2
             /\ k + 1 < i + lenB => C[k + 1] + d <= Top + Top * Top + Top
             /\ k + 1 = i + lenB => C[k + 1] + d <= Top
    BY <1>1, <1>5, EachDigit
  <2> HIDE DEF d
  <2>2. /\ C' \in [Product -> 0 .. Word - 1]
        /\ \A c \in Product \ {k, k + 1} : C'[c] = C[c]
        /\ C'[k] <= Top
        /\ C[k] >= BASE => C'[k + 1] = C[k + 1] + d
        /\ C[k] < BASE => C'[k + 1] = C[k + 1]
    BY <1>3, <2>1
  <2>3. TypeOK'
    BY <1>1, <1>2, <2>1, <2>2, SameOperands DEF TypeOK
  <2>4. Control'
    BY <1>1, <1>2, <1>5, <2>1 DEF Control, CarryEnd
  <2>5. EachCarry'
    <3> SUFFICES ASSUME NEW c \in Product
                 PROVE  /\ c < k + 1 => C'[c] <= Top
                        /\ c >= k + 1 /\ c < i + lenB =>
                             C'[c] <= Top + Top * Top + (IF c = k + 1 THEN Top ELSE 0)
                        /\ c = i + lenB /\ c >= k + 1 => C'[c] <= IF c = k + 1 THEN Top ELSE 0
                        /\ c > i + lenB => C'[c] = 0
      BY <1>1, <1>2 DEF EachCarry
    <3>0. /\ c < k => C[c] <= Top
          /\ c >= k /\ c < i + lenB => C[c] <= Top + Top * Top + (IF c = k THEN Top ELSE 0)
          /\ c = i + lenB /\ c >= k => C[c] <= IF c = k THEN Top ELSE 0
          /\ c > i + lenB => C[c] = 0
      BY <1>1, <1>5 DEF EachCarry
    <3>5. c \in Int /\ C[c] \in Int /\ (c # k /\ c # k + 1 => C'[c] = C[c])
      <4>1. c # k /\ c # k + 1 => C'[c] = C[c]
        BY <2>2
      <4> QED BY <4>1 DEF Product
    <3>1. CASE c < k
      BY <3>0, <3>5, <3>1
    <3>2. CASE c = k
      <4>1. C[k] < BASE => C'[k] = C[k]
        BY <1>1, <3>2
      <4> QED BY <2>1, <2>2, <3>0, <3>2, <4>1, TopFacts
    <3>3. CASE c = k + 1
      BY <2>1, <2>2, <3>0, <3>3, TopFacts
    <3>4. CASE c > k + 1
      BY <3>0, <3>5, <3>4, TopFacts
    <3> QED BY <3>1, <3>2, <3>3, <3>4 DEF Product
  <2> QED BY <1>1, <1>2, <1>5, <2>3, <2>4, <2>5
          DEF OnceRow, OnceCarry, EachRow, InlineRow, Finished, CarryOnce
<1> QED BY <1>2, <1>4, <1>5

(* A step of the carry pass with a carry variable keeps IInv.              *)
LEMMA CarryInVariableStep ==
    ASSUME IInv, CarryInVariable
    PROVE  IInv'
<1> DEFINE total == C[k] + carry
           d == total \div BASE
<1> USE Ranges DEF IInv
<1>1. /\ pc = "carry" /\ pc' = "carry" /\ routine = "multiply_vectorized_optimized"
      /\ k < CarryEnd /\ k' = k + 1 /\ i' = i /\ j' = j /\ UNCHANGED operands
      /\ C' = [C EXCEPT ![k] = (total % Word) % BASE] /\ carry' = (total % Word) \div BASE
  BY DEF CarryInVariable
<1>2. /\ lenA' = lenA /\ lenB' = lenB /\ routine' = routine /\ Radix' = Radix
      /\ routine \notin Inline /\ routine \in CarryOnce
  BY <1>1, SameOperands DEF Inline, CarryOnce
<1>3. /\ k \in Product /\ k < lenA + lenB
      /\ total \in Nat /\ total < Word \div 2
      /\ d \in Nat /\ total % BASE \in 0 .. Top
      /\ d <= Digits(lenA) /\ (k + 1 = lenA + lenB => d = 0)
  BY <1>1, <1>2, OnceDigit
<1>4. k + 1 \in Product =>
        /\ C[k + 1] + d <= Products(lenA) + Digits(lenA)
        /\ C[k + 1] + d <= Products(Pos(lenA + lenB - 1 - (k + 1)))
                             + Digits(lenA + lenB - (k + 1))
  BY <1>1, <1>2, OnceNextCell
<1>5. total % Word = total
  <2>1. total < Word
    BY <1>3, WordFacts
  <2> HIDE DEF total
  <2> QED BY <1>3, <2>1, SmallMod
<1>6. C' = [C EXCEPT ![k] = total % BASE] /\ carry' = d
  BY <1>1, <1>5
<1> HIDE DEF d
<1>7. C' \in [Product -> 0 .. Word - 1] /\ C'[k] <= Top
      /\ \A c \in Product \ {k} : C'[c] = C[c]
  <2> DEFINE r == total % BASE
  <2>1. r \in 0 .. Word - 1 /\ r <= Top /\ C \in [Product -> 0 .. Word - 1]
    BY <1>3, TopFacts, WordFacts DEF TypeOK
  <2>2. C' = [C EXCEPT ![k] = r]
    BY <1>6
  <2> HIDE DEF r
  <2> QED BY <1>3, <2>1, <2>2
<1>8. d \in 0 .. Word - 1
  <2>1. lenA \in 0 .. MAX_DIGITS /\ lenA \in Nat
    OBVIOUS
  <2>2. Products(lenA) \in Nat /\ Digits(lenA) \in Nat
    BY <2>1, ProductsFacts, DigitsFacts
  <2> QED BY <1>3, <2>1, <2>2, WordFacts
<1>9. TypeOK'
  BY <1>1, <1>2, <1>3, <1>6, <1>7, <1>8, SameOperands DEF TypeOK
<1>10. Control'
  BY <1>1, <1>2 DEF Control
<1>11. OnceCarry'
  <2> SUFFICES ASSUME NEW c \in Product
               PROVE  /\ c < k + 1 => C'[c] <= Top
                      /\ c > k + 1 => /\ C'[c] <= Products(lenA)
                                      /\ C'[c] <= Products(Pos(lenA + lenB - 1 - c))
                      /\ c = k + 1 =>
                           /\ C'[c] + d <= Products(lenA) + Digits(lenA)
                           /\ C'[c] + d <= Products(Pos(lenA + lenB - 1 - c))
                                             + Digits(lenA + lenB - c)
    BY <1>1, <1>2, <1>3, <1>6 DEF OnceCarry
  <2>1. /\ c < k => C[c] <= Top
        /\ c > k => /\ C[c] <= Products(lenA)
                    /\ C[c] <= Products(Pos(lenA + lenB - 1 - c))
    BY <1>1, <1>2 DEF OnceCarry
  <2>2. c # k => C'[c] = C[c]
    BY <1>7
  <2>3. c \in Int
    BY DEF Product
  <2>4. CASE c < k
    BY <2>1, <2>2, <2>3, <2>4
  <2>5. CASE c = k
    BY <1>7, <2>5
  <2>6. CASE c = k + 1
    BY <1>4, <2>2, <2>6
  <2>7. CASE c > k + 1
    BY <2>1, <2>2, <2>3, <2>7
  <2> QED BY <2>3, <2>4, <2>5, <2>6, <2>7
<1> QED BY <1>1, <1>2, <1>9, <1>10, <1>11 DEF OnceRow, EachRow, EachCarry, InlineRow, Finished

(* The end of a carry loop.                                                *)
LEMMA CarriedStep ==
    ASSUME IInv, Carried
    PROVE  IInv'
<1> USE Ranges DEF IInv
<1>1. /\ pc = "carry" /\ k >= CarryEnd /\ C' = C /\ k' = k /\ carry' = carry
      /\ UNCHANGED operands
  BY DEF Carried
<1>2. /\ lenA' = lenA /\ lenB' = lenB /\ routine' = routine /\ Radix' = Radix
      /\ routine \notin Inline /\ routine \in Deferred /\ Radix = BASE
  BY <1>1, SameOperands, RadixFacts DEF Control, TypeOK
<1>3. CASE routine = "multiply_vectorized"
  <2>1. /\ pc' = "row" /\ i' = i + 1 /\ j' = 0 /\ i < lenA /\ k = lenA + lenB - 1
    BY <1>1, <1>3 DEF Carried, Control, CarryEnd
  <2>2. TypeOK'
    BY <1>1, <1>2, <2>1, SameOperands DEF TypeOK
  <2>3. Control'
    BY <1>1, <1>2, <1>3, <2>1 DEF Control
  <2>4. EachRow'
    <3> SUFFICES ASSUME NEW c \in Product
                 PROVE  C[c] <= Top /\ (c >= i + 1 + lenB => C[c] = 0)
      BY <1>1, <1>2, <2>1, TopFacts DEF EachRow, Added, Product
    <3>1. /\ c < k => C[c] <= Top
          /\ c = i + lenB /\ c >= k => C[c] <= IF c = k THEN Top ELSE 0
          /\ c > i + lenB => C[c] = 0
      BY <1>1, <1>3 DEF EachCarry
    <3>2. c \in Nat
      BY DEF Product
    <3> QED BY <2>1, <3>1, <3>2, TopFacts
  <2> QED BY <1>2, <1>3, <2>1, <2>2, <2>3, <2>4
          DEF OnceRow, OnceCarry, EachCarry, InlineRow, Finished, CarryOnce
<1>4. CASE routine # "multiply_vectorized"
  <2>1. /\ pc' = "done" /\ i' = i /\ j' = j /\ i = lenA /\ j = 0 /\ k = lenA + lenB
        /\ routine \in CarryOnce
    BY <1>1, <1>2, <1>4 DEF Carried, Control, CarryEnd, CarryOnce, Deferred
  <2>2. TypeOK'
    BY <1>1, <1>2, <2>1, SameOperands DEF TypeOK
  <2>3. carry = 0
    BY <1>1, <2>1 DEF OnceCarry
  <2>4. Control'
    BY <1>1, <1>2, <2>1, <2>3 DEF Control
  <2>5. Finished'
    <3> SUFFICES ASSUME NEW c \in Product
                 PROVE  C[c] < BASE /\ (c >= lenA + lenB => C[c] = 0)
      BY <1>1, <1>2 DEF Finished
    <3>1. c \in Nat /\ C[c] \in Nat
      BY DEF Product
    <3>2. CASE c < k
      BY <1>1, <2>1, <3>1, <3>2, TopFacts DEF OnceCarry
    <3>3. CASE c >= k
      <4>1. Pos(lenA + lenB - 1 - c) = 0
        BY <2>1, <3>1, <3>3 DEF Pos
      <4>2. c = k => lenA + lenB - c = 0
        BY <2>1, <3>1
      <4>3. C[c] <= 0
        BY <1>1, <2>1, <2>3, <3>1, <3>3, <4>1, <4>2, FewFacts DEF OnceCarry
      <4> QED BY <3>1, <4>3, TopFacts
    <3> QED BY <3>1, <3>2, <3>3, <2>1
  <2> QED BY <1>2, <1>4, <2>1, <2>2, <2>4, <2>5
          DEF OnceRow, OnceCarry, EachRow, EachCarry, InlineRow
<1> QED BY <1>3, <1>4

(* The product of two digits, a cell and a carry.                          *)
LEMMA InlineDigit ==
    ASSUME IInv, pc = "row", routine \in Inline, i < lenA, j < lenB
    PROVE  LET prod == A[i] * B[j] + C[i + j] + carry
           IN  /\ i + j \in Product /\ i + j < i + lenB
               /\ prod \in Nat /\ prod < Wide /\ prod % Wide = prod
               /\ prod \div Radix \in Nat /\ prod \div Radix < Radix
               /\ prod % Radix \in 0 .. Radix - 1
<1> DEFINE prod == A[i] * B[j] + C[i + j] + carry
           t == Radix - 1
<1> USE Ranges DEF IInv
<1>1. i + j \in Product /\ i \in Number /\ j \in Number /\ i + j < i + lenB
  BY DEF Product, Number
<1>2. t \in Nat /\ Radix = t + 1 /\ Radix \in Nat \ {0} /\ Radix <= Word /\ t >= 1
  BY RadixFacts
<1>3. /\ A[i] \in Nat /\ A[i] <= t /\ B[j] \in Nat /\ B[j] <= t
      /\ C[i + j] \in Nat /\ C[i + j] <= t /\ carry <= t
  BY <1>1, <1>2 DEF TypeOK, InlineRow
<1> HIDE DEF t
<1>4. A[i] * B[j] \in Nat /\ A[i] * B[j] <= t * t /\ t * t \in Nat
  <2>1. A[i] * B[j] <= t * B[j] /\ t * B[j] <= t * t
    BY <1>2, <1>3
  <2>2. A[i] * B[j] \in Nat /\ t * B[j] \in Nat /\ t * t \in Nat
    BY <1>2, <1>3
  <2> QED BY <2>1, <2>2
<1>5. prod \in Nat /\ prod <= t * t + t + t
  BY <1>2, <1>3, <1>4
<1>6. (t + 1) * Radix = t * t + t + t + 1
  BY <1>2
<1>7. prod < (t + 1) * Radix
  BY <1>2, <1>4, <1>5, <1>6
<1>8. (t + 1) * Radix <= Wide /\ Wide \in Nat
  <2>1. Radix * Radix <= Radix * Word /\ Radix * Word <= Word * Word
    BY <1>2
  <2>2. Radix * Radix \in Nat /\ Radix * Word \in Nat /\ Word * Word \in Nat
    BY <1>2
  <2> QED BY <1>2, <2>1, <2>2 DEF Wide
<1> HIDE DEF prod
<1>9. prod < Wide /\ prod % Wide = prod
  <2>1. prod < Wide
    BY <1>2, <1>5, <1>6, <1>7, <1>8, <1>4
  <2> QED BY <1>5, <1>8, <2>1, SmallMod
<1>10. prod \div Radix <= t
  BY <1>2, <1>5, <1>7, DivBound
<1>11. prod \div Radix \in Nat /\ prod % Radix \in 0 .. Radix - 1
  BY <1>2, <1>5, DivMod
<1> QED BY <1>1, <1>2, <1>5, <1>9, <1>10, <1>11 DEF prod

(* The versions which carry within the row.                                *)
LEMMA MultiplyAndCarryStep ==
    ASSUME IInv, MultiplyAndCarry
    PROVE  IInv'
<1> DEFINE prod == A[i] * B[j] + C[i + j] + carry
           d == prod \div Radix
           r == prod % Radix
<1> USE Ranges DEF IInv
<1>1. /\ pc = "row" /\ pc' = "row" /\ routine \in Inline /\ i < lenA /\ j < lenB
      /\ i' = i /\ j' = j + 1 /\ k' = k /\ UNCHANGED operands
      /\ C' = [C EXCEPT ![i + j] = (prod % Wide) % Radix]
      /\ carry' = ((prod % Wide) \div Radix) % Word
  BY DEF MultiplyAndCarry
<1>2. /\ lenA' = lenA /\ lenB' = lenB /\ routine' = routine /\ Radix' = Radix
      /\ routine \notin Deferred
  BY <1>1, SameOperands DEF Deferred, Inline
<1>3. /\ i + j \in Product /\ i + j < i + lenB /\ prod % Wide = prod
      /\ d \in Nat /\ d < Radix /\ r \in 0 .. Radix - 1
  BY <1>1, InlineDigit
<1>4. Radix \in Nat /\ Radix <= Word
  BY RadixFacts
<1>5. C' = [C EXCEPT ![i + j] = r] /\ carry' = d % Word
  BY <1>1, <1>3
<1> HIDE DEF d, r
<1>6. carry' = d
  BY <1>3, <1>4, <1>5, SmallMod
<1>7. C \in [Product -> 0 .. Word - 1] /\ \A c \in Product : C[c] < Radix
  BY <1>1 DEF TypeOK, InlineRow
<1>8. C' \in [Product -> 0 .. Word - 1]
  BY <1>3, <1>4, <1>5, <1>7
<1>9. TypeOK'
  BY <1>1, <1>2, <1>3, <1>4, <1>6, <1>8, SameOperands DEF TypeOK
<1>10. Control'
  BY <1>1, <1>2 DEF Control
<1>11. InlineRow'
  <2>1. ASSUME NEW c \in Product PROVE C'[c] < Radix /\ (c >= i + lenB => C'[c] = 0)
    <3>1. CASE c = i + j
      BY <1>3, <1>4, <1>5, <1>7, <3>1
    <3>2. CASE c # i + j
      <4>1. C'[c] = C[c]
        BY <1>5, <1>7, <3>2
      <4>2. C[c] < Radix /\ (c >= i + lenB => C[c] = 0)
        BY <1>1 DEF InlineRow
      <4> HIDE DEF IInv
      <4> QED BY <4>1, <4>2
    <3> QED BY <3>1, <3>2
  <2> QED BY <1>1, <1>2, <1>3, <1>6, <2>1 DEF InlineRow
<1> QED BY <1>1, <1>2, <1>9, <1>10, <1>11
        DEF OnceRow, OnceCarry, EachRow, EachCarry, Finished, CarryOnce, Inline

(* Writing the carry of a row behind it keeps IInv.                        *)
LEMMA LastCarryStep ==
    ASSUME IInv, LastCarry
    PROVE  IInv'
<1> USE Ranges DEF IInv
<1>1. /\ pc = "row" /\ pc' = "row" /\ routine \in Inline /\ i < lenA
      /\ i' = i + 1 /\ j' = 0 /\ carry' = 0 /\ k' = k /\ UNCHANGED operands
      /\ C' = [C EXCEPT ![i + lenB] = IF routine = "multiply" THEN (C[i + lenB] + carry) % Word
                                                              ELSE carry]
  BY DEF LastCarry
<1>2. /\ lenA' = lenA /\ lenB' = lenB /\ routine' = routine /\ Radix' = Radix
      /\ routine \notin Deferred
  BY <1>1, SameOperands DEF Deferred, Inline
<1>3. i + lenB \in Product /\ C[i + lenB] = 0 /\ carry < Radix
  BY <1>1 DEF Product, InlineRow
<1>4. Radix \in Nat /\ Radix <= Word
  BY RadixFacts
<1>5. (C[i + lenB] + carry) % Word = carry
  BY <1>3, <1>4, SmallMod
<1>6. C' = [C EXCEPT ![i + lenB] = carry]
  BY <1>1, <1>5
<1>7. C \in [Product -> 0 .. Word - 1]
  BY DEF TypeOK
<1>8. C' \in [Product -> 0 .. Word - 1]
  BY <1>3, <1>4, <1>6, <1>7
<1>9. TypeOK'
  BY <1>1, <1>2, <1>4, <1>8, SameOperands DEF TypeOK
<1>10. Control'
  BY <1>1, <1>2 DEF Control
<1>11. InlineRow'
  <2>1. ASSUME NEW c \in Product PROVE C'[c] < Radix /\ (c >= i + 1 + lenB => C'[c] = 0)
    <3>1. CASE c = i + lenB
      BY <1>3, <1>4, <1>6, <1>7, <3>1
    <3>2. CASE c # i + lenB
      <4>1. C'[c] = C[c]
        BY <1>6, <1>7, <3>2
      <4>2. C[c] < Radix /\ (c >= i + lenB => C[c] = 0)
        BY <1>1 DEF InlineRow
      <4>3. c >= i + 1 + lenB => c >= i + lenB
        BY DEF Product
      <4> HIDE DEF IInv
      <4> QED BY <4>1, <4>2, <4>3
    <3> QED BY <3>1, <3>2
  <2> QED BY <1>1, <1>2, <1>3, <1>4, <2>1 DEF InlineRow
<1> QED BY <1>1, <1>2, <1>9, <1>10, <1>11
        DEF OnceRow, OnceCarry, EachRow, EachCarry, Finished, CarryOnce, Inline

(* The end of a routine that carries as it goes keeps IInv.                *)
LEMMA RowsDoneStep ==
    ASSUME IInv, RowsDone
    PROVE  IInv'
<1> USE Ranges DEF IInv
<1>1. /\ pc = "row" /\ pc' = "done" /\ routine \in Inline /\ i = lenA
      /\ UNCHANGED <<operands, C, i, j, k, carry>>
  BY DEF RowsDone
<1>2. /\ lenA' = lenA /\ lenB' = lenB /\ routine' = routine /\ Radix' = Radix
      /\ routine \notin Deferred
  BY <1>1, SameOperands DEF Deferred, Inline
<1>3. TypeOK'
  BY <1>1, <1>2, SameOperands DEF TypeOK
<1>4. Control'
  BY <1>1, <1>2 DEF Control
<1>5. InlineRow' /\ Finished'
  BY <1>1, <1>2 DEF InlineRow, Finished
<1> QED BY <1>1, <1>2, <1>3, <1>4, <1>5
        DEF OnceRow, OnceCarry, EachRow, EachCarry, CarryOnce, Inline

-----------------------------------------------------------------------------
(* The invariant, and what follows from it.                                *)

(* A call begins with the invariant.                                       *)
LEMMA InitInvariant == Init => IInv
<1> SUFFICES ASSUME Init PROVE IInv
  OBVIOUS
<1> USE MultiplyAssumption
<1>1. /\ routine \in Deferred \cup Inline /\ pc = "row"
      /\ i = 0 /\ j = 0 /\ k = 0 /\ carry = 0 /\ C = [c \in Product |-> 0]
      /\ lenA \in 1 .. MAX_DIGITS /\ lenB \in 1 .. MAX_DIGITS
      /\ Inputs[routine].digits \subseteq 0 .. Radix - 1
  BY InputsAssumption DEF Init, Radix
<1>2. Radix \in Nat /\ Radix >= 2 /\ Word \in Nat /\ Word >= 1
  BY TopFacts, WordFacts DEF Radix, RadixOf
<1>3. ASSUME NEW len \in 1 .. MAX_DIGITS, NEW num \in Numbers(len, Inputs[routine].digits)
      PROVE  num \in [Number -> 0 .. Radix - 1]
  <2>1. PICK d \in [0 .. len - 1 -> Inputs[routine].digits] :
               num = [c \in Number |-> IF c < len THEN d[c] ELSE 0]
    BY DEF Numbers
  <2>2. \A c \in Number : c < len => d[c] \in 0 .. Radix - 1
    BY <1>1, <2>1 DEF Number
  <2> QED BY <1>2, <2>1, <2>2
<1>4. A \in [Number -> 0 .. Radix - 1] /\ B \in [Number -> 0 .. Radix - 1]
  BY <1>1, <1>3 DEF Init
<1>5. TypeOK
  BY <1>1, <1>2, <1>4 DEF TypeOK
<1>6. Control
  BY <1>1, <1>5, Ranges DEF Control
<1>7. OnceRow
  <2> SUFFICES ASSUME NEW c \in Product
               PROVE  /\ 0 <= Products(i + Added(c))
                      /\ 0 <= Products(Pos(i + lenB - 1 - c) + Added(c))
    BY <1>1 DEF OnceRow
  <2>1. i + Added(c) \in Nat /\ Pos(i + lenB - 1 - c) + Added(c) \in Nat
    BY <1>1 DEF Added, Pos, Product
  <2>2. Products(i + Added(c)) \in Nat
    BY <2>1, ProductsFacts
  <2>3. Products(Pos(i + lenB - 1 - c) + Added(c)) \in Nat
    BY <2>1, ProductsFacts
  <2> QED BY <2>2, <2>3
<1>8. EachRow
  BY <1>1, TopFacts DEF EachRow
<1>9. InlineRow
  BY <1>1, <1>2 DEF InlineRow
<1> QED BY <1>1, <1>5, <1>6, <1>7, <1>8, <1>9 DEF IInv, OnceCarry, EachCarry, Finished

(* A step that changes nothing keeps the invariant.                        *)
LEMMA StutterInvariant == IInv /\ UNCHANGED vars => IInv'
BY DEF IInv, vars, TypeOK, Radix, Control, CarryEnd, OnceRow, Added, OnceCarry, EachRow,
       EachCarry, InlineRow, Finished

(* The invariant holds in every state of every multiplication.             *)
THEOREM Invariance == Spec => []IInv
<1>1. IInv /\ [Next]_vars => IInv'
  <2> SUFFICES ASSUME IInv, [Next]_vars PROVE IInv'
    OBVIOUS
  <2>1. CASE AddProducts BY <2>1, AddProductsStep
  <2>2. CASE NextRow BY <2>2, NextRowStep
  <2>3. CASE StartCarry BY <2>3, StartCarryStep
  <2>4. CASE CarryToNext BY <2>4, CarryToNextStep
  <2>5. CASE CarryInVariable BY <2>5, CarryInVariableStep
  <2>6. CASE Carried BY <2>6, CarriedStep
  <2>7. CASE MultiplyAndCarry BY <2>7, MultiplyAndCarryStep
  <2>8. CASE LastCarry BY <2>8, LastCarryStep
  <2>9. CASE RowsDone BY <2>9, RowsDoneStep
  <2>10. CASE UNCHANGED vars BY <2>10, StutterInvariant
  <2> QED BY <2>1, <2>2, <2>3, <2>4, <2>5, <2>6, <2>7, <2>8, <2>9, <2>10 DEF Next
<1> QED BY InitInvariant, <1>1, PTL DEF Spec

(* Cells are words and the loops of all five functions stay within their   *)
(* bounds.                                                                 *)
THEOREM TypeCorrect == Spec => []TypeOK
<1>1. IInv => TypeOK
  BY DEF IInv
<1> QED BY Invariance, <1>1, PTL

(* Vectors end where the digits of B do, and the carry loops never store   *)
(* beyond the cells of the product: the store to C[k + 1] that base.c      *)
(* makes without a check is never reached for the last cell.               *)
THEOREM StaysWithinProduct == Spec => []WithinProduct
<1>1. IInv => WithinProduct
  <2> SUFFICES ASSUME IInv PROVE WithinProduct
    OBVIOUS
  <2> USE Ranges DEF IInv
  <2>1. pc = "row" /\ i < lenA /\ j < lenB => j + Width <= lenB
    BY WidthFacts
  <2>2. ASSUME pc = "carry", k < CarryEnd, C[k] >= BASE,
               routine # "multiply_vectorized_optimized"
        PROVE  k + 1 < lenA + lenB
    <3>1. CASE routine = "multiply_vectorized"
      BY <2>2, <3>1, EachDigit
    <3>2. CASE routine # "multiply_vectorized"
      <4>1. routine \in CarryOnce /\ carry = 0
        BY <2>2, <3>2 DEF Control, CarryOnce, Deferred, Inline, TypeOK
      <4>2. /\ k \in Product /\ k < lenA + lenB
            /\ (k + 1 = lenA + lenB => C[k] + carry < BASE)
        BY <2>2, <4>1, OnceDigit
      <4> QED BY <2>2, <4>1, <4>2
    <3> QED BY <3>1, <3>2
  <2> QED BY <2>1, <2>2 DEF WithinProduct
<1> QED BY Invariance, <1>1, PTL

(* No lane, cell or 64 bit sum is ever cut off, for every base and length  *)
(* that satisfy WidthAssumption.                                           *)
THEOREM NothingIsCutOff == Spec => []NeverWraps
<1>1. IInv => NeverWraps
  <2> SUFFICES ASSUME IInv PROVE NeverWraps
    OBVIOUS
  <2> USE Ranges DEF IInv
  <2>1. ASSUME pc = "row", routine \in Deferred, i < lenA, j < lenB,
               NEW c \in i + j .. i + j + Width - 1
        PROVE  C[c] + A[i] * B[c - i] < Limit
    <3>1. /\ C[c] + A[i] * B[c - i] \in Nat /\ C[c] + A[i] * B[c - i] < Word \div 2
      BY <2>1, SumFits
    <3> QED BY <3>1, WordFacts DEF Limit
  <2>2. ASSUME pc = "carry", k < CarryEnd, routine = "multiply_vectorized_optimized"
        PROVE  C[k] + carry < Limit
    BY <2>2, OnceDigit DEF Limit, CarryOnce
  <2>3. ASSUME pc = "carry", k < CarryEnd, routine # "multiply_vectorized_optimized",
               C[k] >= BASE
        PROVE  C[k + 1] + C[k] \div BASE < Limit
    <3>1. CASE routine = "multiply_vectorized"
      <4>1. /\ k < i + lenB /\ k + 1 \in Product /\ C[k] \div BASE \in Nat
            /\ C[k + 1] + C[k] \div BASE < Word \div 2
        BY <2>3, <3>1, EachDigit
      <4> QED BY <4>1, <3>1, WordFacts DEF Limit
    <3>2. CASE routine # "multiply_vectorized"
      <4>1. routine = "multiplyBigInt" /\ routine \in CarryOnce /\ carry = 0
        BY <2>3, <3>2 DEF Control, CarryOnce, Deferred, Inline, TypeOK
      <4>2. /\ k \in Product /\ k < lenA + lenB
            /\ (k + 1 = lenA + lenB => C[k] + carry < BASE)
        BY <2>3, <4>1, OnceDigit
      <4>3. C[k] + carry = C[k] /\ k + 1 \in Product
        BY <2>3, <4>1, <4>2 DEF Product
      <4>4. C[k + 1] + C[k] \div BASE < Word \div 2
        BY <2>3, <4>1, <4>3, OnceNextCell
      <4> QED BY <4>1, <4>4 DEF Limit
    <3> QED BY <3>1, <3>2
  <2>4. ASSUME pc = "row", routine \in Inline, i < lenA
        PROVE  /\ j < lenB => LET prod == A[i] * B[j] + C[i + j] + carry
                              IN  prod < Wide /\ prod \div Radix < Word
               /\ C[i + lenB] = 0
    <3>1. ASSUME j < lenB
          PROVE  LET prod == A[i] * B[j] + C[i + j] + carry
                 IN  prod < Wide /\ prod \div Radix < Word
      <4> DEFINE prod == A[i] * B[j] + C[i + j] + carry
      <4>1. prod < Wide /\ prod \div Radix \in Nat /\ prod \div Radix < Radix
        BY <2>4, <3>1, InlineDigit
      <4> QED BY <4>1, RadixFacts
    <3>2. C[i + lenB] = 0
      BY <2>4 DEF InlineRow, Product
    <3> QED BY <3>1, <3>2
  <2> QED BY <2>1, <2>2, <2>3, <2>4 DEF NeverWraps
<1> QED BY Invariance, <1>1, PTL

(* Every function returns digits, with nothing beyond the product and no   *)
(* carry left; multiply_vectorized also leaves digits after each row.      *)
THEOREM ReturnsDigits == Spec => []Normalised
<1>1. IInv => Normalised
  <2> SUFFICES ASSUME IInv PROVE Normalised
    OBVIOUS
  <2> USE Ranges DEF IInv
  <2>1. pc = "done" => carry = 0
    <3>1. routine \in Deferred \/ routine \in Inline
      BY DEF TypeOK
    <3> QED BY <3>1 DEF Control
  <2>2. ASSUME Reduced, NEW c \in Product
        PROVE  C[c] < Radix /\ (c >= lenA + lenB => C[c] = 0)
    <3>1. CASE pc = "done"
      BY <2>2, <3>1 DEF Finished
    <3>2. CASE routine \in Inline
      BY <2>2, <3>2 DEF InlineRow, Product
    <3>3. CASE routine = "multiply_vectorized" /\ pc = "row" /\ j = 0
      <4>1. Added(c) = 0 /\ Radix = BASE /\ c \in Nat
        BY <3>3, RadixFacts DEF Added, Product
      <4> QED BY <2>2, <3>3, <4>1, TopFacts DEF EachRow
    <3> QED BY <2>2, <3>1, <3>2, <3>3 DEF Reduced
  <2> QED BY <2>1, <2>2 DEF Normalised
<1> QED BY Invariance, <1>1, PTL

-----------------------------------------------------------------------------
(* Powers, and what digits are worth.                                      *)

(* A set with 0 and every successor of its members has every number.       *)
LEMMA NatSetInduction ==
    ASSUME NEW S \in SUBSET Nat, 0 \in S, \A n \in S : n + 1 \in S
    PROVE  S = Nat
<1>1. SUFFICES ASSUME Nat \ S # {} PROVE FALSE
  OBVIOUS
<1> DEFINE T == Nat \ S
           R == OpToRel(<, Nat)
<1>2. IsWellFoundedOn(R, Nat)
  BY NatLessThanWellFounded
<1>3. PICK x \in T : \A y \in T : ~(<<y, x>> \in R)
  <2>1. T \in SUBSET Nat /\ T # {}
    BY <1>1
  <2> HIDE DEF R, T
  <2> QED BY <1>2, <2>1, WFMin
<1>4. \A y \in T : ~(y < x)
  BY <1>3 DEF OpToRel
<1>5. x # 0 /\ x - 1 \in Nat /\ x - 1 < x /\ (x - 1) + 1 = x
  OBVIOUS
<1> QED BY <1>4, <1>5

(* The recursions of Power and Value.                                      *)
PowerSteps(u, b, n) == u = [m \in 0 .. n |-> IF m = 0 THEN 1 ELSE u[m - 1] * b]

ValueSteps(u, b, n, f) ==
    u = [m \in 0 .. n |-> IF m = 0 THEN 0 ELSE u[m - 1] + f[m - 1] * Power(b, m - 1)]

(* The recursion of Power defines a function for every exponent.           *)
LEMMA PowerDefined ==
    ASSUME NEW b, NEW n \in Nat
    PROVE  \E u : PowerSteps(u, b, n) /\ Power(b, n) = u[n]
<1> DEFINE S == {x \in Nat : \E u : PowerSteps(u, b, x)}
<1>1. 0 \in S
  <2> DEFINE u == [m \in 0 .. 0 |-> 1]
  <2>1. u = [m \in 0 .. 0 |-> IF m = 0 THEN 1 ELSE u[m - 1] * b]
    OBVIOUS
  <2>2. PowerSteps(u, b, 0)
    BY <2>1 DEF PowerSteps
  <2> QED BY <2>2
<1>2. ASSUME NEW x \in S PROVE x + 1 \in S
  <2>1. x \in Nat /\ x + 1 \in Nat
    OBVIOUS
  <2>2. PICK u : PowerSteps(u, b, x)
    OBVIOUS
  <2>3. /\ u[0] = 1
        /\ \A m \in 0 .. x : m # 0 => u[m] = u[m - 1] * b
    BY <2>1, <2>2 DEF PowerSteps
  <2> DEFINE v == [m \in 0 .. x + 1 |-> IF m <= x THEN u[m] ELSE u[m - 1] * b]
             w == [m \in 0 .. x + 1 |-> IF m = 0 THEN 1 ELSE v[m - 1] * b]
  <2>4. ASSUME NEW m \in 0 .. x + 1 PROVE v[m] = w[m]
    <3>1. CASE m = 0
      <4>1. m <= x
        BY <2>1, <3>1
      <4> QED BY <2>3, <3>1, <4>1
    <3>2. CASE m # 0
      <4>1. m - 1 \in 0 .. x + 1 /\ m - 1 <= x
        BY <2>1, <3>2
      <4>2. v[m - 1] = u[m - 1]
        BY <4>1
      <4>3. CASE m <= x
        <5>1. m \in 0 .. x
          BY <2>1, <4>3
        <5> QED BY <2>3, <3>2, <4>2, <4>3, <5>1
      <4>4. CASE ~(m <= x)
        BY <3>2, <4>2, <4>4
      <4> QED BY <4>3, <4>4
    <3> QED BY <3>1, <3>2
  <2>5. v = w
    <3>1. v = [m \in 0 .. x + 1 |-> v[m]] /\ w = [m \in 0 .. x + 1 |-> w[m]]
      OBVIOUS
    <3> HIDE DEF v, w
    <3> QED BY <2>4, <3>1
  <2>6. PowerSteps(v, b, x + 1)
    BY <2>5 DEF PowerSteps
  <2> HIDE DEF v
  <2> QED BY <2>1, <2>6
<1>3. S = Nat
  <2>1. S \in SUBSET Nat
    OBVIOUS
  <2> HIDE DEF S
  <2> QED BY <1>1, <1>2, <2>1, NatSetInduction
<1>4. \E u : PowerSteps(u, b, n)
  BY <1>3
<1> DEFINE all == CHOOSE u : PowerSteps(u, b, n)
<1>5. PowerSteps(all, b, n)
  BY <1>4
<1>6. Power(b, n) = all[n]
  BY DEF Power, PowerSteps
<1> HIDE DEF all
<1> QED BY <1>5, <1>6

(* The recursion of Value does for every number of digits.                 *)
LEMMA ValueDefined ==
    ASSUME NEW b, NEW n \in Nat, NEW f
    PROVE  \E u : ValueSteps(u, b, n, f) /\ Value(b, n, f) = u[n]
<1> DEFINE worth(m) == f[m] * Power(b, m)
           S == {x \in Nat : \E u : ValueSteps(u, b, x, f)}
<1>1. 0 \in S
  <2> DEFINE u == [m \in 0 .. 0 |-> 0]
  <2>1. u = [m \in 0 .. 0 |-> IF m = 0 THEN 0 ELSE u[m - 1] + worth(m - 1)]
    OBVIOUS
  <2>2. ValueSteps(u, b, 0, f)
    BY <2>1 DEF ValueSteps
  <2> QED BY <2>2
<1>2. ASSUME NEW x \in S PROVE x + 1 \in S
  <2>1. x \in Nat /\ x + 1 \in Nat
    OBVIOUS
  <2>2. PICK u : ValueSteps(u, b, x, f)
    OBVIOUS
  <2>3. /\ u[0] = 0
        /\ \A m \in 0 .. x : m # 0 => u[m] = u[m - 1] + worth(m - 1)
    BY <2>1, <2>2 DEF ValueSteps
  <2> DEFINE v == [m \in 0 .. x + 1 |-> IF m <= x THEN u[m] ELSE u[m - 1] + worth(m - 1)]
             w == [m \in 0 .. x + 1 |-> IF m = 0 THEN 0 ELSE v[m - 1] + worth(m - 1)]
  <2> HIDE DEF worth
  <2>4. ASSUME NEW m \in 0 .. x + 1 PROVE v[m] = w[m]
    <3>1. CASE m = 0
      <4>1. m <= x
        BY <2>1, <3>1
      <4> QED BY <2>3, <3>1, <4>1
    <3>2. CASE m # 0
      <4>1. m - 1 \in 0 .. x + 1 /\ m - 1 <= x
        BY <2>1, <3>2
      <4>2. v[m - 1] = u[m - 1]
        BY <4>1
      <4>3. CASE m <= x
        <5>1. m \in 0 .. x
          BY <2>1, <4>3
        <5> QED BY <2>3, <3>2, <4>2, <4>3, <5>1
      <4>4. CASE ~(m <= x)
        BY <3>2, <4>2, <4>4
      <4> QED BY <4>3, <4>4
    <3> QED BY <3>1, <3>2
  <2>5. v = w
    <3>1. v = [m \in 0 .. x + 1 |-> v[m]] /\ w = [m \in 0 .. x + 1 |-> w[m]]
      OBVIOUS
    <3> HIDE DEF v, w
    <3> QED BY <2>4, <3>1
  <2>6. ValueSteps(v, b, x + 1, f)
    BY <2>5 DEF ValueSteps, worth
  <2> HIDE DEF v
  <2> QED BY <2>1, <2>6
<1>3. S = Nat
  <2>1. S \in SUBSET Nat
    OBVIOUS
  <2> HIDE DEF S
  <2> QED BY <1>1, <1>2, <2>1, NatSetInduction
<1>4. \E u : ValueSteps(u, b, n, f)
  BY <1>3
<1> DEFINE all == CHOOSE u : ValueSteps(u, b, n, f)
<1>5. ValueSteps(all, b, n, f)
  BY <1>4
<1>6. Value(b, n, f) = all[n]
  BY DEF Value, ValueSteps
<1> HIDE DEF all
<1> QED BY <1>5, <1>6

(* A power is the one before times the base.                               *)
LEMMA PowerFacts ==
    ASSUME NEW b \in Nat, NEW n \in Nat
    PROVE  /\ Power(b, 0) = 1
           /\ Power(b, n) \in Nat
           /\ Power(b, n + 1) = Power(b, n) * b
<1>1. Power(b, 0) = 1
  <2>1. 0 \in Nat
    OBVIOUS
  <2>2. PICK u : PowerSteps(u, b, 0) /\ Power(b, 0) = u[0]
    BY <2>1, PowerDefined
  <2> QED BY <2>2 DEF PowerSteps
<1>2. PICK u : PowerSteps(u, b, n) /\ Power(b, n) = u[n]
  BY PowerDefined
<1>3. PICK v : PowerSteps(v, b, n + 1) /\ Power(b, n + 1) = v[n + 1]
  BY PowerDefined
<1>4. /\ u[0] = 1 /\ v[0] = 1
      /\ \A m \in 0 .. n : m # 0 => u[m] = u[m - 1] * b
      /\ \A m \in 0 .. n + 1 : m # 0 => v[m] = v[m - 1] * b
  BY <1>2, <1>3 DEF PowerSteps
<1> DEFINE S == {m \in Nat : m <= n => u[m] \in Nat /\ v[m] = u[m]}
<1>5. 0 \in S
  BY <1>4
<1>6. ASSUME NEW m \in S PROVE m + 1 \in S
  <2>1. SUFFICES ASSUME m + 1 <= n PROVE u[m + 1] \in Nat /\ v[m + 1] = u[m + 1]
    OBVIOUS
  <2>2. u[m] \in Nat /\ v[m] = u[m]
    BY <2>1
  <2>3. m + 1 \in 0 .. n /\ m + 1 \in 0 .. n + 1 /\ m + 1 # 0 /\ (m + 1) - 1 = m
    BY <2>1
  <2>4. u[m + 1] = u[m] * b /\ v[m + 1] = v[m] * b
    BY <1>4, <2>3
  <2> QED BY <2>2, <2>4
<1>7. S = Nat
  <2>1. S \in SUBSET Nat
    OBVIOUS
  <2> HIDE DEF S
  <2> QED BY <1>5, <1>6, <2>1, NatSetInduction
<1>8. u[n] \in Nat /\ v[n] = u[n]
  BY <1>7
<1>9. v[n + 1] = v[n] * b
  <2>1. n + 1 \in 0 .. n + 1 /\ n + 1 # 0 /\ (n + 1) - 1 = n
    OBVIOUS
  <2> QED BY <1>4, <2>1
<1> QED BY <1>1, <1>2, <1>3, <1>8, <1>9

(* The first n cells hold integers.                                        *)
Integral(n, f) == \A m \in 0 .. n - 1 : f[m] \in Int

(* Fewer cells hold integers too.                                          *)
LEMMA IntegralBelow ==
    ASSUME NEW f, NEW n \in Nat, Integral(n, f), NEW m \in Nat, m <= n
    PROVE  Integral(m, f) /\ (m < n => f[m] \in Int)
BY DEF Integral

(* One more digit adds its worth.                                          *)
LEMMA ValueFacts ==
    ASSUME NEW b, NEW f, NEW n \in Nat
    PROVE  /\ Value(b, 0, f) = 0
           /\ Value(b, n + 1, f) = Value(b, n, f) + f[n] * Power(b, n)
<1> DEFINE worth(m) == f[m] * Power(b, m)
<1>1. Value(b, 0, f) = 0
  <2>1. 0 \in Nat
    OBVIOUS
  <2>2. PICK u : ValueSteps(u, b, 0, f) /\ Value(b, 0, f) = u[0]
    BY <2>1, ValueDefined
  <2> QED BY <2>2 DEF ValueSteps
<1>2. PICK u : ValueSteps(u, b, n, f) /\ Value(b, n, f) = u[n]
  BY ValueDefined
<1>3. PICK v : ValueSteps(v, b, n + 1, f) /\ Value(b, n + 1, f) = v[n + 1]
  BY ValueDefined
<1>4. /\ u[0] = 0 /\ v[0] = 0
      /\ \A m \in 0 .. n : m # 0 => u[m] = u[m - 1] + worth(m - 1)
      /\ \A m \in 0 .. n + 1 : m # 0 => v[m] = v[m - 1] + worth(m - 1)
  BY <1>2, <1>3 DEF ValueSteps
<1> HIDE DEF worth
<1> DEFINE S == {m \in Nat : m <= n => v[m] = u[m]}
<1>5. 0 \in S
  BY <1>4
<1>6. ASSUME NEW m \in S PROVE m + 1 \in S
  <2>1. SUFFICES ASSUME m + 1 <= n PROVE v[m + 1] = u[m + 1]
    OBVIOUS
  <2>2. v[m] = u[m]
    BY <2>1
  <2>3. m + 1 \in 0 .. n /\ m + 1 \in 0 .. n + 1 /\ m + 1 # 0 /\ (m + 1) - 1 = m
    BY <2>1
  <2>4. u[m + 1] = u[m] + worth(m) /\ v[m + 1] = v[m] + worth(m)
    BY <1>4, <2>3
  <2> QED BY <2>2, <2>4
<1>7. S = Nat
  <2>1. S \in SUBSET Nat
    OBVIOUS
  <2> HIDE DEF S
  <2> QED BY <1>5, <1>6, <2>1, NatSetInduction
<1>8. v[n] = u[n]
  BY <1>7
<1>9. v[n + 1] = v[n] + worth(n)
  <2>1. n + 1 \in 0 .. n + 1 /\ n + 1 # 0 /\ (n + 1) - 1 = n
    OBVIOUS
  <2> QED BY <1>4, <2>1
<1> QED BY <1>1, <1>2, <1>3, <1>8, <1>9 DEF worth

(* The value of integers is one.                                           *)
LEMMA ValueType ==
    ASSUME NEW b \in Nat, NEW f, NEW n \in Nat, Integral(n, f)
    PROVE  Value(b, n, f) \in Int
<1> DEFINE S == {x \in Nat : x <= n => Value(b, x, f) \in Int}
<1>1. 0 \in S
  <2>1. Value(b, 0, f) = 0
    BY ValueFacts
  <2> QED BY <2>1
<1>2. ASSUME NEW x \in S PROVE x + 1 \in S
  <2>1. SUFFICES ASSUME x + 1 <= n PROVE Value(b, x + 1, f) \in Int
    OBVIOUS
  <2>2. Value(b, x, f) \in Int /\ x \in Nat /\ x < n
    BY <2>1
  <2>3. f[x] \in Int
    BY <2>2, IntegralBelow
  <2>4. Value(b, x + 1, f) = Value(b, x, f) + f[x] * Power(b, x) /\ Power(b, x) \in Nat
    BY <2>2, ValueFacts, PowerFacts
  <2> QED BY <2>2, <2>3, <2>4
<1>3. S = Nat
  <2>1. S \in SUBSET Nat
    OBVIOUS
  <2> HIDE DEF S
  <2> QED BY <1>1, <1>2, <2>1, NatSetInduction
<1> QED BY <1>3

(* Powers multiply.                                                        *)
LEMMA PowerSum ==
    ASSUME NEW b \in Nat, NEW m \in Nat, NEW n \in Nat
    PROVE  Power(b, m + n) = Power(b, m) * Power(b, n)
<1> DEFINE S == {x \in Nat : Power(b, m + x) = Power(b, m) * Power(b, x)}
<1>1. 0 \in S
  <2>1. Power(b, 0) = 1 /\ Power(b, m) \in Nat /\ m + 0 = m
    BY PowerFacts
  <2> QED BY <2>1
<1>2. ASSUME NEW x \in S PROVE x + 1 \in S
  <2>1. x \in Nat /\ m + x \in Nat /\ m + (x + 1) = (m + x) + 1 /\ x + 1 \in Nat
    OBVIOUS
  <2>2. /\ Power(b, (m + x) + 1) = Power(b, m + x) * b
        /\ Power(b, x + 1) = Power(b, x) * b
        /\ Power(b, m) \in Nat /\ Power(b, x) \in Nat
    BY <2>1, PowerFacts
  <2>3. Power(b, m + x) = Power(b, m) * Power(b, x)
    OBVIOUS
  <2>4. Power(b, m + (x + 1)) = Power(b, m) * Power(b, x) * b
    BY <2>1, <2>2, <2>3
  <2>5. Power(b, m) * Power(b, x) * b = Power(b, m) * (Power(b, x) * b)
    BY <2>2
  <2> QED BY <2>1, <2>2, <2>4, <2>5
<1>3. S = Nat
  <2>1. S \in SUBSET Nat
    OBVIOUS
  <2> HIDE DEF S
  <2> QED BY <1>1, <1>2, <2>1, NatSetInduction
<1> QED BY <1>3

(* The same digits from cell lo to cell n.                                 *)
Agree(lo, n, f, g) == \A m \in lo .. n - 1 : g[m] = f[m]

(* Where the upper digits agree, values differ by what the lower ones do.  *)
LEMMA SameTail ==
    ASSUME NEW b \in Nat, NEW f, NEW g, NEW n \in Nat, NEW lo \in Nat, lo <= n,
           Integral(n, f), Integral(n, g), Agree(lo, n, f, g)
    PROVE  Value(b, n, g) - Value(b, n, f) = Value(b, lo, g) - Value(b, lo, f)
<1> DEFINE gap(x) == Value(b, x, g) - Value(b, x, f)
           S == {t \in Nat : lo + t <= n => gap(lo + t) = gap(lo)}
<1>1. 0 \in S
  OBVIOUS
<1>2. ASSUME NEW t \in S PROVE t + 1 \in S
  <2>1. SUFFICES ASSUME lo + (t + 1) <= n PROVE gap(lo + (t + 1)) = gap(lo)
    OBVIOUS
  <2> DEFINE x == lo + t
  <2>2. x \in Nat /\ x \in lo .. n - 1 /\ lo + (t + 1) = x + 1 /\ x < n /\ x <= n
    BY <2>1
  <2>3. gap(x) = gap(lo)
    BY <2>1
  <2> HIDE DEF x
  <2>4. g[x] = f[x]
    BY <2>2 DEF Agree
  <2>5. f[x] \in Int /\ Integral(x, f) /\ Integral(x, g)
    BY <2>2, IntegralBelow
  <2>6. Value(b, x, f) \in Int /\ Value(b, x, g) \in Int /\ Power(b, x) \in Nat
    BY <2>2, <2>5, ValueType, PowerFacts
  <2>7. /\ Value(b, x + 1, f) = Value(b, x, f) + f[x] * Power(b, x)
        /\ Value(b, x + 1, g) = Value(b, x, g) + f[x] * Power(b, x)
    BY <2>2, <2>4, ValueFacts
  <2>8. f[x] * Power(b, x) \in Int
    BY <2>5, <2>6
  <2>9. gap(x + 1) = gap(x)
    BY <2>6, <2>7, <2>8
  <2> HIDE DEF gap
  <2> QED BY <2>2, <2>3, <2>9
<1>3. S = Nat
  <2>1. S \in SUBSET Nat
    OBVIOUS
  <2> HIDE DEF S
  <2> QED BY <1>1, <1>2, <2>1, NatSetInduction
<1>4. PICK t \in Nat : lo + t = n
  <2>1. n - lo \in Nat /\ lo + (n - lo) = n
    OBVIOUS
  <2> QED BY <2>1
<1>5. lo + t <= n
  BY <1>4
<1>6. gap(lo + t) = gap(lo)
  <2> HIDE DEF gap
  <2>1. t \in S
    BY <1>3
  <2> QED BY <1>5, <2>1
<1> QED BY <1>4, <1>6

(* Changing one digit changes the value by its worth.                      *)
LEMMA OneCell ==
    ASSUME NEW b \in Nat, NEW f, NEW g, NEW n \in Nat, NEW p \in Nat, p < n,
           Integral(n, f), Integral(n, g),
           \A m \in 0 .. n - 1 : m # p => g[m] = f[m]
    PROVE  Value(b, n, g) = Value(b, n, f) + (g[p] - f[p]) * Power(b, p)
<1>1. /\ p + 1 \in Nat /\ p + 1 <= n /\ p <= n /\ 0 \in Nat /\ 0 <= p
      /\ Agree(p + 1, n, f, g) /\ Agree(0, p, f, g)
  BY DEF Agree
<1>2. Value(b, n, g) - Value(b, n, f) = Value(b, p + 1, g) - Value(b, p + 1, f)
  BY <1>1, SameTail
<1>3. Integral(p, f) /\ Integral(p, g) /\ f[p] \in Int /\ g[p] \in Int
  BY <1>1, IntegralBelow
<1>4. /\ Value(b, p, f) \in Int /\ Value(b, p, g) \in Int /\ Power(b, p) \in Nat
      /\ Value(b, n, f) \in Int /\ Value(b, n, g) \in Int
  BY <1>3, ValueType, PowerFacts
<1>5. Value(b, p, g) = Value(b, p, f)
  <2>1. Value(b, p, g) - Value(b, p, f) = Value(b, 0, g) - Value(b, 0, f)
    BY <1>1, <1>3, SameTail
  <2>2. Value(b, 0, g) = 0 /\ Value(b, 0, f) = 0
    BY ValueFacts
  <2>3. Value(b, p, g) - Value(b, p, f) = 0
    BY <2>1, <2>2
  <2> QED BY <1>4, <2>3
<1> DEFINE x == f[p] * Power(b, p)
           y == g[p] * Power(b, p)
<1>6. x \in Int /\ y \in Int /\ (g[p] - f[p]) * Power(b, p) = y - x
  BY <1>3, <1>4
<1>7. Value(b, p + 1, f) = Value(b, p, f) + x /\ Value(b, p + 1, g) = Value(b, p, f) + y
  BY <1>5, ValueFacts
<1> HIDE DEF x, y
<1> QED BY <1>2, <1>4, <1>6, <1>7

(* w cells of g have the digit a times a digit of h more than those of f.  *)
RowAdded(a, p, q, w, f, g, h) ==
    /\ Agree(0, p + q, f, g)
    /\ \A m \in p + q .. p + q + w - 1 : g[m] = f[m] + a * h[m - p]

(* What a row adds: a digit of A times some digits of B, p cells up.       *)
LEMMA AddRow ==
    ASSUME NEW b \in Nat, NEW f, NEW g, NEW h, NEW a \in Int,
           NEW p \in Nat, NEW q \in Nat, NEW w \in Nat,
           Integral(p + q + w, f), Integral(p + q + w, g), Integral(q + w, h),
           RowAdded(a, p, q, w, f, g, h)
    PROVE  Value(b, p + q + w, g) - Value(b, p + q + w, f)
             = a * Power(b, p) * (Value(b, q + w, h) - Value(b, q, h))
<1> DEFINE gap(x) == Value(b, x, g) - Value(b, x, f)
           part(x) == Value(b, x, h) - Value(b, q, h)
           ap == a * Power(b, p)
           S == {t \in Nat : t <= w => gap(p + q + t) = ap * part(q + t)}
<1>1. Power(b, p) \in Nat /\ Value(b, q, h) \in Int /\ ap \in Int
  <2>1. Integral(q, h)
    <3>1. q + w \in Nat /\ q <= q + w
      OBVIOUS
    <3> QED BY <3>1, IntegralBelow
  <2>2. Power(b, p) \in Nat /\ Value(b, q, h) \in Int
    BY <2>1, PowerFacts, ValueType
  <2> QED BY <2>2
<1>2. 0 \in S
  <2> DEFINE n == p + q
  <2>1. n \in Nat /\ 0 \in Nat /\ 0 <= n /\ n <= n + w /\ p + q + w = n + w /\ n + w \in Nat
    OBVIOUS
  <2>2. Agree(0, n, f, g)
    BY DEF RowAdded
  <2>3. p + q + 0 = n /\ q + 0 = q
    OBVIOUS
  <2> HIDE DEF n
  <2>4. Integral(n, f) /\ Integral(n, g)
    BY <2>1, IntegralBelow
  <2>5. Value(b, n, g) - Value(b, n, f) = Value(b, 0, g) - Value(b, 0, f)
    BY <2>1, <2>2, <2>4, SameTail
  <2>6. Value(b, 0, g) = 0 /\ Value(b, 0, f) = 0
    BY ValueFacts
  <2>7. gap(n) = 0
    BY <2>5, <2>6
  <2>8. part(q) = 0
    BY <1>1
  <2>9. ap * 0 = 0
    BY <1>1
  <2> HIDE DEF gap, part, ap
  <2> QED BY <2>3, <2>7, <2>8, <2>9
<1>3. ASSUME NEW t \in S PROVE t + 1 \in S
  <2>1. SUFFICES ASSUME t + 1 <= w PROVE gap(p + q + (t + 1)) = ap * part(q + (t + 1))
    OBVIOUS
  <2> DEFINE x == p + q + t
             y == q + t
             fx == f[x] * Power(b, x)
             hy == h[y] * Power(b, y)
  <2>2. /\ x \in Nat /\ x \in p + q .. p + q + w - 1 /\ x - p = y /\ p + q + (t + 1) = x + 1
        /\ y \in Nat /\ q + (t + 1) = y + 1 /\ p + y = x /\ p + q + w \in Nat /\ q + w \in Nat
        /\ x < p + q + w /\ x <= p + q + w /\ y < q + w /\ y <= q + w
    BY <2>1
  <2>3. gap(x) = ap * part(y)
    BY <2>1
  <2> HIDE DEF x, y
  <2>4. g[x] = f[x] + a * h[y]
    BY <2>2 DEF RowAdded
  <2>5. /\ Integral(x, f) /\ Integral(x, g) /\ Integral(y, h)
        /\ f[x] \in Int /\ h[y] \in Int
    BY <2>2, IntegralBelow
  <2>6. /\ Value(b, x, f) \in Int /\ Value(b, x, g) \in Int /\ Value(b, y, h) \in Int
        /\ Power(b, x) \in Nat /\ Power(b, y) \in Nat
    BY <2>2, <2>5, ValueType, PowerFacts
  <2>7. /\ Value(b, x + 1, f) = Value(b, x, f) + fx
        /\ Value(b, x + 1, g) = Value(b, x, g) + (f[x] + a * h[y]) * Power(b, x)
        /\ Value(b, y + 1, h) = Value(b, y, h) + hy
    BY <2>2, <2>4, ValueFacts
  <2>8. Power(b, x) = Power(b, p) * Power(b, y)
    BY <2>2, PowerSum
  <2>9. (f[x] + a * h[y]) * Power(b, x) = fx + ap * hy /\ fx \in Int /\ hy \in Int
        /\ ap * hy \in Int
    <3>1. (f[x] + a * h[y]) * Power(b, x) = fx + a * h[y] * (Power(b, p) * Power(b, y))
      BY <2>5, <2>6, <2>8
    <3>2. a * h[y] * (Power(b, p) * Power(b, y)) = ap * hy
      BY <1>1, <2>5, <2>6
    <3>3. fx \in Int /\ hy \in Int
      BY <2>5, <2>6
    <3> HIDE DEF ap, hy
    <3> QED BY <1>1, <3>1, <3>2, <3>3
  <2> HIDE DEF fx, hy, ap
  <2>10. gap(x + 1) = gap(x) + ap * hy
    BY <2>6, <2>7, <2>9
  <2>11. part(y + 1) = part(y) + hy /\ part(y) \in Int
    BY <1>1, <2>6, <2>7, <2>9
  <2> HIDE DEF gap, part
  <2>12. ap * (part(y) + hy) = ap * part(y) + ap * hy
    BY <1>1, <2>9, <2>11
  <2> QED BY <2>2, <2>3, <2>10, <2>11, <2>12
<1>4. S = Nat
  <2>1. S \in SUBSET Nat
    OBVIOUS
  <2> HIDE DEF S
  <2> QED BY <1>2, <1>3, <2>1, NatSetInduction
<1>5. gap(p + q + w) = ap * part(q + w)
  <2> HIDE DEF gap, part, ap
  <2>1. w \in S
    BY <1>4
  <2> QED BY <2>1
<1> QED BY <1>5

(* Zeros are worth nothing.                                                *)
LEMMA ZeroValue ==
    ASSUME NEW b \in Nat, NEW f, NEW n \in Nat, \A m \in 0 .. n - 1 : f[m] = 0
    PROVE  Value(b, n, f) = 0
<1> DEFINE S == {x \in Nat : x <= n => Value(b, x, f) = 0}
<1>1. 0 \in S
  <2>1. Value(b, 0, f) = 0
    BY ValueFacts
  <2> QED BY <2>1
<1>2. ASSUME NEW x \in S PROVE x + 1 \in S
  <2>1. SUFFICES ASSUME x + 1 <= n PROVE Value(b, x + 1, f) = 0
    OBVIOUS
  <2>2. Value(b, x, f) = 0 /\ f[x] = 0
    BY <2>1
  <2>3. Value(b, x + 1, f) = Value(b, x, f) + f[x] * Power(b, x) /\ Power(b, x) \in Nat
    BY ValueFacts, PowerFacts
  <2> QED BY <2>2, <2>3
<1>3. S = Nat
  <2>1. S \in SUBSET Nat
    OBVIOUS
  <2> HIDE DEF S
  <2> QED BY <1>1, <1>2, <2>1, NatSetInduction
<1> QED BY <1>3

-----------------------------------------------------------------------------
(* The products so far.                                                    *)

Cells == Value(Radix, lenA + lenB, C)
Rows == Value(Radix, i, A) * Value(Radix, lenB, B)
InCarry == carry * Power(Radix, CarryCell)
Row == IF i < lenA THEN A[i] * Power(Radix, i) * Value(Radix, j, B) ELSE 0

(* What the products so far are made of.                                   *)
LEMMA WorthFacts ==
    ASSUME IInv
    PROVE  /\ Radix \in Nat
           /\ \A n \in Nat : Power(Radix, n) \in Nat
           /\ \A n \in Nat : Power(Radix, n + 1) = Power(Radix, n) * Radix
           /\ Cells \in Int
           /\ Value(Radix, lenB, B) \in Int /\ Value(Radix, i, A) \in Int
           /\ Value(Radix, j, B) \in Int
           /\ i < lenA => /\ A[i] \in Nat
                          /\ Value(Radix, i + 1, A)
                               = Value(Radix, i, A) + A[i] * Power(Radix, i)
           /\ j < lenB => /\ B[j] \in Nat
                          /\ Value(Radix, j + 1, B)
                               = Value(Radix, j, B) + B[j] * Power(Radix, j)
           /\ Rows \in Int /\ Row \in Int
           /\ PartialProduct <=> Cells + InCarry = Rows + Row
<1> USE Ranges DEF IInv
<1>1. Radix \in Nat
  BY RadixFacts
<1>2. \A m \in Number : A[m] \in Nat /\ B[m] \in Nat
  BY <1>1 DEF TypeOK
<1>3. Integral(lenA + lenB, C)
  BY DEF Product, Integral
<1>4. Integral(lenB, B) /\ Integral(i, A) /\ Integral(j, B)
  BY <1>2 DEF Number, Integral
<1>5. lenA + lenB \in Nat
  OBVIOUS
<1>6. /\ Cells \in Int /\ Value(Radix, lenB, B) \in Int
      /\ Value(Radix, i, A) \in Int /\ Value(Radix, j, B) \in Int
  BY <1>1, <1>3, <1>4, <1>5, ValueType DEF Cells
<1>7. /\ \A n \in Nat : Power(Radix, n) \in Nat
      /\ \A n \in Nat : Power(Radix, n + 1) = Power(Radix, n) * Radix
  BY <1>1, PowerFacts
<1>8. ASSUME i < lenA
      PROVE  /\ A[i] \in Nat
             /\ Value(Radix, i + 1, A) = Value(Radix, i, A) + A[i] * Power(Radix, i)
  BY <1>2, <1>8, ValueFacts DEF Number
<1>9. ASSUME j < lenB
      PROVE  /\ B[j] \in Nat
             /\ Value(Radix, j + 1, B) = Value(Radix, j, B) + B[j] * Power(Radix, j)
  BY <1>2, <1>9, ValueFacts DEF Number
<1>10. Rows \in Int /\ Row \in Int
  BY <1>6, <1>7, <1>8 DEF Rows, Row
<1>11. CarryCell \in Nat
  BY DEF CarryCell
<1>12. pc = "done" => carry = 0
  BY DEF Control, TypeOK
<1>13. (IF pc = "done" THEN 0 ELSE carry * Power(Radix, CarryCell))
         = carry * Power(Radix, CarryCell)
  BY <1>7, <1>11, <1>12
<1>14. PartialProduct <=> Cells + InCarry = Rows + Row
  BY <1>13 DEF PartialProduct, Cells, Rows, Row, InCarry
<1> QED BY <1>1, <1>6, <1>7, <1>8, <1>9, <1>10, <1>14

(* A row that is complete becomes one of the rows before.                  *)
LEMMA RowComplete ==
    ASSUME IInv, IInv', UNCHANGED operands, i < lenA, j = lenB, i' = i + 1, j' = 0
    PROVE  Rows' + Row' = Rows + Row
<1> USE Ranges DEF IInv
<1>1. /\ lenA' = lenA /\ lenB' = lenB /\ Radix' = Radix /\ A' = A /\ B' = B
  BY SameOperands DEF operands
<1> DEFINE va == Value(Radix, i, A)
           vb == Value(Radix, lenB, B)
           x == A[i] * Power(Radix, i)
<1>2. /\ va \in Int /\ vb \in Int /\ x \in Int /\ Value(Radix, i + 1, A) = va + x
  BY WorthFacts
<1>3. Rows' = Value(Radix, i + 1, A) * vb
  BY <1>1 DEF Rows
<1>4. Rows = va * vb /\ Row = x * vb
  BY DEF Rows, Row
<1>5. Row' = 0
  <2>1. Row' = IF i + 1 < lenA THEN A[i + 1] * Power(Radix, i + 1) * Value(Radix, 0, B) ELSE 0
    BY <1>1 DEF Row
  <2>2. Value(Radix, 0, B) = 0
    BY ValueFacts
  <2>3. i + 1 < lenA => A[i + 1] * Power(Radix, i + 1) \in Int
    <3>1. i + 1 \in Nat
      OBVIOUS
    <3>2. i + 1 < lenA => A[i + 1] \in Int
      <4>1. i + 1 < lenA => i + 1 \in Number
        BY DEF Number
      <4> QED BY <4>1, RadixFacts DEF TypeOK
    <3> QED BY <3>1, <3>2, WorthFacts
  <2> QED BY <2>1, <2>2, <2>3
<1> HIDE DEF va, vb, x
<1> QED BY <1>2, <1>3, <1>4, <1>5

(* The rows are the same when the positions in A and B are.                *)
LEMMA SameRows ==
    ASSUME IInv, UNCHANGED operands, i' = i, j' = j
    PROVE  Rows' = Rows /\ Row' = Row /\ Radix' = Radix
<1>1. /\ lenA' = lenA /\ lenB' = lenB /\ Radix' = Radix /\ A' = A /\ B' = B
  BY SameOperands DEF operands, IInv
<1> QED BY <1>1 DEF Rows, Row

(* Without a carry the cells are worth the rows.                           *)
LEMMA NoCarryWorth ==
    ASSUME IInv, carry = 0
    PROVE  PartialProduct <=> Cells = Rows + Row
<1>1. CarryCell \in Nat
  BY Ranges DEF CarryCell, IInv
<1>2. InCarry = 0
  BY <1>1, WorthFacts DEF InCarry
<1> QED BY <1>2, WorthFacts

(* Before the first product everything is zero.                            *)
LEMMA InitWorth == Init => PartialProduct
<1> SUFFICES ASSUME Init PROVE PartialProduct
  OBVIOUS
<1>1. IInv
  BY InitInvariant
<1>2. /\ i = 0 /\ j = 0 /\ carry = 0 /\ C = [c \in Product |-> 0]
  BY DEF Init
<1> USE <1>1, Ranges DEF IInv
<1>3. Cells = 0
  <2>1. \A m \in 0 .. lenA + lenB - 1 : C[m] = 0
    BY <1>2 DEF Product
  <2>2. lenA + lenB \in Nat
    OBVIOUS
  <2> QED BY <2>1, <2>2, WorthFacts, ZeroValue DEF Cells
<1>4. Value(Radix, 0, A) = 0 /\ Value(Radix, 0, B) = 0
  BY ValueFacts
<1>5. Rows = 0
  BY <1>2, <1>4, WorthFacts DEF Rows
<1>6. Row = 0
  <2>1. i < lenA => A[i] * Power(Radix, i) \in Int
    BY WorthFacts
  <2> QED BY <1>2, <1>4, <2>1 DEF Row
<1> QED BY <1>2, <1>3, <1>5, <1>6, NoCarryWorth

(* Adding products to some cells.                                          *)
LEMMA AddProductsWorth ==
    ASSUME IInv, IInv', PartialProduct, AddProducts
    PROVE  PartialProduct'
<1> DEFINE sum(c) == C[c] + A[i] * B[c - i]
           w == Width
           n == lenA + lenB
<1> USE Ranges DEF IInv
<1>1. /\ pc = "row" /\ routine \in Deferred /\ i < lenA /\ j < lenB
      /\ i' = i /\ j' = j + w /\ carry' = carry /\ UNCHANGED operands
      /\ C' = [c \in Product |-> IF c \in i + j .. i + j + w - 1 THEN sum(c) % Word ELSE C[c]]
  BY DEF AddProducts
<1>2. w \in Nat /\ w >= 1 /\ j + w <= lenB
  BY <1>1, WidthFacts
<1>3. /\ lenA' = lenA /\ lenB' = lenB /\ Radix' = Radix /\ A' = A /\ B' = B
  BY <1>1, SameOperands DEF operands
<1>4. carry = 0 /\ carry' = 0
  BY <1>1 DEF Control
<1>5. ASSUME NEW c \in i + j .. i + j + w - 1
      PROVE  c \in Product /\ C'[c] = C[c] + A[i] * B[c - i]
  <2>1. c \in Product /\ sum(c) % Word = sum(c)
    BY <1>1, <1>5, SumFits
  <2> QED BY <1>1, <1>5, <2>1
<1>6. \A c \in Product : c \notin i + j .. i + j + w - 1 => C'[c] = C[c]
  BY <1>1
<1>7. /\ n \in Nat /\ i + j + w \in 0 .. n /\ n <= 2 * MAX_DIGITS
      /\ \A m \in 0 .. n - 1 : m \in Product
  <2>1. n \in Nat /\ i + j + w \in Nat /\ i + j + w <= n /\ n <= 2 * MAX_DIGITS
    <3>1. i + (j + w) <= i + lenB /\ i + lenB <= n
      BY <1>1, <1>2
    <3> QED BY <1>2, <3>1
  <2>2. \A m \in 0 .. n - 1 : m \in Product
    BY <2>1 DEF Product
  <2> QED BY <2>1, <2>2
<1>23. Radix \in Nat
  BY WorthFacts
<1> HIDE DEF w, sum
<1>8. Integral(n, C) /\ Integral(n, C')
  BY <1>7 DEF TypeOK, Integral
<1>9. Agree(i + j + w, n, C, C')
  BY <1>2, <1>6, <1>7 DEF Agree
<1>10. Agree(0, i + j, C, C')
  BY <1>2, <1>6, <1>7 DEF Agree
<1>24. i + j + w \in Nat /\ i + j + w <= n /\ j + w \in Nat
  BY <1>2, <1>7
<1>25. Integral(j + w, B)
  <2> DEFINE l == j + w
  <2>1. l \in Nat /\ l <= MAX_DIGITS
    BY <1>2
  <2>2. \A m \in Number : B[m] \in Int
    BY <1>23 DEF TypeOK
  <2> HIDE DEF l
  <2>3. Integral(l, B)
    BY <2>1, <2>2 DEF Integral, Number
  <2> QED BY <2>3 DEF l
<1> HIDE DEF n
<1>11. Value(Radix, n, C') - Value(Radix, n, C)
         = Value(Radix, i + j + w, C') - Value(Radix, i + j + w, C)
  BY <1>7, <1>8, <1>9, <1>23, <1>24, SameTail
<1>12. Value(Radix, i + j + w, C') - Value(Radix, i + j + w, C)
         = A[i] * Power(Radix, i) * (Value(Radix, j + w, B) - Value(Radix, j, B))
  <2>1. Integral(i + j + w, C) /\ Integral(i + j + w, C')
    BY <1>7, <1>8, <1>24, IntegralBelow
  <2>2. A[i] \in Int
    BY <1>1, WorthFacts
  <2>3. RowAdded(A[i], i, j, w, C, C', B)
    BY <1>5, <1>10 DEF RowAdded
  <2> QED BY <1>2, <1>23, <1>25, <2>1, <2>2, <2>3, AddRow
<1>13. Row = A[i] * Power(Radix, i) * Value(Radix, j, B)
       /\ Row' = A[i] * Power(Radix, i) * Value(Radix, j + w, B) /\ Rows' = Rows
  BY <1>1, <1>3 DEF Row, Rows
<1>14. Cells = Value(Radix, n, C) /\ Cells' = Value(Radix, n, C')
  BY <1>3 DEF Cells, n
<1> DEFINE ap == A[i] * Power(Radix, i)
           v == Value(Radix, j, B)
           u == Value(Radix, j + w, B)
<1>15. ap \in Int /\ v \in Int /\ u \in Int
  <2>1. u \in Int
    BY <1>23, <1>24, <1>25, ValueType
  <2>2. v \in Int /\ A[i] \in Nat /\ Power(Radix, i) \in Nat
    BY <1>1, WorthFacts
  <2> QED BY <2>1, <2>2
<1>16. Cells' - Cells = ap * (u - v) /\ Row = ap * v /\ Row' = ap * u
  BY <1>11, <1>12, <1>13, <1>14
<1>17. Cells = Rows + Row
  BY <1>4, NoCarryWorth
<1>18. Cells' \in Int /\ Cells \in Int /\ Rows \in Int /\ Row \in Int
  <2>1. Cells' \in Int
    BY <1>7, <1>8, <1>14, ValueType, WorthFacts
  <2> QED BY <2>1, WorthFacts
<1> HIDE DEF ap, v, u
<1>19. ap * (u - v) = ap * u - ap * v /\ ap * u \in Int /\ ap * v \in Int
  BY <1>15
<1>20. Cells' = Rows' + Row'
  BY <1>13, <1>16, <1>17, <1>18, <1>19
<1>21. (carry = 0)' /\ IInv'
  BY <1>4
<1>22. (PartialProduct <=> Cells = Rows + Row)'
  BY <1>21, NoCarryWorth, PTL
<1> QED BY <1>20, <1>22

(* When PartialProduct holds, in one formula.                              *)
LEMMA WorthNow ==
    IInv => /\ PartialProduct <=> Cells + InCarry = Rows + Row
            /\ carry = 0 => (PartialProduct <=> Cells = Rows + Row)
            /\ Cells \in Int /\ Rows \in Int /\ Row \in Int
BY WorthFacts, NoCarryWorth

(* The same after a step.                                                  *)
LEMMA WorthNext ==
    ASSUME IInv'
    PROVE  /\ (PartialProduct <=> Cells + InCarry = Rows + Row)'
           /\ (carry = 0 => (PartialProduct <=> Cells = Rows + Row))'
           /\ (Cells \in Int /\ Rows \in Int /\ Row \in Int)'
BY WorthNow, PTL

(* Where nothing is carried and no cell changes, the positions may.        *)
LEMMA QuietWorth ==
    ASSUME IInv, IInv', PartialProduct, UNCHANGED operands, C' = C, carry = 0, carry' = 0,
           Rows' + Row' = Rows + Row
    PROVE  PartialProduct'
<1>1. Cells' = Cells
  BY SameOperands DEF Cells, IInv
<1>2. Cells = Rows + Row
  BY NoCarryWorth
<1>3. (carry = 0)'
  OBVIOUS
<1> QED BY <1>1, <1>2, <1>3, WorthNext

(* A row is finished.                                                      *)
LEMMA NextRowWorth ==
    ASSUME IInv, IInv', PartialProduct, NextRow
    PROVE  PartialProduct'
<1> USE Ranges DEF IInv
<1>1. /\ pc = "row" /\ routine \in Deferred /\ i < lenA /\ j = lenB
      /\ C' = C /\ carry' = carry /\ UNCHANGED operands
  BY DEF NextRow
<1>2. carry = 0
  BY <1>1 DEF Control
<1>3. CASE routine = "multiply_vectorized"
  <2>1. i' = i /\ j' = j
    BY <1>3 DEF NextRow
  <2>2. Rows' + Row' = Rows + Row
    BY <1>1, <2>1, SameRows
  <2> QED BY <1>1, <1>2, <2>2, QuietWorth
<1>4. CASE routine # "multiply_vectorized"
  <2>1. i' = i + 1 /\ j' = 0
    BY <1>4 DEF NextRow
  <2>2. Rows' + Row' = Rows + Row
    BY <1>1, <2>1, RowComplete
  <2> QED BY <1>1, <1>2, <2>2, QuietWorth
<1> QED BY <1>3, <1>4

(* The rows of a routine that carries afterwards are done.                 *)
LEMMA StartCarryWorth ==
    ASSUME IInv, IInv', PartialProduct, StartCarry
    PROVE  PartialProduct'
<1>1. /\ pc = "row" /\ routine \in Deferred /\ i' = i /\ j' = j
      /\ C' = C /\ carry' = carry /\ UNCHANGED operands
  BY DEF StartCarry
<1>2. carry = 0
  BY <1>1 DEF IInv, Control
<1>3. Rows' + Row' = Rows + Row
  BY <1>1, SameRows
<1> QED BY <1>1, <1>2, <1>3, QuietWorth

(* The rows of a routine that carries as it goes are done.                 *)
LEMMA RowsDoneWorth ==
    ASSUME IInv, IInv', PartialProduct, RowsDone
    PROVE  PartialProduct'
<1>1. /\ pc = "row" /\ routine \in Inline /\ i = lenA /\ i' = i /\ j' = j
      /\ C' = C /\ carry' = carry /\ UNCHANGED operands
  BY DEF RowsDone
<1>2. carry = 0
  BY <1>1 DEF IInv, Control
<1>3. Rows' + Row' = Rows + Row
  BY <1>1, SameRows
<1> QED BY <1>1, <1>2, <1>3, QuietWorth

(* The end of a carry loop: nothing is left to carry.                      *)
LEMMA CarriedWorth ==
    ASSUME IInv, IInv', PartialProduct, Carried
    PROVE  PartialProduct'
<1> USE Ranges DEF IInv
<1>1. /\ pc = "carry" /\ k >= CarryEnd
      /\ C' = C /\ carry' = carry /\ UNCHANGED operands
  BY DEF Carried
<1>2. CASE routine = "multiply_vectorized"
  <2>1. i < lenA /\ j = lenB /\ i' = i + 1 /\ j' = 0 /\ carry = 0
    BY <1>1, <1>2 DEF Carried, Control, Deferred
  <2>2. Rows' + Row' = Rows + Row
    BY <1>1, <2>1, RowComplete
  <2> QED BY <1>1, <2>1, <2>2, QuietWorth
<1>3. CASE routine # "multiply_vectorized"
  <2>1. i' = i /\ j' = j
    BY <1>3 DEF Carried
  <2>2. Rows' + Row' = Rows + Row
    BY <1>1, <2>1, SameRows
  <2>3. carry = 0
    <3>1. routine \in Deferred
      BY <1>1 DEF Control, TypeOK
    <3>2. CASE routine = "multiply_vectorized_optimized"
      <4>1. k = lenA + lenB
        BY <1>1, <1>3 DEF CarryEnd
      <4> QED BY <1>1, <3>2, <4>1 DEF OnceCarry, CarryOnce
    <3>3. CASE routine # "multiply_vectorized_optimized"
      BY <3>1, <3>3 DEF Control
    <3> QED BY <3>2, <3>3
  <2> QED BY <1>1, <2>2, <2>3, QuietWorth
<1> QED BY <1>2, <1>3

(* Carrying in a variable: the digit stays, the rest is worth a base more  *)
(* one cell up.                                                            *)
LEMMA CarryInVariableWorth ==
    ASSUME IInv, IInv', PartialProduct, CarryInVariable
    PROVE  PartialProduct'
<1> DEFINE total == C[k] + carry
           d == total \div BASE
           r == total % BASE
           n == lenA + lenB
           p == Power(Radix, k)
<1> USE Ranges DEF IInv
<1>1. /\ pc = "carry" /\ routine = "multiply_vectorized_optimized" /\ k < CarryEnd
      /\ k' = k + 1 /\ i' = i /\ j' = j /\ UNCHANGED operands
      /\ C' = [C EXCEPT ![k] = (total % Word) % BASE] /\ carry' = (total % Word) \div BASE
  BY DEF CarryInVariable
<1>2. /\ lenA' = lenA /\ lenB' = lenB /\ routine' = routine /\ Radix' = Radix
      /\ routine \notin Inline /\ routine \in CarryOnce /\ Radix = BASE
  BY <1>1, SameOperands, RadixFacts DEF Inline, CarryOnce, Deferred
<1>3. /\ k \in Product /\ k < n /\ total \in Nat /\ total < Word \div 2
      /\ d \in Nat /\ r \in 0 .. Top
  BY <1>1, <1>2, OnceDigit
<1>4. total % Word = total
  <2>1. total < Word
    BY <1>3, WordFacts
  <2> HIDE DEF total
  <2> QED BY <1>3, <2>1, SmallMod
<1>5. total = BASE * d + r
  <2>1. BASE \in Nat \ {0}
    BY TopFacts
  <2> HIDE DEF total
  <2> QED BY <1>3, <2>1, DivMod
<1>6. C' = [C EXCEPT ![k] = r] /\ carry' = d
  BY <1>1, <1>4
<1> HIDE DEF d, r
<1>20. BASE * d \in Nat /\ C[k] \in Nat
  BY <1>3, TopFacts
<1>7. /\ \A m \in 0 .. n - 1 : m \in Product
      /\ n \in Nat
  BY DEF Product
<1>8. Integral(n, C) /\ Integral(n, C')
  BY <1>7 DEF TypeOK, Integral
<1>9. C'[k] = r /\ \A m \in 0 .. n - 1 : m # k => C'[m] = C[m]
  BY <1>3, <1>6, <1>7 DEF TypeOK
<1>10. Cells = Value(Radix, n, C) /\ Cells' = Value(Radix, n, C')
  BY <1>2 DEF Cells
<1>11. k \in Nat /\ k < n /\ Radix \in Nat
  BY <1>3, WorthFacts
<1> HIDE DEF n
<1>12. Cells' = Cells + (r - C[k]) * p
  BY <1>7, <1>8, <1>9, <1>10, <1>11, OneCell
<1>13. CarryCell = k /\ CarryCell' = k + 1
  BY <1>1, <1>2 DEF CarryCell
<1>14. Power(Radix, k + 1) = p * BASE /\ p \in Nat
  BY <1>2, WorthFacts
<1>15. Rows' = Rows /\ Row' = Row
  BY <1>1, SameRows
<1>16. Cells + carry * p = Rows + Row /\ Cells \in Int
  BY <1>13, WorthFacts DEF InCarry
<1>17. Cells' + carry' * Power(Radix', CarryCell') = Cells + (r - C[k]) * p + d * (p * BASE)
  BY <1>2, <1>6, <1>12, <1>13, <1>14
<1> HIDE DEF p
<1>18. (r - C[k]) * p + d * (p * BASE) = carry * p
  <2>1. BASE * d + r - C[k] = carry /\ C[k] \in Nat /\ r \in Int /\ BASE \in Nat /\ d \in Nat
    BY <1>3, <1>5, <1>20, TopFacts
  <2>2. (r - C[k]) * p + d * (p * BASE) = (BASE * d + r - C[k]) * p
    BY <1>14, <2>1
  <2> QED BY <2>1, <2>2
<1>19. Cells + (r - C[k]) * p + d * (p * BASE) = Cells + carry * p
  <2>1. (r - C[k]) * p \in Int /\ d * (p * BASE) \in Int
    BY <1>3, <1>14
  <2> QED BY <1>16, <1>18, <2>1
<1> QED BY <1>15, <1>16, <1>17, <1>19, WorthNext DEF InCarry

(* Carrying to the next cell: what one cell gives up the other is worth.   *)
LEMMA CarryToNextWorth ==
    ASSUME IInv, IInv', PartialProduct, CarryToNext
    PROVE  PartialProduct'
<1> USE Ranges DEF IInv
<1>1. /\ pc = "carry" /\ routine # "multiply_vectorized_optimized" /\ k < CarryEnd
      /\ k' = k + 1 /\ i' = i /\ j' = j /\ carry' = carry /\ UNCHANGED operands
      /\ C' = IF C[k] >= BASE
              THEN [C EXCEPT ![k] = C[k] % BASE, ![k + 1] = (C[k + 1] + C[k] \div BASE) % Word]
              ELSE C
  BY DEF CarryToNext
<1>2. routine \in Deferred /\ carry = 0 /\ carry' = 0
  BY <1>1 DEF Control, TypeOK
<1>3. Rows' = Rows /\ Row' = Row
  BY <1>1, SameRows
<1>4. CASE ~(C[k] >= BASE)
  BY <1>1, <1>2, <1>3, <1>4, QuietWorth
<1>5. CASE C[k] >= BASE
  <2> DEFINE x == C[k]
             d == x \div BASE
             r == x % BASE
             n == lenA + lenB
             p == Power(Radix, k)
  <2>1. /\ k \in Product /\ k + 1 \in Product /\ k + 1 < n
        /\ C[k + 1] + d \in Nat /\ C[k + 1] + d < Word \div 2
    <3>1. CASE routine = "multiply_vectorized"
      <4>1. /\ k \in Product /\ k + 1 \in Product /\ k + 1 < n /\ d \in Nat
            /\ C[k + 1] + d < Word \div 2
        BY <1>1, <1>5, <3>1, EachDigit
      <4> QED BY <4>1
    <3>2. CASE routine \in CarryOnce
      <4>1. /\ k \in Product /\ k < n /\ x + carry = x
            /\ (k + 1 = n => x < BASE)
        BY <1>1, <1>2, <3>2, OnceDigit
      <4>2. k + 1 < n /\ k + 1 \in Product
        BY <1>5, <4>1 DEF Product
      <4>3. x + carry = x
        BY <4>1
      <4>4. C[k + 1] + d \in Nat /\ C[k + 1] + d < Word \div 2
        BY <1>1, <3>2, <4>2, <4>3, OnceNextCell
      <4> QED BY <4>1, <4>2, <4>4
    <3> QED BY <1>2, <3>1, <3>2 DEF Deferred, CarryOnce
  <2>2. x = BASE * d + r /\ d \in Nat /\ r \in Nat /\ BASE \in Nat /\ r <= Top
    <3>1. x \in Nat
      BY <2>1
    <3>2. BASE \in Nat \ {0} /\ BASE \in Nat /\ BASE - 1 = Top /\ Top \in Nat
      BY TopFacts
    <3> HIDE DEF x
    <3>3. x = BASE * d + r /\ d \in Nat /\ r \in 0 .. BASE - 1
      BY <3>1, <3>2, DivMod
    <3> QED BY <3>2, <3>3
  <2>3. (C[k + 1] + d) % Word = C[k + 1] + d
    <3> DEFINE y == C[k + 1] + d
    <3>1. y \in Nat /\ y < Word
      BY <2>1, WordFacts
    <3> HIDE DEF y
    <3>2. y % Word = y
      BY <3>1, WordFacts, SmallMod
    <3> QED BY <3>2 DEF y
  <2> HIDE DEF d, r
  <2>4. C' = [C EXCEPT ![k] = r, ![k + 1] = C[k + 1] + d]
    BY <1>1, <1>5, <2>3 DEF d, r
  <2> DEFINE h == [C EXCEPT ![k] = r]
  <2>5. /\ \A m \in 0 .. n - 1 : m \in Product
        /\ n \in Nat /\ k \in Nat /\ k < n /\ k + 1 \in Nat /\ k + 1 < n /\ k # k + 1
        /\ Radix \in Nat
    BY <2>1, WorthFacts DEF Product
  <2>6. C \in [Product -> 0 .. Word - 1] /\ C' \in [Product -> 0 .. Word - 1]
    BY DEF TypeOK
  <2>7. /\ h[k] = r /\ \A m \in 0 .. n - 1 : m # k => h[m] = C[m]
        /\ Integral(n, h)
    BY <2>2, <2>5, <2>6 DEF Integral
  <2>8. /\ C'[k + 1] = C[k + 1] + d /\ \A m \in 0 .. n - 1 : m # k + 1 => C'[m] = h[m]
    BY <2>1, <2>4, <2>5, <2>6
  <2>9. Integral(n, C) /\ Integral(n, C')
    BY <2>5, <2>6 DEF Integral
  <2>10. Cells = Value(Radix, n, C) /\ Cells' = Value(Radix, n, C') /\ Radix = BASE
    BY <1>1, <1>2, SameOperands, RadixFacts DEF Cells
  <2> HIDE DEF n, h
  <2>11. Value(Radix, n, h) = Value(Radix, n, C) + (h[k] - C[k]) * p
    BY <2>5, <2>7, <2>9, OneCell
  <2>12. Value(Radix, n, C') = Value(Radix, n, h) + (C'[k + 1] - h[k + 1]) * Power(Radix, k + 1)
    BY <2>5, <2>7, <2>8, <2>9, OneCell
  <2>13. h[k + 1] = C[k + 1] /\ C[k + 1] \in Int
    BY <2>5, <2>7, <2>9, IntegralBelow
  <2>14. C'[k + 1] - h[k + 1] = d /\ h[k] - C[k] = r - x
    BY <2>2, <2>7, <2>8, <2>13
  <2>15. Power(Radix, k + 1) = p * BASE /\ p \in Nat
    BY <2>10, WorthFacts
  <2>16. x \in Nat /\ Cells \in Int
    BY <2>1, WorthFacts
  <2> HIDE DEF p, x
  <2>17. Cells' = Cells + (r - x) * p + d * (p * BASE)
    BY <2>10, <2>11, <2>12, <2>14, <2>15
  <2>18. (r - x) * p + d * (p * BASE) = (BASE * d + r - x) * p
    BY <2>2, <2>15, <2>16
  <2>19. BASE * d + r - x = 0 /\ 0 * p = 0
    BY <2>2, <2>15, <2>16
  <2>20. (r - x) * p \in Int /\ d * (p * BASE) \in Int
    BY <2>2, <2>15, <2>16
  <2>21. Cells' = Cells
    BY <2>16, <2>17, <2>18, <2>19, <2>20
  <2>22. Cells = Rows + Row
    BY <1>2, NoCarryWorth
  <2>23. (carry = 0)'
    BY <1>2
  <2> QED BY <1>3, <2>21, <2>22, <2>23, WorthNext
<1> QED BY <1>4, <1>5

(* Carrying within the row: the digit, the carry and the next digit of B.  *)
LEMMA MultiplyAndCarryWorth ==
    ASSUME IInv, IInv', PartialProduct, MultiplyAndCarry
    PROVE  PartialProduct'
<1> DEFINE prod == A[i] * B[j] + C[i + j] + carry
           d == prod \div Radix
           r == prod % Radix
           n == lenA + lenB
           p == Power(Radix, i)
           q == Power(Radix, j)
           x == A[i]
           y == B[j]
           z == C[i + j]
           v == Value(Radix, j, B)
<1> USE Ranges DEF IInv
<1>1. /\ pc = "row" /\ routine \in Inline /\ i < lenA /\ j < lenB
      /\ i' = i /\ j' = j + 1 /\ UNCHANGED operands
      /\ C' = [C EXCEPT ![i + j] = (prod % Wide) % Radix]
      /\ carry' = ((prod % Wide) \div Radix) % Word
  BY DEF MultiplyAndCarry
<1>2. /\ lenA' = lenA /\ lenB' = lenB /\ routine' = routine /\ Radix' = Radix
      /\ A' = A /\ B' = B
  BY <1>1, SameOperands DEF operands
<1>3. /\ i + j \in Product /\ prod \in Nat /\ prod % Wide = prod
      /\ d \in Nat /\ d < Radix /\ r \in 0 .. Radix - 1
  BY <1>1, InlineDigit
<1>4. Radix \in Nat \ {0} /\ Radix <= Word
  BY RadixFacts
<1>5. prod = Radix * d + r
  <2> HIDE DEF prod
  <2> QED BY <1>3, <1>4, DivMod
<1>6. C' = [C EXCEPT ![i + j] = r] /\ carry' = d % Word
  BY <1>1, <1>3
<1> HIDE DEF d, r
<1>7. carry' = d
  BY <1>3, <1>4, <1>6, SmallMod
<1>8. /\ \A m \in 0 .. n - 1 : m \in Product
      /\ n \in Nat /\ i + j \in Nat /\ i + j < n
  BY <1>1 DEF Product
<1>9. /\ Integral(n, C) /\ Integral(n, C')
      /\ C'[i + j] = r /\ \A m \in 0 .. n - 1 : m # i + j => C'[m] = C[m]
  BY <1>3, <1>6, <1>8 DEF TypeOK, Integral
<1>10. Cells = Value(Radix, n, C) /\ Cells' = Value(Radix, n, C')
  BY <1>2 DEF Cells
<1> HIDE DEF n
<1>11. Cells' = Cells + (r - z) * Power(Radix, i + j)
  BY <1>4, <1>8, <1>9, <1>10, OneCell
<1>12. Power(Radix, i + j) = p * q /\ Power(Radix, i + j + 1) = p * q * Radix
       /\ p \in Nat /\ q \in Nat
  <2>1. Power(Radix, i + j) = p * q /\ Radix \in Nat
    BY <1>4, PowerSum
  <2>2. Power(Radix, (i + j) + 1) = Power(Radix, i + j) * Radix
    BY <1>8, <2>1, PowerFacts
  <2>3. p \in Nat /\ q \in Nat
    BY <2>1, PowerFacts
  <2> QED BY <2>1, <2>2, <2>3
<1>13. CarryCell = i + j /\ CarryCell' = i + j + 1
  BY <1>1, <1>2 DEF CarryCell
<1>14. /\ Value(Radix, j + 1, B) = v + y * q /\ v \in Int /\ x \in Nat /\ y \in Nat /\ z \in Nat
       /\ Cells \in Int /\ Rows \in Int
  BY <1>1, <1>3, WorthFacts
<1>15. Row = x * p * v /\ Row' = x * p * (v + y * q) /\ Rows' = Rows
  BY <1>1, <1>2, <1>14 DEF Row, Rows
<1>16. Cells + carry * (p * q) = Rows + x * p * v
  BY <1>12, <1>13, <1>15, WorthFacts DEF InCarry
<1>17. x * y + z + carry = Radix * d + r /\ r \in Nat
  BY <1>3, <1>5
<1>18. Cells' + carry' * Power(Radix', CarryCell')
         = Cells + (r - z) * (p * q) + d * (p * q * Radix)
  BY <1>2, <1>7, <1>11, <1>12, <1>13
<1> HIDE DEF p, q, x, y, z, v, prod
<1>19. (r - z) * (p * q) + d * (p * q * Radix) = (x * y + carry) * (p * q)
  <2>1. x * y \in Int /\ Radix * d \in Int /\ carry \in Int
    BY <1>3, <1>4, <1>14
  <2>2. Radix * d + r - z = x * y + carry
    BY <1>3, <1>4, <1>14, <1>17, <2>1
  <2>3. (r - z) * (p * q) + d * (p * q * Radix) = (Radix * d + r - z) * (p * q)
    BY <1>3, <1>4, <1>12, <1>14, <1>17
  <2> QED BY <2>2, <2>3
<1>20. (x * y + carry) * (p * q) = x * p * (y * q) + carry * (p * q)
  BY <1>12, <1>14
<1>21. x * p * (v + y * q) = x * p * v + x * p * (y * q)
  BY <1>12, <1>14
<1>22. /\ (r - z) * (p * q) \in Int /\ d * (p * q * Radix) \in Int /\ carry * (p * q) \in Int
       /\ x * p * v \in Int /\ x * p * (y * q) \in Int
  BY <1>3, <1>4, <1>12, <1>14, <1>17
<1>23. Cells + (r - z) * (p * q) + d * (p * q * Radix) = Rows + x * p * (v + y * q)
  BY <1>14, <1>16, <1>19, <1>20, <1>21, <1>22
<1> QED BY <1>15, <1>18, <1>23, WorthNext DEF InCarry

(* The last carry of a row goes to an empty cell.                          *)
LEMMA LastCarryWorth ==
    ASSUME IInv, IInv', PartialProduct, LastCarry
    PROVE  PartialProduct'
<1> DEFINE n == lenA + lenB
           c == i + lenB
<1> USE Ranges DEF IInv
<1>1. /\ pc = "row" /\ routine \in Inline /\ i < lenA /\ j = lenB
      /\ i' = i + 1 /\ j' = 0 /\ carry' = 0 /\ UNCHANGED operands
      /\ C' = [C EXCEPT ![c] = IF routine = "multiply" THEN (C[c] + carry) % Word
                                                       ELSE carry]
  BY DEF LastCarry
<1>2. c \in Product /\ C[c] = 0 /\ carry < Radix
  BY <1>1 DEF Product, InlineRow
<1>3. (C[c] + carry) % Word = carry
  BY <1>2, RadixFacts, SmallMod
<1>4. C' = [C EXCEPT ![c] = carry]
  BY <1>1, <1>3
<1>5. /\ \A m \in 0 .. n - 1 : m \in Product
      /\ n \in Nat /\ c \in Nat /\ c < n /\ Radix \in Nat
  BY <1>1, WorthFacts DEF Product
<1>6. /\ Integral(n, C) /\ Integral(n, C')
      /\ C'[c] = carry /\ \A m \in 0 .. n - 1 : m # c => C'[m] = C[m]
  BY <1>2, <1>4, <1>5 DEF TypeOK, Integral
<1>7. Cells = Value(Radix, n, C) /\ Cells' = Value(Radix, n, C')
  BY <1>1, SameOperands DEF Cells
<1>8. CarryCell = c
  BY <1>1 DEF CarryCell
<1> HIDE DEF n, c
<1>9. Cells' = Cells + (carry - 0) * Power(Radix, c)
  BY <1>2, <1>5, <1>6, <1>7, OneCell
<1>10. Cells + carry * Power(Radix, c) = Rows + Row
  BY <1>8, WorthFacts DEF InCarry
<1>11. Rows' + Row' = Rows + Row
  BY <1>1, RowComplete
<1>12. Cells' = Rows' + Row' /\ (carry = 0)'
  BY <1>1, <1>9, <1>10, <1>11
<1> QED BY <1>12, WorthNext

(* Nothing changes what the products so far are worth when nothing changes. *)
LEMMA StutterWorth ==
    ASSUME PartialProduct, UNCHANGED vars
    PROVE  PartialProduct'
BY DEF PartialProduct, vars, Radix, CarryCell

(* At any moment of any of the functions the cells and the carry are worth *)
(* the products of the digits multiplied so far, whatever the base, the    *)
(* lengths and the vectors.                                                *)
THEOREM ProductsSoFar == Spec => []PartialProduct
<1>1. Init => PartialProduct
  BY InitWorth
<1>2. IInv /\ IInv' /\ PartialProduct /\ [Next]_vars => PartialProduct'
  <2> SUFFICES ASSUME IInv, IInv', PartialProduct, [Next]_vars PROVE PartialProduct'
    OBVIOUS
  <2>1. CASE AddProducts BY <2>1, AddProductsWorth
  <2>2. CASE NextRow BY <2>2, NextRowWorth
  <2>3. CASE StartCarry BY <2>3, StartCarryWorth
  <2>4. CASE CarryToNext BY <2>4, CarryToNextWorth
  <2>5. CASE CarryInVariable BY <2>5, CarryInVariableWorth
  <2>6. CASE Carried BY <2>6, CarriedWorth
  <2>7. CASE MultiplyAndCarry BY <2>7, MultiplyAndCarryWorth
  <2>8. CASE LastCarry BY <2>8, LastCarryWorth
  <2>9. CASE RowsDone BY <2>9, RowsDoneWorth
  <2>10. CASE UNCHANGED vars BY <2>10, StutterWorth
  <2> QED BY <2>1, <2>2, <2>3, <2>4, <2>5, <2>6, <2>7, <2>8, <2>9, <2>10 DEF Next
<1> QED BY Invariance, <1>1, <1>2, PTL DEF Spec

(* When a function returns, the cells of C are worth A times B.            *)
THEOREM ReturnsTheProduct ==
    Spec => [](pc = "done" =>
                 Value(Radix, lenA + lenB, C)
                   = Value(Radix, lenA, A) * Value(Radix, lenB, B))
<1>1. IInv /\ PartialProduct =>
        (pc = "done" => Value(Radix, lenA + lenB, C)
                          = Value(Radix, lenA, A) * Value(Radix, lenB, B))
  <2> SUFFICES ASSUME IInv, PartialProduct, pc = "done"
               PROVE  Cells = Value(Radix, lenA, A) * Value(Radix, lenB, B)
    BY DEF Cells
  <2>1. i = lenA
    BY DEF IInv, Control
  <2>2. Rows = Value(Radix, lenA, A) * Value(Radix, lenB, B) /\ Row = 0
    BY <2>1, Ranges DEF Rows, Row, IInv
  <2>3. Cells \in Int /\ Rows \in Int
    BY WorthFacts
  <2> QED BY <2>2, <2>3 DEF PartialProduct, Cells, Rows, Row
<1> QED BY Invariance, ProductsSoFar, <1>1, PTL
=============================================================================
