---------------------------- MODULE BaseCacheProofs ----------------------------
(***************************************************************************)
(* Proofs about the address arithmetic and the profiles of BaseCache, the  *)
(* rows that CacheReport prints, and the lemmas on remainders, induction   *)
(* and sums that the proofs about the caches share.                        *)
(***************************************************************************)
EXTENDS CacheReport, FiniteSetTheorems, TLAPS

(* The set index of an address is the index of a set.                      *)
LEMMA SplitAddrInRange ==
    ASSUME NEW addr \in Nat
    PROVE  TagOf(addr) \in Nat /\ SetIndexOf(TagOf(addr)) \in SetIndex
<1>1. TagOf(addr) \in Nat
  BY GeometryAssumption DEF TagOf
<1> QED BY <1>1, GeometryAssumption DEF SetIndexOf, SetIndex

(* The counters an access increments are counters of a row.                *)
LEMMA CounterIds ==
    ASSUME NEW access_type \in kAccessTypes, NEW b \in BOOLEAN
    PROVE  MissHitId(access_type, b) \in CounterId /\ MruId(access_type, b) \in CounterId
BY DEF kAccessTypes, kLoad, kStore, MissHitId, MruId, B2I, CounterId

(* A profile starts out well formed, with no index in use.                 *)
LEMMA NewProfileOK == NewProfile \in ProfileType /\ Covered(NewProfile)
<1> DEFINE rows == [i \in 1 .. InitialRows |-> NewRow]
<1>1. NewRow \in [CounterId -> Nat]
  BY DEF NewRow
<1>2. rows \in Seq([CounterId -> Nat]) /\ Len(rows) = InitialRows
  BY <1>1, CounterAssumption
<1>3. << >> \in Seq(Nat) /\ Len(<< >>) = 0 /\ DOMAIN << >> = {}
  OBVIOUS
<1> QED BY <1>2, <1>3, CounterAssumption DEF NewProfile, ProfileType, Covered

(* Map returns an index that has a row: it is the old one of a known key   *)
(* or the next free one, and the rows double before they run out.          *)
LEMMA MapKeyOK ==
    ASSUME NEW p \in ProfileType, Covered(p), NEW key \in Nat
    PROVE  LET mapped == MapKey(p, key)
           IN  /\ mapped \in ProfileType
               /\ Covered(mapped)
               /\ IsMapped(mapped, key)
<1> DEFINE map == IF IsMapped(p, key) THEN p.map ELSE Append(p.map, key)
           index == CHOOSE i \in DOMAIN map : map[i] = key
           fresh == [i \in DOMAIN p.rows |-> NewRow]
           grown == p.rows \o fresh
           rows == IF index >= Len(p.rows) THEN grown ELSE p.rows
           mapped == MapKey(p, key)
<1>1. mapped = [map |-> map, rows |-> rows]
  BY DEF MapKey
<1>2. /\ p.map \in Seq(Nat) /\ p.rows \in Seq([CounterId -> Nat])
      /\ Len(p.map) \in Nat /\ Len(p.rows) \in Nat /\ Len(p.map) < Len(p.rows)
  BY DEF ProfileType, Covered
<1>3. /\ map \in Seq(Nat)
      /\ \E i \in DOMAIN map : map[i] = key
      /\ \A i, j \in DOMAIN map : map[i] = map[j] => i = j
      /\ Len(map) = IF IsMapped(p, key) THEN Len(p.map) ELSE Len(p.map) + 1
  <2>1. CASE IsMapped(p, key)
    BY <1>2, <2>1 DEF IsMapped, Covered
  <2>2. CASE ~IsMapped(p, key)
    <3>1. /\ Append(p.map, key) \in Seq(Nat)
          /\ Len(Append(p.map, key)) = Len(p.map) + 1
          /\ Append(p.map, key)[Len(p.map) + 1] = key
          /\ \A i \in 1 .. Len(p.map) : Append(p.map, key)[i] = p.map[i]
      BY <1>2
    <3>2. \A i \in 1 .. Len(p.map) : p.map[i] # key
      BY <1>2, <2>2 DEF IsMapped
    <3>3. map = Append(p.map, key)
      BY <2>2
    <3> HIDE DEF map
    <3>4. DOMAIN map = 1 .. Len(p.map) + 1
      BY <3>1, <3>3
    <3>5. \E i \in DOMAIN map : map[i] = key
      BY <1>2, <3>1, <3>3, <3>4
    <3>6. ASSUME NEW i \in DOMAIN map, NEW j \in DOMAIN map, map[i] = map[j]
          PROVE  i = j
      <4>1. \A l \in 1 .. Len(p.map) : map[l] = p.map[l] /\ map[l] # key
        BY <3>1, <3>2, <3>3
      <4>2. i = Len(p.map) + 1 \/ i \in 1 .. Len(p.map)
        BY <3>4, <1>2
      <4>3. j = Len(p.map) + 1 \/ j \in 1 .. Len(p.map)
        BY <3>4, <1>2
      <4>4. map[Len(p.map) + 1] = key
        BY <3>1, <3>3
      <4>5. CASE i \in 1 .. Len(p.map) /\ j \in 1 .. Len(p.map)
        BY <3>6, <4>1, <4>5, <1>2 DEF Covered
      <4> QED BY <3>6, <4>1, <4>2, <4>3, <4>4, <4>5
    <3> QED BY <2>2, <3>1, <3>3, <3>5, <3>6
  <2> QED BY <2>1, <2>2
<1> HIDE DEF map
<1>4. index \in 1 .. Len(map) /\ map[index] = key
  BY <1>3
<1>5. index \in Nat /\ (index < Len(map) => Len(map) <= Len(p.rows))
  BY <1>2, <1>3, <1>4
<1>6. fresh \in Seq([CounterId -> Nat]) /\ Len(fresh) = Len(p.rows)
  <2>1. NewRow \in [CounterId -> Nat]
    BY DEF NewRow
  <2>2. DOMAIN p.rows = 1 .. Len(p.rows)
    BY <1>2
  <2> QED BY <2>1, <2>2, <1>2
<1> HIDE DEF index, fresh
<1>7. grown \in Seq([CounterId -> Nat]) /\ Len(grown) = Len(p.rows) + Len(p.rows)
  <2> DEFINE Rows == [CounterId -> Nat]
  <2>1. p.rows \in Seq(Rows) /\ fresh \in Seq(Rows)
    BY <1>2, <1>6
  <2> HIDE DEF Rows
  <2>2. grown \in Seq(Rows) /\ Len(grown) = Len(p.rows) + Len(fresh)
    BY <2>1
  <2> QED BY <2>2, <1>6 DEF Rows
<1> HIDE DEF grown
<1>8. rows \in Seq([CounterId -> Nat])
  BY <1>2, <1>7
<1>9. Len(map) < Len(rows)
  <2>1. CASE IsMapped(p, key)
    BY <2>1, <1>2, <1>3, <1>7
  <2>2. CASE ~IsMapped(p, key)
    <3>1. map = Append(p.map, key)
      BY <2>2 DEF map
    <3>2. map[Len(p.map) + 1] = key /\ Len(p.map) + 1 \in DOMAIN map
      BY <3>1, <1>2
    <3>3. index = Len(p.map) + 1
      BY <3>2, <1>3, <1>4
    <3> QED BY <2>2, <3>3, <1>2, <1>3, <1>7
  <2> QED BY <2>1, <2>2
<1> HIDE DEF rows, mapped
<1> QED BY <1>1, <1>3, <1>8, <1>9 DEF ProfileType, Covered, IsMapped, mapped

(* Counting in a row changes no index and keeps the rows.                  *)
LEMMA BumpOK ==
    ASSUME NEW p \in ProfileType, Covered(p), NEW row \in Nat, NEW c \in CounterId
    PROVE  /\ Bump(p, row, c) \in ProfileType
           /\ Covered(Bump(p, row, c))
           /\ Bump(p, row, c).map = p.map
<1> DEFINE rows == [p.rows EXCEPT ![row][c] = @ + 1]
           bumped == Bump(p, row, c)
<1>1. p.map \in Seq(Nat) /\ p.rows \in Seq([CounterId -> Nat])
  BY DEF ProfileType
<1>2. bumped = [map |-> p.map, rows |-> rows]
  <2>1. bumped = [p EXCEPT !.rows = rows]
    BY DEF Bump
  <2> HIDE DEF rows, bumped
  <2> QED BY <2>1 DEF ProfileType
<1>3. DOMAIN rows = 1 .. Len(p.rows)
  BY <1>1
<1>4. ASSUME NEW i \in 1 .. Len(p.rows) PROVE rows[i] \in [CounterId -> Nat]
  <2>1. p.rows[i] \in [CounterId -> Nat]
    BY <1>1
  <2>2. CASE i = row
    <3>1. rows[i] = [p.rows[i] EXCEPT ![c] = @ + 1]
      BY <1>1, <2>2
    <3> QED BY <2>1, <3>1
  <2>3. CASE i # row
    BY <1>1, <2>1, <2>3
  <2> QED BY <2>2, <2>3
<1> HIDE DEF rows
<1>5. rows \in Seq([CounterId -> Nat]) /\ Len(rows) = Len(p.rows)
  <2>1. rows = [i \in 1 .. Len(p.rows) |-> rows[i]]
    BY <1>2, <1>3 DEF rows
  <2>2. Len(p.rows) \in Nat
    BY <1>1
  <2> DEFINE Rows == [CounterId -> Nat]
  <2>3. \A i \in 1 .. Len(p.rows) : rows[i] \in Rows
    BY <1>4
  <2> HIDE DEF Rows
  <2>4. [i \in 1 .. Len(p.rows) |-> rows[i]] \in Seq(Rows)
    BY <2>2, <2>3
  <2>5. Len([i \in 1 .. Len(p.rows) |-> rows[i]]) = Len(p.rows)
    BY <2>2
  <2> QED BY <2>1, <2>4, <2>5 DEF Rows
<1> HIDE DEF bumped
<1> QED BY <1>1, <1>2, <1>5 DEF ProfileType, Covered, bumped

(* Counting a reference under a key keeps a profile's indices covered.     *)
LEMMA CountKeyMruOK ==
    ASSUME NEW p \in ProfileType, Covered(p), NEW key \in Nat,
           NEW access_type \in kAccessTypes,
           NEW is_hit \in BOOLEAN, NEW is_mru \in BOOLEAN
    PROVE  /\ CountKeyMru(p, key, access_type, is_hit, is_mru) \in ProfileType
           /\ Covered(CountKeyMru(p, key, access_type, is_hit, is_mru))
<1> DEFINE mapped == MapKey(p, key)
           row == RowOf(mapped, key)
           counted == CountRow(mapped, row, access_type, is_hit)
<1>1. mapped \in ProfileType /\ Covered(mapped) /\ IsMapped(mapped, key)
  BY MapKeyOK
<1> HIDE DEF mapped
<1>2. row \in Nat
  BY <1>1 DEF RowOf, IsMapped, ProfileType
<1> HIDE DEF row
<1>3. /\ MissHitId(access_type, is_hit) \in CounterId
      /\ MruId(access_type, is_mru) \in CounterId
  BY CounterIds
<1>4. counted \in ProfileType /\ Covered(counted)
  BY <1>1, <1>2, <1>3, BumpOK DEF CountRow
<1> HIDE DEF counted
<1>5. /\ Bump(counted, row, MruId(access_type, is_mru)) \in ProfileType
      /\ Covered(Bump(counted, row, MruId(access_type, is_mru)))
  BY <1>2, <1>3, <1>4, BumpOK
<1> QED BY <1>4, <1>5 DEF CountKeyMru, CountRowMru, mapped, row, counted

(* Counting a reference keeps the totals within UINT32.                    *)
LEMMA IncOK ==
    ASSUME NEW miss_hit \in (0 .. Uint32 - 1) \X (0 .. Uint32 - 1), NEW is_hit \in BOOLEAN
    PROVE  Inc(miss_hit, is_hit) \in (0 .. Uint32 - 1) \X (0 .. Uint32 - 1)
BY CounterAssumption DEF Inc, B2I

-----------------------------------------------------------------------------
(* Arithmetic.                                                             *)

(* Adding a multiple of the modulus leaves the remainder as it is.         *)
LEMMA SameRemainder ==
    ASSUME NEW y \in Int, NEW m \in Int, NEW u \in Nat \ {0}
    PROVE  (y + m * u) % u = y % u
<1> DEFINE x == y + m * u
           p == y \div u
           q == x \div u
           r == y % u
           t == x % u
<1>1. x \in Int /\ m * u \in Int
  OBVIOUS
<1>2. y = u * p + r /\ p \in Int /\ r \in 0 .. u - 1
  OBVIOUS
<1>3. x = u * q + t /\ q \in Int /\ t \in 0 .. u - 1
  <2> HIDE DEF x
  <2> QED BY <1>1
<1>4. x = y + m * u
  OBVIOUS
<1> HIDE DEF x, p, q, r, t
<1>5. t - r = u * (p + m - q) /\ p + m - q \in Int
  <2>1. u * (p + m - q) = u * p + m * u - u * q
    BY <1>1, <1>2, <1>3
  <2>2. u * p \in Int /\ u * q \in Int /\ r \in Int /\ t \in Int
    BY <1>2, <1>3
  <2> QED BY <1>1, <1>2, <1>3, <1>4, <2>1, <2>2
<1>6. p + m - q = 0
  <2> DEFINE d == p + m - q
  <2>1. d \in Int /\ t - r = u * d /\ t - r < u /\ t - r > -u
    BY <1>2, <1>3, <1>5
  <2> HIDE DEF d
  <2>2. ~(d >= 1)
    <3>1. d >= 1 => u * d >= u
      BY <2>1
    <3> QED BY <2>1, <3>1
  <2>3. ~(d <= -1)
    <3>1. d <= -1 => u * d <= -u
      BY <2>1
    <3> QED BY <2>1, <3>1
  <2>4. d = 0
    BY <2>1, <2>2, <2>3
  <2> QED BY <2>4 DEF d
<1>7. u * 0 = 0
  OBVIOUS
<1>8. t = r
  BY <1>2, <1>3, <1>5, <1>6, <1>7
<1> QED BY <1>8 DEF x, r, t

(* Counting modulo u is counting, and taking the remainder at the end.     *)
LEMMA CountModulo ==
    ASSUME NEW x \in Nat, NEW u \in Nat \ {0}
    PROVE  ((x % u) + 1) % u = (x + 1) % u
<1> DEFINE q == x \div u
           r == x % u
<1>1. x = u * q + r /\ q \in Int /\ r \in Int
  OBVIOUS
<1> HIDE DEF q, r
<1>2. u * q = q * u /\ q * u \in Int
  BY <1>1
<1>3. x + 1 = (r + 1) + q * u
  BY <1>1, <1>2
<1>4. ((r + 1) + q * u) % u = (r + 1) % u
  <2> DEFINE y == r + 1
  <2>1. y \in Int
    BY <1>1
  <2> HIDE DEF y
  <2>2. (y + q * u) % u = y % u
    BY <1>1, <2>1, SameRemainder
  <2> QED BY <2>2 DEF y
<1> QED BY <1>3, <1>4 DEF r

-----------------------------------------------------------------------------
(* Induction.                                                              *)

(* Every nonempty set of natural numbers has a least element.              *)
LEMMA LeastNatural ==
    ASSUME NEW S \in SUBSET Nat, S # {}
    PROVE  \E x \in S : \A y \in S : x <= y
<1> DEFINE R == OpToRel(<, Nat)
<1>1. IsWellFoundedOn(R, Nat)
  BY NatLessThanWellFounded
<1>2. PICK x \in S : \A y \in S : ~(<<y, x>> \in R)
  <2> HIDE DEF R
  <2> QED BY <1>1, WFMin
<1>3. \A y \in S : ~(y < x)
  BY <1>2 DEF OpToRel
<1> QED BY <1>3

(* A set with 0 and every successor of its members has every number.       *)
LEMMA NatSetInduction ==
    ASSUME NEW S \in SUBSET Nat, 0 \in S, \A n \in S : n + 1 \in S
    PROVE  S = Nat
<1>1. SUFFICES ASSUME Nat \ S # {} PROVE FALSE
  OBVIOUS
<1>2. PICK x \in Nat \ S : \A y \in Nat \ S : x <= y
  <2> DEFINE T == Nat \ S
  <2>1. T \in SUBSET Nat /\ T # {}
    BY <1>1
  <2> HIDE DEF T
  <2>2. \E x \in T : \A y \in T : x <= y
    BY <2>1, LeastNatural
  <2> QED BY <2>2 DEF T
<1>3. x # 0 /\ x - 1 \in Nat /\ ~(x <= x - 1) /\ (x - 1) + 1 = x
  BY <1>2
<1> QED BY <1>2, <1>3

-----------------------------------------------------------------------------
(* Sums over sets.                                                         *)

(* The sums of w over every subset of S, as MapThenSumSet takes them.      *)
Picked(T) == CHOOSE x \in T : TRUE

SumSteps(u, w, S) ==
    u = [T \in SUBSET S |-> IF T = {} THEN 0 ELSE w[Picked(T)] + u[T \ {Picked(T)}]]

(* The member that is taken from a set leaves a set with one less.         *)
LEMMA PickedIs ==
    ASSUME NEW S, IsFiniteSet(S), NEW T \in SUBSET S, T # {}
    PROVE  /\ Picked(T) \in T
           /\ T \ {Picked(T)} \in SUBSET S
           /\ Cardinality(T) \in Nat \ {0}
           /\ Cardinality(T \ {Picked(T)}) = Cardinality(T) - 1
<1>1. Picked(T) \in T
  BY DEF Picked
<1>2. IsFiniteSet(T)
  BY FS_Subset
<1>3. Cardinality(T) \in Nat /\ Cardinality(T) # 0
  BY <1>2, FS_CardinalityType, FS_EmptySet
<1>4. Cardinality(T \ {Picked(T)}) = Cardinality(T) - 1
  BY <1>1, <1>2, FS_RemoveElement
<1> QED BY <1>1, <1>3, <1>4

(* The recursion of a sum defines a function: by induction, there is one   *)
(* for the subsets of every size.                                          *)
LEMMA SumDefined ==
    ASSUME NEW S, IsFiniteSet(S), NEW w
    PROVE  \E u : SumSteps(u, w, S)
<1> DEFINE Value(u, T) == IF T = {} THEN 0 ELSE w[Picked(T)] + u[T \ {Picked(T)}]
           Upto(u, n) == /\ DOMAIN u = SUBSET S
                         /\ u = [T \in SUBSET S |-> u[T]]
                         /\ \A T \in SUBSET S : Cardinality(T) <= n => u[T] = Value(u, T)
           N == {n \in Nat : \E u : Upto(u, n)}
<1>1. \A T \in SUBSET S : Cardinality(T) \in Nat /\ (Cardinality(T) = 0 <=> T = {})
  BY FS_Subset, FS_CardinalityType, FS_EmptySet
<1>2. 0 \in N
  <2> DEFINE u == [T \in SUBSET S |-> 0]
  <2>1. \A T \in SUBSET S : Cardinality(T) <= 0 => u[T] = Value(u, T)
    BY <1>1
  <2>2. DOMAIN u = SUBSET S /\ u = [T \in SUBSET S |-> u[T]]
    OBVIOUS
  <2>3. Upto(u, 0)
    BY <2>1, <2>2
  <2> HIDE DEF u, Upto
  <2> QED BY <2>3
<1>3. ASSUME NEW n \in N PROVE n + 1 \in N
  <2>1. n \in Nat /\ n + 1 \in Nat
    OBVIOUS
  <2>2. PICK u : Upto(u, n)
    OBVIOUS
  <2> DEFINE v == [T \in SUBSET S |-> IF Cardinality(T) <= n THEN u[T] ELSE Value(u, T)]
  <2>3. ASSUME NEW T \in SUBSET S, Cardinality(T) <= n + 1 PROVE v[T] = Value(v, T)
    <3>1. CASE T = {}
      <4>1. Cardinality(T) <= n
        BY <1>1, <2>1, <3>1
      <4> QED BY <2>2, <3>1, <4>1
    <3>2. CASE T # {}
      <4> DEFINE R == T \ {Picked(T)}
      <4>1. R \in SUBSET S /\ Cardinality(R) = Cardinality(T) - 1 /\ Cardinality(T) \in Nat
        BY <3>2, PickedIs
      <4>2. Cardinality(R) <= n
        BY <2>1, <2>3, <4>1
      <4>3. v[R] = u[R]
        BY <4>1, <4>2
      <4>4. v[T] = Value(u, T)
        BY <2>2
      <4> QED BY <3>2, <4>3, <4>4
    <3> QED BY <3>1, <3>2
  <2>4. DOMAIN v = SUBSET S /\ v = [T \in SUBSET S |-> v[T]]
    OBVIOUS
  <2>5. Upto(v, n + 1)
    <3> HIDE DEF v
    <3> QED BY <2>3, <2>4
  <2> HIDE DEF v, Upto
  <2> QED BY <2>1, <2>5
<1>4. N = Nat
  <2>1. N \in SUBSET Nat
    OBVIOUS
  <2> HIDE DEF N
  <2> QED BY <1>2, <1>3, <2>1, NatSetInduction
<1>5. Cardinality(S) \in Nat
  BY FS_CardinalityType
<1>6. PICK u : Upto(u, Cardinality(S))
  <2> HIDE DEF Upto
  <2> QED BY <1>4, <1>5
<1>7. \A T \in SUBSET S : u[T] = Value(u, T)
  <2>1. \A T \in SUBSET S : Cardinality(T) <= Cardinality(S)
    BY FS_Subset
  <2> QED BY <1>6, <2>1
<1>8. u = [T \in SUBSET S |-> Value(u, T)]
  BY <1>6, <1>7
<1> QED BY <1>8 DEF SumSteps

(* Sums of functions that differ at one place differ as they do there.     *)
LEMMA SumChanges ==
    ASSUME NEW S, IsFiniteSet(S), NEW w \in [S -> Int], NEW z \in [S -> Int],
           NEW s \in S, \A q \in S \ {s} : z[q] = w[q],
           NEW u, SumSteps(u, w, S), NEW v, SumSteps(v, z, S)
    PROVE  u[S] \in Int /\ v[S] \in Int /\ v[S] = u[S] + (z[s] - w[s])
<1> DEFINE More(T) == IF s \in T THEN z[s] - w[s] ELSE 0
           Good(T) == u[T] \in Int /\ v[T] \in Int /\ v[T] = u[T] + More(T)
           N == {n \in Nat : \A T \in SUBSET S : Cardinality(T) = n => Good(T)}
<1>1. \A T \in SUBSET S : Cardinality(T) \in Nat /\ (Cardinality(T) = 0 <=> T = {})
  BY FS_Subset, FS_CardinalityType, FS_EmptySet
<1>2. /\ u[{}] = 0 /\ v[{}] = 0
      /\ \A T \in SUBSET S : T # {} =>
           /\ u[T] = w[Picked(T)] + u[T \ {Picked(T)}]
           /\ v[T] = z[Picked(T)] + v[T \ {Picked(T)}]
  BY DEF SumSteps
<1>3. 0 \in N
  <2>1. Good({})
    BY <1>2
  <2> HIDE DEF Good
  <2> QED BY <1>1, <2>1
<1>4. ASSUME NEW n \in N PROVE n + 1 \in N
  <2>1. n \in Nat /\ n + 1 \in Nat /\ \A T \in SUBSET S : Cardinality(T) = n => Good(T)
    OBVIOUS
  <2>2. SUFFICES ASSUME NEW T \in SUBSET S, Cardinality(T) = n + 1 PROVE Good(T)
    BY <2>1
  <2>3. T # {}
    BY <1>1, <2>1, <2>2
  <2> DEFINE x == Picked(T)
             R == T \ {x}
  <2>4. x \in T /\ R \in SUBSET S /\ Cardinality(R) = n
    BY <2>1, <2>2, <2>3, PickedIs
  <2>5. Good(R)
    BY <2>1, <2>4
  <2>6. u[T] = w[x] + u[R] /\ v[T] = z[x] + v[R]
    BY <1>2, <2>3
  <2>7. w[x] \in Int /\ z[x] \in Int /\ w[s] \in Int /\ z[s] \in Int
    BY <2>4
  <2>8. CASE x = s
    <3>1. More(T) = z[s] - w[s] /\ More(R) = 0
      BY <2>4, <2>8
    <3> HIDE DEF More, x, R
    <3> QED BY <2>5, <2>6, <2>7, <2>8, <3>1
  <2>9. CASE x # s
    <3>1. More(T) = More(R) /\ z[x] = w[x] /\ More(R) \in Int
      BY <2>4, <2>7, <2>9
    <3> HIDE DEF More, x, R
    <3> QED BY <2>5, <2>6, <2>7, <3>1
  <2> QED BY <2>8, <2>9
<1>5. N = Nat
  <2>1. N \in SUBSET Nat
    OBVIOUS
  <2> HIDE DEF N
  <2> QED BY <1>3, <1>4, <2>1, NatSetInduction
<1>6. Good(S)
  <2>1. Cardinality(S) \in Nat /\ S \in SUBSET S
    BY FS_CardinalityType
  <2> HIDE DEF Good
  <2> QED BY <1>5, <2>1
<1>7. More(S) = z[s] - w[s]
  OBVIOUS
<1> QED BY <1>6, <1>7

(* A sum of zeros is zero.                                                 *)
LEMMA SumOfZeros ==
    ASSUME NEW S, IsFiniteSet(S), NEW w, \A q \in S : w[q] = 0, NEW u, SumSteps(u, w, S)
    PROVE  u[S] = 0
<1> DEFINE N == {n \in Nat : \A T \in SUBSET S : Cardinality(T) = n => u[T] = 0}
<1>1. \A T \in SUBSET S : Cardinality(T) \in Nat /\ (Cardinality(T) = 0 <=> T = {})
  BY FS_Subset, FS_CardinalityType, FS_EmptySet
<1>2. /\ u[{}] = 0
      /\ \A T \in SUBSET S : T # {} => u[T] = w[Picked(T)] + u[T \ {Picked(T)}]
  BY DEF SumSteps
<1>3. 0 \in N
  BY <1>1, <1>2
<1>4. ASSUME NEW n \in N PROVE n + 1 \in N
  <2>1. n \in Nat /\ n + 1 \in Nat /\ \A T \in SUBSET S : Cardinality(T) = n => u[T] = 0
    OBVIOUS
  <2>2. SUFFICES ASSUME NEW T \in SUBSET S, Cardinality(T) = n + 1 PROVE u[T] = 0
    BY <2>1
  <2>3. T # {}
    BY <1>1, <2>1, <2>2
  <2> DEFINE R == T \ {Picked(T)}
  <2>4. Picked(T) \in T /\ R \in SUBSET S /\ Cardinality(R) = n
    BY <2>1, <2>2, <2>3, PickedIs
  <2>5. u[R] = 0 /\ w[Picked(T)] = 0
    BY <2>1, <2>4
  <2>6. u[T] = w[Picked(T)] + u[R]
    BY <1>2, <2>3
  <2> HIDE DEF R
  <2> QED BY <2>5, <2>6
<1>5. N = Nat
  <2>1. N \in SUBSET Nat
    OBVIOUS
  <2> HIDE DEF N
  <2> QED BY <1>3, <1>4, <2>1, NatSetInduction
<1>6. Cardinality(S) \in Nat /\ S \in SUBSET S
  BY FS_CardinalityType
<1> QED BY <1>5, <1>6

(* The recursion of a sum only asks for the members of its set: sums over  *)
(* a subset can be taken from the sums over the whole.                     *)
LEMMA SumOverSubset ==
    ASSUME NEW S, IsFiniteSet(S), NEW K \in SUBSET S, NEW w, NEW z,
           \A q \in K : z[q] = w[q],
           NEW u, SumSteps(u, w, S), NEW v, SumSteps(v, z, K)
    PROVE  v[K] = u[K]
<1> DEFINE N == {n \in Nat : \A T \in SUBSET K : Cardinality(T) = n => v[T] = u[T]}
<1>1. /\ IsFiniteSet(K)
      /\ \A T \in SUBSET K : Cardinality(T) \in Nat /\ (Cardinality(T) = 0 <=> T = {})
  BY FS_Subset, FS_CardinalityType, FS_EmptySet
<1>2. /\ u[{}] = 0 /\ v[{}] = 0
      /\ \A T \in SUBSET K : T # {} =>
           /\ u[T] = w[Picked(T)] + u[T \ {Picked(T)}]
           /\ v[T] = z[Picked(T)] + v[T \ {Picked(T)}]
  BY DEF SumSteps
<1>3. 0 \in N
  BY <1>1, <1>2
<1>4. ASSUME NEW n \in N PROVE n + 1 \in N
  <2>1. n \in Nat /\ n + 1 \in Nat /\ \A T \in SUBSET K : Cardinality(T) = n => v[T] = u[T]
    OBVIOUS
  <2>2. SUFFICES ASSUME NEW T \in SUBSET K, Cardinality(T) = n + 1 PROVE v[T] = u[T]
    BY <2>1
  <2>3. T # {}
    BY <1>1, <2>1, <2>2
  <2> DEFINE R == T \ {Picked(T)}
  <2>4. Picked(T) \in T /\ R \in SUBSET K /\ Cardinality(R) = n
    BY <1>1, <2>1, <2>2, <2>3, PickedIs
  <2>5. v[R] = u[R] /\ z[Picked(T)] = w[Picked(T)]
    BY <2>1, <2>4
  <2>6. u[T] = w[Picked(T)] + u[R] /\ v[T] = z[Picked(T)] + v[R]
    BY <1>2, <2>3
  <2> HIDE DEF R
  <2> QED BY <2>5, <2>6
<1>5. N = Nat
  <2>1. N \in SUBSET Nat
    OBVIOUS
  <2> HIDE DEF N
  <2> QED BY <1>3, <1>4, <2>1, NatSetInduction
<1>6. Cardinality(K) \in Nat /\ K \in SUBSET K
  BY <1>1
<1> QED BY <1>5, <1>6

(* The sum over a part of the set is that of all its members but one, plus *)
(* what that one adds: it does not matter in which order they are taken.   *)
Splits(u, w, S) ==
    \A T \in SUBSET S : u[T] \in Int /\ \A t \in T : u[T] = u[T \ {t}] + w[t]

(* The sums of numbers split.                                              *)
LEMMA SumsSplit ==
    ASSUME NEW S, IsFiniteSet(S), NEW w \in [S -> Int], NEW u, SumSteps(u, w, S)
    PROVE  Splits(u, w, S)
<1> DEFINE Good(T) == u[T] \in Int /\ \A t \in T : u[T] = u[T \ {t}] + w[t]
           N == {n \in Nat : \A T \in SUBSET S : Cardinality(T) <= n => Good(T)}
<1>1. \A T \in SUBSET S : /\ IsFiniteSet(T)
                          /\ Cardinality(T) \in Nat
                          /\ (Cardinality(T) = 0 <=> T = {})
  BY FS_Subset, FS_CardinalityType, FS_EmptySet
<1>2. /\ u[{}] = 0
      /\ \A T \in SUBSET S : T # {} => u[T] = w[Picked(T)] + u[T \ {Picked(T)}]
  BY DEF SumSteps
<1>3. 0 \in N
  <2>1. Good({})
    BY <1>2
  <2> HIDE DEF Good
  <2> QED BY <1>1, <2>1
<1>4. ASSUME NEW n \in N PROVE n + 1 \in N
  <2>1. n \in Nat /\ n + 1 \in Nat /\ \A T \in SUBSET S : Cardinality(T) <= n => Good(T)
    OBVIOUS
  <2>2. SUFFICES ASSUME NEW T \in SUBSET S, Cardinality(T) = n + 1 PROVE Good(T)
    <3>1. \A T \in SUBSET S : Cardinality(T) <= n + 1 => Cardinality(T) <= n \/ Cardinality(T) = n + 1
      BY <1>1, <2>1
    <3> HIDE DEF Good
    <3> QED BY <2>1, <2>2, <3>1
  <2>3. T # {}
    BY <1>1, <2>1, <2>2
  <2> DEFINE x == Picked(T)
             R == T \ {x}
  <2>4. x \in T /\ R \in SUBSET S /\ Cardinality(R) = n
    <3>1. x \in T /\ R \in SUBSET S /\ Cardinality(R) = Cardinality(T) - 1
      BY <2>3, PickedIs
    <3> QED BY <2>1, <2>2, <3>1
  <2>5. Good(R)
    <3>1. Cardinality(R) <= n
      BY <2>1, <2>4
    <3> HIDE DEF Good, x, R
    <3> QED BY <2>1, <2>4, <3>1
  <2>6. u[T] = w[x] + u[R]
    BY <1>2, <2>3
  <2>7. \A t \in T : w[t] \in Int
    OBVIOUS
  <2>8. u[T] \in Int
    <3> HIDE DEF x, R
    <3> QED BY <2>4, <2>5, <2>6, <2>7
  <2>9. ASSUME NEW t \in T PROVE u[T] = u[T \ {t}] + w[t]
    <3>1. CASE t = x
      <4>1. T \ {t} = R
        BY <3>1
      <4>2. u[R] \in Int /\ w[x] \in Int
        BY <2>4, <2>5, <2>7
      <4>3. u[T] = u[R] + w[x]
        <5> HIDE DEF x, R
        <5> QED BY <2>6, <4>2
      <4>4. w[t] = w[x] /\ u[T \ {t}] = u[R]
        BY <3>1
      <4> HIDE DEF x, R
      <4> QED BY <4>3, <4>4
    <3>2. CASE t # x
      <4> DEFINE Q == T \ {t}
      <4>1. Q \in SUBSET S /\ x \in Q /\ t \in R /\ Q \ {x} = R \ {t}
        BY <2>4, <3>2
      <4>2. Cardinality(Q) = n
        <5>1. Cardinality(Q) = Cardinality(T) - 1
          BY <1>1, FS_RemoveElement
        <5> QED BY <2>1, <2>2, <5>1
      <4>3. Good(Q)
        <5>1. Cardinality(Q) <= n
          BY <2>1, <4>2
        <5> HIDE DEF Good, Q
        <5> QED BY <2>1, <4>1, <5>1
      <4>4. u[Q] \in Int /\ u[Q] = u[Q \ {x}] + w[x] /\ u[R] = u[R \ {t}] + w[t]
        BY <2>5, <4>1, <4>3
      <4>5. u[R] \in Int /\ w[x] \in Int /\ w[t] \in Int
        BY <2>4, <2>5, <2>7
      <4>6. u[Q \ {x}] \in Int
        <5>1. Q \ {x} \in SUBSET S /\ Cardinality(Q \ {x}) <= n
          <6>1. Q \ {x} \in SUBSET S
            BY <4>1
          <6>2. IsFiniteSet(Q)
            BY <1>1, <4>1
          <6>3. Cardinality(Q \ {x}) = Cardinality(Q) - 1
            BY <4>1, <6>2, FS_RemoveElement
          <6> QED BY <2>1, <4>2, <6>1, <6>3
        <5> HIDE DEF x, Q
        <5> QED BY <2>1, <5>1
      <4> HIDE DEF x, R, Q
      <4>7. u[T] = w[x] + (u[Q \ {x}] + w[t]) /\ u[Q] = u[Q \ {x}] + w[x]
        BY <2>6, <4>1, <4>4
      <4>8. u[T] = u[Q] + w[t]
        BY <4>5, <4>6, <4>7
      <4> QED BY <4>8 DEF Q
    <3> QED BY <3>1, <3>2
  <2> QED BY <2>8, <2>9
<1>5. N = Nat
  <2>1. N \in SUBSET Nat
    OBVIOUS
  <2> HIDE DEF N
  <2> QED BY <1>3, <1>4, <2>1, NatSetInduction
<1>6. ASSUME NEW T \in SUBSET S PROVE Good(T)
  <2>1. Cardinality(T) \in Nat /\ Cardinality(T) <= Cardinality(T)
    BY <1>1
  <2> HIDE DEF Good
  <2> QED BY <1>5, <2>1
<1> HIDE DEF Good
<1>7. \A T \in SUBSET S : Good(T)
  BY <1>6
<1> QED BY <1>7 DEF Splits, Good

(* The same of the whole set.                                              *)
LEMMA SumSplits ==
    ASSUME NEW S, IsFiniteSet(S), NEW w \in [S -> Int], NEW u, SumSteps(u, w, S),
           NEW s \in S
    PROVE  u[S] \in Int /\ u[S \ {s}] \in Int /\ u[S] = u[S \ {s}] + w[s]
<1>1. Splits(u, w, S)
  BY SumsSplit
<1>2. S \in SUBSET S /\ S \ {s} \in SUBSET S
  OBVIOUS
<1> QED BY <1>1, <1>2 DEF Splits

(* The sum over a set is the sum over all of it but one, plus that one.    *)
LEMMA SumWithout ==
    ASSUME NEW S, IsFiniteSet(S), NEW w \in [S -> Int], NEW u, SumSteps(u, w, S),
           NEW s \in S, NEW z, \A q \in S \ {s} : z[q] = w[q],
           NEW v, SumSteps(v, z, S \ {s})
    PROVE  v[S \ {s}] \in Int /\ u[S] = v[S \ {s}] + w[s]
<1> DEFINE K == S \ {s}
<1>1. u[K] \in Int /\ u[S] = u[K] + w[s]
  BY SumSplits
<1>2. K \in SUBSET S /\ SumSteps(v, z, K) /\ \A q \in K : z[q] = w[q]
  OBVIOUS
<1> HIDE DEF K
<1>3. v[K] = u[K]
  BY <1>2, SumOverSubset
<1> QED BY <1>1, <1>3 DEF K

(* The sums over the sets are over finitely many.                          *)
LEMMA SetIndexFinite == IsFiniteSet(SetIndex)
<1>1. NumSets - 1 \in Int /\ 0 \in Int
  BY GeometryAssumption
<1>2. IsFiniteSet(0 .. NumSets - 1)
  BY <1>1, FS_Interval
<1> QED BY <1>2 DEF SetIndex

-----------------------------------------------------------------------------
(* Sums over the rows of a profile.                                        *)

(* The sums of a counter over the first rows, as ColumnSum takes them.     *)
RowSteps(u, p, counter) ==
    u = [n \in 0 .. Len(p.rows) |-> IF n = 0 THEN 0 ELSE u[n - 1] + p.rows[n][counter]]

(* The recursion of ColumnSum defines a function: by induction, there is   *)
(* one for every number of rows.                                           *)
LEMMA ColumnSumDefined ==
    ASSUME NEW p, Len(p.rows) \in Nat, NEW counter
    PROVE  \E u : RowSteps(u, p, counter) /\ ColumnSum(p, counter) = u[Len(p.rows)]
<1> DEFINE entry(m) == p.rows[m][counter]
           Upto(u, n) == u = [m \in 0 .. n |-> IF m = 0 THEN 0 ELSE u[m - 1] + entry(m)]
           S == {n \in Nat : \E u : Upto(u, n)}
<1>1. 0 \in S
  <2> DEFINE u == [m \in 0 .. 0 |-> 0]
  <2>1. u = [m \in 0 .. 0 |-> IF m = 0 THEN 0 ELSE u[m - 1] + entry(m)]
    OBVIOUS
  <2>2. Upto(u, 0)
    BY <2>1
  <2> HIDE DEF u, Upto
  <2> QED BY <2>2
<1>2. ASSUME NEW x \in S PROVE x + 1 \in S
  <2>1. x \in Nat /\ x + 1 \in Nat
    OBVIOUS
  <2>2. PICK u : Upto(u, x)
    OBVIOUS
  <2> HIDE DEF entry
  <2>3. /\ u[0] = 0
        /\ \A m \in 0 .. x : m # 0 => u[m] = u[m - 1] + entry(m)
    BY <2>1, <2>2
  <2> DEFINE v == [m \in 0 .. x + 1 |-> IF m <= x THEN u[m] ELSE u[m - 1] + entry(m)]
             w == [m \in 0 .. x + 1 |-> IF m = 0 THEN 0 ELSE v[m - 1] + entry(m)]
  <2>4. ASSUME NEW m \in 0 .. x + 1 PROVE v[m] = w[m]
    <3>1. CASE m = 0
      <4>1. m <= x
        BY <2>1, <3>1
      <4> QED BY <2>3, <3>1, <4>1
    <3>2. CASE m # 0
      <4>1. m - 1 \in 0 .. x + 1 /\ m - 1 <= x
        BY <2>1, <3>2
      <4>2. v[m - 1] = u[m - 1]
        BY <4>1
      <4>3. CASE m <= x
        <5>1. m \in 0 .. x
          BY <2>1, <4>3
        <5> QED BY <2>3, <3>2, <4>2, <4>3, <5>1
      <4>4. CASE ~(m <= x)
        BY <3>2, <4>2, <4>4
      <4> QED BY <4>3, <4>4
    <3> QED BY <3>1, <3>2
  <2>5. v = w
    <3>1. v = [m \in 0 .. x + 1 |-> v[m]] /\ w = [m \in 0 .. x + 1 |-> w[m]]
      OBVIOUS
    <3> HIDE DEF v, w
    <3> QED BY <2>4, <3>1
  <2>6. Upto(v, x + 1)
    BY <2>5
  <2> HIDE DEF v, Upto
  <2> QED BY <2>1, <2>6
<1>3. S = Nat
  <2>1. S \in SUBSET Nat
    OBVIOUS
  <2> HIDE DEF S
  <2> QED BY <1>1, <1>2, <2>1, NatSetInduction
<1>4. \E u : RowSteps(u, p, counter)
  BY <1>3 DEF RowSteps
<1> DEFINE all == CHOOSE u : RowSteps(u, p, counter)
<1>5. RowSteps(all, p, counter)
  BY <1>4
<1>6. ColumnSum(p, counter) = all[Len(p.rows)]
  BY DEF ColumnSum, RowSteps
<1> HIDE DEF all
<1> QED BY <1>5, <1>6

(* A sum over the first rows is the one before plus the next row.          *)
LEMMA RowStepsFacts ==
    ASSUME NEW p, Len(p.rows) \in Nat, NEW counter, NEW u, RowSteps(u, p, counter)
    PROVE  /\ u[0] = 0
           /\ \A n \in 1 .. Len(p.rows) : u[n] = u[n - 1] + p.rows[n][counter]
<1>1. u = [n \in 0 .. Len(p.rows) |-> IF n = 0 THEN 0 ELSE u[n - 1] + p.rows[n][counter]]
  BY DEF RowSteps
<1>2. 0 \in 0 .. Len(p.rows)
  OBVIOUS
<1>3. u[0] = 0
  BY <1>1, <1>2
<1>4. ASSUME NEW n \in 1 .. Len(p.rows) PROVE u[n] = u[n - 1] + p.rows[n][counter]
  <2>1. n \in 0 .. Len(p.rows) /\ n # 0
    OBVIOUS
  <2> QED BY <1>1, <2>1
<1> QED BY <1>3, <1>4

(* Profile q is p with new rows of zeros, and with more counted in one row. *)
HasRows(p) == p.rows \in Seq([CounterId -> Nat])

Grows(p, q, counter, row, more) ==
    /\ Len(p.rows) <= Len(q.rows)
    /\ \A n \in 1 .. Len(p.rows) :
         q.rows[n][counter] = p.rows[n][counter] + (IF n = row THEN more ELSE 0)
    /\ \A n \in Len(p.rows) + 1 .. Len(q.rows) : q.rows[n][counter] = 0

(* New rows of zeros add nothing to the sum of a counter, and one row that *)
(* counts more adds what it counts more.                                   *)
LEMMA ColumnSumGrows ==
    ASSUME NEW counter \in CounterId, NEW p, HasRows(p), NEW q, HasRows(q),
           NEW row \in 1 .. Len(p.rows), NEW more \in Nat, Grows(p, q, counter, row, more)
    PROVE  /\ ColumnSum(p, counter) \in Nat
           /\ ColumnSum(q, counter) = ColumnSum(p, counter) + more
<1> DEFINE l == Len(p.rows)
           k == Len(q.rows)
<1>1. l \in Nat /\ k \in Nat /\ l <= k /\ row \in 1 .. l
  BY DEF HasRows, Grows
<1>2. PICK u : RowSteps(u, p, counter) /\ ColumnSum(p, counter) = u[l]
  BY <1>1, ColumnSumDefined
<1>3. PICK v : RowSteps(v, q, counter) /\ ColumnSum(q, counter) = v[k]
  BY <1>1, ColumnSumDefined
<1> DEFINE old(n) == p.rows[n][counter]
           new(n) == q.rows[n][counter]
<1>4. /\ u[0] = 0 /\ v[0] = 0
      /\ \A n \in 1 .. l : u[n] = u[n - 1] + old(n)
      /\ \A n \in 1 .. k : v[n] = v[n - 1] + new(n)
  <2>1. /\ u[0] = 0
        /\ \A n \in 1 .. l : u[n] = u[n - 1] + p.rows[n][counter]
    BY <1>1, <1>2, RowStepsFacts
  <2>2. /\ v[0] = 0
        /\ \A n \in 1 .. k : v[n] = v[n - 1] + q.rows[n][counter]
    BY <1>1, <1>3, RowStepsFacts
  <2> QED BY <2>1, <2>2
<1>5. /\ \A n \in 1 .. l : old(n) \in Nat /\ new(n) = old(n) + (IF n = row THEN more ELSE 0)
      /\ \A n \in l + 1 .. k : new(n) = 0
  <2> DEFINE Rows == [CounterId -> Nat]
  <2>1. ASSUME NEW n \in 1 .. l PROVE p.rows[n] \in Rows
    <3>1. p.rows \in Seq(Rows)
      BY DEF HasRows
    <3> HIDE DEF Rows
    <3> QED BY <3>1
  <2>2. \A n \in 1 .. l : p.rows[n][counter] \in Nat
    BY <2>1
  <2> QED BY <2>2 DEF Grows
<1> HIDE DEF l, k, old, new
<1> DEFINE base(n) == IF n <= l THEN u[n] ELSE u[l]
           gain(n) == IF row <= n THEN more ELSE 0
           Good(n) == base(n) \in Nat /\ v[n] = base(n) + gain(n)
           S == {n \in Nat : n <= k => Good(n)}
<1>6. 0 \in S
  <2>1. base(0) = 0 /\ gain(0) = 0
    BY <1>1, <1>4
  <2>2. Good(0)
    <3> HIDE DEF base, gain
    <3> QED BY <1>4, <2>1
  <2> HIDE DEF Good
  <2> QED BY <2>2
<1>7. ASSUME NEW n \in S PROVE n + 1 \in S
  <2>1. n \in Nat /\ n + 1 \in Nat
    OBVIOUS
  <2>2. SUFFICES ASSUME n + 1 <= k PROVE Good(n + 1)
    BY <2>1
  <2>3. base(n) \in Nat /\ v[n] = base(n) + gain(n)
    BY <2>1, <2>2, <1>1
  <2>4. v[n + 1] = v[n] + new(n + 1)
    <3>1. n + 1 \in 1 .. k /\ (n + 1) - 1 = n
      BY <2>1, <2>2, <1>1
    <3> QED BY <1>4, <3>1
  <2>5. CASE n + 1 <= l
    <3>1. (n + 1) - 1 = n /\ n + 1 \in 1 .. l /\ n <= l
      BY <2>1, <2>5, <1>1
    <3>2. u[n + 1] = u[n] + old(n + 1) /\ old(n + 1) \in Nat
          /\ new(n + 1) = old(n + 1) + (IF n + 1 = row THEN more ELSE 0)
      BY <1>4, <1>5, <3>1
    <3>3. base(n) = u[n] /\ base(n + 1) = u[n + 1]
      BY <2>5, <3>1
    <3> DEFINE extra == IF n + 1 = row THEN more ELSE 0
    <3>4. gain(n + 1) = gain(n) + extra /\ gain(n) \in Nat /\ extra \in Nat
      BY <1>1, <2>1
    <3>5. u[n + 1] = u[n] + old(n + 1) /\ old(n + 1) \in Nat /\ new(n + 1) = old(n + 1) + extra
      BY <3>2
    <3> HIDE DEF base, gain, extra
    <3>6. base(n + 1) \in Nat
      BY <2>3, <3>3, <3>5
    <3>7. v[n + 1] = (u[n] + gain(n)) + (old(n + 1) + extra)
      BY <2>3, <2>4, <3>3, <3>5
    <3>8. v[n + 1] = (u[n] + old(n + 1)) + (gain(n) + extra)
      BY <2>3, <3>3, <3>4, <3>5, <3>7
    <3> QED BY <3>3, <3>4, <3>5, <3>6, <3>8
  <2>6. CASE ~(n + 1 <= l)
    <3>1. n + 1 \in l + 1 .. k /\ row <= n
      BY <1>1, <2>1, <2>2, <2>6
    <3>2. new(n + 1) = 0
      BY <1>5, <3>1
    <3>3. base(n + 1) = base(n)
      <4>1. l <= n /\ (n <= l => n = l)
        BY <1>1, <2>1, <2>6
      <4> QED BY <2>6, <4>1
    <3>4. gain(n + 1) = gain(n) /\ gain(n) \in Nat
      BY <1>1, <2>1, <3>1
    <3> HIDE DEF base, gain
    <3> QED BY <2>3, <2>4, <3>2, <3>3, <3>4
  <2> HIDE DEF base, gain
  <2> QED BY <2>5, <2>6
<1>8. S = Nat
  <2>1. S \in SUBSET Nat
    OBVIOUS
  <2> HIDE DEF S
  <2> QED BY <1>6, <1>7, <2>1, NatSetInduction
<1>9. Good(k) /\ base(k) = u[l] /\ gain(k) = more
  <2>1. k \in S /\ k <= k /\ row <= k /\ (k <= l => k = l)
    BY <1>1, <1>8
  <2>2. Good(k)
    <3> HIDE DEF Good
    <3> QED BY <2>1
  <2> QED BY <2>1, <2>2
<1> HIDE DEF base, gain
<1> QED BY <1>2, <1>3, <1>9

(* Every counter of a new profile sums up to zero.                         *)
LEMMA NewProfileSum ==
    ASSUME NEW counter \in CounterId
    PROVE  ColumnSum(NewProfile, counter) = 0
<1> DEFINE k == InitialRows
<1>1. k \in Nat /\ Len(NewProfile.rows) = k /\ \A n \in 1 .. k : NewProfile.rows[n][counter] = 0
  BY CounterAssumption DEF NewProfile, NewRow
<1>2. PICK u : RowSteps(u, NewProfile, counter) /\ ColumnSum(NewProfile, counter) = u[k]
  BY <1>1, ColumnSumDefined
<1>3. u[0] = 0 /\ \A n \in 1 .. k : u[n] = u[n - 1] + 0
  <2>1. /\ u[0] = 0
        /\ \A n \in 1 .. k : u[n] = u[n - 1] + NewProfile.rows[n][counter]
    BY <1>1, <1>2, RowStepsFacts
  <2> QED BY <1>1, <2>1
<1> HIDE DEF k
<1> DEFINE S == {n \in Nat : n <= k => u[n] = 0}
<1>4. 0 \in S
  BY <1>3
<1>5. ASSUME NEW n \in S PROVE n + 1 \in S
  <2>1. SUFFICES ASSUME n + 1 <= k PROVE u[n + 1] = 0
    OBVIOUS
  <2>2. n + 1 \in 1 .. k /\ (n + 1) - 1 = n /\ u[n] = 0
    BY <1>1, <2>1
  <2> QED BY <1>3, <2>2
<1>6. S = Nat
  <2>1. S \in SUBSET Nat
    OBVIOUS
  <2> HIDE DEF S
  <2> QED BY <1>4, <1>5, <2>1, NatSetInduction
<1> QED BY <1>1, <1>2, <1>6

(* Giving a key its index keeps the rows; those it may add are zeros.      *)
LEMMA MapKeyRows ==
    ASSUME NEW p \in ProfileType, Covered(p), NEW key \in Nat
    PROVE  LET mapped == MapKey(p, key)
           IN  /\ mapped.rows \in Seq([CounterId -> Nat])
               /\ Len(p.rows) \in Nat /\ Len(p.rows) <= Len(mapped.rows)
               /\ \A i \in 1 .. Len(p.rows) : mapped.rows[i] = p.rows[i]
               /\ \A i \in Len(p.rows) + 1 .. Len(mapped.rows) : mapped.rows[i] = NewRow
<1> DEFINE Rows == [CounterId -> Nat]
           l == Len(p.rows)
           fresh == [i \in DOMAIN p.rows |-> NewRow]
           grown == p.rows \o fresh
           mapped == MapKey(p, key)
<1>1. p.rows \in Seq(Rows) /\ l \in Nat /\ DOMAIN p.rows = 1 .. l
  BY DEF ProfileType, Covered
<1>2. mapped.rows = p.rows \/ mapped.rows = grown
  BY DEF MapKey
<1>3. mapped.rows \in Seq(Rows)
  BY MapKeyOK DEF ProfileType
<1>4. fresh \in Seq(Rows) /\ Len(fresh) = l /\ \A i \in 1 .. l : fresh[i] = NewRow
  <2>1. NewRow \in Rows
    BY DEF NewRow
  <2> HIDE DEF Rows
  <2> QED BY <1>1, <2>1
<1> HIDE DEF Rows, fresh
<1>5. /\ Len(grown) = l + l
      /\ \A i \in 1 .. l : grown[i] = p.rows[i]
      /\ \A i \in l + 1 .. l + l : grown[i] = NewRow
  <2>1. /\ Len(grown) = l + l
        /\ \A i \in 1 .. l + l : grown[i] = IF i <= l THEN p.rows[i] ELSE fresh[i - l]
    <3> DEFINE rows == p.rows
    <3>1. rows \in Seq(Rows) /\ fresh \in Seq(Rows) /\ Len(rows) = l /\ Len(fresh) = l
      BY <1>1, <1>4
    <3> HIDE DEF rows, l
    <3>2. /\ Len(rows \o fresh) = Len(rows) + Len(fresh)
          /\ \A i \in 1 .. Len(rows) + Len(fresh) :
               (rows \o fresh)[i] = IF i <= Len(rows) THEN rows[i] ELSE fresh[i - Len(rows)]
      BY <3>1
    <3> QED BY <3>1, <3>2 DEF rows
  <2>2. ASSUME NEW i \in l + 1 .. l + l PROVE i - l \in 1 .. l /\ ~(i <= l) /\ i \in 1 .. l + l
    BY <1>1
  <2>3. \A i \in 1 .. l : i <= l /\ i \in 1 .. l + l
    BY <1>1
  <2> HIDE DEF l, grown
  <2> QED BY <1>4, <2>1, <2>2, <2>3
<1> HIDE DEF mapped, grown
<1>6. CASE mapped.rows = p.rows
  BY <1>1, <1>3, <1>6 DEF mapped, Rows
<1>7. CASE mapped.rows = grown
  BY <1>1, <1>3, <1>5, <1>7 DEF mapped, Rows
<1> QED BY <1>2, <1>6, <1>7

(* Giving a key its index changes no sum: the rows that are added count    *)
(* nothing.                                                                *)
LEMMA MapKeySum ==
    ASSUME NEW p \in ProfileType, Covered(p), NEW key \in Nat, NEW counter \in CounterId
    PROVE  /\ ColumnSum(p, counter) \in Nat
           /\ ColumnSum(MapKey(p, key), counter) = ColumnSum(p, counter)
<1> DEFINE Rows == [CounterId -> Nat]
           l == Len(p.rows)
           mapped == MapKey(p, key)
<1>1. p.rows \in Seq(Rows) /\ l \in Nat /\ 1 \in 1 .. l
  BY DEF ProfileType, Covered
<1>2. /\ mapped.rows \in Seq(Rows) /\ l <= Len(mapped.rows)
      /\ \A i \in 1 .. l : mapped.rows[i] = p.rows[i]
      /\ \A i \in l + 1 .. Len(mapped.rows) : mapped.rows[i] = NewRow
  BY MapKeyRows
<1> HIDE DEF Rows, mapped
<1>3. /\ \A i \in 1 .. l : mapped.rows[i][counter]
                              = p.rows[i][counter] + (IF i = 1 THEN 0 ELSE 0)
      /\ \A i \in l + 1 .. Len(mapped.rows) : mapped.rows[i][counter] = 0
  <2>1. ASSUME NEW i \in 1 .. l PROVE p.rows[i][counter] \in Nat
    <3>1. p.rows[i] \in Rows
      BY <1>1
    <3> QED BY <3>1 DEF Rows
  <2>2. NewRow[counter] = 0
    BY DEF NewRow
  <2> QED BY <1>2, <2>1, <2>2
<1>4. ColumnSum(p, counter) \in Nat /\ ColumnSum(mapped, counter) = ColumnSum(p, counter) + 0
  <2>1. HasRows(p) /\ HasRows(mapped) /\ Grows(p, mapped, counter, 1, 0)
    BY <1>1, <1>2, <1>3 DEF HasRows, Grows, Rows
  <2> QED BY <1>1, <2>1, ColumnSumGrows
<1> QED BY <1>4 DEF mapped

(* Counting in a row adds one to one of its counters.                      *)
LEMMA BumpRows ==
    ASSUME NEW p \in ProfileType, Covered(p), NEW row \in 1 .. Len(p.rows), NEW c \in CounterId
    PROVE  /\ Bump(p, row, c).rows \in Seq([CounterId -> Nat])
           /\ Len(Bump(p, row, c).rows) = Len(p.rows) /\ Len(p.rows) \in Nat
           /\ \A i \in 1 .. Len(p.rows) : \A counter \in CounterId :
                /\ p.rows[i][counter] \in Nat
                /\ i = row /\ counter = c =>
                      Bump(p, row, c).rows[i][counter] = p.rows[i][counter] + 1
                /\ i # row \/ counter # c =>
                      Bump(p, row, c).rows[i][counter] = p.rows[i][counter]
<1> DEFINE Rows == [CounterId -> Nat]
           l == Len(p.rows)
           rows == [p.rows EXCEPT ![row][c] = @ + 1]
           bumped == Bump(p, row, c)
<1>1. p.rows \in Seq(Rows) /\ l \in Nat /\ row \in Nat /\ DOMAIN p.rows = 1 .. l
  BY DEF ProfileType
<1>2. bumped.rows = rows
  <2>1. bumped = [p EXCEPT !.rows = rows]
    BY DEF Bump
  <2> HIDE DEF rows, bumped
  <2> QED BY <2>1 DEF ProfileType
<1>3. bumped.rows \in Seq(Rows)
  BY <1>1, BumpOK DEF ProfileType
<1>4. ASSUME NEW i \in 1 .. l PROVE p.rows[i] \in Rows
  <2> HIDE DEF Rows
  <2> QED BY <1>1
<1>5. DOMAIN rows = 1 .. l
  BY <1>1
<1>6. ASSUME NEW i \in 1 .. l, NEW counter \in CounterId
      PROVE  /\ p.rows[i][counter] \in Nat
             /\ i = row /\ counter = c => rows[i][counter] = p.rows[i][counter] + 1
             /\ i # row \/ counter # c => rows[i][counter] = p.rows[i][counter]
  <2>1. p.rows[i] \in Rows /\ p.rows[i][counter] \in Nat
    BY <1>4
  <2>2. CASE i = row
    <3>1. rows[i] = [p.rows[i] EXCEPT ![c] = @ + 1]
      BY <1>1, <2>2
    <3> QED BY <2>1, <2>2, <3>1
  <2>3. CASE i # row
    <3>1. rows[i] = p.rows[i]
      BY <1>1, <2>3
    <3> QED BY <2>1, <2>3, <3>1
  <2> QED BY <2>2, <2>3
<1> HIDE DEF rows, bumped
<1>7. Len(bumped.rows) = l
  <2>1. DOMAIN bumped.rows = 1 .. Len(bumped.rows) /\ Len(bumped.rows) \in Nat
    BY <1>3
  <2> QED BY <1>1, <1>2, <1>5, <2>1
<1> QED BY <1>1, <1>2, <1>3, <1>6, <1>7 DEF bumped

(* Counting in a row adds one to the sum of its counter, and to no other.  *)
LEMMA BumpSum ==
    ASSUME NEW p \in ProfileType, Covered(p), NEW row \in 1 .. Len(p.rows),
           NEW c \in CounterId, NEW counter \in CounterId
    PROVE  /\ ColumnSum(p, counter) \in Nat
           /\ ColumnSum(Bump(p, row, c), counter)
                = ColumnSum(p, counter) + (IF counter = c THEN 1 ELSE 0)
           /\ Len(Bump(p, row, c).rows) = Len(p.rows)
<1> DEFINE Rows == [CounterId -> Nat]
           l == Len(p.rows)
           more == IF counter = c THEN 1 ELSE 0
           bumped == Bump(p, row, c)
<1>1. p.rows \in Seq(Rows)
  BY DEF ProfileType
<1>2. /\ bumped.rows \in Seq(Rows) /\ Len(bumped.rows) = l /\ l \in Nat
      /\ \A i \in 1 .. l : bumped.rows[i][counter]
                              = p.rows[i][counter] + (IF i = row THEN more ELSE 0)
  <2>1. bumped.rows \in Seq(Rows) /\ Len(bumped.rows) = l /\ l \in Nat
    BY BumpRows
  <2>2. ASSUME NEW i \in 1 .. l
        PROVE  /\ p.rows[i][counter] \in Nat
               /\ i = row /\ counter = c => bumped.rows[i][counter] = p.rows[i][counter] + 1
               /\ i # row \/ counter # c => bumped.rows[i][counter] = p.rows[i][counter]
    BY BumpRows
  <2> HIDE DEF bumped
  <2> QED BY <2>1, <2>2
<1>3. more \in Nat
  OBVIOUS
<1> HIDE DEF more, bumped, Rows
<1>4. \A i \in l + 1 .. Len(bumped.rows) : bumped.rows[i][counter] = 0
  BY <1>2
<1>5. /\ ColumnSum(p, counter) \in Nat
      /\ ColumnSum(bumped, counter) = ColumnSum(p, counter) + more
  <2>1. HasRows(p) /\ HasRows(bumped) /\ Grows(p, bumped, counter, row, more)
    BY <1>1, <1>2, <1>4 DEF HasRows, Grows, Rows
  <2> QED BY <1>3, <2>1, ColumnSumGrows
<1> QED BY <1>2, <1>5 DEF more, bumped

(* What a reference adds to the sum of a counter of a realistic cache.     *)
Gain(counter, access_type, is_hit, is_mru) ==
    (IF counter = MissHitId(access_type, is_hit) THEN 1 ELSE 0)
        + (IF is_hit /\ counter = MruId(access_type, is_mru) THEN 1 ELSE 0)

(* Whatever the key, a reference is counted once in the profile as a hit   *)
(* or a miss, and a hit once more by whether it was MRU.                   *)
LEMMA CountKeyMruSum ==
    ASSUME NEW p \in ProfileType, Covered(p), NEW key \in Nat,
           NEW access_type \in kAccessTypes,
           NEW is_hit \in BOOLEAN, NEW is_mru \in BOOLEAN, NEW counter \in CounterId
    PROVE  /\ ColumnSum(p, counter) \in Nat
           /\ ColumnSum(CountKeyMru(p, key, access_type, is_hit, is_mru), counter)
                = ColumnSum(p, counter) + Gain(counter, access_type, is_hit, is_mru)
<1> DEFINE mapped == MapKey(p, key)
           row == RowOf(mapped, key)
           m == MissHitId(access_type, is_hit)
           n == MruId(access_type, is_mru)
           counted == CountRow(mapped, row, access_type, is_hit)
<1>1. mapped \in ProfileType /\ Covered(mapped) /\ IsMapped(mapped, key)
  BY MapKeyOK
<1>2. ColumnSum(p, counter) \in Nat /\ ColumnSum(mapped, counter) = ColumnSum(p, counter)
  BY MapKeySum
<1> HIDE DEF mapped
<1>3. row \in 1 .. Len(mapped.rows)
  <2>1. row \in DOMAIN mapped.map
    BY <1>1 DEF RowOf, IsMapped
  <2>2. /\ DOMAIN mapped.map = 1 .. Len(mapped.map) /\ Len(mapped.map) \in Nat
        /\ Len(mapped.rows) \in Nat /\ Len(mapped.map) < Len(mapped.rows)
    BY <1>1 DEF ProfileType, Covered
  <2> HIDE DEF row
  <2> QED BY <2>1, <2>2
<1> HIDE DEF row
<1>4. m \in CounterId /\ n \in CounterId
  BY CounterIds
<1>5. counted = Bump(mapped, row, m)
  BY DEF CountRow
<1> HIDE DEF m, n, counted
<1>6. counted \in ProfileType /\ Covered(counted)
  BY <1>1, <1>3, <1>4, <1>5, BumpOK
<1>7. /\ ColumnSum(counted, counter)
            = ColumnSum(mapped, counter) + (IF counter = m THEN 1 ELSE 0)
      /\ row \in 1 .. Len(counted.rows)
  BY <1>1, <1>3, <1>4, <1>5, BumpSum
<1>8. ColumnSum(Bump(counted, row, n), counter)
        = ColumnSum(counted, counter) + (IF counter = n THEN 1 ELSE 0)
  BY <1>4, <1>6, <1>7, BumpSum
<1>9. CountKeyMru(p, key, access_type, is_hit, is_mru)
        = IF is_hit THEN Bump(counted, row, n) ELSE counted
  BY DEF CountKeyMru, CountRowMru, mapped, row, counted, n
<1>10. Gain(counter, access_type, is_hit, is_mru)
         = (IF counter = m THEN 1 ELSE 0) + (IF is_hit /\ counter = n THEN 1 ELSE 0)
  BY DEF Gain, m, n
<1>11. CASE is_hit
  BY <1>2, <1>7, <1>8, <1>9, <1>10, <1>11
<1>12. CASE ~is_hit
  BY <1>2, <1>7, <1>9, <1>10, <1>12
<1> QED BY <1>2, <1>11, <1>12

-----------------------------------------------------------------------------
(* The ledger of a profile: how often it has seen each row, whatever the   *)
(* outcome.  It is what the caches of a level must agree on.               *)

(* The keys of a profile when another one is used, and the index of that   *)
(* one among them.                                                         *)
KeysWith(map, key) ==
    IF \E i \in DOMAIN map : map[i] = key THEN map ELSE Append(map, key)

Place(map, key) ==
    CHOOSE i \in DOMAIN KeysWith(map, key) : KeysWith(map, key)[i] = key

(* The references of a type that row r has counted.                        *)
Seen(p, r, access_type) ==
    IF r \in DOMAIN p.rows
    THEN p.rows[r][MissHitId(access_type, FALSE)] + p.rows[r][MissHitId(access_type, TRUE)]
    ELSE 0

(* One more, if it is this row and this type.                              *)
Once(r, t, row, access_type) == IF r = row /\ t = access_type THEN 1 ELSE 0

(* The rows that belong to no key have counted nothing.                    *)
Unused(p) ==
    \A r \in Nat \ {0}, t \in kAccessTypes : r \notin DOMAIN p.map => Seen(p, r, t) = 0

(* Every hit has been counted once more, by whether it was MRU.            *)
HitsSplit(p) ==
    \A r \in DOMAIN p.rows, t \in kAccessTypes :
        p.rows[r][MissHitId(t, TRUE)] = p.rows[r][MruId(t, FALSE)] + p.rows[r][MruId(t, TRUE)]

(* The index of a key is one of a key, and the old keys keep theirs.       *)
LEMMA PlaceIsIndex ==
    ASSUME NEW map \in Seq(Nat), NEW key \in Nat
    PROVE  /\ KeysWith(map, key) \in Seq(Nat)
           /\ Len(map) \in Nat /\ Len(map) <= Len(KeysWith(map, key))
           /\ Place(map, key) \in 1 .. Len(KeysWith(map, key))
           /\ KeysWith(map, key)[Place(map, key)] = key
<1> DEFINE keys == KeysWith(map, key)
<1>1. keys \in Seq(Nat) /\ Len(map) \in Nat /\ Len(map) <= Len(keys)
  BY DEF KeysWith
<1>2. \E i \in DOMAIN keys : keys[i] = key
  <2>1. CASE \E i \in DOMAIN map : map[i] = key
    BY <2>1 DEF KeysWith
  <2>2. CASE ~(\E i \in DOMAIN map : map[i] = key)
    <3>1. keys = Append(map, key)
      BY <2>2 DEF KeysWith
    <3>2. Len(map) + 1 \in DOMAIN keys /\ keys[Len(map) + 1] = key
      BY <1>1, <3>1
    <3> QED BY <3>2
  <2> QED BY <2>1, <2>2
<1>3. Place(map, key) \in DOMAIN keys /\ keys[Place(map, key)] = key
  BY <1>2 DEF Place
<1> QED BY <1>1, <1>3

(* What a row has seen is a number.                                        *)
LEMMA SeenNat ==
    ASSUME NEW p \in ProfileType, NEW r, NEW t \in kAccessTypes
    PROVE  Seen(p, r, t) \in Nat
<1>1. CASE r \in DOMAIN p.rows
  <2>1. p.rows \in Seq([CounterId -> Nat])
    BY DEF ProfileType
  <2>2. p.rows[r] \in [CounterId -> Nat]
    BY <1>1, <2>1
  <2>3. MissHitId(t, FALSE) \in CounterId /\ MissHitId(t, TRUE) \in CounterId
    BY CounterIds
  <2> DEFINE a == p.rows[r][MissHitId(t, FALSE)]
             b == p.rows[r][MissHitId(t, TRUE)]
  <2>4. a \in Nat /\ b \in Nat
    BY <2>2, <2>3
  <2>5. Seen(p, r, t) = a + b
    BY <1>1 DEF Seen
  <2> HIDE DEF a, b
  <2> QED BY <2>4, <2>5
<1>2. CASE r \notin DOMAIN p.rows
  BY <1>2 DEF Seen
<1> QED BY <1>1, <1>2

(* Giving a key its index counts nothing.                                  *)
LEMMA MapKeySees ==
    ASSUME NEW p \in ProfileType, Covered(p), NEW key \in Nat
    PROVE  LET mapped == MapKey(p, key)
           IN  /\ mapped.map = KeysWith(p.map, key)
               /\ RowOf(mapped, key) = Place(p.map, key)
               /\ Place(p.map, key) \in 1 .. Len(mapped.map)
               /\ Place(p.map, key) \in 1 .. Len(mapped.rows)
               /\ Len(p.map) <= Len(mapped.map)
               /\ \A r, t : t \in kAccessTypes => Seen(mapped, r, t) = Seen(p, r, t)
               /\ HitsSplit(p) => HitsSplit(mapped)
<1> DEFINE mapped == MapKey(p, key)
           l == Len(p.rows)
<1>1. mapped \in ProfileType /\ Covered(mapped)
  BY MapKeyOK
<1>2. mapped.map = KeysWith(p.map, key)
  BY DEF MapKey, KeysWith, IsMapped
<1>3. RowOf(mapped, key) = Place(p.map, key)
  <2> HIDE DEF mapped
  <2> QED BY <1>2 DEF RowOf, Place
<1>4. /\ mapped.rows \in Seq([CounterId -> Nat]) /\ l \in Nat /\ l <= Len(mapped.rows)
      /\ \A i \in 1 .. l : mapped.rows[i] = p.rows[i]
      /\ \A i \in l + 1 .. Len(mapped.rows) : mapped.rows[i] = NewRow
  BY MapKeyRows
<1>5. DOMAIN p.rows = 1 .. l /\ p.map \in Seq(Nat)
  BY DEF ProfileType
<1> HIDE DEF mapped, l
<1>6. /\ Len(p.map) <= Len(mapped.map)
      /\ Place(p.map, key) \in 1 .. Len(mapped.map)
      /\ Place(p.map, key) \in 1 .. Len(mapped.rows)
  <2>1. /\ Len(p.map) <= Len(mapped.map)
        /\ Place(p.map, key) \in 1 .. Len(mapped.map)
    BY <1>2, <1>5, PlaceIsIndex
  <2>2. Len(mapped.map) < Len(mapped.rows) /\ Len(mapped.map) \in Nat /\ Len(mapped.rows) \in Nat
    BY <1>1 DEF Covered, ProfileType
  <2> QED BY <2>1, <2>2
<1>7. DOMAIN mapped.rows = 1 .. Len(mapped.rows) /\ Len(mapped.rows) \in Nat
  BY <1>4
<1>8. \A t \in kAccessTypes :
         /\ MissHitId(t, FALSE) \in CounterId /\ MissHitId(t, TRUE) \in CounterId
         /\ MruId(t, FALSE) \in CounterId /\ MruId(t, TRUE) \in CounterId
  BY CounterIds
<1>9. \A c \in CounterId : NewRow[c] = 0
  BY DEF NewRow
<1>10. ASSUME NEW r \in DOMAIN mapped.rows, r \notin DOMAIN p.rows PROVE mapped.rows[r] = NewRow
  <2>1. r \in l + 1 .. Len(mapped.rows)
    BY <1>4, <1>5, <1>7, <1>10
  <2> QED BY <1>4, <2>1
<1>11. \A r \in DOMAIN p.rows : r \in DOMAIN mapped.rows /\ mapped.rows[r] = p.rows[r]
  BY <1>4, <1>5, <1>7
<1>12. ASSUME NEW r, NEW t \in kAccessTypes PROVE Seen(mapped, r, t) = Seen(p, r, t)
  <2>1. CASE r \in DOMAIN p.rows
    BY <1>11, <2>1 DEF Seen
  <2>2. CASE r \notin DOMAIN p.rows /\ r \in DOMAIN mapped.rows
    <3>1. /\ mapped.rows[r][MissHitId(t, FALSE)] = 0
          /\ mapped.rows[r][MissHitId(t, TRUE)] = 0
      BY <1>8, <1>9, <1>10, <2>2
    <3>2. Seen(mapped, r, t) = 0 + 0 /\ Seen(p, r, t) = 0
      BY <2>2, <3>1 DEF Seen
    <3> QED BY <3>2
  <2>3. CASE r \notin DOMAIN p.rows /\ r \notin DOMAIN mapped.rows
    BY <2>3 DEF Seen
  <2> QED BY <2>1, <2>2, <2>3
<1>13. ASSUME HitsSplit(p) PROVE HitsSplit(mapped)
  <2>1. SUFFICES ASSUME NEW r \in DOMAIN mapped.rows, NEW t \in kAccessTypes
                 PROVE  mapped.rows[r][MissHitId(t, TRUE)]
                          = mapped.rows[r][MruId(t, FALSE)] + mapped.rows[r][MruId(t, TRUE)]
    BY DEF HitsSplit
  <2>2. CASE r \in DOMAIN p.rows
    BY <1>11, <1>13, <2>2 DEF HitsSplit
  <2>3. CASE r \notin DOMAIN p.rows
    <3>1. /\ mapped.rows[r][MissHitId(t, TRUE)] = 0
          /\ mapped.rows[r][MruId(t, FALSE)] = 0 /\ mapped.rows[r][MruId(t, TRUE)] = 0
      BY <1>8, <1>9, <1>10, <2>3
    <3>2. 0 = 0 + 0
      OBVIOUS
    <3> QED BY <3>1, <3>2
  <2> QED BY <2>2, <2>3
<1> QED BY <1>2, <1>3, <1>6, <1>12, <1>13 DEF mapped

(* What counting a reference of a realistic cache adds to its row.         *)
LEMMA CountRowMruRows ==
    ASSUME NEW p \in ProfileType, Covered(p), NEW row \in 1 .. Len(p.rows),
           NEW access_type \in kAccessTypes, NEW is_hit \in BOOLEAN, NEW is_mru \in BOOLEAN
    PROVE  LET q == CountRowMru(p, row, access_type, is_hit, is_mru)
           IN  /\ q.map = p.map
               /\ DOMAIN q.rows = DOMAIN p.rows
               /\ \A r \in DOMAIN p.rows, counter \in CounterId :
                    /\ p.rows[r][counter] \in Nat
                    /\ r = row => q.rows[r][counter] = p.rows[r][counter]
                                     + Gain(counter, access_type, is_hit, is_mru)
                    /\ r # row => q.rows[r][counter] = p.rows[r][counter]
<1> DEFINE m == MissHitId(access_type, is_hit)
           n == MruId(access_type, is_mru)
           counted == Bump(p, row, m)
           again == Bump(counted, row, n)
           q == CountRowMru(p, row, access_type, is_hit, is_mru)
<1>1. m \in CounterId /\ n \in CounterId
  BY CounterIds
<1>2. q = IF is_hit THEN again ELSE counted
  BY DEF CountRowMru, CountRow
<1>3. \A counter : Gain(counter, access_type, is_hit, is_mru)
        = (IF counter = m THEN 1 ELSE 0) + (IF is_hit /\ counter = n THEN 1 ELSE 0)
  BY DEF Gain
<1> HIDE DEF m, n, q
<1>4. counted \in ProfileType /\ Covered(counted) /\ counted.map = p.map
  BY <1>1, BumpOK
<1>5. Len(counted.rows) = Len(p.rows) /\ Len(p.rows) \in Nat
  BY <1>1, BumpRows
<1>6. ASSUME NEW i \in 1 .. Len(p.rows), NEW counter \in CounterId
      PROVE  /\ p.rows[i][counter] \in Nat
             /\ i = row /\ counter = m => counted.rows[i][counter] = p.rows[i][counter] + 1
             /\ i # row \/ counter # m => counted.rows[i][counter] = p.rows[i][counter]
  BY <1>1, BumpRows
<1> HIDE DEF counted
<1>7. /\ again.map = counted.map /\ again \in ProfileType
      /\ Len(again.rows) = Len(counted.rows)
  <2>1. row \in Nat /\ row \in 1 .. Len(counted.rows)
    BY <1>5
  <2>2. again.map = counted.map /\ again \in ProfileType
    BY <1>1, <1>4, <2>1, BumpOK
  <2>3. Len(again.rows) = Len(counted.rows)
    BY <1>1, <1>4, <2>1, BumpRows
  <2> QED BY <2>2, <2>3
<1>8. ASSUME NEW i \in 1 .. Len(counted.rows), NEW counter \in CounterId
      PROVE  /\ i = row /\ counter = n => again.rows[i][counter] = counted.rows[i][counter] + 1
             /\ i # row \/ counter # n => again.rows[i][counter] = counted.rows[i][counter]
  <2>1. row \in 1 .. Len(counted.rows)
    BY <1>5
  <2> QED BY <1>1, <1>4, <2>1, BumpRows
<1> HIDE DEF again
<1>9. /\ DOMAIN p.rows = 1 .. Len(p.rows) /\ DOMAIN counted.rows = 1 .. Len(p.rows)
      /\ DOMAIN again.rows = 1 .. Len(p.rows)
  BY <1>4, <1>5, <1>7 DEF ProfileType
<1>10. q.map = p.map /\ DOMAIN q.rows = DOMAIN p.rows
  BY <1>2, <1>4, <1>7, <1>9
<1>11. ASSUME NEW r \in DOMAIN p.rows, NEW counter \in CounterId
       PROVE  /\ p.rows[r][counter] \in Nat
              /\ r = row => q.rows[r][counter] = p.rows[r][counter]
                               + Gain(counter, access_type, is_hit, is_mru)
              /\ r # row => q.rows[r][counter] = p.rows[r][counter]
  <2> DEFINE was == p.rows[r][counter]
             once == counted.rows[r][counter]
             twice == again.rows[r][counter]
  <2>1. /\ was \in Nat
        /\ r = row /\ counter = m => once = was + 1
        /\ r # row \/ counter # m => once = was
    BY <1>6, <1>9
  <2>2. /\ r = row /\ counter = n => twice = once + 1
        /\ r # row \/ counter # n => twice = once
    BY <1>5, <1>8, <1>9
  <2>3. q.rows[r][counter] = IF is_hit THEN twice ELSE once
    BY <1>2
  <2> HIDE DEF was, once, twice
  <2>4. r = row => q.rows[r][counter] = was + Gain(counter, access_type, is_hit, is_mru)
    BY <1>3, <2>1, <2>2, <2>3
  <2>5. r # row => q.rows[r][counter] = was
    BY <2>1, <2>2, <2>3
  <2> QED BY <2>1, <2>4, <2>5 DEF was
<1> QED BY <1>10, <1>11 DEF q

(* A reference of a realistic or infinite cache is seen once, in the row   *)
(* of its key, under its type.                                             *)
LEMMA CountKeyMruSees ==
    ASSUME NEW p \in ProfileType, Covered(p), NEW key \in Nat,
           NEW access_type \in kAccessTypes, NEW is_hit \in BOOLEAN, NEW is_mru \in BOOLEAN
    PROVE  LET q == CountKeyMru(p, key, access_type, is_hit, is_mru)
           IN  /\ q.map = KeysWith(p.map, key)
               /\ \A r, t : t \in kAccessTypes =>
                    Seen(q, r, t) = Seen(p, r, t) + Once(r, t, Place(p.map, key), access_type)
               /\ HitsSplit(p) => HitsSplit(q)
               /\ Unused(p) => Unused(q)
<1> DEFINE mapped == MapKey(p, key)
           row == Place(p.map, key)
           q == CountKeyMru(p, key, access_type, is_hit, is_mru)
           gain(counter) == Gain(counter, access_type, is_hit, is_mru)
<1>1. mapped \in ProfileType /\ Covered(mapped)
  BY MapKeyOK
<1>2. /\ mapped.map = KeysWith(p.map, key) /\ RowOf(mapped, key) = row
      /\ row \in 1 .. Len(mapped.map) /\ row \in 1 .. Len(mapped.rows)
      /\ Len(p.map) <= Len(mapped.map)
      /\ \A r, t : t \in kAccessTypes => Seen(mapped, r, t) = Seen(p, r, t)
      /\ HitsSplit(p) => HitsSplit(mapped)
  BY MapKeySees
<1>3. q = CountRowMru(mapped, row, access_type, is_hit, is_mru)
  BY <1>2 DEF CountKeyMru
<1> HIDE DEF mapped, row, q
<1>4. /\ q.map = mapped.map /\ DOMAIN q.rows = DOMAIN mapped.rows
      /\ \A r \in DOMAIN mapped.rows, counter \in CounterId :
            /\ mapped.rows[r][counter] \in Nat
            /\ r = row => q.rows[r][counter] = mapped.rows[r][counter] + gain(counter)
            /\ r # row => q.rows[r][counter] = mapped.rows[r][counter]
  BY <1>1, <1>2, <1>3, CountRowMruRows
<1>5. \A t \in kAccessTypes :
         /\ MissHitId(t, FALSE) \in CounterId /\ MissHitId(t, TRUE) \in CounterId
         /\ MruId(t, FALSE) \in CounterId /\ MruId(t, TRUE) \in CounterId
  BY CounterIds
<1>6. ASSUME NEW t \in kAccessTypes
      PROVE  /\ \A c : gain(c) \in Nat
             /\ gain(MissHitId(t, FALSE)) + gain(MissHitId(t, TRUE))
                  = (IF t = access_type THEN 1 ELSE 0)
             /\ gain(MissHitId(t, TRUE)) = gain(MruId(t, FALSE)) + gain(MruId(t, TRUE))
  BY DEF gain, Gain, MissHitId, MruId, B2I, kAccessTypes, kLoad, kStore
<1> HIDE DEF gain
<1>7. row \in DOMAIN mapped.rows
  BY <1>1, <1>2 DEF ProfileType
<1>8. ASSUME NEW r, NEW t \in kAccessTypes
      PROVE  Seen(q, r, t) = Seen(p, r, t) + Once(r, t, row, access_type)
  <2>1. CASE r \in DOMAIN mapped.rows
    <3> DEFINE a == mapped.rows[r][MissHitId(t, FALSE)]
               b == mapped.rows[r][MissHitId(t, TRUE)]
               x == q.rows[r][MissHitId(t, FALSE)]
               y == q.rows[r][MissHitId(t, TRUE)]
    <3>1. /\ a \in Nat /\ b \in Nat
          /\ r = row => x = a + gain(MissHitId(t, FALSE)) /\ y = b + gain(MissHitId(t, TRUE))
          /\ r # row => x = a /\ y = b
      BY <1>4, <1>5, <2>1
    <3>2. Seen(mapped, r, t) = a + b /\ Seen(q, r, t) = x + y
      BY <1>4, <2>1 DEF Seen
    <3> DEFINE g == gain(MissHitId(t, FALSE))
               h == gain(MissHitId(t, TRUE))
    <3>3. /\ g \in Nat /\ h \in Nat
          /\ t = access_type => g + h = 1
          /\ t # access_type => g + h = 0
      BY <1>6
    <3>4. r = row => x = a + g /\ y = b + h
      BY <3>1
    <3> HIDE DEF a, b, g, h, x, y
    <3>5. x + y = a + b + Once(r, t, row, access_type)
      <4> DEFINE o == Once(r, t, row, access_type)
      <4>1. /\ r = row /\ t = access_type => o = 1
            /\ r # row \/ t # access_type => o = 0
        BY DEF Once
      <4> HIDE DEF o
      <4>2. x + y = a + b + o
        BY <3>1, <3>3, <3>4, <4>1
      <4> QED BY <4>2 DEF o
    <3> QED BY <1>2, <3>2, <3>5
  <2>2. CASE r \notin DOMAIN mapped.rows
    <3>1. Seen(mapped, r, t) = 0 /\ Seen(q, r, t) = 0 /\ r # row
      BY <1>4, <1>7, <2>2 DEF Seen
    <3> QED BY <1>2, <3>1 DEF Once
  <2> QED BY <2>1, <2>2
<1>9. ASSUME HitsSplit(p) PROVE HitsSplit(q)
  <2>1. SUFFICES ASSUME NEW r \in DOMAIN q.rows, NEW t \in kAccessTypes
                 PROVE  q.rows[r][MissHitId(t, TRUE)]
                          = q.rows[r][MruId(t, FALSE)] + q.rows[r][MruId(t, TRUE)]
    BY DEF HitsSplit
  <2> DEFINE h == MissHitId(t, TRUE)
             a == MruId(t, FALSE)
             b == MruId(t, TRUE)
             was(c) == mapped.rows[r][c]
             is(c) == q.rows[r][c]
  <2>2. h \in CounterId /\ a \in CounterId /\ b \in CounterId
    BY <1>5
  <2>3. was(h) = was(a) + was(b)
    BY <1>2, <1>4, <1>9 DEF HitsSplit
  <2>4. /\ was(h) \in Nat /\ was(a) \in Nat /\ was(b) \in Nat
        /\ r = row => /\ is(h) = was(h) + gain(h)
                      /\ is(a) = was(a) + gain(a) /\ is(b) = was(b) + gain(b)
        /\ r # row => is(h) = was(h) /\ is(a) = was(a) /\ is(b) = was(b)
    BY <1>4, <2>2
  <2>5. gain(h) = gain(a) + gain(b) /\ gain(a) \in Nat /\ gain(b) \in Nat
    BY <1>6, <2>2
  <2> HIDE DEF h, a, b, was, is
  <2>6. is(h) = is(a) + is(b)
    BY <2>3, <2>4, <2>5
  <2> QED BY <2>6 DEF is, h, a, b
<1>10. ASSUME Unused(p) PROVE Unused(q)
  <2>1. SUFFICES ASSUME NEW r \in Nat \ {0}, NEW t \in kAccessTypes, r \notin DOMAIN q.map
                 PROVE  Seen(q, r, t) = 0
    BY DEF Unused
  <2>2. /\ DOMAIN q.map = 1 .. Len(mapped.map) /\ DOMAIN p.map = 1 .. Len(p.map)
        /\ Len(mapped.map) \in Nat /\ Len(p.map) \in Nat
    BY <1>1, <1>4 DEF ProfileType
  <2>3. r \notin DOMAIN p.map /\ r # row
    BY <1>2, <2>1, <2>2
  <2>4. Seen(p, r, t) = 0
    BY <1>10, <2>3 DEF Unused
  <2> QED BY <1>8, <2>3, <2>4 DEF Once
<1> QED BY <1>2, <1>4, <1>8, <1>9, <1>10 DEF q, row

-----------------------------------------------------------------------------
(* What the caches of a level have in common.  A view of a cache is how    *)
(* many references it has had, the keys of its profiles, and how often it  *)
(* has seen each row of the instruction and time profiles, hit or miss.    *)
SeenRows(p) == [r \in Nat \ {0} |-> [t \in kAccessTypes |-> Seen(p, r, t)]]

PlainView(c) ==
    [ref_id |-> c.ref_id_, inst |-> c.of_inst_.map, addr |-> c.of_addr_.map,
     time |-> c.of_time_.map,
     by_inst |-> SeenRows(c.of_inst_), by_time |-> SeenRows(c.of_time_)]

EmptyView ==
    [ref_id |-> 0, inst |-> << >>, addr |-> << >>, time |-> << >>,
     by_inst |-> [r \in Nat \ {0} |-> [t \in kAccessTypes |-> 0]],
     by_time |-> [r \in Nat \ {0} |-> [t \in kAccessTypes |-> 0]]]

(* A reference changes the view in the same way whatever the cache.        *)
SeenOnce(seen, row, access_type) ==
    [r \in Nat \ {0} |-> [t \in kAccessTypes |-> seen[r][t] + Once(r, t, row, access_type)]]

Noted(view, inst, addr, access_type, is_fetch) ==
    [ref_id |-> view.ref_id + 1,
     inst   |-> KeysWith(view.inst, inst),
     addr   |-> IF is_fetch THEN view.addr ELSE KeysWith(view.addr, addr),
     time   |-> KeysWith(view.time, Epoch(view.ref_id)),
     by_inst |-> SeenOnce(view.by_inst, Place(view.inst, inst), access_type),
     by_time |-> SeenOnce(view.by_time, Place(view.time, Epoch(view.ref_id)), access_type)]

(* What one reference does to a cache that counts it at once.              *)
PlainStep(c, d, inst, addr, access_type, is_fetch, is_hit, is_mru) ==
    /\ d.ref_id_ = c.ref_id_ + 1
    /\ d.miss_hit_ = Inc(c.miss_hit_, is_hit)
    /\ d.of_inst_ = CountKeyMru(c.of_inst_, inst, access_type, is_hit, is_mru)
    /\ d.of_addr_ = IF is_fetch THEN c.of_addr_
                    ELSE CountKeyMru(c.of_addr_, addr, access_type, is_hit, is_mru)
    /\ d.of_time_ = CountKeyMru(c.of_time_, Epoch(c.ref_id_), access_type, is_hit, is_mru)

(* The misses, and all references, that the rows of a profile add up to.   *)
MissSum(p) == ColumnSum(p, 0) + ColumnSum(p, 2)
SeenSum(p) == ColumnSum(p, 0) + ColumnSum(p, 1) + ColumnSum(p, 2) + ColumnSum(p, 3)

(* A profile has counted n references, all in the rows of its keys.        *)
Tallied(p, misses, n) ==
    /\ p \in ProfileType /\ Covered(p)
    /\ SeenSum(p) = n
    /\ MissSum(p) % Uint32 = misses
    /\ HitsSplit(p) /\ Unused(p)

PlainInv(c) ==
    /\ c.ref_id_ \in Nat
    /\ c.miss_hit_ \in (0 .. Uint32 - 1) \X (0 .. Uint32 - 1)
    /\ c.of_addr_ \in ProfileType /\ Covered(c.of_addr_)
    /\ Tallied(c.of_inst_, c.miss_hit_[1], c.ref_id_)
    /\ Tallied(c.of_time_, c.miss_hit_[1], c.ref_id_)

(* The misses of the rows and those of the cache are counted together.     *)
LEMMA MissesCounted ==
    ASSUME NEW miss_hit \in (0 .. Uint32 - 1) \X (0 .. Uint32 - 1), NEW is_hit \in BOOLEAN,
           NEW m \in Nat, NEW n, m % Uint32 = miss_hit[1],
           is_hit => n = m, ~is_hit => n = m + 1
    PROVE  n % Uint32 = Inc(miss_hit, is_hit)[1]
<1>1. ((m % Uint32) + 1) % Uint32 = (m + 1) % Uint32
  BY CountModulo, CounterAssumption
<1>2. /\ is_hit => Inc(miss_hit, is_hit)[1] = miss_hit[1]
      /\ ~is_hit => Inc(miss_hit, is_hit)[1] = (miss_hit[1] + 1) % Uint32
  BY DEF Inc, B2I
<1>3. CASE is_hit
  BY <1>2, <1>3
<1>4. CASE ~is_hit
  BY <1>1, <1>2, <1>4
<1> QED BY <1>3, <1>4

(* The sums of a profile are numbers, and no more were missed than seen.   *)
LEMMA SumsAreNumbers ==
    ASSUME NEW p \in ProfileType, Covered(p)
    PROVE  MissSum(p) \in Nat /\ SeenSum(p) \in Nat /\ MissSum(p) <= SeenSum(p)
<1>1. /\ ColumnSum(p, 0) \in Nat /\ ColumnSum(p, 1) \in Nat
      /\ ColumnSum(p, 2) \in Nat /\ ColumnSum(p, 3) \in Nat
  <2>1. /\ 0 \in CounterId /\ 1 \in CounterId /\ 2 \in CounterId /\ 3 \in CounterId
        /\ 0 \in Nat
    BY DEF CounterId
  <2>2. \A c \in CounterId : ColumnSum(p, c) \in Nat
    BY <2>1, MapKeySum
  <2> QED BY <2>1, <2>2
<1> QED BY <1>1 DEF MissSum, SeenSum

(* Counting a reference counts it once among those seen, and once among    *)
(* the misses if it is one.                                                *)
LEMMA CountKeyMruTallies ==
    ASSUME NEW p, NEW miss_hit \in (0 .. Uint32 - 1) \X (0 .. Uint32 - 1), NEW n \in Nat,
           Tallied(p, miss_hit[1], n), NEW key \in Nat, NEW access_type \in kAccessTypes,
           NEW is_hit \in BOOLEAN, NEW is_mru \in BOOLEAN
    PROVE  LET q == CountKeyMru(p, key, access_type, is_hit, is_mru)
           IN  /\ Tallied(q, Inc(miss_hit, is_hit)[1], n + 1)
               /\ q.map = KeysWith(p.map, key)
               /\ SeenRows(q) = SeenOnce(SeenRows(p), Place(p.map, key), access_type)
<1> DEFINE q == CountKeyMru(p, key, access_type, is_hit, is_mru)
           gain(counter) == Gain(counter, access_type, is_hit, is_mru)
<1>1. p \in ProfileType /\ Covered(p) /\ SeenSum(p) = n /\ HitsSplit(p) /\ Unused(p)
      /\ MissSum(p) % Uint32 = miss_hit[1]
  BY DEF Tallied
<1>2. q \in ProfileType /\ Covered(q)
  BY <1>1, CountKeyMruOK
<1>3. /\ q.map = KeysWith(p.map, key)
      /\ \A r, t : t \in kAccessTypes =>
           Seen(q, r, t) = Seen(p, r, t) + Once(r, t, Place(p.map, key), access_type)
      /\ HitsSplit(q) /\ Unused(q)
  BY <1>1, CountKeyMruSees
<1>4. ASSUME NEW c \in CounterId
      PROVE  ColumnSum(p, c) \in Nat /\ ColumnSum(q, c) = ColumnSum(p, c) + gain(c)
  BY <1>1, CountKeyMruSum
<1>5. /\ gain(0) + gain(1) + gain(2) + gain(3) = 1
      /\ is_hit => gain(0) + gain(2) = 0
      /\ ~is_hit => gain(0) + gain(2) = 1
      /\ gain(0) \in Nat /\ gain(1) \in Nat /\ gain(2) \in Nat /\ gain(3) \in Nat
  BY DEF gain, Gain, MissHitId, MruId, B2I, kAccessTypes, kLoad, kStore
<1>6. 0 \in CounterId /\ 1 \in CounterId /\ 2 \in CounterId /\ 3 \in CounterId
  BY DEF CounterId
<1> HIDE DEF q, gain
<1>7. /\ SeenSum(q) = SeenSum(p) + 1
      /\ is_hit => MissSum(q) = MissSum(p)
      /\ ~is_hit => MissSum(q) = MissSum(p) + 1
  <2> DEFINE a(c) == ColumnSum(p, c)
             b(c) == ColumnSum(q, c)
  <2>1. /\ b(0) = a(0) + gain(0) /\ b(1) = a(1) + gain(1)
        /\ b(2) = a(2) + gain(2) /\ b(3) = a(3) + gain(3)
        /\ a(0) \in Nat /\ a(1) \in Nat /\ a(2) \in Nat /\ a(3) \in Nat
    BY <1>4, <1>6
  <2>2. /\ SeenSum(q) = b(0) + b(1) + b(2) + b(3) /\ SeenSum(p) = a(0) + a(1) + a(2) + a(3)
        /\ MissSum(q) = b(0) + b(2) /\ MissSum(p) = a(0) + a(2)
    BY DEF SeenSum, MissSum
  <2> HIDE DEF a, b
  <2> QED BY <1>5, <2>1, <2>2
<1>8. MissSum(q) % Uint32 = Inc(miss_hit, is_hit)[1]
  <2>1. MissSum(p) \in Nat
    BY <1>1, SumsAreNumbers
  <2> QED BY <1>1, <1>7, <2>1, MissesCounted
<1>9. SeenRows(q) = SeenOnce(SeenRows(p), Place(p.map, key), access_type)
  <2>1. ASSUME NEW r \in Nat \ {0}, NEW t \in kAccessTypes
        PROVE  Seen(q, r, t) = SeenRows(p)[r][t] + Once(r, t, Place(p.map, key), access_type)
    BY <1>3 DEF SeenRows
  <2> QED BY <2>1, Zenon DEF SeenRows, SeenOnce
<1>10. Tallied(q, Inc(miss_hit, is_hit)[1], n + 1)
  BY <1>1, <1>2, <1>3, <1>7, <1>8 DEF Tallied
<1> QED BY <1>3, <1>9, <1>10 DEF q

(* A cache that counts at once keeps its sums in order, and its view       *)
(* changes as that of every cache does.                                    *)
LEMMA PlainStepKeeps ==
    ASSUME NEW c, PlainInv(c), NEW d, NEW inst \in Nat, NEW addr \in Nat,
           NEW access_type \in kAccessTypes, NEW is_fetch \in BOOLEAN,
           NEW is_hit \in BOOLEAN, NEW is_mru \in BOOLEAN,
           PlainStep(c, d, inst, addr, access_type, is_fetch, is_hit, is_mru)
    PROVE  /\ PlainInv(d)
           /\ PlainView(d) = Noted(PlainView(c), inst, addr, access_type, is_fetch)
<1> DEFINE epoch == Epoch(c.ref_id_)
           count(p, key) == CountKeyMru(p, key, access_type, is_hit, is_mru)
           insts == count(c.of_inst_, inst)
           addrs == count(c.of_addr_, addr)
           times == count(c.of_time_, epoch)
<1>1. /\ c.ref_id_ \in Nat /\ c.miss_hit_ \in (0 .. Uint32 - 1) \X (0 .. Uint32 - 1)
      /\ c.of_addr_ \in ProfileType /\ Covered(c.of_addr_)
      /\ Tallied(c.of_inst_, c.miss_hit_[1], c.ref_id_)
      /\ Tallied(c.of_time_, c.miss_hit_[1], c.ref_id_)
  BY DEF PlainInv
<1>2. /\ d.ref_id_ = c.ref_id_ + 1 /\ d.miss_hit_ = Inc(c.miss_hit_, is_hit)
      /\ d.of_inst_ = insts /\ d.of_addr_ = (IF is_fetch THEN c.of_addr_ ELSE addrs)
      /\ d.of_time_ = times
  BY DEF PlainStep
<1>3. epoch \in Nat
  BY <1>1, CounterAssumption DEF Epoch
<1> HIDE DEF epoch
<1>4. /\ Tallied(insts, Inc(c.miss_hit_, is_hit)[1], c.ref_id_ + 1)
      /\ insts.map = KeysWith(c.of_inst_.map, inst)
      /\ SeenRows(insts)
           = SeenOnce(SeenRows(c.of_inst_), Place(c.of_inst_.map, inst), access_type)
  BY <1>1, CountKeyMruTallies
<1>5. /\ Tallied(times, Inc(c.miss_hit_, is_hit)[1], c.ref_id_ + 1)
      /\ times.map = KeysWith(c.of_time_.map, epoch)
      /\ SeenRows(times)
           = SeenOnce(SeenRows(c.of_time_), Place(c.of_time_.map, epoch), access_type)
  BY <1>1, <1>3, CountKeyMruTallies
<1>6. /\ addrs \in ProfileType /\ Covered(addrs)
      /\ addrs.map = KeysWith(c.of_addr_.map, addr)
  <2>1. addrs \in ProfileType /\ Covered(addrs)
    BY <1>1, CountKeyMruOK
  <2>2. addrs.map = KeysWith(c.of_addr_.map, addr)
    BY <1>1, CountKeyMruSees
  <2> QED BY <2>1, <2>2
<1>7. Inc(c.miss_hit_, is_hit) \in (0 .. Uint32 - 1) \X (0 .. Uint32 - 1)
  BY <1>1, IncOK
<1> HIDE DEF insts, addrs, times
<1>8. PlainInv(d)
  BY <1>1, <1>2, <1>4, <1>5, <1>6, <1>7 DEF PlainInv
<1>9. PlainView(d) = Noted(PlainView(c), inst, addr, access_type, is_fetch)
  <2> DEFINE v == PlainView(c)
             w == PlainView(d)
  <2>1. /\ v.ref_id = c.ref_id_ /\ v.inst = c.of_inst_.map /\ v.addr = c.of_addr_.map
        /\ v.time = c.of_time_.map /\ v.by_inst = SeenRows(c.of_inst_)
        /\ v.by_time = SeenRows(c.of_time_)
    BY DEF PlainView
  <2>2. d.of_addr_.map = (IF is_fetch THEN v.addr ELSE KeysWith(v.addr, addr))
    BY <1>2, <1>6, <2>1
  <2> HIDE DEF v
  <2>3. w = [ref_id |-> v.ref_id + 1, inst |-> KeysWith(v.inst, inst),
             addr |-> d.of_addr_.map, time |-> KeysWith(v.time, epoch),
             by_inst |-> SeenOnce(v.by_inst, Place(v.inst, inst), access_type),
             by_time |-> SeenOnce(v.by_time, Place(v.time, epoch), access_type)]
    BY <1>2, <1>4, <1>5, <2>1 DEF PlainView
  <2> HIDE DEF w
  <2>4. epoch = Epoch(v.ref_id)
    BY <2>1 DEF epoch
  <2>5. w = Noted(v, inst, addr, access_type, is_fetch)
    BY <2>2, <2>3, <2>4, Zenon DEF Noted
  <2> QED BY <2>5 DEF v, w
<1> QED BY <1>8, <1>9

(* A profile with no index in use has counted nothing.                     *)
LEMMA NewProfileTallies ==
    /\ Tallied(NewProfile, 0, 0)
    /\ NewProfile.map = << >>
    /\ SeenRows(NewProfile) = [r \in Nat \ {0} |-> [t \in kAccessTypes |-> 0]]
<1> DEFINE p == NewProfile
<1>1. p \in ProfileType /\ Covered(p)
  BY NewProfileOK
<1>2. p.map = << >>
  BY DEF NewProfile
<1>3. ASSUME NEW c \in CounterId PROVE ColumnSum(p, c) = 0
  BY NewProfileSum
<1>4. ASSUME NEW r \in DOMAIN p.rows, NEW c \in CounterId PROVE p.rows[r][c] = 0
  BY CounterAssumption DEF NewProfile, NewRow
<1> HIDE DEF p
<1>5. ASSUME NEW t \in kAccessTypes
      PROVE  /\ MissHitId(t, FALSE) \in CounterId /\ MissHitId(t, TRUE) \in CounterId
             /\ MruId(t, FALSE) \in CounterId /\ MruId(t, TRUE) \in CounterId
  BY CounterIds
<1>6. SeenSum(p) = 0 /\ MissSum(p) % Uint32 = 0
  <2>1. /\ ColumnSum(p, 0) = 0 /\ ColumnSum(p, 1) = 0
        /\ ColumnSum(p, 2) = 0 /\ ColumnSum(p, 3) = 0
    BY <1>3 DEF CounterId
  <2>2. SeenSum(p) = 0 /\ MissSum(p) = 0
    BY <2>1 DEF SeenSum, MissSum
  <2> QED BY <2>2, CounterAssumption
<1>7. HitsSplit(p)
  <2>1. SUFFICES ASSUME NEW r \in DOMAIN p.rows, NEW t \in kAccessTypes
                 PROVE  p.rows[r][MissHitId(t, TRUE)]
                          = p.rows[r][MruId(t, FALSE)] + p.rows[r][MruId(t, TRUE)]
    BY DEF HitsSplit
  <2>2. /\ p.rows[r][MissHitId(t, TRUE)] = 0
        /\ p.rows[r][MruId(t, FALSE)] = 0 /\ p.rows[r][MruId(t, TRUE)] = 0
    BY <1>4, <1>5
  <2>3. 0 = 0 + 0
    OBVIOUS
  <2> QED BY <2>2, <2>3
<1>8. ASSUME NEW r, NEW t \in kAccessTypes PROVE Seen(p, r, t) = 0
  <2>1. CASE r \in DOMAIN p.rows
    <3>1. p.rows[r][MissHitId(t, FALSE)] = 0 /\ p.rows[r][MissHitId(t, TRUE)] = 0
      BY <1>4, <1>5, <2>1
    <3>2. Seen(p, r, t) = 0 + 0
      BY <2>1, <3>1 DEF Seen
    <3> QED BY <3>2
  <2>2. CASE r \notin DOMAIN p.rows
    BY <2>2 DEF Seen
  <2> QED BY <2>1, <2>2
<1>9. Unused(p)
  BY <1>8 DEF Unused
<1>10. SeenRows(p) = [r \in Nat \ {0} |-> [t \in kAccessTypes |-> 0]]
  BY <1>8, Zenon DEF SeenRows
<1> QED BY <1>1, <1>2, <1>6, <1>7, <1>9, <1>10 DEF p, Tallied

(* What is printed of a cache: profiles that are sound, and whose misses   *)
(* are those of the cache.                                                 *)
Settled(c) ==
    /\ c.miss_hit_[1] \in Nat
    /\ c.of_inst_ \in ProfileType /\ Covered(c.of_inst_)
    /\ c.of_time_ \in ProfileType /\ Covered(c.of_time_)
    /\ MissSum(c.of_inst_) % Uint32 = c.miss_hit_[1]
    /\ MissSum(c.of_time_) % Uint32 = c.miss_hit_[1]

(* What a cache is when the program starts.                                *)
IsNewCache(c) ==
    /\ c.ref_id_ = 0 /\ c.miss_hit_ = NewMissHit
    /\ c.of_inst_ = NewProfile /\ c.of_addr_ = NewProfile /\ c.of_time_ = NewProfile

(* A new cache has seen nothing.                                           *)
LEMMA NewCacheIsPlain ==
    ASSUME NEW c, IsNewCache(c)
    PROVE  PlainInv(c) /\ PlainView(c) = EmptyView
<1>1. /\ c.ref_id_ = 0 /\ c.miss_hit_ = <<0, 0>>
      /\ c.of_inst_ = NewProfile /\ c.of_addr_ = NewProfile /\ c.of_time_ = NewProfile
  BY DEF IsNewCache, NewMissHit
<1>2. c.miss_hit_ \in (0 .. Uint32 - 1) \X (0 .. Uint32 - 1) /\ c.miss_hit_[1] = 0
  BY <1>1, CounterAssumption
<1> QED BY <1>1, <1>2, NewProfileTallies, NewProfileOK DEF PlainInv, PlainView, EmptyView

-----------------------------------------------------------------------------
(* Sums over the keys of a profile and the types of reference.             *)
KeysOf(map) == {map[i] : i \in DOMAIN map}

Cells(map) == KeysOf(map) \X kAccessTypes

(* A profile has finitely many cells.                                      *)
LEMMA CellsFinite ==
    ASSUME NEW map \in Seq(Nat)
    PROVE  IsFiniteSet(Cells(map))
<1>1. DOMAIN map = 1 .. Len(map) /\ Len(map) \in Nat
  OBVIOUS
<1>2. IsFiniteSet(1 .. Len(map))
  BY <1>1, FS_Interval
<1>3. IsFiniteSet(KeysOf(map))
  <2>1. map \in [DOMAIN map -> KeysOf(map)]
    BY DEF KeysOf
  <2>2. map \in Surjection(1 .. Len(map), KeysOf(map))
    BY <1>1, <2>1 DEF Surjection, KeysOf
  <2> QED BY <1>2, <2>2, FS_Surjection
<1>4. IsFiniteSet(kAccessTypes)
  <2>1. IsFiniteSet({kLoad}) /\ IsFiniteSet({kStore})
    BY FS_Singleton
  <2>2. IsFiniteSet({kLoad} \cup {kStore}) /\ {kLoad} \cup {kStore} = kAccessTypes
    BY <2>1, FS_Union DEF kAccessTypes
  <2> QED BY <2>2
<1> QED BY <1>3, <1>4, FS_Product DEF Cells

(* One more key has two more cells.                                        *)
LEMMA CellsOfKey ==
    ASSUME NEW K, NEW k, k \notin K
    PROVE  LET all == (K \cup {k}) \X kAccessTypes
           IN  /\ <<k, kLoad>> \in all /\ <<k, kStore>> \in all
               /\ <<k, kLoad>> # <<k, kStore>>
               /\ (all \ {<<k, kStore>>}) \ {<<k, kLoad>>} = K \X kAccessTypes
<1> DEFINE all == (K \cup {k}) \X kAccessTypes
           rest == (all \ {<<k, kStore>>}) \ {<<k, kLoad>>}
<1>1. kLoad # kStore /\ kAccessTypes = {kLoad, kStore}
  BY DEF kAccessTypes, kLoad, kStore
<1>2. /\ <<k, kLoad>> \in all /\ <<k, kStore>> \in all
      /\ <<k, kLoad>> # <<k, kStore>>
  BY <1>1
<1>3. ASSUME NEW x \in rest PROVE x \in K \X kAccessTypes
  <2>1. PICK j \in K \cup {k}, t \in kAccessTypes : x = <<j, t>>
    OBVIOUS
  <2>2. j # k
    <3>1. SUFFICES ASSUME j = k PROVE FALSE
      OBVIOUS
    <3>2. x = <<k, kLoad>> \/ x = <<k, kStore>>
      BY <1>1, <2>1, <3>1
    <3> QED BY <3>2
  <2> QED BY <2>1, <2>2
<1>4. ASSUME NEW x \in K \X kAccessTypes PROVE x \in rest
  <2>1. PICK j \in K, t \in kAccessTypes : x = <<j, t>>
    OBVIOUS
  <2>2. j # k
    OBVIOUS
  <2>3. x # <<k, kLoad>> /\ x # <<k, kStore>>
    BY <2>1, <2>2
  <2> QED BY <2>1, <2>3
<1>5. rest = K \X kAccessTypes
  <2> HIDE DEF rest
  <2> QED BY <1>3, <1>4
<1> QED BY <1>2, <1>5

(* The sums a over the first keys, of what each counts for its loads and   *)
(* its stores.                                                             *)
OneToOne(map) == \A i, j \in DOMAIN map : map[i] = map[j] => i = j

KeySteps(a, w, map) ==
    /\ a[0] = 0
    /\ \A n \in 1 .. Len(map) :
         a[n] = a[n - 1] + (w[<<map[n], kLoad>>] + w[<<map[n], kStore>>])

(* The sum over the cells is the sum over all keys.                        *)
LEMMA SumOfCells ==
    ASSUME NEW map \in Seq(Nat), OneToOne(map),
           NEW w \in [Cells(map) -> Int], NEW u, SumSteps(u, w, Cells(map)),
           NEW a, KeySteps(a, w, map)
    PROVE  u[Cells(map)] = a[Len(map)]
<1> DEFINE l == Len(map)
           D == Cells(map)
           K(n) == {map[i] : i \in 1 .. n}
           C(n) == K(n) \X kAccessTypes
           Good(n) == u[C(n)] \in Int /\ u[C(n)] = a[n]
           N == {n \in Nat : n <= l => Good(n)}
<1>1. /\ l \in Nat /\ DOMAIN map = 1 .. l
      /\ \A i, j \in DOMAIN map : map[i] = map[j] => i = j
      /\ a[0] = 0
      /\ \A n \in 1 .. l : a[n] = a[n - 1] + (w[<<map[n], kLoad>>] + w[<<map[n], kStore>>])
  BY DEF OneToOne, KeySteps
<1>2. C(l) = D
  BY <1>1 DEF Cells, KeysOf
<1>3. ASSUME NEW n \in 0 .. l PROVE C(n) \in SUBSET D
  <2>1. K(n) \subseteq KeysOf(map)
    BY <1>1 DEF KeysOf
  <2> HIDE DEF K
  <2> QED BY <2>1 DEF Cells
<1>4. 0 \in N
  <2>1. C(0) = {}
    <3>1. K(0) = {}
      OBVIOUS
    <3> HIDE DEF K
    <3> QED BY <3>1
  <2>2. u[{}] = 0
    BY DEF SumSteps
  <2>3. Good(0)
    <3>1. u[C(0)] = 0
      <4> HIDE DEF C
      <4> QED BY <2>1, <2>2
    <3> HIDE DEF C
    <3> QED BY <1>1, <3>1
  <2> HIDE DEF Good
  <2> QED BY <2>3
<1>5. ASSUME NEW n \in N PROVE n + 1 \in N
  <2>1. n \in Nat /\ n + 1 \in Nat
    OBVIOUS
  <2>2. SUFFICES ASSUME n + 1 <= l PROVE Good(n + 1)
    BY <2>1
  <2>3. n <= l /\ n + 1 \in 1 .. l /\ n + 1 \in 0 .. l /\ (n + 1) - 1 = n
    BY <1>1, <2>1, <2>2
  <2>4. u[C(n)] \in Int /\ u[C(n)] = a[n]
    BY <2>1, <2>3
  <2> DEFINE k == map[n + 1]
             load == <<k, kLoad>>
             store == <<k, kStore>>
             all == C(n + 1)
  <2>5. K(n + 1) = K(n) \cup {k} /\ k \notin K(n)
    <3>1. ASSUME NEW i \in 1 .. n PROVE map[i] # k
      <4>1. i \in DOMAIN map /\ n + 1 \in DOMAIN map /\ i # n + 1
        BY <1>1, <2>1, <2>2
      <4> QED BY <1>1, <4>1
    <3>2. 1 .. n + 1 = (1 .. n) \cup {n + 1}
      BY <2>1
    <3> QED BY <3>1, <3>2
  <2>6. /\ load \in all /\ store \in all /\ load # store
        /\ (all \ {store}) \ {load} = C(n)
    <3> HIDE DEF K, k
    <3> QED BY <2>5, CellsOfKey
  <2>7. all \in SUBSET D
    BY <1>3, <2>3
  <2>8. IsFiniteSet(D)
    BY CellsFinite
  <2>9. a[n + 1] = a[n] + (w[load] + w[store])
    BY <1>1, <2>3
  <2> DEFINE rest == all \ {store}
             last == rest \ {load}
  <2>10. /\ rest = all \ {store} /\ last = rest \ {load} /\ last = C(n)
         /\ rest \in SUBSET D /\ load \in rest
         /\ w \in [D -> Int] /\ SumSteps(u, w, D)
    <3>1. w \in [D -> Int] /\ SumSteps(u, w, D)
      OBVIOUS
    <3> HIDE DEF load, store, all, D, C
    <3> QED BY <2>6, <2>7, <3>1
  <2>11. w[load] \in Int /\ w[store] \in Int
    <3>1. load \in D /\ store \in D
      BY <2>6, <2>7
    <3> HIDE DEF load, store, D
    <3> QED BY <2>10, <3>1
  <2>12. u[all] \in Int /\ u[last] \in Int /\ u[all] = u[last] + (w[load] + w[store])
    <3>1. Splits(u, w, D)
      BY <2>8, SumsSplit
    <3> HIDE DEF load, store, all, D
    <3>2. u[all] \in Int /\ u[all] = u[all \ {store}] + w[store]
      BY <2>6, <2>7, <3>1 DEF Splits
    <3>3. u[rest] \in Int /\ u[rest] = u[rest \ {load}] + w[load]
      <4> HIDE DEF rest
      <4> QED BY <2>10, <3>1 DEF Splits
    <3>4. last \in SUBSET D
      BY <2>7
    <3> HIDE DEF rest, last
    <3>5. u[last] \in Int
      BY <3>1, <3>4 DEF Splits
    <3>6. u[all] = u[rest] + w[store] /\ u[rest] = u[last] + w[load]
      BY <2>10, <3>2, <3>3
    <3> QED BY <2>11, <3>2, <3>3, <3>5, <3>6
  <2> HIDE DEF load, store, all, rest, last, D
  <2>13. u[last] = a[n]
    BY <2>4, <2>10
  <2>14. u[all] \in Int /\ u[all] = a[n + 1]
    BY <2>9, <2>12, <2>13
  <2> QED BY <2>14 DEF all
<1>6. N = Nat
  <2>1. N \in SUBSET Nat
    OBVIOUS
  <2> HIDE DEF N
  <2> QED BY <1>4, <1>5, <2>1, NatSetInduction
<1>7. Good(l)
  <2> HIDE DEF Good, l
  <2>1. l \in N /\ l <= l
    BY <1>1, <1>6
  <2> QED BY <2>1
<1> HIDE DEF C
<1> QED BY <1>2, <1>7

(* The sums over the first rows of a profile that counts nothing after its *)
(* keys: they are numbers, and those over its keys are those over all.     *)
LEMMA KeyRows ==
    ASSUME NEW p \in ProfileType, Covered(p), NEW counter \in CounterId,
           \A r \in Len(p.map) + 1 .. Len(p.rows) : p.rows[r][counter] = 0
    PROVE  \E u : /\ u[0] = 0 /\ u[Len(p.map)] = ColumnSum(p, counter)
                  /\ \A n \in 0 .. Len(p.map) : u[n] \in Nat
                  /\ \A n \in 1 .. Len(p.map) : u[n] = u[n - 1] + p.rows[n][counter]
<1> DEFINE l == Len(p.map)
           k == Len(p.rows)
           cell(n) == p.rows[n][counter]
<1>1. /\ p.rows \in Seq([CounterId -> Nat]) /\ l \in Nat /\ k \in Nat /\ l < k
  BY DEF ProfileType, Covered
<1>2. PICK u : RowSteps(u, p, counter) /\ ColumnSum(p, counter) = u[k]
  BY <1>1, ColumnSumDefined
<1>3. /\ u[0] = 0
      /\ \A n \in 1 .. k : u[n] = u[n - 1] + cell(n)
  BY <1>1, <1>2, RowStepsFacts
<1>4. ASSUME NEW n \in 1 .. k PROVE cell(n) \in Nat
  <2> DEFINE Rows == [CounterId -> Nat]
             rows == p.rows
  <2>1. rows \in Seq(Rows) /\ n \in 1 .. Len(rows)
    BY <1>1
  <2> HIDE DEF Rows, rows
  <2>2. rows[n] \in Rows
    BY <2>1
  <2> QED BY <2>2 DEF Rows, rows
<1>5. \A n \in l + 1 .. k : cell(n) = 0
  OBVIOUS
<1> HIDE DEF l, k, cell
<1> DEFINE Good(n) == u[n] \in Nat /\ (n >= l => u[n] = u[l])
           N == {n \in Nat : n <= k => Good(n)}
<1>6. 0 \in N
  <2>1. Good(0)
    BY <1>1, <1>3
  <2> HIDE DEF Good
  <2> QED BY <2>1
<1>7. ASSUME NEW n \in N PROVE n + 1 \in N
  <2>1. n \in Nat /\ n + 1 \in Nat
    OBVIOUS
  <2>2. SUFFICES ASSUME n + 1 <= k PROVE Good(n + 1)
    BY <2>1
  <2>3. n + 1 \in 1 .. k /\ (n + 1) - 1 = n /\ n <= k
    BY <1>1, <2>1, <2>2
  <2>4. u[n + 1] = u[n] + cell(n + 1) /\ cell(n + 1) \in Nat
    <3>1. u[n + 1] = u[(n + 1) - 1] + cell(n + 1)
      BY <1>3, <2>3
    <3> QED BY <1>4, <2>3, <3>1
  <2>5. u[n] \in Nat /\ (n >= l => u[n] = u[l])
    BY <2>1, <2>3
  <2>6. n >= l => cell(n + 1) = 0
    BY <1>1, <1>5, <2>1, <2>2
  <2>7. n + 1 >= l => n >= l \/ n + 1 = l
    BY <1>1, <2>1
  <2> QED BY <2>4, <2>5, <2>6, <2>7
<1>8. N = Nat
  <2>1. N \in SUBSET Nat
    OBVIOUS
  <2> HIDE DEF N
  <2> QED BY <1>6, <1>7, <2>1, NatSetInduction
<1>9. ASSUME NEW n \in 0 .. k PROVE Good(n)
  <2>1. n \in N /\ n <= k
    BY <1>1, <1>8
  <2> HIDE DEF Good
  <2> QED BY <2>1
<1>10. u[l] = ColumnSum(p, counter)
  <2>1. k \in 0 .. k /\ k >= l
    BY <1>1
  <2> QED BY <1>2, <1>9, <2>1 DEF k
<1>11. \A n \in 0 .. l : u[n] \in Nat
  <2>1. \A n \in 0 .. l : n \in 0 .. k
    BY <1>1
  <2> QED BY <1>9, <2>1
<1>12. \A n \in 1 .. l : u[n] = u[n - 1] + cell(n)
  <2>1. \A n \in 1 .. l : n \in 1 .. k
    BY <1>1
  <2> QED BY <1>3, <2>1
<1> QED BY <1>3, <1>10, <1>11, <1>12 DEF l, cell

(* The counters of a row that is no key's are zero.                        *)
LEMMA UnusedRows ==
    ASSUME NEW p \in ProfileType, Covered(p), Unused(p), NEW t \in kAccessTypes,
           NEW r \in Len(p.map) + 1 .. Len(p.rows)
    PROVE  p.rows[r][MissHitId(t, FALSE)] = 0 /\ p.rows[r][MissHitId(t, TRUE)] = 0
<1> DEFINE rows == p.rows
           Rows == [CounterId -> Nat]
           a == MissHitId(t, FALSE)
           b == MissHitId(t, TRUE)
<1>1. rows \in Seq(Rows) /\ Len(p.map) \in Nat /\ DOMAIN p.map = 1 .. Len(p.map)
  BY DEF ProfileType
<1>2. r \in 1 .. Len(rows) /\ r \in Nat \ {0} /\ r \notin DOMAIN p.map /\ r \in DOMAIN rows
  BY <1>1
<1>3. a \in CounterId /\ b \in CounterId
  BY CounterIds
<1>4. Seen(p, r, t) = 0
  BY <1>2 DEF Unused
<1>5. Seen(p, r, t) = rows[r][a] + rows[r][b]
  BY <1>2 DEF Seen
<1> HIDE DEF rows, Rows, a, b
<1>6. rows[r] \in Rows
  BY <1>1, <1>2
<1>7. rows[r][a] \in Nat /\ rows[r][b] \in Nat
  BY <1>3, <1>6 DEF Rows
<1>8. rows[r][a] = 0 /\ rows[r][b] = 0
  BY <1>4, <1>5, <1>7
<1> QED BY <1>8 DEF rows, a, b

(* The misses of all keys add up to those of the profile.                  *)
LEMMA SumOfMisses ==
    ASSUME NEW p \in ProfileType, Covered(p), Unused(p),
           NEW w \in [Cells(p.map) -> Int], NEW u, SumSteps(u, w, Cells(p.map)),
           \A i \in DOMAIN p.map, t \in kAccessTypes :
               w[<<p.map[i], t>>] = p.rows[i][MissHitId(t, FALSE)]
    PROVE  u[Cells(p.map)] = MissSum(p)
<1> DEFINE l == Len(p.map)
<1>1. /\ p.map \in Seq(Nat) /\ DOMAIN p.map = 1 .. l /\ l \in Nat
      /\ \A i, j \in DOMAIN p.map : p.map[i] = p.map[j] => i = j
  BY DEF ProfileType, Covered
<1>2. /\ MissHitId(kLoad, FALSE) = 0 /\ MissHitId(kStore, FALSE) = 2
      /\ kLoad \in kAccessTypes /\ kStore \in kAccessTypes
      /\ 0 \in CounterId /\ 2 \in CounterId
  BY DEF MissHitId, B2I, kLoad, kStore, kAccessTypes, CounterId
<1>3. ASSUME NEW r \in l + 1 .. Len(p.rows) PROVE p.rows[r][0] = 0 /\ p.rows[r][2] = 0
  <2>1. p.rows[r][MissHitId(kLoad, FALSE)] = 0 /\ p.rows[r][MissHitId(kStore, FALSE)] = 0
    BY <1>2, UnusedRows
  <2> QED BY <1>2, <2>1
<1>4. PICK x : /\ x[0] = 0 /\ x[l] = ColumnSum(p, 0)
               /\ \A n \in 0 .. l : x[n] \in Nat
               /\ \A n \in 1 .. l : x[n] = x[n - 1] + p.rows[n][0]
  BY <1>2, <1>3, KeyRows
<1>5. PICK y : /\ y[0] = 0 /\ y[l] = ColumnSum(p, 2)
               /\ \A n \in 0 .. l : y[n] \in Nat
               /\ \A n \in 1 .. l : y[n] = y[n - 1] + p.rows[n][2]
  BY <1>2, <1>3, KeyRows
<1> DEFINE a == [n \in 0 .. l |-> x[n] + y[n]]
<1>6. a[0] = 0 /\ a[l] = MissSum(p)
  <2>1. 0 \in 0 .. l /\ l \in 0 .. l
    BY <1>1
  <2>2. a[0] = x[0] + y[0] /\ a[l] = x[l] + y[l]
    BY <2>1
  <2> HIDE DEF a, l
  <2> QED BY <1>4, <1>5, <2>2 DEF MissSum
<1>7. ASSUME NEW n \in 1 .. l
      PROVE  a[n] = a[n - 1] + (w[<<p.map[n], kLoad>>] + w[<<p.map[n], kStore>>])
  <2>1. w[<<p.map[n], kLoad>>] = p.rows[n][0] /\ w[<<p.map[n], kStore>>] = p.rows[n][2]
    <3>1. /\ w[<<p.map[n], kLoad>>] = p.rows[n][MissHitId(kLoad, FALSE)]
          /\ w[<<p.map[n], kStore>>] = p.rows[n][MissHitId(kStore, FALSE)]
      BY <1>1, <1>2
    <3> QED BY <1>2, <3>1
  <2>2. /\ <<p.map[n], kLoad>> \in Cells(p.map) /\ <<p.map[n], kStore>> \in Cells(p.map)
    BY <1>1, <1>2 DEF Cells, KeysOf
  <2>3. w[<<p.map[n], kLoad>>] \in Int /\ w[<<p.map[n], kStore>>] \in Int
    BY <2>2
  <2>4. n \in 0 .. l /\ n - 1 \in 0 .. l
    BY <1>1
  <2>5. a[n] = x[n] + y[n] /\ a[n - 1] = x[n - 1] + y[n - 1]
    BY <2>4
  <2>6. x[n] = x[n - 1] + p.rows[n][0] /\ y[n] = y[n - 1] + p.rows[n][2]
        /\ x[n - 1] \in Nat /\ y[n - 1] \in Nat
    BY <1>4, <1>5, <2>4
  <2> DEFINE lm == p.rows[n][0]
             sm == p.rows[n][2]
  <2>7. lm \in Int /\ sm \in Int
    BY <2>1, <2>3
  <2> HIDE DEF a, lm, sm
  <2>8. a[n] = a[n - 1] + (lm + sm)
    BY <2>5, <2>6, <2>7 DEF lm, sm
  <2> QED BY <2>1, <2>8 DEF lm, sm
<1> HIDE DEF a
<1>8. u[Cells(p.map)] = a[l]
  <2> DEFINE map == p.map
  <2>1. /\ map \in Seq(Nat) /\ l = Len(map) /\ OneToOne(map)
        /\ w \in [Cells(map) -> Int] /\ SumSteps(u, w, Cells(map))
    BY <1>1 DEF OneToOne
  <2>2. KeySteps(a, w, map)
    BY <1>6, <1>7 DEF KeySteps
  <2> HIDE DEF map, l
  <2>3. u[Cells(map)] = a[Len(map)]
    BY <2>1, <2>2, SumOfCells
  <2> QED BY <2>1, <2>3 DEF map
<1> QED BY <1>6, <1>8

(* The references of all keys add up to those of the profile.              *)
LEMMA SumOfSeen ==
    ASSUME NEW p \in ProfileType, Covered(p), Unused(p),
           NEW w \in [Cells(p.map) -> Int], NEW u, SumSteps(u, w, Cells(p.map)),
           \A i \in DOMAIN p.map, t \in kAccessTypes : w[<<p.map[i], t>>] = Seen(p, i, t)
    PROVE  u[Cells(p.map)] = SeenSum(p)
<1> DEFINE l == Len(p.map)
           cell(n, counter) == p.rows[n][counter]
<1>1. /\ p.map \in Seq(Nat) /\ DOMAIN p.map = 1 .. l /\ l \in Nat
      /\ \A i, j \in DOMAIN p.map : p.map[i] = p.map[j] => i = j
      /\ Len(p.rows) \in Nat /\ l < Len(p.rows) /\ DOMAIN p.rows = 1 .. Len(p.rows)
  BY DEF ProfileType, Covered
<1>2. /\ MissHitId(kLoad, FALSE) = 0 /\ MissHitId(kLoad, TRUE) = 1
      /\ MissHitId(kStore, FALSE) = 2 /\ MissHitId(kStore, TRUE) = 3
      /\ kLoad \in kAccessTypes /\ kStore \in kAccessTypes
      /\ 0 \in CounterId /\ 1 \in CounterId /\ 2 \in CounterId /\ 3 \in CounterId
  BY DEF MissHitId, B2I, kLoad, kStore, kAccessTypes, CounterId
<1>3. ASSUME NEW r \in l + 1 .. Len(p.rows)
      PROVE  cell(r, 0) = 0 /\ cell(r, 1) = 0 /\ cell(r, 2) = 0 /\ cell(r, 3) = 0
  <2>1. p.rows[r][MissHitId(kLoad, FALSE)] = 0 /\ p.rows[r][MissHitId(kLoad, TRUE)] = 0
    BY <1>2, UnusedRows
  <2>2. p.rows[r][MissHitId(kStore, FALSE)] = 0 /\ p.rows[r][MissHitId(kStore, TRUE)] = 0
    BY <1>2, UnusedRows
  <2> QED BY <1>2, <2>1, <2>2
<1>4. PICK x0 : /\ x0[0] = 0 /\ x0[l] = ColumnSum(p, 0)
                /\ \A n \in 0 .. l : x0[n] \in Nat
                /\ \A n \in 1 .. l : x0[n] = x0[n - 1] + cell(n, 0)
  BY <1>2, <1>3, KeyRows
<1>5. PICK x1 : /\ x1[0] = 0 /\ x1[l] = ColumnSum(p, 1)
                /\ \A n \in 0 .. l : x1[n] \in Nat
                /\ \A n \in 1 .. l : x1[n] = x1[n - 1] + cell(n, 1)
  BY <1>2, <1>3, KeyRows
<1>6. PICK x2 : /\ x2[0] = 0 /\ x2[l] = ColumnSum(p, 2)
                /\ \A n \in 0 .. l : x2[n] \in Nat
                /\ \A n \in 1 .. l : x2[n] = x2[n - 1] + cell(n, 2)
  BY <1>2, <1>3, KeyRows
<1>7. PICK x3 : /\ x3[0] = 0 /\ x3[l] = ColumnSum(p, 3)
                /\ \A n \in 0 .. l : x3[n] \in Nat
                /\ \A n \in 1 .. l : x3[n] = x3[n - 1] + cell(n, 3)
  BY <1>2, <1>3, KeyRows
<1> DEFINE a == [n \in 0 .. l |-> x0[n] + x1[n] + x2[n] + x3[n]]
<1>8. a[0] = 0 /\ a[l] = SeenSum(p)
  <2>1. 0 \in 0 .. l /\ l \in 0 .. l
    BY <1>1
  <2>2. a[0] = x0[0] + x1[0] + x2[0] + x3[0] /\ a[l] = x0[l] + x1[l] + x2[l] + x3[l]
    BY <2>1
  <2> HIDE DEF a, l, cell
  <2> QED BY <1>4, <1>5, <1>6, <1>7, <2>2 DEF SeenSum
<1>9. ASSUME NEW n \in 1 .. l
      PROVE  a[n] = a[n - 1] + (w[<<p.map[n], kLoad>>] + w[<<p.map[n], kStore>>])
  <2> DEFINE c0 == cell(n, 0)
             c1 == cell(n, 1)
             c2 == cell(n, 2)
             c3 == cell(n, 3)
  <2>1. n \in DOMAIN p.map /\ n \in DOMAIN p.rows
    BY <1>1
  <2>2. w[<<p.map[n], kLoad>>] = c0 + c1 /\ w[<<p.map[n], kStore>>] = c2 + c3
    <3>1. /\ w[<<p.map[n], kLoad>>] = Seen(p, n, kLoad)
          /\ w[<<p.map[n], kStore>>] = Seen(p, n, kStore)
      BY <1>2, <2>1
    <3> QED BY <1>2, <2>1, <3>1 DEF Seen
  <2>3. n \in 0 .. l /\ n - 1 \in 0 .. l
    BY <1>1
  <2>4. /\ a[n] = x0[n] + x1[n] + x2[n] + x3[n]
        /\ a[n - 1] = x0[n - 1] + x1[n - 1] + x2[n - 1] + x3[n - 1]
    BY <2>3
  <2>5. /\ x0[n] = x0[n - 1] + c0 /\ x0[n - 1] \in Nat
        /\ x1[n] = x1[n - 1] + c1 /\ x1[n - 1] \in Nat
        /\ x2[n] = x2[n - 1] + c2 /\ x2[n - 1] \in Nat
        /\ x3[n] = x3[n - 1] + c3 /\ x3[n - 1] \in Nat
    BY <1>4, <1>5, <1>6, <1>7, <2>3
  <2>6. c0 \in Nat /\ c1 \in Nat /\ c2 \in Nat /\ c3 \in Nat
    <3>1. p.rows \in Seq([CounterId -> Nat])
      BY DEF ProfileType
    <3>2. p.rows[n] \in [CounterId -> Nat]
      BY <2>1, <3>1
    <3> QED BY <1>2, <3>2
  <2> DEFINE y0 == x0[n - 1]
             y1 == x1[n - 1]
             y2 == x2[n - 1]
             y3 == x3[n - 1]
  <2>7. /\ a[n] = (y0 + c0) + (y1 + c1) + (y2 + c2) + (y3 + c3)
        /\ a[n - 1] = y0 + y1 + y2 + y3
        /\ y0 \in Nat /\ y1 \in Nat /\ y2 \in Nat /\ y3 \in Nat
    <3> HIDE DEF a, c0, c1, c2, c3
    <3> QED BY <2>4, <2>5
  <2> HIDE DEF a, c0, c1, c2, c3, y0, y1, y2, y3
  <2>8. a[n] = a[n - 1] + ((c0 + c1) + (c2 + c3))
    BY <2>6, <2>7
  <2> QED BY <2>2, <2>8
<1> HIDE DEF a
<1>10. u[Cells(p.map)] = a[l]
  <2> DEFINE map == p.map
  <2>1. /\ map \in Seq(Nat) /\ l = Len(map) /\ OneToOne(map)
        /\ w \in [Cells(map) -> Int] /\ SumSteps(u, w, Cells(map))
    BY <1>1 DEF OneToOne
  <2>2. KeySteps(a, w, map)
    BY <1>8, <1>9 DEF KeySteps
  <2> HIDE DEF map, l
  <2>3. u[Cells(map)] = a[Len(map)]
    BY <2>1, <2>2, SumOfCells
  <2> QED BY <2>1, <2>3 DEF map
<1> QED BY <1>8, <1>10

(* An optimal cache that counts a reference sees it once, in its row, and  *)
(* counts it among the misses if it is one.                                *)
LEMMA CountRowSees ==
    ASSUME NEW p \in ProfileType, Covered(p), NEW row \in 1 .. Len(p.rows),
           NEW access_type \in kAccessTypes, NEW is_hit \in BOOLEAN
    PROVE  LET q == CountRow(p, row, access_type, is_hit)
           IN  /\ q \in ProfileType /\ Covered(q) /\ q.map = p.map
               /\ Len(q.rows) = Len(p.rows)
               /\ \A r, t : t \in kAccessTypes =>
                    Seen(q, r, t) = Seen(p, r, t) + Once(r, t, row, access_type)
               /\ MissSum(p) \in Nat
               /\ is_hit => MissSum(q) = MissSum(p)
               /\ ~is_hit => MissSum(q) = MissSum(p) + 1
<1> DEFINE m == MissHitId(access_type, is_hit)
           q == CountRow(p, row, access_type, is_hit)
           bump(counter) == IF counter = m THEN 1 ELSE 0
<1>1. m \in CounterId /\ q = Bump(p, row, m)
  BY CounterIds DEF CountRow
<1>2. \A t \in kAccessTypes :
         MissHitId(t, FALSE) \in CounterId /\ MissHitId(t, TRUE) \in CounterId
  BY CounterIds
<1>3. ASSUME NEW t \in kAccessTypes
      PROVE  /\ bump(MissHitId(t, FALSE)) \in Nat /\ bump(MissHitId(t, TRUE)) \in Nat
             /\ t = access_type => bump(MissHitId(t, FALSE)) + bump(MissHitId(t, TRUE)) = 1
             /\ t # access_type => bump(MissHitId(t, FALSE)) + bump(MissHitId(t, TRUE)) = 0
  BY DEF MissHitId, B2I, kAccessTypes, kLoad, kStore
<1>4. /\ is_hit => bump(0) + bump(2) = 0
      /\ ~is_hit => bump(0) + bump(2) = 1
      /\ bump(0) \in Nat /\ bump(2) \in Nat
  BY DEF MissHitId, B2I, kAccessTypes, kLoad, kStore
<1>5. \A c : /\ c = m => bump(c) = 1
             /\ c # m => bump(c) = 0
  OBVIOUS
<1> HIDE DEF m, q, bump
<1>6. q \in ProfileType /\ Covered(q) /\ q.map = p.map
  BY <1>1, BumpOK
<1>7. Len(q.rows) = Len(p.rows) /\ Len(p.rows) \in Nat
  BY <1>1, BumpRows
<1>8. DOMAIN p.rows = 1 .. Len(p.rows) /\ DOMAIN q.rows = 1 .. Len(p.rows)
  BY <1>6, <1>7 DEF ProfileType
<1>9. ASSUME NEW i \in 1 .. Len(p.rows), NEW counter \in CounterId
      PROVE  /\ p.rows[i][counter] \in Nat
             /\ i = row => q.rows[i][counter] = p.rows[i][counter] + bump(counter)
             /\ i # row => q.rows[i][counter] = p.rows[i][counter]
  <2>1. /\ p.rows[i][counter] \in Nat
        /\ i = row /\ counter = m => q.rows[i][counter] = p.rows[i][counter] + 1
        /\ i # row \/ counter # m => q.rows[i][counter] = p.rows[i][counter]
    BY <1>1, BumpRows
  <2> QED BY <1>5, <2>1
<1>10. ASSUME NEW r, NEW t \in kAccessTypes
       PROVE  Seen(q, r, t) = Seen(p, r, t) + Once(r, t, row, access_type)
  <2> DEFINE o == Once(r, t, row, access_type)
  <2>1. /\ r = row /\ t = access_type => o = 1
        /\ r # row \/ t # access_type => o = 0
    BY DEF Once
  <2>2. CASE r \in 1 .. Len(p.rows)
    <3> DEFINE a == p.rows[r][MissHitId(t, FALSE)]
               b == p.rows[r][MissHitId(t, TRUE)]
               x == q.rows[r][MissHitId(t, FALSE)]
               y == q.rows[r][MissHitId(t, TRUE)]
               g == bump(MissHitId(t, FALSE))
               h == bump(MissHitId(t, TRUE))
    <3>1. /\ a \in Nat /\ b \in Nat
          /\ r = row => x = a + g /\ y = b + h
          /\ r # row => x = a /\ y = b
      BY <1>2, <1>9, <2>2
    <3>2. Seen(p, r, t) = a + b /\ Seen(q, r, t) = x + y
      BY <1>8, <2>2 DEF Seen
    <3>3. /\ g \in Nat /\ h \in Nat
          /\ t = access_type => g + h = 1
          /\ t # access_type => g + h = 0
      BY <1>3
    <3> HIDE DEF a, b, g, h, x, y, o
    <3>4. x + y = a + b + o
      BY <2>1, <3>1, <3>3
    <3> QED BY <3>2, <3>4 DEF o
  <2>3. CASE r \notin 1 .. Len(p.rows)
    <3>1. Seen(p, r, t) = 0 /\ Seen(q, r, t) = 0 /\ r # row
      BY <1>8, <2>3 DEF Seen
    <3> QED BY <2>1, <3>1
  <2> QED BY <2>2, <2>3
<1>11. /\ MissSum(p) \in Nat
       /\ is_hit => MissSum(q) = MissSum(p)
       /\ ~is_hit => MissSum(q) = MissSum(p) + 1
  <2>1. 0 \in CounterId /\ 2 \in CounterId
    BY DEF CounterId
  <2>2. ASSUME NEW c \in CounterId
        PROVE  /\ ColumnSum(p, c) \in Nat
               /\ ColumnSum(q, c) = ColumnSum(p, c) + bump(c)
    <3>1. /\ ColumnSum(p, c) \in Nat
          /\ ColumnSum(q, c) = ColumnSum(p, c) + (IF c = m THEN 1 ELSE 0)
      BY <1>1, BumpSum
    <3> QED BY <3>1 DEF bump
  <2>3. /\ ColumnSum(p, 0) \in Nat /\ ColumnSum(p, 2) \in Nat
        /\ ColumnSum(q, 0) = ColumnSum(p, 0) + bump(0)
        /\ ColumnSum(q, 2) = ColumnSum(p, 2) + bump(2)
    BY <2>1, <2>2
  <2> QED BY <1>4, <2>3 DEF MissSum
<1> QED BY <1>6, <1>7, <1>10, <1>11 DEF q

-----------------------------------------------------------------------------
(* The printed report: the profiles of the four caches side by side.       *)

(* The position of a name in the header.                                   *)
LEMMA Positions ==
    ASSUME NEW row
    PROVE  /\ Column(row, "Reference") = row[1]
           /\ Column(row, "Inf-miss") = row[2]
           /\ Column(row, "FA-OPT-miss") = row[3]
           /\ Column(row, "SA-OPT-miss") = row[4]
           /\ Column(row, "SA-LRU-miss") = row[5]
           /\ Column(row, "Hit") = row[6]
           /\ Column(row, "Hit-not-MRU") = row[11]
           /\ Column(row, "Hit-MRU") = row[12]
<1>1. DOMAIN Header = 1 .. 12
  BY DEF Header
<1>2. /\ Header[1] = "Reference" /\ Header[2] = "Inf-miss" /\ Header[3] = "FA-OPT-miss"
      /\ Header[4] = "SA-OPT-miss" /\ Header[5] = "SA-LRU-miss" /\ Header[6] = "Hit"
      /\ Header[7] = "Cap-miss" /\ Header[8] = "Map-miss" /\ Header[9] = "Repl-miss"
      /\ Header[10] = "Cold-miss" /\ Header[11] = "Hit-not-MRU" /\ Header[12] = "Hit-MRU"
  BY DEF Header
<1>3. \A i \in 1 .. 12 : i = 1 \/ i = 2 \/ i = 3 \/ i = 4 \/ i = 5 \/ i = 6 \/ i = 7 \/ i = 8 \/ i = 9 \/ i = 10 \/ i = 11 \/ i = 12
  OBVIOUS
<1>4. /\ (CHOOSE i \in DOMAIN Header : Header[i] = "Reference") = 1
      /\ (CHOOSE i \in DOMAIN Header : Header[i] = "Inf-miss") = 2
      /\ (CHOOSE i \in DOMAIN Header : Header[i] = "FA-OPT-miss") = 3
      /\ (CHOOSE i \in DOMAIN Header : Header[i] = "SA-OPT-miss") = 4
      /\ (CHOOSE i \in DOMAIN Header : Header[i] = "SA-LRU-miss") = 5
      /\ (CHOOSE i \in DOMAIN Header : Header[i] = "Hit") = 6
      /\ (CHOOSE i \in DOMAIN Header : Header[i] = "Hit-not-MRU") = 11
      /\ (CHOOSE i \in DOMAIN Header : Header[i] = "Hit-MRU") = 12
  BY <1>1, <1>2, <1>3
<1> QED BY <1>4 DEF Column

(* The profiles of four caches that can be read side by side: they have    *)
(* the same keys, and have seen every row as often.                        *)
ReadsAlike(p, q) ==
    /\ q \in ProfileType /\ Covered(q)
    /\ q.map = p.map /\ SeenRows(q) = SeenRows(p)

SideBySide(ps) ==
    /\ ReadsAlike(ps.inf, ps.inf) /\ ReadsAlike(ps.inf, ps.fa_opt)
    /\ ReadsAlike(ps.inf, ps.sa_opt) /\ ReadsAlike(ps.inf, ps.sa_lru)
    /\ Unused(ps.inf) /\ HitsSplit(ps.sa_lru)

(* What another profile reads at the index of a key: no more misses than   *)
(* there were references.                                                  *)
LEMMA ReadsCell ==
    ASSUME NEW p, NEW q, p \in ProfileType, Covered(p), ReadsAlike(p, q),
           NEW i \in DOMAIN p.map, NEW t \in kAccessTypes
    PROVE  /\ Seen(q, i, t) = Seen(p, i, t)
           /\ i \in DOMAIN q.rows
           /\ q.rows[i][MissHitId(t, FALSE)] \in Nat
           /\ q.rows[i][MissHitId(t, TRUE)] \in Nat
           /\ q.rows[i][MissHitId(t, FALSE)] + q.rows[i][MissHitId(t, TRUE)] = Seen(p, i, t)
<1>1. p.map \in Seq(Nat) /\ q \in ProfileType /\ Covered(q) /\ q.map = p.map
  BY DEF ReadsAlike, ProfileType
<1>2. i \in Nat \ {0} /\ i \in 1 .. Len(q.map)
  BY <1>1
<1>3. Seen(q, i, t) = Seen(p, i, t)
  <2>1. SeenRows(q)[i][t] = Seen(q, i, t) /\ SeenRows(p)[i][t] = Seen(p, i, t)
    BY <1>2 DEF SeenRows
  <2> QED BY <2>1 DEF ReadsAlike
<1>4. q.rows \in Seq([CounterId -> Nat]) /\ Len(q.map) < Len(q.rows) /\ Len(q.map) \in Nat
  BY <1>1 DEF ProfileType, Covered
<1>5. i \in DOMAIN q.rows /\ i \in 1 .. Len(q.rows)
  BY <1>2, <1>4
<1>6. q.rows[i] \in [CounterId -> Nat]
  BY <1>4, <1>5
<1>7. MissHitId(t, FALSE) \in CounterId /\ MissHitId(t, TRUE) \in CounterId
  BY CounterIds
<1>8. Seen(q, i, t) = q.rows[i][MissHitId(t, FALSE)] + q.rows[i][MissHitId(t, TRUE)]
  BY <1>5 DEF Seen
<1> QED BY <1>3, <1>5, <1>6, <1>7, <1>8

(* No row that is not a key's is used by a profile that reads alike.       *)
LEMMA ReadsUnused ==
    ASSUME NEW p, NEW q, ReadsAlike(p, q), Unused(p)
    PROVE  Unused(q)
<1>1. ASSUME NEW r \in Nat \ {0}, NEW t \in kAccessTypes PROVE Seen(q, r, t) = Seen(p, r, t)
  <2>1. SeenRows(q)[r][t] = Seen(q, r, t) /\ SeenRows(p)[r][t] = Seen(p, r, t)
    BY DEF SeenRows
  <2> QED BY <2>1 DEF ReadsAlike
<1> QED BY <1>1 DEF Unused, ReadsAlike

(* The row printed for a key.                                              *)
LEMMA RowIs ==
    ASSUME NEW ps, SideBySide(ps), NEW i \in DOMAIN ps.inf.map, NEW t \in kAccessTypes
    PROVE  LET row == Row(ps, ps.inf.map[i], t)
               missed(p) == p.rows[i][MissHitId(t, FALSE)]
           IN  /\ Column(row, "Reference") = Seen(ps.inf, i, t)
               /\ Column(row, "Inf-miss") = missed(ps.inf)
               /\ Column(row, "FA-OPT-miss") = missed(ps.fa_opt)
               /\ Column(row, "SA-OPT-miss") = missed(ps.sa_opt)
               /\ Column(row, "SA-LRU-miss") = missed(ps.sa_lru)
               /\ Column(row, "Hit") = Column(row, "Hit-not-MRU") + Column(row, "Hit-MRU")
               /\ Seen(ps.inf, i, t) \in Nat
               /\ missed(ps.inf) \in 0 .. Seen(ps.inf, i, t)
               /\ missed(ps.fa_opt) \in 0 .. Seen(ps.inf, i, t)
               /\ missed(ps.sa_opt) \in 0 .. Seen(ps.inf, i, t)
               /\ missed(ps.sa_lru) \in 0 .. Seen(ps.inf, i, t)
<1> DEFINE inf == ps.inf
           row == Row(ps, inf.map[i], t)
           missed(p) == p.rows[i][MissHitId(t, FALSE)]
           hit(p) == p.rows[i][MissHitId(t, TRUE)]
           n == Seen(inf, i, t)
<1>1. /\ inf \in ProfileType /\ Covered(inf) /\ ReadsAlike(inf, inf)
      /\ ReadsAlike(inf, ps.fa_opt) /\ ReadsAlike(inf, ps.sa_opt) /\ ReadsAlike(inf, ps.sa_lru)
      /\ HitsSplit(ps.sa_lru)
  BY DEF SideBySide, ReadsAlike
<1>2. RowOf(inf, inf.map[i]) = i
  BY <1>1 DEF RowOf, Covered
<1>3. ASSUME NEW q, ReadsAlike(inf, q)
      PROVE  missed(q) \in Nat /\ hit(q) \in Nat /\ missed(q) + hit(q) = n /\ i \in DOMAIN q.rows
  BY <1>1, <1>3, ReadsCell
<1>4. row = <<missed(inf) + hit(inf),
             missed(inf), missed(ps.fa_opt), missed(ps.sa_opt), missed(ps.sa_lru),
             (missed(inf) + hit(inf)) - missed(ps.sa_lru),
             missed(inf),
             missed(ps.fa_opt) - missed(inf),
             missed(ps.sa_opt) - missed(ps.fa_opt),
             missed(ps.sa_lru) - missed(ps.sa_opt),
             ps.sa_lru.rows[i][MruId(t, FALSE)],
             ps.sa_lru.rows[i][MruId(t, TRUE)]>>
  BY <1>2 DEF Row
<1>5. /\ row[1] = missed(inf) + hit(inf) /\ row[2] = missed(inf) /\ row[3] = missed(ps.fa_opt)
      /\ row[4] = missed(ps.sa_opt) /\ row[5] = missed(ps.sa_lru)
      /\ row[6] = (missed(inf) + hit(inf)) - missed(ps.sa_lru)
      /\ row[11] = ps.sa_lru.rows[i][MruId(t, FALSE)]
      /\ row[12] = ps.sa_lru.rows[i][MruId(t, TRUE)]
  BY <1>4
<1> HIDE DEF row
<1>6. hit(ps.sa_lru) = row[11] + row[12]
  BY <1>1, <1>3, <1>5 DEF HitsSplit
<1> DEFINE a == missed(inf)
           b == missed(ps.fa_opt)
           c == missed(ps.sa_opt)
           d == missed(ps.sa_lru)
           h == hit(ps.sa_lru)
           g == hit(inf)
<1>7. /\ a \in Nat /\ g \in Nat /\ a + g = n /\ b \in 0 .. n /\ c \in 0 .. n
      /\ d \in Nat /\ h \in Nat /\ d + h = n
  <2> DEFINE x == hit(ps.fa_opt)
             y == hit(ps.sa_opt)
  <2>1. a \in Nat /\ g \in Nat /\ a + g = n
    BY <1>1, <1>3
  <2>2. b \in Nat /\ x \in Nat /\ b + x = n
    BY <1>1, <1>3
  <2>3. c \in Nat /\ y \in Nat /\ c + y = n
    BY <1>1, <1>3
  <2>4. d \in Nat /\ h \in Nat /\ d + h = n
    BY <1>1, <1>3
  <2> HIDE DEF a, b, c, d, h, g, n, x, y
  <2>5. b \in 0 .. n
    BY <2>2
  <2>6. c \in 0 .. n
    BY <2>3
  <2> QED BY <2>1, <2>4, <2>5, <2>6
<1>8. /\ row[1] = a + g /\ row[2] = a /\ row[3] = b /\ row[4] = c /\ row[5] = d
      /\ row[6] = (a + g) - d /\ h = row[11] + row[12]
  BY <1>5, <1>6
<1> HIDE DEF a, b, c, d, h, g, n
<1>9. /\ row[1] = n /\ row[6] = row[11] + row[12] /\ n \in Nat
      /\ a \in 0 .. n /\ d \in 0 .. n
  BY <1>7, <1>8
<1>10. /\ Column(row, "Reference") = row[1] /\ Column(row, "Inf-miss") = row[2]
       /\ Column(row, "FA-OPT-miss") = row[3] /\ Column(row, "SA-OPT-miss") = row[4]
       /\ Column(row, "SA-LRU-miss") = row[5] /\ Column(row, "Hit") = row[6]
       /\ Column(row, "Hit-not-MRU") = row[11] /\ Column(row, "Hit-MRU") = row[12]
  BY Positions
<1>11. /\ Column(row, "Reference") = n /\ Column(row, "Inf-miss") = a
       /\ Column(row, "FA-OPT-miss") = b /\ Column(row, "SA-OPT-miss") = c
       /\ Column(row, "SA-LRU-miss") = d
       /\ Column(row, "Hit") = Column(row, "Hit-not-MRU") + Column(row, "Hit-MRU")
  BY <1>8, <1>9, <1>10
<1> QED BY <1>7, <1>9, <1>11 DEF row, a, b, c, d, n

(* No cache has more misses in a row than there are references, and a hit  *)
(* of the real cache is MRU or not.                                        *)
LEMMA RowBalances ==
    ASSUME NEW ps, SideBySide(ps), NEW i \in DOMAIN ps.inf.map, NEW t \in kAccessTypes,
           NEW row, row = Row(ps, ps.inf.map[i], t)
    PROVE  /\ Column(row, "Inf-miss") \in 0 .. Column(row, "Reference")
           /\ Column(row, "FA-OPT-miss") \in 0 .. Column(row, "Reference")
           /\ Column(row, "SA-OPT-miss") \in 0 .. Column(row, "Reference")
           /\ Column(row, "SA-LRU-miss") \in 0 .. Column(row, "Reference")
           /\ Column(row, "Hit") = Column(row, "Hit-not-MRU") + Column(row, "Hit-MRU")
<1> DEFINE at == MissHitId(t, FALSE)
           n == Seen(ps.inf, i, t)
<1>1. /\ Column(row, "Reference") = n
      /\ Column(row, "Inf-miss") = ps.inf.rows[i][at]
      /\ Column(row, "FA-OPT-miss") = ps.fa_opt.rows[i][at]
      /\ Column(row, "SA-OPT-miss") = ps.sa_opt.rows[i][at]
      /\ Column(row, "SA-LRU-miss") = ps.sa_lru.rows[i][at]
      /\ Column(row, "Hit") = Column(row, "Hit-not-MRU") + Column(row, "Hit-MRU")
  BY RowIs
<1>2. /\ ps.inf.rows[i][at] \in 0 .. n /\ ps.fa_opt.rows[i][at] \in 0 .. n
      /\ ps.sa_opt.rows[i][at] \in 0 .. n /\ ps.sa_lru.rows[i][at] \in 0 .. n
  BY RowIs
<1> HIDE DEF at, n
<1> QED BY <1>1, <1>2

(* What is printed in a column.                                            *)
Printed(ps, name) ==
    [x \in Cells(ps.inf.map) |-> Column(PrintOutput(ps)[x[1]][x[2]], name)]

(* The row of each key, and the cells it fills.                            *)
LEMMA PrintedIs ==
    ASSUME NEW ps, SideBySide(ps)
    PROVE  /\ DOMAIN PrintOutput(ps) = KeysOf(ps.inf.map)
           /\ \A i \in DOMAIN ps.inf.map, t \in kAccessTypes :
                /\ PrintOutput(ps)[ps.inf.map[i]][t] = Row(ps, ps.inf.map[i], t)
                /\ \A name : Printed(ps, name)[<<ps.inf.map[i], t>>]
                               = Column(Row(ps, ps.inf.map[i], t), name)
           /\ \A x \in Cells(ps.inf.map) : \E i \in DOMAIN ps.inf.map, t \in kAccessTypes :
                x = <<ps.inf.map[i], t>>
<1> DEFINE map == ps.inf.map
<1>1. KeysOf(map) = Keys(ps.inf)
  BY DEF KeysOf, Keys
<1>2. DOMAIN PrintOutput(ps) = KeysOf(map)
  BY <1>1 DEF PrintOutput
<1>3. ASSUME NEW i \in DOMAIN map, NEW t \in kAccessTypes
      PROVE  /\ PrintOutput(ps)[map[i]][t] = Row(ps, map[i], t)
             /\ \A name : Printed(ps, name)[<<map[i], t>>] = Column(Row(ps, map[i], t), name)
  <2>1. map[i] \in Keys(ps.inf) /\ <<map[i], t>> \in Cells(map)
    BY DEF Keys, Cells, KeysOf
  <2>2. PrintOutput(ps)[map[i]][t] = Row(ps, map[i], t)
    BY <2>1 DEF PrintOutput
  <2>3. \A name : Printed(ps, name)[<<map[i], t>>]
                    = Column(PrintOutput(ps)[map[i]][t], name)
    BY <2>1 DEF Printed
  <2> QED BY <2>2, <2>3
<1>4. ASSUME NEW x \in Cells(map)
      PROVE  \E i \in DOMAIN map, t \in kAccessTypes : x = <<map[i], t>>
  <2>1. PICK k \in KeysOf(map), t \in kAccessTypes : x = <<k, t>>
    BY DEF Cells
  <2>2. PICK i \in DOMAIN map : k = map[i]
    BY DEF KeysOf
  <2> QED BY <2>1, <2>2
<1> QED BY <1>2, <1>3, <1>4

(* The misses of a profile that reads like the infinite cache's, which are *)
(* too few to wrap around.                                                 *)
LEMMA PrintedMisses ==
    ASSUME NEW p, NEW q, p \in ProfileType, Covered(p), Unused(p), ReadsAlike(p, q),
           SeenSum(p) < Uint32, NEW w \in [Cells(p.map) -> Int],
           NEW u, SumSteps(u, w, Cells(p.map)),
           \A i \in DOMAIN p.map, t \in kAccessTypes :
               w[<<p.map[i], t>>] = q.rows[i][MissHitId(t, FALSE)]
    PROVE  u[Cells(p.map)] = MissSum(q) % Uint32
<1>1. q \in ProfileType /\ Covered(q) /\ q.map = p.map /\ Unused(q)
  BY ReadsUnused DEF ReadsAlike
<1>2. u[Cells(q.map)] = MissSum(q)
  <2>1. /\ w \in [Cells(q.map) -> Int] /\ SumSteps(u, w, Cells(q.map))
        /\ \A i \in DOMAIN q.map, t \in kAccessTypes :
               w[<<q.map[i], t>>] = q.rows[i][MissHitId(t, FALSE)]
    BY <1>1
  <2> QED BY <1>1, <2>1, SumOfMisses
<1>3. SeenSum(q) = SeenSum(p)
  <2> DEFINE v == [x \in Cells(p.map) |-> Seen(p, CHOOSE i \in DOMAIN p.map : p.map[i] = x[1], x[2])]
  <2>1. \A i \in DOMAIN p.map : (CHOOSE j \in DOMAIN p.map : p.map[j] = p.map[i]) = i
    BY DEF Covered
  <2>2. \A i \in DOMAIN p.map, t \in kAccessTypes : <<p.map[i], t>> \in Cells(p.map)
    BY DEF Cells, KeysOf
  <2>3. \A i \in DOMAIN p.map, t \in kAccessTypes : v[<<p.map[i], t>>] = Seen(p, i, t)
    BY <2>1, <2>2
  <2>4. v \in [Cells(p.map) -> Int]
    <3>1. ASSUME NEW x \in Cells(p.map)
          PROVE  Seen(p, CHOOSE i \in DOMAIN p.map : p.map[i] = x[1], x[2]) \in Int
      <4>1. x[2] \in kAccessTypes
        BY DEF Cells
      <4> QED BY <4>1, SeenNat
    <3> QED BY <3>1
  <2> HIDE DEF v
  <2>5. IsFiniteSet(Cells(p.map))
    BY CellsFinite DEF ProfileType
  <2>6. PICK s : SumSteps(s, v, Cells(p.map))
    BY <2>5, SumDefined
  <2>7. s[Cells(p.map)] = SeenSum(p)
    BY <2>3, <2>4, <2>6, SumOfSeen
  <2>8. \A i \in DOMAIN q.map, t \in kAccessTypes : v[<<q.map[i], t>>] = Seen(q, i, t)
    <3>1. ASSUME NEW i \in DOMAIN q.map, NEW t \in kAccessTypes
          PROVE  v[<<q.map[i], t>>] = Seen(q, i, t)
      <4>1. i \in DOMAIN p.map
        BY <1>1
      <4>2. Seen(q, i, t) = Seen(p, i, t)
        BY <4>1, ReadsCell
      <4> QED BY <1>1, <2>3, <4>1, <4>2
    <3> QED BY <3>1
  <2>9. v \in [Cells(q.map) -> Int] /\ SumSteps(s, v, Cells(q.map))
    BY <1>1, <2>4, <2>6
  <2>10. s[Cells(q.map)] = SeenSum(q)
    BY <1>1, <2>8, <2>9, SumOfSeen
  <2> QED BY <1>1, <2>7, <2>10
<1>4. MissSum(q) \in Nat /\ MissSum(q) <= SeenSum(q) /\ SeenSum(q) \in Nat
  BY <1>1, SumsAreNumbers
<1> DEFINE m == MissSum(q)
           n == SeenSum(q)
<1>5. m \in Nat /\ n \in Nat /\ m <= n /\ n < Uint32 /\ Uint32 \in Nat
  BY <1>3, <1>4, CounterAssumption
<1> HIDE DEF m, n
<1>6. m % Uint32 = m
  BY <1>5
<1> QED BY <1>1, <1>2, <1>6 DEF m

(* The sums over the columns that are checked against the totals.          *)
LEMMA PrintedTotals ==
    ASSUME NEW ps, SideBySide(ps), SeenSum(ps.inf) < Uint32, NEW name,
           NEW u, SumSteps(u, Printed(ps, name), Cells(ps.inf.map))
    PROVE  LET total == u[Cells(ps.inf.map)]
           IN  /\ name = "Reference" => total = SeenSum(ps.inf)
               /\ name = "Inf-miss" => total = MissSum(ps.inf) % Uint32
               /\ name = "FA-OPT-miss" => total = MissSum(ps.fa_opt) % Uint32
               /\ name = "SA-OPT-miss" => total = MissSum(ps.sa_opt) % Uint32
               /\ name = "SA-LRU-miss" => total = MissSum(ps.sa_lru) % Uint32
<1> DEFINE p == ps.inf
           w == Printed(ps, name)
           cells == Cells(p.map)
<1>1. /\ p \in ProfileType /\ Covered(p) /\ Unused(p) /\ ReadsAlike(p, p)
      /\ ReadsAlike(p, ps.fa_opt) /\ ReadsAlike(p, ps.sa_opt) /\ ReadsAlike(p, ps.sa_lru)
  BY DEF SideBySide, ReadsAlike
<1>2. w = [x \in cells |-> w[x]]
  BY DEF Printed
<1>3. \A i \in DOMAIN p.map, t \in kAccessTypes :
         w[<<p.map[i], t>>] = Column(Row(ps, p.map[i], t), name)
  BY PrintedIs
<1>4. \A x \in cells : \E i \in DOMAIN p.map, t \in kAccessTypes : x = <<p.map[i], t>>
  BY PrintedIs
<1>5. SumSteps(u, w, cells)
  OBVIOUS
<1> HIDE DEF w
<1>6. CASE name = "Reference"
  <2>1. \A i \in DOMAIN p.map, t \in kAccessTypes : w[<<p.map[i], t>>] = Seen(p, i, t)
    BY <1>3, <1>6, RowIs
  <2>2. w \in [cells -> Int]
    <3>1. ASSUME NEW x \in cells PROVE w[x] \in Int
      <4>1. PICK i \in DOMAIN p.map, t \in kAccessTypes : x = <<p.map[i], t>>
        BY <1>4
      <4>2. w[<<p.map[i], t>>] = Seen(p, i, t) /\ Seen(p, i, t) \in Nat
        BY <1>1, <2>1, SeenNat
      <4> HIDE DEF cells
      <4> QED BY <4>1, <4>2
    <3> QED BY <1>2, <3>1
  <2>3. u[cells] = SeenSum(p)
    BY <1>1, <1>5, <2>1, <2>2, SumOfSeen
  <2> QED BY <1>6, <2>3
<1>7. ASSUME NEW q, ReadsAlike(p, q),
             \A i \in DOMAIN p.map, t \in kAccessTypes :
                w[<<p.map[i], t>>] = q.rows[i][MissHitId(t, FALSE)]
      PROVE  u[cells] = MissSum(q) % Uint32
  <2>1. w \in [cells -> Int]
    <3>1. ASSUME NEW x \in cells PROVE w[x] \in Int
      <4>1. PICK i \in DOMAIN p.map, t \in kAccessTypes : x = <<p.map[i], t>>
        BY <1>4
      <4> DEFINE m == q.rows[i][MissHitId(t, FALSE)]
      <4>2. m \in Nat
        BY <1>1, <1>7, ReadsCell
      <4>3. w[<<p.map[i], t>>] = m
        BY <1>7
      <4> HIDE DEF cells, m
      <4> QED BY <4>1, <4>2, <4>3
    <3> QED BY <1>2, <3>1
  <2> QED BY <1>1, <1>5, <1>7, <2>1, PrintedMisses
<1>8. CASE name = "Inf-miss"
  <2>1. \A i \in DOMAIN p.map, t \in kAccessTypes :
           w[<<p.map[i], t>>] = p.rows[i][MissHitId(t, FALSE)]
    BY <1>3, <1>8, RowIs
  <2> QED BY <1>1, <1>7, <1>8, <2>1
<1>9. CASE name = "FA-OPT-miss"
  <2>1. \A i \in DOMAIN p.map, t \in kAccessTypes :
           w[<<p.map[i], t>>] = ps.fa_opt.rows[i][MissHitId(t, FALSE)]
    BY <1>3, <1>9, RowIs
  <2> QED BY <1>1, <1>7, <1>9, <2>1
<1>10. CASE name = "SA-OPT-miss"
  <2>1. \A i \in DOMAIN p.map, t \in kAccessTypes :
           w[<<p.map[i], t>>] = ps.sa_opt.rows[i][MissHitId(t, FALSE)]
    BY <1>3, <1>10, RowIs
  <2> QED BY <1>1, <1>7, <1>10, <2>1
<1>11. CASE name = "SA-LRU-miss"
  <2>1. \A i \in DOMAIN p.map, t \in kAccessTypes :
           w[<<p.map[i], t>>] = ps.sa_lru.rows[i][MissHitId(t, FALSE)]
    BY <1>3, <1>11, RowIs
  <2> QED BY <1>1, <1>7, <1>11, <2>1
<1> QED BY <1>6, <1>8, <1>9, <1>10, <1>11
=============================================================================
