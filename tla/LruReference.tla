----------------------------- MODULE LruReference -----------------------------
(***************************************************************************)
(* What a set-associative cache with least-recently-used replacement       *)
(* promises, without lists, maps or evictions: a reference hits exactly    *)
(* when its line was referenced before and fewer than NumWays other lines  *)
(* of its set were referenced since (its stack distance is less than the   *)
(* associativity).                                                         *)
(***************************************************************************)
EXTENDS Integers, FiniteSets

CONSTANTS
    Lines,          \* the lines (tags) that can be referenced
    SetOf(_),       \* the set a line belongs to
    Ways,           \* associativity
    Range32         \* the totals are counted modulo this

VARIABLES
    clock,          \* references so far
    last_ref,       \* last_ref[l]: when l was last referenced, 0 if never
    misses,
    hits

vars == <<clock, last_ref, misses, hits>>

(* The lines of l's set referenced after l.                                *)
Rivals(l) == {m \in Lines : SetOf(m) = SetOf(l) /\ last_ref[m] > last_ref[l]}

Hits(l) == last_ref[l] > 0 /\ Cardinality(Rivals(l)) < Ways

Init ==
    /\ clock = 0
    /\ last_ref = [l \in Lines |-> 0]
    /\ misses = 0
    /\ hits = 0

Touch(l) ==
    /\ clock' = clock + 1
    /\ last_ref' = [last_ref EXCEPT ![l] = clock + 1]

Hit(l) ==
    /\ Hits(l)
    /\ Touch(l)
    /\ hits' = (hits + 1) % Range32
    /\ UNCHANGED misses

Miss(l) ==
    /\ ~Hits(l)
    /\ Touch(l)
    /\ misses' = (misses + 1) % Range32
    /\ UNCHANGED hits

Next == \E l \in Lines : Hit(l) \/ Miss(l)

Spec == Init /\ [][Next]_vars
=============================================================================
