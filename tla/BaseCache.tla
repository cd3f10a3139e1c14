------------------------------ MODULE BaseCache ------------------------------
(***************************************************************************)
(* What every simulated cache has, whatever its replacement policy: the    *)
(* geometry and address arithmetic of class BaseCache (cache.h), and the   *)
(* profiles of misc.h in which hits and misses are counted.                *)
(*                                                                         *)
(* A profile gives every key (an instruction address, a data address or a  *)
(* time epoch) a compact index in order of first use, and keeps an array   *)
(* of eight counters per index.  C++ indices start at 0; index i of the    *)
(* code is position i + 1 of the sequences here.                           *)
(***************************************************************************)
EXTENDS Integers, Sequences

CONSTANTS
    LineSize,       \* line_size_: bytes per line
    NumSets,        \* num_sets_ = size / (num_ways * line_size)
    Kilo,           \* KILO: references per epoch of the time profile
    InitialRows,    \* default_initial_counter_size_ of a profile
    Uint32          \* 2^w: the range of the UINT32 hit and miss totals

IsPower2(n) == \E k \in 0..n : n = 2^k

(* The assertions of BaseCache's constructor, and what the declared sizes  *)
(* imply.                                                                  *)
ASSUME GeometryAssumption ==
    /\ NumSets \in Nat \ {0} /\ IsPower2(NumSets)
    /\ LineSize \in Nat \ {0} /\ IsPower2(LineSize)

ASSUME CounterAssumption ==
    /\ Kilo \in Nat \ {0}
    /\ InitialRows \in Nat \ {0}
    /\ Uint32 \in Nat \ {0}

kLoad  == 0
kStore == 1
kAccessTypes == {kLoad, kStore}

-----------------------------------------------------------------------------
(* SplitAddr.  num_sets is a power of two, so the mask is a remainder.     *)

TagOf(addr) == addr \div LineSize
SetIndexOf(tag) == tag % NumSets
SetIndex == 0 .. NumSets - 1

Epoch(ref_id) == ref_id \div Kilo

-----------------------------------------------------------------------------
(* Profiles.                                                               *)

B2I(b) == IF b THEN 1 ELSE 0

CounterId == 0..7
MissHitId(access_type, is_hit) == access_type * 2 + B2I(is_hit)
MruId(access_type, is_mru) == 4 + access_type * 2 + B2I(is_mru)

NewRow == [c \in CounterId |-> 0]
NewProfile == [map |-> << >>, rows |-> [i \in 1..InitialRows |-> NewRow]]

ProfileType == [map : Seq(Nat), rows : Seq([CounterId -> Nat])]

(* Bug: only the last key is remembered.                                   *)
IsMappedLast(profile, key) ==
    LET n == Len(profile.map) IN n > 0 /\ profile.map[n] = key

IsMapped(profile, key) == \E i \in DOMAIN profile.map : profile.map[i] = key

(* CompressorCounter::Map: a new key takes the next index, and the rows    *)
(* double when the index would be the last one.                            *)
MapKey(profile, key) ==
    LET map   == IF IsMapped(profile, key) THEN profile.map
                                           ELSE Append(profile.map, key)
        index == CHOOSE i \in DOMAIN map : map[i] = key
        grown == profile.rows \o [i \in DOMAIN profile.rows |-> NewRow]
    IN  [map  |-> map,
         rows |-> IF index >= Len(profile.rows) THEN grown ELSE profile.rows]

(* Bug: the row before that of the key.                                    *)
RowOfBefore(profile, key) == (CHOOSE i \in DOMAIN profile.map : profile.map[i] = key) - 1

RowOf(profile, key) == CHOOSE i \in DOMAIN profile.map : profile.map[i] = key

Bump(profile, row, counter) == [profile EXCEPT !.rows[row][counter] = @ + 1]

(* IncInst, IncAddr and IncTime for an optimal cache.                      *)
CountRow(profile, row, access_type, is_hit) ==
    Bump(profile, row, MissHitId(access_type, is_hit))

(* Bug: a miss is counted as MRU or not, too.                              *)
CountRowMruAlways(profile, row, access_type, is_hit, is_mru) ==
    Bump(CountRow(profile, row, access_type, is_hit), row, MruId(access_type, is_mru))

(* The same for a realistic cache: a hit is counted once more, by whether  *)
(* it hit the most recently used line.                                     *)
CountRowMru(profile, row, access_type, is_hit, is_mru) ==
    LET counted == CountRow(profile, row, access_type, is_hit)
    IN  IF is_hit THEN Bump(counted, row, MruId(access_type, is_mru))
                  ELSE counted

CountKeyMru(profile, key, access_type, is_hit, is_mru) ==
    LET mapped == MapKey(profile, key)
    IN  CountRowMru(mapped, RowOf(mapped, key), access_type, is_hit, is_mru)

(* Inc: the totals are UINT32.  miss_hit[1] is miss_hit_[0], the misses.   *)
NewMissHit == <<0, 0>>

Inc(miss_hit, is_hit) ==
    [miss_hit EXCEPT ![1 + B2I(is_hit)] = (@ + 1) % Uint32]

-----------------------------------------------------------------------------
(* What the properties of the caches say about profiles.                   *)

(* Every index given out has a row, and no two keys share an index.        *)
Covered(profile) ==
    /\ Len(profile.map) < Len(profile.rows)
    /\ \A i, j \in DOMAIN profile.map : profile.map[i] = profile.map[j] => i = j

(* The sum of a counter over the rows of a profile.                        *)
ColumnSum(profile, counter) ==
    LET upto[n \in 0..Len(profile.rows)] ==
          IF n = 0 THEN 0 ELSE upto[n - 1] + profile.rows[n][counter]
    IN  upto[Len(profile.rows)]
=============================================================================
