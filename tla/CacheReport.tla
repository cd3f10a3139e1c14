------------------------------ MODULE CacheReport ------------------------------
(***************************************************************************)
(* What the simulator prints when the program ends (PrintOutput and        *)
(* PrintMissStats of cache.cpp).  A level of the hierarchy is simulated by *)
(* four caches at once: infinite, fully associative and optimal, set       *)
(* associative and optimal, and the real one, set associative and LRU.     *)
(* The differences between their misses are the cold, capacity, mapping    *)
(* and replacement misses of the real cache.                               *)
(*                                                                         *)
(* A row is a sequence of numbers under the names of Header.               *)
(***************************************************************************)
EXTENDS BaseCache, FiniteSets

CONSTANT Uint64         \* 2^w: the range of the UINT64 PrintMissStats prints

Header == <<"Reference", "Inf-miss", "FA-OPT-miss", "SA-OPT-miss", "SA-LRU-miss",
            "Hit", "Cap-miss", "Map-miss", "Repl-miss", "Cold-miss",
            "Hit-not-MRU", "Hit-MRU">>

(* The rows of all four profiles are read at the index the infinite cache  *)
(* gave the key.                                                           *)
Row(profiles, key, access_type) ==
    LET row == RowOf(profiles.inf, key)
        read(profile, counter) == profile.rows[row][counter]
        misses(profile) == read(profile, MissHitId(access_type, FALSE))
        references == misses(profiles.inf) + read(profiles.inf, MissHitId(access_type, TRUE))
    IN  <<references,
          misses(profiles.inf), misses(profiles.fa_opt),
          misses(profiles.sa_opt), misses(profiles.sa_lru),
          references - misses(profiles.sa_lru),
          misses(profiles.inf),
          misses(profiles.fa_opt) - misses(profiles.inf),
          misses(profiles.sa_opt) - misses(profiles.fa_opt),
          misses(profiles.sa_lru) - misses(profiles.sa_opt),
          read(profiles.sa_lru, MruId(access_type, FALSE)),
          read(profiles.sa_lru, MruId(access_type, TRUE))>>

Keys(profile) == {profile.map[i] : i \in DOMAIN profile.map}

(* PrintOutput: two rows, loads and stores, for each key.                  *)
PrintOutput(profiles) ==
    [key \in Keys(profiles.inf) |->
        [access_type \in kAccessTypes |-> Row(profiles, key, access_type)]]

(* PrintMissStats: the same differences of the totals, in unsigned         *)
(* arithmetic.                                                             *)
PrintMissStats(inf, fa_opt, sa_opt, sa_lru) ==
    LET misses(cache) == cache.miss_hit_[1]
    IN  [references  |-> (misses(sa_lru) + sa_lru.miss_hit_[2]) % Uint32,
         total       |-> misses(sa_lru),
         cold        |-> misses(inf),
         capacity    |-> (misses(fa_opt) - misses(inf)) % Uint64,
         mapping     |-> (misses(sa_opt) - misses(fa_opt)) % Uint64,
         replacement |-> (misses(sa_lru) - misses(sa_opt)) % Uint64]

-----------------------------------------------------------------------------
Column(row, name) == row[CHOOSE i \in DOMAIN Header : Header[i] = name]
=============================================================================
