------------------------------ MODULE CacheLevel ------------------------------
(***************************************************************************)
(* One level of the simulated hierarchy (DL1, IL1 or UL2 of cache.cpp):    *)
(* the four caches that see the same references, so that the misses of the *)
(* real one can be classified.                                             *)
(***************************************************************************)
EXTENDS CacheReport, FiniteSetsExt

CONSTANTS
    NumWays,            \* associativity of the level
    InitialMruIds, LookaheadDistance, ProcessWindow, KMax,
    Addrs, Insts, MaxRefs

VARIABLES inf, fa_opt, sa_opt, sa_lru, finished

Inf   == INSTANCE InfiniteCache WITH cache <- inf
FaOpt == INSTANCE OptimalCache WITH
           cache <- fa_opt, NumWays <- NumSets * NumWays, NumSets <- 1,
           Knobs <- {<<LookaheadDistance, ProcessWindow>>}
SaOpt == INSTANCE OptimalCache WITH
           cache <- sa_opt, Knobs <- {<<LookaheadDistance, ProcessWindow>>}
SaLru == INSTANCE LruCache WITH cache <- sa_lru, WriteAllocate <- TRUE, Sizes <- {}

Init ==
    /\ Inf!Init
    /\ fa_opt = FaOpt!NewCache(LookaheadDistance, ProcessWindow)
    /\ sa_opt = SaOpt!NewCache(LookaheadDistance, ProcessWindow)
    /\ SaLru!Init

Access(inst, addr, access_type) ==
    /\ Inf!Access(inst, addr, access_type)
    /\ FaOpt!Access(inst, addr, access_type)
    /\ SaOpt!Access(inst, addr, access_type)
    /\ SaLru!AccessSingleLine(inst, addr, access_type)

(* Bug: one of the caches takes the fetch for a load.                      *)
FetchAsLoad(inst) ==
    /\ Inf!Fetch(inst)
    /\ FaOpt!Fetch(inst)
    /\ SaOpt!Access(inst, inst, kLoad)
    /\ SaLru!FetchSingleLine(inst)

Fetch(inst) ==
    /\ Inf!Fetch(inst)
    /\ FaOpt!Fetch(inst)
    /\ SaOpt!Fetch(inst)
    /\ SaLru!FetchSingleLine(inst)

(* The result an access or a fetch returns: that of the real cache.        *)
IsHit(addr) ==
    LET tag == TagOf(addr)
    IN  SaLru!IsHit(sa_lru.sets_[SetIndexOf(tag)], tag)

(* Bug: the set-associative cache keeps its undecided references.          *)
ProcessOneCache ==
    /\ FaOpt!ProcessAllSets
    /\ UNCHANGED <<inf, sa_opt, sa_lru>>

ProcessAllSets ==
    /\ FaOpt!ProcessAllSets
    /\ SaOpt!ProcessAllSets
    /\ UNCHANGED <<inf, sa_lru>>

InstProfiles == [inf    |-> inf.of_inst_,    fa_opt |-> fa_opt.of_inst_,
                 sa_opt |-> sa_opt.of_inst_, sa_lru |-> sa_lru.of_inst_]
AddrProfiles == [inf    |-> inf.of_addr_,    fa_opt |-> fa_opt.of_addr_,
                 sa_opt |-> sa_opt.of_addr_, sa_lru |-> sa_lru.of_addr_]
TimeProfiles == [inf    |-> inf.of_time_,    fa_opt |-> fa_opt.of_time_,
                 sa_opt |-> sa_opt.of_time_, sa_lru |-> sa_lru.of_time_]

(* FiniAddr prints before the optimal caches have processed all their      *)
(* sets, FiniElse after.                                                   *)
ReportAddr == PrintOutput(AddrProfiles)
(* Bug: the instruction and time profiles are read before that, too.       *)
ReportRestEarly ==
    [inst  |-> PrintOutput(InstProfiles),
     time  |-> PrintOutput(TimeProfiles),
     stats |-> PrintMissStats(inf', fa_opt', sa_opt', sa_lru')]

ReportRest ==
    [inst  |-> PrintOutput(InstProfiles'),
     time  |-> PrintOutput(TimeProfiles'),
     stats |-> PrintMissStats(inf', fa_opt', sa_opt', sa_lru')]

-----------------------------------------------------------------------------
(***************************************************************************)
(* Properties of a level.                                                  *)
(***************************************************************************)

(* The four caches give every key the same index: PrintOutput asserts no   *)
(* more than that they have as many keys, and then reads the rows of all   *)
(* four at the index of the infinite cache.                                *)
SameIndices ==
    \A profiles \in {InstProfiles, AddrProfiles, TimeProfiles} :
        \A c \in {"fa_opt", "sa_opt", "sa_lru"} : profiles[c].map = profiles.inf.map

(* The misses of the four caches grow with the restrictions, so that none  *)
(* of the differences PrintMissStats prints wraps around below zero.       *)
Classified(stats) ==
    stats.total = stats.cold + stats.capacity + stats.mapping + stats.replacement
=============================================================================
