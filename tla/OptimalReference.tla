--------------------------- MODULE OptimalReference ---------------------------
(***************************************************************************)
(* OptimalCache against the definition of optimal replacement: of all ways *)
(* to choose what to keep, and whether to let a line in at all, with the   *)
(* whole future in view, none has fewer misses.                            *)
(*                                                                         *)
(* cost[s] is a history variable.  It maps every set of lines that some    *)
(* sequence of choices could have left resident in set s to the least      *)
(* number of misses such a sequence takes.  used[s] says when each line of *)
(* s was last referenced.  Neither constrains the cache.                   *)
(***************************************************************************)
EXTENDS OptimalCache

VARIABLES cost, used

hvars == <<cache, finished, cost, used>>

(* What can be resident after a reference to tag finds the lines in        *)
(* "resident": the same lines, or tag and any of them that fit beside it.  *)
Outcomes(resident, tag) ==
    IF tag \in resident
    THEN {resident}
    ELSE {resident} \cup {kept \cup {tag} : kept \in
             {k \in SUBSET resident : Cardinality(k) < NumWays}}

(* The cost function after one more reference to tag.                      *)
CostAfter(paid, tag) ==
    LET outcomes == UNION {Outcomes(r, tag) : r \in DOMAIN paid}
        misses(r) == paid[r] + B2I(tag \notin r)
    IN  [o \in outcomes |->
            Min({misses(r) : r \in {q \in DOMAIN paid : o \in Outcomes(q, tag)}})]

LeastMisses(s) == Min({cost[s][r] : r \in DOMAIN cost[s]})

HInit ==
    /\ Init
    /\ cost = [s \in SetIndex |-> [r \in {{}} |-> 0]]
    /\ used = [s \in SetIndex |-> EmptyStack]

Remember(addr) ==
    LET tag == TagOf(addr)
        s == SetIndexOf(tag)
    IN  /\ cost' = [cost EXCEPT ![s] = CostAfter(@, tag)]
        /\ used' = [used EXCEPT ![s] = Put(@, tag, cache'.sets_[s].ref_id_)]

HNext ==
    \/ /\ ~finished
       /\ cache.ref_id_ < MaxRefs
       /\ \E inst \in Insts :
            \/ \E addr \in Addrs, access_type \in kAccessTypes :
                  Access(inst, addr, access_type) /\ Remember(addr)
            \/ Fetch(inst) /\ Remember(inst)
       /\ UNCHANGED finished
    \/ Fini /\ UNCHANGED <<cost, used>>

HSpec == HInit /\ [][HNext]_hvars

-----------------------------------------------------------------------------
(* The cache is optimal: after Fini it has counted as many misses as the   *)
(* best possible replacement would have had, whatever the lookahead        *)
(* distance and the process window: the two "just affect the execution     *)
(* speed" (cache.cpp, at the knobs).                                       *)
MissesAreOptimal ==
    finished => cache.miss_hit_[1] = MapThenSumSet(LeastMisses, SetIndex) % Uint32

(* A repair compares how recently lines were used, so the pool and the     *)
(* unknown lines have to know it.  An entry of the pool that a repair can  *)
(* look at, one whose line is neither in the set nor in the trace, is      *)
(* never stale.                                                            *)
RepairsSeeLastUse ==
    \A s \in SetIndex :
        LET set == cache.sets_[s]
            traced == {set.lookahead_trace_[i].tag : i \in DOMAIN set.lookahead_trace_}
        IN  /\ \A t \in DOMAIN set.unknown_tags_ : set.unknown_tags_[t] = -used[s][t]
            /\ \A t \in DOMAIN set.unknown_tags_pool_ \ (DOMAIN set.unknown_tags_ \cup traced) :
                  set.unknown_tags_pool_[t] = -used[s][t]
=============================================================================
