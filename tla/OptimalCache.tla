----------------------------- MODULE OptimalCache -----------------------------
(***************************************************************************)
(* OptimalCache<cache_set::Optimal, ...> of cache.h: a cache with optimal  *)
(* replacement, simulated in one pass [Sugumar and Abraham, 1993].  The    *)
(* decision about a reference is put off until lookahead_distance_ further *)
(* references of its set are known: Lookahead appends a reference to the   *)
(* set's trace and tells the earlier reference to the same line when its   *)
(* line is used next, Process later takes references from the front of the *)
(* trace and decides hit or miss.                                          *)
(*                                                                         *)
(* A line in the set is known when its next use is in the trace, unknown   *)
(* otherwise.  The priority of a known line is larger the sooner it is     *)
(* used; the dummy priority of an unknown one is larger the earlier it was *)
(* last used, and always below that of a known line.  Unknown lines that   *)
(* had to leave, or were never let in, wait in the pool: if one turns out  *)
(* to be used after all, "stack repair" puts it back in place of a line    *)
(* that is still unknown.                                                  *)
(***************************************************************************)
EXTENDS BaseCache, FiniteSetsExt

CONSTANTS
    NumWays,            \* num_ways_
    Knobs,              \* pairs of values of the knobs "ld" and "pw"
    KMax,               \* kMax_, the largest INT64
    Addrs, Insts,       \* as in LruCache
    MaxRefs             \* bound of the model: references simulated

VARIABLES
    cache,      \* the C++ object
    finished    \* the traced program has ended and Fini has run

ASSUME OptAssumption ==
    /\ NumWays \in Nat \ {0}
    /\ Knobs \subseteq Nat \X Nat
    /\ MaxRefs \in Nat /\ KMax \in Nat /\ KMax > 2 * MaxRefs
    /\ Addrs \subseteq Nat /\ Insts \subseteq Nat

vars == <<cache, finished>>

-----------------------------------------------------------------------------
(* class Optimal: one set.                                                 *)

EmptyStack == << >>         \* an MStack: a partial function from tags

NewSet ==
    [known_tags_ |-> EmptyStack, unknown_tags_ |-> EmptyStack,
     unknown_tags_pool_ |-> EmptyStack, lookahead_trace_ |-> << >>,
     lookahead_ref_count_ |-> 0, ref_id_ |-> 0]

Put(stack, tag, priority) ==
    [t \in DOMAIN stack \cup {tag} |-> IF t = tag THEN priority ELSE stack[t]]
Drop(stack, tag) == [t \in DOMAIN stack \ {tag} |-> stack[t]]

(* The first of a stack's tags sorted by ascending priority.               *)
Lowest(stack) == CHOOSE t \in DOMAIN stack : \A u \in DOMAIN stack : stack[t] <= stack[u]

IsKnown(entry) == entry.next_ref # KMax

Size(set) == Cardinality(DOMAIN set.known_tags_) + Cardinality(DOMAIN set.unknown_tags_)

(* The entries of the trace still waiting for the next use of tag.         *)
Waiting(set, tag) ==
    {i \in DOMAIN set.lookahead_trace_ :
        /\ set.lookahead_trace_[i].tag = tag
        /\ ~IsKnown(set.lookahead_trace_[i])}

(* Bug: the entry keeps the priority of an unknown line.                   *)
ResolveNextUseOnly(set, tag) ==
    [set EXCEPT !.lookahead_trace_[Min(Waiting(set, tag))].next_ref = set.ref_id_]

ResolveNextUse(set, tag) ==
    [set EXCEPT !.lookahead_trace_[Min(Waiting(set, tag))] =
        [@ EXCEPT !.next_ref = set.ref_id_, !.priority = KMax - set.ref_id_]]

BecomeKnown(set, tag) ==
    [set EXCEPT !.known_tags_ = Put(@, tag, KMax - set.ref_id_),
                !.unknown_tags_ = Drop(@, tag)]

(* The unknown lines a pooled tag may replace: those of higher priority.   *)
Repairable(set, tag) ==
    [t \in {u \in DOMAIN set.unknown_tags_ :
                set.unknown_tags_[u] > set.unknown_tags_pool_[tag]}
        |-> set.unknown_tags_[t]]

Repair(set, tag) ==
    LET out == Lowest(Repairable(set, tag))
    IN  [set EXCEPT
           !.known_tags_ = Put(@, tag, KMax - set.ref_id_),
           !.unknown_tags_ = Drop(@, out),
           !.unknown_tags_pool_ = Put(Drop(@, tag), out, set.unknown_tags_[out])]

(* Bug: lines that were let in as unknown stay unknown.                    *)
LearnTraceOnly(set, tag) ==
    IF Waiting(set, tag) # {} THEN ResolveNextUse(set, tag) ELSE set

(* Bug: no stack repair.                                                   *)
LearnNoRepair(set, tag) ==
    CASE Waiting(set, tag) # {} -> ResolveNextUse(set, tag)
      [] Waiting(set, tag) = {} /\ tag \in DOMAIN set.unknown_tags_ -> BecomeKnown(set, tag)
      [] OTHER -> set

(* What the set learns from one more reference to tag.                     *)
Learn(set, tag) ==
    CASE Waiting(set, tag) # {} -> ResolveNextUse(set, tag)
      [] Waiting(set, tag) = {} /\ tag \in DOMAIN set.unknown_tags_ -> BecomeKnown(set, tag)
      [] /\ Waiting(set, tag) = {}
         /\ tag \in DOMAIN set.unknown_tags_pool_ \ DOMAIN set.unknown_tags_
         /\ DOMAIN Repairable(set, tag) # {} -> Repair(set, tag)
      [] OTHER -> set

(* ref and Lookahead.  (num_repairs_ is counted but read nowhere.)         *)
Lookahead(set, tag, inst_id, addr_id, access_type, epoch) ==
    LET learned == Learn([set EXCEPT !.ref_id_ = @ + 1], tag)
        entry   == [tag |-> tag, inst_id |-> inst_id, addr_id |-> addr_id,
                    access_type |-> access_type, next_ref |-> KMax,
                    priority |-> -learned.ref_id_, epoch |-> epoch]
    IN  [learned EXCEPT !.lookahead_trace_ = Append(@, entry),
                        !.lookahead_ref_count_ = @ + 1]

-----------------------------------------------------------------------------
(* One iteration of Process: the decision about a trace entry.             *)

IsHit(set, entry) == entry.tag \in DOMAIN set.known_tags_

Insert(set, entry) ==
    IF IsKnown(entry)
    THEN [set EXCEPT !.known_tags_ = Put(@, entry.tag, entry.priority)]
    ELSE [set EXCEPT !.unknown_tags_ = Put(@, entry.tag, entry.priority)]

(* A hit or a set with room: the line is in, with its new priority.        *)
Keep(set, entry) ==
    Insert([set EXCEPT !.known_tags_ = Drop(@, entry.tag)], entry)

(* Full, all lines known: the one used last makes room, or none does.      *)
ReplaceKnown(set, entry) ==
    LET out == Lowest(set.known_tags_)
    IN  IF set.known_tags_[out] < entry.priority
        THEN [set EXCEPT !.known_tags_ = Put(Drop(@, out), entry.tag, entry.priority)]
        ELSE set

(* Bug: nothing makes room for the new line.                               *)
ReplaceUnknownKeeps(set, entry) ==
    [set EXCEPT !.known_tags_ = Put(@, entry.tag, entry.priority)]

(* Bug: the line that leaves is pooled with the priority of the new one.   *)
ReplaceUnknownMixed(set, entry) ==
    LET out == Lowest(set.unknown_tags_)
    IN  [set EXCEPT
           !.known_tags_ = Put(@, entry.tag, entry.priority),
           !.unknown_tags_ = Drop(@, out),
           !.unknown_tags_pool_ = Put(@, out, entry.priority)]

(* Full, some line unknown: the unknown line used most recently goes.      *)
ReplaceUnknown(set, entry) ==
    LET out == Lowest(set.unknown_tags_)
    IN  [set EXCEPT
           !.known_tags_ = Put(@, entry.tag, entry.priority),
           !.unknown_tags_ = Drop(@, out),
           !.unknown_tags_pool_ = Put(@, out, set.unknown_tags_[out])]

(* Full, and nothing known of the entry: it is not let in.                 *)
Bypass(set, entry) ==
    [set EXCEPT !.unknown_tags_pool_ = Put(@, entry.tag, entry.priority)]

Decide(set, entry) ==
    CASE IsHit(set, entry) \/ Size(set) < NumWays -> Keep(set, entry)
      [] /\ ~IsHit(set, entry) /\ Size(set) >= NumWays /\ IsKnown(entry)
         /\ DOMAIN set.unknown_tags_ = {} -> ReplaceKnown(set, entry)
      [] /\ ~IsHit(set, entry) /\ Size(set) >= NumWays /\ IsKnown(entry)
         /\ DOMAIN set.unknown_tags_ # {} -> ReplaceUnknown(set, entry)
      [] OTHER -> Bypass(set, entry)

ClearPool(set) ==
    IF DOMAIN set.unknown_tags_ = {} THEN [set EXCEPT !.unknown_tags_pool_ = EmptyStack]
                                     ELSE set

(* The front entry of set s leaves the trace and is counted.               *)
ProcessOne(c, s) ==
    LET set    == c.sets_[s]
        entry  == Head(set.lookahead_trace_)
        is_hit == IsHit(set, entry)
        count(profile, row) == CountRow(profile, row, entry.access_type, is_hit)
    IN  [c EXCEPT
           !.sets_[s] = [ClearPool(Decide(set, entry)) EXCEPT !.lookahead_trace_ = Tail(@)],
           !.of_inst_ = count(@, entry.inst_id),
           !.of_addr_ = count(@, entry.addr_id),
           !.of_time_ = count(@, entry.epoch),
           !.miss_hit_ = Inc(@, is_hit)]

(* Bug: the number of entries left in the trace is taken to be 0.          *)
ProcessForgets(c, s, iterations) ==
    LET after[n \in 0 .. iterations] ==
            IF n = 0 THEN c
            ELSE IF after[n - 1].sets_[s].lookahead_trace_ = << >> THEN after[n - 1]
            ELSE ProcessOne(after[n - 1], s)
    IN  [after[iterations] EXCEPT !.sets_[s].lookahead_ref_count_ = 0]

Process(c, s, iterations) ==
    LET after[n \in 0 .. iterations] ==
            IF n = 0 THEN c
            ELSE IF after[n - 1].sets_[s].lookahead_trace_ = << >> THEN after[n - 1]
            ELSE ProcessOne(after[n - 1], s)
    IN  [after[iterations] EXCEPT !.sets_[s].lookahead_ref_count_ = c.lookahead_distance_]

-----------------------------------------------------------------------------
(* class OptimalCache.                                                     *)

(* As many references of a set are looked at before any is decided.        *)
Horizon == cache.lookahead_distance_ + cache.process_window_

(* Access and Fetch.  A fetch maps no data address and is given addr_id 0, *)
(* the row of the first data address.                                      *)
Enter(inst, addr, access_type, is_fetch) ==
    LET tag   == TagOf(addr)
        s     == SetIndexOf(tag)
        insts == MapKey(cache.of_inst_, inst)
        addrs == IF is_fetch THEN cache.of_addr_ ELSE MapKey(cache.of_addr_, addr)
        times == MapKey(cache.of_time_, Epoch(cache.ref_id_))
        set   == Lookahead(cache.sets_[s], tag, RowOf(insts, inst),
                           IF is_fetch THEN 1 ELSE RowOf(addrs, addr),
                           access_type, RowOf(times, Epoch(cache.ref_id_)))
        entered == [cache EXCEPT !.sets_[s] = set, !.ref_id_ = @ + 1,
                                 !.of_inst_ = insts, !.of_addr_ = addrs, !.of_time_ = times]
    IN  cache' = IF set.lookahead_ref_count_ >= Horizon
                 THEN Process(entered, s, cache.process_window_)
                 ELSE entered

Access(inst, addr, access_type) == Enter(inst, addr, access_type, FALSE)
Fetch(inst) == Enter(inst, inst, kLoad, TRUE)

(* What Fini does to the cache before it reads the results.                *)
AllProcessed ==
    LET after[n \in 0 .. NumSets] ==
            IF n = 0 THEN cache
            ELSE Process(after[n - 1], n - 1, Horizon)
    IN  after[NumSets]

ProcessAllSets == cache' = AllProcessed

NewCache(ld, pw) ==
    [lookahead_distance_ |-> ld,
     process_window_      |-> pw,
     sets_     |-> [s \in SetIndex |-> NewSet],
     ref_id_   |-> 0,
     miss_hit_ |-> NewMissHit,
     of_inst_  |-> NewProfile,
     of_addr_  |-> NewProfile,
     of_time_  |-> NewProfile]

Init ==
    /\ \E knobs \in Knobs : cache = NewCache(knobs[1], knobs[2])
    /\ finished = FALSE

Run ==
    /\ ~finished
    /\ cache.ref_id_ < MaxRefs
    /\ \E inst \in Insts :
         \/ \E addr \in Addrs, access_type \in kAccessTypes : Access(inst, addr, access_type)
         \/ Fetch(inst)
    /\ UNCHANGED finished

Fini ==
    /\ ~finished
    /\ ProcessAllSets
    /\ finished' = TRUE

Next == Run \/ Fini

Spec == Init /\ [][Next]_vars

-----------------------------------------------------------------------------
(***************************************************************************)
(* Properties.                                                             *)
(***************************************************************************)

Tags == {TagOf(a) : a \in Addrs \cup Insts}

IsStack(stack) == DOMAIN stack \subseteq Tags /\ \A t \in DOMAIN stack : stack[t] \in Int

EntryType == [tag : Tags, inst_id : Nat \ {0}, addr_id : Nat \ {0}, access_type : kAccessTypes,
              next_ref : Nat, priority : Int, epoch : Nat \ {0}]

IsSet(set) ==
    /\ set \in [known_tags_ : {set.known_tags_}, unknown_tags_ : {set.unknown_tags_},
                unknown_tags_pool_ : {set.unknown_tags_pool_}, lookahead_trace_ : Seq(EntryType),
                lookahead_ref_count_ : Nat, ref_id_ : Nat]
    /\ IsStack(set.known_tags_) /\ IsStack(set.unknown_tags_)
    /\ IsStack(set.unknown_tags_pool_)

(* Type correctness: the shape of every field of the cache object.         *)
TypeOK ==
    /\ finished \in BOOLEAN
    /\ cache \in [lookahead_distance_ : Nat,
                  process_window_     : Nat,
                  sets_     : [SetIndex -> {cache.sets_[s] : s \in SetIndex}],
                  ref_id_   : Nat,
                  miss_hit_ : (0 .. Uint32 - 1) \X (0 .. Uint32 - 1),
                  of_inst_  : ProfileType,
                  of_addr_  : ProfileType,
                  of_time_  : ProfileType]
    /\ \A s \in SetIndex : IsSet(cache.sets_[s])

(* The reference of the set that entry i of its trace stands for.          *)
RefOf(set, i) == set.ref_id_ - Len(set.lookahead_trace_) + i

NextUse(set, i) ==
    LET trace == set.lookahead_trace_
    IN  {j \in i + 1 .. Len(trace) : trace[j].tag = trace[i].tag}

(* Lookahead knows the future as far as the trace goes: an entry is known  *)
(* exactly when its line occurs again later in the trace, with the id of   *)
(* its next occurrence, and its priority says when that is, or when it was *)
(* last used itself.                                                       *)
TraceLinked ==
    \A s \in SetIndex :
        LET set == cache.sets_[s]
            trace == set.lookahead_trace_
        IN  \A i \in DOMAIN trace :
              IF NextUse(set, i) = {}
              THEN ~IsKnown(trace[i]) /\ trace[i].priority = -RefOf(set, i)
              ELSE LET next == RefOf(set, Min(NextUse(set, i)))
                   IN  trace[i].next_ref = next /\ trace[i].priority = KMax - next

(* What Process asserts: a set never holds more lines than it has ways,    *)
(* whatever Lookahead did to its stacks in between; no line is both known  *)
(* and unknown.                                                            *)
StackFits ==
    \A s \in SetIndex :
        LET set == cache.sets_[s]
        IN  /\ Size(set) <= NumWays
            /\ DOMAIN set.known_tags_ \cap DOMAIN set.unknown_tags_ = {}

(* The stack and the trace agree on the future: a line is known exactly    *)
(* until its next occurrence in the trace, which its priority names, and   *)
(* an unknown line does not occur there.                                   *)
KnownUntilNextUse ==
    \A s \in SetIndex :
        LET set == cache.sets_[s]
            occurs(t) == {i \in DOMAIN set.lookahead_trace_ : set.lookahead_trace_[i].tag = t}
        IN  /\ \A t \in DOMAIN set.known_tags_ :
                 /\ occurs(t) # {}
                 /\ set.known_tags_[t] = KMax - RefOf(set, Min(occurs(t)))
            /\ \A t \in DOMAIN set.unknown_tags_ : occurs(t) = {}

(* No reference is lost or counted twice: those not yet counted as a hit   *)
(* or a miss are in a trace, lookahead_ref_count_ says how many, and when  *)
(* the program has ended there are none.                                   *)
EveryReferenceCounted ==
    LET waiting(s) == Len(cache.sets_[s].lookahead_trace_)
    IN  /\ (cache.miss_hit_[1] + cache.miss_hit_[2] + MapThenSumSet(waiting, SetIndex)) % Uint32
              = cache.ref_id_ % Uint32
        /\ \A s \in SetIndex :
              IF finished
              THEN waiting(s) = 0
              ELSE /\ waiting(s) = cache.sets_[s].lookahead_ref_count_
                   /\ waiting(s) < Horizon
=============================================================================
