---------------------------- MODULE CacheSimulator ----------------------------
(***************************************************************************)
(* The pintool of cache.cpp: the analysis calls that Pin makes before the  *)
(* loads, stores and instructions of the traced program, and Fini.  Two    *)
(* first-level caches, for data and for instructions, filter the           *)
(* references that reach a unified second level: it sees the misses of     *)
(* their LRU caches.                                                       *)
(*                                                                         *)
(* The variables are the global cache objects, the report Fini writes and  *)
(* whether it has.                                                         *)
(***************************************************************************)
EXTENDS Integers, Sequences, FiniteSetsExt

CONSTANTS
    LineSize, Kilo, InitialRows, Uint32, Uint64,
    KnobDL1, KnobIL1, KnobUL2,          \* which caches are simulated
    DL1NumSets, DL1NumWays, IL1NumSets, IL1NumWays, UL2NumSets, UL2NumWays,
    InitialMruIds, KnobLookaheadDistance, KnobProcessWindow, KMax,
    Addrs, Insts, MaxRefs

VARIABLES
    inf_dl1, fa_opt_dl1, sa_opt_dl1, sa_lru_dl1,
    inf_il1, fa_opt_il1, sa_opt_il1, sa_lru_il1,
    inf_ul2, fa_opt_ul2, sa_opt_ul2, sa_lru_ul2,
    current,            \* the instruction being analysed, and its calls to come
    report, finished

DL1 == INSTANCE CacheLevel WITH
    inf <- inf_dl1, fa_opt <- fa_opt_dl1, sa_opt <- sa_opt_dl1, sa_lru <- sa_lru_dl1,
    NumSets <- DL1NumSets, NumWays <- DL1NumWays,
    LookaheadDistance <- KnobLookaheadDistance, ProcessWindow <- KnobProcessWindow

IL1 == INSTANCE CacheLevel WITH
    inf <- inf_il1, fa_opt <- fa_opt_il1, sa_opt <- sa_opt_il1, sa_lru <- sa_lru_il1,
    NumSets <- IL1NumSets, NumWays <- IL1NumWays,
    LookaheadDistance <- KnobLookaheadDistance, ProcessWindow <- KnobProcessWindow

UL2 == INSTANCE CacheLevel WITH
    inf <- inf_ul2, fa_opt <- fa_opt_ul2, sa_opt <- sa_opt_ul2, sa_lru <- sa_lru_ul2,
    NumSets <- UL2NumSets, NumWays <- UL2NumWays,
    LookaheadDistance <- KnobLookaheadDistance, ProcessWindow <- KnobProcessWindow

(* The assertions of the caches' constructors for the three levels, and    *)
(* what the declared types of the sizes and knobs imply.                   *)
ASSUME SimulatorAssumption ==
    /\ \A n \in {LineSize, DL1NumSets, IL1NumSets, UL2NumSets} :
          n \in Nat \ {0} /\ DL1!IsPower2(n)
    /\ \A n \in {DL1NumWays, IL1NumWays, UL2NumWays, Kilo, InitialRows, Uint32} :
          n \in Nat \ {0}
    /\ InitialMruIds \subseteq Int /\ InitialMruIds # {}
    /\ \A knob \in {KnobDL1, KnobIL1, KnobUL2} : knob \in BOOLEAN
    /\ KnobLookaheadDistance \in Nat /\ KnobProcessWindow \in Nat
    /\ MaxRefs \in Nat /\ KMax \in Nat /\ KMax > 2 * MaxRefs
    /\ Addrs \subseteq Nat /\ Insts \subseteq Nat

dl1 == <<inf_dl1, fa_opt_dl1, sa_opt_dl1, sa_lru_dl1>>
il1 == <<inf_il1, fa_opt_il1, sa_opt_il1, sa_lru_il1>>
ul2 == <<inf_ul2, fa_opt_ul2, sa_opt_ul2, sa_lru_ul2>>

vars == <<dl1, il1, ul2, current, report, finished>>

Init ==
    /\ DL1!Init /\ IL1!Init /\ UL2!Init
    /\ current \in [inst : Insts, calls : {{}}]
    /\ report = << >>
    /\ finished = FALSE

(* LoadSingleLine, LoadMultipleLines, StoreSingleLine, StoreMultipleLines: *)
(* the caches ignore how far an access reaches beyond its first line.      *)
DataAccess(inst, addr, access_type) ==
    /\ IF KnobDL1 THEN DL1!Access(inst, addr, access_type) ELSE UNCHANGED dl1
    /\ IF KnobDL1 /\ KnobUL2 /\ ~DL1!IsHit(addr)
       THEN UL2!Access(inst, addr, access_type)
       ELSE UNCHANGED ul2
    /\ UNCHANGED il1

(* Bug: every fetch goes on to the second level.                           *)
FetchThrough(inst) ==
    /\ IF KnobIL1 THEN IL1!Fetch(inst) ELSE UNCHANGED il1
    /\ IF KnobUL2 THEN UL2!Fetch(inst) ELSE UNCHANGED ul2
    /\ UNCHANGED dl1

(* FetchSingleLine and FetchMultipleLines.                                 *)
FetchInst(inst) ==
    /\ IF KnobIL1 THEN IL1!Fetch(inst) ELSE UNCHANGED il1
    /\ IF KnobIL1 /\ KnobUL2 /\ ~IL1!IsHit(inst) THEN UL2!Fetch(inst) ELSE UNCHANGED ul2
    /\ UNCHANGED dl1

(* The traced program executes one instruction after the other.  The calls *)
(* that Instruction inserted before it are made in this order: the fetch,  *)
(* the load if it has one, the store if it has one.                        *)
References == inf_dl1.ref_id_ + inf_il1.ref_id_

Running == ~finished /\ References < MaxRefs

Fetch ==
    /\ Running
    /\ \E inst \in Insts :
         /\ FetchInst(inst)
         /\ current' = [inst |-> inst, calls |-> {DL1!kLoad, DL1!kStore}]
    /\ UNCHANGED <<report, finished>>

Load ==
    /\ Running /\ DL1!kLoad \in current.calls
    /\ \E addr \in Addrs : DataAccess(current.inst, addr, DL1!kLoad)
    /\ current' = [current EXCEPT !.calls = {DL1!kStore}]
    /\ UNCHANGED <<report, finished>>

Store ==
    /\ Running /\ DL1!kStore \in current.calls
    /\ \E addr \in Addrs : DataAccess(current.inst, addr, DL1!kStore)
    /\ current' = [current EXCEPT !.calls = {}]
    /\ UNCHANGED <<report, finished>>

(* Fini: the levels one after the other, then the totals.                  *)
(* The report of a level that is not simulated is empty.                   *)
Fini ==
    /\ ~finished
    /\ IF KnobDL1 THEN DL1!ProcessAllSets ELSE UNCHANGED dl1
    /\ IF KnobIL1 THEN IL1!ProcessAllSets ELSE UNCHANGED il1
    /\ IF KnobUL2 THEN UL2!ProcessAllSets ELSE UNCHANGED ul2
    /\ report' = [dl1_addr |-> DL1!ReportAddr, dl1 |-> DL1!ReportRest,
                  il1 |-> IL1!ReportRest,
                  ul2_addr |-> UL2!ReportAddr, ul2 |-> UL2!ReportRest]
    /\ finished' = TRUE
    /\ UNCHANGED current

Next == Fetch \/ Load \/ Store \/ Fini

Spec == Init /\ [][Next]_vars

-----------------------------------------------------------------------------
(***************************************************************************)
(* Properties.                                                             *)
(***************************************************************************)

(* The caches of a level can be printed side by side at any time.          *)
SameIndices == DL1!SameIndices /\ IL1!SameIndices /\ UL2!SameIndices

(* Inclusion of the reference streams: what reaches the second level is    *)
(* exactly what the two real first-level caches missed, for each of its    *)
(* four caches.                                                            *)
L2SeesL1Misses ==
    LET missed == (IF KnobDL1 THEN sa_lru_dl1.miss_hit_[1] ELSE 0)
                  + (IF KnobIL1 THEN sa_lru_il1.miss_hit_[1] ELSE 0)
    IN  KnobUL2 => /\ inf_ul2.ref_id_ = missed /\ sa_lru_ul2.ref_id_ = missed
                   /\ fa_opt_ul2.ref_id_ = missed /\ sa_opt_ul2.ref_id_ = missed

(* When Fini has run, cold, capacity, mapping and replacement misses add   *)
(* up to the misses of the real cache at every level, without a wrap.      *)
MissesClassified ==
    finished => /\ DL1!Classified(report.dl1.stats)
                /\ IL1!Classified(report.il1.stats)
                /\ UL2!Classified(report.ul2.stats)

(* The instruction and time reports are complete: no row shows more misses *)
(* than references for any cache, hits and misses of the real cache are    *)
(* the references, a hit is MRU or not, and the rows sum to the totals.    *)
Names == {"Inf-miss", "FA-OPT-miss", "SA-OPT-miss", "SA-LRU-miss"}

Total(output, name) ==
    LET cell(k) == DL1!Column(output[k[1]][k[2]], name)
    IN  MapThenSumSet(cell, (DOMAIN output) \X DL1!kAccessTypes)

RowsConsistent(output) ==
    \A key \in DOMAIN output, access_type \in DL1!kAccessTypes :
        LET row == output[key][access_type]
        IN  /\ \A name \in Names : DL1!Column(row, name) \in 0 .. DL1!Column(row, "Reference")
            /\ DL1!Column(row, "Hit") = DL1!Column(row, "Hit-not-MRU") + DL1!Column(row, "Hit-MRU")

SumsToTotals(output, inf, fa_opt, sa_opt, sa_lru) ==
    /\ Total(output, "Reference") = inf.ref_id_
    /\ Total(output, "Inf-miss") = inf.miss_hit_[1]
    /\ Total(output, "FA-OPT-miss") = fa_opt.miss_hit_[1]
    /\ Total(output, "SA-OPT-miss") = sa_opt.miss_hit_[1]
    /\ Total(output, "SA-LRU-miss") = sa_lru.miss_hit_[1]

ReportsComplete ==
    finished =>
      /\ \A output \in {report.dl1.inst, report.dl1.time} :
            RowsConsistent(output)
            /\ SumsToTotals(output, inf_dl1, fa_opt_dl1, sa_opt_dl1, sa_lru_dl1)
      /\ \A output \in {report.il1.inst, report.il1.time} :
            RowsConsistent(output)
            /\ SumsToTotals(output, inf_il1, fa_opt_il1, sa_opt_il1, sa_lru_il1)
      /\ \A output \in {report.ul2.inst, report.ul2.time} :
            RowsConsistent(output)
            /\ SumsToTotals(output, inf_ul2, fa_opt_ul2, sa_opt_ul2, sa_lru_ul2)

(* The misses of the optimal caches have all been decided when they are    *)
(* printed by address: "Optimal replacement needs to finish the stack      *)
(* process by ProcessAllSets()" (cache.cpp, above FiniElse).  The DL1      *)
(* sees no fetches, so that its address rows sum to its totals.            *)
AddrReportFinished ==
    finished => SumsToTotals(report.dl1_addr, inf_dl1, fa_opt_dl1, sa_opt_dl1, sa_lru_dl1)

(* Every difference is printed under its own name, the cold misses in the  *)
(* column "Cold-miss" and so on, as the comments in PrintOutput label the  *)
(* values it writes.                                                       *)
Labelled(row) ==
    /\ DL1!Column(row, "Cold-miss") = DL1!Column(row, "Inf-miss")
    /\ DL1!Column(row, "Cap-miss")  = DL1!Column(row, "FA-OPT-miss") - DL1!Column(row, "Inf-miss")
    /\ DL1!Column(row, "Map-miss")  = DL1!Column(row, "SA-OPT-miss") - DL1!Column(row, "FA-OPT-miss")
    /\ DL1!Column(row, "Repl-miss") = DL1!Column(row, "SA-LRU-miss") - DL1!Column(row, "SA-OPT-miss")

ColumnsLabelled ==
    finished => \A key \in DOMAIN report.dl1.inst, access_type \in DL1!kAccessTypes :
                    Labelled(report.dl1.inst[key][access_type])

(* The address profile is about data addresses: the optimal caches of the  *)
(* second level charge no more references to the data addresses than the   *)
(* infinite cache does ("misses are reported in different forms:           *)
(* {address/instruction/time}-based", PrintUsage).                         *)
OnlyDataByAddress ==
    LET loads(profile) == DL1!ColumnSum(profile, 0) + DL1!ColumnSum(profile, 1)
    IN  \A opt \in {fa_opt_ul2, sa_opt_ul2} :
            loads(opt.of_addr_) <= loads(inf_ul2.of_addr_)
=============================================================================
