------------------------------ MODULE LoadPlan ------------------------------
(***************************************************************************)
(* What a start loads (budget.rs, main.rs, segment_store.rs).  The limit   *)
(* is read from the process's control groups, a share of it is the budget, *)
(* each domain's cost is estimated from the manifest's counters, and       *)
(* plan_load decides: everything, the domains that fit with or without     *)
(* their payloads in memory, or a refusal.  The server then runs on what   *)
(* was loaded: it creates concepts, and compacts the store from its graph. *)
(*                                                                         *)
(* Coefficients of the estimate are scaled down and the counters are those *)
(* the manifest had at first; the text of the limit files is left out.     *)
(***************************************************************************)
EXTENDS Naturals, Sequences, FiniteSets, FiniteSetsExt, SequencesExt

CONSTANTS Limits,      \* limits that can be read
          MaxCreated,  \* bound: concepts created
          None

DomainList == <<"a", "b", "c">>
Domains    == ToSet(DomainList)

VARIABLES
    groups,     \* memory.max of the process's control group and of its parent
    groupV1, freeMem, fixed,  \* the older limit, free memory, --memory-budget-mb
    counters,   \* domain |-> [payload, edges]
    memoryMode, \* "strict" or "adaptive"
    nsList,     \* --ns, or None
    serving,    \* what the server loaded: a plan, or None
    inMemory,   \* concepts of the graph: <<id, domain>>
    onDisk,     \* live concepts of the store
    idNext,
    promised,   \* history: concepts acknowledged, none of which is deleted
    created

lvars == <<groups, groupV1, freeMem, fixed, counters, memoryMode, nsList,
           serving, inMemory, onDisk, idNext, promised, created>>
environment == <<groups, groupV1, freeMem, fixed, counters>>

LInit ==
    /\ groups \in [{"own", "root"} -> Limits \cup {None}]
    /\ groupV1 \in {None, 12} /\ freeMem \in {None, 12} /\ fixed \in {None, 10}
    /\ counters \in {[d \in Domains |-> [payload |-> p[d], edges |-> IF d = "b" THEN 2 ELSE 0]] :
                        p \in {q \in [Domains -> {1, 4}] : q["c"] = 4}}
    /\ memoryMode = "adaptive" /\ nsList = None
    /\ serving = None /\ inMemory = {} /\ idNext = 1
    /\ onDisk = {<<1, "a">>, <<2, "b">>, <<3, "c">>} /\ promised = onDisk
    /\ created = 0

---------------------------------------------------------------------------
(* available_memory: the smallest limit on the way to the root, else the   *)
(* older control group's, else free memory, which is no limit; a fixed     *)
(* budget is taken whole, half of what was read otherwise.                 *)
Read == {groups[g] : g \in DOMAIN groups} \ {None}
Hard == fixed # None \/ Read # {} \/ groupV1 # None
Budget ==
    CASE fixed # None   -> fixed
      [] fixed = None /\ Read # {} -> Min(Read) \div 2
      [] fixed = None /\ Read = {} /\ groupV1 # None -> groupV1 \div 2
      [] fixed = None /\ Read = {} /\ groupV1 = None ->
            IF freeMem # None THEN freeMem \div 2 ELSE None

(* estimate_domains, estimate_bytes; P1 keeps the payloads on disk.        *)
LeanCost(d) == 2 + counters[d].edges
Cost(d)     == LeanCost(d) + counters[d].payload
Total(ds)   == MapThenSumSet(Cost, ds)

All == [refused |-> FALSE, loads |-> Domains, lean |-> {}]
Refusal == [refused |-> TRUE, loads |-> {}, lean |-> {}]

(* Smallest first: whole if it fits in what is left, else without its      *)
(* payloads, else not at all.                                              *)
Fits_Alone(used, cost) == cost <= Budget
Fits(used, cost) == used + cost <= Budget

Trim(acc, d) ==
    IF Fits(acc.used, Cost(d))
    THEN [acc EXCEPT !.used = @ + Cost(d), !.loads = @ \cup {d}]
    ELSE IF Fits(acc.used, LeanCost(d))
         THEN [acc EXCEPT !.used = @ + LeanCost(d), !.loads = @ \cup {d}, !.lean = @ \cup {d}]
         ELSE acc

BySize == SortSeq(DomainList, LAMBDA d, e : Cost(d) < Cost(e))

Trimmed ==
    LET t == FoldLeft(Trim, [used |-> 0, loads |-> {}, lean |-> {}], BySize)
    IN  [refused |-> FALSE, loads |-> t.loads, lean |-> t.lean]

(* plan_load.                                                              *)
Plan(mode, wanted) ==
    CASE wanted # None ->
            IF \/ ~(wanted \subseteq Domains)
               \/ mode = "strict" /\ Budget # None /\ Total(wanted) > Budget
            THEN Refusal ELSE [All EXCEPT !.loads = wanted]
      [] wanted = None /\ (Budget = None \/ Total(Domains) <= Budget) -> All
      [] wanted = None /\ Budget # None /\ Total(Domains) > Budget ->
            IF mode = "strict" THEN Refusal ELSE IF Hard THEN Trimmed ELSE All

---------------------------------------------------------------------------
(* A start: the plan, then the records of the domains it loads; ids go on  *)
(* from the largest one replayed.  Two concepts of one id do not replay.   *)
Clash(cs) == \E c, e \in cs : c[1] = e[1] /\ c # e

Start == \E mode \in {"strict", "adaptive"}, wanted \in {None, {"a", "c"}, {"c", "z"}} :
    /\ serving = None
    /\ memoryMode' = mode /\ nsList' = wanted
    /\ LET plan == Plan(mode, wanted)
           loaded == {c \in onDisk : c[2] \in plan.loads}
       IN  /\ serving' = IF Clash(loaded) THEN Refusal ELSE plan
           /\ inMemory' = IF Clash(loaded) THEN {} ELSE loaded
    /\ idNext' = IF inMemory' = {} THEN 1 ELSE Max({c[1] : c \in inMemory'}) + 1
    /\ UNCHANGED <<environment, onDisk, promised, created>>

Running == serving # None /\ ~serving.refused

Create == \E d \in Domains :
    /\ Running /\ created < MaxCreated
    /\ created' = created + 1 /\ idNext' = idNext + 1
    /\ inMemory' = inMemory \cup {<<idNext, d>>}
    /\ onDisk' = onDisk \cup {<<idNext, d>>}
    /\ promised' = promised \cup {<<idNext, d>>}
    /\ UNCHANGED <<environment, memoryMode, nsList, serving>>

(* compact: every stream is rewritten from the live graph, checked against *)
(* it, and replaced.                                                       *)
Compact ==
    /\ Running /\ onDisk' = inMemory
    /\ UNCHANGED <<environment, memoryMode, nsList, serving, inMemory, idNext, promised, created>>

Stop ==
    /\ serving # None /\ serving' = None /\ inMemory' = {} /\ idNext' = 1
    /\ UNCHANGED <<environment, memoryMode, nsList, onDisk, promised, created>>

LNext == Start \/ Create \/ Compact \/ Stop

LSpec == LInit /\ [][LNext]_lvars

---------------------------------------------------------------------------
(* What a start loads under a hard limit fits the budget, whole or lean,   *)
(* and a domain left out would not fit beside it even without payloads;    *)
(* strict mode never exceeds the budget, a list of domains is loaded as    *)
(* it is, and free memory alone leaves nothing out.                        *)
PlanFits ==
    Running =>
        LET loads == serving.loads
            heap  == Total(loads \ serving.lean) + MapThenSumSet(LeanCost, serving.lean)
        IN  /\ nsList # None => loads = nsList /\ serving.lean = {}
            /\ Budget # None /\ (memoryMode = "strict" \/ (Hard /\ nsList = None)) => heap <= Budget
            /\ nsList = None /\ loads # Domains =>
                  /\ memoryMode = "adaptive" /\ Hard
                  /\ \A d \in Domains \ loads : heap + LeanCost(d) > Budget

(* "rewrite every stream from the live graph so superseded and deleted     *)
(* records disappear" (main.rs, the compact command): only those.          *)
OnlyDeadDisappear == promised \subseteq onDisk

==============================================================================
