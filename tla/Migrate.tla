------------------------------- MODULE Migrate -------------------------------
(***************************************************************************)
(* The start of a command on a data directory (cli, main.rs) and the       *)
(* migration it runs when it finds the files of the legacy store           *)
(* (migrate.rs): the new store is built and verified in a staging          *)
(* directory, renamed, and only then are the two legacy files renamed one  *)
(* after the other.  A start that finds both histories refuses to guess    *)
(* and asks the operator.                                                  *)
(***************************************************************************)
EXTENDS Naturals, Sequences, FiniteSets

CONSTANTS Chunk,      \* records per append (1000)
          MaxWhole,   \* bound on the records of the legacy files
          None

VARIABLES
    legacyLog,   \* graph.log: the numbers of its whole records, or None
    legacySnap,  \* graph.snap: [water], or None; it holds records 1 .. water
    retired,     \* files renamed to *.migrated
    staging,     \* store.migrating: the records in it, or None
    store,       \* store/: the records in it, or None
    start,       \* the start in progress
    whole,       \* how many records the legacy files held at first
    halved       \* the operator removed the store when a legacy file was retired

gvars == <<legacyLog, legacySnap, retired, staging, store, start, whole, halved>>

Down == [phase |-> "down", todo |-> << >>]

(* A log that was compacted, fully, in part or never.                      *)
GInit ==
    /\ whole \in 0 .. MaxWhole
    /\ \E water \in 0 .. whole, first \in 1 .. whole + 1 :
          /\ first <= water + 1
          /\ legacySnap = IF water = 0 THEN None ELSE [water |-> water]
          /\ legacyLog = [i \in 1 .. whole + 1 - first |-> first + i - 1]
    /\ retired = {} /\ staging = None /\ store = None /\ start = Down /\ halved = FALSE

LegacyPresent == legacyLog # None \/ legacySnap # None

(* legacy_records: the snapshot unrolled, then the log past its watermark. *)
Water == IF legacySnap = None THEN 0 ELSE legacySnap.water
PastWater_All(r) == TRUE
PastWater(r) == r > Water

(* The log's numbers increase: the records that are not past the watermark *)
(* are its first ones.                                                     *)
Past(recs) ==
    LET under == {i \in DOMAIN recs : ~PastWater(recs[i])}
    IN  SubSeq(recs, Cardinality(under) + 1, Len(recs))
LegacyRecords ==
    [i \in 1 .. Water |-> i] \o (IF legacyLog = None THEN << >> ELSE Past(legacyLog))

At(p) == start.phase = p
Go(p) == start' = [start EXCEPT !.phase = p]

Begin ==
    /\ At("down")
    /\ IF LegacyPresent /\ store # None THEN Go("refused")
       ELSE IF LegacyPresent THEN Go("discard") ELSE Go("open")
    /\ UNCHANGED <<legacyLog, legacySnap, retired, staging, store, whole, halved>>

Discard ==
    /\ At("discard") /\ staging' = None
    /\ start' = [phase |-> "build", todo |-> LegacyRecords]
    /\ UNCHANGED <<legacyLog, legacySnap, retired, store, whole, halved>>

(* The records, chunk by chunk.                                            *)
Build ==
    /\ At("build")
    /\ LET n == IF Len(start.todo) < Chunk THEN Len(start.todo) ELSE Chunk
       IN  /\ staging' = (IF staging = None THEN << >> ELSE staging) \o SubSeq(start.todo, 1, n)
           /\ start' = IF n = Len(start.todo) THEN [phase |-> "verify", todo |-> << >>]
                       ELSE [start EXCEPT !.todo = SubSeq(@, n + 1, Len(@))]
    /\ UNCHANGED <<legacyLog, legacySnap, retired, store, whole, halved>>

Verify ==
    /\ At("verify")
    /\ IF staging = LegacyRecords THEN Go("rename") ELSE Go("down")
    /\ UNCHANGED <<legacyLog, legacySnap, retired, staging, store, whole, halved>>

Rename ==
    /\ At("rename") /\ store' = staging /\ staging' = None /\ Go("log")
    /\ UNCHANGED <<legacyLog, legacySnap, retired, whole, halved>>

RetireLog ==
    /\ At("log") /\ legacyLog' = None /\ Go("snap")
    /\ retired' = IF legacyLog = None THEN retired ELSE retired \cup {"log"}
    /\ UNCHANGED <<legacySnap, staging, store, whole, halved>>

RetireSnap ==
    /\ At("snap") /\ legacySnap' = None /\ Go("open")
    /\ retired' = IF legacySnap = None THEN retired ELSE retired \cup {"snap"}
    /\ UNCHANGED <<legacyLog, staging, store, whole, halved>>

(* SegmentStore::open creates a store where there is none.                 *)
Open ==
    /\ At("open") /\ Go("serving")
    /\ store' = IF store = None THEN << >> ELSE store
    /\ UNCHANGED <<legacyLog, legacySnap, retired, staging, whole, halved>>

(* A crash, or an I/O error, at any step.                                  *)
Interrupt ==
    /\ ~At("down") /\ start' = Down
    /\ UNCHANGED <<legacyLog, legacySnap, retired, staging, store, whole, halved>>

(* What the refusal tells the operator to do: remove the store, or rename  *)
(* the legacy files.                                                       *)
RemoveStore ==
    /\ At("refused") /\ store' = None /\ start' = Down
    /\ halved' = (halved \/ retired # {})
    /\ UNCHANGED <<legacyLog, legacySnap, retired, staging, whole>>

RenameLegacy ==
    /\ At("refused") /\ legacyLog' = None /\ legacySnap' = None /\ start' = Down
    /\ retired' = retired \cup {f \in {"log", "snap"} : (f = "log" /\ legacyLog # None) \/ (f = "snap" /\ legacySnap # None)}
    /\ UNCHANGED <<staging, store, whole, halved>>

GNext ==
    \/ Begin \/ Discard \/ Build \/ Verify \/ Rename \/ RetireLog \/ RetireSnap \/ Open
    \/ Interrupt \/ RemoveStore \/ RenameLegacy

GSpec == GInit /\ [][GNext]_gvars

---------------------------------------------------------------------------
(* Whatever was interrupted and whichever way the operator went, a store   *)
(* that is served holds every legacy record once, in order -- unless the   *)
(* store was removed after the first of the two legacy files was retired:  *)
(* the second alone is not the history.                                    *)
ServesWhole == At("serving") /\ ~halved => store = [i \in 1 .. whole |-> i]

==============================================================================
