------------------------------ MODULE Payloads ------------------------------
(***************************************************************************)
(* Payloads on disk (P1; graph.rs and segment_store.rs): a slot of the     *)
(* graph keeps its payload while it is resident and a location otherwise.  *)
(* The store tells the graph where each concept record landed and which    *)
(* partitions are sealed, after the batch is durable and before the graph  *)
(* has applied it; a compaction moves every payload.  Readers take no      *)
(* lock: they copy the location, let go of the slot, and read the sealed   *)
(* partition.                                                              *)
(*                                                                         *)
(* One domain in P1.  The payload of the n-th write is n, and so is the    *)
(* offset of its record: a location is <<partition, n>>.                   *)
(***************************************************************************)
EXTENDS Naturals, FiniteSets, Functions

CONSTANTS MaxVersions,   \* bound on the writes
          MaxSwaps,      \* ... and on the compactions
          None

VARIABLES
    slots,       \* id |-> [loc, res, ver], or None; res: payload or None
    pendingLocs, \* id |-> location told before the payload that belongs there
    sealedSeen,  \* partitions the graph was told are sealed
    sealable,    \* partition |-> resident ids located in it
    segIndex,    \* the sealed partitions that can be read
    actives,     \* number of the active partition
    work,        \* the write or the compaction under way
    born,        \* ids given out: none is given twice
    writes, swaps,
    look         \* the reader

tvars == <<slots, pendingLocs, sealedSeen, sealable, segIndex, actives, work, born, writes, swaps, look>>

Concepts == {1, 2}
Parts    == 1 .. 1 + MaxVersions + 2 * MaxSwaps
Resting  == [op |-> "rest", id |-> None, ver |-> 0, part |-> 0, rolled |-> FALSE, dropped |-> FALSE, todo |-> {}]
Failed   == 0
Looking  == [id |-> None, loc |-> None, floor |-> 0, got |-> None, moved |-> FALSE]

TInit ==
    /\ slots = [i \in Concepts |-> None] /\ pendingLocs = [i \in Concepts |-> None]
    /\ sealedSeen = {} /\ sealable = [p \in Parts |-> {}]
    /\ segIndex = {} /\ actives = 1
    /\ work = Resting /\ born = {} /\ writes = 0 /\ swaps = 0 /\ look = Looking

Live == {i \in Concepts : slots[i] # None}

---------------------------------------------------------------------------
(* What the store calls.                                                   *)

(* sealable_push: evict at once when the seal has already been told.       *)
SealablePush(s, i, loc) ==
    IF loc[1] \in sealedSeen
    THEN /\ slots' = [s EXCEPT ![i].res = IF s[i].loc = loc THEN None ELSE @]
         /\ UNCHANGED sealable
    ELSE /\ slots' = s /\ sealable' = [sealable EXCEPT ![loc[1]] = @ \cup {i}]

(* A resident location of an evicted slot is in the active segment, which  *)
(* cannot be read: it waits for the payload.                               *)
Waits_OnlyNew(i, resident) == i \notin Live
Waits(i, resident) == i \notin Live \/ (resident /\ slots[i].res = None)

SetLoc(i, loc, resident) ==
    IF Waits(i, resident)
    THEN /\ pendingLocs' = [pendingLocs EXCEPT ![i] = loc]
         /\ UNCHANGED <<slots, sealable>>
    ELSE /\ UNCHANGED pendingLocs
         /\ IF resident THEN SealablePush([slots EXCEPT ![i].loc = loc], i, loc)
            ELSE /\ slots' = [slots EXCEPT ![i].loc = loc, ![i].res = None]
                 /\ UNCHANGED sealable

(* An append and its commit; the batch may fill the partition, which is    *)
(* then sealed, readable from here on, and replaced.                       *)
Append == \E i \in Concepts, rolls \in BOOLEAN :
    /\ work.op = "rest" /\ writes < MaxVersions
    /\ i \in Live \/ i \notin born
    /\ born' = born \cup {i}
    /\ writes' = writes + 1
    /\ work' = [Resting EXCEPT !.op = "locate", !.id = i, !.ver = writes', !.part = actives, !.rolled = rolls]
    /\ segIndex' = IF rolls THEN segIndex \cup {actives} ELSE segIndex
    /\ actives' = IF rolls THEN actives + 1 ELSE actives
    /\ UNCHANGED <<slots, pendingLocs, sealedSeen, sealable, swaps, look>>

Locate ==
    /\ work.op = "locate"
    /\ SetLoc(work.id, <<work.part, work.ver>>, TRUE)
    /\ work' = [work EXCEPT !.op = IF work.rolled THEN "seal" ELSE "apply"]
    /\ UNCHANGED <<born, sealedSeen, segIndex, actives, writes, swaps, look>>

PartitionSealed ==
    /\ work.op = "seal"
    /\ sealedSeen' = sealedSeen \cup {work.part}
    /\ slots' = [i \in Concepts |->
                    IF i \in sealable[work.part] \cap Live /\ slots[i].loc[1] = work.part
                    THEN [slots[i] EXCEPT !.res = None] ELSE slots[i]]
    /\ sealable' = [sealable EXCEPT ![work.part] = {}]
    /\ work' = [work EXCEPT !.op = "apply"]
    /\ UNCHANGED <<born, pendingLocs, segIndex, actives, writes, swaps, look>>

(* The request is cancelled while the append runs: it is never applied.    *)
Cancel ==
    /\ work.op \in {"locate", "seal"} /\ work' = [work EXCEPT !.dropped = TRUE]
    /\ UNCHANGED <<born, slots, pendingLocs, sealedSeen, sealable, segIndex, actives, writes, swaps, look>>

(* apply_prepared_concept, apply_concept_update.                           *)
Apply ==
    /\ work.op = "apply" /\ work' = Resting
    /\ IF work.dropped THEN UNCHANGED <<slots, pendingLocs, sealable>>
       ELSE LET i == work.id
                pend == pendingLocs[i]
                s == [slots EXCEPT ![i] =
                         [ver |-> work.ver, res |-> work.ver,
                          loc |-> IF pend # None THEN pend ELSE IF i \in Live THEN slots[i].loc ELSE None]]
            IN  /\ pendingLocs' = [pendingLocs EXCEPT ![i] = None]
                /\ IF pend = None THEN slots' = s /\ UNCHANGED sealable
                   ELSE SealablePush(s, i, pend)
    /\ UNCHANGED <<born, sealedSeen, segIndex, actives, writes, swaps, look>>

Remove == \E i \in Live :
    /\ work.op = "rest" \/ work.dropped
    /\ slots' = [slots EXCEPT ![i] = None]
    /\ UNCHANGED <<born, pendingLocs, sealedSeen, sealable, segIndex, actives, work, writes, swaps, look>>

(* A compaction: the staged partition becomes readable, every concept is   *)
(* moved there, and then the old partitions go.                            *)
Swap ==
    /\ work.op = "rest" /\ swaps < MaxSwaps
    /\ work' = [Resting EXCEPT !.op = "relocate", !.part = actives + 1, !.todo = Live]
    /\ segIndex' = segIndex \cup {actives + 1}
    /\ swaps' = swaps + 1
    /\ UNCHANGED <<born, slots, pendingLocs, sealedSeen, sealable, actives, writes, look>>

Relocate == \E i \in work.todo :
    /\ work.op = "relocate"
    /\ SetLoc(i, <<work.part, slots[i].ver>>, FALSE)
    /\ work' = [work EXCEPT !.todo = @ \ {i}]
    /\ UNCHANGED <<born, sealedSeen, segIndex, actives, writes, swaps, look>>

DropOld ==
    /\ work.op = "relocate" /\ work.todo = {}
    /\ segIndex' = {work.part} /\ actives' = work.part + 1
    /\ work' = Resting
    /\ look' = [look EXCEPT !.moved = TRUE]
    /\ UNCHANGED <<born, slots, pendingLocs, sealedSeen, sealable, writes, swaps>>

---------------------------------------------------------------------------
(* get_concept: the payload if it is resident; else the location, and then *)
(* the partition.                                                          *)
Get == \E i \in Live :
    /\ look.loc = None
    /\ look' = [Looking EXCEPT !.id = i, !.floor = slots[i].ver,
                   !.got = slots[i].res, !.loc = IF slots[i].res = None THEN slots[i].loc ELSE None]
    /\ UNCHANGED <<born, slots, pendingLocs, sealedSeen, sealable, segIndex, actives, work, writes, swaps>>

ReadPayload ==
    /\ look.loc # None
    /\ look' = [look EXCEPT !.loc = None, !.got = IF look.loc[1] \in segIndex THEN look.loc[2] ELSE Failed]
    /\ UNCHANGED <<born, slots, pendingLocs, sealedSeen, sealable, segIndex, actives, work, writes, swaps>>

TNext ==
    \/ Append \/ Locate \/ PartitionSealed \/ Cancel \/ Apply \/ Remove
    \/ Swap \/ Relocate \/ DropOld \/ Get \/ ReadPayload

TSpec == TInit /\ [][TNext]_tvars

---------------------------------------------------------------------------
(* A read of a concept returns a payload at least as new as the one the    *)
(* graph showed when the read began, and fails only if a compaction        *)
(* dropped the old partitions between its two steps.                       *)
ReadsCurrent ==
    look.got # None =>
        IF look.got = Failed THEN look.moved ELSE look.got >= look.floor

==============================================================================
