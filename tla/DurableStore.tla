--------------------------- MODULE DurableStore ---------------------------
(***************************************************************************)
(* What a persistence backend promises its callers (trait Store):          *)
(* "successfully-acked writes can be replayed", and "a successful return   *)
(* from append / append_batch means the record survives a process crash".  *)
(* The modules of the segment store are shown to implement this            *)
(* specification; nothing here knows of streams, partitions or manifests.  *)
(*                                                                         *)
(* A key stands for an entity (a concept, a relation, a rule ...), a       *)
(* version for one record written about it.  Replay applies the records in *)
(* order, so the last version of a key is the one a restart shows.         *)
(***************************************************************************)
EXTENDS Naturals

CONSTANTS
    Keys,       \* entities written about
    Versions    \* identities of records, in the order they were issued

VARIABLES
    issued,     \* issued[k]: versions of k some caller asked to append
    stored,     \* stored[k]: version of k a restart would show, 0 if none
    acked       \* acked[k]: newest version of k whose append returned Ok

vars == <<issued, stored, acked>>

TypeOK ==
    /\ issued \in [Keys -> SUBSET Versions]
    /\ stored \in [Keys -> Versions \cup {0}]
    /\ acked  \in [Keys -> Versions \cup {0}]

Init ==
    /\ issued = [k \in Keys |-> {}]
    /\ stored = [k \in Keys |-> 0]
    /\ acked  = [k \in Keys |-> 0]

(* A caller submits a batch: at most one append runs at a time, so the new *)
(* versions are newer than everything issued before.                       *)
Submit ==
    /\ issued' \in [Keys -> SUBSET Versions]
    /\ \A k \in Keys :
          /\ issued[k] \subseteq issued'[k]
          /\ \A v \in issued'[k] \ issued[k] : \A l \in Keys : \A w \in issued[l] : v > w
    /\ UNCHANGED <<stored, acked>>

(* Some of the issued records reach the disk, in order, whether or not     *)
(* their batch will succeed; what is stored is never replaced by something *)
(* older.                                                                  *)
Persist ==
    /\ stored' \in [Keys -> Versions \cup {0}]
    /\ \A k \in Keys :
          \/ stored'[k] = stored[k]
          \/ stored'[k] \in issued[k] /\ stored'[k] > stored[k]
    /\ UNCHANGED <<issued, acked>>

(* The append returns Ok: only for versions that are stored.               *)
Ack ==
    /\ acked' \in [Keys -> Versions \cup {0}]
    /\ \A k \in Keys : acked'[k] = acked[k] \/ acked'[k] = stored[k]
    /\ UNCHANGED <<issued, stored>>

Next == Submit \/ Persist \/ Ack

Spec == Init /\ [][Next]_vars

---------------------------------------------------------------------------
(* Every acknowledged record, or a newer record about the same entity, is  *)
(* what a restart shows.                                                   *)
Durability == \A k \in Keys : acked[k] <= stored[k]

===========================================================================
