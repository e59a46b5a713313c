------------------------------- MODULE Backup -------------------------------
(***************************************************************************)
(* Backups of the segmented store (backup_locked) over and over to one     *)
(* directory, and the restore (backup.rs).  A sealed partition of the same *)
(* size is not copied again; the directory has no manifest while a copy is *)
(* under way; files of partitions that are gone are removed.  The writers  *)
(* are held off by the store's lock from the first file to the last.       *)
(*                                                                         *)
(* One stream; a partition is the numbers of its records.  Sealing one     *)
(* stamps a count in the header of its index in place: no size changes,    *)
(* and the recovery of a restored copy does without that count.            *)
(***************************************************************************)
EXTENDS Naturals, FiniteSetsExt, Functions

CONSTANTS MaxPart, MaxRecs, None     \* bounds: partition ids, records ever written

Parts == 1 .. MaxPart

VARIABLES
    parts,     \* the store's files: partition |-> [first, recs]
    active,    \* the partition being written
    nextRec,   \* the number of the next record
    dest,      \* the files at the destination
    complete,  \* the destination has a manifest
    copying,   \* partitions still to be copied, or None
    taken,     \* records in the store when the last whole backup was taken
    shown      \* what the last restore rebuilt

kvars == <<parts, active, nextRec, dest, complete, copying, taken, shown>>

(* The records of a file are the interval from its first to its last.      *)
File(first, n) == [first |-> first, recs |-> n]
RecsOf(f)  == f.first .. f.first + f.recs - 1
Put(files, p, f) == [q \in DOMAIN files \cup {p} |-> IF q = p THEN f ELSE files[q]]
All(files) == UNION {RecsOf(files[p]) : p \in DOMAIN files}

KInit ==
    /\ parts = Put(<< >>, 1, File(1, 0)) /\ active = 1 /\ nextRec = 1
    /\ dest = << >> /\ complete = FALSE /\ copying = None /\ taken = {} /\ shown = None

Busy == copying # None

Write ==
    /\ ~Busy /\ nextRec <= MaxRecs
    /\ parts' = [parts EXCEPT ![active].recs = @ + 1]
    /\ nextRec' = nextRec + 1
    /\ UNCHANGED <<active, dest, complete, copying, taken, shown>>

Roll ==
    /\ ~Busy /\ parts[active].recs > 0 /\ active < MaxPart
    /\ parts' = Put(parts, active + 1, File(nextRec, 0))
    /\ active' = active + 1
    /\ UNCHANGED <<nextRec, dest, complete, copying, taken, shown>>

(* A compaction puts one partition with fresh records for all of them.     *)
Compact ==
    /\ ~Busy /\ active + 2 <= MaxPart /\ nextRec <= MaxRecs /\ All(parts) # {}
    /\ parts' = Put(Put(<< >>, active + 1, File(nextRec, 1)), active + 2, File(nextRec + 1, 0))
    /\ active' = active + 2 /\ nextRec' = nextRec + 1
    /\ UNCHANGED <<dest, complete, copying, taken, shown>>

(* No manifest from here on.                                               *)
Begin ==
    /\ ~Busy
    /\ complete' = FALSE /\ copying' = DOMAIN parts
    /\ UNCHANGED <<parts, active, nextRec, dest, taken, shown>>

Has(f, x) == x \in DOMAIN f

Same_Present(p) == p # active /\ Has(dest, p)
Same(p) == p # active /\ Has(dest, p) /\ dest[p].recs = parts[p].recs

Copy ==
    /\ Busy /\ copying # {}
    /\ LET p == Min(copying)
       IN  /\ dest' = IF Same(p) THEN dest ELSE Put(dest, p, parts[p])
           /\ copying' = copying \ {p}
    /\ UNCHANGED <<parts, active, nextRec, complete, taken, shown>>

(* A backup cut short: between two files, or in the middle of one, which  *)
(* is left shorter.                                                        *)
Break ==
    /\ Busy /\ copying' = None
    /\ \/ dest' = dest
       \/ /\ copying # {}
          /\ LET p == Min(copying)
             IN  /\ ~Same(p)
                 /\ \E n \in 0 .. parts[p].recs :
                        dest' = Put(dest, p, File(parts[p].first, n))
    /\ UNCHANGED <<parts, active, nextRec, complete, taken, shown>>

(* What is not the store's is removed; then the manifest, by rename.       *)
End ==
    /\ copying = {}
    /\ dest' = Restrict(dest, DOMAIN dest \cap DOMAIN parts)
    /\ complete' = TRUE /\ copying' = None /\ taken' = All(parts)
    /\ UNCHANGED <<parts, active, nextRec, shown>>

(* restore: refused without a manifest; the copy is opened (an unsealed    *)
(* partition that is not the last is sealed by the recovery) and replayed. *)
Restore ==
    /\ complete /\ shown' = All(dest)
    /\ UNCHANGED <<parts, active, nextRec, dest, complete, copying, taken>>

KNext == Write \/ Roll \/ Compact \/ Begin \/ Copy \/ Break \/ End \/ Restore

KSpec == KInit /\ [][KNext]_kvars

---------------------------------------------------------------------------
(* A restore rebuilds exactly the records the store had when the backup    *)
(* was taken, whatever lay at the destination before: older backups,       *)
(* interrupted ones, partitions since compacted away.                      *)
RestoresTaken == [][shown' # shown => shown' = taken]_kvars

==============================================================================
