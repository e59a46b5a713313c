------------------------------ MODULE FileStore ------------------------------
(***************************************************************************)
(* The legacy store (file.rs): one append-only log and a snapshot, written *)
(* beside it under a temporary name and renamed.  A record carries its     *)
(* sequence number; the snapshot carries a watermark, and a load skips     *)
(* what is under it.  The graph's writer appends, then applies; it holds   *)
(* its own lock over both and over a compaction.  The snapshotter          *)
(* (periodic.rs) takes no lock of the writer's.                            *)
(***************************************************************************)
EXTENDS Naturals, Sequences

CONSTANTS Items, MaxSeq, None     \* entities; bound on the records written

VARIABLES
    log,      \* graph.log: records [seq, item, val]; val 0 deletes
    torn,     \* an incomplete record follows
    snap,     \* graph.snap: [water, table], or None
    seq,      \* the store's counter
    table,    \* the live graph: item |-> val, 0 if absent
    pending,  \* the batch between append and apply
    shot,     \* snapshot or compaction in progress
    refuses,  \* poisoned
    running,
    acked,    \* what the callers were promised
    raced     \* a snapshot was taken between an append and its apply

fvars == <<log, torn, snap, seq, table, pending, shot, refuses, running, acked, raced>>

Nothing == [i \in Items |-> 0]
Free    == [phase |-> "none", who |-> None, water |-> 0, table |-> Nothing]

FInit ==
    /\ log = << >> /\ torn = FALSE /\ snap = None
    /\ seq = 0 /\ table = Nothing /\ pending = << >> /\ shot = Free
    /\ refuses = FALSE /\ running = TRUE /\ acked = Nothing /\ raced = FALSE

(* Records overwrite: of those at the places S of recs, applied in order   *)
(* to t, the last one about an item decides.                               *)
Latest(t, recs, S) ==
    [i \in Items |->
        LET of == {j \in S : recs[j].item = i}
        IN  IF of = {} THEN t[i] ELSE recs[CHOOSE j \in of : \A k \in of : k <= j].val]
Applied(t, recs) == Latest(t, recs, DOMAIN recs)

(* encode_batch: the records of a batch take the next numbers.             *)
Encoded(batch) ==
    [j \in DOMAIN batch |-> [seq |-> seq + j, item |-> batch[j].item, val |-> batch[j].val]]

Rec == [item : Items, val : 0 .. 2]
Batches == {<<r>> : r \in Rec} \cup {<<r, q>> : r \in Rec, q \in Rec}

(* append_batch under the writer lock of the store: written and synced, or *)
(* poisoned with a part of it on the disk.                                 *)
Write ==
    \E batch \in Batches :
        /\ running /\ pending = << >> /\ ~refuses /\ shot.who # "compact"
        /\ seq + Len(batch) <= MaxSeq
        /\ log' = log \o Encoded(batch)
        /\ seq' = seq + Len(batch)
        /\ pending' = Encoded(batch)
        /\ acked' = Applied(acked, batch)
        /\ UNCHANGED <<torn, snap, table, shot, refuses, running, raced>>

WriteFails ==
    \E r, q \in Rec, n \in 0 .. 2 :
        /\ running /\ pending = << >> /\ ~refuses /\ shot.who # "compact" /\ seq + 2 <= MaxSeq
        /\ log' = log \o SubSeq(Encoded(<<r, q>>), 1, n)
        /\ torn' \in {n < 2, FALSE}
        /\ acked' = Applied(acked, SubSeq(<<r, q>>, 1, n))   \* on the disk, if not acknowledged
        /\ seq' = seq + 2 /\ refuses' = TRUE
        /\ UNCHANGED <<snap, table, pending, shot, running, raced>>

Apply ==
    /\ running /\ pending # << >>
    /\ table' = Applied(table, pending) /\ pending' = << >>
    /\ UNCHANGED <<log, torn, snap, seq, shot, refuses, running, acked, raced>>

---------------------------------------------------------------------------
(* snapshot: the watermark is read first, then the graph.                  *)

(* The compaction of a command holds the graph's writer lock; after a      *)
(* failed write the graph lacks what may be on the disk.                   *)
Water ==
    /\ running /\ shot = Free
    /\ \E who \in {"snapshot", "compact"} :
          /\ who = "compact" => pending = << >>
          /\ shot' = [Free EXCEPT !.phase = "graph", !.who = who, !.water = seq]
          /\ raced' = (raced \/ pending # << >> \/ refuses)
    /\ UNCHANGED <<log, torn, snap, seq, table, pending, refuses, running, acked>>

Shoot ==
    /\ running /\ shot.phase = "graph"
    /\ shot' = [shot EXCEPT !.phase = "write", !.table = table]
    /\ UNCHANGED <<log, torn, snap, seq, table, pending, refuses, running, acked, raced>>

(* write_atomic: a crash before the rename leaves the old snapshot.        *)
Replace ==
    /\ running /\ shot.phase = "write"
    /\ snap' = [water |-> shot.water, table |-> shot.table]
    /\ shot' = IF shot.who = "compact" THEN [shot EXCEPT !.phase = "truncate"] ELSE Free
    /\ UNCHANGED <<log, torn, seq, table, pending, refuses, running, acked, raced>>

Truncate ==
    /\ running /\ shot.phase = "truncate"
    /\ log' = << >> /\ torn' = FALSE
    /\ shot' = Free
    /\ UNCHANGED <<snap, seq, table, pending, refuses, running, acked, raced>>

---------------------------------------------------------------------------
Kill ==
    /\ running /\ running' = FALSE
    /\ shot' = Free /\ pending' = << >> /\ refuses' = FALSE /\ table' = Nothing /\ seq' = 0
    /\ UNCHANGED <<log, torn, snap, acked, raced>>

Covered(r) == snap # None /\ r.seq <= snap.water

Loaded ==
    Latest(IF snap = None THEN Nothing ELSE snap.table, log, {j \in DOMAIN log : ~Covered(log[j])})

HighWater_LogOnly == IF log = << >> THEN 0 ELSE log[Len(log)].seq
HighWater ==
    LET water == IF snap = None THEN 0 ELSE snap.water
        end   == IF log = << >> THEN 0 ELSE log[Len(log)].seq
    IN  IF end > water THEN end ELSE water

(* load_into: snapshot, log past the watermark, torn tail cut off.         *)
Load ==
    /\ ~running /\ running' = TRUE
    /\ table' = Loaded /\ seq' = HighWater /\ torn' = FALSE
    /\ UNCHANGED <<log, snap, pending, shot, refuses, acked, raced>>

FNext == Write \/ WriteFails \/ Apply \/ Water \/ Shoot \/ Replace \/ Truncate \/ Kill \/ Load

FSpec == FInit /\ [][FNext]_fvars

---------------------------------------------------------------------------
(* A load rebuilds exactly what was acknowledged and what a failed write   *)
(* left whole, wherever a snapshot or a compaction was cut short --        *)
(* unless the watermark of a snapshot covers a record that its graph did   *)
(* not have yet.                                                           *)
LegacyKept == ~raced => Loaded = acked

==============================================================================
