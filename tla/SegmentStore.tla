--------------------------- MODULE SegmentStore ---------------------------
(***************************************************************************)
(* The write path and the reopening of the segmented, domain-partitioned   *)
(* store (crates/storage/src/segment_store.rs, stream.rs, segment/*.rs).   *)
(*                                                                         *)
(* A store is a MANIFEST and one stream per domain (ns id 0 is `meta').  A *)
(* stream is a directory of partitions: the one with the highest id is     *)
(* active and receives appends, the others are sealed.  commit_batch plans *)
(* a batch (creating domain streams), appends every record, then commits   *)
(* each touched stream in first-touch order, rolling the streams that are  *)
(* due.  The process may be killed, or the machine lose power, between any *)
(* two steps; the next open repairs every stream from its directory.       *)
(*                                                                         *)
(* One process-wide Mutex<Inner> serialises every call, so one batch is in *)
(* progress at a time.  Compaction is the subject of module Compaction.    *)
(***************************************************************************)
EXTENDS Naturals, Sequences, FiniteSets, FiniteSetsExt

CONSTANTS
    Streams,     \* ns ids a record can be routed to, 0 (meta) included
    Initial,     \* ns ids a new manifest is born with
    Keys,        \* entities
    Home,        \* Home[k]: the stream the records about k are routed to
    MaxVersion,  \* bound: records issued in a behaviour
    MaxPid,      \* bound: partition ids handed out
    MaxBatch,    \* bound: records in a batch
    RollRecords, \* RollPolicy.max_records
    Absent       \* no such partition file

Meta     == 0
Pids     == 1 .. MaxPid
Versions == 1 .. MaxVersion

ASSUME StreamsAssumption ==
    /\ Streams \subseteq Nat /\ IsFiniteSet(Streams)
    /\ Meta \in Initial /\ Initial \subseteq Streams
ASSUME KeysAssumption == Keys # {} /\ Home \in [Keys -> Streams]
ASSUME BoundsAssumption ==
    /\ MaxVersion \in Nat \ {0} /\ MaxPid \in Nat \ {0}
    /\ MaxBatch \in Nat \ {0} /\ RollRecords \in Nat \ {0}

Record    == [seq : Versions, key : Keys, ver : Versions]
(* data: the records of `.data'; the first `flushed' of them are in the    *)
(* page cache and survive the process, the first `synced' are on the disk  *)
(* and survive a power cut.  torn: an incomplete record follows them.      *)
(* idx: entries in `.idx'; stamp: the count in its header; hard: `.idx' is *)
(* on the disk as it stands, not only in the page cache.                   *)
Partition == [data : Seq(Record), flushed : Nat, synced : Nat, torn : BOOLEAN,
              idx : Nat, stamp : Nat, hard : BOOLEAN]
ASSUME AbsentAssumption == Absent \notin Partition
Manifest  == [ns : SUBSET Streams, pid : Nat \ {0}]
Pending   == [key : Keys, ver : Versions]

Phases == {"down", "open", "idle", "plan", "append", "sync", "roll", "stamp",
           "harden", "save", "poisoned"}

VARIABLES
    files,     \* files[s][p]: partition p in the directory of stream s
    saved,     \* MANIFEST.json on disk
    manifest,  \* Inner.manifest
    phase,     \* what the process is doing
    active,    \* active[s]: active partition of the open stream s, 0 if not open
    nextSeq,   \* Inner.next_seq
    batch,     \* records of the batch not appended yet
    touched,   \* streams of the batch not committed yet, in first-touch order
    sealing,   \* the partition maybe_roll is sealing, 0 if none
    dirty,     \* manifest_dirty of write_planned
    (* History: what callers know and what the graph shows.                *)
    version,   \* records issued
    issued,    \* issued[k]: versions issued for k
    inflight,  \* records of the batch in progress
    acked,     \* acked[k]: newest acknowledged version of k
    shown,     \* shown[k]: version of k in the hydrated graph
    relied     \* relied[k]: newest version of k in the graph at an Ok

disk == <<files, saved>>
call == <<batch, touched, sealing, dirty>>
hist == <<version, issued, inflight, acked, shown, relied>>
vars == <<files, saved, manifest, phase, active, nextSeq, batch, touched,
          sealing, dirty, version, issued, inflight, acked, shown, relied>>

Nothing == [k \in Keys |-> 0]
Closed  == [s \in Streams |-> 0]

TypeOK ==
    /\ files \in [Streams -> [Pids -> Partition \cup {Absent}]]
    /\ saved \in Manifest /\ manifest \in Manifest
    /\ phase \in Phases
    /\ active \in [Streams -> Pids \cup {0}]
    /\ nextSeq \in 1 .. MaxVersion + 1
    /\ batch \in Seq(Pending)
    /\ touched \in Seq(Streams)
    /\ sealing \in Pids \cup {0}
    /\ dirty \in BOOLEAN
    /\ version \in 0 .. MaxVersion
    /\ issued \in [Keys -> SUBSET Versions]
    /\ inflight \subseteq Pending
    /\ acked \in [Keys -> Versions \cup {0}]
    /\ shown \in [Keys -> Versions \cup {0}]
    /\ relied \in [Keys -> Versions \cup {0}]

---------------------------------------------------------------------------
(* Partitions and streams.                                                 *)

Fresh == [data |-> <<>>, flushed |-> 0, synced |-> 0, torn |-> FALSE,
          idx |-> 0, stamp |-> 0, hard |-> TRUE]

Present(s) == {p \in Pids : files[s][p] # Absent}

(* Here and below, a definition X_Mistake with no comment of its own is X  *)
(* with an error a change of the code could bring in; no action uses it.   *)

SealedOk_NoCoverage(f) == f.stamp = f.idx

(* SealedSegment::open accepts a partition: the header counts the entries  *)
(* of the index and the index accounts for every byte of data.             *)
SealedOk(f) == f.stamp = f.idx /\ f.idx = Len(f.data) /\ ~f.torn

(* ActiveSegment::append: the record in the write buffer.                  *)
Appended(f, r) == [f EXCEPT !.data = Append(@, r)]

Committed_NotSynced(f) == [f EXCEPT !.flushed = Len(f.data), !.idx = Len(f.data), !.hard = FALSE]

(* ActiveSegment::commit: data flushed and synced, then the index entries  *)
(* written, not synced.                                                    *)
Committed(f) == [f EXCEPT !.flushed = Len(f.data), !.synced = Len(f.data),
                          !.idx = Len(f.data), !.hard = FALSE]

(* recover_segment: a torn tail is cut and the data synced, the index is   *)
(* rebuilt from the complete records, and synced if it had to be.          *)
Recovered(f) == [f EXCEPT !.flushed = Len(f.data),
                          !.synced = IF f.torn THEN Len(f.data) ELSE f.synced,
                          !.torn = FALSE,
                          !.idx  = Len(f.data),
                          !.hard = f.hard \/ f.idx # Len(f.data)]

(* ActiveSegment::seal, the count written in the index header ...          *)
Stamped(f) == [f EXCEPT !.stamp = f.idx]

(* ... and run to its end, both files synced.                              *)
Sealed(f) == [data |-> f.data, flushed |-> Len(f.data), synced |-> Len(f.data),
              torn |-> FALSE, idx |-> Len(f.data), stamp |-> Len(f.data), hard |-> TRUE]

(* Stream::open on a directory that holds partitions: the highest id is    *)
(* the active one and is recovered, the others are sealed or resealed.     *)
Opened(s) ==
    [p \in Pids |->
        IF p \notin Present(s) THEN Absent
        ELSE IF p = Max(Present(s)) THEN Recovered(files[s][p])
        ELSE IF SealedOk(files[s][p]) THEN files[s][p]
        ELSE Sealed(files[s][p])]

(* The records Stream::last_seq looks at: all of the active partition, the *)
(* indexed ones of a sealed partition.                                     *)
SeenLen(s, p) == IF p = active[s] THEN Len(files[s][p].data) ELSE files[s][p].idx

LastSeq_ActiveOnly(s) ==
    LET f == files[s][active[s]]
    IN  IF f.data = <<>> THEN 0 ELSE f.data[Len(f.data)].seq
LastSeq_OffByOne(s) ==
    LET P == {p \in Present(s) : SeenLen(s, p) > 0}
    IN  IF P = {} THEN 0 ELSE files[s][Max(P)].data[SeenLen(s, Max(P))].seq + 1

LastSeq(s) ==
    LET P == {p \in Present(s) : SeenLen(s, p) > 0}
    IN  IF P = {} THEN 0 ELSE files[s][Max(P)].data[SeenLen(s, Max(P))].seq

ResumeSeq_MetaOnly == 1 + LastSeq(Meta)

(* next_seq resumes after the last record of any stream.                   *)
ResumeSeq == 1 + Max({LastSeq(s) : s \in manifest.ns})

NextPid_NotAdvanced(s) == manifest.pid

(* Stream::open never hands out again an id its directory holds.           *)
NextPid(s) == Max({manifest.pid, Max(Present(s)) + 1})

(* Every record of the store, and those a power cut leaves.                *)
StreamRecords(s) ==
    UNION {{files[s][p].data[i] : i \in 1 .. Len(files[s][p].data)} : p \in Present(s)}
DurableRecords(s) ==
    UNION {{files[s][p].data[i] : i \in 1 .. files[s][p].synced} : p \in Present(s)}

(* Replay merges the streams by seq: the last record about k wins.         *)
Replay(R, k) ==
    LET about == {r \in R : r.key = k}
    IN  IF about = {} THEN 0
        ELSE (CHOOSE r \in about : \A q \in about : q.seq <= r.seq).ver

Stored    == [k \in Keys |-> Replay(DurableRecords(Home[k]), k)]
Recovers  == [k \in Keys |-> Replay(StreamRecords(Home[k]), k)]

---------------------------------------------------------------------------
Init ==
    /\ files = [s \in Streams |-> [p \in Pids |-> Absent]]
    /\ saved = [ns |-> Initial, pid |-> 1]
    /\ manifest = saved
    /\ phase = "down"
    /\ active = Closed
    /\ nextSeq = 1
    /\ batch = <<>> /\ touched = <<>> /\ sealing = 0 /\ dirty = FALSE
    /\ version = 0
    /\ issued = [k \in Keys |-> {}]
    /\ inflight = {}
    /\ acked = Nothing /\ shown = Nothing /\ relied = Nothing

(* ---- Opening the store (open_sync) ---- *)

LoadManifest ==
    /\ phase = "down"
    /\ phase' = "open"
    /\ manifest' = saved
    /\ UNCHANGED <<files, saved, active, nextSeq, call, hist>>

(* The streams are opened one by one, meta first, then by ascending ns id. *)
Unopened == {s \in manifest.ns : active[s] = 0}

OpenStream(s) ==
    /\ phase = "open"
    /\ s \in Unopened /\ s = Min(Unopened)
    /\ IF Present(s) = {}
       THEN /\ manifest.pid \in Pids
            /\ files' = [files EXCEPT ![s][manifest.pid] = Fresh]
            /\ active' = [active EXCEPT ![s] = manifest.pid]
            /\ manifest' = [manifest EXCEPT !.pid = @ + 1]
       ELSE /\ files' = [files EXCEPT ![s] = Opened(s)]
            /\ active' = [active EXCEPT ![s] = Max(Present(s))]
            /\ manifest' = [manifest EXCEPT !.pid = NextPid(s)]
    /\ UNCHANGED <<saved, phase, nextSeq, call, hist>>

(* next_seq is recomputed, the manifest reconciled, and hydrate replays    *)
(* the store into a fresh graph.                                           *)
OpenDone ==
    /\ phase = "open" /\ Unopened = {}
    /\ phase' = "idle"
    /\ nextSeq' = ResumeSeq
    /\ saved' = manifest
    /\ shown' = Recovers
    /\ UNCHANGED <<files, manifest, active, call, version, issued, inflight, acked, relied>>

(* ---- commit_batch ---- *)

Batches == UNION {[1 .. n -> Keys] : n \in 1 .. MaxBatch}

Begin(b) ==
    /\ phase = "idle"
    /\ version + Len(b) <= MaxVersion
    /\ phase' = "plan"
    /\ batch' = [i \in 1 .. Len(b) |-> [key |-> b[i], ver |-> version + i]]
    /\ inflight' = {[key |-> b[i], ver |-> version + i] : i \in 1 .. Len(b)}
    /\ version' = version + Len(b)
    /\ issued' = [k \in Keys |->
                    issued[k] \cup {version + i : i \in {j \in 1 .. Len(b) : b[j] = k}}]
    /\ UNCHANGED <<files, saved, manifest, active, nextSeq, touched, sealing, dirty,
                   acked, shown, relied>>

(* Domains of the batch, in order, that ensure_domain still has to create. *)
Missing == {i \in DOMAIN batch : active[Home[batch[i].key]] = 0}
Domain  == Home[batch[Min(Missing)].key]

(* ensure_domain, 1: the ns id is interned and on disk before the stream.  *)
InternDomain ==
    /\ phase = "plan" /\ Missing # {}
    /\ Domain \notin manifest.ns
    /\ manifest' = [manifest EXCEPT !.ns = @ \cup {Domain}]
    /\ saved' = manifest'
    /\ UNCHANGED <<files, phase, active, nextSeq, call, hist>>

(* ensure_domain, 2: the stream's first partition.                         *)
CreateStream ==
    /\ phase = "plan" /\ Missing # {}
    /\ Domain \in manifest.ns /\ Present(Domain) = {}
    /\ manifest.pid \in Pids
    /\ files' = [files EXCEPT ![Domain][manifest.pid] = Fresh]
    /\ UNCHANGED <<saved, manifest, phase, active, nextSeq, call, hist>>

Registered_NotInserted(s) == active

(* The stream of a new domain is inserted in Inner.graph.                  *)
Registered(s) == [active EXCEPT ![s] = Max(Present(s))]

RegisterStream_NotSaved ==
    /\ phase = "plan" /\ Missing # {}
    /\ Domain \in manifest.ns /\ Present(Domain) # {}
    /\ files' = [files EXCEPT ![Domain] = Opened(Domain)]
    /\ manifest' = [manifest EXCEPT !.pid = NextPid(Domain)]
    /\ active' = Registered(Domain)
    /\ UNCHANGED <<saved, phase, nextSeq, call, hist>>

(* ensure_domain, 3: next_partition_id saved, the stream usable.           *)
RegisterStream ==
    /\ phase = "plan" /\ Missing # {}
    /\ Domain \in manifest.ns /\ Present(Domain) # {}
    /\ files' = [files EXCEPT ![Domain] = Opened(Domain)]
    /\ manifest' = [manifest EXCEPT !.pid = NextPid(Domain)]
    /\ saved' = manifest'
    /\ active' = Registered(Domain)
    /\ UNCHANGED <<phase, nextSeq, call, hist>>

(* Encoding, routing or ensure_domain fails: the batch is refused, nothing *)
(* was appended, the store stays usable.  A failed manifest save leaves    *)
(* the change in memory only.                                              *)
PlanFails ==
    /\ phase = "plan"
    /\ \/ manifest' = manifest
       \/ Missing # {} /\ manifest' = [manifest EXCEPT !.ns = @ \cup {Domain}]
       \/ /\ Missing # {} /\ Domain \in manifest.ns /\ Present(Domain) # {}
          /\ manifest' = [manifest EXCEPT !.pid = NextPid(Domain)]
    /\ phase' = "idle"
    /\ batch' = <<>> /\ inflight' = {}
    /\ UNCHANGED <<files, saved, active, nextSeq, touched, sealing, dirty, version,
                   issued, acked, shown, relied>>

Planned ==
    /\ phase = "plan" /\ Missing = {}
    /\ phase' = "append"
    /\ UNCHANGED <<files, saved, manifest, active, nextSeq, call, hist>>

(* write_planned, first loop: one record buffered on its stream.           *)
Append1 ==
    /\ phase = "append" /\ batch # <<>>
    /\ LET r == Head(batch)
           s == Home[r.key]
           rec == [seq |-> nextSeq, key |-> r.key, ver |-> r.ver]
       IN  /\ files' = [files EXCEPT ![s][active[s]] = Appended(@, rec)]
           /\ touched' = IF \E i \in DOMAIN touched : touched[i] = s
                         THEN touched ELSE Append(touched, s)
    /\ nextSeq' = nextSeq + 1
    /\ batch' = Tail(batch)
    /\ phase' = IF Tail(batch) = <<>> THEN "sync" ELSE "append"
    /\ UNCHANGED <<saved, manifest, active, sealing, dirty, hist>>

AfterStream_FirstOnly(rest) == "save"

(* What follows the streams committed so far.                              *)
AfterStream(rest) == IF rest = <<>> THEN "save" ELSE "sync"

(* write_planned, second loop: the durability barrier of one stream, then  *)
(* the roll check.                                                         *)
Commit ==
    /\ phase = "sync"
    /\ LET s == Head(touched)
           f == Committed(files[s][active[s]])
           due == Len(f.data) >= RollRecords
       IN  /\ files' = [files EXCEPT ![s][active[s]] = f]
           /\ phase' = IF due THEN "roll" ELSE AfterStream(Tail(touched))
           /\ touched' = IF due THEN touched ELSE Tail(touched)
    /\ UNCHANGED <<saved, manifest, active, nextSeq, batch, sealing, dirty, hist>>

(* maybe_roll: a fresh active partition first (create_new) ...             *)
RollCreate ==
    /\ phase = "roll" /\ manifest.pid \in Pids
    /\ LET s == Head(touched)
       IN  /\ files[s][manifest.pid] = Absent
           /\ files' = [files EXCEPT ![s][manifest.pid] = Fresh]
           /\ sealing' = active[s]
           /\ active' = [active EXCEPT ![s] = manifest.pid]
    /\ manifest' = [manifest EXCEPT !.pid = @ + 1]
    /\ phase' = "stamp"
    /\ UNCHANGED <<saved, nextSeq, batch, touched, dirty, hist>>

(* ... then the old one is sealed: the count stamped, the file synced.     *)
Stamp ==
    /\ phase = "stamp"
    /\ LET s == Head(touched)
       IN  files' = [files EXCEPT ![s][sealing] = Stamped(@)]
    /\ phase' = "harden"
    /\ UNCHANGED <<saved, manifest, active, nextSeq, call, hist>>

Harden ==
    /\ phase = "harden"
    /\ LET s == Head(touched)
       IN  files' = [files EXCEPT ![s][sealing] = Sealed(@)]
    /\ sealing' = 0
    /\ dirty' = TRUE
    /\ touched' = Tail(touched)
    /\ phase' = AfterStream(Tail(touched))
    /\ UNCHANGED <<saved, manifest, active, nextSeq, batch, hist>>

Latest_First(f) ==
    [k \in Keys |-> LET mine == {r.ver : r \in {q \in inflight : q.key = k}}
                    IN  IF mine = {} THEN f[k] ELSE Min(mine)]

(* The newest version of k in the batch, or what was there before.         *)
Latest(f) ==
    [k \in Keys |-> LET mine == {r.ver : r \in {q \in inflight : q.key = k}}
                    IN  IF mine = {} THEN f[k] ELSE Max(mine)]

(* The manifest is saved when a stream rolled, the batch returns Ok and    *)
(* the caller applies it to the graph.                                     *)
Finish ==
    /\ phase = "save"
    /\ saved' = IF dirty THEN manifest ELSE saved
    /\ dirty' = FALSE
    /\ acked' = Latest(acked)
    /\ shown' = Latest(shown)
    /\ relied' = [k \in Keys |-> Max({relied[k], shown'[k]})]
    /\ inflight' = {}
    /\ phase' = "idle"
    /\ UNCHANGED <<files, manifest, active, nextSeq, batch, touched, sealing, version, issued>>

(* Any failure after the plan poisons the store: every further append is   *)
(* refused until a restart.                                                *)
WriteFails ==
    /\ phase \in {"append", "sync", "roll", "stamp", "harden", "save"}
    /\ phase' = "poisoned"
    /\ UNCHANGED <<files, saved, manifest, active, nextSeq, call, hist>>

(* ---- The end of the process ---- *)

(* What is left of a partition of which n records were saved: a killed     *)
(* process leaves the page cache as it is; a power cut makes what it left  *)
(* all there is, and may lose the index entries (one or all, the rebuild   *)
(* is the same) or the stamp that only the page cache held.                *)
Image(f, n, torn, power, indexed, stamped) ==
    [data    |-> SubSeq(f.data, 1, n),
     flushed |-> n,
     synced  |-> IF power THEN n ELSE f.synced,
     torn    |-> f.torn \/ (torn /\ n < Len(f.data)),
     idx     |-> IF power /\ ~f.hard /\ ~indexed THEN 0 ELSE f.idx,
     stamp   |-> IF power /\ ~f.hard /\ ~stamped THEN 0 ELSE f.stamp,
     hard    |-> power \/ f.hard]

Sure(f, power) == IF power THEN f.synced ELSE f.flushed

(* Beyond the records sure to be left, `keep' others are: the buffer of    *)
(* the active partition, or the page cache, reached the disk that far.     *)
Left(f, keep, power) ==
    IF Sure(f, power) + keep < Len(f.data) THEN Sure(f, power) + keep ELSE Len(f.data)

AtStake(power) ==
    {n \in Versions : \E s \in Streams : \E p \in Present(s) :
                         n <= Len(files[s][p].data) - Sure(files[s][p], power)}

Crash(power, keep, torn, indexed, stamped) ==
    /\ phase # "down"
    /\ files' = [s \in Streams |-> [p \in Pids |->
                    IF files[s][p] = Absent THEN Absent
                    ELSE Image(files[s][p], Left(files[s][p], keep[s], power), torn,
                               power, indexed, stamped)]]
    /\ phase' = "down"
    /\ active' = Closed
    /\ manifest' = saved
    /\ nextSeq' = 1
    /\ batch' = <<>> /\ touched' = <<>> /\ sealing' = 0 /\ dirty' = FALSE
    /\ inflight' = {}
    /\ shown' = Nothing
    /\ UNCHANGED <<saved, version, issued, acked, relied>>

Killed ==
    \E keep \in [Streams -> {0} \cup AtStake(FALSE)], torn \in {FALSE, AtStake(FALSE) # {}} :
        Crash(FALSE, keep, torn, TRUE, TRUE)
PowerCut ==
    \E keep \in [Streams -> {0} \cup AtStake(TRUE)], torn \in {FALSE, AtStake(TRUE) # {}},
       indexed, stamped \in BOOLEAN :
        Crash(TRUE, keep, torn, indexed, stamped)

(* The steps the code takes by itself once a call is under way.            *)
Step ==
    \/ \E s \in Streams : OpenStream(s)
    \/ OpenDone
    \/ InternDomain \/ CreateStream \/ RegisterStream \/ Planned
    \/ Append1 \/ Commit \/ RollCreate \/ Stamp \/ Harden \/ Finish

Next ==
    \/ LoadManifest
    \/ \E b \in Batches : Begin(b)
    \/ Step
    \/ PlanFails \/ WriteFails
    \/ Killed \/ PowerCut

Spec == Init /\ [][Next]_vars

(* A call runs on a blocking thread, in straight line, under the store's   *)
(* mutex: it does not stop half-way unless the process does.               *)
FairSpec == Spec /\ WF_vars(Step)

---------------------------------------------------------------------------
(* Properties.                                                             *)

(* Every acknowledged record is durable where it was written: no failure,  *)
(* crash or reopening loses it (store.rs, "a successful return from append *)
(* means the record survives a process crash").                            *)
AckedOnDisk ==
    \A k \in Keys : acked[k] # 0 =>
        \E r \in DurableRecords(Home[k]) : r.key = k /\ r.ver = acked[k]

(* The k-way merge of replay reads each stream in partition order and      *)
(* assumes it sorted: seqs increase along a stream, across its partitions, *)
(* after any number of rolls, failures and reopenings.                     *)
StreamOrdered ==
    \A s \in Streams : \A p, q \in Present(s) :
        \A i \in DOMAIN files[s][p].data, j \in DOMAIN files[s][q].data :
            (p < q \/ (p = q /\ i < j)) => files[s][p].data[i].seq < files[s][q].data[j].seq

(* The seq orders the whole store: no two streams hold records of one seq, *)
(* although next_seq is only ever recomputed from what recovery found.     *)
SeqUnique ==
    \A s, u \in Streams : s # u =>
        {r.seq : r \in StreamRecords(s)} \cap {r.seq : r \in StreamRecords(u)} = {}

(* While the store accepts batches, every partition but the active one is  *)
(* sealed, whole and indexed to its last byte, and its data are on disk:   *)
(* SealedSegment::open succeeds on what the store maps (H11).              *)
SealedWhole ==
    phase = "idle" =>
        \A s \in Streams : \A p \in Present(s) : active[s] \notin {0, p} =>
            /\ p < active[s]
            /\ files[s][p].idx = Len(files[s][p].data)
            /\ files[s][p].synced = Len(files[s][p].data)

(* The graph is the store: what hydration or an Ok put in it is what a     *)
(* replay of the files would rebuild, once a batch has ended well.         *)
GraphIsReplay == phase = "idle" => shown = Recovers

(* A domain id is on disk before any record refers to it (R10): whatever   *)
(* fails or crashes, a stream with records is in the saved manifest.       *)
DomainKnown == \A s \in Streams : StreamRecords(s) # {} => s \in saved.ns

(* A roll never meets its own file: the id it creates is free in its       *)
(* stream, although next_partition_id is saved only after a roll and is    *)
(* otherwise rediscovered from the directories.                            *)
RollIdFree ==
    phase = "roll" /\ manifest.pid \in Pids => files[Head(touched)][manifest.pid] = Absent

(* The records of a partition that a roll or a reopening sealed are never  *)
(* changed or removed again, by any step, a power cut included (H11).      *)
SealedForever ==
    [][\A s \in Streams : \A p \in Present(s) :
          (\E q \in Present(s) : p < q) /\ SealedOk(files[s][p]) =>
              files'[s][p] # Absent /\ files'[s][p].data = files[s][p].data]_vars

(* store.rs: "the store only needs to guarantee that successfully-acked    *)
(* writes can be replayed in order".  What the graph showed when an append *)
(* returned Ok may be referred to by it, so a replay must still find it.   *)
ReferentsReplayed == \A k \in Keys : relied[k] <= Recovers[k]

(* The detailed store implements the promise of the trait.                 *)
Promise == INSTANCE DurableStore WITH stored <- Stored
KeepsPromise == Promise!Spec

(* A call that started comes to an end, unless the process does first: an  *)
(* open finishes, a batch returns Ok or an error, rolls and new domains    *)
(* included.                                                               *)
CallsEnd ==
    /\ phase = "open" ~> phase \in {"idle", "down"}
    /\ phase = "plan" ~> phase \in {"idle", "poisoned", "down"}

===========================================================================
