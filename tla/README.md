# Formal models of the ontology store

This directory specifies, in TLA+, the core of the ontology server in this
repository, model-checks it with TLC on small instances and proves its main
guarantees with TLAPS. It is written for someone who has the code open beside it.

## 1. The system

The program is an in-memory ontology graph (concepts, relations, rules, actions
and a schema) made durable by an append-only store, filled by importers, served
over HTTP and queried by a retrieval pipeline.

| Component | Code | State it keeps | Operations | What is hard | What makes it correct |
|---|---|---|---|---|---|
| Segmented store, write path | `crates/storage/src/segment_store.rs`, `stream.rs`, `segment/*.rs`, `manifest.rs` | `MANIFEST.json`; one stream (directory of partitions) per domain; `Inner` under one mutex: manifest, open streams, `next_seq`, `poisoned` | open (recover, resume counters, hydrate), `append_batch`, domain creation, roll | a crash between any two file operations; several streams in a batch; counters recomputed from what survived | an acknowledged record is found again; replay order; whole sealed partitions; the graph is what a replay shows |
| Segmented store, compaction | `compact_all`, `finish_compaction` | the above, `compacting/` directories, the marker in the manifest | stage, verify, commit, swap, finish at open | crash or error in the middle of a multi-stream swap | nothing lost, nothing revived, nothing left over |
| Store trait | `store.rs` | – | `append`, `append_batch`, `load_into`, `compact` | – | the write-ahead contract |
| Segment formats, codecs, `.xref` | `segment/format.rs`, `codec.rs`, `segment/xref.rs` | bytes | encode, decode, checksum | torn and corrupted bytes | a record is read whole or not at all |
| Tiers and budget | `budget.rs`, `set_tiers` | tier per domain | `plan_load`, eviction | estimates at the limit | the plan fits the budget |
| Backup, restore, migration | `backup.rs`, `migrate.rs`, `backup_locked` | target directory, staging | copy, verify, rename | interruptions | a refused or a complete copy |
| Legacy store | `file.rs`, `snapshot.rs`, `log.rs`, `periodic.rs` | log, snapshot, watermark | append, snapshot, compact, replay | a snapshot between an append and its apply | nothing acknowledged is skipped by replay |
| Graph | `crates/graph/src/*` | concepts, relations, indexes, generations, payload locations | `prepare_*`, `apply_prepared_*`, `set_loc`, `partition_sealed`, queries | readers run against one writer; locations arrive before their concept | queries agree with the records applied |
| Server | `crates/server/src/lib.rs` | graph, store, index, writer mutex | write handlers (prepare, append, apply), list pages with ETags | cancelled requests, stale tags | disk and graph agree; a tag never lies |
| Ingestion and review | `crates/io/src/ingest.rs`, `crates/server/src/ingest_review.rs` | batches, proposals | batch writes, prune, rollback | a failure in the middle | all or nothing per unit |
| Users, keys, audit | `crates/server/src/auth.rs`, `audit.rs` | user database | create, revoke, persist | failure of the save | memory and file agree |
| Index and embedding cache | `crates/index/src/*` | postings, vectors, cache file | index, remove, search, flush | staleness against the graph | no answer for what is deleted |
| RAG | `crates/rag/src/*` | – | retrieve, prompt, call, retry | retries | bounded attempts |
| Readers | `crates/io/src/*` (csv, abl, df, docx ...) | – | parse | – | sequential, not modelled |
| CLI, OpenAPI, web client, auth server | `crates/cli`, `crates/server/src/openapi.rs`, `web`, `auth-server` | – | – | – | not modelled |

**How they interact.** A write handler takes the server's writer mutex, asks the
graph to `prepare_*` the change, calls `Store::append`, and applies the change to
the graph when the append returned `Ok`. The store runs the call on a blocking
thread under its own mutex. At start the store is opened, its streams recovered,
and a k-way merge of the streams by `seq` replays every record into a fresh
graph. Compaction goes the other way: the graph is rewritten into the store.

The hazards of this code are listed, each at its line, in `PROJECT.json`, with
the properties that cover them; two are not covered and say why.

## 2. The modules

| Layer | Modules | What |
|---|---|---|
| Promise of a store | `DurableStore`, `AtomicStore` | the write-ahead promise of the trait as a log of versions, and as a table of batches |
| Segmented store | `SegmentStore`, `Compaction`, `SegmentFile` | write path, rolls and recovery (section 3); compaction and its swap (section 4); the two files of one partition under out-of-order loss and bad sectors |
| Store around it | `Payloads`, `LoadPlan`, `Backup` | payloads left on disk, read beside rolls and compactions; what a start loads and then compacts; copies over copies |
| Legacy store | `FileStore`, `Migrate` | log, snapshot, watermark; the start that converts it |
| Graph and writers | `GraphLog`, `WriteAhead`, `Ingest` | what a record does to the graph, every mutating handler over a journal, uploads on top of them: each extends the one before |
| Graph and readers | `ListPages`, `Traversal`, `Search` | lists beside a writer, walks beside deletions, the search index behind a writer |
| Services | `Review`, `Accounts`, `Ask`, `Extract`, `Settings`, `Registries` | one endpoint family each |
| Instances | `MCSegmentStore`, `MCCompaction`, `MCServer`, `MCLists`, `MCServices` | constants for TLC |
| Instances with proofs | `Parts` | the variables, instances and assumptions of `ListPages`, `Search`, `Ask`, `Extract`, `FileStore`, `Migrate`, `SegmentFile`, `Backup`, `Review`, `Accounts`, `Payloads`, `Settings` and `Registries`; `MCServices` extends it to check them, `Parts_proofs` to prove about them |
| Proofs | `SegmentStore_proofs`, `SegmentReplay_proofs`, `Compaction_proofs`, `Server_proofs`, `Parts_proofs`, `Answers_proofs`, `Services_proofs`; `Extremes`, lemmas about least and greatest numbers | section 7 |

`SegmentStore` instantiates `DurableStore` and `Compaction` instantiates
`AtomicStore`, as the abstract specifications they implement. `WriteAhead` is
written over a journal, a sequence of records that loses nothing acknowledged, which
is what those two refinements grant: the handlers do not depend on how a backend
keeps its promise. `Ingest` runs its agenda through the same append and apply
steps as the handlers, so uploads, handlers, failed writes, crashes and
cancellations interleave in one state space.

## 3. `SegmentStore`: the write path

State and code:

| Variable | In the code |
|---|---|
| `files[s][p]` | partition `p` of stream `s`: records of `.data`, how many are in the page cache (`flushed`) and on the disk (`synced`), an incomplete record (`torn`), entries of `.idx` (`idx`), the count in its header (`stamp`), whether `.idx` is synced (`hard`) |
| `saved`, `manifest` | `MANIFEST.json` and `Inner.manifest`: interned domains, `next_partition_id` |
| `phase` | where `open_sync` or `commit_batch` is, or `down`, `idle`, `poisoned` |
| `active[s]`, `nextSeq` | active partition of an open stream, `Inner.next_seq` |
| `batch`, `touched`, `sealing`, `dirty` | locals of `commit_batch`, `write_planned`, `maybe_roll` |
| `version`, `issued`, `inflight`, `acked`, `shown`, `relied` | history: what callers asked for, what was acknowledged, what the graph shows |

| Action | Code |
|---|---|
| `LoadManifest`, `OpenStream`, `OpenDone` | `open_sync`, `Stream::open`, `recover_segment`, `hydrate` |
| `Begin`, `InternDomain`, `CreateStream`, `RegisterStream`, `Planned`, `PlanFails` | `commit_batch`, `plan_batch`, `route`, `ensure_domain` |
| `Append1`, `Commit`, `RollCreate`, `Stamp`, `Harden`, `Finish`, `WriteFails` | `write_planned`, `ActiveSegment::commit`, `maybe_roll`, `seal` |
| `Killed`, `PowerCut` | the end of the process, between any two of the steps above |

A kill leaves the page cache; a power cut leaves the synced records of every
file and, per stream, any further prefix, possibly ending in an incomplete
record, and may lose the unsynced index entries or stamp.

Abstractions. A record is its seq, entity and version. `Home` is fixed: an entity
does not change domain, and a record is routed as `route` does it once the domain
exists. The steps of recovering one stream are one action: recovery writes nothing
that a second recovery would read differently. Opening a stream and syncing one
are atomic because a crash inside leaves states a crash before or after already
leaves. Losing *some* index entries is the same as losing all, since `.idx` is
rebuilt from `.data` whenever it does not cover it. Directory entries are durable
once created. A power cut loses suffixes here, never holes: holes are the subject of
`SegmentFile`. Relation-type symbols and `.xref` files are not modelled; tiers and
backups are in modules of their own.

Definitions whose name is that of another with an underscore and a hint (`RelIdFor_Kept`, here and in every
other module) are not used by any action: each is the other with one plausible error, and shows that the
property named in `PROJECT.json` would notice it.

### Properties and runs

| Run | Instance | Checks |
|---|---|---|
| `store_write` | meta, the default domain and a third one, created by its first record; 2 entities, 3 records, batches of up to 3, a roll every 2 records | `TypeOK`, `AckedOnDisk`, `StreamOrdered`, `SeqUnique`, `SealedWhole`, `GraphIsReplay`, `DomainKnown`, `RollIdFree`, `SealedForever`; `KeepsPromise`: the refinement of `DurableStore` with `stored` the durable records' replay; and `CallsEnd` under fairness |
| `store_referents` | single records, a kill then a power cut | `ReferentsReplayed`, violated |

Why these bounds are enough: a roll needs two records, a reopening that must
order partitions needs a roll, a failure and one more batch, a batch across
streams needs two streams, and a domain created half-way needs a third stream
unknown to the manifest. Each mistake in the list needs at most that much to show. The safety
properties of `store_write` are proved for all bounds (section 7); `CallsEnd` rests on the run alone.
`MaxPid` never binds: ids are taken by streams and by rolls, and both are
bounded by the records (a crash may repeat an open, but a stream that has a
partition takes no new id).

`ReferentsReplayed` is a sentence of the repository that the code does not keep (`store.rs:56-57`):
`recover_segment` syncs only when it truncates. Records a killed process left in the page cache are
shown after the restart, later records that refer to them are acknowledged and synced in other
streams, and a power cut removes the former from under the latter.

Another is only told here: `segment_store.rs:896-899` (and `store.rs:72`) says a crash between two
syncs leaves a durable *prefix* of the batch. The order of syncs is that of first touch, but one sync
makes *all* the stream's records durable: after the batch (domain 0, domain 1, domain 0) and a crash
between the syncs, the third record is there without the second. `KeepsPromise` therefore leaves open
which records of an unacknowledged batch a restart shows.

## 4. `Compaction`

A batch is one step here (it is `SegmentStore`'s subject), a partition is its set
of records, and the process can end after any step; what was written is taken to
be synced. The ontology record, always first in `live_records`, is the key
`Ontology` of stream `meta`, never deleted.

| Variable | In the code |
|---|---|
| `live`, `staging` | the `.data` files of the stream directories and of their `compacting/` |
| `saved`, `manifest` | manifest on disk and in `Inner`: `next_partition_id` and the `CompactionMarker` |
| `known[s]` | the partitions the open stream has |
| `graph`, `nextSeq` | the live graph, `Inner.next_seq` |
| `phase`, `todo`, `staged`, `olds` | where `compact_all` or `open_sync` is, and their locals |

`Compact`, `Stage`, `Seal`, `Verify`/`Abort`, `Mark`, `Move`, `FreshActive`,
`Delete`, `Clear` are `compact_all` in order; `FinishMove`, `FinishRemove`,
`FinishClear` are `finish_compaction`; `OpenStream` and `OpenDone` the open that
follows; `Fails` is any `?` of `compact_all`, which returns the error and leaves the
store usable; `Crash` ends the process. `Stage` writes a stream's partition at
once with consecutive seqs: in the code the records of the streams interleave, which no property tells
apart, since entities do not move between streams. `Abort` may happen whatever was staged, standing for a staged
partition that cannot be read back. The codec switch, the relocation of evicted payloads and
the rebuild of `.xref` files are left out.

| Run | Instance | Checks |
|---|---|---|
| `compact_crash` | the ontology and two entities in two streams, 2 writes, a roll every 2 records, room for three partition generations; I/O errors while staging | `TypeOK`, `GraphSurvives`, `PartitionsOrdered`, `PidFree`, `NothingLeft`, `KeepsTable` (refines `AtomicStore`: what a restart reads changes only by writes), `CompactionEnds` under fairness |
| `compact_fails` | two entities, 3 writes, I/O errors at every step | `GraphSurvives`, violated |

The bounds (`MaxWrites`, `MaxSeq`, `MaxPid`) let a compaction follow a roll and a
deletion, and a second compaction follow an aborted, failed or interrupted first
one. `MaxSeq` and `MaxPid` stop a behaviour that has used them up; the guards of
`Compact` keep a compaction from starting with too few left. In these runs
`CHECK_DEADLOCK` is left on: a crash and a restart are always possible.

`compact_fails` shows what an I/O error at or after the commit point does. The store is not
poisoned, the marker stays pending in memory or on disk, later batches are acknowledged into
the old active partition, and the next open deletes that partition as the marker says.
A second effect of the same window, seen while modelling and listed among the hazards: a
staged partition already moved in when the swap fails is unknown to the stream and
not on the remove list of a second compaction, so an entity deleted in between returns.

## 5. The other modules

`GraphLog` has only operators: the prepare half and the apply half of each kind
of mutation, and `ApplyRecord`, both halves as a replay runs them. The server's
graph and a replay share them, so a disagreement between the two can only come
from *when* and *in which order* they run. What each state machine keeps:

| Module | State, and where it is in the code | Actions |
|---|---|---|
| `WriteAhead` | `graph`; `journal`, what a replay of the store reads; `op`, the handler under the writer mutex (`AppState.writer`) and its phase; `adrift`, blocking work whose request is gone; `poisoned`, `up` | one per mutating handler of `lib.rs`; `Land`, `Refuse`, `Tear`: the three ends of an append; `Apply`, `Cancel`, `LandAdrift`, `Crash`, `Restart` |
| `Ingest` | `ing`: the `Ingester`'s three batches, its staged types, the schema to roll back to, the agenda of what remains | one per step of `Ingester::apply`, its flushes and its end |
| `ListPages` | the primary `map`, the sorted `index`, `gen`, `cache`; the `writer` and the `reader` with their place; the `client`'s tag and cursor | `Enter`, `Row`, `Fetch`, `Leave`, `Store` of a page; one write step by step; requests |
| `FileStore` | `log`, `snap`, `seq`, the live `table`, the snapshotter `shot` | `Write`, `Apply`, `Water`, `Shoot`, `Replace`, `Truncate`, `Kill`, `Load` |
| `Migrate` | the legacy files, the staging and the final directory, the `start` | the steps of `migrate_legacy`; `Interrupt`; the two remedies the refusal names |
| `Backup` | the store's files, the destination's, what remains to copy | `Begin`, `Copy`, `End`, `Break`, `Restore`, beside `Roll` and `Compact` |
| `Payloads` | `slots` (`Slot`, `Payload`), `pendingLocs`, `sealable`, the readable partitions, a write or a compaction, a reader | each lock scope of `set_loc`, `partition_sealed`, `apply`, of a compaction's relocation, of a read |
| `LoadPlan` | the limits, the manifest's counters, the plan served; concepts in memory and on disk | `Start`, `Create`, `Compact`, `Stop` |
| `SegmentFile` | `head`, the header of `.data`; its cells, entries and stamp of `.idx`, what is synced of each | `AppendRecord`, `SyncData`, `WriteEntries`, `Roll`, `Stamp`, `SyncIndex`, `OpenSegment`; `Kill`, `PowerCut`, `Rot` |
| `Search` | postings, `docTerms`, rows and positions, the cache and its file, the graph's texts | the handlers that change the graph and then the index; `Reindex`, `Save`, `Restart` |
| `Traversal` | the links; the locals of `expand`, `shortest_path`, `closure` | `Level`, `Admit`, `Visit`, `Back`; `Drop` deletes a link or a node between two reads |
| `Review` | live graph and journal as sets of items; whether a failed append poisoned the store; the request's place | `Apply` and a step per item, whose append may fail with its record in the file or without; `Restart` |
| `Accounts` | `Db` in memory and on file; each handler's request, before or after its hash | sign-up, creation, login, deletion, keys; a persist that fails |
| `Ask` | the provider's script, what arrived, the events sent on | `Arrive`, `Hang`, `Drain`, `ReadOn`; `Retry`, `Fail`, `Reply` |
| `Extract` | the queue of pieces, the merged proposal | `Answer`, `CutOff`, `Fail` |
| `Settings` | settings behind the lock and on file, the cached client | `Patch`; `Truncate` and `WriteOut`, either of which may fail unnoticed; `ReadSettings`, `TakeClient`, `Restart` |
| `Registries` | saved queries, a token bucket, samples, a clock | their operations, and `Tick` |

### Runs

`services` checks all of them. TLC explores them one at a time: `unit` is chosen
at the start and never changes, the variables of the other parts hold `Off`, so the
state space is the sum of theirs and not their product. Each property is about
one part; `MCServices` names it. What composes is composed inside a part: handlers,
uploads, crashes and replay in `MCServer`; writer, reader, cache and client in
`ListPages`; writes, rolls, a compaction and a reader in `Payloads`.

| Property | Part | Says |
|---|---|---|
| `ServerRestart` | handlers, uploads | with no handler at work, replaying the journal gives the graph clients see, ids and names included |
| `ServerReplay` | | a replay accepts the journal, in the scenes where no request is cancelled |
| `ServerJournal` | | no concept, rule or action is visible before a durable record holds it |
| `ServerNames`, `ServerIds`, `ServerSchema` | | the name index is the inverse of the names; no id that a record of the journal names is handed out again; the schema in force is the journal's, whatever an upload rolled back |
| `PageFresh`, `WalkComplete` | lists | a page, cached or a 304, is not older than a write acknowledged before the request; a walk meets each lasting row once |
| `LegacyKept`, `ServesWhole`, `RestoresTaken` | legacy store, migration, backups | what was acknowledged, migrated or taken is what a load, a start or a restore finds |
| `ReviewDurable` | review | the journal replays, at every moment; only types still to be journaled are served and missing from it; it holds more than is served only after an append failed; what a journaled request's report calls created is live and on disk |
| `OneAdmin` | accounts | one administrator and unique addresses in memory and on file, while sign-ups race |
| `StreamWhole`, `ProposalWhole` | answers, extraction | text in order and one end; every relation under a reference of its own |
| `IndexCurrent` | search | a search finds a concept by its present words and by no others |
| `ReadsCurrent` | payloads | a read is never older than what was visible when it began |
| `PlanFits` | load plan | what a plan loads fits, what it skips does not |
| `ExpansionSound` | traversal | ends of every returned link are returned, caps hold, distances and paths are shortest when nothing is deleted |
| `RecoverySound` | partition files | what a commit returned is there after an open, but for what a damaged record takes along, or the open refuses for damage or a lost header of an empty segment |
| `AdminSound` | settings, registries | a call uses a configuration that was in force during it; the file holds what is served once the last write of it succeeded; deleted queries stay deleted; what a bucket lets through |

Bounds of `services`, and what they make happen: `BatchSize = 2` with sources of up to five
records makes an upload flush in the middle and again at its end; `PruneMin = 4` lets a
prune be refused and allowed; each scene of `MCServer` gives the allocators a room of their
own above `MaxId`. Pages have one row (`Limit = 1`) of two or three, so every page ends in a
cursor; two writes fall between the requests. Three records, or four cells, over partitions of
one or two are enough for two rolls and a fault in each place. Two handlers are
what a race of sign-ups needs. Four nodes and seven links have two cycles, a loop, parallel
links and ties in weight. Two limits, one above and one below the whole cost, give every branch of
`plan_load`. The clock of `Registries` runs for more than two windows. Every bound
stops its part, so the run has `CHECK_DEADLOCK FALSE`; the same holds of
`server_abandoned` and `segment_severed`. In the other violated ones the violation comes first.

| Run | Checks | Shows |
|---|---|---|
| `server_dangling` | `ReplayAccepted`, violated | a rule or action that outlived a concept it names is renamed: the journaled record is one `upsert_rule` refuses, and the server does not start again |
| `server_symmetric` | `RestartShowsLinks`, violated | two edges of a symmetric type in one batch of an upload: live, both edges have their ids before either inverse; in a replay the first inverse takes the second edge's id, and a later tombstone removes another relation |
| `server_abandoned` | `Journaled`, violated | the client of `POST /compact` goes away, the mutex is free, the blocking compaction reads the graph between a handler's append and its apply, and rewrites the store without the acknowledged record |
| `server_cancelled` | `PreparedReplays`, violated | the client of a creation goes away during its append, the record lands and is never applied; a second creation of the name is validated on the graph without it, and the replay refuses its record: the server does not start again |
| `segment_severed` | `CutsOnlyBad`, violated | a damaged length in the middle of a segment reads as a torn tail: the open cuts it off with every acknowledged record behind it |
| `lists_deadlock` | `NoneStuck`, violated | a rename holds a concept's shard and waits for the ordered index, a listing holds the index and waits for the shard |
| `partial_load` | `OnlyDeadDisappear`, violated | a server that loaded some domains compacts the store from its memory: the others are deleted |

### What the properties exclude

Where the code has a defect that a property would trip over at once, a history
variable marks the behaviours that contain it and the property speaks of the others:

* `server_*`: the scenes of `services` have no rename after a deletion and no two new
  symmetric edges in a batch; `ReplayAccepted` and `RestartShowsLive` do not speak of scenes with
  `cancel`. A request dropped during its append leaves a record the graph does not show until
  the restart (`lib.rs:2000`), and in the worst case one that makes the server refuse to start:
  that is the run `server_cancelled`.
* `IdsFresh` is about the ids that the journal names. Allocators are rebuilt from it, so when the concept
  with the highest id is deleted, the store compacted and the server restarted, that id is given out again.
* `NamesExact` is about concepts of one type. `PUT /ontology` may declare two types disjoint that have
  concepts of one name already; nothing looks at these.
* `ReviewDurable` does not speak of the report of a strict request that stops among the types: it calls
  created the types it has taken back, and `coverage_ingest_review.rs:259-274` expects that of it.
* `raced` (`FileStore`): a snapshot by `periodic.rs` between an append and its apply puts a record under the
  watermark that is not in the snapshot (`file.rs:308`).
* `halved` (`Migrate`): a start interrupted between the two legacy renames refuses to guess, and one of the
  two remedies it names, removing the store, then migrates half of the history.
* `moved` (the reader of `Payloads`): a location copied before a compaction's swap and read after the old partition
  is gone is an error, where `segment_store.rs:1380-1383` says a P1 read never finds a hole.
* `ghosts` (`Search`): `POST /reset` calls `reindex_all` on the empty graph, which removes
  nothing; searches without a type filter still rank the ids.
* `harm`, `rotten`, `severed`, `holed` (`SegmentFile`): a bad sector in the *last* acknowledged record is cut as
  a torn tail; one in the length of any record, which no checksum covers (`format.rs:462`), is cut with all
  the records behind it (`severed`, the run `segment_severed`); a header lost before its sync, which keeps its
  length and reads as zeros, is refused although nothing was appended (`stream.rs:216-222` looks at the
  length only). Damage to the other fields of a record's header, which go on decoding as another seq or kind, and
  to the `.idx` is not modelled. `sealed.rs` checks the count and the last entry of a stamped index, so a hole in
  its middle passes.
* `crossed` (`Settings`): two patches at once write the file in either order, and it is written in place.
* `unsaved` (`Settings`): a failed open or write of the file is logged, the request answers OK and the file stays
  old or torn until the next patch (`lib.rs:3408-3411`; `lib.rs:166-170` calls persistence best effort).
* A walk by cursor may miss or repeat a row that is renamed across the cursor: `WalkComplete` is about the rows that are not.

Other places where code and words differ, met while modelling, without a run of their own:
generations restart at 0 with the process, so an `If-None-Match` from before a restart can be answered 304
(`lib.rs:2087-2091`); `extend_ontology` does not change `concepts_gen`, so pages with subtypes go
stale; a schema tightened by `PUT /ontology` under existing instances makes every later compaction fail its
verification; `ask_stream`'s documentation says the stream closes after an error, but an `end` follows it, and a
provider that separates frames by CRLF is not understood; the rate limit is documented as a sliding
window and is a token bucket, which lets up to twice `max` through one window; the adaptive plan takes domains smallest
first, which is not always "as many as possible".

## 6. Fairness

`FairSpec` of `SegmentStore` and of `Compaction` is `Spec /\ WF_vars(Step)`: once an open, a batch or a
compaction is under way its next step is eventually taken. The code runs each of
them in straight line inside `spawn_blocking` under the store's mutex, without
waiting for anything but the file system. Nothing is assumed of callers, failures, kills or
restarts.

## 7. What is proved

Two modules, `SegmentReplay_proofs` extending `SegmentStore_proofs`, prove every safety property that the runs of
`SegmentStore` check and that holds, and that it implements `DurableStore`; all of it for any
streams, entities, routing, bounds and roll policy (the `ASSUME`s of `SegmentStore`), over
kills, power cuts, failed plans and failed writes at any step.
`Compaction_proofs` does the same for `Compaction` and `AtomicStore`, over the end of the process
at any step and I/O errors while staging, for any streams, entities, bounds and roll policy. Its
theorems assume `EarlyFailures`, that `Failures` holds nothing but `stage` and `seal`: with an error
at or after the commit point the code breaks them, as `compact_fails` shows.
`Server_proofs` does it for the handlers and the uploads of `Ingest`, `Parts_proofs` and
`Answers_proofs`, which extends it with the lists, for thirteen other parts of the server. The invariants are
stated of the part alone, one lemma per action;
`Services_proofs` adds that a behaviour of `ServicesSpec`, the specification the run `services`
checks, is one of a single part (`OnePart`), and concludes the run's own property for any journal,
schema and sources, any number of handlers, addresses, clients, patches, entities, records,
partitions, requests and ticks, any document, and any length of a page.

| Theorem | Module | States |
|---|---|---|
| `TypeCorrect` | `SegmentStore_proofs` | `Spec => []TypeOK` |
| `AckedStaysOnDisk` | | `Spec => []AckedOnDisk`: no acknowledged record is lost |
| `StreamsStayOrdered` | `SegmentReplay_proofs` | `Spec => []StreamOrdered` |
| `SeqStaysUnique` | | `Spec => []SeqUnique` |
| `DomainStaysKnown` | | `Spec => []DomainKnown` |
| `SealedStaysWhole` | | `Spec => []SealedWhole` |
| `RollIdStaysFree` | | `Spec => []RollIdFree` |
| `SealedStaysForever` | | `Spec => SealedForever` |
| `GraphStaysReplay` | | `Spec => []GraphIsReplay` |
| `StoreKeepsPromise` | | `Spec => KeepsPromise`, the refinement |
| `AckedStaysShown` | | `Spec => []Promise!Durability`: a restart shows what was acknowledged, or newer |
| `GraphAlwaysSurvives` | `Compaction_proofs` | `Spec => []GraphSurvives` |
| `PartitionsStayOrdered` | | `Spec => []PartitionsOrdered` |
| `PidStaysFree` | | `Spec => []PidFree` |
| `NothingStaysBehind` | | `Spec => NothingLeft` |
| `CompactionKeepsTable` | | `Spec => KeepsTable`, the refinement |
| `TypesHold` | | `Spec => []TypeOK` |
| `LegacyKeptHolds` | `Services_proofs` | `ServicesSpec => []LegacyKept` |
| `ServesWholeHolds` | | `ServicesSpec => []ServesWhole` |
| `OneAdminAmongServices` | | `ServicesSpec => []OneAdmin` |
| `ReadsCurrentHolds` | | `ServicesSpec => []ReadsCurrent` |
| `ReviewDurableHolds` | | `ServicesSpec => []ReviewDurable` |
| `AdminSoundHolds` | | `ServicesSpec => []AdminSound`: the settings and the registries |
| `RestoresTakenHolds` | | `ServicesSpec => RestoresTaken` |
| `RecoverySoundHolds` | | `ServicesSpec => []RecoverySound` |
| `PageFreshHolds` | | `ServicesSpec => []PageFresh` |
| `WalkCompleteHolds` | | `Limit \in Nat \ {0}` implies `ServicesSpec => []WalkComplete` |
| `IndexCurrentHolds` | | `ServicesSpec => []IndexCurrent` |
| `StreamWholeHolds` | | `ServicesSpec => []StreamWhole` |
| `ProposalWholeHolds` | | `ServicesSpec => []ProposalWhole` |
| `ServerNamesHolds` | | `ServicesSpec => []ServerNames` |
| `ServerJournalHolds` | | `NoAbandonedRewrite` implies `ServicesSpec => []ServerJournal` |
| `PromiseIsDurable` | `SegmentReplay_proofs` | whatever implements `DurableStore` shows what was acknowledged, or newer |

### Nothing acknowledged is lost (`IInv`)

`AckedOnDisk` is not inductive: `Finish` acknowledges the batch, so one must know that by then
every record of it is durable. The inductive invariant is `IInv`, the conjunction of

* `TypeOK`;
* `FilesInv`: lengths of a partition are ordered (`synced <= flushed <= Len(data)`)
  and no seq exceeds the number of records issued;
* `OpenInv`: an open stream has its active partition, and no index runs past the data;
* `SeqInv`: the seqs the rest of the batch will take are below the bound;
* `PhaseInv`: what `batch`, `touched` and `sealing` hold in each phase, and that no
  stream is touched twice;
* `InflightInv`: a record of the batch in progress is durable, or still to be appended, or in
  the active partition of a stream whose commit is still ahead;
* `AckedOnDisk`.

In phase `save` no commit is ahead and nothing is left to append, so `InflightInv` gives
durability of the whole batch: that is the step of `Finish`. The other steps preserve
durability since no action takes a synced record out of a file (`DurableGrows`, with the
`Evolve...` lemmas: each action leaves every file the same, makes it, appends to it, changes
it in place without shrinking `synced`, or cuts it at or after `synced`).

### Records stay in order (`JInv`)

The next seq lives in memory only and is recomputed by an open from what it finds; the next
partition id is saved late. That seqs are nevertheless unique and ordered rests on all files at
once. `JInv` is `IInv`, `StreamOrdered`, `SeqUnique`, `DomainKnown` and

* `LastInv`: the active partition of an open stream is its last, `next_partition_id` is beyond
  all of its ids, and every other partition is indexed and durable to its end;
* `StampInv`: a count is stamped on durable records only – the reason why an accepted
  sealed partition cannot shrink, hence `SealedForever`;
* `RollInv`: what a roll is sealing is full, and is no longer the active partition;
* `NsInv`: an open stream is in the saved manifest;
* `BelowInv`: once the store is open, every seq on disk is below the next one.

Two facts carry it. Only an append adds a record, at the end of the last partition
(`AppendInOrder`); every other step leaves the records alone or, at a crash, cuts files short
(`FewerStep`). And the seq an open resumes from covers every record (`ResumeCovers`): each
stream with records is in the manifest that is opened (`DomainKnown`), the indexes of its
sealed partitions miss none (`LastInv`), and its last record has its greatest seq
(`StreamOrdered`).

### The graph is a replay, and the refinement (`RInv`)

`RInv` is `JInv` and

* `Lined`: in each stream versions are in the order of the seqs;
* `VersInv`, `NewestInv`: what is stored was issued; the batch in progress is newer than all
  else that was;
* `BatchInv`: what is left of the batch is in order, and newer than all that is stored and
  than what was appended of it;
* `GraphInv`: between batches the graph shows what a replay would; during one, a replay shows
  that and the part of the batch that was appended.

`ReplayIs` says that a replay of records in line shows the newest version, `ReplayGrows` that
more records show the same or a newer one; durable records only grow (`DurableGrows`). So every
step but `Begin` (`Submit`) and `Finish` (`Ack`) is a `Persist` or changes nothing that
`DurableStore` sees. `Finish` may acknowledge because the batch is durable (`InflightInv`) and the
newest there is (`NewestInv`).

### A compaction does not show (`CInv`)

Everything is said of what the next open will read, `Read`: the files that `Finished` describes
under the saved marker. `RestartSame` reduces "a restart shows the same graph" to "no file of
`Read` changes, but that an empty one may appear". `GraphSurvives` then needs to know where each
partition is at each phase. `CInv` is `TypeOK`, `GraphSurvives`, `PartitionsOrdered` and

* `MarkerInv`: a marker is saved from `Mark` to `Clear` and through the open that finishes it, the
  same in memory; it never both stages and removes a file;
* `SwapInv`: each stream of a swap is `Waiting` (its partitions are those the marker removes, its
  staged one is still staged), `Moved`, `Cleaning` (the old files left are `olds`) or `Swapped`;
* `KnownInv`: outside a swap an open stream knows what its directory holds;
* `PidInv`: ids in use are below the next one – during an open, those of the streams opened so far,
  and those staged as soon as the marker is cleared;
* `StagedInv`: what was staged is there, and when the marker is about to be saved it replays to
  the graph;
* `AboveInv`: a stream has at most one staged partition, with an id and seqs above all it has;
* `BelowInv`, `VersInv`: seqs on disk are below the next one, versions were handed out;
* `RoomInv`: there are a seq for each record and an id for each partition still to be made, counted
  by the cardinalities of the streams to do and of their live records.

One lemma per action shows that it keeps `CInv` and `Read`: a moved file was read from the staging
area before, a deleted one is on the marker's list, a fresh one is empty. `Mark` changes `Read`
from the old partitions to the staged ones, whose replay is the graph (`StagedInv`). `Write` adds
the record with the greatest seq (`ReplayGrows`), which gives the step of `AtomicStore`.
`PidFree` needs `RoomInv` as well: an id past the bound names no file. A version is always
new for its row (`VersInv`), so the abstract `Write` never stutters.

### Handlers and uploads (`ServerInv`)

`ScenesAssumption` says what a scene starts from: a journal that a replay accepts, whose records have the
fields of their kind and ids that are positive, as an allocator gives them. The handlers and sources
are any. The invariant is

* `Sound`: the name index is defined on the pairs of type and name of the concepts, each to the one
  concept of that name. Every record that `Apply` accepts keeps it: a renamed concept gives up its
  old name, a deletion its only one, a record for a name that is taken is refused;
* `Tidy`, `IssuedList`: ids and counters are positive, and what is in the journal or waits to be written is
  a list of records with their ids, so what a prefix of it says does not depend on what follows;
* `Handler`, `Batches`: the records of a handler at work, of abandoned work and of an upload's three
  batches are such lists;
* `ToldIsKept`, what `ServerJournal` needs: what is live is told by a record of the journal
  (`Recorded`), except between a reset's append and its apply; a batch whose append is durable lies in the
  journal (`Within`), so applying it keeps `Recorded`; and abandoned work only appends.

`NoAbandonedRewrite` is needed for the last: no scene lets a client go away whose server also resets or
compacts. Without it the property is false, as the run `server_abandoned` shows. The scenes of `services`
satisfy it. A replay, a batch and an upload apply their records by `FoldLeft`. What a fold keeps is
proved by induction over the *set* of the positions folded so far (`Folding`): the community module
defines the fold by a function on sets, which leaves no operator to instantiate, and induction on
numbers in the form "a set of naturals with 0 and every successor is all of them" needs none either.

### Thirteen parts of the server

What is assumed of the constants (`Parts`): `None`, which stands for an absent `Option`, is none of the
values it is compared with, rows of a list among them; a store has a partition (`MaxPart` is positive); a patch sets fields to
values of their type (`LlmSettingsPatch` is typed by serde); the limits are numbers and the window of the
rate limit is not empty (`RateLimiter` divides by `window.max(0.001)`, `lib.rs:1251`); the allocator gives out
finitely many ids (`SearchAssumption`); entities and names are numbers, which stand for their order
(`ListsAssumption`); a document is a sequence of lines and a piece has room for one (`DocumentAssumption`);
a provider's frames carry texts that are no events of the pipeline's own, and none after the stop reason or
the end (`ScriptsAssumption`: this is of the provider, a stream that says "stopped" and goes on would be sent
on whole, but its end could be sent before). The other
bounds are unconstrained. In each part the property alone is not inductive; what it needs:

* **List pages (`PInv`).** The generation counts the writes that are over, and is behind the writer's number by
  the one under way (`Graph`), so what a page must show is said of a row by the writes that the
  page's generation counts (`Marks`, `FreshRows`): a page read while a write is half done may show it or
  not, but carries a generation that the write's end makes stale. `Underway` says, for what is left of the
  writer's steps, what primary map and index hold. While a page is built, an entity that stands and
  is not shown is under a key still to come (`Coming`); when it is shorter than the limit, none is
  left (`FullRows`). The cache and the client's tag keep the same facts of an older generation.
* **Walks (`WInv`).** `WInv` is `PInv` and, of what stays throughout the walk (`KeptOk`): it was shown exactly once if
  its key is behind the cursor, and not yet if it is beyond (`WalkOk`). A page that is being built holds, in order, the
  entities reached so far, and the keys still to come the others (`BuiltOk`); a page that is kept, in the cache or
  by the client, is a whole one of its generation (`PagesOk`). `Shape` relates primary map and index at each step of a
  writer, and says that a key which a walk has collected goes on naming its entity (`Steady`), unless a
  concept is given another name. A page of no rows would end the walk at once, hence the assumption on `Limit`.
* **Search (`XInv`).** The index is exact for the documents it holds (`Exact`): a word is posted for the
  documents with it (`Posted`), every row is where its id says and every id has a row (`Dense`), and a row holds the
  vector of its document or of a failed request (`Both`). The documents are the concepts and what a reset left
  (`ghosts`); the cache and its file hold texts under themselves (`Honest`). Removing a row moves
  the last one into the hole, which keeps `Dense` only because the moved id is told its new place. A
  reindex is a fold over all ids; what it goes through (`TurnPasses`) is exact at every turn.
* **Questions (`QInv`).** `Reads` gives the text of every prefix of the script. The text sent on is that
  of the frames taken, whatever arrived beyond them. An end is sent last and once, and one that claims to be
  whole follows a stop reason or the end of the script, behind which there is no text.
* **Extraction (`DInv`).** For some line `d`, the queue is the rest of the document behind `d`, in pieces that
  follow one another (`Unread`; halving the first keeps that); the concepts merged are those of the lines
  up to `d`, one for each entity and the surest (`Whole`); the relations are theirs, in order, each under its own
  reference (`Enlisted`). The references of an answer are new because they carry the number of the
  call, and all known ones carry a smaller one.

* **Legacy store (`FInv`).** Of the records about an entity the last decides (`Latest`), so records applied
  behind others give what the whole gives (`LatestMore`), and applied to what they lead to they change
  nothing (`LatestAgain`). Numbers increase along the log and stay under the counter, which a load takes
  from the log's end or the watermark, whichever is greater. For the snapshot under way, as for the one on
  the disk, the records past its watermark applied to its table give what was acknowledged (`ShotOk`):
  a snapshot takes its watermark first and the table later, so an apply in between may be counted twice,
  which `LatestAgain` makes harmless. A compaction has no record past its watermark, as it holds the
  writer's lock, so it may truncate. `Batches` has one or two records; values are those of `Rec`.
* **Migration (`GInv`).** Until a legacy file is retired the two of them are the history
  (`WholeHistory`: the records past the watermark are the log without its first ones); a file is
  retired only when the store is there, and a store that is there is the history, unless the
  operator removed it since (`halved`).
* **One administrator (`AInv`).** `OneAdmin` counts administrators; the invariant says instead that
  some account is one and all that are equal it, that ids are never handed out twice, and that a
  request to create or delete which was accepted found accounts, and if it deletes does not name the
  administrator (`Spared`). So the accounts never become empty again, and no second sign-up is first
  however long its password hash takes. A failed persist restores what the file holds.
* **Payloads on disk (`TInv`).** A slot's location carries at least the version the slot shows, and a slot
  that gave up its payload has a location that can be read (`SlotOk`). For that, one must follow a
  location that arrives before its concept: a waiting location belongs to a payload that is not there
  (`WaitOk`), the write under way is the newest, its location is either waiting or in its slot, and once its
  partition is known as sealed it can be read (`WriteOk`). During a relocation every slot but those
  still to do lies in the new partition (`MoveOk`), which is why dropping the old ones strands no
  slot, only a reader that copied a location before (`LookOk`, `look.moved`).
* **Review (`RInv`).** The types are changed in memory before their record is written, so memory and disk
  differ in between (`Review!Typing`): then the baseline is on disk, and is all the types there unless a failed
  append left more, and the live ones differ only if the report says one was created (`Review!Changed`), the
  condition under which the record is due. A roll back therefore serves nothing that is not on disk. Whatever was left
  on disk by a failed append was prepared on what is served, which is there too, so a replay accepts it
  (`Review!Grounded`); the store takes no other record behind it. What `ByRef` resolves is always on disk.
* **Settings (`MInv`).** A cached client is the one its fingerprint stands for; a call's settings are among
  those in force since it began; until two patches meet (`crossed`), at most one is being written, it
  writes what memory holds, and finds the file torn by its own truncation. A file that no write is at
  holds what is served unless the last one failed (`unsaved`), so the next that succeeds repairs it.
* **Registries (`NInv`).** Ids of queries are those given out so far, live or gone. For the bucket:
  requests let through since any earlier one, together with what the bucket holds, are at most a full
  bucket and the refill since. At most twice the limit in one window follows by arithmetic
  (`TwoBuckets`).
* **Backups (`KInv`).** A file at the destination begins at the record where the store's file of that name
  does, as partition ids are never used again; hence one of the same length, which is not copied,
  is the same file. During a backup every file but those still to do is there, and no manifest is.

* **Files of a segment (`SInv`).** What was committed is in the synced cells but for rotten ones and those behind
  a rotten length (`HardHeld`); a cell that reads back wrong is the last, unless a fault did more than cut a write
  short (`HarmSeen`), so a scan that cuts before the first bad cell cuts nothing else committed, and one that refuses
  was harmed. Nothing is synced behind a header that is not (`HeadAt`), so one that is lost takes nothing along. An entry of the index
  is the one of its record or was lost (`Entries`). The delicate part is the stamp, which may reach the disk before
  the entries it counts: it is written only once the segment has rolled, when neither records nor
  entries become more, with an entry for each record. So a stamp, whatever else a power cut takes,
  is never smaller than their number, and one that equals the number of entries found has all of them
  there, but for a hole the cut left before the last one (`holed`); once it is synced there is none
  (`StampSynced`). This is why `SealedSegment::open` may look at the last entry only (`SealedExact`).

### Only model-checked

* Liveness under fairness (`CallsEnd`, `CompactionEnds`): liveness and ENABLED are out of this prover's reach.
* Of the handlers and uploads, `ServerRestart`, `ServerReplay`, `ServerIds` and `ServerSchema`. They are not true of
  any scenes: the runs `server_symmetric` and `server_dangling` refute the first two in scenes that the code
  allows, a relation journaled with an explicit id beside a symmetric one breaks the third after a compaction, and
  which scenes are free of these is not a simple condition on their records. `services` checks them on scenes
  that leave the defects out (section 5).
* `PlanFits` and `ExpansionSound`. What they sort and search is computed by `SelectSeq`, `SortSeq` and
  `SetToSortSeq` over sequences of any length. The first two are recursive in the standard modules, which
  the provers do not unfold, and facts about the last are inductions over data.
  The algorithms they check against a reference are compared over all inputs of their bounds.

## 8. Not modelled

Byte formats, checksums and codecs (a record is whole or not); `.xref` files and relation-type
symbols; the parsers of `crates/io` (csv, abl, df, docx, xlsx, xref), which are sequential and
keep nothing; prompt text and the generation of schemas and rules; scores and ranks; trigrams, bulk
loading and statistics of the graph; feedback, file registry, export and metrics endpoints; password hashing and
tokens; the audit log (one appended line per request, best effort: after a torn last line the next
entry is lost with it); OCR and provider probes; the command line beyond what a start does; OpenAPI, the web client and the demo auth
server. The notes of `PROJECT.json` "components" say it part by part. Directory entries are taken as
durable once created (`stream.rs:168`), and `Compaction` ends the process without losing
unsynced pages (`segment_store.rs:1408`): both are listed as hazards no property covers.
