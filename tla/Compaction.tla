---------------------------- MODULE Compaction ----------------------------
(***************************************************************************)
(* The compaction of the segmented store (segment_store.rs, compact_all    *)
(* and finish_compaction), with the writes before, between and after.      *)
(*                                                                         *)
(* The live graph is rewritten as one partition per stream in a staging    *)
(* directory, verified, and committed by a MARKER saved in the manifest:   *)
(* which staged partitions replace which old ones.  The swap then moves    *)
(* each staged partition in, gives the stream a fresh active partition and *)
(* deletes the old files one by one.  A crash before the marker leaves a   *)
(* staging that the next open discards, a crash after it a swap that the   *)
(* next open finishes.                                                     *)
(*                                                                         *)
(* A batch is one step here: module SegmentStore shows it in detail.       *)
(***************************************************************************)
EXTENDS Naturals, FiniteSets, FiniteSetsExt, Functions

CONSTANTS
    Streams,     \* ns ids, 0 (meta) included, in swap order
    Keys, Home,  \* entities, and the stream of each
    Ontology,    \* the key of the ontology record: always live, in `meta'
    MaxWrites,   \* bound: writes and deletions
    MaxSeq,      \* bound: seqs handed out
    MaxPid,      \* bound: partition ids handed out
    RollRecords, \* RollPolicy.max_records
    Failures,    \* phases of a compaction that an I/O error may end
    Absent       \* no such file: not a set of records

Meta == 0
Pids == 1 .. MaxPid
Seqs == 1 .. MaxSeq
Versions == 1 .. MaxWrites

ASSUME StreamsAssumption == Meta \in Streams /\ Streams \subseteq Nat /\ IsFiniteSet(Streams)
ASSUME KeysAssumption ==
    /\ Home \in [Keys -> Streams] /\ IsFiniteSet(Keys)
    /\ Ontology \in Keys /\ Home[Ontology] = Meta
ASSUME BoundsAssumption ==
    /\ MaxWrites \in Nat /\ MaxSeq \in Nat /\ MaxPid \in Nat /\ RollRecords \in Nat \ {0}
    /\ Failures \subseteq {"stage", "seal", "mark", "move", "fresh", "delete", "clear"}

(* ver = 0: the record deletes the entity, or is the first, empty ontology. *)
(* A partition file is the set of its records.                             *)
Record   == [seq : Seqs, key : Keys, ver : Versions \cup {0}]
FileName == Streams \X Pids
ASSUME AbsentAssumption == Absent \notin SUBSET Record

Files    == [FileName -> (SUBSET Record) \cup {Absent}]
NoFiles  == [n \in FileName |-> Absent]
Marker   == [staged : SUBSET FileName, remove : SUBSET FileName]
NoMarker == [staged |-> {}, remove |-> {}]
Manifest == [pid : Nat \ {0}, marker : Marker]

VARIABLES
    live,      \* live[<<s, p>>]: partition p in the directory of stream s
    staging,   \* staging[<<s, p>>]: partition p in its `compacting' directory
    saved,     \* MANIFEST.json on disk
    manifest,  \* Inner.manifest
    known,     \* known[s]: partitions the open stream s has, sealed and active
    nextSeq,   \* Inner.next_seq
    graph,     \* graph[k]: version of k in the live graph, 0 if none
    writes,    \* writes so far
    phase,     \* what the process is doing
    todo,      \* streams still to be staged, opened or swapped
    staged,    \* partitions the compaction in progress staged
    olds       \* files of the stream being swapped that are still to be deleted

vars == <<live, staging, saved, manifest, known, nextSeq, graph, writes, phase, todo, staged, olds>>

Phases == {"down", "finish", "open", "idle", "stage", "seal", "mark", "move", "fresh",
           "delete", "clear"}
Closed == [s \in Streams |-> {}]

TypeOK ==
    /\ live \in Files /\ staging \in Files
    /\ saved \in Manifest /\ manifest \in Manifest
    /\ known \in [Streams -> SUBSET Pids]
    /\ nextSeq \in 1 .. MaxSeq + 1
    /\ graph \in [Keys -> Versions \cup {0}]
    /\ writes \in 0 .. MaxWrites
    /\ phase \in Phases
    /\ todo \subseteq Streams
    /\ staged \subseteq FileName /\ olds \subseteq Pids

---------------------------------------------------------------------------
Present(F) == {n \in FileName : F[n] # Absent}
PidsOf(s)  == {p \in Pids : live[<<s, p>>] # Absent}
Records(F) == UNION {F[n] : n \in Present(F)}
Active(s)  == Max(known[s])

(* ActiveSegment::create makes a new file or fails (create_new).           *)
Creatable(F, s) == manifest.pid \in Pids /\ F[<<s, manifest.pid>>] = Absent

(* Replay in seq order: the last record about k wins.                      *)
Replay(R, k) ==
    LET about == {r \in R : r.key = k}
    IN  IF about = {} THEN 0
        ELSE (CHOOSE r \in about : \A q \in about : q.seq <= r.seq).ver

LastSeq_OfActives == Max({0} \cup {r.seq : r \in UNION {live[<<s, Active(s)>>] : s \in Streams}})
LastSeq_PastEnd   == Max({0} \cup {r.seq : r \in Records(live)}) + 1

(* Where the open resumes next_seq: the last record of all the streams.    *)
LastSeq == Max({0} \cup {r.seq : r \in Records(live)})

(* What finish_compaction makes of the files under a given marker.         *)
Finished(F, G, m) ==
    [n \in FileName |-> IF n \in m.remove THEN Absent
                        ELSE IF n \in m.staged /\ G[n] # Absent THEN G[n] ELSE F[n]]

(* The graph a restart would hydrate, from the disk alone.                 *)
Restart == [k \in Keys |-> Replay(Records(Finished(live, staging, saved.marker)), k)]

---------------------------------------------------------------------------
Init ==
    /\ live = NoFiles /\ staging = NoFiles
    /\ saved = [pid |-> 1, marker |-> NoMarker] /\ manifest = saved
    /\ known = Closed
    /\ nextSeq = 1
    /\ graph = [k \in Keys |-> 0]
    /\ writes = 0
    /\ phase = "down"
    /\ todo = {} /\ staged = {} /\ olds = {}

disk == <<live, staging>>
work == <<todo, staged, olds>>

(* ---- Opening ---- *)

LoadManifest ==
    /\ phase = "down"
    /\ manifest' = saved
    /\ phase' = "finish"
    /\ UNCHANGED <<disk, saved, known, nextSeq, graph, writes, work>>

ToMove(m)   == {n \in m.staged : staging[n] # Absent}
ToRemove(m) == {n \in m.remove : live[n] # Absent}

(* finish_compaction with a marker: the staged partitions are moved in ... *)
FinishMove ==
    /\ phase = "finish"
    /\ \E n \in ToMove(manifest.marker) :
          /\ live' = [live EXCEPT ![n] = staging[n]]
          /\ staging' = [staging EXCEPT ![n] = Absent]
    /\ UNCHANGED <<saved, manifest, known, nextSeq, graph, writes, phase, work>>

FinishRemove_Early ==
    /\ phase = "finish"
    /\ \E n \in ToRemove(manifest.marker) : live' = [live EXCEPT ![n] = Absent]
    /\ manifest' = [manifest EXCEPT !.marker = NoMarker]
    /\ saved' = manifest'
    /\ UNCHANGED <<staging, known, nextSeq, graph, writes, phase, work>>

(* ... then the old ones are deleted ...                                   *)
FinishRemove ==
    /\ phase = "finish" /\ ToMove(manifest.marker) = {}
    /\ \E n \in ToRemove(manifest.marker) : live' = [live EXCEPT ![n] = Absent]
    /\ UNCHANGED <<staging, saved, manifest, known, nextSeq, graph, writes, phase, work>>

FinishClear_KeepsStaging ==
    /\ phase = "finish"
    /\ ToMove(manifest.marker) = {} /\ ToRemove(manifest.marker) = {}
    /\ manifest' = [manifest EXCEPT !.marker = NoMarker]
    /\ saved' = manifest'
    /\ phase' = "open"
    /\ todo' = Streams
    /\ UNCHANGED <<disk, known, nextSeq, graph, writes, staged, olds>>

(* ... and the marker is cleared.  Without a marker a staging directory is *)
(* an aborted compaction and is removed.                                   *)
FinishClear ==
    /\ phase = "finish"
    /\ ToMove(manifest.marker) = {} /\ ToRemove(manifest.marker) = {}
    /\ IF manifest.marker # NoMarker
       THEN /\ manifest' = [manifest EXCEPT !.marker = NoMarker]
            /\ saved' = manifest'
            /\ UNCHANGED staging
       ELSE /\ staging' = NoFiles
            /\ UNCHANGED <<saved, manifest>>
    /\ phase' = "open"
    /\ todo' = Streams
    /\ UNCHANGED <<live, known, nextSeq, graph, writes, staged, olds>>

(* Stream::open: what the directory holds is the stream.                   *)
OpenStream ==
    /\ phase = "open" /\ todo # {}
    /\ LET s == Min(todo)
       IN  IF PidsOf(s) = {}
           THEN /\ Creatable(live, s)
                /\ live' = [live EXCEPT ![<<s, manifest.pid>>] = {}]
                /\ known' = [known EXCEPT ![s] = {manifest.pid}]
                /\ manifest' = [manifest EXCEPT !.pid = @ + 1]
                /\ todo' = todo \ {s}
           ELSE /\ known' = [known EXCEPT ![s] = PidsOf(s)]
                /\ manifest' = [manifest EXCEPT !.pid = Max({@, Max(PidsOf(s)) + 1})]
                /\ todo' = todo \ {s}
                /\ UNCHANGED live
    /\ UNCHANGED <<staging, saved, nextSeq, graph, writes, phase, staged, olds>>

(* next_seq resumes, the manifest is reconciled, the graph is hydrated.    *)
OpenDone ==
    /\ phase = "open" /\ todo = {}
    /\ nextSeq' = LastSeq + 1
    /\ saved' = manifest
    /\ graph' = [k \in Keys |-> Replay(Records(live), k)]
    /\ phase' = "idle"
    /\ UNCHANGED <<disk, manifest, known, writes, work>>

(* ---- Writing ---- *)

(* An acknowledged write, or the deletion of an entity: one record at the  *)
(* end of the active partition, which is rolled when it is due.            *)
Write(k, v) ==
    /\ phase = "idle" /\ writes < MaxWrites /\ nextSeq \in Seqs
    /\ v = writes + 1 \/ (v = 0 /\ graph[k] # 0 /\ k # Ontology)
    /\ LET s == Home[k]
           p == Active(s)
           grown == live[<<s, p>>] \cup {[seq |-> nextSeq, key |-> k, ver |-> v]}
       IN  IF Cardinality(grown) >= RollRecords
           THEN /\ Creatable(live, s)
                /\ live' = [live EXCEPT ![<<s, p>>] = grown, ![<<s, manifest.pid>>] = {}]
                /\ known' = [known EXCEPT ![s] = @ \cup {manifest.pid}]
                /\ manifest' = [manifest EXCEPT !.pid = @ + 1]
                /\ saved' = manifest'
           ELSE /\ live' = [live EXCEPT ![<<s, p>>] = grown]
                /\ UNCHANGED <<known, manifest, saved>>
    /\ nextSeq' = nextSeq + 1
    /\ graph' = [graph EXCEPT ![k] = v]
    /\ writes' = writes + 1
    /\ UNCHANGED <<staging, phase, work>>

(* ---- compact_all ---- *)

(* live_records: what stream s has to be rewritten.                        *)
Live(s) == {k \in Keys : Home[k] = s /\ (graph[k] # 0 \/ k = Ontology)}

Compact ==
    /\ phase = "idle"
    /\ manifest.pid + 2 * Cardinality(Streams) <= MaxPid + 1
    /\ nextSeq + Cardinality(Keys) <= MaxSeq + 1
    /\ phase' = "stage"
    /\ todo' = {s \in Streams : Live(s) # {}}
    /\ staged' = {} /\ olds' = {}
    /\ UNCHANGED <<disk, saved, manifest, known, nextSeq, graph, writes>>

(* The live records of stream s, under fresh seqs.                         *)
Rewritten(s) ==
    LET at == CHOOSE f \in Injection(Live(s), nextSeq .. nextSeq + Cardinality(Live(s)) - 1) : TRUE
    IN  {[seq |-> at[k], key |-> k, ver |-> graph[k]] : k \in Live(s)}

(* The ontology comes first, the other streams as their first live record  *)
(* comes; the partition id is taken before the file is created.            *)
Stage ==
    /\ phase = "stage"
    /\ \E s \in todo :
          /\ Meta \in todo => s = Meta
          /\ Creatable(staging, s)
          /\ staging' = [staging EXCEPT ![<<s, manifest.pid>>] = Rewritten(s)]
          /\ staged' = staged \cup {<<s, manifest.pid>>}
          /\ nextSeq' = nextSeq + Cardinality(Live(s))
          /\ todo' = todo \ {s}
    /\ manifest' = [manifest EXCEPT !.pid = @ + 1]
    /\ UNCHANGED <<live, saved, known, graph, writes, phase, olds>>

(* The partition ids are saved, the staged partitions sealed.              *)
Seal ==
    /\ phase = "stage" /\ todo = {}
    /\ saved' = manifest
    /\ phase' = "seal"
    /\ UNCHANGED <<disk, manifest, known, nextSeq, graph, writes, work>>

(* The staged partitions alone must replay to the live graph.              *)
Verified ==
    \A k \in Keys : Replay(UNION {staging[n] : n \in staged}, k) = graph[k]

Verify ==
    /\ phase = "seal" /\ Verified
    /\ phase' = "mark"
    /\ UNCHANGED <<disk, saved, manifest, known, nextSeq, graph, writes, work>>

(* They do not, or cannot be read back: the store is left as it was.       *)
Abort ==
    /\ phase = "seal"
    /\ staging' = [n \in FileName |-> IF n \in staged THEN Absent ELSE staging[n]]
    /\ saved' = manifest
    /\ phase' = "idle"
    /\ staged' = {}
    /\ UNCHANGED <<live, manifest, known, nextSeq, graph, writes, todo, olds>>

(* The marker replaces every partition the streams have.                   *)
NewMarker == [staged |-> staged, remove |-> {n \in FileName : n[2] \in known[n[1]]}]

(* The commit point.                                                       *)
Mark ==
    /\ phase = "mark"
    /\ manifest' = [manifest EXCEPT !.marker = NewMarker]
    /\ saved' = manifest'
    /\ phase' = "move"
    /\ todo' = Streams
    /\ UNCHANGED <<disk, known, nextSeq, graph, writes, staged, olds>>

StagedOf(s) == {n \in staged : n[1] = s}

(* The swap of a stream, 1: its staged partition moved in ...              *)
Move ==
    /\ phase = "move"
    /\ LET N == StagedOf(Min(todo))
       IN  /\ live' = [n \in FileName |-> IF n \in N THEN staging[n] ELSE live[n]]
           /\ staging' = [n \in FileName |-> IF n \in N THEN Absent ELSE staging[n]]
    /\ phase' = "fresh"
    /\ UNCHANGED <<saved, manifest, known, nextSeq, graph, writes, work>>

(* ... 2: a fresh active partition, and the stream is the two of them ...  *)
FreshActive ==
    /\ phase = "fresh"
    /\ LET s == Min(todo)
       IN  /\ Creatable(live, s)
           /\ live' = [live EXCEPT ![<<s, manifest.pid>>] = {}]
           /\ known' = [known EXCEPT ![s] = {n[2] : n \in StagedOf(s)} \cup {manifest.pid}]
           /\ olds' = known[s]
    /\ manifest' = [manifest EXCEPT !.pid = @ + 1]
    /\ phase' = "delete"
    /\ UNCHANGED <<staging, saved, nextSeq, graph, writes, todo, staged>>

Rest_Same(s) == todo

(* The streams still to be swapped after s.                                *)
Rest(s) == todo \ {s}

Condemned_ButOne == {Min(olds)}

(* The files replace_segments deletes, the sealed ones first.              *)
Condemned == olds

(* ... 3: the old files are deleted, one at a time.                        *)
Delete ==
    /\ phase = "delete"
    /\ LET s == Min(todo)
           left == Condemned \ {Min(Condemned)}
       IN  /\ live' = [live EXCEPT ![<<s, Min(Condemned)>>] = Absent]
           /\ olds' = left
           /\ todo' = IF left = {} THEN Rest(s) ELSE todo
           /\ phase' = IF left # {} THEN "delete"
                       ELSE IF Rest(s) = {} THEN "clear" ELSE "move"
    /\ UNCHANGED <<staging, saved, manifest, known, nextSeq, graph, writes, staged>>

Clear ==
    /\ phase = "clear"
    /\ manifest' = [manifest EXCEPT !.marker = NoMarker]
    /\ saved' = manifest'
    /\ phase' = "idle"
    /\ staged' = {}
    /\ UNCHANGED <<disk, known, nextSeq, graph, writes, todo, olds>>

(* An I/O error (`?') ends the compaction where it stands; the store goes  *)
(* on accepting batches.  A manifest that could not be saved keeps its     *)
(* change in memory, a partition that could not be created its id.         *)
Fails ==
    /\ phase \in Failures
    /\ \/ phase \in {"stage", "seal", "fresh", "delete"} /\ UNCHANGED manifest
       \/ /\ phase \in {"stage", "fresh"} /\ todo # {} /\ manifest.pid \in Pids
          /\ manifest' = [manifest EXCEPT !.pid = @ + 1]
       \/ phase = "move" /\ StagedOf(Min(todo)) # {} /\ UNCHANGED manifest
       \/ phase = "mark" /\ manifest' = [manifest EXCEPT !.marker = NewMarker]
       \/ phase = "clear" /\ manifest' = [manifest EXCEPT !.marker = NoMarker]
    /\ phase' = "idle"
    /\ todo' = {} /\ staged' = {} /\ olds' = {}
    /\ UNCHANGED <<disk, saved, known, nextSeq, graph, writes>>

(* The process ends; everything on the disk was synced.                    *)
Crash ==
    /\ phase # "down"
    /\ phase' = "down"
    /\ manifest' = saved
    /\ known' = Closed
    /\ nextSeq' = 1
    /\ graph' = [k \in Keys |-> 0]
    /\ todo' = {} /\ staged' = {} /\ olds' = {}
    /\ UNCHANGED <<disk, saved, writes>>

(* What an open or a compaction does by itself once it is under way.       *)
Step ==
    \/ FinishMove \/ FinishRemove \/ FinishClear \/ OpenStream \/ OpenDone
    \/ Stage \/ Seal \/ Verify \/ Abort \/ Mark
    \/ Move \/ FreshActive \/ Delete \/ Clear

Next ==
    \/ LoadManifest
    \/ \E k \in Keys, v \in Versions \cup {0} : Write(k, v)
    \/ Compact \/ Step \/ Fails \/ Crash

Spec == Init /\ [][Next]_vars

(* Opens and compactions run in straight line on a blocking thread, under  *)
(* the store's mutex.                                                      *)
FairSpec == Spec /\ WF_vars(Step)

---------------------------------------------------------------------------
(* Properties.                                                             *)

(* Whatever the process is doing -- staging, swapping, deleting -- if it   *)
(* ended here the next open would hydrate exactly the graph it shows:      *)
(* nothing acknowledged is lost, nothing deleted comes back.               *)
GraphSurvives == phase \notin {"down", "finish", "open"} => graph = Restart

(* Replay merges the streams by seq and takes the partitions of a stream   *)
(* in id order: with the rewritten partition among the old ones or in      *)
(* their place, the seqs still increase with the ids.                      *)
PartitionsOrdered ==
    \A s \in Streams : \A p, q \in PidsOf(s) : p < q =>
        \A r \in live[<<s, p>>], t \in live[<<s, q>>] : r.seq < t.seq

(* A compaction or an open that ran to its end left nothing behind: the    *)
(* directories hold the partitions the streams know, no marker is pending  *)
(* on the disk; the staging areas hold at most what an earlier compaction  *)
(* left when it failed, under ids that are not handed out again.           *)
NothingLeft ==
    [][phase' = "idle" /\ ~Fails =>
          /\ \A s \in Streams : PidsOf(s)' = known'[s]
          /\ \A n \in FileName : staging'[n] # Absent => n \notin staged /\ n[2] < manifest'.pid
          /\ saved'.marker = NoMarker]_vars

(* A file is only ever created under an id no file of that name has, in    *)
(* the directory or in the staging area, whatever an earlier compaction    *)
(* left there (create_new): else no compaction would ever succeed again.   *)
PidFree ==
    phase \in {"stage", "fresh"} =>
        \A s \in todo : live[<<s, manifest.pid>>] = Absent /\ staging[<<s, manifest.pid>>] = Absent

(* For its callers the store is a table that only writes change: neither   *)
(* the steps of a compaction nor a crash between two of them, nor the      *)
(* finishing of an interrupted one, show in what a restart reads.          *)
Table == INSTANCE AtomicStore WITH table <- Restart
KeepsTable == Table!Spec

(* A compaction ends, and so does an open that has one to finish.          *)
CompactionEnds ==
    /\ phase = "stage" ~> phase \in {"idle", "down"}
    /\ phase = "finish" ~> phase \in {"idle", "down"}

===========================================================================
