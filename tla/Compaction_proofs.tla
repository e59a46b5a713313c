-------------------------- MODULE Compaction_proofs --------------------------
(***************************************************************************)
(* Theorems about the compaction, for every number of streams, entities,   *)
(* writes and partitions, when I/O errors strike only while it stages      *)
(* (the run compact_fails shows what a later one does).                    *)
(*                                                                         *)
(* The argument is about what the next open will read, the files that      *)
(* Finished describes.  The swap takes a file away only if the marker has  *)
(* condemned it, and moves in only what the marker already counts; the     *)
(* marker itself is saved when the staged partitions were seen to hold     *)
(* the same graph as all the others together.                              *)
(***************************************************************************)
EXTENDS Compaction, Extremes, FiniteSetTheorems, TLAPS

(* Errors before the commit point.                                         *)
EarlyFailures == Failures \subseteq {"stage", "seal"}

Staging  == {"stage", "seal", "mark"}
Swapping == {"move", "fresh", "delete", "clear"}
Starting == {"down", "finish", "open"}

(* An open stream knows its directory; what the marker says of a stream.   *)
Open(s) == known[s] # {} /\ PidsOf(s) = known[s]
Old(s)  == {p \in Pids : <<s, p>> \in saved.marker.remove}
New(s)  == {p \in Pids : <<s, p>> \in saved.marker.staged}

(* There is a marker from its save to its clearing, the same in memory.    *)
MarkerInv ==
    /\ phase \in {"down", "finish"} => manifest = saved
    /\ phase \in {"open", "idle"} \cup Staging =>
          saved.marker = NoMarker /\ manifest.marker = NoMarker
    /\ phase \in Swapping => manifest.marker = saved.marker /\ staged = saved.marker.staged
    /\ phase \notin Staging \cup Swapping => staged = {}
    /\ saved.marker.staged \cap saved.marker.remove = {}

(* A stream in the four stages of a swap.                                  *)
Waiting(s) ==
    /\ Open(s) /\ known[s] = Old(s)
    /\ \A p \in New(s) : staging[<<s, p>>] # Absent
Moved(s) ==
    /\ known[s] # {} /\ known[s] = Old(s) /\ PidsOf(s) = Old(s) \cup New(s)
    /\ \A p \in New(s) : staging[<<s, p>>] = Absent
Cleaning(s) ==
    /\ known[s] # {} /\ known[s] \cap Old(s) = {} /\ PidsOf(s) = known[s] \cup olds
    /\ olds # {} /\ olds \subseteq Old(s)
    /\ \A p \in New(s) : staging[<<s, p>>] = Absent
Swapped(s) ==
    /\ Open(s) /\ known[s] \cap Old(s) = {}
    /\ \A p \in New(s) : staging[<<s, p>>] = Absent

SwapAt(s) ==
    IF s \notin todo THEN Swapped(s)
    ELSE IF s # Min(todo) \/ phase = "move" THEN Waiting(s)
    ELSE IF phase = "fresh" THEN Moved(s) ELSE Cleaning(s)

SwapInv ==
    /\ phase \in Swapping => \A s \in Streams : SwapAt(s)
    /\ phase \in {"move", "fresh", "delete"} => todo # {}
    /\ phase = "clear" => todo = {}

KnownInv ==
    /\ phase \in {"idle"} \cup Staging => \A s \in Streams : Open(s)
    /\ phase = "open" => \A s \in Streams \ todo : Open(s)

(* The ids in use are below the next one.                                  *)
PidInv ==
    /\ phase \notin Starting => \A n \in FileName :
          live[n] # Absent \/ staging[n] # Absent => n[2] < manifest.pid
    /\ phase = "open" => \A n \in FileName :
          /\ staging[n] # Absent => n[2] < manifest.pid
          /\ live[n] # Absent /\ n[1] \notin todo => n[2] < manifest.pid
    /\ saved.marker # NoMarker => \A n \in FileName : staging[n] # Absent => n[2] < saved.pid

StagedInv ==
    /\ phase \in Staging => \A n \in staged : staging[n] # Absent /\ live[n] = Absent
    /\ phase = "stage" => \A n \in staged : n[1] \notin todo
    /\ phase = "mark" => Verified

(* At most one partition of a stream is staged, above those it has.        *)
OneEach(S) == \A n, m \in S : n[1] = m[1] => n = m
Above(S) ==
    \A n \in S : staging[n] # Absent => \A q \in PidsOf(n[1]) :
        q < n[2] /\ \A r \in live[<<n[1], q>>], t \in staging[n] : r.seq < t.seq
AboveInv ==
    /\ OneEach(saved.marker.staged) /\ Above(saved.marker.staged)
    /\ OneEach(staged) /\ Above(staged)

(* What is stored has seqs below the next one, and versions handed out.    *)
BelowInv ==
    phase \notin Starting => \A n \in FileName :
        /\ live[n] # Absent => \A r \in live[n] : r.seq < nextSeq
        /\ n \in staged /\ staging[n] # Absent => \A r \in staging[n] : r.seq < nextSeq

VersInv ==
    /\ \A k \in Keys : graph[k] <= writes
    /\ \A n \in FileName : /\ live[n] # Absent => \A r \in live[n] : r.ver <= writes
                           /\ staging[n] # Absent => \A r \in staging[n] : r.ver <= writes

(* There are a seq for every record still to be staged, an id for every    *)
(* partition still to be created.                                          *)
LiveOf(S) == UNION {Live(s) : s \in S}
Needed ==
    CASE phase = "stage" -> Cardinality(todo) + Cardinality(Streams)
      [] phase \in {"seal", "mark"} -> Cardinality(Streams)
      [] phase \in {"move", "fresh"} -> Cardinality(todo)
      [] phase = "delete" -> Cardinality(todo \ {Min(todo)})
      [] OTHER -> 0
RoomInv ==
    /\ phase = "stage" => nextSeq + Cardinality(LiveOf(todo)) <= MaxSeq + 1
    /\ phase \in Staging \cup Swapping => manifest.pid + Needed <= MaxPid + 1

CInv ==
    /\ TypeOK /\ MarkerInv /\ SwapInv /\ KnownInv /\ PidInv /\ StagedInv
    /\ AboveInv /\ BelowInv /\ VersInv /\ RoomInv
    /\ PartitionsOrdered /\ GraphSurvives

---------------------------------------------------------------------------
(* What the operators of the model return.                                 *)

(* A file is a stream and a partition id.                                  *)
LEMMA FileNames ==
    /\ \A n \in FileName : n[1] \in Streams /\ n[2] \in Pids /\ n = <<n[1], n[2]>>
    /\ \A s \in Streams, p \in Pids : <<s, p>> \in FileName
    BY DEF FileName

(* A present file is a set of records.                                     *)
LEMMA FileContents ==
    /\ \A R \in SUBSET Record : R # Absent
    /\ \A F \in Files, n \in FileName : F[n] # Absent => F[n] \in SUBSET Record
    /\ NoFiles \in Files
<1>1. \A R \in SUBSET Record : R # Absent
    BY AbsentAssumption
<1>2. \A F \in Files, n \in FileName : F[n] # Absent => F[n] \in SUBSET Record
    BY DEF Files
<1>3. NoFiles \in Files
    BY DEF Files, NoFiles
<1>. QED  BY <1>1, <1>2, <1>3

(* The first stream of a set, the last partition of one.                   *)
LEMMA FirstAndLast ==
    /\ \A S \in SUBSET Streams : S # {} => Min(S) \in S
    /\ \A S \in SUBSET Pids : S # {} => Max(S) \in S /\ \A p \in S : p <= Max(S)
    /\ \A S \in SUBSET Pids : S # {} => Min(S) \in S
<1>1. ASSUME NEW S \in SUBSET Streams, S # {} PROVE Min(S) \in S
    BY <1>1, StreamsAssumption, MinExists
<1>2. ASSUME NEW S \in SUBSET Pids, S # {} PROVE Max(S) \in S /\ \A p \in S : p <= Max(S)
  <2>1. S \in SUBSET (0 .. MaxPid) /\ MaxPid \in Nat
    BY BoundsAssumption DEF Pids
  <2>. QED  BY <1>2, <2>1, MaxExists
<1>3. ASSUME NEW S \in SUBSET Pids, S # {} PROVE Min(S) \in S
  <2>1. S \in SUBSET Nat
    BY BoundsAssumption DEF Pids
  <2>. QED  BY <1>3, <2>1, MinExists
<1>. QED  BY <1>1, <1>2, <1>3

(* A replay shows the last record about an entity.                         *)
LEMMA ReplayLast ==
    ASSUME NEW R \in SUBSET Record, NEW k
    PROVE  \/ (\A r \in R : r.key # k) /\ Replay(R, k) = 0
           \/ \E r \in R : /\ r.key = k /\ Replay(R, k) = r.ver
                           /\ \A q \in R : q.key = k => q.seq <= r.seq
<1>. DEFINE about == {r \in R : r.key = k}
            last(r) == \A q \in about : q.seq <= r.seq
<1>1. CASE about = {}
    BY <1>1 DEF Replay
<1>2. CASE about # {}
  <2>. DEFINE S == {r.seq : r \in about}
  <2>1. S \in SUBSET (0 .. MaxSeq) /\ S # {} /\ MaxSeq \in Nat
    BY <1>2, BoundsAssumption DEF Record, Seqs
  <2>2. Max(S) \in S /\ \A y \in S : y <= Max(S)
    <3>. HIDE DEF S
    <3>. QED  BY <2>1, MaxExists
  <2>3. \E r \in about : last(r)
    BY <2>2
  <2>4. (CHOOSE r \in about : last(r)) \in about /\ last(CHOOSE r \in about : last(r))
    BY <2>3
  <2>5. Replay(R, k) = (CHOOSE r \in about : last(r)).ver
    BY <1>2 DEF Replay
  <2>. HIDE DEF last
  <2>6. PICK r \in about : last(r) /\ Replay(R, k) = r.ver
    BY <2>4, <2>5
  <2>. QED  BY <2>6 DEF last
<1>. QED  BY <1>1, <1>2

(* A record newer than all the others shows, and changes nothing else.     *)
LEMMA ReplayGrows ==
    ASSUME NEW R \in SUBSET Record, NEW new \in Record, \A r \in R : r.seq < new.seq
    PROVE  /\ Replay(R \cup {new}, new.key) = new.ver
           /\ \A k : k # new.key => Replay(R \cup {new}, k) = Replay(R, k)
<1>1. \A r, q \in Record : r.seq \in Nat /\ q.seq \in Nat
    BY BoundsAssumption DEF Record, Seqs
<1>2. Replay(R \cup {new}, new.key) = new.ver
  <2>1. R \cup {new} \in SUBSET Record
    OBVIOUS
  <2>2. PICK r \in R \cup {new} :
            /\ Replay(R \cup {new}, new.key) = r.ver
            /\ \A q \in R \cup {new} : q.key = new.key => q.seq <= r.seq
    BY <2>1, ReplayLast
  <2>3. r = new
    BY <2>2, <1>1
  <2>. QED  BY <2>2, <2>3
<1>3. ASSUME NEW k, k # new.key PROVE Replay(R \cup {new}, k) = Replay(R, k)
  <2>. DEFINE Shown(about) == IF about = {} THEN 0
                              ELSE (CHOOSE r \in about : \A q \in about : q.seq <= r.seq).ver
  <2>1. {r \in R \cup {new} : r.key = k} = {r \in R : r.key = k}
    BY <1>3
  <2>2. /\ Replay(R \cup {new}, k) = Shown({r \in R \cup {new} : r.key = k})
        /\ Replay(R, k) = Shown({r \in R : r.key = k})
    BY DEF Replay
  <2>. HIDE DEF Shown
  <2>. QED  BY <2>1, <2>2
<1>. QED  BY <1>2, <1>3

(* The records of a set of files.                                          *)
LEMMA RecordsOf ==
    ASSUME NEW F
    PROVE  \A r : r \in Records(F) <=> \E n \in FileName : F[n] # Absent /\ r \in F[n]
    BY DEF Records, Present

(* What the next open will read, and hydrate the graph with.               *)
Read == Finished(live, staging, saved.marker)

(* The graph of a restart, in terms of what it reads.                      *)
LEMMA RestartOf ==
    /\ Restart = [k \in Keys |-> Replay(Records(Read), k)]
    /\ Restart' = [k \in Keys |-> Replay(Records(Read'), k)]
    BY DEF Restart, Read

(* An empty file tells a replay as much as none.                           *)
Alike(f, g) == f = g \/ (f \in {Absent, {}} /\ g \in {Absent, {}})

(* A restart shows the same when it reads the same.                        *)
LEMMA RestartSame ==
    ASSUME \A n \in FileName : Alike(Read[n], Read'[n])
    PROVE  Restart' = Restart
<1>1. \A r : r \in Records(Read) <=> \E n \in FileName : Read[n] # Absent /\ r \in Read[n]
    BY RecordsOf
<1>2. \A r : r \in Records(Read') <=> \E n \in FileName : Read'[n] # Absent /\ r \in Read'[n]
    BY RecordsOf
<1>. HIDE DEF Read
<1>3. Records(Read') = Records(Read)
    BY <1>1, <1>2 DEF Alike
<1>. QED  BY <1>3, RestartOf

(* The live records of some streams are finitely many; those of one of     *)
(* them and those of the others make them up.                              *)
LEMMA LiveCount ==
    /\ \A s : IsFiniteSet(Live(s)) /\ Cardinality(Live(s)) \in Nat
    /\ \A S : /\ IsFiniteSet(LiveOf(S)) /\ Cardinality(LiveOf(S)) \in Nat
              /\ Cardinality(LiveOf(S)) <= Cardinality(Keys)
    /\ \A S, s : s \in S =>
          Cardinality(LiveOf(S)) = Cardinality(Live(s)) + Cardinality(LiveOf(S \ {s}))
    /\ Cardinality(Keys) \in Nat
<1>1. \A s : Live(s) \in SUBSET Keys
    BY DEF Live
<1>2. \A S : LiveOf(S) \in SUBSET Keys
    BY <1>1 DEF LiveOf
<1>3. IsFiniteSet(Keys)
    BY KeysAssumption
<1>4. Cardinality(Keys) \in Nat
    BY <1>3, FS_CardinalityType
<1>5. ASSUME NEW T \in SUBSET Keys
      PROVE  IsFiniteSet(T) /\ Cardinality(T) \in Nat /\ Cardinality(T) <= Cardinality(Keys)
  <2>1. IsFiniteSet(T) /\ Cardinality(T) <= Cardinality(Keys)
    BY <1>3, FS_Subset
  <2>. QED  BY <2>1, FS_CardinalityType
<1>6. ASSUME NEW S, NEW s, s \in S
      PROVE  Cardinality(LiveOf(S)) = Cardinality(Live(s)) + Cardinality(LiveOf(S \ {s}))
  <2>. DEFINE A == Live(s)
              B == LiveOf(S \ {s})
  <2>1. LiveOf(S) = A \cup B
    BY <1>6 DEF LiveOf
  <2>2. A \cap B = {}
    BY DEF LiveOf, Live
  <2>3. IsFiniteSet(A) /\ IsFiniteSet(B) /\ Cardinality(A) \in Nat /\ Cardinality(B) \in Nat
    BY <1>1, <1>2, <1>5
  <2>. HIDE DEF A, B
  <2>4. Cardinality(A \cup B) = Cardinality(A) + Cardinality(B) - Cardinality(A \cap B)
    BY <2>3, FS_Union
  <2>5. Cardinality(A \cap B) = 0
    BY <2>2, FS_EmptySet
  <2>6. Cardinality(LiveOf(S)) = Cardinality(A) + Cardinality(B)
    BY <2>1, <2>3, <2>4, <2>5
  <2>. QED  BY <2>6 DEF A, B
<1>7. \A s : IsFiniteSet(Live(s)) /\ Cardinality(Live(s)) \in Nat
    BY <1>1, <1>5
<1>8. \A S : /\ IsFiniteSet(LiveOf(S)) /\ Cardinality(LiveOf(S)) \in Nat
             /\ Cardinality(LiveOf(S)) <= Cardinality(Keys)
    BY <1>2, <1>5
<1>. QED  BY <1>4, <1>6, <1>7, <1>8

(* The streams that are left, one by one.                                  *)
LEMMA StreamCount ==
    /\ \A S \in SUBSET Streams : Cardinality(S) \in Nat /\ Cardinality(S) <= Cardinality(Streams)
    /\ \A S \in SUBSET Streams : \A s \in S : Cardinality(S \ {s}) = Cardinality(S) - 1
    /\ \A S \in SUBSET Streams : S # {} => Cardinality(S) >= 1
    /\ Cardinality({}) = 0
<1>1. IsFiniteSet(Streams)
    BY StreamsAssumption
<1>2. ASSUME NEW S \in SUBSET Streams
      PROVE  IsFiniteSet(S) /\ Cardinality(S) \in Nat /\ Cardinality(S) <= Cardinality(Streams)
  <2>1. IsFiniteSet(S) /\ Cardinality(S) <= Cardinality(Streams)
    BY <1>1, FS_Subset
  <2>. QED  BY <2>1, FS_CardinalityType
<1>3. ASSUME NEW S \in SUBSET Streams, NEW s, s \in S
      PROVE  Cardinality(S \ {s}) = Cardinality(S) - 1
    BY <1>2, <1>3, FS_RemoveElement
<1>4. ASSUME NEW S \in SUBSET Streams, S # {} PROVE Cardinality(S) >= 1
  <2>1. Cardinality(S) \in Nat /\ Cardinality(S) # 0
    BY <1>2, <1>4, FS_EmptySet
  <2>. QED  BY <2>1
<1>. QED  BY <1>2, <1>3, <1>4, FS_EmptySet

(* The records a stream is rewritten to take the next seqs.                *)
LEMMA RewrittenIs ==
    ASSUME graph \in [Keys -> Versions \cup {0}], nextSeq \in 1 .. MaxSeq + 1,
           NEW s, nextSeq + Cardinality(Live(s)) <= MaxSeq + 1
    PROVE  /\ Rewritten(s) \in SUBSET Record
           /\ \A r \in Rewritten(s) :
                 /\ nextSeq <= r.seq /\ r.seq < nextSeq + Cardinality(Live(s))
                 /\ \E k \in Keys : r.ver = graph[k]
<1>. DEFINE n == Cardinality(Live(s))
            I == nextSeq .. nextSeq + n - 1
            at == CHOOSE f \in Injection(Live(s), I) : TRUE
<1>1. n \in Nat /\ nextSeq \in Nat /\ MaxSeq \in Nat /\ IsFiniteSet(Live(s))
    BY LiveCount, BoundsAssumption
<1>2. IsFiniteSet(I) /\ Cardinality(I) = n
  <2>. HIDE DEF n
  <2>. DEFINE b == nextSeq + n - 1
  <2>1. nextSeq \in Int /\ b \in Int
    BY <1>1
  <2>2. b - nextSeq + 1 = n /\ (nextSeq > b <=> n = 0)
    BY <1>1
  <2>. HIDE DEF b
  <2>3. IsFiniteSet(nextSeq .. b) /\ Cardinality(nextSeq .. b) = n
    BY <2>1, <2>2, FS_Interval
  <2>. QED  BY <2>3 DEF b
<1>3. Injection(Live(s), I) # {}
  <2>. HIDE DEF I
  <2>1. ExistsBijection(Live(s), I)
    BY <1>1, <1>2, FS_SameCardinalityBij
  <2>. QED  BY <2>1 DEF ExistsBijection, Bijection
<1>4. at \in Injection(Live(s), I)
    BY <1>3
<1>5. at \in [Live(s) -> I]
  <2>. HIDE DEF at, I
  <2>. QED  BY <1>4 DEF Injection
<1>6. Rewritten(s) = {[seq |-> at[k], key |-> k, ver |-> graph[k]] : k \in Live(s)}
    BY DEF Rewritten
<1>7. \A k \in Live(s) : k \in Keys
    BY DEF Live
<1>. HIDE DEF at
<1>8. \A k \in Live(s) : at[k] \in I
    BY <1>5
<1>9. \A i \in I : nextSeq <= i /\ i < nextSeq + n /\ i \in Seqs
  <2>. HIDE DEF n
  <2>1. nextSeq + n <= MaxSeq + 1
    BY DEF n
  <2>. QED  BY <1>1, <2>1 DEF Seqs
<1>. HIDE DEF I
<1>10. \A k \in Live(s) : [seq |-> at[k], key |-> k, ver |-> graph[k]] \in Record
    BY <1>7, <1>8, <1>9 DEF Record
<1>11. ASSUME NEW r \in Rewritten(s)
       PROVE  /\ nextSeq <= r.seq /\ r.seq < nextSeq + n
              /\ \E k \in Keys : r.ver = graph[k]
  <2>1. PICK k \in Live(s) : r = [seq |-> at[k], key |-> k, ver |-> graph[k]]
    BY <1>6
  <2>. QED  BY <2>1, <1>7, <1>8, <1>9
<1>12. Rewritten(s) \in SUBSET Record
    BY <1>6, <1>10
<1>. QED  BY <1>11, <1>12

(* What depends on few variables.                                          *)
LEMMA Unmoved ==
    /\ PartitionsOrdered /\ UNCHANGED live => PartitionsOrdered'
    /\ VersInv /\ UNCHANGED <<live, staging, graph, writes>> => VersInv'
    /\ AboveInv /\ UNCHANGED <<live, staging>> /\ staged' \in {staged, {}}
          /\ saved'.marker.staged \in {saved.marker.staged, staged, {}} => AboveInv'
    /\ UNCHANGED <<live, staging>> /\ saved'.marker = saved.marker => Restart' = Restart
<1>1. PartitionsOrdered /\ UNCHANGED live => PartitionsOrdered'
    BY DEF PartitionsOrdered, PidsOf
<1>2. VersInv /\ UNCHANGED <<live, staging, graph, writes>> => VersInv'
    BY DEF VersInv
<1>3. AboveInv /\ UNCHANGED <<live, staging>> /\ staged' \in {staged, {}}
          /\ saved'.marker.staged \in {saved.marker.staged, staged, {}} => AboveInv'
    BY DEF AboveInv, Above, OneEach, PidsOf
<1>4. UNCHANGED <<live, staging>> /\ saved'.marker = saved.marker => Restart' = Restart
    BY DEF Restart
<1>. QED  BY <1>1, <1>2, <1>3, <1>4

---------------------------------------------------------------------------
(* Each step preserves the invariant.                                      *)

(* An open starts from the manifest on disk.                               *)
LEMMA LoadManifestKeeps ==
    ASSUME CInv, LoadManifest
    PROVE  CInv'
<1>. USE DEF LoadManifest, disk, work
<1>1. TypeOK'
    BY DEF CInv, TypeOK, Phases
<1>2. MarkerInv'
    BY DEF CInv, MarkerInv, Staging, Swapping
<1>3. SwapInv' /\ KnownInv'
    BY DEF SwapInv, KnownInv, Staging, Swapping
<1>4. PidInv' /\ StagedInv' /\ BelowInv' /\ RoomInv'
    BY DEF CInv, PidInv, StagedInv, BelowInv, RoomInv, Starting, Staging, Swapping
<1>5. AboveInv' /\ VersInv' /\ PartitionsOrdered'
    BY Unmoved DEF CInv
<1>6. GraphSurvives'
    BY DEF GraphSurvives
<1>. QED  BY <1>1, <1>2, <1>3, <1>4, <1>5, <1>6 DEF CInv

(* The end of the process leaves the disk as it is.                        *)
LEMMA CrashKeeps ==
    ASSUME CInv, Crash
    PROVE  CInv'
<1>. USE DEF Crash, disk, work
<1>1. TypeOK'
    BY BoundsAssumption DEF CInv, TypeOK, Phases, Closed
<1>2. MarkerInv'
    BY DEF CInv, MarkerInv, Staging, Swapping
<1>3. SwapInv' /\ KnownInv'
    BY DEF SwapInv, KnownInv, Staging, Swapping
<1>4. PidInv' /\ StagedInv' /\ BelowInv' /\ RoomInv'
    BY DEF CInv, PidInv, StagedInv, BelowInv, RoomInv, Starting, Staging, Swapping
<1>5. AboveInv' /\ PartitionsOrdered'
    BY Unmoved DEF CInv
<1>6. VersInv'
    BY DEF CInv, TypeOK, VersInv
<1>7. GraphSurvives'
    BY DEF GraphSurvives
<1>. QED  BY <1>1, <1>2, <1>3, <1>4, <1>5, <1>6, <1>7 DEF CInv

(* A staged partition of the marker goes where the next open reads it.     *)
LEMMA FinishMoveKeeps ==
    ASSUME CInv, FinishMove
    PROVE  CInv' /\ Restart' = Restart
<1>. USE DEF disk, work
<1>1. /\ phase = "finish" /\ manifest = saved
      /\ UNCHANGED <<saved, manifest, known, nextSeq, graph, writes, phase, todo, staged, olds>>
    BY DEF CInv, MarkerInv, FinishMove
<1>2. PICK n \in ToMove(saved.marker) :
          /\ live' = [live EXCEPT ![n] = staging[n]]
          /\ staging' = [staging EXCEPT ![n] = Absent]
    BY <1>1 DEF FinishMove
<1>3. /\ n \in saved.marker.staged /\ n \in FileName /\ staging[n] # Absent
      /\ live \in Files /\ staging \in Files
    BY <1>2 DEF CInv, TypeOK, ToMove, Manifest, Marker
<1>4. /\ live'[n] = staging[n] /\ staging'[n] = Absent
      /\ \A m \in FileName : m # n => live'[m] = live[m] /\ staging'[m] = staging[m]
      /\ live' \in Files /\ staging' \in Files
    BY <1>2, <1>3 DEF Files
<1>5. TypeOK'
    BY <1>1, <1>4 DEF CInv, TypeOK
<1>6. MarkerInv'
    BY <1>1 DEF CInv, MarkerInv
<1>7. SwapInv' /\ KnownInv'
    BY <1>1 DEF SwapInv, KnownInv, Staging, Swapping
<1>8. PidInv'
    BY <1>1, <1>4 DEF CInv, PidInv, Starting
<1>9. StagedInv' /\ BelowInv' /\ RoomInv' /\ GraphSurvives'
    BY <1>1 DEF StagedInv, BelowInv, RoomInv, GraphSurvives, Starting, Staging, Swapping
<1>10. VersInv'
    BY <1>1, <1>3, <1>4 DEF CInv, VersInv
<1>11. \A m \in FileName : m[1] # n[1] => PidsOf(m[1])' = PidsOf(m[1])
    BY <1>4, FileNames DEF PidsOf
<1>12. \A q \in PidsOf(n[1])' : q = n[2] \/ q \in PidsOf(n[1])
    BY <1>3, <1>4, FileNames DEF PidsOf
<1>13. AboveInv'
  <2>1. OneEach(saved.marker.staged)' /\ OneEach(staged)'
    BY <1>1 DEF CInv, AboveInv, OneEach
  <2>2. staged = {}
    BY <1>1 DEF CInv, MarkerInv, Staging, Swapping
  <2>3. Above(staged)'
    BY <1>1, <2>2 DEF Above
  <2>4. ASSUME NEW m \in saved.marker.staged, staging'[m] # Absent, NEW q \in PidsOf(m[1])'
        PROVE  /\ q < m[2]
               /\ \A r \in live'[<<m[1], q>>], t \in staging'[m] : r.seq < t.seq
    <3>1. m # n /\ m \in FileName
      BY <1>4, <2>4 DEF CInv, TypeOK, Manifest, Marker
    <3>2. m[1] # n[1]
      BY <1>3, <3>1 DEF CInv, AboveInv, OneEach
    <3>3. q \in PidsOf(m[1]) /\ <<m[1], q>> \in FileName /\ <<m[1], q>> # n
      BY <1>11, <2>4, <3>1, <3>2, FileNames DEF PidsOf
    <3>4. live'[<<m[1], q>>] = live[<<m[1], q>>] /\ staging'[m] = staging[m]
      BY <1>4, <3>1, <3>3
    <3>. QED  BY <2>4, <3>3, <3>4 DEF CInv, AboveInv, Above
  <2>5. Above(saved.marker.staged)'
    BY <1>1, <2>4 DEF Above
  <2>. QED  BY <2>1, <2>3, <2>5 DEF AboveInv
<1>14. PartitionsOrdered'
  <2>. SUFFICES ASSUME NEW s \in Streams, NEW p \in PidsOf(s)', NEW q \in PidsOf(s)', p < q,
                       NEW r \in live'[<<s, p>>], NEW t \in live'[<<s, q>>]
                PROVE  r.seq < t.seq
    BY DEF PartitionsOrdered
  <2>1. p \in Pids /\ q \in Pids /\ <<s, p>> \in FileName /\ <<s, q>> \in FileName
    BY FileNames DEF PidsOf
  <2>2. CASE s # n[1]
    BY <1>4, <1>11, <2>1, <2>2 DEF CInv, PartitionsOrdered, PidsOf
  <2>3. CASE s = n[1] /\ p # n[2] /\ q # n[2]
    BY <1>4, <1>12, <2>1, <2>3 DEF CInv, PartitionsOrdered, PidsOf
  <2>4. CASE s = n[1] /\ q = n[2]
    <3>1. p # n[2] /\ p \in PidsOf(s) /\ n = <<s, q>>
      BY <1>3, <1>12, <2>1, <2>4, FileNames, BoundsAssumption DEF Pids
    <3>2. live'[<<s, p>>] = live[<<s, p>>] /\ live'[<<s, q>>] = staging[n]
      BY <1>4, <2>1, <3>1
    <3>. QED  BY <1>3, <2>4, <3>1, <3>2 DEF CInv, AboveInv, Above
  <2>5. CASE s = n[1] /\ p = n[2]
    <3>1. q \in PidsOf(s) /\ q # n[2]
      BY <1>12, <2>1, <2>5, BoundsAssumption DEF Pids
    <3>2. q < n[2]
      BY <1>3, <2>5, <3>1 DEF CInv, AboveInv, Above
    <3>. QED  BY <2>1, <2>5, <3>2, BoundsAssumption DEF Pids
  <2>. QED  BY <2>2, <2>3, <2>4, <2>5
<1>15. Restart' = Restart
  <2>1. saved.marker.remove \in SUBSET FileName /\ n \notin saved.marker.remove
    BY <1>3 DEF CInv, TypeOK, Manifest, Marker, MarkerInv
  <2>2. \A m \in FileName : Alike(Read[m], Read'[m])
    BY <1>1, <1>3, <1>4, <2>1 DEF Read, Finished, Alike
  <2>. QED  BY <2>2, RestartSame
<1>. QED  BY <1>5, <1>6, <1>7, <1>8, <1>9, <1>10, <1>13, <1>14, <1>15 DEF CInv

(* Files taken away: what is left was there before.                        *)
LEMMA FewerFiles ==
    ASSUME CInv, NEW n \in FileName, live' = [live EXCEPT ![n] = Absent],
           UNCHANGED <<staging, graph, writes>>,
           staged' = staged, saved' = saved
    PROVE  /\ live' \in Files /\ live'[n] = Absent
           /\ \A m \in FileName : m # n => live'[m] = live[m]
           /\ \A s \in Streams : PidsOf(s)' = {p \in PidsOf(s) : <<s, p>> # n}
           /\ AboveInv' /\ VersInv' /\ PartitionsOrdered'
           /\ n \in saved.marker.remove => Restart' = Restart
<1>1. live \in Files /\ staging \in Files
    BY DEF CInv, TypeOK
<1>2. /\ live'[n] = Absent /\ live' \in Files
      /\ \A m \in FileName : m # n => live'[m] = live[m]
    BY <1>1 DEF Files
<1>3. \A s \in Streams : PidsOf(s)' = {p \in PidsOf(s) : <<s, p>> # n}
    BY <1>2, FileNames DEF PidsOf
<1>4. \A m \in FileName : live'[m] # Absent => live[m] # Absent /\ live'[m] = live[m]
    BY <1>2
<1>5. VersInv'
    BY <1>4 DEF CInv, VersInv
<1>6. PartitionsOrdered'
    BY <1>3, <1>4, FileNames DEF CInv, PartitionsOrdered, PidsOf
<1>7. AboveInv'
  <2>1. /\ \A m \in saved.marker.staged : m \in FileName
        /\ \A m \in staged : m \in FileName
    BY DEF CInv, TypeOK, Manifest, Marker
  <2>2. ASSUME NEW S \in SUBSET FileName, Above(S) PROVE Above(S)'
    BY <1>3, <1>4, <2>2, FileNames DEF Above, PidsOf
  <2>. QED  BY <2>1, <2>2 DEF CInv, AboveInv, OneEach
<1>8. ASSUME n \in saved.marker.remove PROVE Restart' = Restart
  <2>1. \A m \in FileName : Alike(Read[m], Read'[m])
    BY <1>2, <1>8 DEF Read, Finished, Alike
  <2>. QED  BY <2>1, RestartSame
<1>. QED  BY <1>2, <1>3, <1>5, <1>6, <1>7, <1>8

(* A file of the remove list goes, which the next open does not read.      *)
LEMMA FinishRemoveKeeps ==
    ASSUME CInv, FinishRemove
    PROVE  CInv' /\ Restart' = Restart
<1>1. /\ phase = "finish" /\ manifest = saved
      /\ UNCHANGED <<staging, saved, manifest, known, nextSeq, graph, writes, phase,
                     todo, staged, olds>>
    BY DEF CInv, MarkerInv, FinishRemove, work
<1>2. PICK n \in ToRemove(saved.marker) : live' = [live EXCEPT ![n] = Absent]
    BY <1>1 DEF FinishRemove
<1>3. n \in saved.marker.remove /\ n \in FileName
    BY <1>2 DEF CInv, TypeOK, ToRemove, Manifest, Marker
<1>4. /\ live' \in Files
      /\ \A m \in FileName : m # n => live'[m] = live[m]
      /\ AboveInv' /\ VersInv' /\ PartitionsOrdered' /\ Restart' = Restart
    BY <1>1, <1>2, <1>3, FewerFiles
<1>5. TypeOK'
    BY <1>1, <1>4 DEF CInv, TypeOK
<1>6. MarkerInv'
    BY <1>1 DEF CInv, MarkerInv
<1>7. SwapInv' /\ KnownInv'
    BY <1>1 DEF SwapInv, KnownInv, Staging, Swapping
<1>8. PidInv'
    BY <1>1 DEF CInv, PidInv, Starting
<1>9. StagedInv' /\ BelowInv' /\ RoomInv' /\ GraphSurvives'
    BY <1>1 DEF StagedInv, BelowInv, RoomInv, GraphSurvives, Starting, Staging, Swapping
<1>. QED  BY <1>4, <1>5, <1>6, <1>7, <1>8, <1>9 DEF CInv

(* When all was moved and removed the marker says nothing more.            *)
LEMMA FinishClearKeeps ==
    ASSUME CInv, FinishClear
    PROVE  CInv' /\ Restart' = Restart
<1>1. /\ phase = "finish" /\ phase' = "open" /\ todo' = Streams /\ manifest = saved
      /\ ToMove(saved.marker) = {} /\ ToRemove(saved.marker) = {}
      /\ UNCHANGED <<live, known, nextSeq, graph, writes, staged, olds>>
    BY DEF CInv, MarkerInv, FinishClear
<1>2. /\ manifest \in Manifest /\ NoMarker \in Marker
      /\ live \in Files /\ staging \in Files
    BY DEF CInv, TypeOK, NoMarker, Marker
<1>3. /\ manifest' = saved' /\ saved' \in Manifest
      /\ saved'.marker = NoMarker /\ saved'.pid = saved.pid
  <2>1. CASE manifest.marker # NoMarker
    BY <1>1, <1>2, <2>1 DEF FinishClear, Manifest
  <2>2. CASE manifest.marker = NoMarker
    BY <1>1, <1>2, <2>2 DEF FinishClear
  <2>. QED  BY <2>1, <2>2
<1>4. \/ saved.marker # NoMarker /\ staging' = staging
      \/ saved.marker = NoMarker /\ staging' = NoFiles
    BY <1>1 DEF FinishClear
<1>5. staging' \in Files /\ \A n \in FileName : staging'[n] \in {staging[n], Absent}
    BY <1>2, <1>4, FileContents DEF NoFiles
<1>6. staged = {}
    BY <1>1 DEF CInv, MarkerInv, Staging, Swapping
<1>7. TypeOK'
    BY <1>1, <1>2, <1>3, <1>5 DEF CInv, TypeOK, Phases
<1>8. MarkerInv'
    BY <1>1, <1>3, <1>6 DEF MarkerInv, Staging, Swapping, NoMarker
<1>9. SwapInv' /\ KnownInv'
    BY <1>1 DEF SwapInv, KnownInv, Staging, Swapping
<1>10. PidInv'
  <2>1. \A n \in FileName : staging'[n] # Absent => n[2] < saved.pid
    BY <1>4 DEF CInv, PidInv, NoFiles
  <2>. QED  BY <1>1, <1>3, <2>1, FileNames DEF PidInv, Starting
<1>11. StagedInv' /\ BelowInv' /\ RoomInv' /\ GraphSurvives'
    BY <1>1 DEF StagedInv, BelowInv, RoomInv, GraphSurvives, Starting, Staging, Swapping
<1>12. AboveInv'
    BY <1>1, <1>3, <1>6 DEF AboveInv, Above, OneEach, NoMarker
<1>13. VersInv'
    BY <1>1, <1>5 DEF CInv, VersInv
<1>14. PartitionsOrdered'
    BY <1>1, Unmoved DEF CInv
<1>15. Restart' = Restart
  <2>1. \A n \in FileName : /\ n \in saved.marker.staged => staging[n] = Absent
                            /\ n \in saved.marker.remove => live[n] = Absent
    BY <1>1 DEF ToMove, ToRemove
  <2>2. \A n \in FileName : Read[n] = live[n]
    BY <2>1 DEF Read, Finished
  <2>3. \A n \in FileName : Read'[n] = live[n]
    BY <1>1, <1>3 DEF Read, Finished, NoMarker
  <2>4. \A n \in FileName : Alike(Read[n], Read'[n])
    BY <2>2, <2>3 DEF Alike
  <2>. QED  BY <2>4, RestartSame
<1>. QED  BY <1>7, <1>8, <1>9, <1>10, <1>11, <1>12, <1>13, <1>14, <1>15 DEF CInv

(* An empty file is created: no replay sees it.                            *)
LEMMA FreshFile ==
    ASSUME CInv, NEW n \in FileName, live[n] = Absent, live' = [live EXCEPT ![n] = {}],
           UNCHANGED <<staging, graph, writes>>
    PROVE  /\ live' \in Files /\ live'[n] = {} /\ {} # Absent
           /\ \A m \in FileName : m # n => live'[m] = live[m]
           /\ \A s \in Streams : s # n[1] => PidsOf(s)' = PidsOf(s)
           /\ PidsOf(n[1])' = PidsOf(n[1]) \cup {n[2]}
           /\ VersInv' /\ PartitionsOrdered'
           /\ saved' = saved => Restart' = Restart
<1>1. live \in Files /\ staging \in Files
    BY DEF CInv, TypeOK
<1>2. {} # Absent /\ {} \in SUBSET Record
    BY FileContents
<1>3. /\ live'[n] = {} /\ live' \in Files
      /\ \A m \in FileName : m # n => live'[m] = live[m]
    BY <1>1, <1>2 DEF Files
<1>4. /\ \A s \in Streams : s # n[1] => PidsOf(s)' = PidsOf(s)
      /\ PidsOf(n[1])' = PidsOf(n[1]) \cup {n[2]}
    BY <1>2, <1>3, FileNames DEF PidsOf
<1>5. \A m \in FileName : live'[m] # Absent => live'[m] = {} \/ (live'[m] = live[m] /\ live[m] # Absent)
    BY <1>3
<1>6. VersInv'
    BY <1>5 DEF CInv, VersInv
<1>7. PartitionsOrdered'
    BY <1>5, FileNames DEF CInv, PartitionsOrdered, PidsOf
<1>8. ASSUME saved' = saved PROVE Restart' = Restart
  <2>1. \A m \in FileName : Alike(Read[m], Read'[m])
    BY <1>3, <1>8 DEF Read, Finished, Alike
  <2>. QED  BY <2>1, RestartSame
<1>. QED  BY <1>2, <1>3, <1>4, <1>6, <1>7, <1>8

(* A stream is opened: it is what its directory holds.                     *)
LEMMA OpenStreamKeeps ==
    ASSUME CInv, OpenStream
    PROVE  CInv' /\ Restart' = Restart
<1>0. /\ phase = "open" /\ todo # {} /\ todo' = todo \ {Min(todo)}
      /\ UNCHANGED <<staging, saved, nextSeq, graph, writes, phase, staged, olds>>
    BY DEF OpenStream
<1>2. PICK s \in todo : s \in Streams /\ s = Min(todo)
    BY <1>0, FirstAndLast DEF CInv, TypeOK
<1>1. /\ phase = "open" /\ todo # {} /\ todo' = todo \ {s}
      /\ UNCHANGED <<staging, saved, nextSeq, graph, writes, phase, staged, olds>>
    BY <1>0, <1>2
<1>3. /\ saved.marker = NoMarker /\ manifest.marker = NoMarker /\ staged = {}
    BY <1>1 DEF CInv, MarkerInv, Staging, Swapping
<1>4. /\ manifest \in Manifest /\ manifest.pid \in Nat \ {0} /\ known \in [Streams -> SUBSET Pids]
      /\ live \in Files /\ staging \in Files
    BY DEF CInv, TypeOK, Manifest
<1>5. /\ manifest' \in Manifest /\ manifest'.marker = NoMarker /\ manifest'.pid >= manifest.pid
      /\ known' \in [Streams -> SUBSET Pids] /\ known'[s] # {} /\ known'[s] = PidsOf(s)'
      /\ \A p \in PidsOf(s)' : p < manifest'.pid
      /\ \A u \in Streams : u # s => known'[u] = known[u] /\ PidsOf(u)' = PidsOf(u)
      /\ live' \in Files /\ VersInv' /\ PartitionsOrdered' /\ Restart' = Restart
  <2>1. CASE PidsOf(s) = {}
    <3>0. /\ Creatable(live, s) /\ live' = [live EXCEPT ![<<s, manifest.pid>>] = {}]
          /\ known' = [known EXCEPT ![s] = {manifest.pid}]
          /\ manifest' = [manifest EXCEPT !.pid = @ + 1]
      BY <1>2, <2>1 DEF OpenStream
    <3>2. PICK n \in FileName : n = <<s, manifest.pid>> /\ manifest.pid \in Pids /\ live[n] = Absent
      BY <1>2, <3>0, FileNames DEF Creatable
    <3>1. /\ n[1] = s /\ n[2] = manifest.pid /\ live' = [live EXCEPT ![n] = {}]
          /\ known' = [known EXCEPT ![s] = {manifest.pid}]
          /\ manifest' = [manifest EXCEPT !.pid = @ + 1]
      BY <3>0, <3>2
    <3>3. /\ live' \in Files
          /\ \A u \in Streams : u # s => PidsOf(u)' = PidsOf(u)
          /\ PidsOf(s)' = PidsOf(s) \cup {manifest.pid}
          /\ VersInv' /\ PartitionsOrdered' /\ Restart' = Restart
      BY <1>1, <3>1, <3>2, FreshFile
    <3>4. /\ manifest' \in Manifest /\ manifest'.marker = NoMarker /\ manifest'.pid = manifest.pid + 1
      BY <1>3, <1>4, <3>1 DEF Manifest
    <3>5. /\ known' \in [Streams -> SUBSET Pids] /\ known'[s] = {manifest.pid}
          /\ \A u \in Streams : u # s => known'[u] = known[u]
      BY <1>2, <1>4, <3>1, <3>2
    <3>. QED  BY <1>4, <2>1, <3>3, <3>4, <3>5
  <2>2. CASE PidsOf(s) # {}
    <3>. DEFINE last == Max(PidsOf(s))
    <3>1. /\ known' = [known EXCEPT ![s] = PidsOf(s)] /\ live' = live
          /\ manifest' = [manifest EXCEPT !.pid = Max({manifest.pid, last + 1})]
      BY <1>2, <2>2 DEF OpenStream
    <3>2. PidsOf(s) \in SUBSET Pids
      BY DEF PidsOf
    <3>3. last \in Pids /\ \A p \in PidsOf(s) : p <= last
      BY <2>2, <3>2, FirstAndLast
    <3>. HIDE DEF last
    <3>4. last \in Nat /\ \A p \in PidsOf(s) : p \in Nat
      BY <3>2, <3>3 DEF Pids
    <3>5. /\ Max({manifest.pid, last + 1}) \in Nat
          /\ Max({manifest.pid, last + 1}) >= manifest.pid /\ Max({manifest.pid, last + 1}) >= last + 1
      BY <1>4, <3>4, MaxOfTwo
    <3>6. /\ manifest' \in Manifest /\ manifest'.marker = NoMarker
          /\ manifest'.pid = Max({manifest.pid, last + 1})
      BY <1>3, <1>4, <3>1, <3>5 DEF Manifest
    <3>7. \A p \in PidsOf(s) : p < manifest'.pid
      BY <3>3, <3>4, <3>5, <3>6
    <3>8. \A u \in Streams : PidsOf(u)' = PidsOf(u)
      BY <3>1 DEF PidsOf
    <3>9. /\ known' \in [Streams -> SUBSET Pids] /\ known'[s] = PidsOf(s)
          /\ \A u \in Streams : u # s => known'[u] = known[u]
      BY <1>2, <1>4, <3>1, <3>2
    <3>10. VersInv' /\ PartitionsOrdered' /\ Restart' = Restart
      BY <1>1, <3>1, Unmoved DEF CInv
    <3>. QED  BY <1>2, <1>4, <2>2, <3>1, <3>5, <3>6, <3>7, <3>8, <3>9, <3>10
  <2>. QED  BY <2>1, <2>2
<1>6. TypeOK'
    BY <1>1, <1>5 DEF CInv, TypeOK
<1>7. MarkerInv'
    BY <1>1, <1>3, <1>5 DEF CInv, MarkerInv, Staging, Swapping, NoMarker
<1>8. SwapInv'
    BY <1>1 DEF SwapInv, Staging, Swapping
<1>9. KnownInv'
    BY <1>1, <1>2, <1>5 DEF CInv, KnownInv, Open, Staging
<1>10. PidInv'
  <2>1. /\ manifest.pid \in Nat /\ manifest'.pid \in Nat
        /\ \A m \in FileName : m[2] \in Nat
    BY <1>4, <1>5, FileNames DEF Manifest, Pids
  <2>2. \A m \in FileName : staging'[m] # Absent => m[2] < manifest'.pid
    BY <1>1, <1>5, <2>1 DEF CInv, PidInv
  <2>3. ASSUME NEW m \in FileName, live'[m] # Absent, m[1] \notin todo'
        PROVE  m[2] < manifest'.pid
    <3>1. m[2] \in PidsOf(m[1])'
      BY <2>3, FileNames DEF PidsOf
    <3>2. CASE m[1] = s
      BY <1>5, <3>1, <3>2
    <3>3. CASE m[1] # s
      <4>1. m[1] \notin todo /\ m[2] \in PidsOf(m[1])
        BY <1>1, <1>5, <2>3, <3>1, <3>3, FileNames
      <4>2. live[m] # Absent
        BY <4>1, FileNames DEF PidsOf
      <4>3. m[2] < manifest.pid
        BY <1>1, <4>1, <4>2 DEF CInv, PidInv
      <4>. QED  BY <1>5, <2>1, <4>3
    <3>. QED  BY <3>2, <3>3
  <2>. QED  BY <1>1, <1>3, <2>2, <2>3 DEF PidInv, Starting
<1>11. StagedInv' /\ BelowInv' /\ RoomInv' /\ GraphSurvives'
    BY <1>1 DEF StagedInv, BelowInv, RoomInv, GraphSurvives, Starting, Staging, Swapping
<1>12. AboveInv'
    BY <1>1, <1>3 DEF AboveInv, Above, OneEach, NoMarker
<1>. QED  BY <1>5, <1>6, <1>7, <1>8, <1>9, <1>10, <1>11, <1>12 DEF CInv

(* The last seq there is.                                                  *)
LEMMA LastSeqIs ==
    ASSUME live \in Files
    PROVE  LastSeq \in 0 .. MaxSeq /\ \A r \in Records(live) : r \in Record /\ r.seq <= LastSeq
<1>. DEFINE S == {0} \cup {r.seq : r \in Records(live)}
<1>1. \A r \in Records(live) : r \in Record
    BY RecordsOf, FileContents
<1>2. S \in SUBSET (0 .. MaxSeq) /\ S # {} /\ MaxSeq \in Nat
    BY <1>1, BoundsAssumption DEF Record, Seqs
<1>3. Max(S) \in S /\ \A y \in S : y <= Max(S)
  <2>. HIDE DEF S
  <2>. QED  BY <1>2, MaxExists
<1>4. LastSeq = Max(S)
    BY DEF LastSeq
<1>5. \A r \in Records(live) : r.seq \in S
    OBVIOUS
<1>. HIDE DEF S
<1>. QED  BY <1>1, <1>2, <1>3, <1>4, <1>5

(* Without a marker the next open reads the directories as they are.       *)
LEMMA ReadsLive ==
    /\ live \in Files /\ saved.marker = NoMarker =>
          Restart = [k \in Keys |-> Replay(Records(live), k)]
    /\ live' \in Files /\ saved'.marker = NoMarker =>
          Restart' = [k \in Keys |-> Replay(Records(live'), k)]
<1>1. live \in Files /\ saved.marker = NoMarker => Read = live
    BY DEF Read, Finished, NoMarker, Files
<1>2. live' \in Files /\ saved'.marker = NoMarker => Read' = live'
    BY DEF Read, Finished, NoMarker, Files
<1>. QED  BY <1>1, <1>2, RestartOf

(* The graph is hydrated from what the directories hold.                   *)
LEMMA OpenDoneKeeps ==
    ASSUME CInv, OpenDone
    PROVE  CInv' /\ Restart' = Restart
<1>1. /\ phase = "open" /\ todo = {} /\ phase' = "idle" /\ nextSeq' = LastSeq + 1
      /\ saved' = manifest /\ graph' = [k \in Keys |-> Replay(Records(live), k)]
      /\ UNCHANGED <<live, staging, manifest, known, writes, todo, staged, olds>>
    BY DEF OpenDone, disk, work
<1>2. /\ saved.marker = NoMarker /\ manifest.marker = NoMarker /\ staged = {}
      /\ live \in Files /\ manifest \in Manifest
    BY <1>1 DEF CInv, MarkerInv, TypeOK, Staging, Swapping
<1>3. LastSeq \in 0 .. MaxSeq /\ \A r \in Records(live) : r \in Record /\ r.seq <= LastSeq
    BY <1>2, LastSeqIs
<1>4. \A k \in Keys : /\ graph'[k] \in Versions \cup {0}
                      /\ graph'[k] <= writes
  <2>. SUFFICES ASSUME NEW k \in Keys
                PROVE  /\ Replay(Records(live), k) \in Versions \cup {0}
                       /\ Replay(Records(live), k) <= writes
    BY <1>1
  <2>1. Records(live) \in SUBSET Record
    BY <1>3
  <2>2. CASE Replay(Records(live), k) = 0
    BY <2>2 DEF CInv, TypeOK
  <2>3. CASE \E r \in Records(live) : Replay(Records(live), k) = r.ver
    <3>1. PICK r \in Records(live) : Replay(Records(live), k) = r.ver
      BY <2>3
    <3>2. \E n \in FileName : live[n] # Absent /\ r \in live[n]
      BY RecordsOf
    <3>3. r.ver <= writes
      BY <3>2 DEF CInv, VersInv
    <3>. QED  BY <1>3, <3>1, <3>3 DEF Record
  <2>. QED  BY <2>1, <2>2, <2>3, ReplayLast
<1>5. TypeOK'
  <2>1. nextSeq' \in 1 .. MaxSeq + 1
    BY <1>1, <1>3, BoundsAssumption
  <2>2. graph' \in [Keys -> Versions \cup {0}]
    BY <1>1, <1>4
  <2>. QED  BY <1>1, <1>2, <2>1, <2>2 DEF CInv, TypeOK, Phases
<1>6. MarkerInv'
    BY <1>1, <1>2 DEF CInv, MarkerInv, Staging, Swapping, NoMarker
<1>7. SwapInv' /\ RoomInv'
    BY <1>1 DEF SwapInv, RoomInv, Staging, Swapping
<1>8. KnownInv'
    BY <1>1 DEF CInv, KnownInv, Open, PidsOf, Staging
<1>9. PidInv'
    BY <1>1, <1>2 DEF CInv, PidInv, Starting
<1>10. StagedInv' /\ AboveInv'
    BY <1>1, <1>2 DEF StagedInv, AboveInv, Above, OneEach, NoMarker, Staging
<1>11. BelowInv'
  <2>1. ASSUME NEW n \in FileName, live[n] # Absent, NEW r \in live[n] PROVE r.seq < nextSeq'
    <3>1. r \in Records(live)
      BY <2>1, RecordsOf
    <3>2. r.seq <= LastSeq /\ r.seq \in Nat /\ LastSeq \in Nat
      BY <1>3, <3>1 DEF Record, Seqs
    <3>. QED  BY <1>1, <3>2
  <2>. QED  BY <1>1, <1>2, <2>1 DEF BelowInv
<1>12. VersInv'
    BY <1>1, <1>4 DEF CInv, VersInv
<1>13. PartitionsOrdered' /\ Restart' = Restart
    BY <1>1, <1>2, Unmoved DEF CInv
<1>14. GraphSurvives'
    BY <1>1, <1>2, <1>13, ReadsLive DEF GraphSurvives
<1>. QED  BY <1>5, <1>6, <1>7, <1>8, <1>9, <1>10, <1>11, <1>12, <1>13, <1>14 DEF CInv

(* A write puts the newest record in the last partition of its stream, and *)
(* may give the stream an empty partition after it.                        *)
LEMMA WriteKeeps ==
    ASSUME CInv, NEW k \in Keys, NEW v \in Versions \cup {0}, Write(k, v)
    PROVE  CInv' /\ Restart' = [Restart EXCEPT ![k] = v] /\ v # Restart[k]
<1>1. /\ phase = "idle" /\ writes < MaxWrites /\ nextSeq \in Seqs
      /\ v = writes + 1 \/ (v = 0 /\ graph[k] # 0)
      /\ nextSeq' = nextSeq + 1 /\ graph' = [graph EXCEPT ![k] = v] /\ writes' = writes + 1
      /\ UNCHANGED <<staging, phase, todo, staged, olds>>
    BY DEF Write, work
<1>2. /\ saved.marker = NoMarker /\ manifest.marker = NoMarker /\ staged = {}
      /\ \A s \in Streams : known[s] # {} /\ PidsOf(s) = known[s]
      /\ \A n \in FileName : live[n] # Absent \/ staging[n] # Absent => n[2] < manifest.pid
      /\ \A n \in FileName : live[n] # Absent => \A r \in live[n] : r.seq < nextSeq
      /\ graph = Restart
    BY <1>1 DEF CInv, MarkerInv, KnownInv, PidInv, BelowInv, GraphSurvives, Open,
                Staging, Swapping, Starting
<1>3. /\ live \in Files /\ staging \in Files /\ known \in [Streams -> SUBSET Pids]
      /\ manifest \in Manifest /\ saved \in Manifest /\ manifest.pid \in Nat
      /\ graph \in [Keys -> Versions \cup {0}] /\ writes \in Nat /\ nextSeq \in Nat
    BY BoundsAssumption DEF CInv, TypeOK, Manifest
<1>4. PICK s \in Streams : s = Home[k]
    BY KeysAssumption
<1>5. PICK p \in known[s] : p = Active(s) /\ \A q \in known[s] : q <= p
    BY <1>2, <1>3, FirstAndLast DEF Active
<1>6. PICK n \in FileName : n = <<s, p>> /\ n[1] = s /\ n[2] = p
  <2>1. p \in Pids
    BY <1>3, <1>5
  <2>. QED  BY <2>1, FileNames
<1>7. live[n] # Absent /\ live[n] \in SUBSET Record
    BY <1>2, <1>3, <1>5, <1>6, FileContents DEF PidsOf
<1>8. PICK new \in Record : new = [seq |-> nextSeq, key |-> k, ver |-> v]
    BY <1>1 DEF Record
<1>9. live[n] \cup {new} \in SUBSET Record /\ live[n] \cup {new} # Absent
    BY <1>7, FileContents
<1>10. /\ live' \in Files /\ live'[n] = live[n] \cup {new}
       /\ \A m \in FileName : m # n =>
             \/ live'[m] = live[m]
             \/ live[m] = Absent /\ live'[m] = {} /\ m[1] = s /\ m[2] = manifest.pid
       /\ known' \in [Streams -> SUBSET Pids]
       /\ \A u \in Streams : known'[u] # {} /\ known'[u] = PidsOf(u)'
       /\ manifest' \in Manifest /\ manifest'.marker = NoMarker
       /\ saved' \in Manifest /\ saved'.marker = NoMarker
       /\ \A m \in FileName : live'[m] # Absent \/ staging'[m] # Absent => m[2] < manifest'.pid
  <2>1. CASE Cardinality(live[n] \cup {new}) >= RollRecords
    <3>1. /\ Creatable(live, s)
          /\ live' = [live EXCEPT ![<<s, p>>] = live[n] \cup {new}, ![<<s, manifest.pid>>] = {}]
          /\ known' = [known EXCEPT ![s] = @ \cup {manifest.pid}]
          /\ manifest' = [manifest EXCEPT !.pid = @ + 1] /\ saved' = manifest'
      BY <1>4, <1>5, <1>6, <1>8, <2>1 DEF Write
    <3>2. PICK m \in FileName :
              /\ m = <<s, manifest.pid>> /\ m[1] = s /\ m[2] = manifest.pid
              /\ m[2] \in Pids /\ live[m] = Absent
      BY <3>1, FileNames DEF Creatable
    <3>3. live' = [live EXCEPT ![n] = live[n] \cup {new}, ![m] = {}] /\ m # n
      BY <1>6, <1>7, <3>1, <3>2
    <3>4. {} \in SUBSET Record /\ {} # Absent
      BY FileContents
    <3>5. /\ live' \in Files /\ live'[n] = live[n] \cup {new} /\ live'[m] = {}
          /\ \A q \in FileName : q # n /\ q # m => live'[q] = live[q]
      BY <1>3, <1>9, <3>3, <3>4 DEF Files
    <3>6. /\ known' \in [Streams -> SUBSET Pids] /\ known'[s] = known[s] \cup {m[2]}
          /\ \A u \in Streams : u # s => known'[u] = known[u]
      BY <1>3, <3>1, <3>2
    <3>7. ASSUME NEW u \in Streams
          PROVE  PidsOf(u)' = IF u = s THEN PidsOf(u) \cup {m[2]} ELSE PidsOf(u)
      BY <1>6, <1>7, <1>9, <3>2, <3>4, <3>5, FileNames DEF PidsOf
    <3>8. /\ manifest' \in Manifest /\ manifest'.marker = NoMarker
          /\ manifest'.pid = manifest.pid + 1 /\ saved' = manifest'
      BY <1>2, <1>3, <3>1 DEF Manifest
    <3>9. \A q \in FileName : live'[q] # Absent \/ staging'[q] # Absent => q[2] < manifest'.pid
      <4>1. \A q \in FileName : q[2] \in Nat
        BY FileNames DEF Pids
      <4>2. \A q \in FileName : live'[q] # Absent \/ staging'[q] # Absent =>
                live[q] # Absent \/ staging[q] # Absent \/ q = m
        BY <1>1, <1>7, <3>5
      <4>. QED  BY <1>2, <1>3, <3>2, <3>8, <4>1, <4>2
    <3>10. \A u \in Streams : known'[u] # {} /\ known'[u] = PidsOf(u)'
      BY <1>2, <3>6, <3>7
    <3>. QED  BY <3>2, <3>5, <3>6, <3>8, <3>9, <3>10
  <2>2. CASE ~ (Cardinality(live[n] \cup {new}) >= RollRecords)
    <3>1. /\ live' = [live EXCEPT ![n] = live[n] \cup {new}]
          /\ UNCHANGED <<known, manifest, saved>>
      BY <1>4, <1>5, <1>6, <1>8, <2>2 DEF Write
    <3>2. /\ live' \in Files /\ live'[n] = live[n] \cup {new}
          /\ \A q \in FileName : q # n => live'[q] = live[q]
      BY <1>3, <1>9, <3>1 DEF Files
    <3>3. ASSUME NEW u \in Streams PROVE PidsOf(u)' = PidsOf(u)
      BY <1>6, <1>7, <1>9, <3>2, FileNames DEF PidsOf
    <3>4. \A q \in FileName : live'[q] # Absent \/ staging'[q] # Absent =>
              live[q] # Absent \/ staging[q] # Absent
      BY <1>1, <1>7, <3>2
    <3>. QED  BY <1>2, <1>3, <3>1, <3>2, <3>3, <3>4
  <2>. QED  BY <2>1, <2>2
<1>11. \A m \in FileName : live'[m] # Absent => \A r \in live'[m] :
           \/ live[m] # Absent /\ r \in live[m]
           \/ m = n /\ r = new
    BY <1>7, <1>10
<1>12. \A u \in Streams : \A q \in PidsOf(u)' : <<u, q>> \in FileName /\ live'[<<u, q>>] # Absent
    BY FileNames DEF PidsOf
<1>13. TypeOK'
  <2>1. nextSeq' \in 1 .. MaxSeq + 1 /\ writes' \in 0 .. MaxWrites
    BY <1>1, <1>3, BoundsAssumption DEF Seqs
  <2>2. graph' \in [Keys -> Versions \cup {0}]
    BY <1>1, <1>3
  <2>. QED  BY <1>1, <1>3, <1>10, <2>1, <2>2 DEF CInv, TypeOK
<1>14. MarkerInv'
    BY <1>1, <1>2, <1>10 DEF MarkerInv, Staging, Swapping, NoMarker
<1>15. SwapInv' /\ RoomInv' /\ StagedInv'
    BY <1>1 DEF SwapInv, RoomInv, StagedInv, Staging, Swapping
<1>16. KnownInv' /\ PidInv'
    BY <1>1, <1>10 DEF KnownInv, Open, PidInv, Staging
<1>17. AboveInv'
    BY <1>1, <1>2, <1>10 DEF AboveInv, Above, OneEach, NoMarker
<1>18. BelowInv'
  <2>1. \A m \in FileName : live[m] # Absent => \A r \in live[m] : r.seq \in Nat
    BY <1>3, FileContents DEF Record, Seqs
  <2>. QED  BY <1>1, <1>2, <1>3, <1>8, <1>11, <2>1 DEF BelowInv
<1>19. VersInv'
  <2>1. /\ \A m \in FileName : live[m] # Absent => \A r \in live[m] : r.ver \in Nat /\ r.ver <= writes
        /\ \A m \in FileName : staging[m] # Absent =>
              \A r \in staging[m] : r.ver \in Nat /\ r.ver <= writes
        /\ \A j \in Keys : graph[j] \in Nat /\ graph[j] <= writes
    BY <1>3, FileContents DEF CInv, VersInv, Record, Versions
  <2>2. v \in Nat /\ v <= writes + 1
    BY <1>1, <1>3
  <2>3. \A m \in FileName : live'[m] # Absent => \A r \in live'[m] : r.ver <= writes'
    BY <1>1, <1>3, <1>8, <1>11, <2>1, <2>2
  <2>4. \A j \in Keys : graph'[j] <= writes'
    BY <1>1, <1>3, <2>1, <2>2
  <2>5. \A m \in FileName : staging'[m] # Absent => \A r \in staging'[m] : r.ver <= writes'
    BY <1>1, <1>3, <2>1
  <2>. QED  BY <2>3, <2>4, <2>5 DEF VersInv
<1>20. PartitionsOrdered'
  <2>. SUFFICES ASSUME NEW u \in Streams, NEW a \in PidsOf(u)', NEW b \in PidsOf(u)', a < b,
                       NEW r \in live'[<<u, a>>], NEW t \in live'[<<u, b>>]
                PROVE  r.seq < t.seq
    BY DEF PartitionsOrdered
  <2>1. /\ <<u, a>> \in FileName /\ live'[<<u, a>>] # Absent
        /\ <<u, b>> \in FileName /\ live'[<<u, b>>] # Absent
    BY <1>12
  <2>2. CASE /\ r \in live[<<u, a>>] /\ live[<<u, a>>] # Absent
             /\ t \in live[<<u, b>>] /\ live[<<u, b>>] # Absent
    BY <2>1, <2>2, FileNames DEF CInv, PartitionsOrdered, PidsOf
  <2>3. CASE r \in live[<<u, a>>] /\ live[<<u, a>>] # Absent /\ t = new
    BY <1>2, <1>8, <2>1, <2>3
  <2>4. CASE <<u, a>> = n /\ r = new
    <3>1. u = s /\ a = p /\ live[<<u, b>>] = Absent
      <4>1. u = s /\ a = p
        BY <1>6, <2>4
      <4>2. b \notin known[s]
        BY <1>3, <1>5, <4>1 DEF Pids
      <4>3. b \in Pids
        BY DEF PidsOf
      <4>. QED  BY <1>2, <4>1, <4>2, <4>3 DEF PidsOf
    <3>2. <<u, b>> # n
      BY <1>7, <3>1
    <3>. QED  BY <1>11, <2>1, <3>1, <3>2
  <2>. QED  BY <1>11, <2>1, <2>2, <2>3, <2>4
<1>21. /\ graph' = Restart' /\ Restart' = [Restart EXCEPT ![k] = v]
  <2>1. /\ Restart = [j \in Keys |-> Replay(Records(live), j)]
        /\ Restart' = [j \in Keys |-> Replay(Records(live'), j)]
    BY <1>2, <1>3, <1>10, ReadsLive
  <2>2. Records(live) \in SUBSET Record /\ \A r \in Records(live) : r.seq < new.seq
    BY <1>2, <1>3, <1>8, RecordsOf, FileContents
  <2>3. Records(live') = Records(live) \cup {new}
    <3>1. \A r : r \in Records(live') => r \in Records(live) \cup {new}
      BY <1>11, RecordsOf
    <3>2. \A r : r \in Records(live) => r \in Records(live')
      <4>1. \A m \in FileName : live[m] # Absent =>
                live'[m] # Absent /\ \A r \in live[m] : r \in live'[m]
        BY <1>9, <1>10
      <4>. QED  BY <4>1, RecordsOf
    <3>3. new \in Records(live')
      BY <1>9, <1>10, RecordsOf
    <3>. QED  BY <3>1, <3>2, <3>3
  <2>4. /\ Replay(Records(live'), k) = v
        /\ \A j : j # k => Replay(Records(live'), j) = Replay(Records(live), j)
    <3>. DEFINE R == Records(live)
    <3>1. new.key = k /\ new.ver = v
      BY <1>8
    <3>2. R \in SUBSET Record /\ \A r \in R : r.seq < new.seq
      BY <2>2
    <3>. HIDE DEF R
    <3>3. /\ Replay(R \cup {new}, new.key) = new.ver
          /\ \A j : j # new.key => Replay(R \cup {new}, j) = Replay(R, j)
      BY <3>2, ReplayGrows
    <3>4. Records(live') = R \cup {new}
      BY <2>3 DEF R
    <3>. QED  BY <3>1, <3>3, <3>4 DEF R
  <2>5. Restart' = [Restart EXCEPT ![k] = v]
    BY <2>1, <2>4
  <2>. QED  BY <1>1, <1>2, <2>5
<1>22. v # Restart[k]
  <2>1. graph[k] <= writes /\ graph[k] \in Nat
    BY <1>3 DEF CInv, VersInv, Versions
  <2>. QED  BY <1>1, <1>2, <1>3, <2>1
<1>23. GraphSurvives'
    BY <1>21 DEF GraphSurvives
<1>. QED  BY <1>13, <1>14, <1>15, <1>16, <1>17, <1>18, <1>19, <1>20, <1>21, <1>22, <1>23 DEF CInv

(* The live records of a set of streams only change with the graph.        *)
LEMMA LiveSame ==
    ASSUME graph' = graph
    PROVE  \A T : T = todo' => LiveOf(todo)' = LiveOf(T)
    BY DEF LiveOf, Live

(* What a compaction needs, phase by phase, before and after a step.       *)
LEMMA NeededIs ==
    /\ phase = "stage" => Needed = Cardinality(todo) + Cardinality(Streams)
    /\ phase \in {"seal", "mark"} => Needed = Cardinality(Streams)
    /\ phase \in {"move", "fresh"} => Needed = Cardinality(todo)
    /\ phase = "delete" => Needed = Cardinality(todo \ {Min(todo)})
    /\ phase = "clear" => Needed = 0
    /\ phase' = "stage" => Needed' = Cardinality(todo') + Cardinality(Streams)
    /\ phase' \in {"seal", "mark"} => Needed' = Cardinality(Streams)
    /\ phase' \in {"move", "fresh"} => Needed' = Cardinality(todo')
    /\ phase' = "delete" => Needed' = Cardinality(todo' \ {Min(todo')})
    /\ phase' = "clear" => Needed' = 0
    BY DEF Needed

(* While nothing is written and no marker is saved a restart stays as it   *)
(* is, and so does the graph.                                              *)
LEMMA StillReadsLive ==
    ASSUME CInv, live' = live, graph' = graph, saved.marker = NoMarker, saved'.marker = NoMarker
    PROVE  /\ Restart' = Restart
           /\ phase \notin Starting => GraphSurvives'
<1>1. Restart' = Restart
  <2>1. live \in Files
    BY DEF CInv, TypeOK
  <2>. QED  BY <2>1, ReadsLive
<1>2. phase \notin Starting => GraphSurvives'
    BY <1>1 DEF CInv, GraphSurvives, Starting
<1>. QED  BY <1>1, <1>2

(* A compaction starts with the room it needs.                             *)
LEMMA CompactKeeps ==
    ASSUME CInv, Compact
    PROVE  CInv' /\ Restart' = Restart
<1>1. /\ phase = "idle" /\ phase' = "stage" /\ todo' \in SUBSET Streams
      /\ manifest.pid + 2 * Cardinality(Streams) <= MaxPid + 1
      /\ nextSeq + Cardinality(Keys) <= MaxSeq + 1
      /\ staged' = {} /\ olds' = {}
      /\ UNCHANGED <<live, staging, saved, manifest, known, nextSeq, graph, writes>>
    BY DEF Compact, disk
<1>2. saved.marker = NoMarker /\ manifest.marker = NoMarker
    BY <1>1 DEF CInv, MarkerInv, Staging
<1>3. TypeOK'
    BY <1>1 DEF CInv, TypeOK, Phases
<1>4. MarkerInv'
    BY <1>1, <1>2 DEF MarkerInv, Staging, Swapping, NoMarker
<1>5. SwapInv' /\ KnownInv'
    BY <1>1 DEF CInv, SwapInv, KnownInv, Open, PidsOf, Staging, Swapping
<1>6. PidInv' /\ StagedInv' /\ BelowInv'
    BY <1>1 DEF CInv, PidInv, StagedInv, BelowInv, Starting, Staging
<1>7. AboveInv' /\ VersInv' /\ PartitionsOrdered'
    BY <1>1, Unmoved DEF CInv
<1>8. RoomInv'
  <2>1. PICK T \in SUBSET Streams : T = todo'
    BY <1>1
  <2>2. /\ LiveOf(todo)' = LiveOf(T) /\ Needed' = Cardinality(T) + Cardinality(Streams)
    BY <1>1, <2>1, LiveSame, NeededIs
  <2>3. /\ Cardinality(LiveOf(T)) \in Nat /\ Cardinality(LiveOf(T)) <= Cardinality(Keys)
        /\ Cardinality(Keys) \in Nat
    BY LiveCount
  <2>4. /\ Cardinality(T) \in Nat /\ Cardinality(T) <= Cardinality(Streams)
        /\ Cardinality(Streams) \in Nat
    BY StreamCount
  <2>5. nextSeq \in Nat /\ MaxSeq \in Nat /\ manifest.pid \in Nat /\ MaxPid \in Nat
    BY BoundsAssumption DEF CInv, TypeOK, Manifest
  <2>6. nextSeq' + Cardinality(LiveOf(todo)') <= MaxSeq + 1
    BY <1>1, <2>2, <2>3, <2>5
  <2>7. manifest'.pid + Needed' <= MaxPid + 1
    BY <1>1, <2>2, <2>4, <2>5
  <2>. QED  BY <2>6, <2>7 DEF RoomInv
<1>9. GraphSurvives' /\ Restart' = Restart
    BY <1>1, <1>2, StillReadsLive DEF Starting
<1>. QED  BY <1>3, <1>4, <1>5, <1>6, <1>7, <1>8, <1>9 DEF CInv

(* A stream is rewritten under the next id and the next seqs.              *)
LEMMA StageKeeps ==
    ASSUME CInv, Stage
    PROVE  CInv' /\ Restart' = Restart
<1>1. /\ phase = "stage" /\ manifest' = [manifest EXCEPT !.pid = @ + 1]
      /\ UNCHANGED <<live, saved, known, graph, writes, phase, olds>>
    BY DEF Stage
<1>2. PICK s \in todo :
          /\ Creatable(staging, s)
          /\ staging' = [staging EXCEPT ![<<s, manifest.pid>>] = Rewritten(s)]
          /\ staged' = staged \cup {<<s, manifest.pid>>}
          /\ nextSeq' = nextSeq + Cardinality(Live(s))
          /\ todo' = todo \ {s}
    BY DEF Stage
<1>3. /\ saved.marker = NoMarker /\ manifest.marker = NoMarker
      /\ \A n \in FileName : live[n] # Absent \/ staging[n] # Absent => n[2] < manifest.pid
      /\ \A n \in staged : staging[n] # Absent /\ live[n] = Absent /\ n[1] \notin todo
    BY <1>1 DEF CInv, MarkerInv, PidInv, StagedInv, Staging, Starting
<1>4. /\ live \in Files /\ staging \in Files /\ manifest \in Manifest /\ manifest.pid \in Nat
      /\ graph \in [Keys -> Versions \cup {0}] /\ nextSeq \in 1 .. MaxSeq + 1 /\ nextSeq \in Nat
      /\ todo \in SUBSET Streams /\ staged \in SUBSET FileName /\ writes \in Nat /\ MaxSeq \in Nat
      /\ MaxPid \in Nat
    BY BoundsAssumption DEF CInv, TypeOK, Manifest
<1>5. PICK n \in FileName : /\ n = <<s, manifest.pid>> /\ n[1] = s /\ n[2] = manifest.pid
                            /\ staging[n] = Absent
    BY <1>2, <1>4, FileNames DEF Creatable
<1>6. /\ Cardinality(LiveOf(todo)) = Cardinality(Live(s)) + Cardinality(LiveOf(todo \ {s}))
      /\ Cardinality(Live(s)) \in Nat /\ Cardinality(LiveOf(todo \ {s})) \in Nat
      /\ nextSeq + Cardinality(LiveOf(todo)) <= MaxSeq + 1
    BY <1>1, LiveCount DEF CInv, RoomInv
<1>7. /\ Rewritten(s) \in SUBSET Record
      /\ \A r \in Rewritten(s) : /\ nextSeq <= r.seq /\ r.seq < nextSeq'
                                 /\ \E k \in Keys : r.ver = graph[k]
  <2>1. nextSeq + Cardinality(Live(s)) <= MaxSeq + 1
    BY <1>4, <1>6
  <2>. QED  BY <1>2, <1>4, <2>1, RewrittenIs
<1>8. PICK R \in SUBSET Record : R = Rewritten(s)
    BY <1>7
<1>9. /\ staging' \in Files /\ staging'[n] = R /\ R # Absent
      /\ \A m \in FileName : m # n => staging'[m] = staging[m]
      /\ staged' = staged \cup {n} /\ n \notin staged
    BY <1>2, <1>3, <1>4, <1>5, <1>8, FileContents DEF Files
<1>10. /\ manifest' \in Manifest /\ manifest'.marker = NoMarker /\ manifest'.pid = manifest.pid + 1
    BY <1>1, <1>3, <1>4 DEF Manifest
<1>11. live[n] = Absent
    BY <1>3, <1>4, <1>5
<1>12. TypeOK'
  <2>1. nextSeq' \in 1 .. MaxSeq + 1
    BY <1>2, <1>4, <1>6
  <2>. QED  BY <1>1, <1>2, <1>9, <1>10, <2>1 DEF CInv, TypeOK
<1>13. MarkerInv'
    BY <1>1, <1>3, <1>10 DEF MarkerInv, Staging, Swapping, NoMarker
<1>14. SwapInv' /\ KnownInv'
    BY <1>1 DEF CInv, SwapInv, KnownInv, Open, PidsOf, Staging, Swapping
<1>15. PidInv'
  <2>1. \A m \in FileName : m[2] \in Nat
    BY FileNames DEF Pids
  <2>. QED  BY <1>1, <1>3, <1>4, <1>5, <1>9, <1>10, <2>1 DEF PidInv
<1>16. StagedInv'
    BY <1>1, <1>2, <1>3, <1>4, <1>5, <1>9, <1>11 DEF StagedInv
<1>17. BelowInv'
  <2>1. \A m \in FileName : /\ live[m] # Absent => \A r \in live[m] : r.seq \in Nat /\ r.seq < nextSeq
                            /\ m \in staged /\ staging[m] # Absent =>
                                  \A r \in staging[m] : r.seq \in Nat /\ r.seq < nextSeq
    BY <1>1, <1>4, FileContents DEF CInv, BelowInv, Record, Seqs, Starting
  <2>2. nextSeq <= nextSeq' /\ nextSeq' \in Nat
    BY <1>2, <1>4, <1>6
  <2>3. ASSUME NEW m \in FileName PROVE live'[m] # Absent => \A r \in live'[m] : r.seq < nextSeq'
    BY <1>1, <1>4, <2>1, <2>2
  <2>4. ASSUME NEW m \in FileName, m \in staged', staging'[m] # Absent, NEW r \in staging'[m]
        PROVE  r.seq < nextSeq'
    <3>1. CASE m = n
      BY <1>7, <1>8, <1>9, <2>4, <3>1
    <3>2. CASE m # n
      <4>1. m \in staged /\ staging[m] # Absent /\ r \in staging[m]
        BY <1>9, <2>4, <3>2
      <4>. QED  BY <1>4, <2>1, <2>2, <4>1
    <3>. QED  BY <3>1, <3>2
  <2>. QED  BY <2>3, <2>4 DEF BelowInv
<1>18. VersInv'
  <2>1. \A r \in R : r.ver <= writes
    BY <1>7, <1>8 DEF CInv, VersInv
  <2>. QED  BY <1>1, <1>9, <2>1 DEF CInv, VersInv
<1>19. AboveInv'
  <2>1. OneEach(staged)'
    BY <1>2, <1>3, <1>5, <1>9 DEF CInv, AboveInv, OneEach
  <2>2. ASSUME NEW m \in staged', staging'[m] # Absent, NEW q \in PidsOf(m[1])'
        PROVE  q < m[2] /\ \A r \in live'[<<m[1], q>>], t \in staging'[m] : r.seq < t.seq
    <3>1. q \in PidsOf(m[1]) /\ live' = live
      BY <1>1, <2>2 DEF PidsOf
    <3>2. CASE m \in staged
      <4>1. staging'[m] = staging[m]
        BY <1>4, <1>9, <3>2
      <4>. QED  BY <2>2, <3>1, <3>2, <4>1 DEF CInv, AboveInv, Above
    <3>3. CASE m = n
      <4>1. <<m[1], q>> \in FileName /\ live[<<m[1], q>>] # Absent /\ <<m[1], q>>[2] = q
        BY <3>1, <3>3, FileNames DEF PidsOf
      <4>2. q < m[2]
        BY <1>3, <1>5, <3>3, <4>1
      <4>3. ASSUME NEW r \in live'[<<m[1], q>>], NEW t \in staging'[m] PROVE r.seq < t.seq
        <5>1. r.seq \in Nat /\ r.seq < nextSeq
          BY <1>1, <1>4, <3>1, <4>1, <4>3, FileContents DEF CInv, BelowInv, Record, Seqs, Starting
        <5>2. t \in Record /\ nextSeq <= t.seq
          BY <1>7, <1>8, <1>9, <3>3, <4>3
        <5>3. t.seq \in Nat
          BY <5>2 DEF Record, Seqs
        <5>. QED  BY <1>4, <5>1, <5>2, <5>3
      <4>. QED  BY <4>2, <4>3
    <3>. QED  BY <1>9, <2>2, <3>2, <3>3
  <2>3. Above(staged)'
    BY <2>2 DEF Above
  <2>. QED  BY <1>1, <1>3, <2>1, <2>3 DEF AboveInv, Above, OneEach, NoMarker
<1>20. RoomInv'
  <2>1. PICK T \in SUBSET Streams : T = todo \ {s} /\ T = todo'
    BY <1>2, <1>4
  <2>2. LiveOf(todo)' = LiveOf(T) /\ Cardinality(LiveOf(T)) = Cardinality(LiveOf(todo \ {s}))
    BY <1>1, <2>1, LiveSame
  <2>3. nextSeq' + Cardinality(LiveOf(todo)') <= MaxSeq + 1
    BY <1>2, <1>4, <1>6, <2>2
  <2>4. /\ Cardinality(T) = Cardinality(todo) - 1 /\ Cardinality(todo) \in Nat
        /\ Cardinality(Streams) \in Nat
    BY <1>4, <2>1, StreamCount
  <2>5. /\ Needed = Cardinality(todo) + Cardinality(Streams)
        /\ Needed' = Cardinality(T) + Cardinality(Streams)
    BY <1>1, <2>1, NeededIs
  <2>6. manifest.pid + Needed <= MaxPid + 1
    BY <1>1 DEF CInv, RoomInv, Staging
  <2>7. manifest'.pid + Needed' <= MaxPid + 1
    BY <1>4, <1>10, <2>4, <2>5, <2>6
  <2>. QED  BY <2>3, <2>7 DEF RoomInv
<1>21. PartitionsOrdered'
    BY <1>1, Unmoved DEF CInv
<1>22. GraphSurvives' /\ Restart' = Restart
    BY <1>1, <1>3, StillReadsLive DEF Starting
<1>. QED  BY <1>12, <1>13, <1>14, <1>15, <1>16, <1>17, <1>18, <1>19, <1>20, <1>21, <1>22 DEF CInv

(* The ids are saved.                                                      *)
LEMMA SealKeeps ==
    ASSUME CInv, Seal
    PROVE  CInv' /\ Restart' = Restart
<1>1. /\ phase = "stage" /\ todo = {} /\ phase' = "seal" /\ saved' = manifest
      /\ UNCHANGED <<live, staging, manifest, known, nextSeq, graph, writes, todo, staged, olds>>
    BY DEF Seal, disk, work
<1>2. saved.marker = NoMarker /\ manifest.marker = NoMarker
    BY <1>1 DEF CInv, MarkerInv, Staging
<1>3. TypeOK'
    BY <1>1 DEF CInv, TypeOK, Phases
<1>4. MarkerInv'
    BY <1>1, <1>2 DEF MarkerInv, Staging, Swapping, NoMarker
<1>5. SwapInv' /\ KnownInv'
    BY <1>1 DEF CInv, SwapInv, KnownInv, Open, PidsOf, Staging, Swapping
<1>6. PidInv' /\ StagedInv' /\ BelowInv'
    BY <1>1, <1>2 DEF CInv, PidInv, StagedInv, BelowInv, Starting, Staging
<1>7. AboveInv' /\ VersInv' /\ PartitionsOrdered'
    BY <1>1, <1>2, Unmoved DEF CInv, NoMarker
<1>8. RoomInv'
  <2>1. Needed = Cardinality({}) + Cardinality(Streams) /\ Needed' = Cardinality(Streams)
    BY <1>1, NeededIs
  <2>2. Cardinality({}) = 0 /\ Cardinality(Streams) \in Nat
    BY StreamCount
  <2>. QED  BY <1>1, <2>1, <2>2 DEF CInv, RoomInv, Staging
<1>9. GraphSurvives' /\ Restart' = Restart
    BY <1>1, <1>2, StillReadsLive DEF Starting
<1>. QED  BY <1>3, <1>4, <1>5, <1>6, <1>7, <1>8, <1>9 DEF CInv

(* The staged partitions were seen to hold the graph.                      *)
LEMMA VerifyKeeps ==
    ASSUME CInv, Verify
    PROVE  CInv' /\ Restart' = Restart
<1>1. /\ phase = "seal" /\ phase' = "mark" /\ Verified
      /\ UNCHANGED <<live, staging, saved, manifest, known, nextSeq, graph, writes, todo, staged, olds>>
    BY DEF Verify, disk, work
<1>2. saved.marker = NoMarker /\ manifest.marker = NoMarker
    BY <1>1 DEF CInv, MarkerInv, Staging
<1>3. TypeOK'
    BY <1>1 DEF CInv, TypeOK, Phases
<1>4. MarkerInv'
    BY <1>1, <1>2 DEF MarkerInv, Staging, Swapping, NoMarker
<1>5. SwapInv' /\ KnownInv'
    BY <1>1 DEF CInv, SwapInv, KnownInv, Open, PidsOf, Staging, Swapping
<1>6. PidInv' /\ BelowInv'
    BY <1>1, <1>2 DEF CInv, PidInv, BelowInv, Starting
<1>7. StagedInv'
  <2>1. Verified'
    BY <1>1 DEF Verified
  <2>. QED  BY <1>1, <2>1 DEF CInv, StagedInv, Staging
<1>8. AboveInv' /\ VersInv' /\ PartitionsOrdered'
    BY <1>1, Unmoved DEF CInv
<1>9. RoomInv'
    BY <1>1, NeededIs DEF CInv, RoomInv, Staging
<1>10. GraphSurvives' /\ Restart' = Restart
    BY <1>1, <1>2, StillReadsLive DEF Starting
<1>. QED  BY <1>3, <1>4, <1>5, <1>6, <1>7, <1>8, <1>9, <1>10 DEF CInv

(* What was staged is thrown away.                                         *)
LEMMA AbortKeeps ==
    ASSUME CInv, Abort
    PROVE  CInv' /\ Restart' = Restart
<1>1. /\ phase = "seal" /\ phase' = "idle" /\ saved' = manifest /\ staged' = {}
      /\ staging' = [n \in FileName |-> IF n \in staged THEN Absent ELSE staging[n]]
      /\ UNCHANGED <<live, manifest, known, nextSeq, graph, writes, todo, olds>>
    BY DEF Abort
<1>2. /\ saved.marker = NoMarker /\ manifest.marker = NoMarker
      /\ staging \in Files
    BY <1>1 DEF CInv, MarkerInv, TypeOK, Staging
<1>3. staging' \in Files /\ \A n \in FileName : staging'[n] # Absent => staging'[n] = staging[n]
    BY <1>1, <1>2 DEF Files
<1>4. TypeOK'
    BY <1>1, <1>3 DEF CInv, TypeOK, Phases
<1>5. MarkerInv'
    BY <1>1, <1>2 DEF MarkerInv, Staging, Swapping, NoMarker
<1>6. SwapInv' /\ KnownInv' /\ RoomInv'
    BY <1>1 DEF CInv, SwapInv, KnownInv, RoomInv, Open, PidsOf, Staging, Swapping
<1>7. PidInv' /\ StagedInv' /\ BelowInv'
    BY <1>1, <1>2, <1>3 DEF CInv, PidInv, StagedInv, BelowInv, Starting, Staging
<1>8. AboveInv'
    BY <1>1, <1>2 DEF AboveInv, Above, OneEach, NoMarker
<1>9. VersInv' /\ PartitionsOrdered'
    BY <1>1, <1>3 DEF CInv, VersInv, PartitionsOrdered, PidsOf
<1>10. GraphSurvives' /\ Restart' = Restart
    BY <1>1, <1>2, StillReadsLive DEF Starting
<1>. QED  BY <1>4, <1>5, <1>6, <1>7, <1>8, <1>9, <1>10 DEF CInv

(* The commit point: what is read next is what was staged and verified.    *)
LEMMA MarkKeeps ==
    ASSUME CInv, Mark
    PROVE  CInv' /\ Restart' = Restart
<1>1. /\ phase = "mark" /\ phase' = "move" /\ todo' = Streams
      /\ manifest' = [manifest EXCEPT !.marker = NewMarker] /\ saved' = manifest'
      /\ UNCHANGED <<live, staging, known, nextSeq, graph, writes, staged, olds>>
    BY DEF Mark, disk
<1>2. /\ saved.marker = NoMarker
      /\ \A s \in Streams : known[s] # {} /\ PidsOf(s) = known[s]
      /\ \A n \in staged : staging[n] # Absent /\ live[n] = Absent
      /\ \A n \in FileName : live[n] # Absent \/ staging[n] # Absent => n[2] < manifest.pid
      /\ Verified /\ graph = Restart
    BY <1>1 DEF CInv, MarkerInv, KnownInv, StagedInv, PidInv, GraphSurvives, Open, Staging, Starting
<1>3. /\ live \in Files /\ staging \in Files /\ manifest \in Manifest
      /\ staged \in SUBSET FileName /\ known \in [Streams -> SUBSET Pids]
    BY DEF CInv, TypeOK
<1>4. NewMarker.staged = staged /\ NewMarker \in Marker
    BY <1>3 DEF NewMarker, Marker
<1>5. \A n \in FileName : n \in NewMarker.remove <=> live[n] # Absent
    BY <1>2, FileNames DEF NewMarker, PidsOf
<1>6. /\ manifest' \in Manifest /\ saved' = manifest'
      /\ manifest'.pid = manifest.pid /\ manifest'.marker = NewMarker
    BY <1>1, <1>3, <1>4 DEF Manifest
<1>7. TypeOK'
    BY <1>1, <1>6 DEF CInv, TypeOK, Phases
<1>8. MarkerInv'
  <2>1. \A n \in NewMarker.staged : n \notin NewMarker.remove
    BY <1>2, <1>3, <1>4, <1>5
  <2>. QED  BY <1>1, <1>4, <1>6, <2>1 DEF MarkerInv, Staging, Swapping
<1>9. SwapInv'
  <2>1. ASSUME NEW s \in Streams PROVE Waiting(s)'
    <3>1. Old(s)' = known'[s]
      <4>1. Old(s)' = {p \in Pids : <<s, p>> \in NewMarker.remove}
        BY <1>6 DEF Old
      <4>2. \A p \in Pids : <<s, p>> \in NewMarker.remove <=> p \in known[s]
        BY <1>2, <1>5, FileNames DEF PidsOf
      <4>. QED  BY <1>1, <1>3, <4>1, <4>2
    <3>2. \A p \in New(s)' : staging'[<<s, p>>] # Absent
      BY <1>1, <1>2, <1>4, <1>6 DEF New
    <3>3. Open(s)'
      BY <1>1, <1>2 DEF Open, PidsOf
    <3>. QED  BY <3>1, <3>2, <3>3 DEF Waiting
  <2>2. Streams # {}
    BY StreamsAssumption
  <2>. QED  BY <1>1, <2>1, <2>2 DEF SwapInv, SwapAt, Swapping
<1>10. KnownInv' /\ StagedInv'
    BY <1>1 DEF KnownInv, StagedInv, Staging
<1>11. PidInv' /\ BelowInv'
    BY <1>1, <1>2, <1>6 DEF CInv, PidInv, BelowInv, Starting
<1>12. AboveInv' /\ VersInv' /\ PartitionsOrdered'
    BY <1>1, <1>4, <1>6, Unmoved DEF CInv
<1>13. RoomInv'
    BY <1>1, <1>6, NeededIs DEF CInv, RoomInv, Staging, Swapping
<1>14. \A n \in FileName : Read'[n] = IF n \in staged THEN staging[n] ELSE Absent
    BY <1>1, <1>2, <1>3, <1>4, <1>5, <1>6 DEF Read, Finished
<1>15. Records(Read') = UNION {staging[n] : n \in staged}
  <2>1. \A r : r \in Records(Read') <=> \E n \in FileName : Read'[n] # Absent /\ r \in Read'[n]
    BY RecordsOf
  <2>. HIDE DEF Read
  <2>2. \A r : r \in Records(Read') <=> \E n \in staged : r \in staging[n]
    BY <1>2, <1>3, <1>14, <2>1
  <2>. QED  BY <2>2
<1>16. graph = Restart'
  <2>1. Restart' = [k \in Keys |-> Replay(Records(Read'), k)]
    BY RestartOf
  <2>2. \A k \in Keys : Replay(Records(Read'), k) = graph[k]
    BY <1>2, <1>15 DEF Verified
  <2>3. graph \in [Keys -> Versions \cup {0}]
    BY DEF CInv, TypeOK
  <2>. QED  BY <2>1, <2>2, <2>3
<1>17. GraphSurvives' /\ Restart' = Restart
    BY <1>1, <1>2, <1>16 DEF GraphSurvives
<1>. QED  BY <1>7, <1>8, <1>9, <1>10, <1>11, <1>12, <1>13, <1>17 DEF CInv

(* What holds throughout a swap, whose stream is the first of todo.        *)
LEMMA WhileSwapping ==
    ASSUME CInv, phase \in Swapping
    PROVE  /\ manifest.marker = saved.marker /\ staged = saved.marker.staged
           /\ saved.marker.staged \cap saved.marker.remove = {}
           /\ saved.marker.staged \in SUBSET FileName /\ saved.marker.remove \in SUBSET FileName
           /\ \A s \in Streams : SwapAt(s)
           /\ \A n \in FileName : live[n] # Absent \/ staging[n] # Absent => n[2] < manifest.pid
           /\ live \in Files /\ staging \in Files /\ manifest \in Manifest /\ saved \in Manifest
           /\ manifest.pid \in Nat /\ todo \in SUBSET Streams /\ known \in [Streams -> SUBSET Pids]
           /\ phase # "clear" => Min(todo) \in todo /\ Min(todo) \in Streams
           /\ graph = Restart
<1>1. /\ manifest.marker = saved.marker /\ staged = saved.marker.staged
      /\ saved.marker.staged \cap saved.marker.remove = {}
    BY DEF CInv, MarkerInv
<1>2. /\ \A s \in Streams : SwapAt(s)
      /\ phase # "clear" => todo # {}
    BY DEF CInv, SwapInv, Swapping
<1>3. /\ live \in Files /\ staging \in Files /\ manifest \in Manifest /\ saved \in Manifest
      /\ manifest.pid \in Nat /\ todo \in SUBSET Streams /\ known \in [Streams -> SUBSET Pids]
      /\ saved.marker.staged \in SUBSET FileName /\ saved.marker.remove \in SUBSET FileName
    BY DEF CInv, TypeOK, Manifest, Marker
<1>4. phase # "clear" => Min(todo) \in todo /\ Min(todo) \in Streams
    BY <1>2, <1>3, FirstAndLast
<1>5. /\ \A n \in FileName : live[n] # Absent \/ staging[n] # Absent => n[2] < manifest.pid
      /\ graph = Restart
    BY DEF CInv, PidInv, GraphSurvives, Swapping, Starting
<1>. QED  BY <1>1, <1>2, <1>3, <1>4, <1>5

(* The staged partition of a stream is moved in, where it was read before. *)
LEMMA MoveKeeps ==
    ASSUME CInv, Move
    PROVE  CInv' /\ Restart' = Restart
<1>1. /\ phase = "move" /\ phase' = "fresh"
      /\ UNCHANGED <<saved, manifest, known, nextSeq, graph, writes, todo, staged, olds>>
    BY DEF Move, work
<1>2. PICK s \in todo : s = Min(todo) /\ s \in Streams
    BY <1>1, WhileSwapping DEF Swapping
<1>3. PICK N \in SUBSET FileName :
          /\ \A n \in FileName : n \in N <=> n \in saved.marker.staged /\ n[1] = s
          /\ live' = [n \in FileName |-> IF n \in N THEN staging[n] ELSE live[n]]
          /\ staging' = [n \in FileName |-> IF n \in N THEN Absent ELSE staging[n]]
    BY <1>1, <1>2, WhileSwapping DEF Move, StagedOf, Swapping
<1>4. /\ live \in Files /\ staging \in Files /\ todo \in SUBSET Streams
      /\ saved.marker.staged \in SUBSET FileName /\ staged = saved.marker.staged
      /\ saved.marker.staged \cap saved.marker.remove = {}
      /\ \A u \in Streams : SwapAt(u)
      /\ \A n \in FileName : live[n] # Absent \/ staging[n] # Absent => n[2] < manifest.pid
    BY <1>1, WhileSwapping DEF Swapping
<1>5. /\ Waiting(s) /\ \A u \in todo : Waiting(u)
      /\ \A u \in Streams \ todo : Swapped(u)
    BY <1>1, <1>2, <1>4 DEF SwapAt
<1>6. \A n \in N : /\ n \in FileName /\ n[1] = s /\ staging[n] # Absent
                   /\ n \in saved.marker.staged /\ n \notin saved.marker.remove
  <2>. SUFFICES ASSUME NEW n \in N PROVE staging[n] # Absent
    BY <1>3, <1>4
  <2>1. n[2] \in New(s) /\ n = <<s, n[2]>>
    BY <1>3, FileNames DEF New
  <2>. QED  BY <1>5, <2>1 DEF Waiting
<1>7. /\ live' \in Files /\ staging' \in Files
      /\ \A n \in N : live'[n] = staging[n] /\ staging'[n] = Absent
      /\ \A n \in FileName : n \notin N => live'[n] = live[n] /\ staging'[n] = staging[n]
    BY <1>3, <1>4 DEF Files
<1>8. /\ \A u \in Streams : u # s => PidsOf(u)' = PidsOf(u)
      /\ PidsOf(s)' = PidsOf(s) \cup New(s)
  <2>1. \A u \in Streams, p \in Pids : <<u, p>> \in N <=> u = s /\ p \in New(s)
    BY <1>2, <1>3, FileNames DEF New
  <2>2. \A u \in Streams, p \in Pids :
            live'[<<u, p>>] # Absent <=> live[<<u, p>>] # Absent \/ (u = s /\ p \in New(s))
    BY <1>6, <1>7, <2>1, FileNames
  <2>. QED  BY <1>2, <2>2 DEF PidsOf, New
<1>9. \A u \in Streams : Old(u)' = Old(u) /\ New(u)' = New(u)
    BY <1>1 DEF Old, New
<1>10. TypeOK'
    BY <1>1, <1>7 DEF CInv, TypeOK, Phases
<1>11. MarkerInv'
    BY <1>1 DEF CInv, MarkerInv, Staging, Swapping
<1>12. SwapInv'
  <2>1. Moved(s)'
    <3>1. \A p \in New(s) : staging'[<<s, p>>] = Absent
      <4>1. \A p \in New(s) : <<s, p>> \in N
        BY <1>2, <1>3, <1>4, FileNames DEF New
      <4>. QED  BY <1>7, <4>1
    <3>. QED  BY <1>1, <1>2, <1>5, <1>8, <1>9, <3>1 DEF Moved, Waiting, Open
  <2>2. ASSUME NEW u \in Streams, u # s PROVE Open(u)' <=> Open(u)
    BY <1>1, <1>8, <2>2 DEF Open
  <2>3. \A u \in Streams, p \in Pids : u # s => staging'[<<u, p>>] = staging[<<u, p>>]
    BY <1>6, <1>7, FileNames
  <2>4. ASSUME NEW u \in todo, u # s PROVE Waiting(u)'
    BY <1>1, <1>4, <1>5, <1>9, <2>2, <2>3, <2>4 DEF Waiting, New
  <2>5. ASSUME NEW u \in Streams \ todo PROVE Swapped(u)'
    BY <1>1, <1>2, <1>5, <1>9, <2>2, <2>3 DEF Swapped, New
  <2>6. \A u \in Streams : SwapAt(u)'
    BY <1>1, <1>2, <2>1, <2>4, <2>5 DEF SwapAt
  <2>. QED  BY <1>1, <1>2, <2>6 DEF SwapInv
<1>13. KnownInv' /\ StagedInv'
    BY <1>1 DEF KnownInv, StagedInv, Staging
<1>14. PidInv'
    BY <1>1, <1>4, <1>6, <1>7 DEF CInv, PidInv
<1>15. BelowInv'
    BY <1>1, <1>4, <1>6, <1>7 DEF CInv, BelowInv, Starting
<1>16. VersInv'
    BY <1>1, <1>6, <1>7 DEF CInv, VersInv
<1>17. AboveInv'
  <2>1. ASSUME NEW m \in staged, staging'[m] # Absent, NEW q \in PidsOf(m[1])'
        PROVE  q < m[2] /\ \A r \in live'[<<m[1], q>>], t \in staging'[m] : r.seq < t.seq
    <3>1. m \in FileName /\ m \notin N /\ m[1] # s /\ m[1] \in Streams
      BY <1>3, <1>4, <1>7, <2>1, FileNames
    <3>2. q \in PidsOf(m[1]) /\ <<m[1], q>> \in FileName /\ <<m[1], q>> \notin N
      BY <1>6, <1>8, <2>1, <3>1, FileNames DEF PidsOf
    <3>3. live'[<<m[1], q>>] = live[<<m[1], q>>] /\ staging'[m] = staging[m]
      BY <1>7, <3>1, <3>2
    <3>. QED  BY <2>1, <3>2, <3>3 DEF CInv, AboveInv, Above
  <2>. QED  BY <1>1, <1>4, <2>1 DEF CInv, AboveInv, Above, OneEach
<1>18. PartitionsOrdered'
  <2>. SUFFICES ASSUME NEW u \in Streams, NEW p \in PidsOf(u)', NEW q \in PidsOf(u)', p < q,
                       NEW r \in live'[<<u, p>>], NEW t \in live'[<<u, q>>]
                PROVE  r.seq < t.seq
    BY DEF PartitionsOrdered
  <2>1. /\ p \in Pids /\ q \in Pids /\ <<u, p>> \in FileName /\ <<u, q>> \in FileName
        /\ p # q /\ p \in Nat /\ q \in Nat /\ <<u, p>> # <<u, q>>
    BY FileNames, BoundsAssumption DEF PidsOf, Pids
  <2>2. CASE <<u, p>> \notin N /\ <<u, q>> \notin N
    BY <1>7, <2>1, <2>2 DEF CInv, PartitionsOrdered, PidsOf
  <2>3. CASE <<u, q>> \in N
    <3>1. <<u, p>> \notin N
      BY <1>6, <2>1, <2>3 DEF CInv, AboveInv, OneEach
    <3>2. /\ live'[<<u, p>>] = live[<<u, p>>] /\ p \in PidsOf(u)
          /\ live'[<<u, q>>] = staging[<<u, q>>]
      BY <1>7, <2>1, <2>3, <3>1 DEF PidsOf
    <3>. QED  BY <1>6, <2>3, <3>2 DEF CInv, AboveInv, Above
  <2>4. CASE <<u, p>> \in N /\ <<u, q>> \notin N
    <3>1. q \in PidsOf(u)
      BY <1>7, <2>1, <2>4 DEF PidsOf
    <3>2. q < p
      BY <1>6, <2>4, <3>1 DEF CInv, AboveInv, Above
    <3>. QED  BY <2>1, <3>2
  <2>. QED  BY <2>2, <2>3, <2>4
<1>19. Restart' = Restart
  <2>1. \A n \in FileName : Alike(Read[n], Read'[n])
    BY <1>1, <1>6, <1>7 DEF Read, Finished, Alike
  <2>. QED  BY <2>1, RestartSame
<1>20. GraphSurvives'
    BY <1>1, <1>19 DEF CInv, GraphSurvives
<1>21. RoomInv'
    BY <1>1, NeededIs DEF CInv, RoomInv, Swapping
<1>. QED  BY <1>10, <1>11, <1>12, <1>13, <1>14, <1>15, <1>16, <1>17, <1>18, <1>19, <1>20, <1>21
          DEF CInv

(* The stream gets an empty partition for what is written next, and is     *)
(* from then on that one and the rewritten one.                            *)
LEMMA FreshActiveKeeps ==
    ASSUME CInv, FreshActive
    PROVE  CInv' /\ Restart' = Restart
<1>1. /\ phase = "fresh" /\ phase' = "delete"
      /\ manifest' = [manifest EXCEPT !.pid = @ + 1]
      /\ UNCHANGED <<staging, saved, nextSeq, graph, writes, todo, staged>>
    BY DEF FreshActive
<1>2. PICK s \in todo : s = Min(todo) /\ s \in Streams
    BY <1>1, WhileSwapping DEF Swapping
<1>3. /\ Creatable(live, s) /\ live' = [live EXCEPT ![<<s, manifest.pid>>] = {}]
      /\ known' = [known EXCEPT ![s] = {q[2] : q \in StagedOf(s)} \cup {manifest.pid}]
      /\ olds' = known[s]
    BY <1>2 DEF FreshActive
<1>4. /\ manifest.marker = saved.marker /\ staged = saved.marker.staged
      /\ saved.marker.staged \cap saved.marker.remove = {}
      /\ saved.marker.staged \in SUBSET FileName
      /\ \A u \in Streams : SwapAt(u)
      /\ \A m \in FileName : live[m] # Absent \/ staging[m] # Absent => m[2] < manifest.pid
      /\ live \in Files /\ staging \in Files /\ manifest \in Manifest /\ manifest.pid \in Nat
      /\ todo \in SUBSET Streams /\ known \in [Streams -> SUBSET Pids] /\ graph = Restart
    BY <1>1, WhileSwapping DEF Swapping
<1>5. /\ Moved(s) /\ \A u \in todo : u # s => Waiting(u)
      /\ \A u \in Streams \ todo : Swapped(u)
    BY <1>1, <1>2, <1>4 DEF SwapAt
<1>6. PICK n \in FileName : /\ n = <<s, manifest.pid>> /\ n[1] = s /\ n[2] = manifest.pid
                            /\ n[2] \in Pids /\ live[n] = Absent
    BY <1>2, <1>3, FileNames DEF Creatable
<1>7. live' = [live EXCEPT ![n] = {}]
    BY <1>3, <1>6
<1>8. /\ live' \in Files /\ live'[n] = {}
      /\ \A m \in FileName : m # n => live'[m] = live[m]
      /\ \A u \in Streams : u # s => PidsOf(u)' = PidsOf(u)
      /\ PidsOf(s)' = PidsOf(s) \cup {manifest.pid}
      /\ VersInv' /\ PartitionsOrdered' /\ Restart' = Restart
    BY <1>1, <1>6, <1>7, FreshFile
<1>9. {q[2] : q \in StagedOf(s)} = New(s)
  <2>1. \A q \in StagedOf(s) : q[2] \in New(s)
    BY <1>4, FileNames DEF StagedOf, New
  <2>2. \A p \in New(s) : <<s, p>> \in StagedOf(s) /\ <<s, p>>[2] = p
    BY <1>4 DEF StagedOf, New
  <2>. QED  BY <2>1, <2>2
<1>10. /\ known' \in [Streams -> SUBSET Pids] /\ known'[s] = New(s) \cup {manifest.pid}
       /\ \A u \in Streams : u # s => known'[u] = known[u]
       /\ olds' = Old(s)
    BY <1>2, <1>3, <1>4, <1>5, <1>6, <1>9 DEF New, Moved
<1>11. \A u \in Streams : Old(u)' = Old(u) /\ New(u)' = New(u)
    BY <1>1 DEF Old, New
<1>12. /\ manifest' \in Manifest /\ manifest'.marker = manifest.marker
       /\ manifest'.pid = manifest.pid + 1
    BY <1>1, <1>4 DEF Manifest
<1>13. TypeOK'
    BY <1>1, <1>8, <1>10, <1>12 DEF CInv, TypeOK, Phases, Old
<1>14. MarkerInv'
    BY <1>1, <1>4, <1>12 DEF MarkerInv, Staging, Swapping
<1>15. SwapInv'
  <2>1. Cleaning(s)'
    <3>1. New(s) \cap Old(s) = {}
      BY <1>4 DEF New, Old
    <3>2. manifest.pid \notin Old(s)
      <4>1. manifest.pid \notin PidsOf(s)
        BY <1>6 DEF PidsOf
      <4>. QED  BY <1>5, <4>1 DEF Moved
    <3>3. /\ known'[s] # {} /\ known'[s] \cap Old(s) = {}
          /\ PidsOf(s)' = known'[s] \cup olds' /\ olds' # {} /\ olds' \subseteq Old(s)
      BY <1>5, <1>8, <1>10, <3>1, <3>2 DEF Moved
    <3>. QED  BY <1>1, <1>2, <1>5, <1>11, <3>3 DEF Cleaning, Moved
  <2>2. ASSUME NEW u \in Streams, u # s PROVE Open(u)' <=> Open(u)
    BY <1>8, <1>10, <2>2 DEF Open
  <2>3. ASSUME NEW u \in todo, u # s PROVE Waiting(u)'
    BY <1>1, <1>4, <1>5, <1>10, <1>11, <2>2, <2>3 DEF Waiting
  <2>4. ASSUME NEW u \in Streams \ todo PROVE Swapped(u)'
    BY <1>1, <1>2, <1>5, <1>10, <1>11, <2>2 DEF Swapped
  <2>5. \A u \in Streams : SwapAt(u)'
    BY <1>1, <1>2, <2>1, <2>3, <2>4 DEF SwapAt
  <2>. QED  BY <1>1, <1>2, <2>5 DEF SwapInv
<1>16. KnownInv' /\ StagedInv'
    BY <1>1 DEF KnownInv, StagedInv, Staging
<1>17. PidInv'
  <2>1. \A m \in FileName : m[2] \in Nat
    BY FileNames DEF Pids
  <2>2. \A m \in FileName : live'[m] # Absent \/ staging'[m] # Absent => m[2] < manifest'.pid
    BY <1>1, <1>4, <1>6, <1>8, <1>12, <2>1
  <2>. QED  BY <1>1, <2>2 DEF CInv, PidInv
<1>18. BelowInv'
    BY <1>1, <1>8 DEF CInv, BelowInv, Starting
<1>19. AboveInv'
  <2>1. ASSUME NEW m \in staged, staging[m] # Absent, NEW q \in PidsOf(m[1])'
        PROVE  q < m[2] /\ \A r \in live'[<<m[1], q>>], t \in staging[m] : r.seq < t.seq
    <3>1. m \in FileName /\ m = <<m[1], m[2]>> /\ m[1] \in Streams /\ m[2] \in Pids
      BY <1>4, FileNames
    <3>2. m[1] # s
      BY <1>4, <1>5, <2>1, <3>1 DEF Moved, New
    <3>3. q \in PidsOf(m[1]) /\ <<m[1], q>> \in FileName /\ <<m[1], q>> # n
      BY <1>6, <1>8, <2>1, <3>1, <3>2, FileNames DEF PidsOf
    <3>4. live'[<<m[1], q>>] = live[<<m[1], q>>]
      BY <1>8, <3>3
    <3>. QED  BY <2>1, <3>3, <3>4 DEF CInv, AboveInv, Above
  <2>. QED  BY <1>1, <1>4, <2>1 DEF CInv, AboveInv, Above, OneEach
<1>20. RoomInv'
  <2>1. PICK T \in SUBSET Streams : T = todo
    BY <1>4
  <2>2. Needed = Cardinality(T) /\ Needed' = Cardinality(T \ {s})
    BY <1>1, <1>2, <2>1, NeededIs
  <2>3. Cardinality(T \ {s}) = Cardinality(T) - 1 /\ Cardinality(T) \in Nat
    BY <1>2, <2>1, StreamCount
  <2>4. manifest.pid + Needed <= MaxPid + 1 /\ MaxPid \in Nat
    BY <1>1, BoundsAssumption DEF CInv, RoomInv, Swapping
  <2>. QED  BY <1>1, <1>4, <1>12, <2>2, <2>3, <2>4 DEF RoomInv
<1>21. GraphSurvives'
    BY <1>1, <1>4, <1>8 DEF GraphSurvives
<1>. QED  BY <1>8, <1>13, <1>14, <1>15, <1>16, <1>17, <1>18, <1>19, <1>20, <1>21 DEF CInv

(* One of the old files goes; the last one ends the swap of its stream.    *)
LEMMA DeleteKeeps ==
    ASSUME CInv, Delete
    PROVE  CInv' /\ Restart' = Restart
<1>1. /\ phase = "delete" /\ phase' \in {"delete", "clear", "move"}
      /\ UNCHANGED <<staging, saved, manifest, known, nextSeq, graph, writes, staged>>
    BY DEF Delete
<1>2. PICK s \in todo : s = Min(todo) /\ s \in Streams
    BY <1>1, WhileSwapping DEF Swapping
<1>3. /\ saved.marker.staged \in SUBSET FileName /\ staged = saved.marker.staged
      /\ manifest.marker = saved.marker /\ saved.marker.staged \cap saved.marker.remove = {}
      /\ \A u \in Streams : SwapAt(u)
      /\ \A m \in FileName : live[m] # Absent \/ staging[m] # Absent => m[2] < manifest.pid
      /\ live \in Files /\ manifest.pid \in Nat
      /\ todo \in SUBSET Streams /\ known \in [Streams -> SUBSET Pids] /\ graph = Restart
    BY <1>1, WhileSwapping DEF Swapping
<1>4. /\ Cleaning(s) /\ \A u \in todo : u # s => Waiting(u)
      /\ \A u \in Streams \ todo : Swapped(u)
    BY <1>1, <1>2, <1>3 DEF SwapAt
<1>5. PICK c \in olds : c = Min(olds) /\ c \in Pids /\ c \in Old(s)
  <2>1. olds \in SUBSET Pids /\ olds # {} /\ olds \subseteq Old(s)
    BY <1>4 DEF CInv, TypeOK, Cleaning
  <2>. QED  BY <2>1, FirstAndLast
<1>6. PICK left \in SUBSET olds : left = olds \ {c}
    OBVIOUS
<1>7. PICK n \in FileName : n = <<s, c>> /\ n \in saved.marker.remove
    BY <1>2, <1>5, FileNames DEF Old
<1>8. /\ live' = [live EXCEPT ![n] = Absent] /\ olds' = left
      /\ todo' = IF left = {} THEN todo \ {s} ELSE todo
      /\ phase' = IF left # {} THEN "delete" ELSE IF todo \ {s} = {} THEN "clear" ELSE "move"
    BY <1>2, <1>5, <1>6, <1>7 DEF Delete, Condemned, Rest
<1>9. /\ live' \in Files /\ live'[n] = Absent
      /\ \A m \in FileName : m # n => live'[m] = live[m]
      /\ \A u \in Streams : PidsOf(u)' = {p \in PidsOf(u) : <<u, p>> # n}
      /\ AboveInv' /\ VersInv' /\ PartitionsOrdered' /\ Restart' = Restart
    BY <1>1, <1>7, <1>8, FewerFiles
<1>10. /\ \A u \in Streams : u # s => PidsOf(u)' = PidsOf(u)
       /\ PidsOf(s)' = known[s] \cup left
  <2>1. \A u \in Streams : u # s => PidsOf(u)' = PidsOf(u)
    BY <1>7, <1>9
  <2>2. PidsOf(s)' = PidsOf(s) \ {c}
    BY <1>2, <1>7, <1>9
  <2>3. c \notin known[s]
    BY <1>4, <1>5 DEF Cleaning
  <2>. QED  BY <1>4, <1>6, <2>1, <2>2, <2>3 DEF Cleaning
<1>11. \A u \in Streams : Old(u)' = Old(u) /\ New(u)' = New(u)
    BY <1>1 DEF Old, New
<1>12. TypeOK'
    BY <1>1, <1>6, <1>8, <1>9 DEF CInv, TypeOK, Phases
<1>13. MarkerInv'
    BY <1>1, <1>3, <1>8 DEF MarkerInv, Staging, Swapping
<1>14. SwapInv'
  <2>1. ASSUME NEW u \in Streams, u # s PROVE Open(u)' <=> Open(u)
    BY <1>1, <1>10, <2>1 DEF Open
  <2>2. ASSUME NEW u \in todo, u # s PROVE Waiting(u)'
    BY <1>1, <1>3, <1>4, <1>11, <2>1, <2>2 DEF Waiting
  <2>3. ASSUME NEW u \in Streams \ todo PROVE Swapped(u)'
    BY <1>1, <1>2, <1>4, <1>11, <2>1 DEF Swapped
  <2>4. CASE left # {}
    <3>1. Cleaning(s)'
      BY <1>1, <1>2, <1>4, <1>6, <1>8, <1>10, <1>11, <2>4 DEF Cleaning
    <3>2. todo' = todo /\ phase' = "delete"
      BY <1>8, <2>4
    <3>3. \A u \in Streams : SwapAt(u)'
      BY <1>2, <2>2, <2>3, <3>1, <3>2 DEF SwapAt
    <3>. QED  BY <1>2, <3>2, <3>3 DEF SwapInv
  <2>5. CASE left = {}
    <3>1. Swapped(s)'
      BY <1>1, <1>2, <1>4, <1>10, <1>11, <2>5 DEF Swapped, Cleaning, Open
    <3>2. todo' = todo \ {s} /\ phase' = IF todo \ {s} = {} THEN "clear" ELSE "move"
      BY <1>8, <2>5
    <3>3. \A u \in Streams : SwapAt(u)'
      BY <1>2, <2>2, <2>3, <3>1, <3>2 DEF SwapAt
    <3>. QED  BY <3>2, <3>3 DEF SwapInv
  <2>. QED  BY <2>4, <2>5
<1>15. KnownInv' /\ StagedInv'
    BY <1>1 DEF KnownInv, StagedInv, Staging
<1>16. \A m \in FileName : live'[m] # Absent => live[m] # Absent /\ live'[m] = live[m]
    BY <1>9
<1>17. PidInv' /\ BelowInv'
  <2>1. PidInv'
    BY <1>1, <1>3, <1>16 DEF CInv, PidInv
  <2>2. BelowInv'
    BY <1>1, <1>16 DEF CInv, BelowInv, Starting
  <2>. QED  BY <2>1, <2>2
<1>18. RoomInv'
  <2>1. PICK T \in SUBSET Streams : T = todo
    BY <1>3
  <2>2. /\ Needed = Cardinality(T \ {s})
        /\ manifest.pid + Needed <= MaxPid + 1 /\ MaxPid \in Nat
        /\ Cardinality(T \ {s}) \in Nat
    BY <1>1, <1>2, <2>1, NeededIs, StreamCount, BoundsAssumption DEF CInv, RoomInv, Swapping
  <2>3. CASE left # {}
    <3>1. phase' = "delete" /\ todo' = T
      BY <1>8, <2>1, <2>3
    <3>2. Needed' = Cardinality(T \ {s})
      BY <1>2, <2>1, <3>1, NeededIs
    <3>. QED  BY <1>1, <2>2, <3>1, <3>2 DEF RoomInv
  <2>4. CASE left = {}
    <3>1. phase' \in {"clear", "move"} /\ todo' = T \ {s}
      BY <1>8, <2>1, <2>4
    <3>2. Needed' \in {0, Cardinality(T \ {s})}
      BY <3>1, NeededIs
    <3>. QED  BY <1>1, <1>3, <2>2, <3>1, <3>2 DEF RoomInv
  <2>. QED  BY <2>3, <2>4
<1>19. GraphSurvives'
    BY <1>1, <1>3, <1>9 DEF GraphSurvives
<1>. QED  BY <1>9, <1>12, <1>13, <1>14, <1>15, <1>17, <1>18, <1>19 DEF CInv

(* When all the streams were swapped the marker says nothing more.         *)
LEMMA ClearKeeps ==
    ASSUME CInv, Clear
    PROVE  CInv' /\ Restart' = Restart
<1>1. /\ phase = "clear" /\ phase' = "idle" /\ staged' = {}
      /\ manifest' = [manifest EXCEPT !.marker = NoMarker] /\ saved' = manifest'
      /\ UNCHANGED <<live, staging, known, nextSeq, graph, writes, todo, olds>>
    BY DEF Clear, disk
<1>2. /\ todo = {} /\ \A u \in Streams : SwapAt(u)
      /\ \A m \in FileName : live[m] # Absent \/ staging[m] # Absent => m[2] < manifest.pid
      /\ live \in Files /\ manifest \in Manifest /\ graph = Restart
    BY <1>1, WhileSwapping DEF CInv, SwapInv, Swapping
<1>3. \A u \in Streams : Swapped(u)
    BY <1>2 DEF SwapAt
<1>4. /\ manifest' \in Manifest /\ manifest'.marker = NoMarker /\ manifest'.pid = manifest.pid
      /\ saved' = manifest'
    BY <1>1, <1>2 DEF Manifest, Marker, NoMarker
<1>5. TypeOK'
    BY <1>1, <1>4 DEF CInv, TypeOK, Phases
<1>6. MarkerInv'
    BY <1>1, <1>4 DEF MarkerInv, Staging, Swapping, NoMarker
<1>7. SwapInv' /\ RoomInv' /\ StagedInv'
    BY <1>1 DEF SwapInv, RoomInv, StagedInv, Staging, Swapping
<1>8. KnownInv'
    BY <1>1, <1>3 DEF KnownInv, Swapped, Open, PidsOf
<1>9. PidInv' /\ BelowInv'
    BY <1>1, <1>2, <1>4 DEF CInv, PidInv, BelowInv, Starting
<1>10. AboveInv'
    BY <1>1, <1>4 DEF AboveInv, Above, OneEach, NoMarker
<1>11. VersInv' /\ PartitionsOrdered'
    BY <1>1, Unmoved DEF CInv
<1>12. Restart' = Restart
  <2>1. ASSUME NEW m \in FileName
        PROVE  /\ m \in saved.marker.staged => staging[m] = Absent
               /\ m \in saved.marker.remove => live[m] = Absent
    <3>1. m = <<m[1], m[2]>> /\ m[1] \in Streams /\ m[2] \in Pids
      BY FileNames
    <3>2. Swapped(m[1])
      BY <1>3, <3>1
    <3>. QED  BY <3>1, <3>2 DEF Swapped, Open, PidsOf, Old, New
  <2>2. \A m \in FileName : Read[m] = live[m]
    BY <2>1 DEF Read, Finished
  <2>3. \A m \in FileName : Read'[m] = live[m]
    BY <1>1, <1>4 DEF Read, Finished, NoMarker
  <2>4. \A m \in FileName : Alike(Read[m], Read'[m])
    BY <2>2, <2>3 DEF Alike
  <2>. QED  BY <2>4, RestartSame
<1>13. GraphSurvives'
    BY <1>1, <1>2, <1>12 DEF GraphSurvives
<1>. QED  BY <1>5, <1>6, <1>7, <1>8, <1>9, <1>10, <1>11, <1>12, <1>13 DEF CInv

(* An error before the commit point leaves the store as it was, but for    *)
(* what lies in the staging areas and the ids it took.                     *)
LEMMA FailsKeeps ==
    ASSUME CInv, Fails, EarlyFailures
    PROVE  CInv' /\ Restart' = Restart
<1>1. /\ phase \in {"stage", "seal"} /\ phase' = "idle"
      /\ todo' = {} /\ staged' = {} /\ olds' = {}
      /\ UNCHANGED <<live, staging, saved, known, nextSeq, graph, writes>>
    BY DEF Fails, EarlyFailures, disk
<1>2. /\ saved.marker = NoMarker /\ manifest.marker = NoMarker
      /\ \A m \in FileName : live[m] # Absent \/ staging[m] # Absent => m[2] < manifest.pid
      /\ manifest \in Manifest /\ manifest.pid \in Nat
    BY <1>1 DEF CInv, MarkerInv, PidInv, TypeOK, Manifest, Staging, Starting
<1>3. /\ manifest' \in Manifest /\ manifest'.marker = NoMarker
      /\ manifest'.pid \in {manifest.pid, manifest.pid + 1}
  <2>1. manifest' = manifest \/ manifest' = [manifest EXCEPT !.pid = @ + 1]
    BY <1>1 DEF Fails
  <2>. QED  BY <1>2, <2>1 DEF Manifest
<1>4. TypeOK'
    BY <1>1, <1>3 DEF CInv, TypeOK, Phases
<1>5. MarkerInv'
    BY <1>1, <1>2, <1>3 DEF MarkerInv, Staging, Swapping, NoMarker
<1>6. SwapInv' /\ RoomInv' /\ StagedInv'
    BY <1>1 DEF SwapInv, RoomInv, StagedInv, Staging, Swapping
<1>7. KnownInv'
    BY <1>1 DEF CInv, KnownInv, Open, PidsOf, Staging
<1>8. PidInv'
  <2>1. \A m \in FileName : m[2] \in Nat
    BY FileNames DEF Pids
  <2>. QED  BY <1>1, <1>2, <1>3, <2>1 DEF PidInv
<1>9. BelowInv' /\ AboveInv'
    BY <1>1, <1>2 DEF CInv, BelowInv, AboveInv, Above, OneEach, NoMarker, Starting
<1>10. VersInv' /\ PartitionsOrdered'
    BY <1>1, Unmoved DEF CInv
<1>11. GraphSurvives' /\ Restart' = Restart
    BY <1>1, <1>2, StillReadsLive DEF Starting
<1>. QED  BY <1>4, <1>5, <1>6, <1>7, <1>8, <1>9, <1>10, <1>11 DEF CInv

---------------------------------------------------------------------------
(* The store is empty at first.                                            *)
LEMMA AtFirst == Init => CInv /\ Restart = [k \in Keys |-> 0]
<1>. SUFFICES ASSUME Init PROVE CInv /\ Restart = [k \in Keys |-> 0]
    OBVIOUS
<1>1. /\ live = NoFiles /\ staging = NoFiles /\ saved = [pid |-> 1, marker |-> NoMarker]
      /\ manifest = saved /\ known = Closed /\ nextSeq = 1 /\ graph = [k \in Keys |-> 0]
      /\ writes = 0 /\ phase = "down" /\ todo = {} /\ staged = {} /\ olds = {}
    BY DEF Init
<1>2. live \in Files /\ \A n \in FileName : live[n] = Absent /\ staging[n] = Absent
    BY <1>1, FileContents DEF NoFiles
<1>3. saved \in Manifest /\ saved.marker = NoMarker
    BY <1>1 DEF Manifest, Marker, NoMarker
<1>4. TypeOK
    BY <1>1, <1>2, <1>3, BoundsAssumption DEF TypeOK, Phases, Closed
<1>5. MarkerInv /\ SwapInv /\ KnownInv
    BY <1>1, <1>3 DEF MarkerInv, SwapInv, KnownInv, NoMarker, Staging, Swapping
<1>6. PidInv /\ StagedInv /\ BelowInv /\ RoomInv /\ GraphSurvives
    BY <1>1, <1>3 DEF PidInv, StagedInv, BelowInv, RoomInv, GraphSurvives, Starting, Staging, Swapping
<1>7. AboveInv
    BY <1>1, <1>3 DEF AboveInv, Above, OneEach, NoMarker
<1>8. VersInv /\ PartitionsOrdered
    BY <1>1, <1>2, FileNames DEF VersInv, PartitionsOrdered, PidsOf
<1>9. Restart = [k \in Keys |-> 0]
  <2>1. Restart = [k \in Keys |-> Replay(Records(live), k)]
    BY <1>2, <1>3, ReadsLive
  <2>2. Records(live) = {}
    BY <1>2, RecordsOf
  <2>3. \A k \in Keys : Replay({}, k) = 0
    BY ReplayLast
  <2>. QED  BY <2>1, <2>2, <2>3
<1>. QED  BY <1>4, <1>5, <1>6, <1>7, <1>8, <1>9 DEF CInv

(* A step keeps the invariant, and what a restart reads unless it writes.  *)
LEMMA NextKeeps ==
    ASSUME EarlyFailures, CInv, Next
    PROVE  /\ CInv'
           /\ \/ Restart' = Restart
              \/ \E k \in Keys, v \in Versions \cup {0} :
                    v # Restart[k] /\ Restart' = [Restart EXCEPT ![k] = v]
<1>1. CASE LoadManifest
    BY <1>1, LoadManifestKeeps, Unmoved DEF LoadManifest, disk
<1>2. CASE \E k \in Keys, v \in Versions \cup {0} : Write(k, v)
    BY <1>2, WriteKeeps
<1>3. CASE Compact
    BY <1>3, CompactKeeps
<1>4. CASE FinishMove \/ FinishRemove \/ FinishClear \/ OpenStream \/ OpenDone
    BY <1>4, FinishMoveKeeps, FinishRemoveKeeps, FinishClearKeeps, OpenStreamKeeps, OpenDoneKeeps
<1>5. CASE Stage \/ Seal \/ Verify \/ Abort \/ Mark
    BY <1>5, StageKeeps, SealKeeps, VerifyKeeps, AbortKeeps, MarkKeeps
<1>6. CASE Move \/ FreshActive \/ Delete \/ Clear
    BY <1>6, MoveKeeps, FreshActiveKeeps, DeleteKeeps, ClearKeeps
<1>7. CASE Fails
    BY <1>7, FailsKeeps
<1>8. CASE Crash
    BY <1>8, CrashKeeps, Unmoved DEF Crash, disk
<1>. QED  BY <1>1, <1>2, <1>3, <1>4, <1>5, <1>6, <1>7, <1>8 DEF Next, Step

(* CInv is an invariant.                                                   *)
LEMMA CInvHolds == ASSUME EarlyFailures PROVE Spec => []CInv
<1>1. CInv /\ [Next]_vars => CInv'
  <2>1. CASE Next
    BY <2>1, NextKeeps
  <2>2. ASSUME CInv, UNCHANGED vars PROVE CInv'
    <3>. USE <2>2 DEF vars
    <3>1. TypeOK'
      BY DEF CInv, TypeOK
    <3>2. MarkerInv' /\ KnownInv' /\ PidInv' /\ BelowInv'
      BY DEF CInv, MarkerInv, KnownInv, Open, PidsOf, PidInv, BelowInv
    <3>3. SwapInv'
      BY DEF CInv, SwapInv, SwapAt, Waiting, Moved, Cleaning, Swapped, Open, Old, New, PidsOf
    <3>4. StagedInv' /\ RoomInv'
      BY DEF CInv, StagedInv, Verified, RoomInv, Needed, LiveOf, Live
    <3>5. AboveInv' /\ VersInv' /\ PartitionsOrdered'
      BY Unmoved DEF CInv
    <3>6. GraphSurvives'
      BY Unmoved DEF CInv, GraphSurvives
    <3>. QED  BY <3>1, <3>2, <3>3, <3>4, <3>5, <3>6 DEF CInv
  <2>. QED  BY <2>1, <2>2
<1>. QED  BY <1>1, AtFirst, PTL DEF Spec

(* The variables of a compaction keep their types.                         *)
THEOREM TypesHold == ASSUME EarlyFailures PROVE Spec => []TypeOK
<1>1. CInv => TypeOK
    BY DEF CInv
<1>. QED  BY <1>1, CInvHolds, PTL

(* In every state of a compaction that errors only strike before its       *)
(* commit point, and of the writes around it, the next open would hydrate  *)
(* the graph the store shows.                                              *)
THEOREM GraphAlwaysSurvives == ASSUME EarlyFailures PROVE Spec => []GraphSurvives
<1>1. CInv => GraphSurvives
    BY DEF CInv
<1>. QED  BY <1>1, CInvHolds, PTL

(* The partitions of a stream stay in seq order through rolls and swaps,   *)
(* with the rewritten partition among the ones it replaces.                *)
THEOREM PartitionsStayOrdered == ASSUME EarlyFailures PROVE Spec => []PartitionsOrdered
<1>1. CInv => PartitionsOrdered
    BY DEF CInv
<1>. QED  BY <1>1, CInvHolds, PTL

(* No file is in the way of the next one that is created.                  *)
THEOREM PidStaysFree == ASSUME EarlyFailures PROVE Spec => []PidFree
<1>1. CInv => PidFree
  <2>. SUFFICES ASSUME CInv, phase \in {"stage", "fresh"}, NEW s \in todo
                PROVE  live[<<s, manifest.pid>>] = Absent /\ staging[<<s, manifest.pid>>] = Absent
    BY DEF PidFree
  <2>1. /\ manifest.pid \in Nat /\ manifest.pid >= 1 /\ MaxPid \in Nat
        /\ todo \in SUBSET Streams /\ s \in Streams
    BY BoundsAssumption DEF CInv, TypeOK, Manifest
  <2>2. /\ Cardinality(todo) \in Nat /\ Cardinality(todo) >= 1 /\ Cardinality(Streams) \in Nat
    BY <2>1, StreamCount
  <2>3. Needed >= 1 /\ Needed \in Nat
    BY <2>2, NeededIs
  <2>4. manifest.pid + Needed <= MaxPid + 1
    BY DEF CInv, RoomInv, Staging, Swapping
  <2>5. manifest.pid \in Pids
    BY <2>1, <2>3, <2>4 DEF Pids
  <2>6. PICK n \in FileName : n = <<s, manifest.pid>> /\ n[2] = manifest.pid
    BY <2>1, <2>5, FileNames
  <2>7. live[n] # Absent \/ staging[n] # Absent => n[2] < manifest.pid
    BY DEF CInv, PidInv, Starting
  <2>. QED  BY <2>1, <2>6, <2>7
<1>. QED  BY <1>1, CInvHolds, PTL

(* A compaction or an open that ran to its end left nothing behind but     *)
(* what an earlier compaction had staged under ids that are spent.         *)
THEOREM NothingStaysBehind == ASSUME EarlyFailures PROVE Spec => NothingLeft
<1>. DEFINE Tidy == phase' = "idle" /\ ~Fails =>
                        /\ \A s \in Streams : PidsOf(s)' = known'[s]
                        /\ \A n \in FileName :
                              staging'[n] # Absent => n \notin staged /\ n[2] < manifest'.pid
                        /\ saved'.marker = NoMarker
<1>1. CInv /\ CInv' /\ [Next]_vars => [Tidy]_vars
  <2>. SUFFICES ASSUME CInv, CInv', Next, phase' = "idle", ~Fails PROVE Tidy
    OBVIOUS
  <2>1. /\ \A s \in Streams : PidsOf(s)' = known'[s]
        /\ \A n \in FileName : staging'[n] # Absent => n[2] < manifest'.pid
        /\ saved'.marker = NoMarker
    BY DEF CInv, KnownInv, Open, PidInv, MarkerInv, Starting
  <2>2. ASSUME NEW n \in staged, n \in FileName PROVE staging'[n] = Absent
    <3>1. staged # {}
      BY <2>2
    <3>2. phase \notin {"down", "finish", "open", "idle"}
      BY <3>1 DEF CInv, MarkerInv, Staging, Swapping
    <3>3. Abort \/ Clear
      <4>1. ~LoadManifest /\ ~Compact /\ ~Crash /\ \A k \in Keys, v \in Versions \cup {0} : ~Write(k, v)
        BY <3>2 DEF LoadManifest, Compact, Crash, Write
      <4>2. ~FinishMove /\ ~FinishRemove /\ ~FinishClear /\ ~OpenStream /\ ~OpenDone
        BY <3>2 DEF FinishMove, FinishRemove, FinishClear, OpenStream, OpenDone
      <4>3. ~Stage /\ ~Seal /\ ~Verify /\ ~Mark /\ ~Move /\ ~FreshActive /\ ~Delete
        BY DEF Stage, Seal, Verify, Mark, Move, FreshActive, Delete
      <4>. QED  BY <4>1, <4>2, <4>3 DEF Next, Step
    <3>4. CASE Abort
      BY <2>2, <3>4 DEF Abort
    <3>5. CASE Clear
      <4>1. phase = "clear" /\ staging' = staging
        BY <3>5 DEF Clear, disk
      <4>2. n = <<n[1], n[2]>> /\ n[1] \in Streams /\ n[2] \in Pids
        BY <2>2, FileNames
      <4>3. staged = saved.marker.staged /\ SwapAt(n[1]) /\ todo = {}
        BY <4>1, <4>2, WhileSwapping DEF CInv, SwapInv, Swapping
      <4>4. Swapped(n[1]) /\ n[2] \in New(n[1])
        BY <2>2, <4>2, <4>3 DEF SwapAt, New
      <4>5. staging[n] = Absent
        BY <4>2, <4>4 DEF Swapped
      <4>. QED  BY <4>1, <4>5
    <3>. QED  BY <3>3, <3>4, <3>5
  <2>. QED  BY <2>1, <2>2
<1>. QED  BY <1>1, CInvHolds, PTL DEF Spec, NothingLeft

(* The compacted store is the table its callers see: a write changes one   *)
(* row, and no step of a compaction, no crash between two of them and no   *)
(* finishing of an interrupted one changes any.                            *)
THEOREM CompactionKeepsTable == ASSUME EarlyFailures PROVE Spec => KeepsTable
<1>1. Init => Table!Init
    BY AtFirst DEF Table!Init
<1>2. CInv /\ [Next]_vars => [Table!Next]_Restart
  <2>1. ASSUME CInv, Next PROVE [Table!Next]_Restart
    BY <2>1, NextKeeps DEF Table!Next, Table!Write
  <2>2. ASSUME UNCHANGED vars PROVE Restart' = Restart
    BY <2>2, Unmoved DEF vars
  <2>. QED  BY <2>1, <2>2
<1>. QED  BY <1>1, <1>2, CInvHolds, PTL DEF Spec, KeepsTable, Table!Spec

=============================================================================
