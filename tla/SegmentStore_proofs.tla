------------------------ MODULE SegmentStore_proofs ------------------------
(***************************************************************************)
(* Theorems about the write path of the segment store, for every number of *)
(* streams, entities, records and partitions.  The argument is one         *)
(* inductive invariant: the type invariant, what keeps the types (seqs and *)
(* index counts in range), and the chain that makes an acknowledgement     *)
(* safe -- a record of the batch in progress is still in the plan, or in   *)
(* the active partition of a stream whose commit is ahead, or durable.     *)
(***************************************************************************)
EXTENDS SegmentStore, SequenceTheorems, Extremes, TLAPS

(* A record of the batch is on the disk; or only written.                  *)
Durable(r) ==
    \E d \in DurableRecords(Home[r.key]) : d.key = r.key /\ d.ver = r.ver
InActive(r) ==
    LET f == files[Home[r.key]][active[Home[r.key]]]
    IN  \E i \in DOMAIN f.data : f.data[i].key = r.key /\ f.data[i].ver = r.ver

Writing == {"append", "sync", "roll", "stamp", "harden", "save"}
Rolling == {"roll", "stamp", "harden"}

(* The streams of the batch that write_planned has still to commit.        *)
CommitAhead(s) ==
    \E i \in DOMAIN touched : touched[i] = s /\ (phase \in Rolling => i > 1)

(* A file is whole: what is synced is flushed, what is flushed is written, *)
(* and its seqs are at most v.  It evolves when it stays whole and keeps   *)
(* what was synced.                                                        *)
Whole(f, v) ==
    /\ f \in Partition
    /\ f.synced <= f.flushed
    /\ f.flushed <= Len(f.data)
    /\ \A i \in 1 .. Len(f.data) : f.data[i].seq <= v

Kept(f, g) ==
    /\ f.synced <= g.synced
    /\ \A i \in 1 .. f.synced : g.data[i] = f.data[i]

Evolves(f, g, v) ==
    /\ f # Absent => g # Absent /\ Kept(f, g)
    /\ g # Absent => Whole(g, v)

(* Every file is whole; at most `version' seqs were handed out.            *)
FilesInv ==
    \A s \in Streams, p \in Pids : files[s][p] # Absent => Whole(files[s][p], version)

(* An open stream has its active partition, and no index runs past data.   *)
OpenInv ==
    \A s \in Streams : active[s] # 0 =>
        /\ files[s][active[s]] # Absent
        /\ \A p \in Pids : files[s][p] # Absent => files[s][p].idx <= Len(files[s][p].data)

(* The seqs the batch in progress will take stay below the bound too, and  *)
(* there is always a stream to resume next_seq from.                       *)
SeqInv ==
    /\ nextSeq + Len(batch) <= version + 1
    /\ Meta \in saved.ns /\ Meta \in manifest.ns

(* What the phases of a call have in hand.                                 *)
PhaseInv ==
    /\ phase \in {"down", "open"} => batch = <<>>
    /\ phase \in {"down", "open", "idle", "plan", "save"} => touched = <<>>
    /\ phase \in Writing =>
          /\ \A i \in DOMAIN batch : active[Home[batch[i].key]] # 0
          /\ \A i \in DOMAIN touched : active[touched[i]] # 0
    /\ \A i, j \in DOMAIN touched : touched[i] = touched[j] => i = j
    /\ phase \in {"sync", "roll", "stamp", "harden"} => touched # <<>>
    /\ phase \in {"stamp", "harden"} =>
          sealing # 0 /\ files[Head(touched)][sealing] # Absent

(* No record of the batch in progress is lost on its way to the disk.      *)
InflightInv ==
    /\ phase = "plan" => \A r \in inflight : \E i \in DOMAIN batch : batch[i] = r
    /\ phase \in Writing => \A r \in inflight :
          \/ Durable(r)
          \/ phase = "append" /\ \E i \in DOMAIN batch : batch[i] = r
          \/ CommitAhead(Home[r.key]) /\ InActive(r)

IInv ==
    /\ TypeOK /\ FilesInv /\ OpenInv /\ SeqInv /\ PhaseInv
    /\ InflightInv /\ AckedOnDisk

---------------------------------------------------------------------------
(* What the helpers of the model return.                                   *)

(* The operations on a partition keep it one, and keep its records.        *)
LEMMA PartitionOps ==
    ASSUME NEW f \in Partition
    PROVE  /\ Fresh \in Partition /\ Fresh # Absent
           /\ f # Absent
           /\ Committed(f) \in Partition /\ Committed(f).data = f.data
           /\ Recovered(f) \in Partition /\ Recovered(f).data = f.data
           /\ Sealed(f) \in Partition /\ Sealed(f).data = f.data
<1>1. /\ f.data \in Seq(Record) /\ Len(f.data) \in Nat
      /\ f.flushed \in Nat /\ f.synced \in Nat /\ f.torn \in BOOLEAN
      /\ f.idx \in Nat /\ f.stamp \in Nat /\ f.hard \in BOOLEAN
    BY DEF Partition
<1>2. f # Absent
    BY AbsentAssumption
<1>3. Fresh \in Partition
    BY DEF Fresh, Partition
<1>4. Fresh # Absent
    BY <1>3, AbsentAssumption
<1>5. Committed(f) \in Partition /\ Committed(f).data = f.data
    BY <1>1 DEF Partition, Committed
<1>6. Recovered(f) \in Partition /\ Recovered(f).data = f.data
  <2>1. /\ (IF f.torn THEN Len(f.data) ELSE f.synced) \in Nat
        /\ (f.hard \/ f.idx # Len(f.data)) \in BOOLEAN
    BY <1>1
  <2>. QED  BY <1>1, <2>1 DEF Partition, Recovered
<1>7. Sealed(f) \in Partition /\ Sealed(f).data = f.data
    BY <1>1 DEF Partition, Sealed
<1>. QED  BY <1>2, <1>3, <1>4, <1>5, <1>6, <1>7

(* The last partition of a directory that is not empty.                    *)
LEMMA PresentMax ==
    ASSUME NEW s \in Streams, Present(s) # {}
    PROVE  /\ Max(Present(s)) \in Pids
           /\ files[s][Max(Present(s))] # Absent
           /\ \A p \in Pids : files[s][p] # Absent => p <= Max(Present(s))
<1>1. Present(s) \in SUBSET (0 .. MaxPid) /\ MaxPid \in Nat
    BY BoundsAssumption DEF Present, Pids
<1>2. Max(Present(s)) \in Present(s) /\ \A p \in Present(s) : p <= Max(Present(s))
    BY <1>1, MaxExists
<1>. QED  BY <1>2 DEF Present

(* The id after an open is a natural, never 0.                             *)
LEMMA NextPidType ==
    ASSUME TypeOK, NEW s \in Streams, Present(s) # {}
    PROVE  NextPid(s) \in Nat \ {0}
<1>1. manifest.pid \in Nat \ {0} /\ Max(Present(s)) + 1 \in Nat \ {0}
    BY PresentMax, BoundsAssumption DEF TypeOK, Manifest, Pids
<1>. QED  BY <1>1, MaxOfTwo DEF NextPid

(* A stream that is opened is a directory of partitions.                   *)
LEMMA OpenedType ==
    ASSUME TypeOK, NEW s \in Streams
    PROVE  Opened(s) \in [Pids -> Partition \cup {Absent}]
<1>1. \A p \in Pids : files[s][p] \in Partition \cup {Absent}
    BY DEF TypeOK
<1>. QED  BY <1>1, PartitionOps DEF Opened, Present

(* A stream holds records, some of them durable.                           *)
LEMMA RecordsType ==
    ASSUME TypeOK, FilesInv, NEW s \in Streams
    PROVE  StreamRecords(s) \in SUBSET Record /\ DurableRecords(s) \in SUBSET StreamRecords(s)
<1>1. \A p \in Present(s) : /\ files[s][p].data \in Seq(Record)
                            /\ files[s][p].synced \in 0 .. Len(files[s][p].data)
  <2>. SUFFICES ASSUME NEW p \in Present(s)
                PROVE  /\ files[s][p].data \in Seq(Record)
                       /\ files[s][p].synced \in 0 .. Len(files[s][p].data)
    OBVIOUS
  <2>1. Whole(files[s][p], version)
    BY DEF FilesInv, Present
  <2>. QED  BY <2>1 DEF Whole, Partition
<1>2. \A p \in Present(s) : \A i \in 1 .. Len(files[s][p].data) : files[s][p].data[i] \in Record
    BY <1>1, ElementOfSeq
<1>3. \A p \in Present(s) : \A i \in 1 .. files[s][p].synced : i \in 1 .. Len(files[s][p].data)
    BY <1>1
<1>. QED  BY <1>2, <1>3 DEF StreamRecords, DurableRecords

(* A replay shows a version, or none.                                      *)
LEMMA ReplayType ==
    ASSUME NEW R \in SUBSET Record, NEW k \in Keys
    PROVE  Replay(R, k) \in Versions \cup {0}
<1>. DEFINE about == {r \in R : r.key = k}
<1>1. CASE about = {}
    BY <1>1 DEF Replay
<1>2. CASE about # {}
  <2>. DEFINE S == {r.seq : r \in about}
  <2>1. S \in SUBSET (0 .. MaxVersion) /\ S # {} /\ MaxVersion \in Nat
    BY <1>2, BoundsAssumption DEF Record, Versions
  <2>2. Max(S) \in S /\ \A y \in S : y <= Max(S)
    BY <2>1, MaxExists
  <2>3. \E r \in about : \A q \in about : q.seq <= r.seq
    BY <2>2
  <2>4. (CHOOSE r \in about : \A q \in about : q.seq <= r.seq) \in about
    BY <2>3
  <2>. QED  BY <1>2, <2>4 DEF Replay, Record
<1>. QED  BY <1>1, <1>2

---------------------------------------------------------------------------
(* What every step does to every file.                                     *)

(* The fields of a whole file.                                             *)
LEMMA WholeFields ==
    ASSUME NEW v, NEW f, Whole(f, v)
    PROVE  /\ f.data \in Seq(Record) /\ Len(f.data) \in Nat
           /\ f.flushed \in Nat /\ f.synced \in Nat /\ f.torn \in BOOLEAN
           /\ f.idx \in Nat /\ f.stamp \in Nat /\ f.hard \in BOOLEAN
           /\ f.synced <= f.flushed /\ f.flushed <= Len(f.data)
    BY DEF Whole, Partition

(* A file that is left alone evolves.                                      *)
LEMMA EvolveSame ==
    ASSUME NEW v \in Nat, NEW w \in Nat, v <= w, NEW f, f # Absent => Whole(f, v)
    PROVE  Evolves(f, f, w)
<1>1. CASE f = Absent
    BY <1>1 DEF Evolves
<1>2. CASE f # Absent
  <2>1. Whole(f, v)
    BY <1>2
  <2>2. \A i \in 1 .. Len(f.data) : f.data[i].seq \in Nat
    <3>1. \A i \in 1 .. Len(f.data) : f.data[i] \in Record
      BY <2>1, WholeFields, ElementOfSeq
    <3>. QED  BY <3>1 DEF Record, Versions
  <2>3. \A i \in 1 .. Len(f.data) : f.data[i].seq <= w
    BY <2>1, <2>2 DEF Whole
  <2>4. Whole(f, w)
    BY <2>1, <2>3 DEF Whole
  <2>5. Kept(f, f)
    BY <2>1, WholeFields DEF Kept
  <2>. QED  BY <1>2, <2>4, <2>5 DEF Evolves
<1>. QED  BY <1>1, <1>2

(* A file that is created evolves from nothing.                            *)
LEMMA EvolveFresh ==
    ASSUME NEW v \in Nat
    PROVE  Evolves(Absent, Fresh, v)
<1>1. Len(<<>>) = 0 /\ Fresh \in Partition
    BY PartitionOps, EmptySeq DEF Fresh, Partition
<1>. QED  BY <1>1 DEF Evolves, Fresh, Whole

(* A file evolves when its records stay and no sync is undone.             *)
LEMMA EvolveSameData ==
    ASSUME NEW v \in Nat, NEW f, Whole(f, v), NEW g \in Partition, g.data = f.data,
           f.synced <= g.synced, g.synced <= g.flushed, g.flushed <= Len(f.data)
    PROVE  Evolves(f, g, v)
<1>1. Whole(g, v)
    BY DEF Whole
<1>2. Kept(f, g)
    BY DEF Kept
<1>3. g # Absent
    BY AbsentAssumption
<1>. QED  BY <1>1, <1>2, <1>3 DEF Evolves

(* Commit, seal, recovery and stamp are such changes.                      *)
LEMMA EvolveInPlace ==
    ASSUME NEW v \in Nat, NEW f, Whole(f, v)
    PROVE  /\ Evolves(f, Committed(f), v)
           /\ Evolves(f, Sealed(f), v)
           /\ Evolves(f, Recovered(f), v)
           /\ Evolves(f, Stamped(f), v)
<1>1. f \in Partition
    BY DEF Whole
<1>2. /\ f.data \in Seq(Record) /\ Len(f.data) \in Nat
      /\ f.flushed \in Nat /\ f.synced \in Nat /\ f.idx \in Nat
      /\ f.synced <= f.flushed /\ f.flushed <= Len(f.data)
    BY WholeFields
<1>3. f.synced <= Len(f.data)
    BY <1>2
<1>4. Evolves(f, Committed(f), v)
  <2>1. /\ Committed(f) \in Partition /\ Committed(f).data = f.data
        /\ Committed(f).synced = Len(f.data) /\ Committed(f).flushed = Len(f.data)
    BY <1>1, PartitionOps DEF Committed, Partition
  <2>. QED  BY <1>2, <1>3, <2>1, EvolveSameData
<1>5. Evolves(f, Sealed(f), v)
  <2>1. /\ Sealed(f) \in Partition /\ Sealed(f).data = f.data
        /\ Sealed(f).synced = Len(f.data) /\ Sealed(f).flushed = Len(f.data)
    BY <1>1, PartitionOps DEF Sealed
  <2>. QED  BY <1>2, <1>3, <2>1, EvolveSameData
<1>6. Evolves(f, Recovered(f), v)
  <2>1. Recovered(f) \in Partition /\ Recovered(f).data = f.data
    BY <1>1, PartitionOps
  <2>2. /\ Recovered(f).flushed = Len(f.data)
        /\ Recovered(f).synced = IF f.torn THEN Len(f.data) ELSE f.synced
    BY <1>1, Zenon DEF Recovered, Partition
  <2>. QED  BY <1>2, <1>3, <2>1, <2>2, EvolveSameData
<1>7. Evolves(f, Stamped(f), v)
  <2>1. /\ Stamped(f) \in Partition /\ Stamped(f).data = f.data
        /\ Stamped(f).synced = f.synced /\ Stamped(f).flushed = f.flushed
    BY <1>1, <1>2 DEF Partition, Stamped
  <2>. QED  BY <1>2, <2>1, EvolveSameData
<1>. QED  BY <1>4, <1>5, <1>6, <1>7

(* An append evolves the file: the record goes after all others.           *)
LEMMA EvolveAppend ==
    ASSUME NEW v \in Nat, NEW f, Whole(f, v), NEW rec \in Record, rec.seq <= v
    PROVE  /\ Evolves(f, Appended(f, rec), v)
           /\ Appended(f, rec).data = Append(f.data, rec)
<1>. DEFINE g == Appended(f, rec)
<1>1. f \in Partition
    BY DEF Whole
<1>2. /\ f.data \in Seq(Record) /\ Len(f.data) \in Nat
      /\ f.flushed \in Nat /\ f.synced \in Nat
      /\ f.synced <= f.flushed /\ f.flushed <= Len(f.data)
    BY WholeFields
<1>3. /\ Append(f.data, rec) \in Seq(Record)
      /\ Len(Append(f.data, rec)) = Len(f.data) + 1
      /\ \A i \in 1 .. Len(f.data) : Append(f.data, rec)[i] = f.data[i]
      /\ Append(f.data, rec)[Len(f.data) + 1] = rec
    BY <1>2
<1>4. /\ g \in Partition /\ g.data = Append(f.data, rec)
      /\ g.synced = f.synced /\ g.flushed = f.flushed
    BY <1>1, <1>3 DEF Partition, Appended
<1>. HIDE DEF g
<1>5. \A i \in 1 .. Len(g.data) : g.data[i].seq <= v
  <2>. SUFFICES ASSUME NEW i \in 1 .. Len(g.data) PROVE g.data[i].seq <= v
    OBVIOUS
  <2>1. CASE i \in 1 .. Len(f.data)
    BY <2>1, <1>3, <1>4 DEF Whole
  <2>2. CASE i = Len(f.data) + 1
    BY <2>2, <1>3, <1>4
  <2>. QED  BY <2>1, <2>2, <1>2, <1>3, <1>4
<1>6. Whole(g, v)
    BY <1>2, <1>3, <1>4, <1>5 DEF Whole
<1>7. Kept(f, g)
    BY <1>2, <1>3, <1>4 DEF Kept
<1>8. Evolves(f, g, v)
    BY <1>4, <1>6, <1>7, AbsentAssumption DEF Evolves
<1>. QED  BY <1>4, <1>8 DEF g

(* A kill and a power cut keep what was synced.                            *)
LEMMA EvolveCrash ==
    ASSUME NEW v \in Nat, NEW f, Whole(f, v), NEW keep \in Nat, NEW torn \in BOOLEAN,
           NEW power \in BOOLEAN, NEW indexed \in BOOLEAN, NEW stamped \in BOOLEAN
    PROVE  Evolves(f, Image(f, Left(f, keep, power), torn, power, indexed, stamped), v)
<1>. DEFINE n == Left(f, keep, power)
            g == Image(f, n, torn, power, indexed, stamped)
<1>1. /\ f.data \in Seq(Record) /\ Len(f.data) \in Nat
      /\ f.flushed \in Nat /\ f.synced \in Nat /\ f.torn \in BOOLEAN
      /\ f.idx \in Nat /\ f.stamp \in Nat /\ f.hard \in BOOLEAN
      /\ f.synced <= f.flushed /\ f.flushed <= Len(f.data)
    BY WholeFields
<1>2. /\ n \in Nat /\ f.synced <= n /\ n <= Len(f.data)
  <2>. DEFINE sure == Sure(f, power)
  <2>1. sure \in Nat /\ f.synced <= sure /\ sure <= Len(f.data)
    BY <1>1 DEF Sure
  <2>2. n = IF sure + keep < Len(f.data) THEN sure + keep ELSE Len(f.data)
    BY DEF Left
  <2>. HIDE DEF sure, n
  <2>3. CASE sure + keep < Len(f.data)
    BY <1>1, <2>1, <2>2, <2>3
  <2>4. CASE ~ (sure + keep < Len(f.data))
    BY <1>1, <2>1, <2>2, <2>4
  <2>. QED  BY <2>3, <2>4
<1>. HIDE DEF n
<1>3. \A i \in 1 .. n : f.data[i] \in Record
    BY <1>1, <1>2, ElementOfSeq
<1>4. /\ SubSeq(f.data, 1, n) \in Seq(Record)
      /\ Len(SubSeq(f.data, 1, n)) = n
      /\ \A i \in 1 .. n : SubSeq(f.data, 1, n)[i] = f.data[i]
    BY <1>2, <1>3, SubSeqProperties
<1>5. /\ g.data = SubSeq(f.data, 1, n) /\ g.flushed = n
      /\ g.synced = IF power THEN n ELSE f.synced
    BY DEF Image
<1>6. g \in Partition
  <2>1. /\ (IF power THEN n ELSE f.synced) \in Nat
        /\ (f.torn \/ (torn /\ n < Len(f.data))) \in BOOLEAN
        /\ (IF power /\ ~f.hard /\ ~indexed THEN 0 ELSE f.idx) \in Nat
        /\ (IF power /\ ~f.hard /\ ~stamped THEN 0 ELSE f.stamp) \in Nat
        /\ (power \/ f.hard) \in BOOLEAN
    BY <1>1, <1>2
  <2>. QED  BY <1>2, <1>4, <2>1 DEF Image, Partition
<1>. HIDE DEF g
<1>7. Whole(g, v)
  <2>1. g.synced <= g.flushed /\ g.flushed <= Len(g.data)
    BY <1>1, <1>2, <1>4, <1>5
  <2>2. \A i \in 1 .. Len(g.data) : g.data[i].seq <= v
    BY <1>1, <1>2, <1>4, <1>5 DEF Whole
  <2>. QED  BY <1>6, <2>1, <2>2 DEF Whole
<1>8. Kept(f, g)
  <2>1. f.synced <= g.synced
    BY <1>1, <1>2, <1>5
  <2>2. \A i \in 1 .. f.synced : g.data[i] = f.data[i]
    BY <1>1, <1>2, <1>4, <1>5
  <2>. QED  BY <2>1, <2>2 DEF Kept
<1>9. Evolves(f, g, v)
    BY <1>6, <1>7, <1>8, AbsentAssumption DEF Evolves
<1>. QED  BY <1>9 DEF g, n

FilesType == files \in [Streams -> [Pids -> Partition \cup {Absent}]]

FilesEvolve == \A s \in Streams, p \in Pids : Evolves(files[s][p], files'[s][p], version')

(* A new file is a partition.                                              *)
LEMMA FreshIsPartition == Fresh \in Partition
    BY EmptySeq DEF Fresh, Partition

(* What a file evolves into is a partition.                                *)
LEMMA EvolvedIsPartition ==
    ASSUME NEW v, NEW f, NEW g, Evolves(f, g, v)
    PROVE  g \in Partition \cup {Absent} /\ (f # Absent => g \in Partition)
    BY DEF Evolves, Whole

(* A batch is a short sequence of entities, not empty.                     *)
LEMMA BatchLength ==
    ASSUME NEW b \in Batches
    PROVE  /\ Len(b) \in Nat \ {0} /\ DOMAIN b = 1 .. Len(b)
           /\ \A i \in 1 .. Len(b) : b[i] \in Keys
<1>1. PICK n \in 1 .. MaxBatch : b \in [1 .. n -> Keys]
    BY DEF Batches
<1>2. n \in Nat \ {0}
    BY BoundsAssumption
<1>3. b \in Seq(Keys) /\ Len(b) = n
    BY <1>1, <1>2
<1>. QED  BY <1>1, <1>2, <1>3

(* A kill or a power cut is a Crash with some choices of what is left.     *)
LEMMA CrashChoice ==
    ASSUME Killed \/ PowerCut
    PROVE  \E power \in BOOLEAN, keep \in [Streams -> Nat], torn \in BOOLEAN,
              indexed \in BOOLEAN, stamped \in BOOLEAN :
              Crash(power, keep, torn, indexed, stamped)
<1>1. \A power \in BOOLEAN : {0} \cup AtStake(power) \subseteq Nat
    BY DEF AtStake, Versions
<1>2. CASE Killed
  <2>1. PICK keep \in [Streams -> {0} \cup AtStake(FALSE)], torn \in {FALSE, AtStake(FALSE) # {}} :
             Crash(FALSE, keep, torn, TRUE, TRUE)
    BY <1>2 DEF Killed
  <2>2. keep \in [Streams -> Nat] /\ torn \in BOOLEAN
    BY <1>1
  <2>. QED  BY <2>1, <2>2
<1>3. CASE PowerCut
  <2>1. PICK keep \in [Streams -> {0} \cup AtStake(TRUE)], torn \in {FALSE, AtStake(TRUE) # {}},
             indexed \in BOOLEAN, stamped \in BOOLEAN :
             Crash(TRUE, keep, torn, indexed, stamped)
    BY <1>3 DEF PowerCut
  <2>2. keep \in [Streams -> Nat] /\ torn \in BOOLEAN
    BY <1>1
  <2>. QED  BY <2>1, <2>2
<1>. QED  BY <1>2, <1>3

(* Files that do not change evolve.                                        *)
LEMMA UnchangedFiles ==
    ASSUME TypeOK, FilesInv, files' = files, version' \in Nat, version <= version'
    PROVE  FilesType' /\ FilesEvolve
<1>1. version \in Nat
    BY DEF TypeOK
<1>2. \A s \in Streams, p \in Pids : Evolves(files[s][p], files[s][p], version')
    BY <1>1, EvolveSame DEF FilesInv
<1>. QED  BY <1>2 DEF TypeOK, FilesType, FilesEvolve

(* One file that evolves, all others left alone.                           *)
LEMMA OneFile ==
    ASSUME TypeOK, FilesInv, version' = version, NEW s \in Streams, NEW p \in Pids,
           NEW g \in Partition, files' = [files EXCEPT ![s][p] = g],
           Evolves(files[s][p], g, version)
    PROVE  FilesType' /\ FilesEvolve
<1>1. version \in Nat /\ files \in [Streams -> [Pids -> Partition \cup {Absent}]]
    BY DEF TypeOK
<1>2. FilesType'
    BY <1>1 DEF FilesType
<1>3. \A u \in Streams, q \in Pids : Evolves(files[u][q], files[u][q], version)
    BY <1>1, EvolveSame DEF FilesInv
<1>4. \A u \in Streams, q \in Pids :
        files'[u][q] = IF u = s /\ q = p THEN g ELSE files[u][q]
    BY <1>1
<1>. QED  BY <1>2, <1>3, <1>4 DEF FilesEvolve

(* The files of a stream that is opened evolve.                            *)
LEMMA OpenedFiles ==
    ASSUME TypeOK, FilesInv, version' = version, NEW s \in Streams,
           files' = [files EXCEPT ![s] = Opened(s)]
    PROVE  FilesType' /\ FilesEvolve
<1>1. version \in Nat /\ files \in [Streams -> [Pids -> Partition \cup {Absent}]]
    BY DEF TypeOK
<1>2. FilesType'
    BY <1>1, OpenedType DEF FilesType
<1>3. \A u \in Streams, q \in Pids : Evolves(files[u][q], files[u][q], version)
    BY <1>1, EvolveSame DEF FilesInv
<1>4. \A q \in Pids : Evolves(files[s][q], Opened(s)[q], version)
  <2>. SUFFICES ASSUME NEW q \in Pids PROVE Evolves(files[s][q], Opened(s)[q], version)
    OBVIOUS
  <2>1. CASE files[s][q] = Absent
    BY <2>1, <1>3 DEF Opened, Present
  <2>2. CASE files[s][q] # Absent
    <3>1. Whole(files[s][q], version)
      BY <2>2 DEF FilesInv
    <3>2. Opened(s)[q] \in {Recovered(files[s][q]), files[s][q], Sealed(files[s][q])}
      BY <2>2 DEF Opened, Present
    <3>. QED  BY <3>1, <3>2, <1>1, <1>3, EvolveInPlace
  <2>. QED  BY <2>1, <2>2
<1>5. \A u \in Streams : files'[u] = IF u = s THEN Opened(s) ELSE files[u]
    BY <1>1
<1>. QED  BY <1>2, <1>3, <1>4, <1>5 DEF FilesEvolve

(* The active partition of an open stream is there.                        *)
LEMMA ActiveFile ==
    ASSUME IInv, NEW s \in Streams, active[s] # 0
    PROVE  /\ active[s] \in Pids
           /\ files[s][active[s]] \in Partition
           /\ Whole(files[s][active[s]], version)
    BY DEF IInv, TypeOK, OpenInv, FilesInv, Whole

(* The head and the tail of the streams to commit.                         *)
LEMMA TouchedHead ==
    ASSUME IInv, touched # <<>>
    PROVE  /\ Head(touched) \in Streams /\ Head(touched) = touched[1]
           /\ 1 \in DOMAIN touched
           /\ Tail(touched) \in Seq(Streams)
           /\ Len(touched) \in Nat /\ Len(Tail(touched)) = Len(touched) - 1
           /\ \A i \in DOMAIN Tail(touched) : i + 1 \in DOMAIN touched /\ Tail(touched)[i] = touched[i + 1]
<1>1. touched \in Seq(Streams)
    BY DEF IInv, TypeOK
<1>. QED  BY <1>1

(* The head and the tail of the batch.                                     *)
LEMMA BatchHead ==
    ASSUME IInv, batch # <<>>
    PROVE  /\ Head(batch) \in Pending /\ Head(batch) = batch[1]
           /\ 1 \in DOMAIN batch
           /\ Tail(batch) \in Seq(Pending)
           /\ Len(batch) \in Nat \ {0} /\ Len(Tail(batch)) = Len(batch) - 1
           /\ \A i \in DOMAIN Tail(batch) : i + 1 \in DOMAIN batch /\ Tail(batch)[i] = batch[i + 1]
           /\ \A i \in DOMAIN batch : i = 1 \/ (i - 1 \in DOMAIN Tail(batch) /\ Tail(batch)[i - 1] = batch[i])
<1>1. batch \in Seq(Pending)
    BY DEF IInv, TypeOK
<1>. QED  BY <1>1

(* The domain ensure_domain works on is a stream.                          *)
LEMMA DomainType ==
    ASSUME TypeOK, Missing # {}
    PROVE  Domain \in Streams
<1>1. batch \in Seq(Pending)
    BY DEF TypeOK
<1>2. Missing \in SUBSET Nat /\ Missing \subseteq 1 .. Len(batch)
    BY <1>1 DEF Missing
<1>3. Min(Missing) \in 1 .. Len(batch)
    BY <1>2, MinExists
<1>4. batch[Min(Missing)] \in Pending
    BY <1>1, <1>3, ElementOfSeq
<1>. QED  BY <1>4, KeysAssumption DEF Domain, Pending

(* The record Append1 writes, and the file it writes it to.                *)
LEMMA AppendedRecord ==
    ASSUME IInv, phase = "append", batch # <<>>
    PROVE  LET r == Head(batch)
               rec == [seq |-> nextSeq, key |-> r.key, ver |-> r.ver]
           IN  /\ rec \in Record /\ rec.seq <= version
               /\ Home[r.key] \in Streams /\ active[Home[r.key]] # 0
<1>1. Head(batch) \in Pending /\ Head(batch) = batch[1] /\ 1 \in DOMAIN batch
      /\ Len(batch) \in Nat \ {0}
    BY BatchHead
<1>2. nextSeq + Len(batch) <= version + 1 /\ nextSeq \in Nat \ {0} /\ version \in 0 .. MaxVersion
    BY BoundsAssumption DEF IInv, SeqInv, TypeOK
<1>3. nextSeq \in Versions /\ nextSeq <= version
    BY <1>1, <1>2, BoundsAssumption DEF Versions
<1>. QED  BY <1>1, <1>3, KeysAssumption DEF Record, Pending, IInv, PhaseInv, Writing

(* Every step evolves every file.                                          *)
LEMMA FilesStep ==
    ASSUME IInv, [Next]_vars
    PROVE  FilesType' /\ FilesEvolve
<1>. TypeOK /\ FilesInv /\ version \in Nat /\ version <= version
    BY DEF IInv, TypeOK
<1>1. ASSUME NEW s \in Streams, OpenStream(s)
      PROVE  FilesType' /\ FilesEvolve
  <2>0. version' = version
    BY <1>1 DEF OpenStream, hist
  <2>1. CASE Present(s) = {}
    <3>1. manifest.pid \in Pids /\ files' = [files EXCEPT ![s][manifest.pid] = Fresh]
      BY <1>1, <2>1 DEF OpenStream
    <3>2. files[s][manifest.pid] = Absent
      BY <2>1, <3>1 DEF Present
    <3>. QED  BY <2>0, <3>1, <3>2, OneFile, EvolveFresh, FreshIsPartition
  <2>2. CASE Present(s) # {}
    <3>1. files' = [files EXCEPT ![s] = Opened(s)]
      BY <1>1, <2>2 DEF OpenStream
    <3>. QED  BY <2>0, <3>1, OpenedFiles
  <2>. QED  BY <2>1, <2>2
<1>2. CASE CreateStream
  <2>1. /\ Domain \in Streams /\ manifest.pid \in Pids /\ version' = version
        /\ files' = [files EXCEPT ![Domain][manifest.pid] = Fresh]
    BY <1>2, DomainType DEF CreateStream, hist
  <2>2. files[Domain][manifest.pid] = Absent
    BY <1>2, <2>1 DEF CreateStream, Present
  <2>. HIDE DEF Domain
  <2>. QED  BY <2>1, <2>2, OneFile, EvolveFresh, FreshIsPartition
<1>3. CASE RegisterStream
  <2>1. /\ Domain \in Streams /\ version' = version
        /\ files' = [files EXCEPT ![Domain] = Opened(Domain)]
    BY <1>3, DomainType DEF RegisterStream, hist
  <2>. QED  BY <2>1, OpenedFiles
<1>4. CASE Append1
  <2>. DEFINE r == Head(batch)
              s == Home[r.key]
              rec == [seq |-> nextSeq, key |-> r.key, ver |-> r.ver]
              f == files[s][active[s]]
  <2>1. rec \in Record /\ rec.seq <= version /\ s \in Streams /\ active[s] # 0
    BY <1>4, AppendedRecord DEF Append1
  <2>2. version' = version /\ files' = [files EXCEPT ![s][active[s]] = Appended(f, rec)]
    BY <1>4 DEF Append1, hist
  <2>. HIDE DEF s, rec
  <2>3. active[s] \in Pids /\ Whole(f, version)
    BY <2>1, ActiveFile
  <2>4. Evolves(f, Appended(f, rec), version) /\ f # Absent
    BY <2>1, <2>3, EvolveAppend, AbsentAssumption DEF Whole
  <2>. DEFINE g == Appended(f, rec)
  <2>5. /\ Evolves(files[s][active[s]], g, version) /\ g \in Partition
        /\ files' = [files EXCEPT ![s][active[s]] = g]
    BY <2>2, <2>4, EvolvedIsPartition
  <2>. HIDE DEF g, f
  <2>. QED  BY <2>1, <2>2, <2>3, <2>5, OneFile
<1>5. CASE Commit
  <2>. DEFINE s == Head(touched)
              f == files[s][active[s]]
  <2>1. touched # <<>> /\ s \in Streams /\ active[s] # 0
    BY <1>5, TouchedHead DEF Commit, IInv, PhaseInv, Writing
  <2>2. version' = version /\ files' = [files EXCEPT ![s][active[s]] = Committed(f)]
    BY <1>5 DEF Commit, hist
  <2>. HIDE DEF s
  <2>3. active[s] \in Pids /\ Whole(f, version) /\ f # Absent
    BY <2>1, ActiveFile, AbsentAssumption
  <2>. DEFINE g == Committed(f)
  <2>4. /\ Evolves(files[s][active[s]], g, version) /\ g \in Partition
        /\ files' = [files EXCEPT ![s][active[s]] = g]
    BY <2>2, <2>3, EvolveInPlace, EvolvedIsPartition
  <2>. HIDE DEF g, f
  <2>. QED  BY <2>1, <2>2, <2>3, <2>4, OneFile
<1>6. CASE RollCreate
  <2>. DEFINE s == Head(touched)
  <2>1. touched # <<>> /\ s \in Streams
    BY <1>6, TouchedHead DEF RollCreate, IInv, PhaseInv, Writing
  <2>2. /\ version' = version /\ manifest.pid \in Pids
        /\ files[s][manifest.pid] = Absent
        /\ files' = [files EXCEPT ![s][manifest.pid] = Fresh]
    BY <1>6 DEF RollCreate, hist
  <2>. HIDE DEF s
  <2>. QED  BY <2>1, <2>2, OneFile, EvolveFresh, FreshIsPartition
<1>7. CASE Stamp \/ Harden
  <2>. DEFINE s == Head(touched)
              f == files[s][sealing]
  <2>1. touched # <<>> /\ s \in Streams /\ sealing \in Pids /\ f # Absent
    BY <1>7, TouchedHead DEF Stamp, Harden, IInv, PhaseInv, TypeOK
  <2>2. /\ version' = version
        /\ \/ files' = [files EXCEPT ![s][sealing] = Stamped(f)]
           \/ files' = [files EXCEPT ![s][sealing] = Sealed(f)]
    BY <1>7 DEF Stamp, Harden, hist
  <2>. HIDE DEF s
  <2>3. Whole(f, version)
    BY <2>1 DEF FilesInv
  <2>. QED  BY <2>1, <2>2, <2>3, OneFile, EvolveInPlace, EvolvedIsPartition
<1>8. CASE Killed \/ PowerCut
  <2>1. PICK power \in BOOLEAN, keep \in [Streams -> Nat], torn \in BOOLEAN,
             indexed \in BOOLEAN, stamped \in BOOLEAN :
             Crash(power, keep, torn, indexed, stamped)
    BY <1>8, CrashChoice
  <2>2. \A s \in Streams, p \in Pids :
          files'[s][p] = IF files[s][p] = Absent THEN Absent
                         ELSE Image(files[s][p], Left(files[s][p], keep[s], power), torn,
                                    power, indexed, stamped)
    BY <2>1 DEF Crash
  <2>3. version' = version
    BY <2>1 DEF Crash
  <2>4. FilesEvolve
    <3>. SUFFICES ASSUME NEW s \in Streams, NEW p \in Pids
                  PROVE  Evolves(files[s][p], files'[s][p], version)
      BY <2>3 DEF FilesEvolve
    <3>1. CASE files[s][p] = Absent
      BY <3>1, <2>2 DEF Evolves
    <3>2. CASE files[s][p] # Absent
      <4>1. Whole(files[s][p], version) /\ keep[s] \in Nat
        BY <3>2 DEF FilesInv
      <4>. QED  BY <3>2, <4>1, <2>2, EvolveCrash
    <3>. QED  BY <3>1, <3>2
  <2>5. \A s \in Streams, p \in Pids : files'[s][p] \in Partition \cup {Absent}
    BY <2>4, EvolvedIsPartition DEF FilesEvolve
  <2>6. files' = [s \in Streams |-> [p \in Pids |-> files'[s][p]]]
    BY <2>1 DEF Crash
  <2>. QED  BY <2>4, <2>5, <2>6 DEF FilesType
<1>9. ASSUME NEW b \in Batches, Begin(b)
      PROVE  FilesType' /\ FilesEvolve
  <2>1. Len(b) \in Nat /\ version' = version + Len(b) /\ files' = files
    BY <1>9, BatchLength DEF Begin
  <2>. QED  BY <2>1, UnchangedFiles
<1>10. CASE \/ LoadManifest \/ OpenDone \/ InternDomain \/ Planned \/ Finish
            \/ PlanFails \/ WriteFails \/ UNCHANGED vars
  <2>1. files' = files /\ version' = version
    BY <1>10 DEF LoadManifest, OpenDone, InternDomain, Planned, Finish, PlanFails,
                 WriteFails, vars, hist
  <2>. QED  BY <2>1, UnchangedFiles
<1>. QED  BY <1>1, <1>2, <1>3, <1>4, <1>5, <1>6, <1>7, <1>8, <1>9, <1>10 DEF Next, Step

---------------------------------------------------------------------------
(* The types.                                                              *)

(* The last seq of a stream was issued.                                    *)
LEMMA LastSeqBound ==
    ASSUME IInv, NEW s \in Streams, active[s] # 0
    PROVE  LastSeq(s) \in 0 .. version
<1>. DEFINE P == {p \in Present(s) : SeenLen(s, p) > 0}
            m == Max(P)
<1>0. version \in Nat
    BY DEF IInv, TypeOK
<1>1. CASE P = {}
    BY <1>0, <1>1 DEF LastSeq
<1>2. CASE P # {}
  <2>1. P \in SUBSET (0 .. MaxPid) /\ MaxPid \in Nat
    BY BoundsAssumption DEF Present, Pids
  <2>2. m \in P
    BY <1>2, <2>1, MaxExists
  <2>. HIDE DEF m
  <2>3. m \in Pids /\ files[s][m] # Absent /\ SeenLen(s, m) > 0
    BY <2>2 DEF Present
  <2>4. Whole(files[s][m], version)
    BY <2>3 DEF IInv, FilesInv
  <2>5. files[s][m].idx <= Len(files[s][m].data)
    BY <2>3 DEF IInv, OpenInv
  <2>6. SeenLen(s, m) \in 1 .. Len(files[s][m].data)
    BY <2>3, <2>4, <2>5, WholeFields DEF SeenLen
  <2>7. files[s][m].data[SeenLen(s, m)] \in Record
    BY <2>4, <2>6, WholeFields, ElementOfSeq
  <2>8. files[s][m].data[SeenLen(s, m)].seq <= version
    BY <2>4, <2>6 DEF Whole
  <2>9. files[s][m].data[SeenLen(s, m)].seq \in 0 .. version
    BY <1>0, <2>7, <2>8 DEF Record, Versions
  <2>10. LastSeq(s) = files[s][m].data[SeenLen(s, m)].seq
    BY <1>2 DEF LastSeq, m
  <2>. QED  BY <2>9, <2>10
<1>. QED  BY <1>1, <1>2

(* The seq an open resumes from is in range.                               *)
LEMMA ResumeSeqBound ==
    ASSUME IInv, Unopened = {}
    PROVE  ResumeSeq \in 1 .. version + 1
<1>. DEFINE L == {LastSeq(s) : s \in manifest.ns}
<1>1. version \in Nat /\ manifest.ns \in SUBSET Streams /\ Meta \in manifest.ns
    BY DEF IInv, TypeOK, SeqInv, Manifest
<1>2. \A s \in manifest.ns : active[s] # 0
    BY DEF Unopened
<1>3. L \in SUBSET (0 .. version) /\ L # {}
    BY <1>1, <1>2, LastSeqBound
<1>4. Max(L) \in 0 .. version
    BY <1>1, <1>3, MaxExists
<1>. QED  BY <1>1, <1>4 DEF ResumeSeq

(* What a replay shows is well-typed.                                      *)
LEMMA RecoversType ==
    ASSUME IInv
    PROVE  Recovers \in [Keys -> Versions \cup {0}]
<1>1. \A k \in Keys : Replay(StreamRecords(Home[k]), k) \in Versions \cup {0}
    BY KeysAssumption, RecordsType, ReplayType DEF IInv
<1>. QED  BY <1>1 DEF Recovers

(* Latest gives, for each entity, a version of the batch or the old one.   *)
LEMMA LatestValue ==
    ASSUME IInv, NEW f \in [Keys -> Versions \cup {0}], NEW k \in Keys
    PROVE  /\ Latest(f)[k] \in Versions \cup {0}
           /\ \/ Latest(f)[k] = f[k]
              \/ \E r \in inflight : r.key = k /\ r.ver = Latest(f)[k]
<1>. DEFINE mine == {r.ver : r \in {q \in inflight : q.key = k}}
<1>1. Latest(f)[k] = IF mine = {} THEN f[k] ELSE Max(mine)
    BY DEF Latest
<1>2. mine \in SUBSET Versions
    BY DEF IInv, TypeOK, Pending
<1>3. CASE mine = {}
    BY <1>1, <1>3
<1>4. CASE mine # {}
  <2>1. mine \in SUBSET (0 .. MaxVersion) /\ MaxVersion \in Nat
    BY <1>2, BoundsAssumption DEF Versions
  <2>2. Max(mine) \in mine
    BY <1>4, <2>1, MaxExists
  <2>. QED  BY <1>1, <1>2, <1>4, <2>2
<1>. QED  BY <1>3, <1>4

(* What the caller applies is well-typed.                                  *)
LEMMA LatestType ==
    ASSUME IInv, NEW f \in [Keys -> Versions \cup {0}]
    PROVE  Latest(f) \in [Keys -> Versions \cup {0}]
<1>1. \A k \in Keys : Latest(f)[k] \in Versions \cup {0}
    BY LatestValue
<1>. QED  BY <1>1 DEF Latest

(* The records Begin plans are well-typed.                                 *)
LEMMA BatchType ==
    ASSUME TypeOK, NEW b \in Batches, version + Len(b) <= MaxVersion
    PROVE  LET recs == [i \in 1 .. Len(b) |-> [key |-> b[i], ver |-> version + i]]
           IN  /\ recs \in Seq(Pending) /\ Len(recs) = Len(b)
               /\ \A i \in 1 .. Len(b) : recs[i] \in Pending
               /\ \A i \in 1 .. Len(b) : version + i \in Versions
<1>1. Len(b) \in Nat /\ version \in Nat /\ MaxVersion \in Nat
    BY BatchLength, BoundsAssumption DEF TypeOK
<1>2. \A i \in 1 .. Len(b) : version + i \in Versions
    BY <1>1 DEF Versions
<1>3. \A i \in 1 .. Len(b) : [key |-> b[i], ver |-> version + i] \in Pending
    BY <1>2, BatchLength DEF Pending
<1>. QED  BY <1>1, <1>2, <1>3

(* The manifest with another next id is one.                               *)
LEMMA ManifestPid ==
    ASSUME NEW m \in Manifest, NEW n \in Nat \ {0}
    PROVE  [m EXCEPT !.pid = n] \in Manifest /\ m.pid + 1 \in Nat \ {0}
    BY DEF Manifest

(* Every step keeps the types.                                             *)
LEMMA TypeStep ==
    ASSUME IInv, [Next]_vars
    PROVE  TypeOK'
<1>. TypeOK /\ FilesType' /\ version \in Nat /\ MaxVersion \in Nat \ {0}
    BY FilesStep, BoundsAssumption DEF IInv, TypeOK
<1>1. CASE LoadManifest
    BY <1>1 DEF TypeOK, FilesType, LoadManifest, Phases, call, hist
<1>2. ASSUME NEW s \in Streams, OpenStream(s)
      PROVE  TypeOK'
  <2>1. /\ active' \in [Streams -> Pids \cup {0}]
        /\ manifest' \in Manifest
    <3>1. CASE Present(s) = {}
      <4>1. /\ active' = [active EXCEPT ![s] = manifest.pid] /\ manifest.pid \in Pids
            /\ manifest' = [manifest EXCEPT !.pid = @ + 1]
        BY <1>2, <3>1 DEF OpenStream
      <4>2. manifest' \in Manifest
        BY <4>1, ManifestPid DEF TypeOK
      <4>. QED  BY <4>1, <4>2 DEF TypeOK
    <3>2. CASE Present(s) # {}
      <4>1. /\ active' = [active EXCEPT ![s] = Max(Present(s))]
            /\ manifest' = [manifest EXCEPT !.pid = NextPid(s)]
        BY <1>2, <3>2 DEF OpenStream
      <4>2. Max(Present(s)) \in Pids
        BY <3>2, PresentMax
      <4>3. manifest' \in Manifest
        BY <3>2, <4>1, ManifestPid, NextPidType DEF TypeOK
      <4>. QED  BY <4>1, <4>2, <4>3 DEF TypeOK
    <3>. QED  BY <3>1, <3>2
  <2>. QED  BY <1>2, <2>1 DEF TypeOK, FilesType, OpenStream, call, hist
<1>3. CASE OpenDone
  <2>1. nextSeq' \in 1 .. MaxVersion + 1
    BY <1>3, ResumeSeqBound DEF OpenDone, TypeOK
  <2>2. shown' \in [Keys -> Versions \cup {0}]
    BY <1>3, RecoversType DEF OpenDone
  <2>. QED  BY <1>3, <2>1, <2>2 DEF TypeOK, FilesType, OpenDone, Phases, call
<1>4. ASSUME NEW b \in Batches, Begin(b)
      PROVE  TypeOK'
  <2>1. version + Len(b) <= MaxVersion /\ Len(b) \in Nat
    BY <1>4, BatchLength DEF Begin
  <2>2. batch' \in Seq(Pending) /\ inflight' \subseteq Pending
    BY <1>4, <2>1, BatchType DEF Begin
  <2>3. \A i \in 1 .. Len(b) : version + i \in Versions
    BY <2>1, BatchType
  <2>4. issued' \in [Keys -> SUBSET Versions]
    <3>1. DOMAIN b = 1 .. Len(b)
      BY BatchLength
    <3>. QED  BY <1>4, <2>3, <3>1 DEF Begin, TypeOK
  <2>5. version' \in 0 .. MaxVersion
    BY <1>4, <2>1 DEF Begin
  <2>. QED  BY <1>4, <2>2, <2>4, <2>5 DEF TypeOK, FilesType, Begin, Phases
<1>5. CASE InternDomain
  <2>1. manifest' \in Manifest
    BY <1>5, DomainType DEF InternDomain, TypeOK, Manifest
  <2>. QED  BY <1>5, <2>1 DEF TypeOK, FilesType, InternDomain, call, hist
<1>6. CASE CreateStream
    BY <1>6 DEF TypeOK, FilesType, CreateStream, call, hist
<1>7. CASE RegisterStream
  <2>1. Domain \in Streams /\ Present(Domain) # {}
    BY <1>7, DomainType DEF RegisterStream
  <2>2. manifest' \in Manifest
    BY <1>7, <2>1, NextPidType DEF RegisterStream, TypeOK, Manifest
  <2>3. active' \in [Streams -> Pids \cup {0}]
    BY <1>7, <2>1, PresentMax DEF RegisterStream, Registered, TypeOK
  <2>. QED  BY <1>7, <2>2, <2>3 DEF TypeOK, FilesType, RegisterStream, call, hist
<1>8. CASE PlanFails
  <2>1. manifest' \in Manifest
    BY <1>8, DomainType, NextPidType DEF PlanFails, TypeOK, Manifest
  <2>. QED  BY <1>8, <2>1 DEF TypeOK, FilesType, PlanFails, Phases
<1>9. CASE Planned
    BY <1>9 DEF TypeOK, FilesType, Planned, Phases, call, hist
<1>10. CASE Append1
  <2>1. batch # <<>> /\ Tail(batch) \in Seq(Pending) /\ Len(batch) \in Nat \ {0}
    BY <1>10, BatchHead DEF Append1
  <2>2. batch' \in Seq(Pending)
    BY <1>10, <2>1 DEF Append1
  <2>3. touched' \in Seq(Streams)
    <3>1. Home[Head(batch).key] \in Streams
      BY <1>10, AppendedRecord DEF Append1
    <3>. QED  BY <1>10, <3>1 DEF Append1, TypeOK
  <2>4. nextSeq' \in 1 .. MaxVersion + 1
    <3>1. nextSeq + Len(batch) <= version + 1 /\ nextSeq \in 1 .. MaxVersion + 1
          /\ version \in 0 .. MaxVersion /\ nextSeq' = nextSeq + 1
      BY <1>10 DEF Append1, IInv, SeqInv, TypeOK
    <3>. QED  BY <2>1, <3>1
  <2>. QED  BY <1>10, <2>2, <2>3, <2>4 DEF TypeOK, FilesType, Append1, Phases, hist
<1>11. CASE Commit
  <2>1. Tail(touched) \in Seq(Streams)
    BY <1>11, TouchedHead DEF Commit, IInv, PhaseInv
  <2>. QED  BY <1>11, <2>1 DEF TypeOK, FilesType, Commit, AfterStream, Phases, hist
<1>12. CASE RollCreate
  <2>1. Head(touched) \in Streams
    BY <1>12, TouchedHead DEF RollCreate, IInv, PhaseInv
  <2>2. manifest' = [manifest EXCEPT !.pid = @ + 1] /\ manifest.pid \in Pids
    BY <1>12 DEF RollCreate
  <2>3. manifest' \in Manifest
    BY <2>2, ManifestPid DEF TypeOK
  <2>4. active' \in [Streams -> Pids \cup {0}] /\ sealing' \in Pids \cup {0}
    BY <1>12, <2>1 DEF RollCreate, TypeOK
  <2>. QED  BY <1>12, <2>3, <2>4 DEF TypeOK, FilesType, RollCreate, Phases, hist
<1>13. CASE Stamp
    BY <1>13 DEF TypeOK, FilesType, Stamp, Phases, call, hist
<1>14. CASE Harden
  <2>1. Tail(touched) \in Seq(Streams)
    BY <1>14, TouchedHead DEF Harden, IInv, PhaseInv
  <2>. QED  BY <1>14, <2>1 DEF TypeOK, FilesType, Harden, AfterStream, Phases, hist
<1>15. CASE Finish
  <2>1. acked' \in [Keys -> Versions \cup {0}] /\ shown' \in [Keys -> Versions \cup {0}]
    BY <1>15, LatestType DEF Finish, TypeOK
  <2>2. \A k \in Keys : Max({relied[k], shown'[k]}) \in Versions \cup {0}
    <3>. SUFFICES ASSUME NEW k \in Keys PROVE Max({relied[k], shown'[k]}) \in Versions \cup {0}
      OBVIOUS
    <3>1. relied[k] \in Versions \cup {0} /\ shown'[k] \in Versions \cup {0}
      BY <2>1 DEF TypeOK
    <3>2. relied[k] \in Nat /\ shown'[k] \in Nat
      BY <3>1 DEF Versions
    <3>. QED  BY <3>1, <3>2, MaxOfTwo
  <2>3. relied' \in [Keys -> Versions \cup {0}]
    BY <1>15, <2>2 DEF Finish
  <2>. QED  BY <1>15, <2>1, <2>3 DEF TypeOK, FilesType, Finish, Phases
<1>16. CASE WriteFails
    BY <1>16 DEF TypeOK, FilesType, WriteFails, Phases, call, hist
<1>17. CASE Killed \/ PowerCut
  <2>1. PICK power \in BOOLEAN, keep \in [Streams -> Nat], torn \in BOOLEAN,
             indexed \in BOOLEAN, stamped \in BOOLEAN :
             Crash(power, keep, torn, indexed, stamped)
    BY <1>17, CrashChoice
  <2>2. /\ active' \in [Streams -> Pids \cup {0}]
        /\ shown' \in [Keys -> Versions \cup {0}]
        /\ nextSeq' \in 1 .. MaxVersion + 1
        /\ batch' \in Seq(Pending) /\ touched' \in Seq(Streams)
    BY <2>1 DEF Crash, Closed, Nothing
  <2>3. UNCHANGED <<saved, version, issued, acked, relied>> /\ manifest' = saved
        /\ phase' \in Phases /\ sealing' = 0 /\ dirty' = FALSE /\ inflight' = {}
    BY <2>1 DEF Crash, Phases
  <2>. QED  BY <2>2, <2>3 DEF TypeOK, FilesType
<1>18. CASE UNCHANGED vars
    BY <1>18 DEF TypeOK, FilesType, vars
<1>. QED  BY <1>1, <1>2, <1>3, <1>4, <1>5, <1>6, <1>7, <1>8, <1>9, <1>10, <1>11, <1>12,
             <1>13, <1>14, <1>15, <1>16, <1>17, <1>18 DEF Next, Step

---------------------------------------------------------------------------
(* The files, the active partitions and the seqs.                          *)

(* Every step keeps every file whole.                                      *)
LEMMA FilesInvStep ==
    ASSUME IInv, [Next]_vars
    PROVE  FilesInv'
<1>1. FilesEvolve
    BY FilesStep
<1>. QED  BY <1>1 DEF FilesEvolve, Evolves, FilesInv

(* What was synced stays readable where it was.                            *)
LEMMA DurableGrows ==
    ASSUME IInv, [Next]_vars, NEW s \in Streams
    PROVE  DurableRecords(s) \subseteq DurableRecords(s)'
<1>1. FilesEvolve
    BY FilesStep
<1>2. SUFFICES ASSUME NEW d \in DurableRecords(s) PROVE d \in DurableRecords(s)'
    OBVIOUS
<1>3. PICK p \in Present(s) : \E i \in 1 .. files[s][p].synced : d = files[s][p].data[i]
    BY <1>2 DEF DurableRecords
<1>4. PICK i \in 1 .. files[s][p].synced : d = files[s][p].data[i]
    BY <1>3
<1>5. p \in Pids /\ files[s][p] # Absent
    BY DEF Present
<1>6. /\ files'[s][p] # Absent /\ Kept(files[s][p], files'[s][p])
      /\ Whole(files[s][p], version) /\ Whole(files'[s][p], version')
    BY <1>1, <1>5 DEF FilesEvolve, Evolves, IInv, FilesInv
<1>7. files[s][p].synced \in Nat /\ files'[s][p].synced \in Nat
    BY <1>6, WholeFields
<1>8. i \in 1 .. files'[s][p].synced /\ d = files'[s][p].data[i]
    BY <1>4, <1>6, <1>7 DEF Kept
<1>9. d \in {files'[s][p].data[j] : j \in 1 .. files'[s][p].synced}
    BY <1>8
<1>10. p \in Present(s)'
    BY <1>5, <1>6 DEF Present
<1>. QED  BY <1>9, <1>10 DEF DurableRecords

(* A record on the disk stays there.                                       *)
LEMMA DurableStays ==
    ASSUME IInv, [Next]_vars, NEW r \in Pending, Durable(r)
    PROVE  Durable(r)'
<1>1. Home[r.key] \in Streams
    BY KeysAssumption DEF Pending
<1>. QED  BY <1>1, DurableGrows DEF Durable

OpenAt(s) ==
    active[s] # 0 =>
        /\ files[s][active[s]] # Absent
        /\ \A p \in Pids : files[s][p] # Absent => files[s][p].idx <= Len(files[s][p].data)

(* A stream stays open when one of its files changes in place.             *)
LEMMA OpenAtOneFile ==
    ASSUME IInv, NEW s \in Streams, NEW p \in Pids, NEW g \in Partition,
           g.idx <= Len(g.data),
           files' = [files EXCEPT ![s][p] = g],
           active' = active \/ active' = [active EXCEPT ![s] = p]
    PROVE  \A u \in Streams : active'[u] = active[u] \/ (u = s /\ active[s] # 0) => OpenAt(u)'
<1>1. /\ files \in [Streams -> [Pids -> Partition \cup {Absent}]]
      /\ active \in [Streams -> Pids \cup {0}]
    BY DEF IInv, TypeOK
<1>2. \A u \in Streams : OpenAt(u)
    BY DEF IInv, OpenInv, OpenAt
<1>3. g # Absent
    BY AbsentAssumption
<1>4. \A u \in Streams, q \in Pids :
        files'[u][q] = IF u = s /\ q = p THEN g ELSE files[u][q]
    BY <1>1
<1>5. \A u \in Streams : active'[u] = active[u] \/ (u = s /\ active'[u] = p)
    BY <1>1
<1>. HIDE DEF OpenAt
<1>6. SUFFICES ASSUME NEW u \in Streams, active'[u] = active[u] \/ (u = s /\ active[s] # 0)
               PROVE  OpenAt(u)'
    OBVIOUS
<1>7. SUFFICES ASSUME active'[u] # 0 PROVE OpenAt(u)'
    BY DEF OpenAt
<1>8. active[u] # 0
    BY <1>6, <1>7
<1>9. active[u] \in Pids /\ active'[u] \in Pids
    BY <1>1, <1>5, <1>8
<1>10. files'[u][active'[u]] # Absent
    BY <1>2, <1>3, <1>4, <1>5, <1>8, <1>9 DEF OpenAt
<1>11. \A q \in Pids : files'[u][q] # Absent => files'[u][q].idx <= Len(files'[u][q].data)
    BY <1>2, <1>4, <1>8 DEF OpenAt
<1>. QED  BY <1>10, <1>11 DEF OpenAt

(* A stream that was opened is open.                                       *)
LEMMA OpenAtOpened ==
    ASSUME IInv, NEW s \in Streams, Present(s) # {},
           files' = [files EXCEPT ![s] = Opened(s)],
           active' = [active EXCEPT ![s] = Max(Present(s))]
    PROVE  OpenInv'
<1>1. /\ files \in [Streams -> [Pids -> Partition \cup {Absent}]]
      /\ active \in [Streams -> Pids \cup {0}]
    BY DEF IInv, TypeOK
<1>2. Max(Present(s)) \in Pids /\ files[s][Max(Present(s))] # Absent
    BY PresentMax
<1>3. \A p \in Pids : Opened(s)[p] # Absent => Opened(s)[p].idx <= Len(Opened(s)[p].data)
  <2>. SUFFICES ASSUME NEW p \in Pids, Opened(s)[p] # Absent
                PROVE  Opened(s)[p].idx <= Len(Opened(s)[p].data)
    OBVIOUS
  <2>1. p \in Present(s) /\ files[s][p] \in Partition
    BY <1>1 DEF Opened, Present
  <2>2. files[s][p].data \in Seq(Record) /\ Len(files[s][p].data) \in Nat
    BY <2>1 DEF Partition
  <2>3. CASE Opened(s)[p] = Recovered(files[s][p])
    <3>1. Recovered(files[s][p]).idx = Len(files[s][p].data)
      BY <2>1 DEF Recovered, Partition
    <3>2. Recovered(files[s][p]).data = files[s][p].data
      BY <2>1, PartitionOps
    <3>. QED  BY <2>2, <2>3, <3>1, <3>2
  <2>4. CASE SealedOk(files[s][p]) /\ Opened(s)[p] = files[s][p]
    BY <2>2, <2>4 DEF SealedOk
  <2>5. CASE Opened(s)[p] = Sealed(files[s][p])
    BY <2>2, <2>5 DEF Sealed
  <2>. QED  BY <2>1, <2>3, <2>4, <2>5 DEF Opened
<1>4. Opened(s)[Max(Present(s))] # Absent
  <2>1. files[s][Max(Present(s))] \in Partition /\ Max(Present(s)) \in Present(s)
    BY <1>1, <1>2 DEF Present
  <2>2. Opened(s)[Max(Present(s))] = Recovered(files[s][Max(Present(s))])
    BY <1>2, <2>1 DEF Opened
  <2>. QED  BY <2>1, <2>2, PartitionOps, AbsentAssumption
<1>5. \A u \in Streams : files'[u] = IF u = s THEN Opened(s) ELSE files[u]
    BY <1>1
<1>6. \A u \in Streams : active'[u] = IF u = s THEN Max(Present(s)) ELSE active[u]
    BY <1>1
<1>. QED  BY <1>2, <1>3, <1>4, <1>5, <1>6 DEF OpenInv, IInv

(* Every step keeps the open streams open.                                 *)
LEMMA OpenInvStep ==
    ASSUME IInv, [Next]_vars
    PROVE  OpenInv'
<1>. /\ files \in [Streams -> [Pids -> Partition \cup {Absent}]]
     /\ active \in [Streams -> Pids \cup {0}] /\ TypeOK
    BY DEF IInv, TypeOK
<1>0. SUFFICES (\A u \in Streams : OpenAt(u)') \/ OpenInv'
    BY DEF OpenInv, OpenAt
<1>1. CASE UNCHANGED <<files, active>>
    BY <1>1 DEF IInv, OpenInv, OpenAt
<1>2. CASE \/ LoadManifest \/ OpenDone \/ InternDomain \/ Planned \/ Finish
           \/ PlanFails \/ WriteFails \/ (\E b \in Batches : Begin(b)) \/ UNCHANGED vars
  <2>1. UNCHANGED <<files, active>>
    BY <1>2 DEF LoadManifest, OpenDone, InternDomain, Planned, Finish, PlanFails,
                WriteFails, Begin, vars
  <2>. QED  BY <1>1, <2>1
<1>3. ASSUME NEW s \in Streams, OpenStream(s)
      PROVE  OpenInv'
  <2>1. CASE Present(s) = {}
    <3>1. /\ manifest.pid \in Pids
          /\ files' = [files EXCEPT ![s][manifest.pid] = Fresh]
          /\ active' = [active EXCEPT ![s] = manifest.pid]
      BY <1>3, <2>1 DEF OpenStream
    <3>2. \A p \in Pids : files[s][p] = Absent
      BY <2>1 DEF Present
    <3>3. \A u \in Streams, q \in Pids :
            files'[u][q] = IF u = s /\ q = manifest.pid THEN Fresh ELSE files[u][q]
      BY <3>1
    <3>4. Fresh.idx <= Len(Fresh.data) /\ Fresh # Absent
      <4>1. Fresh.idx <= Len(Fresh.data)
        BY EmptySeq DEF Fresh
      <4>. QED  BY <4>1, FreshIsPartition, AbsentAssumption
    <3>5. \A u \in Streams : active'[u] = IF u = s THEN manifest.pid ELSE active[u]
      BY <3>1
    <3>. HIDE DEF Fresh
    <3>6. OpenAt(s)'
      BY <3>1, <3>2, <3>3, <3>4, <3>5 DEF OpenAt
    <3>7. \A u \in Streams : u # s => OpenAt(u)'
      BY <3>3, <3>5 DEF OpenAt, IInv, OpenInv
    <3>. QED  BY <3>6, <3>7 DEF OpenInv, OpenAt
  <2>2. CASE Present(s) # {}
    BY <1>3, <2>2, OpenAtOpened DEF OpenStream
  <2>. QED  BY <2>1, <2>2
<1>4. CASE CreateStream
  <2>1. /\ Domain \in Streams /\ manifest.pid \in Pids /\ active' = active
        /\ files' = [files EXCEPT ![Domain][manifest.pid] = Fresh]
    BY <1>4, DomainType DEF CreateStream
  <2>2. Fresh.idx <= Len(Fresh.data)
    BY EmptySeq DEF Fresh
  <2>. HIDE DEF Domain, OpenAt
  <2>. QED  BY <2>1, <2>2, OpenAtOneFile, FreshIsPartition
<1>5. CASE RegisterStream
  <2>1. Domain \in Streams /\ Present(Domain) # {}
    BY <1>5, DomainType DEF RegisterStream
  <2>. QED  BY <1>5, <2>1, OpenAtOpened DEF RegisterStream, Registered
<1>6. CASE Append1
  <2>. DEFINE r == Head(batch)
              s == Home[r.key]
              rec == [seq |-> nextSeq, key |-> r.key, ver |-> r.ver]
              f == files[s][active[s]]
              g == Appended(f, rec)
  <2>1. rec \in Record /\ s \in Streams /\ active[s] # 0 /\ rec.seq <= version
    BY <1>6, AppendedRecord DEF Append1
  <2>2. active' = active /\ files' = [files EXCEPT ![s][active[s]] = g]
    BY <1>6 DEF Append1
  <2>. HIDE DEF s, rec
  <2>3. active[s] \in Pids /\ f \in Partition /\ Whole(f, version)
    BY <2>1, ActiveFile
  <2>4. g \in Partition /\ g.idx = f.idx /\ g.data = Append(f.data, rec)
    <3>1. f.data \in Seq(Record) /\ Append(f.data, rec) \in Seq(Record)
      BY <2>1, <2>3 DEF Partition
    <3>. HIDE DEF f
    <3>. QED  BY <2>3, <3>1 DEF Appended, Partition
  <2>5. f.idx <= Len(f.data) /\ f # Absent
    BY <2>1, <2>3 DEF IInv, OpenInv
  <2>6. g.idx <= Len(g.data)
    BY <2>1, <2>3, <2>4, <2>5 DEF Partition
  <2>. HIDE DEF g, f, OpenAt
  <2>. QED  BY <2>1, <2>2, <2>3, <2>4, <2>6, OpenAtOneFile
<1>7. CASE Commit
  <2>. DEFINE s == Head(touched)
              f == files[s][active[s]]
              g == Committed(f)
  <2>1. touched # <<>> /\ s \in Streams /\ active[s] # 0
    BY <1>7, TouchedHead DEF Commit, IInv, PhaseInv, Writing
  <2>2. active' = active /\ files' = [files EXCEPT ![s][active[s]] = g]
    BY <1>7 DEF Commit
  <2>. HIDE DEF s
  <2>3. active[s] \in Pids /\ f \in Partition
    BY <2>1, ActiveFile
  <2>4. g \in Partition /\ g.idx = Len(f.data) /\ g.data = f.data /\ Len(f.data) \in Nat
    BY <2>3, PartitionOps DEF Committed, Partition
  <2>5. g.idx <= Len(g.data)
    BY <2>4
  <2>. HIDE DEF g, f, OpenAt
  <2>. QED  BY <2>1, <2>2, <2>3, <2>4, <2>5, OpenAtOneFile
<1>8. CASE RollCreate
  <2>. DEFINE s == Head(touched)
  <2>1. touched # <<>> /\ s \in Streams /\ active[s] # 0
    BY <1>8, TouchedHead DEF RollCreate, IInv, PhaseInv, Writing
  <2>2. /\ manifest.pid \in Pids
        /\ active' = [active EXCEPT ![s] = manifest.pid]
        /\ files' = [files EXCEPT ![s][manifest.pid] = Fresh]
    BY <1>8 DEF RollCreate
  <2>3. Fresh.idx <= Len(Fresh.data)
    BY EmptySeq DEF Fresh
  <2>. HIDE DEF s
  <2>4. \A u \in Streams : active'[u] = active[u] \/ (u = s /\ active[s] # 0)
    BY <2>1, <2>2
  <2>. HIDE DEF OpenAt
  <2>. QED  BY <2>1, <2>2, <2>3, <2>4, OpenAtOneFile, FreshIsPartition
<1>9. CASE Stamp \/ Harden
  <2>. DEFINE s == Head(touched)
              f == files[s][sealing]
  <2>1. touched # <<>> /\ s \in Streams /\ sealing \in Pids /\ f # Absent /\ active[s] # 0
    BY <1>9, TouchedHead DEF Stamp, Harden, IInv, PhaseInv, TypeOK, Writing
  <2>2. /\ active' = active
        /\ \/ files' = [files EXCEPT ![s][sealing] = Stamped(f)]
           \/ files' = [files EXCEPT ![s][sealing] = Sealed(f)]
    BY <1>9 DEF Stamp, Harden
  <2>. HIDE DEF s
  <2>3. f \in Partition /\ f.idx <= Len(f.data) /\ Len(f.data) \in Nat
    BY <2>1 DEF IInv, OpenInv, Partition
  <2>4. /\ Stamped(f) \in Partition /\ Stamped(f).idx <= Len(Stamped(f).data)
    BY <2>3 DEF Stamped, Partition
  <2>5. Sealed(f) \in Partition /\ Sealed(f).idx <= Len(Sealed(f).data)
    <3>1. Sealed(f).idx = Len(f.data)
      BY DEF Sealed
    <3>. QED  BY <2>3, <3>1, PartitionOps
  <2>. DEFINE g1 == Stamped(f)
              g2 == Sealed(f)
  <2>6. CASE files' = [files EXCEPT ![s][sealing] = g1]
    <3>1. g1 \in Partition /\ g1.idx <= Len(g1.data)
      BY <2>4
    <3>. HIDE DEF g1, f, OpenAt
    <3>. QED  BY <2>1, <2>2, <2>6, <3>1, OpenAtOneFile
  <2>7. CASE files' = [files EXCEPT ![s][sealing] = g2]
    <3>1. g2 \in Partition /\ g2.idx <= Len(g2.data)
      BY <2>5
    <3>. HIDE DEF g2, f, OpenAt
    <3>. QED  BY <2>1, <2>2, <2>7, <3>1, OpenAtOneFile
  <2>. QED  BY <2>2, <2>6, <2>7
<1>10. CASE Killed \/ PowerCut
  <2>1. active' = [s \in Streams |-> 0]
    BY <1>10 DEF Killed, PowerCut, Crash, Closed
  <2>. QED  BY <2>1 DEF OpenAt
<1>. QED  BY <1>2, <1>3, <1>4, <1>5, <1>6, <1>7, <1>8, <1>9, <1>10 DEF Next, Step

(* Every step keeps the seqs in range.                                     *)
LEMMA SeqInvStep ==
    ASSUME IInv, [Next]_vars
    PROVE  SeqInv'
<1>. /\ version \in Nat /\ nextSeq \in Nat /\ batch \in Seq(Pending) /\ Len(batch) \in Nat
     /\ nextSeq + Len(batch) <= version + 1
     /\ Meta \in saved.ns /\ Meta \in manifest.ns
     /\ manifest \in Manifest /\ saved \in Manifest /\ Len(<<>>) = 0
    BY EmptySeq DEF IInv, TypeOK, SeqInv
<1>1. Meta \in manifest'.ns /\ Meta \in saved'.ns
  <2>1. CASE /\ saved' \in {saved, manifest, manifest'}
             /\ \/ manifest' \in {manifest, saved}
                \/ \E n : manifest' = [manifest EXCEPT !.pid = n]
                \/ \E d : manifest' = [manifest EXCEPT !.ns = @ \cup {d}]
    BY <2>1 DEF Manifest
  <2>2. saved' \in {saved, manifest, manifest'}
    BY DEF Next, Step, LoadManifest, OpenStream, OpenDone, Begin, InternDomain, CreateStream,
           RegisterStream, PlanFails, Planned, Append1, Commit, RollCreate, Stamp, Harden,
           Finish, WriteFails, Killed, PowerCut, Crash, vars
  <2>3. \/ manifest' \in {manifest, saved}
        \/ \E n : manifest' = [manifest EXCEPT !.pid = n]
        \/ \E d : manifest' = [manifest EXCEPT !.ns = @ \cup {d}]
    BY DEF Next, Step, LoadManifest, OpenStream, OpenDone, Begin, InternDomain, CreateStream,
           RegisterStream, PlanFails, Planned, Append1, Commit, RollCreate, Stamp, Harden,
           Finish, WriteFails, Killed, PowerCut, Crash, vars
  <2>. QED  BY <2>1, <2>2, <2>3
<1>2. nextSeq' + Len(batch') <= version' + 1
  <2>1. CASE UNCHANGED <<nextSeq, batch, version>>
    BY <2>1
  <2>2. CASE OpenDone
    <3>1. batch' = <<>> /\ version' = version /\ nextSeq' = ResumeSeq /\ Unopened = {}
      BY <2>2 DEF OpenDone, call, IInv, PhaseInv
    <3>2. nextSeq' \in 1 .. version + 1
      BY <3>1, ResumeSeqBound
    <3>. QED  BY <3>1, <3>2
  <2>3. ASSUME NEW b \in Batches, Begin(b)
        PROVE  nextSeq' + Len(batch') <= version' + 1
    <3>1. Len(b) \in Nat /\ nextSeq' = nextSeq /\ version' = version + Len(b)
          /\ version + Len(b) <= MaxVersion
      BY <2>3, BatchLength DEF Begin
    <3>2. Len(batch') = Len(b)
      BY <2>3, <3>1 DEF Begin
    <3>. QED  BY <3>1, <3>2
  <2>4. CASE Append1
    <3>1. /\ nextSeq' = nextSeq + 1 /\ version' = version /\ batch # <<>> /\ batch' = Tail(batch)
      BY <2>4 DEF Append1, hist
    <3>2. Len(batch) \in Nat \ {0} /\ Len(batch') = Len(batch) - 1
      BY <3>1, BatchHead
    <3>. QED  BY <3>1, <3>2
  <2>5. CASE PlanFails
    BY <2>5 DEF PlanFails
  <2>6. CASE Killed \/ PowerCut
    <3>1. nextSeq' = 1 /\ batch' = <<>> /\ version' = version
      BY <2>6 DEF Killed, PowerCut, Crash
    <3>. QED  BY <3>1
  <2>7. CASE \/ LoadManifest \/ (\E s \in Streams : OpenStream(s)) \/ InternDomain
             \/ CreateStream \/ RegisterStream \/ Planned \/ Commit \/ RollCreate \/ Stamp
             \/ Harden \/ Finish \/ WriteFails \/ UNCHANGED vars
    <3>1. UNCHANGED <<nextSeq, batch, version>>
      BY <2>7 DEF LoadManifest, OpenStream, InternDomain, CreateStream, RegisterStream, Planned,
                  Commit, RollCreate, Stamp, Harden, Finish, WriteFails, vars, call, hist
    <3>. QED  BY <2>1, <3>1
  <2>. QED  BY <2>2, <2>3, <2>4, <2>5, <2>6, <2>7 DEF Next, Step
<1>. QED  BY <1>1, <1>2 DEF SeqInv

---------------------------------------------------------------------------
(* What the phases have in hand.                                           *)

(* After the plan every record of the batch has an open stream.            *)
LEMMA MissingNone ==
    ASSUME TypeOK, Missing = {}
    PROVE  \A i \in DOMAIN batch : active[Home[batch[i].key]] # 0
    BY DEF Missing

(* The streams still to commit once the first one is done.                 *)
LEMMA TouchedTail ==
    ASSUME IInv, touched # <<>>, touched' = Tail(touched)
    PROVE  /\ \A i \in DOMAIN touched' : touched'[i] = touched[i + 1] /\ i + 1 \in DOMAIN touched
           /\ \A i \in DOMAIN touched : i > 1 => i - 1 \in DOMAIN touched' /\ touched'[i - 1] = touched[i]
           /\ \A i, j \in DOMAIN touched' : touched'[i] = touched'[j] => i = j
           /\ AfterStream(Tail(touched)) \in {"save", "sync"}
           /\ AfterStream(Tail(touched)) = "save" <=> touched' = <<>>
<1>1. touched \in Seq(Streams) /\ touched # <<>> /\ DOMAIN touched = 1 .. Len(touched)
      /\ Len(touched) \in Nat
    BY DEF IInv, TypeOK
<1>2. /\ touched' \in Seq(Streams) /\ DOMAIN touched' = 1 .. Len(touched) - 1
      /\ \A i \in 1 .. Len(touched) - 1 : touched'[i] = touched[i + 1]
    BY <1>1
<1>3. \A i, j \in DOMAIN touched : touched[i] = touched[j] => i = j
    BY DEF IInv, PhaseInv
<1>4. \A i, j \in DOMAIN touched' : touched'[i] = touched'[j] => i = j
  <2>. SUFFICES ASSUME NEW i \in DOMAIN touched', NEW j \in DOMAIN touched',
                       touched'[i] = touched'[j]
                PROVE  i = j
    OBVIOUS
  <2>1. i + 1 \in DOMAIN touched /\ j + 1 \in DOMAIN touched
    BY <1>1, <1>2
  <2>2. touched[i + 1] = touched[j + 1]
    BY <1>2
  <2>. QED  BY <1>1, <1>2, <1>3, <2>1, <2>2
<1>. QED  BY <1>1, <1>2, <1>4 DEF AfterStream

(* Every step keeps what the phases have in hand.                          *)
LEMMA PhaseInvStep ==
    ASSUME IInv, [Next]_vars
    PROVE  PhaseInv'
<1>. /\ TypeOK /\ PhaseInv
     /\ batch \in Seq(Pending) /\ touched \in Seq(Streams)
     /\ active \in [Streams -> Pids \cup {0}]
    BY DEF IInv, TypeOK
<1>1. CASE /\ UNCHANGED <<batch, touched>> /\ phase' \in {"open", "idle", "plan"}
           /\ phase' = phase \/ phase = "down" \/ phase = "open" \/ phase = "plan"
           /\ phase' = "open" => batch = <<>>
    BY <1>1 DEF PhaseInv, Writing
<1>2. CASE LoadManifest \/ (\E s \in Streams : OpenStream(s)) \/ OpenDone \/ InternDomain
           \/ CreateStream \/ RegisterStream
  <2>1. /\ UNCHANGED <<batch, touched>> /\ phase' \in {"open", "idle", "plan"}
        /\ phase' = phase \/ phase = "down" \/ phase = "open" \/ phase = "plan"
        /\ phase' = "open" => batch = <<>>
    BY <1>2 DEF LoadManifest, OpenStream, OpenDone, InternDomain, CreateStream,
                RegisterStream, call, PhaseInv
  <2>. QED  BY <1>1, <2>1
<1>3. CASE \/ \E b \in Batches : Begin(b)
           \/ PlanFails \/ Finish
  <2>1. touched' = <<>> /\ phase' \in {"plan", "idle"}
    BY <1>3 DEF Begin, PlanFails, Finish, PhaseInv
  <2>. QED  BY <2>1 DEF PhaseInv, Writing
<1>4. CASE Planned
  <2>1. /\ UNCHANGED <<batch, touched, active>> /\ phase' = "append" /\ touched = <<>>
        /\ \A i \in DOMAIN batch : active[Home[batch[i].key]] # 0
    BY <1>4, MissingNone DEF Planned, call, PhaseInv
  <2>. QED  BY <2>1 DEF PhaseInv, Writing
<1>5. CASE Append1
  <2>. DEFINE s == Home[Head(batch).key]
  <2>1. batch # <<>> /\ batch' = Tail(batch) /\ active' = active
        /\ phase = "append" /\ phase' \in {"append", "sync"}
        /\ touched' = IF \E i \in DOMAIN touched : touched[i] = s
                      THEN touched ELSE Append(touched, s)
    BY <1>5 DEF Append1
  <2>2. s \in Streams /\ active[s] # 0
    BY <2>1, AppendedRecord
  <2>3. \A i \in DOMAIN batch' : active'[Home[batch'[i].key]] # 0
    BY <2>1, BatchHead DEF PhaseInv, Writing
  <2>. HIDE DEF s
  <2>4. \A i \in DOMAIN touched' : active'[touched'[i]] # 0
    BY <2>1, <2>2 DEF PhaseInv, Writing
  <2>5. \A i, j \in DOMAIN touched' : touched'[i] = touched'[j] => i = j
    BY <2>1, <2>2 DEF PhaseInv
  <2>6. touched' # <<>>
    BY <2>1, <2>2
  <2>. QED  BY <2>1, <2>3, <2>4, <2>5, <2>6 DEF PhaseInv, Writing
<1>6. CASE Commit
  <2>1. /\ touched # <<>> /\ UNCHANGED <<batch, active>> /\ phase = "sync"
        /\ \/ phase' = "roll" /\ touched' = touched
           \/ phase' = AfterStream(Tail(touched)) /\ touched' = Tail(touched)
    BY <1>6 DEF Commit, PhaseInv
  <2>2. CASE phase' = "roll" /\ touched' = touched
    BY <2>1, <2>2 DEF PhaseInv, Writing
  <2>3. CASE phase' = AfterStream(Tail(touched)) /\ touched' = Tail(touched)
    <3>1. \A i \in DOMAIN touched' : active'[touched'[i]] # 0
      BY <2>1, <2>3, TouchedTail DEF PhaseInv, Writing
    <3>. QED  BY <2>1, <2>3, <3>1, TouchedTail DEF PhaseInv, Writing
  <2>. QED  BY <2>1, <2>2, <2>3
<1>7. CASE RollCreate
  <2>. DEFINE s == Head(touched)
  <2>1. /\ touched # <<>> /\ UNCHANGED <<batch, touched>> /\ phase = "roll" /\ phase' = "stamp"
        /\ sealing' = active[s] /\ manifest.pid \in Pids
        /\ active' = [active EXCEPT ![s] = manifest.pid]
    BY <1>7 DEF RollCreate, PhaseInv
  <2>2. s \in Streams /\ s = touched[1] /\ 1 \in DOMAIN touched /\ active[s] # 0
    BY <2>1, TouchedHead DEF PhaseInv, Writing
  <2>3. active[s] \in Pids /\ Whole(files[s][active[s]], version)
    BY <2>2, ActiveFile
  <2>4. files[s][active[s]] # Absent
    BY <2>3, AbsentAssumption DEF Whole
  <2>5. files'[s][active[s]] # Absent
    BY <2>2, <2>3, <2>4, FilesStep DEF FilesEvolve, Evolves
  <2>6. manifest.pid # 0
    BY <2>1, BoundsAssumption DEF Pids
  <2>7. \A u \in Streams : active[u] # 0 => active'[u] # 0
    BY <2>1, <2>6
  <2>8. \A i \in DOMAIN batch : Home[batch[i].key] \in Streams
    <3>1. \A i \in DOMAIN batch : batch[i] \in Pending
      OBVIOUS
    <3>. QED  BY <3>1, KeysAssumption DEF Pending
  <2>9. /\ \A i \in DOMAIN batch' : active'[Home[batch'[i].key]] # 0
        /\ \A i \in DOMAIN touched' : active'[touched'[i]] # 0
    BY <2>1, <2>7, <2>8 DEF PhaseInv, Writing
  <2>. QED  BY <2>1, <2>2, <2>5, <2>9 DEF PhaseInv, Writing
<1>8. CASE Stamp
  <2>1. /\ UNCHANGED <<batch, touched, sealing, active>> /\ phase = "stamp" /\ phase' = "harden"
        /\ touched # <<>> /\ sealing # 0 /\ files[Head(touched)][sealing] # Absent
    BY <1>8 DEF Stamp, PhaseInv, call
  <2>2. Head(touched) \in Streams /\ sealing \in Pids
    BY <2>1, TouchedHead DEF TypeOK
  <2>3. files'[Head(touched)][sealing] # Absent
    BY <2>1, <2>2, FilesStep DEF FilesEvolve, Evolves
  <2>. QED  BY <2>1, <2>3 DEF PhaseInv, Writing
<1>9. CASE Harden
  <2>1. /\ touched # <<>> /\ UNCHANGED <<batch, active>> /\ phase = "harden"
        /\ phase' = AfterStream(Tail(touched)) /\ touched' = Tail(touched)
    BY <1>9 DEF Harden, PhaseInv
  <2>2. \A i \in DOMAIN touched' : active'[touched'[i]] # 0
    BY <2>1, TouchedTail DEF PhaseInv, Writing
  <2>. QED  BY <2>1, <2>2, TouchedTail DEF PhaseInv, Writing
<1>10. CASE WriteFails
    BY <1>10 DEF WriteFails, PhaseInv, Writing, call
<1>11. CASE Killed \/ PowerCut
  <2>1. phase' = "down" /\ batch' = <<>> /\ touched' = <<>>
    BY <1>11 DEF Killed, PowerCut, Crash
  <2>. QED  BY <2>1 DEF PhaseInv, Writing
<1>12. CASE UNCHANGED vars
    BY <1>12 DEF vars, PhaseInv
<1>. QED  BY <1>2, <1>3, <1>4, <1>5, <1>6, <1>7, <1>8, <1>9, <1>10, <1>11, <1>12
          DEF Next, Step

---------------------------------------------------------------------------
(* The way of a record to the disk, and the acknowledgement.               *)

(* In a stream whose active partition is untouched, what it holds stays.   *)
LEMMA InActiveStays ==
    ASSUME NEW r \in Pending, InActive(r),
           active'[Home[r.key]] = active[Home[r.key]],
           files'[Home[r.key]][active[Home[r.key]]].data
             = files[Home[r.key]][active[Home[r.key]]].data
    PROVE  InActive(r)'
    BY DEF InActive

(* A sequence after an append.                                             *)
LEMMA AppendFacts ==
    ASSUME NEW S, NEW q \in Seq(S), NEW x \in S
    PROVE  /\ \A i \in DOMAIN q : i \in DOMAIN Append(q, x) /\ Append(q, x)[i] = q[i]
           /\ Len(q) + 1 \in DOMAIN Append(q, x) /\ Append(q, x)[Len(q) + 1] = x
    OBVIOUS

(* Every step keeps the records of the batch on their way.                 *)
LEMMA InflightInvStep ==
    ASSUME IInv, [Next]_vars
    PROVE  InflightInv'
<1>. /\ TypeOK /\ PhaseInv
     /\ files \in [Streams -> [Pids -> Partition \cup {Absent}]]
     /\ batch \in Seq(Pending) /\ touched \in Seq(Streams)
     /\ active \in [Streams -> Pids \cup {0}]
     /\ inflight \subseteq Pending
    BY DEF IInv, TypeOK
<1>0. \A r \in inflight : Home[r.key] \in Streams
    BY KeysAssumption DEF Pending
<1>1. CASE phase' \notin Writing \cup {"plan"}
    BY <1>1 DEF InflightInv, Writing
<1>2. CASE LoadManifest \/ OpenDone \/ Finish \/ PlanFails \/ WriteFails \/ Killed \/ PowerCut
    BY <1>1, <1>2 DEF LoadManifest, OpenDone, Finish, PlanFails, WriteFails, Killed, PowerCut,
                      Crash, Writing
<1>3. CASE \E s \in Streams : OpenStream(s)
    BY <1>1, <1>3 DEF OpenStream, Writing
<1>4. CASE InternDomain \/ CreateStream \/ RegisterStream
    BY <1>4 DEF InternDomain, CreateStream, RegisterStream, call, hist, IInv, InflightInv, Writing
<1>5. ASSUME NEW b \in Batches, Begin(b)
      PROVE  InflightInv'
  <2>1. Len(b) \in Nat
    BY BatchLength
  <2>2. \A r \in inflight' : \E i \in DOMAIN batch' : batch'[i] = r
    BY <1>5, <2>1 DEF Begin
  <2>. QED  BY <1>5, <2>2 DEF Begin, InflightInv, Writing
<1>6. CASE Planned
    BY <1>6 DEF Planned, IInv, InflightInv, Writing, call, hist
<1>7. CASE Append1
  <2>0. PICK h \in Pending : h = Head(batch)
    BY <1>7, BatchHead DEF Append1
  <2>. DEFINE s == Home[h.key]
              rec == [seq |-> nextSeq, key |-> h.key, ver |-> h.ver]
              f == files[s][active[s]]
  <2>1. /\ batch # <<>> /\ batch' = Tail(batch) /\ active' = active /\ phase = "append"
        /\ phase' = (IF Tail(batch) = <<>> THEN "sync" ELSE "append")
        /\ touched' = IF \E i \in DOMAIN touched : touched[i] = s
                      THEN touched ELSE Append(touched, s)
        /\ files' = [files EXCEPT ![s][active[s]] = Appended(f, rec)]
        /\ inflight' = inflight
    BY <1>7, <2>0 DEF Append1, hist
  <2>2. s \in Streams /\ active[s] # 0 /\ rec \in Record /\ rec.seq <= version
    BY <2>0, <2>1, AppendedRecord
  <2>3. active[s] \in Pids /\ Whole(f, version) /\ version \in Nat
    BY <2>2, ActiveFile DEF TypeOK
  <2>a. rec.key = h.key /\ rec.ver = h.ver
    OBVIOUS
  <2>b. Home[h.key] = s
    OBVIOUS
  <2>. HIDE DEF rec, s
  <2>4. Appended(f, rec).data = Append(f.data, rec) /\ f.data \in Seq(Record)
    BY <2>2, <2>3, EvolveAppend, WholeFields
  <2>5. files'[s][active[s]].data = Append(f.data, rec)
    BY <2>1, <2>2, <2>3, <2>4
  <2>6. \A u \in Streams : u # s => files'[u] = files[u]
    BY <2>1
  <2>7. \E i \in DOMAIN touched' : touched'[i] = s
    <3>1. CASE \E i \in DOMAIN touched : touched[i] = s
      BY <2>1, <3>1
    <3>2. CASE ~ \E i \in DOMAIN touched : touched[i] = s
      <4>1. touched' = Append(touched, s)
        BY <2>1, <3>2
      <4>. QED  BY <2>2, <4>1, AppendFacts
    <3>. QED  BY <3>1, <3>2
  <2>8. \A i \in DOMAIN touched : i \in DOMAIN touched' /\ touched'[i] = touched[i]
    BY <2>1, <2>2, AppendFacts
  <2>9. phase' \notin Rolling /\ phase \notin Rolling
    BY <2>1 DEF Rolling
  <2>10. \A u : CommitAhead(u) => CommitAhead(u)'
    BY <2>8, <2>9 DEF CommitAhead
  <2>11. CommitAhead(s)'
    BY <2>7, <2>9, Zenon DEF CommitAhead
  <2>12. InActive(h)'
    <3>1. /\ Len(f.data) + 1 \in DOMAIN Append(f.data, rec)
          /\ Append(f.data, rec)[Len(f.data) + 1] = rec
      BY <2>2, <2>4, AppendFacts
    <3>. QED  BY <2>1, <2>5, <2>a, <2>b, <3>1 DEF InActive
  <2>13. \A r \in inflight : InActive(r) => InActive(r)'
    <3>. SUFFICES ASSUME NEW r \in inflight, InActive(r) PROVE InActive(r)'
      OBVIOUS
    <3>1. CASE Home[r.key] = s
      <4>1. PICK i \in DOMAIN f.data : f.data[i].key = r.key /\ f.data[i].ver = r.ver
        BY <3>1 DEF InActive
      <4>2. i \in DOMAIN Append(f.data, rec) /\ Append(f.data, rec)[i] = f.data[i]
        BY <2>2, <2>4, AppendFacts
      <4>3. /\ i \in DOMAIN files'[s][active'[s]].data
            /\ files'[s][active'[s]].data[i].key = r.key
            /\ files'[s][active'[s]].data[i].ver = r.ver
        BY <2>1, <2>5, <4>1, <4>2
      <4>. QED  BY <3>1, <4>3 DEF InActive
    <3>2. CASE Home[r.key] # s
      BY <1>0, <2>1, <2>6, <3>2, InActiveStays
    <3>. QED  BY <3>1, <3>2
  <2>14. \A r \in inflight :
           \/ Durable(r)
           \/ \E i \in DOMAIN batch : batch[i] = r
           \/ CommitAhead(Home[r.key]) /\ InActive(r)
    BY <2>1 DEF IInv, InflightInv, Writing
  <2>15. ASSUME NEW r \in inflight, NEW i \in DOMAIN batch, batch[i] = r
         PROVE  \/ phase' = "append" /\ \E j \in DOMAIN batch' : batch'[j] = r
                \/ (CommitAhead(Home[r.key]) /\ InActive(r))'
    <3>1. CASE i = 1
      <4>1. r = h
        BY <2>0, <2>1, <2>15, <3>1, BatchHead
      <4>. QED  BY <2>11, <2>12, <2>b, <4>1
    <3>2. CASE i # 1
      <4>1. i - 1 \in DOMAIN Tail(batch) /\ Tail(batch)[i - 1] = r
        BY <2>1, <2>15, <3>2, BatchHead
      <4>2. Tail(batch) # <<>>
        BY <4>1
      <4>. QED  BY <2>1, <4>1, <4>2
    <3>. QED  BY <3>1, <3>2
  <2>. QED  BY <2>1, <2>10, <2>13, <2>14, <2>15, DurableStays DEF InflightInv, Writing
<1>8. ASSUME phase \in {"sync", "roll", "stamp", "harden"}, touched # <<>>, inflight' = inflight,
             phase' \in Writing \ {"append"},
             \A r \in inflight : CommitAhead(Home[r.key]) /\ InActive(r) =>
                                   Durable(r)' \/ (CommitAhead(Home[r.key]) /\ InActive(r))'
      PROVE  InflightInv'
    BY <1>8, DurableStays DEF InflightInv, IInv, Writing
(* Once the first touched stream is dealt with, the others stay ahead.     *)
<1>9. ASSUME touched # <<>>, touched' = Tail(touched), phase' = AfterStream(Tail(touched)),
             NEW u \in Streams, u # Head(touched), CommitAhead(u)
      PROVE  CommitAhead(u)'
  <2>1. PICK i \in DOMAIN touched : touched[i] = u
    BY <1>9 DEF CommitAhead
  <2>2. i > 1
    BY <1>9, <2>1, TouchedHead
  <2>3. i - 1 \in DOMAIN touched' /\ touched'[i - 1] = u
    BY <1>9, <2>1, <2>2, TouchedTail
  <2>4. phase' \notin Rolling
    BY <1>9, TouchedTail DEF Rolling
  <2>. QED  BY <2>3, <2>4 DEF CommitAhead
(* While the first one rolls, only the others are ahead.                   *)
<1>10. ASSUME touched # <<>>, phase \in Rolling, NEW u \in Streams, CommitAhead(u)
       PROVE  u # Head(touched)
  <2>1. PICK i \in DOMAIN touched : touched[i] = u /\ i > 1
    BY <1>10 DEF CommitAhead
  <2>2. Head(touched) = touched[1] /\ 1 \in DOMAIN touched
    BY <1>10, TouchedHead
  <2>. QED  BY <2>1, <2>2 DEF PhaseInv
<1>11. CASE Commit
  <2>0. PICK s \in Streams : s = Head(touched)
    BY <1>11, TouchedHead DEF Commit, PhaseInv
  <2>. DEFINE f == files[s][active[s]]
  <2>1. /\ touched # <<>> /\ phase = "sync" /\ active' = active /\ inflight' = inflight
        /\ files' = [files EXCEPT ![s][active[s]] = Committed(f)]
        /\ \/ phase' = "roll" /\ touched' = touched
           \/ phase' = AfterStream(Tail(touched)) /\ touched' = Tail(touched)
    BY <1>11, <2>0 DEF Commit, PhaseInv, hist
  <2>2. active[s] # 0
    BY <2>0, <2>1, TouchedHead DEF PhaseInv, Writing
  <2>3. active[s] \in Pids /\ f \in Partition
    BY <2>2, ActiveFile
  <2>4. /\ Committed(f).data = f.data /\ Committed(f).synced = Len(f.data)
        /\ Committed(f) # Absent /\ f.data \in Seq(Record)
    BY <2>3, PartitionOps, AbsentAssumption DEF Committed, Partition
  <2>5. /\ files'[s][active[s]] = Committed(f)
        /\ \A u \in Streams : u # s => files'[u] = files[u]
    BY <2>1, <2>2, <2>3
  <2>6. ASSUME NEW r \in inflight, CommitAhead(Home[r.key]), InActive(r)
        PROVE  Durable(r)' \/ (CommitAhead(Home[r.key]) /\ InActive(r))'
    <3>1. CASE Home[r.key] = s
      <4>1. PICK i \in DOMAIN f.data : f.data[i].key = r.key /\ f.data[i].ver = r.ver
        BY <2>6, <3>1 DEF InActive
      <4>2. i \in 1 .. files'[s][active[s]].synced
            /\ files'[s][active[s]].data[i] = f.data[i]
        BY <2>4, <2>5
      <4>3. active[s] \in Present(s)'
        BY <2>2, <2>3, <2>4, <2>5 DEF Present
      <4>4. PICK d, p : /\ d = f.data[i] /\ p = active[s]
                        /\ d \in {files'[s][p].data[j] : j \in 1 .. files'[s][p].synced}
        BY <4>2
      <4>5. p \in Present(s)'
        BY <4>3, <4>4
      <4>6. d \in DurableRecords(s)'
        BY <4>4, <4>5 DEF DurableRecords
      <4>7. d.key = r.key /\ d.ver = r.ver
        BY <4>1, <4>4
      <4>. QED  BY <3>1, <4>6, <4>7 DEF Durable
    <3>2. CASE Home[r.key] # s
      <4>1. InActive(r)'
        BY <1>0, <2>1, <2>5, <2>6, <3>2, InActiveStays
      <4>2. CommitAhead(Home[r.key])'
        <5>1. CASE phase' = "roll" /\ touched' = touched
          <6>1. PICK i \in DOMAIN touched : touched[i] = Home[r.key]
            BY <2>6 DEF CommitAhead
          <6>2. i > 1
            BY <2>0, <2>1, <3>2, <6>1, TouchedHead
          <6>. QED  BY <5>1, <6>1, <6>2 DEF CommitAhead
        <5>2. CASE phase' = AfterStream(Tail(touched)) /\ touched' = Tail(touched)
          BY <1>0, <1>9, <2>0, <2>1, <2>6, <3>2, <5>2
        <5>. QED  BY <2>1, <5>1, <5>2
      <4>. QED  BY <4>1, <4>2
    <3>. QED  BY <3>1, <3>2
  <2>7. phase' \in Writing \ {"append"}
    BY <2>1, TouchedTail DEF Writing
  <2>. QED  BY <1>8, <2>1, <2>6, <2>7
<1>12. CASE RollCreate \/ Stamp \/ Harden
  <2>. DEFINE s == Head(touched)
  <2>1. /\ phase \in Rolling /\ touched # <<>> /\ inflight' = inflight
        /\ \/ active' = active
           \/ \E p : active' = [active EXCEPT ![s] = p]
        /\ \E p, g : files' = [files EXCEPT ![s][p] = g]
        /\ \/ phase' \in Rolling /\ touched' = touched
           \/ phase' = AfterStream(Tail(touched)) /\ touched' = Tail(touched)
    <3>1. CASE RollCreate
      BY <3>1 DEF RollCreate, Rolling, PhaseInv, hist
    <3>2. CASE Stamp
      BY <3>2 DEF Stamp, Rolling, PhaseInv, call, hist
    <3>3. CASE Harden
      BY <3>3 DEF Harden, Rolling, PhaseInv, hist
    <3>. QED  BY <1>12, <3>1, <3>2, <3>3
  <2>2. \A u \in Streams : u # s => files'[u] = files[u] /\ active'[u] = active[u]
    BY <2>1
  <2>3. ASSUME NEW r \in inflight, CommitAhead(Home[r.key]), InActive(r)
        PROVE  (CommitAhead(Home[r.key]) /\ InActive(r))'
    <3>1. Home[r.key] # s
      BY <1>0, <1>10, <2>1, <2>3
    <3>2. InActive(r)'
      BY <1>0, <2>2, <2>3, <3>1, InActiveStays
    <3>3. CommitAhead(Home[r.key])'
      <4>1. CASE phase' \in Rolling /\ touched' = touched
        BY <2>1, <2>3, <4>1 DEF CommitAhead
      <4>2. CASE phase' = AfterStream(Tail(touched)) /\ touched' = Tail(touched)
        BY <1>0, <1>9, <2>1, <2>3, <3>1, <4>2
      <4>. QED  BY <2>1, <4>1, <4>2
    <3>. QED  BY <3>2, <3>3
  <2>4. phase' \in Writing \ {"append"} /\ phase \in {"sync", "roll", "stamp", "harden"}
    BY <2>1, TouchedTail DEF Writing, Rolling
  <2>. QED  BY <1>8, <2>1, <2>3, <2>4
<1>13. CASE UNCHANGED vars
  <2>1. UNCHANGED <<files, active, phase, touched, batch, inflight>>
    BY <1>13 DEF vars
  <2>2. ASSUME NEW r \in Pending, InActive(r) PROVE InActive(r)'
    BY <2>1, <2>2 DEF InActive
  <2>3. ASSUME NEW r \in Pending, CommitAhead(Home[r.key]) PROVE CommitAhead(Home[r.key])'
    BY <2>1, <2>3 DEF CommitAhead
  <2>4. CASE phase = "plan"
    BY <2>1, <2>4 DEF IInv, InflightInv, Writing
  <2>5. CASE phase \in Writing
    <3>1. \A r \in inflight :
            \/ Durable(r)'
            \/ phase = "append" /\ \E i \in DOMAIN batch : batch[i] = r
            \/ CommitAhead(Home[r.key])' /\ InActive(r)'
      BY <2>2, <2>3, <2>5, DurableStays DEF IInv, InflightInv
    <3>. QED  BY <2>1, <2>5, <3>1 DEF InflightInv, Writing
  <2>. QED  BY <1>1, <2>1, <2>4, <2>5
<1>. QED  BY <1>2, <1>3, <1>4, <1>5, <1>6, <1>7, <1>11, <1>12, <1>13 DEF Next, Step

(* Only Finish acknowledges, and what it acknowledges is durable by then.  *)
LEMMA AckedOnDiskStep ==
    ASSUME IInv, [Next]_vars
    PROVE  AckedOnDisk'
<1>1. \A k \in Keys : Home[k] \in Streams
    BY KeysAssumption
<1>2. ASSUME NEW k \in Keys, NEW v,
             \E r \in DurableRecords(Home[k]) : r.key = k /\ r.ver = v
      PROVE  \E r \in DurableRecords(Home[k])' : r.key = k /\ r.ver = v
    BY <1>1, <1>2, DurableGrows
<1>3. CASE acked' = acked
    BY <1>2, <1>3 DEF IInv, AckedOnDisk
<1>4. CASE Finish
  <2>1. acked' = Latest(acked) /\ acked \in [Keys -> Versions \cup {0}]
        /\ phase = "save" /\ inflight \subseteq Pending
    BY <1>4 DEF Finish, IInv, TypeOK
  <2>2. \A r \in inflight : Durable(r)
    BY <2>1 DEF IInv, InflightInv, PhaseInv, CommitAhead, Writing
  <2>. SUFFICES ASSUME NEW k \in Keys, acked'[k] # 0
                PROVE  \E r \in DurableRecords(Home[k])' : r.key = k /\ r.ver = acked'[k]
    BY DEF AckedOnDisk
  <2>3. CASE acked'[k] = acked[k]
    BY <1>2, <2>3 DEF IInv, AckedOnDisk
  <2>4. CASE \E r \in inflight : r.key = k /\ r.ver = acked'[k]
    BY <1>2, <2>2, <2>4 DEF Durable
  <2>. QED  BY <2>1, <2>3, <2>4, LatestValue
<1>5. CASE \/ LoadManifest \/ (\E s \in Streams : OpenStream(s)) \/ OpenDone
           \/ (\E b \in Batches : Begin(b)) \/ InternDomain \/ CreateStream \/ RegisterStream
           \/ Planned \/ PlanFails \/ Append1 \/ Commit \/ RollCreate \/ Stamp \/ Harden
           \/ WriteFails \/ Killed \/ PowerCut \/ UNCHANGED vars
  <2>1. acked' = acked
    BY <1>5 DEF LoadManifest, OpenStream, OpenDone, Begin, InternDomain, CreateStream,
                RegisterStream, Planned, PlanFails, Append1, Commit, RollCreate, Stamp, Harden,
                WriteFails, Killed, PowerCut, Crash, vars, hist
  <2>. QED  BY <1>3, <2>1
<1>. QED  BY <1>4, <1>5 DEF Next, Step

---------------------------------------------------------------------------

(* The invariant holds at first.                                           *)
LEMMA Initially == Init => IInv
<1>. SUFFICES ASSUME Init PROVE IInv
    OBVIOUS
<1>1. \A s \in Streams, p \in Pids : files[s][p] = Absent
    BY DEF Init
<1>2. batch = <<>> /\ touched = <<>> /\ Len(batch) = 0
    BY EmptySeq DEF Init
<1>3. TypeOK
  <2>1. saved \in Manifest /\ manifest \in Manifest
    BY StreamsAssumption DEF Init, Manifest
  <2>2. /\ files \in [Streams -> [Pids -> Partition \cup {Absent}]]
        /\ active \in [Streams -> Pids \cup {0}]
        /\ nextSeq \in 1 .. MaxVersion + 1 /\ version \in 0 .. MaxVersion
    BY BoundsAssumption DEF Init, Closed
  <2>3. /\ issued \in [Keys -> SUBSET Versions]
        /\ acked \in [Keys -> Versions \cup {0}]
        /\ shown \in [Keys -> Versions \cup {0}]
        /\ relied \in [Keys -> Versions \cup {0}]
    BY DEF Init, Nothing
  <2>4. /\ phase \in Phases /\ sealing \in Pids \cup {0} /\ dirty \in BOOLEAN
        /\ inflight \subseteq Pending
        /\ batch \in Seq(Pending) /\ touched \in Seq(Streams)
    BY <1>2, EmptySeq DEF Init, Phases
  <2>. QED  BY <2>1, <2>2, <2>3, <2>4 DEF TypeOK
<1>4. FilesInv /\ OpenInv
    BY <1>1 DEF FilesInv, OpenInv, Init, Closed
<1>5. SeqInv
    BY <1>2, StreamsAssumption DEF SeqInv, Init
<1>6. PhaseInv /\ InflightInv
    BY <1>2 DEF PhaseInv, InflightInv, Init, Writing
<1>7. AckedOnDisk
    BY DEF AckedOnDisk, Init, Nothing
<1>. QED  BY <1>3, <1>4, <1>5, <1>6, <1>7 DEF IInv

(* The invariant is inductive.                                             *)
LEMMA Inductive == IInv /\ [Next]_vars => IInv'
    BY TypeStep, FilesInvStep, OpenInvStep, SeqInvStep, PhaseInvStep, InflightInvStep,
       AckedOnDiskStep DEF IInv

(* Every reachable state of the store -- in a call, between two steps of a *)
(* roll, after a crash, while reopening -- has the types the code gives.   *)
THEOREM TypeCorrect == Spec => []TypeOK
<1>1. IInv => TypeOK
    BY DEF IInv
<1>. QED  BY Initially, Inductive, <1>1, PTL DEF Spec

(* No step loses an acknowledged record: a batch returns Ok only when each *)
(* touched stream was synced, and after that no roll, failure, kill, power *)
(* cut or reopening takes a synced record out of the files.                *)
THEOREM AckedStaysOnDisk == Spec => []AckedOnDisk
<1>1. IInv => AckedOnDisk
    BY DEF IInv
<1>. QED  BY Initially, Inductive, <1>1, PTL DEF Spec

===========================================================================
