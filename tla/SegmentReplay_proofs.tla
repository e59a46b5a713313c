------------------------ MODULE SegmentReplay_proofs ------------------------
(***************************************************************************)
(* More theorems about the write path of the segment store: the order of   *)
(* its records, and what it is for.                                        *)
(*                                                                         *)
(* A seq is only ever recomputed from what a recovery finds, so its order  *)
(* rests on all of the files: that the active partition is the last of its *)
(* stream, that the indexes of the others miss no record, and that every   *)
(* stream with records is in the manifest that is opened.                  *)
(*                                                                         *)
(* Then a replay shows what the graph showed, and the store keeps the      *)
(* promise of the trait (DurableStore): versions and seqs are in the same  *)
(* order in every stream, the batch in progress is newer than all that is  *)
(* stored, and what the graph does not know yet is exactly the part of the *)
(* batch that was appended.                                                *)
(***************************************************************************)
EXTENDS SegmentStore_proofs

(* A stream that is open: its active partition is its last, the next id is *)
(* beyond all of its ids, and what is not active is indexed and durable to *)
(* its end.                                                                *)
Full(f) == f.idx = Len(f.data) /\ f.synced = Len(f.data)

LastAt(s) ==
    active[s] # 0 =>
        \A p \in Pids : files[s][p] # Absent =>
            /\ p <= active[s] /\ p < manifest.pid
            /\ p # active[s] => Full(files[s][p])

LastInv == \A s \in Streams : LastAt(s)

(* A count is stamped on durable records only.                             *)
StampInv ==
    \A s \in Streams, p \in Pids : files[s][p] # Absent => files[s][p].stamp <= files[s][p].synced

(* What a roll has in hand, between its steps.                             *)
RollInv ==
    /\ phase = "roll" => Full(files[Head(touched)][active[Head(touched)]])
    /\ phase \in {"stamp", "harden"} => sealing # active[Head(touched)]

(* An open stream is in the saved manifest; a process that is down has     *)
(* none.                                                                   *)
NsInv ==
    /\ saved.ns \subseteq manifest.ns
    /\ phase = "open" => manifest.ns = saved.ns
    /\ phase = "down" => \A s \in Streams : active[s] = 0
    /\ \A s \in Streams : active[s] # 0 => s \in saved.ns

(* The seqs on disk are below the next one.                                *)
Below == \A s \in Streams : \A r \in StreamRecords(s) : r.seq < nextSeq
BelowInv == phase \notin {"down", "open"} => Below

JInv ==
    /\ IInv
    /\ LastInv /\ StampInv /\ RollInv /\ NsInv /\ BelowInv
    /\ StreamOrdered /\ SeqUnique /\ DomainKnown

---------------------------------------------------------------------------
(* What a change of one stream leaves alone.                               *)
LEMMA PointStream ==
    ASSUME TypeOK, NEW s \in Streams, files' = [files EXCEPT ![s] = Opened(s)]
    PROVE  \A u \in Streams, q \in Pids :
              files'[u][q] = IF u = s THEN Opened(s)[q] ELSE files[u][q]
<1>1. files \in [Streams -> [Pids -> Partition \cup {Absent}]]
    BY DEF TypeOK
<1>. QED  BY <1>1

(* A file that is there is a partition, and whole.                         *)
LEMMA FileFacts ==
    ASSUME IInv, NEW s \in Streams, NEW p \in Pids, files[s][p] # Absent
    PROVE  /\ files[s][p] \in Partition /\ Whole(files[s][p], version)
           /\ files[s][p].data \in Seq(Record) /\ Len(files[s][p].data) \in Nat
           /\ files[s][p].flushed \in Nat /\ files[s][p].synced \in Nat
           /\ files[s][p].torn \in BOOLEAN
           /\ files[s][p].idx \in Nat /\ files[s][p].stamp \in Nat
           /\ files[s][p].hard \in BOOLEAN
           /\ files[s][p].synced <= files[s][p].flushed
           /\ files[s][p].flushed <= Len(files[s][p].data)
           /\ DOMAIN files[s][p].data = 1 .. Len(files[s][p].data)
           /\ \A i \in 1 .. Len(files[s][p].data) :
                 files[s][p].data[i] \in Record /\ files[s][p].data[i].seq \in Nat
<1>1. Whole(files[s][p], version)
    BY DEF IInv, FilesInv
<1>2. files[s][p] \in Partition
    BY <1>1 DEF Whole
<1>3. files[s][p].data \in Seq(Record)
    BY <1>2 DEF Partition
<1>4. \A i \in 1 .. Len(files[s][p].data) : files[s][p].data[i] \in Record
    BY <1>3, ElementOfSeq
<1>5. \A i \in 1 .. Len(files[s][p].data) : files[s][p].data[i].seq \in Nat
    BY <1>4 DEF Record, Versions
<1>. QED  BY <1>1, <1>2, <1>3, <1>4, <1>5, WholeFields

(* What the operations in place leave of a partition's fields.             *)
LEMMA InPlaceFields ==
    ASSUME NEW f \in Partition
    PROVE  /\ /\ Committed(f).data = f.data /\ Committed(f).synced = Len(f.data)
              /\ Committed(f).idx = Len(f.data) /\ Committed(f).stamp = f.stamp
           /\ /\ Stamped(f).data = f.data /\ Stamped(f).synced = f.synced
              /\ Stamped(f).idx = f.idx /\ Stamped(f).stamp = f.idx
           /\ /\ Sealed(f).data = f.data /\ Sealed(f).synced = Len(f.data)
              /\ Sealed(f).idx = Len(f.data) /\ Sealed(f).stamp = Len(f.data)
           /\ /\ Recovered(f).data = f.data /\ Recovered(f).stamp = f.stamp
              /\ Recovered(f).idx = Len(f.data)
              /\ Recovered(f).synced = IF f.torn THEN Len(f.data) ELSE f.synced
    BY DEF Committed, Stamped, Sealed, Recovered, Partition

(* A stream that is opened: the same partitions, with the same records;    *)
(* all but the last one full.                                              *)
LEMMA OpenedFacts ==
    ASSUME IInv, StampInv, NEW s \in Streams, NEW p \in Pids
    PROVE  /\ files[s][p] = Absent <=> Opened(s)[p] = Absent
           /\ files[s][p] # Absent =>
                 /\ Opened(s)[p].data = files[s][p].data
                 /\ Opened(s)[p].stamp <= Opened(s)[p].synced
                 /\ p # Max(Present(s)) => Full(Opened(s)[p])
<1>1. CASE files[s][p] = Absent
    BY <1>1 DEF Opened, Present
<1>2. CASE files[s][p] # Absent
  <2>. DEFINE f == files[s][p]
  <2>1. /\ f \in Partition /\ Len(f.data) \in Nat /\ f.synced \in Nat /\ f.stamp \in Nat
        /\ f.synced <= Len(f.data) /\ f.stamp <= f.synced
    <3>1. f.synced <= f.flushed /\ f.flushed <= Len(f.data) /\ f.flushed \in Nat
        BY <1>2, FileFacts
    <3>. QED  BY <1>2, <3>1, FileFacts DEF StampInv
  <2>2. p \in Present(s)
    BY <1>2 DEF Present
  <2>3. CASE p = Max(Present(s))
    <3>1. Opened(s)[p] = Recovered(f)
      BY <2>2, <2>3 DEF Opened
    <3>2. Recovered(f) # Absent
      BY <2>1, PartitionOps, AbsentAssumption
    <3>. HIDE DEF f
    <3>3. Recovered(f).data = f.data /\ Recovered(f).stamp <= Recovered(f).synced
      BY <2>1, InPlaceFields
    <3>. QED  BY <1>2, <2>3, <3>1, <3>2, <3>3 DEF f
  <2>4. CASE p # Max(Present(s)) /\ SealedOk(f)
    <3>1. Opened(s)[p] = f
      BY <2>2, <2>4 DEF Opened
    <3>2. Full(f)
      BY <2>1, <2>4 DEF SealedOk, Full
    <3>. QED  BY <1>2, <2>1, <3>1, <3>2
  <2>5. CASE p # Max(Present(s)) /\ ~SealedOk(f)
    <3>1. Opened(s)[p] = Sealed(f)
      BY <2>2, <2>5 DEF Opened
    <3>2. Sealed(f) # Absent
      BY <2>1, PartitionOps, AbsentAssumption
    <3>. HIDE DEF f
    <3>3. Sealed(f).data = f.data /\ Sealed(f).stamp <= Sealed(f).synced /\ Full(Sealed(f))
      BY <2>1, InPlaceFields DEF Full
    <3>. QED  BY <1>2, <3>1, <3>2, <3>3 DEF f
  <2>. QED  BY <2>3, <2>4, <2>5
<1>. QED  BY <1>1, <1>2

(* What the end of the process leaves of a partition: the count is still   *)
(* on durable records, and the records are the first ones, all of them if  *)
(* they were durable.                                                      *)
ShrunkTo(f, g) ==
    /\ g.stamp <= g.synced
    /\ Len(g.data) <= Len(f.data)
    /\ \A i \in 1 .. Len(g.data) : g.data[i] = f.data[i]
    /\ f.synced = Len(f.data) => g.data = f.data

(* The image of a crash is a shrunk file.                                  *)
LEMMA ImageFacts ==
    ASSUME NEW v, NEW f, Whole(f, v), f.stamp <= f.synced, NEW keep \in Nat,
           NEW torn \in BOOLEAN, NEW power \in BOOLEAN, NEW indexed \in BOOLEAN,
           NEW stamped \in BOOLEAN
    PROVE  ShrunkTo(f, Image(f, Left(f, keep, power), torn, power, indexed, stamped))
<1>. DEFINE n == Left(f, keep, power)
            g == Image(f, n, torn, power, indexed, stamped)
<1>1. /\ f.data \in Seq(Record) /\ Len(f.data) \in Nat
      /\ f.flushed \in Nat /\ f.synced \in Nat /\ f.stamp \in Nat
      /\ f.synced <= f.flushed /\ f.flushed <= Len(f.data)
    BY WholeFields
<1>2. n \in Nat /\ f.synced <= n /\ n <= Len(f.data)
    BY <1>1 DEF Left, Sure
<1>. HIDE DEF n
<1>3. g.data = SubSeq(f.data, 1, n)
    BY DEF Image
<1>4. g.synced = IF power THEN n ELSE f.synced
    BY DEF Image
<1>5. g.stamp = f.stamp \/ g.stamp = 0
    BY DEF Image
<1>. HIDE DEF g
<1>6. g.stamp <= g.synced
    BY <1>1, <1>2, <1>4, <1>5
<1>7. Len(g.data) = n /\ \A i \in 1 .. n : g.data[i] = f.data[i]
    BY <1>1, <1>2, <1>3
<1>8. f.synced = Len(f.data) => g.data = f.data
  <2>. SUFFICES ASSUME f.synced = Len(f.data) PROVE g.data = f.data
    OBVIOUS
  <2>1. n = Len(f.data)
    BY <1>1, <1>2
  <2>. QED  BY <1>1, <1>3, <2>1
<1>9. ShrunkTo(f, g)
    BY <1>2, <1>6, <1>7, <1>8 DEF ShrunkTo
<1>. QED  BY <1>9 DEF g, n

---------------------------------------------------------------------------
(* Only an append adds a record, and only the end of the process takes     *)
(* some away, from the end of a file.                                      *)
SameAt(u, q) ==
    files'[u][q] # Absent =>
        files'[u][q].data = IF files[u][q] = Absent THEN <<>> ELSE files[u][q].data
SameRecords == \A u \in Streams, q \in Pids : SameAt(u, q)

FewerAt(u, q) ==
    files'[u][q] # Absent =>
        IF files[u][q] = Absent THEN files'[u][q].data = <<>>
        ELSE /\ Len(files'[u][q].data) <= Len(files[u][q].data)
             /\ \A i \in 1 .. Len(files'[u][q].data) :
                   files'[u][q].data[i] = files[u][q].data[i]
FewerRecords == \A u \in Streams, q \in Pids : FewerAt(u, q)

StampAt(u, q) == files[u][q] # Absent => files[u][q].stamp <= files[u][q].synced

(* A new file adds no record.                                              *)
LEMMA SameFresh ==
    ASSUME IInv, StampInv, NEW s \in Streams, NEW p \in Pids, files[s][p] = Absent,
           files' = [files EXCEPT ![s][p] = Fresh]
    PROVE  SameRecords /\ StampInv'
<1>0. files \in [Streams -> [Pids -> Partition \cup {Absent}]]
    BY DEF IInv, TypeOK
<1>1. \A u \in Streams, q \in Pids :
         files'[u][q] = IF u = s /\ q = p THEN Fresh ELSE files[u][q]
    BY <1>0
<1>2. Fresh.data = <<>> /\ Fresh.stamp <= Fresh.synced
    BY DEF Fresh
<1>3. SameRecords
    BY <1>1, <1>2 DEF SameRecords, SameAt
<1>4. StampInv'
    BY <1>1, <1>2 DEF StampInv
<1>. QED  BY <1>3, <1>4

(* A change in place adds and removes no record.                           *)
LEMMA SameInPlace ==
    ASSUME IInv, StampInv, NEW s \in Streams, NEW p \in Pids, files[s][p] # Absent,
           NEW g, g.data = files[s][p].data, g.stamp <= g.synced,
           files' = [files EXCEPT ![s][p] = g]
    PROVE  SameRecords /\ StampInv'
<1>0. files \in [Streams -> [Pids -> Partition \cup {Absent}]]
    BY DEF IInv, TypeOK
<1>1. \A u \in Streams, q \in Pids :
         files'[u][q] = IF u = s /\ q = p THEN g ELSE files[u][q]
    BY <1>0
<1>2. SameRecords
    BY <1>1 DEF SameRecords, SameAt
<1>3. StampInv'
    BY <1>1 DEF StampInv
<1>. QED  BY <1>2, <1>3

(* Opening a stream adds and removes no record.                            *)
LEMMA SameOpened ==
    ASSUME IInv, StampInv, NEW s \in Streams, files' = [files EXCEPT ![s] = Opened(s)]
    PROVE  SameRecords /\ StampInv'
<1>1. \A u \in Streams, q \in Pids :
         files'[u][q] = IF u = s THEN Opened(s)[q] ELSE files[u][q]
    BY PointStream DEF IInv
<1>2. SameRecords
    BY <1>1, OpenedFacts DEF SameRecords, SameAt
<1>3. StampInv'
    BY <1>1, OpenedFacts DEF StampInv
<1>. QED  BY <1>2, <1>3

(* Domain is a stream without an active partition.                         *)
LEMMA DomainClosed ==
    ASSUME TypeOK, Missing # {}
    PROVE  Domain \in Streams /\ active[Domain] = 0
<1>1. batch \in Seq(Pending) /\ DOMAIN batch = 1 .. Len(batch) /\ Len(batch) \in Nat
    BY DEF TypeOK
<1>2. Missing \in SUBSET Nat
    BY <1>1 DEF Missing
<1>3. Min(Missing) \in Missing
    BY <1>2, MinExists
<1>. QED  BY <1>3, DomainType DEF Missing, Domain

(* The head of `touched' is an open stream with its active partition.      *)
LEMMA HeadOpen ==
    ASSUME IInv, phase \in {"sync", "roll", "stamp", "harden"}
    PROVE  /\ touched # <<>> /\ Head(touched) \in Streams
           /\ active[Head(touched)] # 0 /\ active[Head(touched)] \in Pids
           /\ files[Head(touched)][active[Head(touched)]] # Absent
           /\ phase \in {"stamp", "harden"} =>
                 sealing \in Pids /\ files[Head(touched)][sealing] # Absent
<1>1. touched # <<>>
    BY DEF IInv, PhaseInv
<1>2. Head(touched) \in Streams /\ Head(touched) = touched[1] /\ 1 \in DOMAIN touched
    BY <1>1, TouchedHead
<1>3. active[Head(touched)] # 0
    BY <1>2 DEF IInv, PhaseInv, Writing
<1>4. active[Head(touched)] \in Pids /\ files[Head(touched)][active[Head(touched)]] # Absent
    BY <1>2, <1>3, ActiveFile, AbsentAssumption
<1>5. phase \in {"stamp", "harden"} => sealing \in Pids /\ files[Head(touched)][sealing] # Absent
    BY DEF IInv, PhaseInv, TypeOK
<1>. QED  BY <1>1, <1>2, <1>3, <1>4, <1>5

(* Only an append and the end of the process change the records.           *)
LEMMA SameStep ==
    ASSUME IInv, StampInv, RollInv, LastInv, [Next]_vars, ~Append1, ~(Killed \/ PowerCut)
    PROVE  SameRecords /\ StampInv'
<1>. TypeOK
    BY DEF IInv
<1>1. ASSUME NEW s \in Streams, OpenStream(s)
      PROVE  SameRecords /\ StampInv'
  <2>1. CASE Present(s) = {}
    <3>1. /\ manifest.pid \in Pids /\ files' = [files EXCEPT ![s][manifest.pid] = Fresh]
          /\ files[s][manifest.pid] = Absent
      BY <1>1, <2>1 DEF OpenStream, Present
    <3>. QED  BY <3>1, SameFresh
  <2>2. CASE Present(s) # {}
    BY <1>1, <2>2, SameOpened DEF OpenStream
  <2>. QED  BY <2>1, <2>2
<1>2. CASE CreateStream
  <2>1. /\ Domain \in Streams /\ manifest.pid \in Pids
        /\ files' = [files EXCEPT ![Domain][manifest.pid] = Fresh]
    BY <1>2, DomainType DEF CreateStream
  <2>2. files[Domain][manifest.pid] = Absent
    BY <1>2, <2>1 DEF CreateStream, Present
  <2>. HIDE DEF Domain
  <2>. QED  BY <2>1, <2>2, SameFresh
<1>3. CASE RegisterStream
    BY <1>3, DomainType, SameOpened DEF RegisterStream
<1>4. CASE Commit
  <2>. DEFINE s == Head(touched)
              f == files[s][active[s]]
  <2>1. s \in Streams /\ active[s] \in Pids /\ f # Absent
    BY <1>4, HeadOpen DEF Commit
  <2>2. files' = [files EXCEPT ![s][active[s]] = Committed(f)]
    BY <1>4 DEF Commit
  <2>. HIDE DEF s
  <2>3. /\ f \in Partition /\ f.stamp \in Nat /\ f.synced \in Nat /\ Len(f.data) \in Nat
        /\ f.stamp <= f.synced /\ f.synced <= Len(f.data)
    <3>1. /\ f \in Partition /\ f.stamp \in Nat /\ f.synced \in Nat /\ Len(f.data) \in Nat
          /\ f.synced <= f.flushed /\ f.flushed <= Len(f.data) /\ f.flushed \in Nat
        BY <2>1, FileFacts
    <3>2. f.stamp <= f.synced
        BY <2>1 DEF StampInv
    <3>. HIDE DEF f
    <3>. QED  BY <3>1, <3>2
  <2>4. Committed(f).data = f.data /\ Committed(f).stamp <= Committed(f).synced
    BY <2>3, InPlaceFields
  <2>. QED  BY <2>1, <2>2, <2>4, SameInPlace
<1>5. CASE RollCreate
  <2>. DEFINE s == Head(touched)
  <2>1. /\ s \in Streams /\ manifest.pid \in Pids /\ files[s][manifest.pid] = Absent
        /\ files' = [files EXCEPT ![s][manifest.pid] = Fresh]
    BY <1>5, HeadOpen DEF RollCreate
  <2>. HIDE DEF s
  <2>. QED  BY <2>1, SameFresh
<1>6. CASE Stamp \/ Harden
  <2>. DEFINE s == Head(touched)
              f == files[s][sealing]
  <2>1. s \in Streams /\ active[s] # 0 /\ sealing \in Pids /\ f # Absent /\ sealing # active[s]
    BY <1>6, HeadOpen DEF Stamp, Harden, RollInv
  <2>2. \/ files' = [files EXCEPT ![s][sealing] = Stamped(f)]
        \/ files' = [files EXCEPT ![s][sealing] = Sealed(f)]
    BY <1>6 DEF Stamp, Harden
  <2>. HIDE DEF s
  <2>3. f \in Partition /\ Len(f.data) \in Nat /\ Full(f)
    BY <2>1, FileFacts DEF LastInv, LastAt
  <2>4. /\ Stamped(f).data = f.data /\ Stamped(f).stamp <= Stamped(f).synced
        /\ Sealed(f).data = f.data /\ Sealed(f).stamp <= Sealed(f).synced
    BY <2>3, InPlaceFields DEF Full
  <2>. QED  BY <2>1, <2>2, <2>4, SameInPlace
<1>7. CASE files' = files
    BY <1>7 DEF SameRecords, SameAt, StampInv
<1>8. CASE \/ LoadManifest \/ OpenDone \/ InternDomain \/ Planned \/ Finish
           \/ PlanFails \/ WriteFails \/ UNCHANGED vars \/ \E b \in Batches : Begin(b)
    BY <1>7, <1>8 DEF LoadManifest, OpenDone, InternDomain, Planned, Finish, PlanFails,
                 WriteFails, Begin, vars
<1>. QED  BY <1>1, <1>2, <1>3, <1>4, <1>5, <1>6, <1>8 DEF Next, Step

(* A crash leaves fewer records, and all of those that were durable.       *)
LEMMA CrashStep ==
    ASSUME IInv, StampInv, Killed \/ PowerCut
    PROVE  /\ FewerRecords /\ StampInv'
           /\ \A u \in Streams, q \in Pids :
                 files[u][q] # Absent /\ files[u][q].synced = Len(files[u][q].data) =>
                    files'[u][q].data = files[u][q].data
<1>1. PICK power \in BOOLEAN, keep \in [Streams -> Nat], torn \in BOOLEAN,
           indexed \in BOOLEAN, stamped \in BOOLEAN :
           Crash(power, keep, torn, indexed, stamped)
    BY CrashChoice
<1>2. \A s \in Streams, p \in Pids :
        files'[s][p] = IF files[s][p] = Absent THEN Absent
                       ELSE Image(files[s][p], Left(files[s][p], keep[s], power), torn,
                                  power, indexed, stamped)
    BY <1>1 DEF Crash
<1>3. ASSUME NEW u \in Streams, NEW q \in Pids
      PROVE  /\ FewerAt(u, q)
             /\ StampAt(u, q)'
             /\ files[u][q] # Absent /\ files[u][q].synced = Len(files[u][q].data) =>
                    files'[u][q].data = files[u][q].data
  <2>1. CASE files[u][q] = Absent
    BY <1>2, <2>1 DEF FewerAt, StampAt
  <2>2. CASE files[u][q] # Absent
    <3>1. Whole(files[u][q], version) /\ keep[u] \in Nat
          /\ files[u][q].stamp <= files[u][q].synced
      BY <2>2, FileFacts DEF StampInv
    <3>2. files'[u][q] = Image(files[u][q], Left(files[u][q], keep[u], power), torn,
                               power, indexed, stamped)
      BY <1>2, <2>2
    <3>3. ShrunkTo(files[u][q], files'[u][q])
      BY <3>1, <3>2, ImageFacts
    <3>. QED  BY <2>2, <3>3 DEF FewerAt, StampAt, ShrunkTo
  <2>. QED  BY <2>1, <2>2
<1>4. FewerRecords /\ StampInv'
    BY <1>3 DEF FewerRecords, StampInv, StampAt
<1>. QED  BY <1>3, <1>4

---------------------------------------------------------------------------
(* The order of the records, when some are gone and when one is added.     *)

(* The fields of a file after a step.                                      *)
LEMMA FilesPrimed ==
    ASSUME TypeOK', NEW u \in Streams, NEW q \in Pids, files'[u][q] # Absent
    PROVE  /\ files'[u][q] \in Partition
           /\ files'[u][q].data \in Seq(Record)
           /\ Len(files'[u][q].data) \in Nat
           /\ DOMAIN files'[u][q].data = 1 .. Len(files'[u][q].data)
<1>1. files'[u][q] \in Partition
    BY DEF TypeOK
<1>2. files'[u][q].data \in Seq(Record)
    BY <1>1 DEF Partition
<1>. QED  BY <1>1, <1>2

(* The same records are no more records.                                   *)
LEMMA SameIsFewer ==
    ASSUME IInv, SameRecords
    PROVE  FewerRecords
<1>. SUFFICES ASSUME NEW u \in Streams, NEW q \in Pids, files'[u][q] # Absent
              PROVE  FewerAt(u, q)
    BY DEF FewerRecords, FewerAt
<1>1. CASE files[u][q] = Absent
    BY <1>1 DEF SameRecords, SameAt, FewerAt
<1>2. CASE files[u][q] # Absent
  <2>1. files'[u][q].data = files[u][q].data
    BY <1>2 DEF SameRecords, SameAt
  <2>2. Len(files[u][q].data) \in Nat
    BY <1>2, FileFacts
  <2>. QED  BY <1>2, <2>1, <2>2 DEF FewerAt
<1>. QED  BY <1>1, <1>2

(* A record that is there was there before, at the same place.             *)
LEMMA FewerPlace ==
    ASSUME IInv, TypeOK', FewerRecords, NEW u \in Streams, NEW q \in Present(u)',
           NEW i \in DOMAIN files'[u][q].data
    PROVE  /\ q \in Present(u) /\ i \in DOMAIN files[u][q].data
           /\ files'[u][q].data[i] = files[u][q].data[i]
<1>1. q \in Pids /\ files'[u][q] # Absent
    BY DEF Present
<1>2. /\ DOMAIN files'[u][q].data = 1 .. Len(files'[u][q].data)
      /\ Len(files'[u][q].data) \in Nat
    BY <1>1, FilesPrimed
<1>3. files[u][q] # Absent
  <2>. SUFFICES ASSUME files[u][q] = Absent PROVE FALSE
    OBVIOUS
  <2>1. files'[u][q].data = <<>>
    BY <1>1 DEF FewerRecords, FewerAt
  <2>. QED  BY <2>1
<1>4. Len(files'[u][q].data) <= Len(files[u][q].data)
      /\ files'[u][q].data[i] = files[u][q].data[i]
    BY <1>1, <1>2, <1>3 DEF FewerRecords, FewerAt
<1>5. Len(files[u][q].data) \in Nat /\ DOMAIN files[u][q].data = 1 .. Len(files[u][q].data)
    BY <1>1, <1>3, FileFacts
<1>. QED  BY <1>1, <1>2, <1>3, <1>4, <1>5 DEF Present

(* Fewer records are still in order.                                       *)
LEMMA FewerInOrder ==
    ASSUME IInv, TypeOK', FewerRecords, StreamOrdered
    PROVE  StreamOrdered'
<1>. SUFFICES ASSUME NEW s \in Streams, NEW p \in Present(s)', NEW q \in Present(s)',
                     NEW i \in DOMAIN files'[s][p].data, NEW j \in DOMAIN files'[s][q].data,
                     p < q \/ (p = q /\ i < j)
              PROVE  files'[s][p].data[i].seq < files'[s][q].data[j].seq
    BY DEF StreamOrdered
<1>1. /\ p \in Present(s) /\ i \in DOMAIN files[s][p].data
      /\ files'[s][p].data[i] = files[s][p].data[i]
    BY FewerPlace
<1>2. /\ q \in Present(s) /\ j \in DOMAIN files[s][q].data
      /\ files'[s][q].data[j] = files[s][q].data[j]
    BY FewerPlace
<1>3. files[s][p].data[i].seq < files[s][q].data[j].seq
    BY <1>1, <1>2 DEF StreamOrdered
<1>. QED  BY <1>1, <1>2, <1>3

(* The records of a stream, by the place they are at.                      *)
LEMMA AtPlace ==
    ASSUME TypeOK, NEW s \in Streams, NEW r
    PROVE  r \in StreamRecords(s) <=>
              \E p \in Present(s) : \E i \in DOMAIN files[s][p].data : r = files[s][p].data[i]
<1>1. \A p \in Present(s) : DOMAIN files[s][p].data = 1 .. Len(files[s][p].data)
  <2>. SUFFICES ASSUME NEW p \in Present(s)
                PROVE  DOMAIN files[s][p].data = 1 .. Len(files[s][p].data)
    OBVIOUS
  <2>1. files[s][p] \in Partition
    BY DEF TypeOK, Present
  <2>2. files[s][p].data \in Seq(Record)
    BY <2>1 DEF Partition
  <2>. QED  BY <2>2
<1>. QED  BY <1>1 DEF StreamRecords

(* The same after a step.                                                  *)
LEMMA AtPlacePrimed ==
    ASSUME TypeOK', NEW s \in Streams, NEW r \in StreamRecords(s)'
    PROVE  \E p \in Present(s)' : \E i \in DOMAIN files'[s][p].data : r = files'[s][p].data[i]
<1>1. PICK p \in Present(s)' : \E i \in 1 .. Len(files'[s][p].data) : r = files'[s][p].data[i]
    BY DEF StreamRecords
<1>2. p \in Pids /\ files'[s][p] # Absent
    BY DEF Present
<1>3. DOMAIN files'[s][p].data = 1 .. Len(files'[s][p].data)
    BY <1>2, FilesPrimed
<1>. QED  BY <1>1, <1>3

(* No record was added to a stream.                                        *)
LEMMA FewerSubset ==
    ASSUME IInv, TypeOK', FewerRecords, NEW s \in Streams
    PROVE  StreamRecords(s)' \subseteq StreamRecords(s)
<1>. SUFFICES ASSUME NEW r \in StreamRecords(s)' PROVE r \in StreamRecords(s)
    OBVIOUS
<1>1. PICK p \in Present(s)' : \E i \in DOMAIN files'[s][p].data : r = files'[s][p].data[i]
    BY AtPlacePrimed
<1>2. PICK i \in DOMAIN files'[s][p].data : r = files'[s][p].data[i]
    BY <1>1
<1>3. /\ p \in Present(s) /\ i \in DOMAIN files[s][p].data
      /\ files'[s][p].data[i] = files[s][p].data[i]
    BY FewerPlace
<1>. QED  BY <1>2, <1>3, AtPlace DEF IInv

(* What an append does: one record, of the next seq, at the end of the     *)
(* last partition of its stream.                                           *)
LEMMA AppendDoes ==
    ASSUME JInv, TypeOK', Append1
    PROVE  \E s \in Streams, rec \in Record :
              /\ active[s] \in Pids /\ files[s][active[s]] # Absent
              /\ rec.seq = nextSeq /\ s = Home[Head(batch).key]
              /\ rec = [seq |-> nextSeq, key |-> Head(batch).key, ver |-> Head(batch).ver]
              /\ files' = [files EXCEPT ![s][active[s]] = Appended(files[s][active[s]], rec)]
              /\ \A u \in Streams, q \in Pids :
                    IF u = s /\ q = active[s]
                    THEN /\ files'[u][q] # Absent
                         /\ files'[u][q].data = Append(files[u][q].data, rec)
                         /\ files'[u][q].stamp = files[u][q].stamp
                         /\ files'[u][q].synced = files[u][q].synced
                    ELSE files'[u][q] = files[u][q]
<1>. DEFINE r == Head(batch)
            s == Home[r.key]
            rec == [seq |-> nextSeq, key |-> r.key, ver |-> r.ver]
            f == files[s][active[s]]
<1>1. rec \in Record /\ s \in Streams /\ active[s] # 0
    BY AppendedRecord DEF Append1, JInv
<1>2. files' = [files EXCEPT ![s][active[s]] = Appended(f, rec)]
    BY DEF Append1
<1>3. rec.seq = nextSeq
    OBVIOUS
<1>4. rec = [seq |-> nextSeq, key |-> Head(batch).key, ver |-> Head(batch).ver] /\ s = Home[Head(batch).key]
    OBVIOUS
<1>. HIDE DEF s, rec
<1>5. active[s] \in Pids /\ f \in Partition /\ f # Absent
    BY <1>1, ActiveFile, AbsentAssumption DEF JInv
<1>6. files \in [Streams -> [Pids -> Partition \cup {Absent}]]
    BY DEF JInv, IInv, TypeOK
<1>7. \A u \in Streams, q \in Pids :
         files'[u][q] = IF u = s /\ q = active[s] THEN Appended(f, rec) ELSE files[u][q]
    BY <1>1, <1>2, <1>5, <1>6
<1>8. /\ Appended(f, rec).data = Append(f.data, rec)
      /\ Appended(f, rec).stamp = f.stamp /\ Appended(f, rec).synced = f.synced
      /\ Appended(f, rec).idx = f.idx
    BY <1>5 DEF Appended, Partition
<1>9. files'[s][active[s]] # Absent
  <2>1. [Next]_vars /\ IInv
    BY DEF Next, Step, JInv
  <2>2. FilesEvolve
    BY <2>1, FilesStep
  <2>. QED  BY <1>1, <1>5, <2>2 DEF FilesEvolve, Evolves
<1>10. \A u \in Streams, q \in Pids :
          IF u = s /\ q = active[s]
          THEN /\ files'[u][q] # Absent
               /\ files'[u][q].data = Append(files[u][q].data, rec)
               /\ files'[u][q].stamp = files[u][q].stamp
               /\ files'[u][q].synced = files[u][q].synced
          ELSE files'[u][q] = files[u][q]
    BY <1>7, <1>8, <1>9
<1>11. active[s] \in Pids /\ files[s][active[s]] # Absent
    BY <1>5
<1>12. files' = [files EXCEPT ![s][active[s]] = Appended(files[s][active[s]], rec)]
    BY <1>2
<1>. s \in Streams /\ rec \in Record
    BY <1>1
<1>. WITNESS s \in Streams, rec \in Record
<1>. QED  BY <1>3, <1>4, <1>10, <1>11, <1>12

(* A record that is there was there before, or is the appended one.        *)
LEMMA AppendPlace ==
    ASSUME JInv, TypeOK', NEW s \in Streams, NEW rec \in Record,
           active[s] \in Pids, files[s][active[s]] # Absent,
           \A u \in Streams, q \in Pids :
              IF u = s /\ q = active[s]
              THEN /\ files'[u][q] # Absent
                   /\ files'[u][q].data = Append(files[u][q].data, rec)
              ELSE files'[u][q] = files[u][q],
           NEW u \in Streams, NEW q \in Present(u)', NEW i \in DOMAIN files'[u][q].data
    PROVE  /\ q \in Pids /\ q \in Present(u)
           /\ \/ /\ i \in DOMAIN files[u][q].data
                 /\ files'[u][q].data[i] = files[u][q].data[i]
              \/ /\ u = s /\ q = active[s]
                 /\ i = Len(files[u][q].data) + 1
                 /\ files'[u][q].data[i] = rec
<1>1. q \in Pids /\ files'[u][q] # Absent
    BY DEF Present
<1>2. CASE ~(u = s /\ q = active[s])
  <2>1. files'[u][q] = files[u][q]
    BY <1>1, <1>2
  <2>. QED  BY <1>1, <2>1 DEF Present
<1>3. CASE u = s /\ q = active[s]
  <2>. DEFINE d == files[s][active[s]].data
  <2>1. d \in Seq(Record) /\ Len(d) \in Nat
    BY FileFacts DEF JInv
  <2>2. files'[u][q].data = Append(d, rec)
    BY <1>1, <1>3
  <2>. HIDE DEF d
  <2>3. /\ DOMAIN Append(d, rec) = 1 .. Len(d) + 1 /\ DOMAIN d = 1 .. Len(d)
        /\ \A k \in 1 .. Len(d) : Append(d, rec)[k] = d[k]
        /\ Append(d, rec)[Len(d) + 1] = rec
    BY <2>1
  <2>4. i \in 1 .. Len(d) + 1
    BY <2>2, <2>3
  <2>5. \/ i \in DOMAIN d /\ files'[u][q].data[i] = d[i]
        \/ i = Len(d) + 1 /\ files'[u][q].data[i] = rec
    BY <2>1, <2>2, <2>3, <2>4
  <2>6. files[u][q].data = d
    BY <1>3 DEF d
  <2>. QED  BY <1>1, <1>3, <2>5, <2>6 DEF Present
<1>. QED  BY <1>2, <1>3

(* The appended record is the last one of its stream, and of the store.    *)
LEMMA AppendInOrder ==
    ASSUME JInv, TypeOK', Append1
    PROVE  /\ StreamOrdered'
           /\ \E s \in Streams, rec \in Record :
                 /\ rec.seq = nextSeq /\ active[s] # 0
                 /\ \A u \in Streams : StreamRecords(u)' \subseteq
                                         StreamRecords(u) \cup {r \in {rec} : u = s}
<1>1. PICK s \in Streams, rec \in Record :
         /\ active[s] \in Pids /\ files[s][active[s]] # Absent
         /\ rec.seq = nextSeq
         /\ \A u \in Streams, q \in Pids :
               IF u = s /\ q = active[s]
               THEN /\ files'[u][q] # Absent
                    /\ files'[u][q].data = Append(files[u][q].data, rec)
               ELSE files'[u][q] = files[u][q]
  <2>1. PICK s \in Streams, rec \in Record :
              /\ active[s] \in Pids /\ files[s][active[s]] # Absent
              /\ rec.seq = nextSeq /\ s = Home[Head(batch).key]
              /\ rec = [seq |-> nextSeq, key |-> Head(batch).key, ver |-> Head(batch).ver]
              /\ files' = [files EXCEPT ![s][active[s]] = Appended(files[s][active[s]], rec)]
              /\ \A u \in Streams, q \in Pids :
                    IF u = s /\ q = active[s]
                    THEN /\ files'[u][q] # Absent
                         /\ files'[u][q].data = Append(files[u][q].data, rec)
                         /\ files'[u][q].stamp = files[u][q].stamp
                         /\ files'[u][q].synced = files[u][q].synced
                    ELSE files'[u][q] = files[u][q]
    BY AppendDoes
  <2>2. /\ active[s] \in Pids /\ files[s][active[s]] # Absent
        /\ rec.seq = nextSeq
        /\ \A u \in Streams, q \in Pids :
               IF u = s /\ q = active[s]
               THEN /\ files'[u][q] # Absent
                    /\ files'[u][q].data = Append(files[u][q].data, rec)
               ELSE files'[u][q] = files[u][q]
    BY <2>1
  <2>. WITNESS s \in Streams, rec \in Record
  <2>. QED  BY <2>2
<1>. DEFINE Old(u, q, i) == /\ i \in DOMAIN files[u][q].data
                            /\ files'[u][q].data[i] = files[u][q].data[i]
            New(u, q, i) == /\ u = s /\ q = active[s]
                            /\ i = Len(files[u][q].data) + 1
                            /\ files'[u][q].data[i] = rec
<1>2. \A u \in Streams : \A q \in Present(u)' : \A i \in DOMAIN files'[u][q].data :
         q \in Pids /\ q \in Present(u) /\ (Old(u, q, i) \/ New(u, q, i))
    BY <1>1, AppendPlace
<1>3. Below
    BY DEF Append1, JInv, BelowInv
<1>4. StreamOrdered'
  <2>. SUFFICES ASSUME NEW u \in Streams, NEW p \in Present(u)', NEW q \in Present(u)',
                       NEW i \in DOMAIN files'[u][p].data, NEW j \in DOMAIN files'[u][q].data,
                       p < q \/ (p = q /\ i < j)
                PROVE  files'[u][p].data[i].seq < files'[u][q].data[j].seq
    BY DEF StreamOrdered
  <2>1. /\ p \in Pids /\ p \in Present(u) /\ (Old(u, p, i) \/ New(u, p, i))
        /\ q \in Pids /\ q \in Present(u) /\ (Old(u, q, j) \/ New(u, q, j))
    BY <1>2
  <2>2. /\ files[u][p] # Absent /\ files[u][q] # Absent
        /\ p \in Nat /\ q \in Nat
    BY <2>1 DEF Present, Pids
  <2>3. /\ DOMAIN files[u][p].data = 1 .. Len(files[u][p].data) /\ Len(files[u][p].data) \in Nat
        /\ DOMAIN files[u][q].data = 1 .. Len(files[u][q].data) /\ Len(files[u][q].data) \in Nat
    BY <2>1, <2>2, FileFacts DEF JInv
  <2>4. CASE Old(u, p, i) /\ Old(u, q, j)
    BY <2>1, <2>4 DEF JInv, StreamOrdered
  <2>5. CASE Old(u, p, i) /\ New(u, q, j)
    <3>1. files[u][p].data[i] \in StreamRecords(u)
      BY <2>1, <2>5, AtPlace DEF JInv, IInv
    <3>. QED  BY <1>1, <1>3, <2>5, <3>1 DEF Below
  <2>6. CASE New(u, p, i)
    <3>1. q <= p
      BY <1>1, <2>1, <2>2, <2>6 DEF JInv, LastInv, LastAt, Pids
    <3>2. p = q /\ i < j
      BY <2>2, <3>1
    <3>. QED  BY <2>1, <2>3, <2>6, <3>2
  <2>. QED  BY <2>1, <2>4, <2>5, <2>6
<1>5. ASSUME NEW u \in Streams
      PROVE  StreamRecords(u)' \subseteq StreamRecords(u) \cup {r \in {rec} : u = s}
  <2>. SUFFICES ASSUME NEW r \in StreamRecords(u)'
                PROVE  r \in StreamRecords(u) \/ (u = s /\ r = rec)
    OBVIOUS
  <2>1. PICK p \in Present(u)' : \E i \in DOMAIN files'[u][p].data : r = files'[u][p].data[i]
    BY AtPlacePrimed
  <2>2. PICK i \in DOMAIN files'[u][p].data : r = files'[u][p].data[i]
    BY <2>1
  <2>3. p \in Present(u) /\ (Old(u, p, i) \/ New(u, p, i))
    BY <1>2
  <2>. QED  BY <2>2, <2>3, AtPlace DEF JInv, IInv
<1>6. rec.seq = nextSeq /\ active[s] # 0
    BY <1>1, BoundsAssumption DEF Pids
<1>7. \E z \in Streams, y \in Record :
         /\ y.seq = nextSeq /\ active[z] # 0
         /\ \A u \in Streams : StreamRecords(u)' \subseteq StreamRecords(u) \cup {r \in {y} : u = z}
    BY <1>5, <1>6
<1>. QED  BY <1>4, <1>7

---------------------------------------------------------------------------
(* The seq an open resumes from is beyond every record it found.           *)

(* The last seq of an open stream is that of its last record.              *)
LEMMA LastSeqCovers ==
    ASSUME IInv, LastInv, StreamOrdered, NEW s \in Streams, active[s] # 0,
           NEW r \in StreamRecords(s)
    PROVE  r.seq <= LastSeq(s) /\ r.seq \in Nat
<1>1. PICK p \in Present(s) : \E i \in DOMAIN files[s][p].data : r = files[s][p].data[i]
    BY AtPlace DEF IInv
<1>2. PICK i \in DOMAIN files[s][p].data : r = files[s][p].data[i]
    BY <1>1
<1>3. \A q \in Present(s) :
         /\ q \in Pids /\ q \in Nat /\ files[s][q] # Absent
         /\ Len(files[s][q].data) \in Nat
         /\ DOMAIN files[s][q].data = 1 .. Len(files[s][q].data)
         /\ \A k \in 1 .. Len(files[s][q].data) : files[s][q].data[k].seq \in Nat
    BY FileFacts DEF Present, Pids
<1>4. \A q \in Present(s) : SeenLen(s, q) = Len(files[s][q].data)
    BY <1>3 DEF LastInv, LastAt, Full, SeenLen
<1>. DEFINE P == {q \in Present(s) : SeenLen(s, q) > 0}
            m == Max(P)
            n == Len(files[s][m].data)
<1>5. p \in P /\ P \subseteq Present(s)
    BY <1>2, <1>3, <1>4
<1>6. P \in SUBSET (0 .. MaxPid) /\ MaxPid \in Nat
    BY BoundsAssumption DEF Present, Pids
<1>7. m \in P /\ p <= m
    BY <1>5, <1>6, MaxExists
<1>8. LastSeq(s) = files[s][m].data[n].seq
    BY <1>4, <1>5, <1>7 DEF LastSeq
<1>. HIDE DEF m
<1>9. m \in Present(s) /\ n > 0
    BY <1>4, <1>7
<1>10. n \in DOMAIN files[s][m].data /\ n \in Nat /\ files[s][m].data[n].seq \in Nat
    BY <1>3, <1>9
<1>11. r.seq \in Nat
    BY <1>2, <1>3
<1>12. CASE p < m
    BY <1>2, <1>8, <1>9, <1>10, <1>11, <1>12 DEF StreamOrdered
<1>13. CASE p = m /\ i < n
    BY <1>2, <1>8, <1>9, <1>10, <1>11, <1>13 DEF StreamOrdered
<1>14. CASE p = m /\ i = n
    BY <1>2, <1>8, <1>11, <1>14
<1>15. p = m => i \in 1 .. n
    BY <1>2, <1>3, <1>9
<1>. QED  BY <1>3, <1>7, <1>9, <1>10, <1>11, <1>12, <1>13, <1>14, <1>15

(* Every stream with records was opened, so all of them are counted.       *)
LEMMA ResumeCovers ==
    ASSUME JInv, Unopened = {}
    PROVE  \A s \in Streams : \A r \in StreamRecords(s) : r.seq < ResumeSeq
<1>. SUFFICES ASSUME NEW s \in Streams, NEW r \in StreamRecords(s)
              PROVE  r.seq < ResumeSeq
    OBVIOUS
<1>. DEFINE L == {LastSeq(u) : u \in manifest.ns}
<1>1. version \in Nat /\ manifest.ns \in SUBSET Streams /\ Meta \in manifest.ns
    BY DEF JInv, IInv, TypeOK, SeqInv, Manifest
<1>2. \A u \in manifest.ns : active[u] # 0
    BY DEF Unopened
<1>3. L \in SUBSET (0 .. version) /\ L # {}
    BY <1>1, <1>2, LastSeqBound DEF JInv
<1>4. Max(L) \in 0 .. version /\ \A y \in L : y <= Max(L)
    BY <1>1, <1>3, MaxExists
<1>5. s \in manifest.ns
    BY DEF JInv, DomainKnown, NsInv
<1>6. r.seq <= LastSeq(s) /\ r.seq \in Nat
    BY <1>2, <1>5, LastSeqCovers DEF JInv
<1>7. LastSeq(s) <= Max(L) /\ LastSeq(s) \in 0 .. version
    BY <1>3, <1>4, <1>5
<1>. HIDE DEF L
<1>8. r.seq <= Max(L)
    BY <1>1, <1>4, <1>6, <1>7
<1>9. ResumeSeq = 1 + Max(L)
    BY DEF ResumeSeq, L
<1>. QED  BY <1>1, <1>4, <1>6, <1>8, <1>9

---------------------------------------------------------------------------
(* The manifest.                                                           *)

(* An open stream stays in the manifest: nothing takes a domain out.       *)
LEMMA NsGrows ==
    ASSUME JInv, [Next]_vars
    PROVE  saved.ns \subseteq saved'.ns
<1>. saved.ns \subseteq manifest.ns /\ saved \in Manifest /\ manifest \in Manifest
    BY DEF JInv, NsInv, IInv, TypeOK
<1>1. CASE saved' = saved \/ saved' = manifest
    BY <1>1
<1>2. CASE InternDomain
  <2>1. saved'.ns = manifest.ns \cup {Domain}
    BY <1>2 DEF InternDomain, Manifest
  <2>. QED  BY <2>1
<1>3. CASE RegisterStream
  <2>1. saved'.ns = manifest.ns
    BY <1>3 DEF RegisterStream, Manifest
  <2>. QED  BY <2>1
<1>4. CASE Killed \/ PowerCut
  <2>1. saved' = saved
    BY <1>4, CrashChoice DEF Crash
  <2>. QED  BY <2>1
<1>5. CASE Finish \/ OpenDone
  <2>1. saved' = saved \/ saved' = manifest
    BY <1>5 DEF Finish, OpenDone
  <2>. QED  BY <2>1, <1>1
<1>6. CASE \/ LoadManifest \/ Planned \/ PlanFails \/ WriteFails \/ UNCHANGED vars
           \/ CreateStream \/ Append1 \/ Commit \/ RollCreate \/ Stamp \/ Harden
           \/ (\E s \in Streams : OpenStream(s)) \/ (\E b \in Batches : Begin(b))
  <2>1. saved' = saved
    BY <1>6 DEF LoadManifest, Planned, PlanFails, WriteFails, vars, CreateStream, Append1,
                Commit, RollCreate, Stamp, Harden, OpenStream, Begin
  <2>. QED  BY <2>1, <1>1
<1>. QED  BY <1>2, <1>3, <1>4, <1>5, <1>6 DEF Next, Step

---------------------------------------------------------------------------
(* The order is preserved.                                                 *)

(* Only an append adds a record.                                           *)
LEMMA FewerStep ==
    ASSUME JInv, [Next]_vars, ~Append1
    PROVE  FewerRecords /\ StampInv'
<1>1. CASE Killed \/ PowerCut
    BY <1>1, CrashStep DEF JInv
<1>2. CASE ~(Killed \/ PowerCut)
  <2>1. SameRecords /\ StampInv'
    BY <1>2, SameStep DEF JInv
  <2>. QED  BY <2>1, SameIsFewer DEF JInv
<1>. QED  BY <1>1, <1>2

(* Every step keeps the seqs on disk below the next one.                   *)
LEMMA BelowStep ==
    ASSUME JInv, [Next]_vars, TypeOK'
    PROVE  BelowInv'
<1>. IInv /\ nextSeq \in Nat
    BY DEF JInv, IInv, TypeOK
<1>1. CASE Append1
  <2>1. PICK s \in Streams, rec \in Record :
                 /\ rec.seq = nextSeq /\ active[s] # 0
                 /\ \A u \in Streams : StreamRecords(u)' \subseteq
                                         StreamRecords(u) \cup {r \in {rec} : u = s}
    BY <1>1, AppendInOrder
  <2>2. nextSeq' = nextSeq + 1 /\ Below
    BY <1>1 DEF Append1, JInv, BelowInv
  <2>3. \A u \in Streams : \A r \in StreamRecords(u) : r.seq \in Nat
    BY RecordsType DEF IInv, Record, Versions
  <2>4. ASSUME NEW u \in Streams, NEW r \in StreamRecords(u)'
        PROVE  r.seq < nextSeq'
    <3>1. CASE r \in StreamRecords(u)
      BY <2>2, <2>3, <3>1 DEF Below
    <3>2. CASE r = rec
      BY <2>1, <2>2, <3>2
    <3>. QED  BY <2>1, <3>1, <3>2
  <2>. QED  BY <2>4 DEF BelowInv, Below
<1>2. CASE ~Append1
  <2>. SUFFICES ASSUME phase' \notin {"down", "open"} PROVE Below'
    BY DEF BelowInv
  <2>1. \A u \in Streams : StreamRecords(u)' \subseteq StreamRecords(u)
    BY <1>2, FewerStep, FewerSubset
  <2>2. CASE OpenDone
    <3>1. nextSeq' = ResumeSeq /\ Unopened = {}
      BY <2>2 DEF OpenDone
    <3>. QED  BY <2>1, <3>1, ResumeCovers DEF Below
  <2>3. CASE nextSeq' = nextSeq /\ phase \notin {"down", "open"}
    BY <2>1, <2>3 DEF JInv, BelowInv, Below
  <2>4. ~(Killed \/ PowerCut)
    <3>. SUFFICES ASSUME Killed \/ PowerCut PROVE FALSE
      OBVIOUS
    <3>1. phase' = "down"
      BY CrashChoice DEF Crash
    <3>. QED  BY <3>1
  <2>5. CASE ~OpenDone
    <3>1. nextSeq' = nextSeq /\ (phase' = phase \/ phase \notin {"down", "open"})
      BY <1>2, <2>4, <2>5 DEF Next, Step, LoadManifest, OpenStream, InternDomain, CreateStream,
         RegisterStream, Planned, Commit, RollCreate, Stamp, Harden, Finish, PlanFails,
         WriteFails, Begin, vars
    <3>. QED  BY <2>3, <3>1
  <2>. QED  BY <2>2, <2>5
<1>. QED  BY <1>1, <1>2

(* Every step keeps the order, the seqs unique and the streams known.      *)
LEMMA OrderStep ==
    ASSUME JInv, [Next]_vars, TypeOK'
    PROVE  StreamOrdered' /\ SeqUnique' /\ DomainKnown'
<1>. IInv /\ nextSeq \in Nat
    BY DEF JInv, IInv, TypeOK
<1>1. CASE Append1
  <2>1. PICK s \in Streams, rec \in Record :
                 /\ rec.seq = nextSeq /\ active[s] # 0
                 /\ \A u \in Streams : StreamRecords(u)' \subseteq
                                         StreamRecords(u) \cup {r \in {rec} : u = s}
    BY <1>1, AppendInOrder
  <2>2. Below
    BY <1>1 DEF Append1, JInv, BelowInv
  <2>3. ASSUME NEW u \in Streams, NEW v \in Streams, u # v,
               NEW r \in StreamRecords(u)', NEW q \in StreamRecords(v)', r.seq = q.seq
        PROVE  FALSE
    <3>1. CASE r \in StreamRecords(u) /\ q \in StreamRecords(v)
      BY <2>3, <3>1 DEF JInv, SeqUnique
    <3>2. CASE r \in StreamRecords(u) /\ q = rec
      <4>1. r.seq < nextSeq
        BY <2>2, <3>2 DEF Below
      <4>. QED  BY <2>1, <2>2, <2>3, <3>2, <4>1
    <3>3. CASE q \in StreamRecords(v) /\ r = rec
      <4>1. q.seq < nextSeq
        BY <2>2, <3>3 DEF Below
      <4>. QED  BY <2>1, <2>2, <2>3, <3>3, <4>1
    <3>4. r \in StreamRecords(u) \/ (u = s /\ r = rec)
      BY <2>1
    <3>5. q \in StreamRecords(v) \/ (v = s /\ q = rec)
      BY <2>1
    <3>. QED  BY <2>3, <3>1, <3>2, <3>3, <3>4, <3>5
  <2>4. SeqUnique'
    BY <2>3 DEF SeqUnique
  <2>5. ASSUME NEW u \in Streams, StreamRecords(u)' # {}
        PROVE  u \in saved'.ns
    <3>1. StreamRecords(u) # {} \/ u = s
      BY <2>1, <2>5
    <3>2. u \in saved.ns
      BY <2>1, <3>1 DEF JInv, DomainKnown, NsInv
    <3>. QED  BY <3>2, NsGrows
  <2>6. DomainKnown'
    BY <2>5 DEF DomainKnown
  <2>. QED  BY <1>1, <2>4, <2>6, AppendInOrder
<1>2. CASE ~Append1
  <2>1. FewerRecords
    BY <1>2, FewerStep
  <2>2. \A u \in Streams : StreamRecords(u)' \subseteq StreamRecords(u)
    BY <2>1, FewerSubset
  <2>3. StreamOrdered'
    BY <2>1, FewerInOrder DEF JInv
  <2>4. SeqUnique'
    <3>. SUFFICES ASSUME NEW u \in Streams, NEW v \in Streams, u # v
                  PROVE  ({r.seq : r \in StreamRecords(u)'} \cap {r.seq : r \in StreamRecords(v)'}) = {}
      BY DEF SeqUnique
    <3>1. {r.seq : r \in StreamRecords(u)} \cap {r.seq : r \in StreamRecords(v)} = {}
      BY DEF JInv, SeqUnique
    <3>2. /\ {r.seq : r \in StreamRecords(u)'} \subseteq {r.seq : r \in StreamRecords(u)}
          /\ {r.seq : r \in StreamRecords(v)'} \subseteq {r.seq : r \in StreamRecords(v)}
      BY <2>2
    <3>. QED  BY <3>1, <3>2
  <2>5. DomainKnown'
    BY <2>2, NsGrows DEF JInv, DomainKnown
  <2>. QED  BY <2>3, <2>4, <2>5
<1>. QED  BY <1>1, <1>2

---------------------------------------------------------------------------
(* The active partition stays the last one.                                *)

(* The active partition stays the last when no file changes.               *)
LEMMA LastUntouched ==
    ASSUME IInv, LastInv, TypeOK', files' = files,
           \A s \in Streams : active'[s] \in {0, active[s]},
           manifest'.pid >= manifest.pid
    PROVE  LastInv'
<1>. SUFFICES ASSUME NEW s \in Streams, active'[s] # 0, NEW p \in Pids, files'[s][p] # Absent
              PROVE  /\ p <= active'[s] /\ p < manifest'.pid
                     /\ p # active'[s] => Full(files'[s][p])
    BY DEF LastInv, LastAt
<1>1. /\ p <= active[s] /\ p < manifest.pid /\ active'[s] = active[s]
      /\ p # active[s] => Full(files[s][p])
    BY DEF LastInv, LastAt
<1>2. p \in Nat /\ manifest.pid \in Nat /\ manifest'.pid \in Nat
    BY DEF IInv, TypeOK, Manifest, Pids
<1>. QED  BY <1>1, <1>2

(* The same when the active partition changes, or one that stays full.     *)
LEMMA LastInPlace ==
    ASSUME IInv, LastInv, NEW s \in Streams, NEW p \in Pids, files[s][p] # Absent, NEW g,
           p = active[s] \/ Full(g),
           files' = [files EXCEPT ![s][p] = g], active' = active, manifest' = manifest
    PROVE  LastInv'
<1>0. files \in [Streams -> [Pids -> Partition \cup {Absent}]]
    BY DEF IInv, TypeOK
<1>1. \A u \in Streams, q \in Pids :
         files'[u][q] = IF u = s /\ q = p THEN g ELSE files[u][q]
    BY <1>0
<1>. SUFFICES ASSUME NEW u \in Streams, active[u] # 0, NEW q \in Pids, files'[u][q] # Absent
              PROVE  /\ q <= active[u] /\ q < manifest.pid
                     /\ q # active[u] => Full(files'[u][q])
    BY DEF LastInv, LastAt
<1>2. files[u][q] # Absent
    BY <1>1
<1>3. /\ q <= active[u] /\ q < manifest.pid
      /\ q # active[u] => Full(files[u][q])
    BY <1>2 DEF LastInv, LastAt
<1>. QED  BY <1>1, <1>3

(* A stream with a first file, or with a new one after a roll.             *)
LEMMA LastFresh ==
    ASSUME IInv, LastInv, NEW s \in Streams, manifest.pid \in Pids,
           files' = [files EXCEPT ![s][manifest.pid] = Fresh],
           active' = [active EXCEPT ![s] = manifest.pid],
           manifest' = [manifest EXCEPT !.pid = @ + 1],
           \A p \in Pids : files[s][p] # Absent => p < manifest.pid /\ Full(files[s][p])
    PROVE  LastInv'
<1>0. files \in [Streams -> [Pids -> Partition \cup {Absent}]]
      /\ active \in [Streams -> Pids \cup {0}] /\ manifest \in Manifest
    BY DEF IInv, TypeOK
<1>1. \A u \in Streams, q \in Pids :
         files'[u][q] = IF u = s /\ q = manifest.pid THEN Fresh ELSE files[u][q]
    BY <1>0
<1>2. \A u \in Streams : active'[u] = IF u = s THEN manifest.pid ELSE active[u]
    BY <1>0
<1>3. manifest'.pid = manifest.pid + 1 /\ manifest.pid \in Nat
    BY <1>0 DEF Manifest
<1>. SUFFICES ASSUME NEW u \in Streams, active'[u] # 0, NEW q \in Pids, files'[u][q] # Absent
              PROVE  /\ q <= active'[u] /\ q < manifest'.pid
                     /\ q # active'[u] => Full(files'[u][q])
    BY DEF LastInv, LastAt
<1>4. q \in Nat
    BY DEF Pids
<1>5. CASE u = s /\ q = manifest.pid
    BY <1>2, <1>3, <1>5
<1>6. CASE u = s /\ q # manifest.pid
  <2>1. files'[u][q] = files[u][q] /\ active'[u] = manifest.pid
    BY <1>1, <1>2, <1>6
  <2>2. q < manifest.pid /\ Full(files[u][q])
    BY <1>6, <2>1
  <2>. QED  BY <1>3, <1>4, <2>1, <2>2
<1>7. CASE u # s
  <2>1. files'[u][q] = files[u][q] /\ active'[u] = active[u]
    BY <1>1, <1>2, <1>7
  <2>2. /\ q <= active[u] /\ q < manifest.pid
        /\ q # active[u] => Full(files[u][q])
    BY <2>1 DEF LastInv, LastAt
  <2>. QED  BY <1>3, <1>4, <2>1, <2>2
<1>. QED  BY <1>5, <1>6, <1>7

(* A stream that was opened: the last partition is the active one.         *)
LEMMA LastOpened ==
    ASSUME IInv, StampInv, LastInv, NEW s \in Streams, Present(s) # {},
           files' = [files EXCEPT ![s] = Opened(s)],
           active' = [active EXCEPT ![s] = Max(Present(s))],
           manifest' = [manifest EXCEPT !.pid = NextPid(s)]
    PROVE  LastInv'
<1>0. /\ files \in [Streams -> [Pids -> Partition \cup {Absent}]]
      /\ active \in [Streams -> Pids \cup {0}] /\ manifest \in Manifest
    BY DEF IInv, TypeOK
<1>. DEFINE m == Max(Present(s))
<1>1. \A u \in Streams, q \in Pids :
         files'[u][q] = IF u = s THEN Opened(s)[q] ELSE files[u][q]
    BY PointStream DEF IInv
<1>2. \A u \in Streams : active'[u] = IF u = s THEN m ELSE active[u]
    BY <1>0
<1>3. manifest'.pid = NextPid(s) /\ manifest.pid \in Nat
    BY <1>0 DEF Manifest
<1>4. m \in Nat /\ \A q \in Pids : files[s][q] # Absent => q <= m
    BY PresentMax DEF Pids
<1>5. NextPid(s) \in Nat /\ NextPid(s) >= manifest.pid /\ NextPid(s) >= m + 1
    BY <1>3, <1>4, MaxOfTwo, m + 1 \in Nat DEF NextPid
<1>. HIDE DEF m
<1>. SUFFICES ASSUME NEW u \in Streams, active'[u] # 0, NEW q \in Pids, files'[u][q] # Absent
              PROVE  /\ q <= active'[u] /\ q < manifest'.pid
                     /\ q # active'[u] => Full(files'[u][q])
    BY DEF LastInv, LastAt
<1>6. q \in Nat
    BY DEF Pids
<1>7. CASE u = s
  <2>1. files'[u][q] = Opened(s)[q] /\ active'[u] = m
    BY <1>1, <1>2, <1>7
  <2>2. files[s][q] # Absent
    BY <2>1, OpenedFacts
  <2>3. q # m => Full(Opened(s)[q])
    BY <2>2, OpenedFacts DEF m
  <2>4. q <= m
    BY <1>4, <2>2
  <2>. QED  BY <1>3, <1>4, <1>5, <1>6, <2>1, <2>3, <2>4
<1>8. CASE u # s
  <2>1. files'[u][q] = files[u][q] /\ active'[u] = active[u]
    BY <1>1, <1>2, <1>8
  <2>2. /\ q <= active[u] /\ q < manifest.pid
        /\ q # active[u] => Full(files[u][q])
    BY <2>1 DEF LastInv, LastAt
  <2>. QED  BY <1>3, <1>5, <1>6, <2>1, <2>2
<1>. QED  BY <1>7, <1>8

(* Every step keeps the active partitions last, the others full.           *)
LEMMA LastStep ==
    ASSUME JInv, [Next]_vars, TypeOK'
    PROVE  LastInv'
<1>. /\ IInv /\ LastInv /\ StampInv /\ TypeOK
     /\ active \in [Streams -> Pids \cup {0}] /\ manifest.pid \in Nat
    BY DEF JInv, IInv, TypeOK, Manifest
<1>1. ASSUME NEW s \in Streams, OpenStream(s)
      PROVE  LastInv'
  <2>1. CASE Present(s) = {}
    <3>1. \A p \in Pids : files[s][p] = Absent
      BY <2>1 DEF Present
    <3>. QED  BY <1>1, <2>1, <3>1, LastFresh DEF OpenStream
  <2>2. CASE Present(s) # {}
    BY <1>1, <2>2, LastOpened DEF OpenStream
  <2>. QED  BY <2>1, <2>2
<1>2. CASE RegisterStream
  <2>1. /\ Domain \in Streams /\ Present(Domain) # {}
        /\ files' = [files EXCEPT ![Domain] = Opened(Domain)]
        /\ active' = [active EXCEPT ![Domain] = Max(Present(Domain))]
        /\ manifest' = [manifest EXCEPT !.pid = NextPid(Domain)]
    BY <1>2, DomainType DEF RegisterStream, Registered
  <2>. HIDE DEF Domain
  <2>. QED  BY <2>1, LastOpened
<1>3. CASE CreateStream
  <2>1. /\ Domain \in Streams /\ active[Domain] = 0 /\ manifest.pid \in Pids
        /\ files' = [files EXCEPT ![Domain][manifest.pid] = Fresh]
        /\ active' = active /\ manifest' = manifest
    BY <1>3, DomainClosed DEF CreateStream
  <2>. HIDE DEF Domain
  <2>2. files \in [Streams -> [Pids -> Partition \cup {Absent}]]
    BY DEF TypeOK
  <2>3. \A u \in Streams, q \in Pids : u # Domain => files'[u][q] = files[u][q]
    BY <2>1, <2>2
  <2>. QED  BY <2>1, <2>3 DEF LastInv, LastAt
<1>4. CASE Append1
  <2>1. PICK s \in Streams, rec \in Record :
           /\ active[s] \in Pids /\ files[s][active[s]] # Absent
           /\ rec.seq = nextSeq /\ s = Home[Head(batch).key]
           /\ rec = [seq |-> nextSeq, key |-> Head(batch).key, ver |-> Head(batch).ver]
           /\ files' = [files EXCEPT ![s][active[s]] = Appended(files[s][active[s]], rec)]
           /\ \A u \in Streams, q \in Pids :
                 IF u = s /\ q = active[s]
                 THEN /\ files'[u][q] # Absent
                      /\ files'[u][q].data = Append(files[u][q].data, rec)
                      /\ files'[u][q].stamp = files[u][q].stamp
                      /\ files'[u][q].synced = files[u][q].synced
                 ELSE files'[u][q] = files[u][q]
    BY <1>4, AppendDoes
  <2>2. active' = active /\ manifest' = manifest
    BY <1>4 DEF Append1
  <2>. QED  BY <2>1, <2>2, LastInPlace
<1>5. CASE Commit
  <2>. DEFINE s == Head(touched)
  <2>1. /\ s \in Streams /\ active[s] \in Pids /\ files[s][active[s]] # Absent
        /\ files' = [files EXCEPT ![s][active[s]] = Committed(files[s][active[s]])]
        /\ active' = active /\ manifest' = manifest
    BY <1>5, HeadOpen DEF Commit
  <2>. HIDE DEF s
  <2>. QED  BY <2>1, LastInPlace
<1>6. CASE RollCreate
  <2>. DEFINE s == Head(touched)
  <2>1. /\ s \in Streams /\ active[s] # 0 /\ manifest.pid \in Pids
        /\ files' = [files EXCEPT ![s][manifest.pid] = Fresh]
        /\ active' = [active EXCEPT ![s] = manifest.pid]
        /\ manifest' = [manifest EXCEPT !.pid = @ + 1]
    BY <1>6, HeadOpen DEF RollCreate
  <2>2. Full(files[s][active[s]])
    BY <1>6 DEF RollCreate, JInv, RollInv
  <2>. HIDE DEF s
  <2>3. \A p \in Pids : files[s][p] # Absent => p < manifest.pid /\ Full(files[s][p])
    BY <2>1, <2>2 DEF LastInv, LastAt
  <2>. QED  BY <2>1, <2>3, LastFresh
<1>7. CASE Stamp \/ Harden
  <2>. DEFINE s == Head(touched)
              f == files[s][sealing]
  <2>1. s \in Streams /\ active[s] # 0 /\ sealing \in Pids /\ f # Absent /\ sealing # active[s]
    BY <1>7, HeadOpen DEF Stamp, Harden, JInv, RollInv
  <2>2. /\ \/ files' = [files EXCEPT ![s][sealing] = Stamped(f)]
           \/ files' = [files EXCEPT ![s][sealing] = Sealed(f)]
        /\ active' = active /\ manifest' = manifest
    BY <1>7 DEF Stamp, Harden
  <2>. HIDE DEF s
  <2>3. f \in Partition /\ Full(f)
    BY <2>1, FileFacts DEF LastInv, LastAt
  <2>4. Full(Stamped(f)) /\ Full(Sealed(f))
    BY <2>3, InPlaceFields DEF Full
  <2>. QED  BY <2>1, <2>2, <2>4, LastInPlace
<1>8. CASE Killed \/ PowerCut
  <2>1. active' = Closed
    BY <1>8, CrashChoice DEF Crash
  <2>. QED  BY <2>1 DEF LastInv, LastAt, Closed
<1>9. CASE LoadManifest
  <2>1. active' = active /\ \A s \in Streams : active[s] = 0
    BY <1>9 DEF LoadManifest, JInv, NsInv
  <2>. QED  BY <2>1 DEF LastInv, LastAt
<1>10. CASE PlanFails
  <2>1. manifest'.pid >= manifest.pid
    <3>1. CASE manifest' = manifest
      BY <3>1
    <3>2. CASE manifest' = [manifest EXCEPT !.ns = @ \cup {Domain}]
      BY <3>2 DEF TypeOK, Manifest
    <3>3. CASE /\ Missing # {} /\ Present(Domain) # {}
               /\ manifest' = [manifest EXCEPT !.pid = NextPid(Domain)]
      <4>1. Max(Present(Domain)) + 1 \in Nat
        BY <3>3, DomainType, PresentMax DEF Pids
      <4>2. NextPid(Domain) >= manifest.pid
        BY <4>1, MaxOfTwo DEF NextPid
      <4>. QED  BY <3>3, <4>2 DEF TypeOK, Manifest
    <3>. QED  BY <1>10, <3>1, <3>2, <3>3 DEF PlanFails
  <2>2. files' = files /\ active' = active
    BY <1>10 DEF PlanFails
  <2>. QED  BY <2>1, <2>2, LastUntouched
<1>11. CASE InternDomain
  <2>1. manifest'.pid = manifest.pid /\ files' = files /\ active' = active
    BY <1>11 DEF InternDomain, TypeOK, Manifest
  <2>. QED  BY <2>1, LastUntouched
<1>12. CASE \/ OpenDone \/ Planned \/ Finish \/ WriteFails \/ UNCHANGED vars
            \/ \E b \in Batches : Begin(b)
  <2>1. manifest' = manifest /\ files' = files /\ active' = active
    BY <1>12 DEF OpenDone, Planned, Finish, WriteFails, vars, Begin
  <2>. QED  BY <2>1, LastUntouched
<1>. QED  BY <1>1, <1>2, <1>3, <1>4, <1>5, <1>6, <1>7, <1>8, <1>9, <1>10, <1>11, <1>12
          DEF Next, Step

---------------------------------------------------------------------------
(* What a roll has in hand, and the manifest.                              *)

(* Every step keeps what a roll has in hand.                               *)
LEMMA RollStep ==
    ASSUME JInv, [Next]_vars
    PROVE  RollInv'
<1>. IInv /\ LastInv /\ RollInv
    BY DEF JInv
<1>1. CASE Commit
  <2>. DEFINE s == Head(touched)
              f == files[s][active[s]]
  <2>. SUFFICES ASSUME phase' \in Rolling PROVE RollInv'
    BY DEF RollInv, Rolling
  <2>1. /\ s \in Streams /\ active[s] \in Pids /\ f \in Partition
        /\ files' = [files EXCEPT ![s][active[s]] = Committed(f)]
        /\ active' = active /\ phase' = "roll" /\ touched' = touched
    <3>1. s \in Streams /\ active[s] \in Pids /\ f # Absent
      BY <1>1, HeadOpen DEF Commit
    <3>2. phase' = "roll" /\ touched' = touched
      BY <1>1 DEF Commit, AfterStream, Rolling
    <3>. QED  BY <1>1, <3>1, <3>2, FileFacts DEF Commit
  <2>. HIDE DEF s
  <2>2. files \in [Streams -> [Pids -> Partition \cup {Absent}]]
    BY DEF IInv, TypeOK
  <2>3. files'[s][active[s]] = Committed(f)
    BY <2>1, <2>2
  <2>4. Full(Committed(f))
    BY <2>1, InPlaceFields DEF Full
  <2>. QED  BY <2>1, <2>3, <2>4 DEF RollInv, s
<1>2. CASE RollCreate
  <2>1. /\ Head(touched) \in Streams /\ active[Head(touched)] # 0
        /\ active[Head(touched)] \in Pids
        /\ files[Head(touched)][active[Head(touched)]] # Absent
    BY <1>2, HeadOpen DEF RollCreate
  <2>2. active[Head(touched)] < manifest.pid
    BY <2>1 DEF LastInv, LastAt
  <2>3. active \in [Streams -> Pids \cup {0}] /\ manifest.pid \in Nat /\ active[Head(touched)] \in Nat
    BY <2>1 DEF IInv, TypeOK, Manifest, Pids
  <2>4. /\ phase' = "stamp" /\ touched' = touched /\ sealing' = active[Head(touched)]
        /\ active' = [active EXCEPT ![Head(touched)] = manifest.pid]
    BY <1>2 DEF RollCreate
  <2>5. active'[Head(touched)] = manifest.pid
    BY <2>1, <2>3, <2>4
  <2>6. sealing' # active'[Head(touched')]
    BY <2>2, <2>3, <2>4, <2>5
  <2>. QED  BY <2>4, <2>6 DEF RollInv
<1>3. CASE Stamp
    BY <1>3 DEF Stamp, RollInv, call
<1>4. CASE Killed \/ PowerCut
  <2>1. phase' = "down"
    BY <1>4, CrashChoice DEF Crash
  <2>. QED  BY <2>1 DEF RollInv
<1>5. CASE UNCHANGED vars
    BY <1>5 DEF RollInv, vars
<1>6. CASE \/ LoadManifest \/ OpenDone \/ InternDomain \/ CreateStream \/ RegisterStream
           \/ Planned \/ Append1 \/ Harden \/ Finish \/ PlanFails \/ WriteFails
           \/ (\E s \in Streams : OpenStream(s)) \/ (\E b \in Batches : Begin(b))
  <2>1. phase' \notin {"roll", "stamp", "harden"}
    BY <1>6 DEF LoadManifest, OpenDone, InternDomain, CreateStream, RegisterStream, Planned,
                Append1, Harden, Finish, PlanFails, WriteFails, OpenStream, Begin, AfterStream
  <2>. QED  BY <2>1 DEF RollInv
<1>. QED  BY <1>1, <1>2, <1>3, <1>4, <1>5, <1>6 DEF Next, Step

(* Every step keeps the open streams in the saved manifest.                *)
LEMMA NsStep ==
    ASSUME JInv, [Next]_vars
    PROVE  NsInv'
<1>. /\ IInv /\ NsInv /\ TypeOK
     /\ active \in [Streams -> Pids \cup {0}]
     /\ manifest \in Manifest /\ saved \in Manifest
    BY DEF JInv, IInv, TypeOK
<1>1. CASE LoadManifest
    BY <1>1 DEF LoadManifest, NsInv
<1>2. ASSUME NEW s \in Streams, OpenStream(s)
      PROVE  NsInv'
  <2>1. s \in manifest.ns /\ manifest.ns = saved.ns
    BY <1>2 DEF OpenStream, Unopened, NsInv
  <2>2. /\ manifest'.ns = manifest.ns /\ saved' = saved /\ phase' = "open"
        /\ \A u \in Streams : u # s => active'[u] = active[u]
    <3>1. CASE Present(s) = {}
      BY <1>2, <3>1 DEF OpenStream, Manifest
    <3>2. CASE Present(s) # {}
      BY <1>2, <3>2 DEF OpenStream, Manifest
    <3>. QED  BY <3>1, <3>2
  <2>. QED  BY <2>1, <2>2 DEF NsInv
<1>3. CASE OpenDone
    BY <1>3 DEF OpenDone, NsInv
<1>4. CASE InternDomain
  <2>1. /\ manifest'.ns = manifest.ns \cup {Domain} /\ saved' = manifest'
        /\ phase' = "plan" /\ active' = active
    BY <1>4 DEF InternDomain, Manifest
  <2>. QED  BY <2>1 DEF NsInv
<1>5. CASE RegisterStream
  <2>1. /\ manifest'.ns = manifest.ns /\ saved' = manifest' /\ phase' = "plan"
        /\ Domain \in manifest.ns
        /\ active' = Registered(Domain)
    BY <1>5 DEF RegisterStream, Manifest
  <2>2. \A u \in Streams : u # Domain => active'[u] = active[u]
    BY <2>1 DEF Registered
  <2>. HIDE DEF Domain
  <2>. QED  BY <2>1, <2>2 DEF NsInv
<1>6. CASE PlanFails
  <2>1. manifest.ns \subseteq manifest'.ns
    BY <1>6 DEF PlanFails, Manifest
  <2>2. phase' = "idle" /\ saved' = saved /\ active' = active
    BY <1>6 DEF PlanFails
  <2>. QED  BY <2>1, <2>2 DEF NsInv
<1>7. CASE RollCreate
  <2>1. /\ manifest'.ns = manifest.ns /\ saved' = saved /\ phase' = "stamp"
        /\ active' = [active EXCEPT ![Head(touched)] = manifest.pid]
    BY <1>7 DEF RollCreate, Manifest
  <2>2. active[Head(touched)] # 0 /\ Head(touched) \in Streams
    BY <1>7, HeadOpen DEF RollCreate
  <2>3. \A u \in Streams : active'[u] # 0 => active[u] # 0
    BY <2>1, <2>2
  <2>. QED  BY <2>1, <2>3 DEF NsInv
<1>8. CASE Finish
    BY <1>8 DEF Finish, NsInv
<1>9. CASE Killed \/ PowerCut
  <2>1. phase' = "down" /\ active' = Closed /\ saved' = saved /\ manifest' = saved
    BY <1>9, CrashChoice DEF Crash
  <2>. QED  BY <2>1 DEF NsInv, Closed
<1>10. CASE \/ CreateStream \/ Planned \/ Append1 \/ Commit \/ Stamp \/ Harden
            \/ WriteFails \/ (\E b \in Batches : Begin(b))
  <2>1. /\ manifest' = manifest /\ saved' = saved /\ active' = active
        /\ phase' \notin {"down", "open"}
    BY <1>10 DEF CreateStream, Planned, Append1, Commit, Stamp, Harden, WriteFails, Begin,
                 AfterStream
  <2>. QED  BY <2>1 DEF NsInv
<1>11. CASE UNCHANGED vars
    BY <1>11 DEF NsInv, vars
<1>. QED  BY <1>1, <1>2, <1>3, <1>4, <1>5, <1>6, <1>7, <1>8, <1>9, <1>10, <1>11
          DEF Next, Step

---------------------------------------------------------------------------
(* The theorems.                                                           *)

(* Every step keeps the stamped counts on durable records.                 *)
LEMMA StampStep ==
    ASSUME JInv, [Next]_vars, TypeOK'
    PROVE  StampInv'
<1>1. CASE Append1
  <2>1. PICK s \in Streams, rec \in Record :
           /\ active[s] \in Pids /\ files[s][active[s]] # Absent
           /\ rec.seq = nextSeq /\ s = Home[Head(batch).key]
           /\ rec = [seq |-> nextSeq, key |-> Head(batch).key, ver |-> Head(batch).ver]
           /\ files' = [files EXCEPT ![s][active[s]] = Appended(files[s][active[s]], rec)]
           /\ \A u \in Streams, q \in Pids :
                 IF u = s /\ q = active[s]
                 THEN /\ files'[u][q] # Absent
                      /\ files'[u][q].data = Append(files[u][q].data, rec)
                      /\ files'[u][q].stamp = files[u][q].stamp
                      /\ files'[u][q].synced = files[u][q].synced
                 ELSE files'[u][q] = files[u][q]
    BY <1>1, AppendDoes
  <2>2. ASSUME NEW u \in Streams, NEW q \in Pids, files'[u][q] # Absent
        PROVE  files'[u][q].stamp <= files'[u][q].synced
    <3>1. CASE u = s /\ q = active[s]
      <4>1. files'[u][q].stamp = files[u][q].stamp /\ files'[u][q].synced = files[u][q].synced
        BY <2>1, <3>1
      <4>2. files[u][q].stamp <= files[u][q].synced
        BY <2>1, <3>1 DEF JInv, StampInv
      <4>. QED  BY <4>1, <4>2
    <3>2. CASE ~(u = s /\ q = active[s])
      <4>1. files'[u][q] = files[u][q]
        BY <2>1, <3>2
      <4>. QED  BY <2>2, <4>1 DEF JInv, StampInv
    <3>. QED  BY <3>1, <3>2
  <2>. QED  BY <2>2 DEF StampInv
<1>2. CASE ~Append1
    BY <1>2, FewerStep
<1>. QED  BY <1>1, <1>2

(* The invariant holds at first.                                           *)
LEMMA OrderedAtFirst == Init => JInv
<1>. SUFFICES ASSUME Init PROVE JInv
    OBVIOUS
<1>1. IInv
    BY Initially
<1>2. \A s \in Streams : Present(s) = {}
    BY DEF Init, Present
<1>3. \A s \in Streams : StreamRecords(s) = {}
    BY <1>2 DEF StreamRecords
<1>4. LastInv /\ StampInv /\ RollInv /\ NsInv /\ BelowInv
    BY DEF Init, Closed, LastInv, LastAt, StampInv, RollInv, NsInv, BelowInv
<1>5. StreamOrdered /\ SeqUnique /\ DomainKnown
    BY <1>2, <1>3 DEF StreamOrdered, SeqUnique, DomainKnown
<1>. QED  BY <1>1, <1>4, <1>5 DEF JInv

(* The invariant is inductive.                                             *)
LEMMA OrderInductive == JInv /\ [Next]_vars => JInv'
<1>. SUFFICES ASSUME JInv, [Next]_vars PROVE JInv'
    OBVIOUS
<1>1. IInv' /\ TypeOK'
    BY Inductive DEF JInv, IInv
<1>2. LastInv' /\ StampInv'
    BY <1>1, LastStep, StampStep
<1>3. RollInv' /\ NsInv'
    BY RollStep, NsStep
<1>4. BelowInv'
    BY <1>1, BelowStep
<1>5. StreamOrdered' /\ SeqUnique' /\ DomainKnown'
    BY <1>1, OrderStep
<1>. QED  BY <1>1, <1>2, <1>3, <1>4, <1>5 DEF JInv

(* The invariant holds in every behaviour.                                 *)
LEMMA JInvHolds == Spec => []JInv
    BY OrderedAtFirst, OrderInductive, PTL DEF Spec

(* Seqs increase along every stream, over its partitions, whatever rolled, *)
(* failed, was cut off or recovered: what the merge of replay relies on.   *)
THEOREM StreamsStayOrdered == Spec => []StreamOrdered
<1>1. JInv => StreamOrdered
    BY DEF JInv
<1>. QED  BY <1>1, JInvHolds, PTL

(* No seq is ever handed out twice, in one stream or in two, although it   *)
(* is only recomputed from what a recovery finds.                          *)
THEOREM SeqStaysUnique == Spec => []SeqUnique
<1>1. JInv => SeqUnique
    BY DEF JInv
<1>. QED  BY <1>1, JInvHolds, PTL

(* A stream that holds records is in the saved manifest, so that every     *)
(* open finds it (R10).                                                    *)
THEOREM DomainStaysKnown == Spec => []DomainKnown
<1>1. JInv => DomainKnown
    BY DEF JInv
<1>. QED  BY <1>1, JInvHolds, PTL

(* Between batches every partition but the active one is below it, indexed *)
(* and durable to its last record (H11).                                   *)
THEOREM SealedStaysWhole == Spec => []SealedWhole
<1>1. JInv => SealedWhole
  <2>. SUFFICES ASSUME JInv, NEW s \in Streams, NEW p \in Present(s), active[s] \notin {0, p}
                PROVE  p < active[s] /\ Full(files[s][p])
    BY DEF SealedWhole, Full
  <2>1. p \in Pids /\ files[s][p] # Absent /\ active[s] # 0 /\ p # active[s]
    BY DEF Present
  <2>2. p <= active[s] /\ Full(files[s][p])
    BY <2>1 DEF JInv, LastInv, LastAt
  <2>3. p \in Nat /\ active[s] \in Nat
    BY <2>1 DEF JInv, IInv, TypeOK, Pids
  <2>. QED  BY <2>1, <2>2, <2>3
<1>. QED  BY <1>1, JInvHolds, PTL

(* The id a roll is about to create a file for is free in its stream.      *)
THEOREM RollIdStaysFree == Spec => []RollIdFree
<1>1. JInv => RollIdFree
  <2>. SUFFICES ASSUME JInv, phase = "roll", manifest.pid \in Pids
                PROVE  files[Head(touched)][manifest.pid] = Absent
    BY DEF RollIdFree
  <2>1. Head(touched) \in Streams /\ active[Head(touched)] # 0
    BY HeadOpen DEF JInv
  <2>2. manifest.pid \in Nat /\ ~(manifest.pid < manifest.pid)
    BY DEF JInv, IInv, TypeOK, Manifest
  <2>. QED  BY <2>1, <2>2 DEF JInv, LastInv, LastAt
<1>. QED  BY <1>1, JInvHolds, PTL

(* The records of a sealed partition are never changed or removed, by any  *)
(* step, a power cut included (H11).                                       *)
THEOREM SealedStaysForever == Spec => SealedForever
<1>. DEFINE Kept1 == \A s \in Streams : \A p \in Present(s) :
                        (\E q \in Present(s) : p < q) /\ SealedOk(files[s][p]) =>
                           files'[s][p] # Absent /\ files'[s][p].data = files[s][p].data
<1>1. JInv /\ [Next]_vars => Kept1
  <2>. SUFFICES ASSUME JInv, [Next]_vars, NEW s \in Streams, NEW p \in Present(s),
                       NEW q \in Present(s), p < q, SealedOk(files[s][p])
                PROVE  files'[s][p] # Absent /\ files'[s][p].data = files[s][p].data
    OBVIOUS
  <2>1. /\ p \in Pids /\ q \in Pids /\ files[s][p] # Absent /\ files[s][q] # Absent
        /\ p \in Nat /\ q \in Nat
    BY DEF Present, Pids
  <2>2. IInv /\ TypeOK'
    BY Inductive DEF JInv, IInv
  <2>3. files'[s][p] # Absent
    BY <2>1, <2>2, FilesStep DEF FilesEvolve, Evolves
  <2>4. CASE Append1
    <3>1. PICK u \in Streams, rec \in Record :
           /\ active[u] \in Pids /\ files[u][active[u]] # Absent
           /\ rec.seq = nextSeq /\ u = Home[Head(batch).key]
           /\ rec = [seq |-> nextSeq, key |-> Head(batch).key, ver |-> Head(batch).ver]
           /\ files' = [files EXCEPT ![u][active[u]] = Appended(files[u][active[u]], rec)]
           /\ \A v \in Streams, x \in Pids :
                 IF v = u /\ x = active[u]
                 THEN /\ files'[v][x] # Absent
                      /\ files'[v][x].data = Append(files[v][x].data, rec)
                      /\ files'[v][x].stamp = files[v][x].stamp
                      /\ files'[v][x].synced = files[v][x].synced
                 ELSE files'[v][x] = files[v][x]
      BY <2>2, <2>4, AppendDoes
    <3>2. ~(s = u /\ p = active[u])
      <4>. SUFFICES ASSUME s = u, p = active[u] PROVE FALSE
        OBVIOUS
      <4>1. active[s] # 0
        <5>1. active[u] \in Pids
          BY <3>1
        <5>. QED  BY <5>1 DEF Pids
      <4>2. q <= active[s]
        BY <2>1, <4>1 DEF JInv, LastInv, LastAt
      <4>. QED  BY <2>1, <4>2
    <3>3. files'[s][p] = files[s][p]
      BY <2>1, <3>1, <3>2
    <3>. QED  BY <2>3, <3>3
  <2>5. CASE Killed \/ PowerCut
    <3>1. /\ files[s][p].stamp <= files[s][p].synced
          /\ files[s][p].stamp = Len(files[s][p].data)
      BY <2>1 DEF JInv, StampInv, SealedOk
    <3>2. /\ files[s][p].synced <= files[s][p].flushed
          /\ files[s][p].flushed <= Len(files[s][p].data)
          /\ files[s][p].synced \in Nat /\ files[s][p].flushed \in Nat
          /\ Len(files[s][p].data) \in Nat
      BY <2>1, <2>2, FileFacts
    <3>3. files[s][p].synced = Len(files[s][p].data)
      BY <3>1, <3>2
    <3>. QED  BY <2>1, <2>2, <2>3, <2>5, <3>3, CrashStep DEF JInv
  <2>6. CASE ~Append1 /\ ~(Killed \/ PowerCut)
    <3>1. SameRecords
      BY <2>6, SameStep DEF JInv
    <3>. QED  BY <2>1, <2>3, <3>1 DEF SameRecords, SameAt
  <2>. QED  BY <2>4, <2>5, <2>6
<1>2. JInv /\ [Next]_vars => [Kept1]_vars
    BY <1>1
<1>. QED  BY <1>2, JInvHolds, PTL DEF Spec, SealedForever, Kept1

---------------------------------------------------------------------------
(* Versions.                                                               *)

(* Records whose seqs and versions are in the same order.                  *)
InLine(R) ==
    \A r, q \in R : /\ r.seq < q.seq => r.ver < q.ver
                    /\ r.seq = q.seq => r = q

Lined == \A s \in Streams : InLine(StreamRecords(s))

(* A stored version was issued, and none is beyond the count.              *)
VersInv ==
    /\ \A k \in Keys : \A v \in issued[k] : v <= version
    /\ \A s \in Streams : \A r \in StreamRecords(s) : r.ver \in issued[r.key]

(* What is left of the batch comes last, in order.                         *)
BatchInv ==
    /\ \A i \in DOMAIN batch : batch[i] \in inflight
    /\ \A i, j \in DOMAIN batch : i < j => batch[i].ver < batch[j].ver
    /\ \A s \in Streams : \A r \in StreamRecords(s) : \A i \in DOMAIN batch : r.ver < batch[i].ver
    /\ \A r \in inflight : \/ \E i \in DOMAIN batch : batch[i] = r
                           \/ \A i \in DOMAIN batch : r.ver < batch[i].ver
    /\ phase \notin {"plan", "append", "poisoned"} => batch = <<>>

(* The batch in progress is the newest one.                                *)
NewestInv ==
    /\ \A r \in inflight : r.ver \in issued[r.key]
    /\ \A r \in inflight : \A k \in Keys : \A v \in issued[k] :
          v < r.ver \/ \E q \in inflight : q.key = k /\ q.ver = v

(* The versions of k in the part of the batch that was appended.           *)
Given(k) ==
    {r.ver : r \in {q \in inflight : q.key = k /\ \A i \in DOMAIN batch : batch[i] # q}}
SoFar(k) == IF Given(k) = {} THEN shown[k] ELSE Max(Given(k))

(* Between batches the graph shows what a replay would; in a batch, what a *)
(* replay would show is that and the part of the batch that was appended.  *)
GraphInv ==
    /\ phase \in {"idle", "plan"} => shown = Recovers
    /\ phase \in Writing => \A k \in Keys : Recovers[k] = SoFar(k)

RInv == JInv /\ Lined /\ VersInv /\ BatchInv /\ NewestInv /\ GraphInv

---------------------------------------------------------------------------
(* What a replay of records in line returns: the newest version.           *)
About(R, k) == {r \in R : r.key = k}

(* No record about k, nothing is shown.                                    *)
LEMMA ReplayNone ==
    ASSUME NEW R, NEW k, About(R, k) = {}
    PROVE  Replay(R, k) = 0
    BY DEF Replay, About

(* The newest record about k is the one shown.                             *)
LEMMA ReplayIs ==
    ASSUME NEW R \in SUBSET Record, InLine(R), NEW k \in Keys, NEW r \in About(R, k),
           \A q \in About(R, k) : q.ver <= r.ver
    PROVE  Replay(R, k) = r.ver
<1>. DEFINE A == About(R, k)
            c == CHOOSE x \in A : \A q \in A : q.seq <= x.seq
<1>1. \A x \in A : x \in R /\ x.seq \in Nat /\ x.ver \in Nat
    BY DEF About, Record, Versions
<1>2. \A q \in A : q.seq <= r.seq
  <2>. SUFFICES ASSUME NEW q \in A, r.seq < q.seq PROVE FALSE
    BY <1>1
  <2>1. r.ver < q.ver
    BY <1>1 DEF InLine
  <2>2. q.ver <= r.ver /\ q.ver \in Nat /\ r.ver \in Nat
    BY <1>1
  <2>. QED  BY <2>1, <2>2
<1>3. c \in A /\ \A q \in A : q.seq <= c.seq
    BY <1>2
<1>4. Replay(R, k) = c.ver
  <2>1. A # {}
    OBVIOUS
  <2>. QED  BY <2>1 DEF Replay, About
<1>. HIDE DEF c
<1>5. c.seq = r.seq
    BY <1>1, <1>2, <1>3
<1>6. c = r
    BY <1>1, <1>3, <1>5 DEF InLine
<1>. QED  BY <1>4, <1>6

(* Some record about k is the newest, and shown.                           *)
LEMMA ReplaySome ==
    ASSUME NEW R \in SUBSET Record, InLine(R), NEW k \in Keys, About(R, k) # {}
    PROVE  \E r \in About(R, k) : /\ Replay(R, k) = r.ver
                                  /\ \A q \in About(R, k) : q.ver <= r.ver
<1>. DEFINE A == About(R, k)
            V == {r.ver : r \in A}
<1>1. V \in SUBSET (0 .. MaxVersion) /\ V # {} /\ MaxVersion \in Nat
    BY BoundsAssumption DEF About, Record, Versions
<1>2. Max(V) \in V /\ \A y \in V : y <= Max(V)
    BY <1>1, MaxExists
<1>3. PICK r \in A : r.ver = Max(V)
    BY <1>2
<1>4. \A q \in A : q.ver <= r.ver
    BY <1>2, <1>3
<1>5. Replay(R, k) = r.ver
    BY <1>4, ReplayIs
<1>. QED  BY <1>4, <1>5

(* More records: the same version is shown, or one of the added ones that  *)
(* is newer.                                                               *)
LEMMA ReplayGrows ==
    ASSUME NEW R \in SUBSET Record, NEW T \in SUBSET Record, R \subseteq T, InLine(T),
           NEW k \in Keys
    PROVE  \/ Replay(T, k) = Replay(R, k)
           \/ \E r \in About(T, k) : Replay(T, k) = r.ver /\ Replay(T, k) > Replay(R, k)
<1>1. InLine(R)
    BY DEF InLine
<1>2. About(R, k) \subseteq About(T, k)
    BY DEF About
<1>3. CASE About(T, k) = {}
    BY <1>2, <1>3, ReplayNone
<1>4. CASE About(T, k) # {}
  <2>1. PICK r \in About(T, k) : /\ Replay(T, k) = r.ver
                                 /\ \A q \in About(T, k) : q.ver <= r.ver
    BY <1>4, ReplaySome
  <2>2. r.ver \in Nat /\ r.ver > 0
    BY DEF About, Record, Versions
  <2>3. CASE About(R, k) = {}
    <3>1. Replay(R, k) = 0
      BY <2>3, ReplayNone
    <3>. QED  BY <2>1, <2>2, <3>1
  <2>4. CASE About(R, k) # {}
    <3>1. PICK q \in About(R, k) : Replay(R, k) = q.ver
      BY <1>1, <2>4, ReplaySome
    <3>2. q.ver <= r.ver /\ q.ver \in Nat
      BY <1>2, <2>1 DEF About, Record, Versions
    <3>. QED  BY <2>1, <2>2, <3>1, <3>2
  <2>. QED  BY <2>3, <2>4
<1>. QED  BY <1>3, <1>4

---------------------------------------------------------------------------
(* What a step does to the records of a stream.                            *)

(* A step that leaves the files' records alone leaves the streams'.        *)
LEMMA SameSet ==
    ASSUME IInv, TypeOK', SameRecords, FilesEvolve, NEW s \in Streams
    PROVE  StreamRecords(s)' = StreamRecords(s)
<1>1. StreamRecords(s)' \subseteq StreamRecords(s)
    BY SameIsFewer, FewerSubset
<1>2. ASSUME NEW r \in StreamRecords(s)
      PROVE  r \in StreamRecords(s)'
  <2>1. PICK p \in Present(s) : \E i \in 1 .. Len(files[s][p].data) : r = files[s][p].data[i]
    BY DEF StreamRecords
  <2>2. p \in Pids /\ files[s][p] # Absent
    BY DEF Present
  <2>3. files'[s][p] # Absent
    BY <2>2 DEF FilesEvolve, Evolves
  <2>4. files'[s][p].data = files[s][p].data
    BY <2>2, <2>3 DEF SameRecords, SameAt
  <2>5. p \in Present(s)'
    BY <2>2, <2>3 DEF Present
  <2>. QED  BY <2>1, <2>4, <2>5 DEF StreamRecords
<1>. QED  BY <1>1, <1>2

(* The record an append adds, and that it adds nothing else.               *)
NewRecord == [seq |-> nextSeq, key |-> Head(batch).key, ver |-> Head(batch).ver]

(* An append adds NewRecord to its stream, and nothing else.               *)
LEMMA AppendSet ==
    ASSUME JInv, TypeOK', Append1, NEW u \in Streams
    PROVE  /\ NewRecord \in Record /\ Home[NewRecord.key] \in Streams
           /\ NewRecord.seq = nextSeq
           /\ NewRecord.key = Head(batch).key /\ NewRecord.ver = Head(batch).ver
           /\ u # Home[NewRecord.key] => StreamRecords(u)' = StreamRecords(u)
           /\ u = Home[NewRecord.key] =>
                 StreamRecords(u)' = StreamRecords(u) \cup {NewRecord}
<1>1. PICK s \in Streams, rec \in Record :
         /\ active[s] \in Pids /\ files[s][active[s]] # Absent
         /\ rec.seq = nextSeq /\ s = Home[Head(batch).key]
         /\ rec = [seq |-> nextSeq, key |-> Head(batch).key, ver |-> Head(batch).ver]
         /\ files' = [files EXCEPT ![s][active[s]] = Appended(files[s][active[s]], rec)]
         /\ \A z \in Streams, q \in Pids :
               IF z = s /\ q = active[s]
               THEN /\ files'[z][q] # Absent
                    /\ files'[z][q].data = Append(files[z][q].data, rec)
                    /\ files'[z][q].stamp = files[z][q].stamp
                    /\ files'[z][q].synced = files[z][q].synced
               ELSE files'[z][q] = files[z][q]
    BY AppendDoes
<1>2. NewRecord = rec
    BY <1>1 DEF NewRecord
<1>3. /\ NewRecord.seq = nextSeq
      /\ NewRecord.key = Head(batch).key /\ NewRecord.ver = Head(batch).ver
    BY DEF NewRecord
<1>4. s = Home[rec.key]
    BY <1>1, <1>2, <1>3
<1>5. \A z \in Streams, q \in Pids :
         IF z = s /\ q = active[s]
         THEN /\ files'[z][q] # Absent
              /\ files'[z][q].data = Append(files[z][q].data, rec)
         ELSE files'[z][q] = files[z][q]
    BY <1>1
<1>6. active[s] \in Pids /\ files[s][active[s]] # Absent
    BY <1>1
<1>. HIDE DEF NewRecord
<1>7. \A q \in Present(u)' : \A i \in DOMAIN files'[u][q].data :
         /\ q \in Pids /\ q \in Present(u)
         /\ \/ /\ i \in DOMAIN files[u][q].data
               /\ files'[u][q].data[i] = files[u][q].data[i]
            \/ /\ u = s /\ q = active[s]
               /\ i = Len(files[u][q].data) + 1
               /\ files'[u][q].data[i] = rec
    BY <1>5, <1>6, AppendPlace
<1>8. ASSUME NEW r \in StreamRecords(u)'
      PROVE  r \in StreamRecords(u) \/ (u = s /\ r = rec)
  <2>1. PICK p \in Present(u)' : \E i \in DOMAIN files'[u][p].data : r = files'[u][p].data[i]
    BY AtPlacePrimed
  <2>2. PICK i \in DOMAIN files'[u][p].data : r = files'[u][p].data[i]
    BY <2>1
  <2>3. p \in Present(u)
    BY <1>7
  <2>4. CASE i \in DOMAIN files[u][p].data /\ files'[u][p].data[i] = files[u][p].data[i]
    BY <2>2, <2>3, <2>4, AtPlace DEF JInv, IInv
  <2>5. CASE u = s /\ files'[u][p].data[i] = rec
    BY <2>2, <2>5
  <2>. QED  BY <1>7, <2>4, <2>5
<1>9. ASSUME NEW p \in Present(u), NEW i \in 1 .. Len(files[u][p].data)
      PROVE  files[u][p].data[i] \in StreamRecords(u)'
  <2>1. /\ p \in Pids /\ files[u][p] # Absent /\ files[u][p].data \in Seq(Record)
        /\ Len(files[u][p].data) \in Nat
    BY FileFacts DEF JInv, Present
  <2>. DEFINE d == files[u][p].data
  <2>2. files'[u][p] # Absent
    BY <1>5, <2>1
  <2>3. files'[u][p].data = d \/ files'[u][p].data = Append(d, rec)
    BY <1>5, <2>1
  <2>4. i \in 1 .. Len(d) /\ d \in Seq(Record) /\ Len(d) \in Nat
    BY <2>1
  <2>. HIDE DEF d
  <2>5. /\ i \in 1 .. Len(Append(d, rec)) /\ Append(d, rec)[i] = d[i]
    BY <2>4
  <2>6. i \in 1 .. Len(files'[u][p].data) /\ files'[u][p].data[i] = d[i]
    BY <2>3, <2>4, <2>5
  <2>7. p \in Present(u)'
    BY <2>1, <2>2 DEF Present
  <2>. QED  BY <2>6, <2>7 DEF StreamRecords, d
<1>10. StreamRecords(u) \subseteq StreamRecords(u)'
  <2>. SUFFICES ASSUME NEW r \in StreamRecords(u) PROVE r \in StreamRecords(u)'
    OBVIOUS
  <2>1. PICK p \in Present(u) : \E i \in 1 .. Len(files[u][p].data) : r = files[u][p].data[i]
    BY DEF StreamRecords
  <2>. QED  BY <1>9, <2>1
<1>11. u = s => rec \in StreamRecords(u)'
  <2>. SUFFICES ASSUME u = s PROVE rec \in StreamRecords(u)'
    OBVIOUS
  <2>. DEFINE d == files[s][active[s]].data
  <2>1. d \in Seq(Record) /\ Len(d) \in Nat
    BY <1>6, FileFacts DEF JInv
  <2>2. files'[s][active[s]] # Absent /\ files'[s][active[s]].data = Append(d, rec)
    BY <1>5, <1>6
  <2>. HIDE DEF d
  <2>3. Len(d) + 1 \in 1 .. Len(Append(d, rec)) /\ Append(d, rec)[Len(d) + 1] = rec
    BY <2>1
  <2>4. active[s] \in Present(u)'
    BY <1>6, <2>2 DEF Present
  <2>5. \E i \in 1 .. Len(files'[s][active[s]].data) : rec = files'[s][active[s]].data[i]
    BY <2>2, <2>3
  <2>. QED  BY <2>4, <2>5 DEF StreamRecords
<1>12. u # s => StreamRecords(u)' = StreamRecords(u)
    BY <1>8, <1>10
<1>13. u = s => StreamRecords(u)' = StreamRecords(u) \cup {rec}
    BY <1>8, <1>10, <1>11
<1>. QED  BY <1>1, <1>2, <1>3, <1>4, <1>12, <1>13

---------------------------------------------------------------------------
(* Every step keeps the records in line and known.                         *)

(* The types the invariants are about.                                     *)
LEMMA StoredFacts ==
    ASSUME IInv, NEW s \in Streams, NEW r \in StreamRecords(s)
    PROVE  r \in Record /\ r.seq \in Nat /\ r.ver \in Nat /\ r.ver \in Versions /\ r.key \in Keys
<1>1. r \in Record
    BY RecordsType DEF IInv
<1>. QED  BY <1>1 DEF Record, Versions

(* The types of the batch and of what was issued.                          *)
LEMMA PendingFacts ==
    ASSUME IInv
    PROVE  /\ DOMAIN batch = 1 .. Len(batch) /\ Len(batch) \in Nat
           /\ \A i \in DOMAIN batch : /\ i \in Nat /\ batch[i] \in Pending
                                      /\ batch[i].ver \in Nat /\ batch[i].key \in Keys
           /\ \A r \in inflight : r.ver \in Nat /\ r.ver \in Versions /\ r.key \in Keys
           /\ \A k \in Keys : \A v \in issued[k] : v \in Nat
           /\ version \in Nat
<1>1. batch \in Seq(Pending) /\ inflight \subseteq Pending
    BY DEF IInv, TypeOK
<1>2. issued \in [Keys -> SUBSET Versions] /\ version \in Nat
    BY BoundsAssumption DEF IInv, TypeOK
<1>3. \A i \in 1 .. Len(batch) : batch[i] \in Pending
    BY <1>1, ElementOfSeq
<1>4. \A k \in Keys : \A v \in issued[k] : v \in Nat
    BY <1>2 DEF Versions
<1>5. \A r \in Pending : r.ver \in Nat /\ r.ver \in Versions /\ r.key \in Keys
    BY DEF Pending, Versions
<1>. QED  BY <1>1, <1>2, <1>3, <1>4, <1>5

(* The step that appends: what is added is the newest record of all.       *)
LEMMA AppendedIsNewest ==
    ASSUME RInv, Append1
    PROVE  /\ Head(batch) \in inflight /\ Head(batch) = batch[1] /\ 1 \in DOMAIN batch
           /\ Head(batch).ver \in issued[Head(batch).key]
           /\ Head(batch).key \in Keys /\ Head(batch).ver \in Nat
           /\ \A s \in Streams : \A r \in StreamRecords(s) :
                 r.seq < nextSeq /\ r.ver < Head(batch).ver
           /\ \A i \in DOMAIN Tail(batch) :
                 /\ i + 1 \in DOMAIN batch /\ Tail(batch)[i] = batch[i + 1]
                 /\ Head(batch).ver < Tail(batch)[i].ver
<1>. JInv /\ IInv
    BY DEF RInv, JInv
<1>1. batch # <<>> /\ phase = "append"
    BY DEF Append1
<1>2. /\ Head(batch) = batch[1] /\ 1 \in DOMAIN batch
      /\ \A i \in DOMAIN Tail(batch) : i + 1 \in DOMAIN batch /\ Tail(batch)[i] = batch[i + 1]
    BY <1>1, BatchHead
<1>3. Head(batch) \in inflight
    BY <1>2 DEF RInv, BatchInv
<1>4. Head(batch).ver \in issued[Head(batch).key] /\ Head(batch).key \in Keys /\ Head(batch).ver \in Nat
    BY <1>3, PendingFacts DEF RInv, NewestInv
<1>5. \A s \in Streams : \A r \in StreamRecords(s) : r.seq < nextSeq
    BY <1>1 DEF JInv, BelowInv, Below
<1>6. \A s \in Streams : \A r \in StreamRecords(s) : r.ver < Head(batch).ver
    BY <1>2 DEF RInv, BatchInv
<1>7. \A i \in DOMAIN Tail(batch) : i \in Nat \ {0}
  <2>1. Tail(batch) \in Seq(Pending)
    BY <1>1, BatchHead
  <2>. QED  BY <2>1
<1>8. \A i \in DOMAIN Tail(batch) : Head(batch).ver < Tail(batch)[i].ver
  <2>. SUFFICES ASSUME NEW i \in DOMAIN Tail(batch) PROVE batch[1].ver < batch[i + 1].ver
    BY <1>2
  <2>1. 1 < i + 1
    BY <1>7
  <2>. QED  BY <1>2, <2>1 DEF RInv, BatchInv
<1>. QED  BY <1>2, <1>3, <1>4, <1>5, <1>6, <1>8

(* Every step keeps the records in line.                                   *)
LEMMA LinedStep ==
    ASSUME RInv, [Next]_vars, TypeOK'
    PROVE  Lined'
<1>. JInv /\ IInv
    BY DEF RInv, JInv
<1>. SUFFICES ASSUME NEW s \in Streams PROVE InLine(StreamRecords(s)')
    BY DEF Lined, InLine
<1>1. InLine(StreamRecords(s))
    BY DEF RInv, Lined
<1>2. CASE ~Append1
  <2>1. StreamRecords(s)' \subseteq StreamRecords(s)
    BY <1>2, FewerStep, FewerSubset
  <2>. QED  BY <1>1, <2>1 DEF InLine
<1>3. CASE Append1
  <2>1. StreamRecords(s)' \subseteq StreamRecords(s) \cup {NewRecord}
    BY <1>3, AppendSet
  <2>2. NewRecord.seq = nextSeq /\ NewRecord.ver = Head(batch).ver /\ NewRecord \in Record
    BY <1>3, AppendSet
  <2>3. \A r \in StreamRecords(s) : /\ r.seq < NewRecord.seq /\ r.ver < NewRecord.ver
                                    /\ r.seq \in Nat
    BY <1>3, <2>2, AppendedIsNewest, StoredFacts
  <2>4. NewRecord.seq \in Nat
    BY <2>2 DEF Record, Versions
  <2>. HIDE DEF NewRecord
  <2>. SUFFICES ASSUME NEW r \in StreamRecords(s)', NEW q \in StreamRecords(s)'
                PROVE  /\ r.seq < q.seq => r.ver < q.ver
                       /\ r.seq = q.seq => r = q
    BY DEF InLine
  <2>5. CASE r \in StreamRecords(s) /\ q \in StreamRecords(s)
    BY <1>1, <2>5 DEF InLine
  <2>6. CASE r \in StreamRecords(s) /\ q = NewRecord
    BY <2>3, <2>4, <2>6
  <2>7. CASE r = NewRecord /\ q \in StreamRecords(s)
    BY <2>3, <2>4, <2>7
  <2>8. CASE r = NewRecord /\ q = NewRecord
    BY <2>4, <2>8
  <2>. QED  BY <2>1, <2>5, <2>6, <2>7, <2>8
<1>. QED  BY <1>2, <1>3

(* What Begin issues: versions beyond the count, in the order of the batch. *)
LEMMA BegunBatch ==
    ASSUME IInv, NEW b \in Batches, Begin(b)
    PROVE  /\ phase = "idle" /\ phase' = "plan"
           /\ files' = files /\ shown' = shown /\ acked' = acked
           /\ version' = version + Len(b) /\ Len(b) \in Nat /\ version \in Nat
           /\ DOMAIN batch' = 1 .. Len(b)
           /\ \A i \in 1 .. Len(b) :
                 /\ batch'[i] = [key |-> b[i], ver |-> version + i]
                 /\ batch'[i].key = b[i] /\ batch'[i].ver = version + i
                 /\ batch'[i] \in inflight' /\ b[i] \in Keys
           /\ \A r \in inflight' : \E i \in 1 .. Len(b) : batch'[i] = r
           /\ \A k \in Keys : \A v : v \in issued'[k] <=>
                 v \in issued[k] \/ \E i \in 1 .. Len(b) : b[i] = k /\ v = version + i
<1>1. Len(b) \in Nat \ {0} /\ \A i \in 1 .. Len(b) : b[i] \in Keys
    BY BatchLength
<1>2. version \in Nat
    BY BoundsAssumption DEF IInv, TypeOK
<1>3. /\ phase = "idle" /\ phase' = "plan"
      /\ files' = files /\ shown' = shown /\ acked' = acked
      /\ version' = version + Len(b)
    BY DEF Begin
<1>4. /\ batch' = [i \in 1 .. Len(b) |-> [key |-> b[i], ver |-> version + i]]
      /\ inflight' = {[key |-> b[i], ver |-> version + i] : i \in 1 .. Len(b)}
      /\ issued' = [k \in Keys |->
                      issued[k] \cup {version + i : i \in {j \in 1 .. Len(b) : b[j] = k}}]
    BY DEF Begin
<1>5. DOMAIN batch' = 1 .. Len(b)
    BY <1>4
<1>6. \A i \in 1 .. Len(b) :
         /\ batch'[i] = [key |-> b[i], ver |-> version + i]
         /\ batch'[i].key = b[i] /\ batch'[i].ver = version + i
         /\ batch'[i] \in inflight'
    BY <1>4
<1>7. \A r \in inflight' : \E i \in 1 .. Len(b) : batch'[i] = r
    BY <1>4
<1>8. \A k \in Keys : \A v : v \in issued'[k] <=>
         v \in issued[k] \/ \E i \in 1 .. Len(b) : b[i] = k /\ v = version + i
    BY <1>4
<1>. QED  BY <1>1, <1>2, <1>3, <1>5, <1>6, <1>7, <1>8

(* Only Begin issues versions; only Begin, an append and the end of the    *)
(* batch change what is in progress.                                       *)
LEMMA IssuedOnlyByBegin ==
    ASSUME [Next]_vars, ~(\E b \in Batches : Begin(b))
    PROVE  version' = version /\ issued' = issued
<1>1. CASE Killed \/ PowerCut
    BY <1>1, CrashChoice DEF Crash
<1>2. CASE \/ LoadManifest \/ OpenDone \/ InternDomain \/ CreateStream \/ RegisterStream
           \/ Planned \/ Append1 \/ Commit \/ RollCreate \/ Stamp \/ Harden \/ Finish
           \/ PlanFails \/ WriteFails \/ (\E s \in Streams : OpenStream(s)) \/ UNCHANGED vars
    BY <1>2 DEF LoadManifest, OpenDone, InternDomain, CreateStream, RegisterStream, Planned,
                Append1, Commit, RollCreate, Stamp, Harden, Finish, PlanFails, WriteFails,
                OpenStream, vars, hist
<1>. QED  BY <1>1, <1>2 DEF Next, Step

Quiet ==
    /\ batch' = batch /\ inflight' = inflight /\ shown' = shown
    /\ phase' \notin {"plan", "append", "poisoned"} => phase \notin {"plan", "append", "poisoned"}
    /\ phase' \in {"idle", "plan"} => phase \in {"idle", "plan"}
    /\ phase' \in Writing => phase \in Writing

(* The steps in the middle of a call leave the batch and the graph alone.  *)
LEMMA QuietSteps ==
    ASSUME [Next]_vars, ~(\E b \in Batches : Begin(b)), ~Append1, ~PlanFails, ~Finish,
           ~OpenDone, ~Planned, ~(Killed \/ PowerCut)
    PROVE  Quiet
<1>1. CASE LoadManifest \/ (\E s \in Streams : OpenStream(s))
    BY <1>1 DEF LoadManifest, OpenStream, Quiet, Writing, call, hist
<1>2. CASE InternDomain \/ CreateStream \/ RegisterStream
    BY <1>2 DEF InternDomain, CreateStream, RegisterStream, Quiet, Writing, call, hist
<1>3. CASE Commit
    BY <1>3 DEF Commit, AfterStream, Quiet, Writing, call, hist
<1>4. CASE RollCreate \/ Stamp
    BY <1>4 DEF RollCreate, Stamp, Quiet, Writing, call, hist
<1>5. CASE Harden
    BY <1>5 DEF Harden, AfterStream, Quiet, Writing, call, hist
<1>6. CASE WriteFails
    BY <1>6 DEF WriteFails, Quiet, Writing, call, hist
<1>7. CASE UNCHANGED vars
    BY <1>7 DEF vars, Quiet
<1>. QED  BY <1>1, <1>2, <1>3, <1>4, <1>5, <1>6, <1>7 DEF Next, Step

(* A batch that is over, or that a crash has cut off.                      *)
LEMMA BatchOver ==
    ASSUME IInv, PlanFails \/ Finish \/ OpenDone \/ Killed \/ PowerCut
    PROVE  /\ Finish => batch' = batch /\ phase = "save"
           /\ OpenDone => batch' = batch /\ inflight' = inflight /\ phase = "open" /\ phase' = "idle"
           /\ ~Finish /\ ~OpenDone => batch' = <<>>
           /\ ~OpenDone => inflight' = {}
           /\ phase' \in {"idle", "down"}
<1>1. CASE PlanFails
    BY <1>1 DEF PlanFails, Finish, OpenDone
<1>2. CASE Finish
    BY <1>2 DEF Finish, OpenDone
<1>3. CASE OpenDone
    BY <1>3 DEF OpenDone, call, Finish
<1>4. CASE Killed \/ PowerCut
  <2>1. batch' = <<>> /\ inflight' = {} /\ phase' = "down"
    BY <1>4, CrashChoice DEF Crash
  <2>. QED  BY <2>1 DEF Finish, OpenDone
<1>. QED  BY <1>1, <1>2, <1>3, <1>4

(* Every step keeps the stored versions issued.                            *)
LEMMA VersStep ==
    ASSUME RInv, [Next]_vars, TypeOK'
    PROVE  VersInv'
<1>. JInv /\ IInv
    BY DEF RInv, JInv
<1>1. ASSUME NEW b \in Batches, Begin(b)
      PROVE  VersInv'
  <2>1. \A k \in Keys : \A v \in issued'[k] : v <= version'
    <3>. SUFFICES ASSUME NEW k \in Keys, NEW v \in issued'[k] PROVE v <= version'
      OBVIOUS
    <3>1. CASE v \in issued[k]
      <4>1. v \in Nat /\ v <= version
        BY <3>1, PendingFacts DEF RInv, VersInv
      <4>. QED  BY <1>1, <4>1, BegunBatch
    <3>2. CASE \E i \in 1 .. Len(b) : b[i] = k /\ v = version + i
      BY <1>1, <3>2, BegunBatch
    <3>. QED  BY <1>1, <3>1, <3>2, BegunBatch
  <2>2. \A s \in Streams : StreamRecords(s)' = StreamRecords(s)
    BY <1>1, BegunBatch DEF StreamRecords, Present
  <2>3. \A s \in Streams : \A r \in StreamRecords(s)' : r.ver \in issued'[r.key]
    <3>. SUFFICES ASSUME NEW s \in Streams, NEW r \in StreamRecords(s)
                  PROVE  r.ver \in issued'[r.key]
      BY <2>2
    <3>1. r.ver \in issued[r.key] /\ r.key \in Keys
      BY StoredFacts DEF RInv, VersInv
    <3>. QED  BY <1>1, <3>1, BegunBatch
  <2>. QED  BY <2>1, <2>3 DEF VersInv
<1>2. CASE ~(\E b \in Batches : Begin(b))
  <2>1. version' = version /\ issued' = issued
    BY <1>2, IssuedOnlyByBegin
  <2>2. \A s \in Streams : \A r \in StreamRecords(s)' : r.ver \in issued[r.key]
    <3>. SUFFICES ASSUME NEW s \in Streams, NEW r \in StreamRecords(s)'
                  PROVE  r.ver \in issued[r.key]
      OBVIOUS
    <3>1. CASE r \in StreamRecords(s)
      BY <3>1 DEF RInv, VersInv
    <3>2. CASE Append1 /\ r = NewRecord
      BY <3>2, AppendSet, AppendedIsNewest
    <3>3. r \in StreamRecords(s) \/ (Append1 /\ r = NewRecord)
      <4>1. CASE Append1
        BY <4>1, AppendSet
      <4>2. CASE ~Append1
        BY <4>2, FewerStep, FewerSubset
      <4>. QED  BY <4>1, <4>2
    <3>. QED  BY <3>1, <3>2, <3>3
  <2>3. \A k \in Keys : \A v \in issued[k] : v <= version
    BY DEF RInv, VersInv
  <2>. QED  BY <2>1, <2>2, <2>3 DEF VersInv
<1>. QED  BY <1>1, <1>2

(* Every step keeps the rest of the batch last and in order.               *)
LEMMA BatchStep ==
    ASSUME RInv, [Next]_vars, TypeOK'
    PROVE  BatchInv'
<1>. JInv /\ IInv /\ BatchInv
    BY DEF RInv, JInv
<1>1. ASSUME NEW b \in Batches, Begin(b)
      PROVE  BatchInv'
  <2>0. /\ DOMAIN batch' = 1 .. Len(b) /\ Len(b) \in Nat /\ version \in Nat
        /\ \A i \in 1 .. Len(b) : batch'[i].ver = version + i
    BY <1>1, BegunBatch
  <2>1. \A i, j \in DOMAIN batch' : i < j => batch'[i].ver < batch'[j].ver
    BY <2>0
  <2>2. \A i \in DOMAIN batch' : batch'[i] \in inflight'
    BY <1>1, BegunBatch
  <2>3. \A s \in Streams : \A r \in StreamRecords(s)' : \A i \in DOMAIN batch' :
           r.ver < batch'[i].ver
    <3>. SUFFICES ASSUME NEW s \in Streams, NEW r \in StreamRecords(s)', NEW i \in 1 .. Len(b)
                  PROVE  r.ver < version + i
      BY <2>0
    <3>1. r \in StreamRecords(s)
      BY <1>1, BegunBatch DEF StreamRecords, Present
    <3>2. r.ver \in Nat /\ r.ver <= version
      BY <3>1, StoredFacts DEF RInv, VersInv
    <3>3. version \in Nat /\ i \in Nat \ {0}
      BY <1>1, BegunBatch
    <3>. QED  BY <3>2, <3>3
  <2>4. \A r \in inflight' : \E i \in DOMAIN batch' : batch'[i] = r
    BY <1>1, BegunBatch
  <2>5. phase' = "plan"
    BY <1>1, BegunBatch
  <2>. QED  BY <2>1, <2>2, <2>3, <2>4, <2>5 DEF BatchInv
<1>2. CASE Append1
  <2>1. batch' = Tail(batch) /\ inflight' = inflight
    BY <1>2 DEF Append1, hist
  <2>2. /\ Head(batch) = batch[1] /\ 1 \in DOMAIN batch
        /\ \A i \in DOMAIN Tail(batch) : i + 1 \in DOMAIN batch /\ Tail(batch)[i] = batch[i + 1]
        /\ \A i \in DOMAIN batch : i = 1 \/ (i - 1 \in DOMAIN Tail(batch) /\ Tail(batch)[i - 1] = batch[i])
        /\ \A i \in DOMAIN Tail(batch) : i \in Nat \ {0}
        /\ Tail(batch) \in Seq(Pending)
    <3>1. batch # <<>>
      BY <1>2 DEF Append1
    <3>2. Tail(batch) \in Seq(Pending)
      BY <3>1, BatchHead
    <3>. QED  BY <3>1, <3>2, BatchHead
  <2>3. \A i \in DOMAIN batch' : batch'[i] \in inflight'
    BY <2>1, <2>2 DEF BatchInv
  <2>4. \A i, j \in DOMAIN batch' : i < j => batch'[i].ver < batch'[j].ver
    <3>. SUFFICES ASSUME NEW i \in DOMAIN Tail(batch), NEW j \in DOMAIN Tail(batch), i < j
                  PROVE  batch[i + 1].ver < batch[j + 1].ver
      BY <2>1, <2>2
    <3>1. i + 1 < j + 1
      BY <2>2
    <3>. QED  BY <2>2, <3>1 DEF BatchInv
  <2>5. \A s \in Streams : \A r \in StreamRecords(s)' : \A i \in DOMAIN batch' :
           r.ver < batch'[i].ver
    <3>. SUFFICES ASSUME NEW s \in Streams, NEW r \in StreamRecords(s)',
                         NEW i \in DOMAIN Tail(batch)
                  PROVE  r.ver < Tail(batch)[i].ver
      BY <2>1
    <3>1. r \in StreamRecords(s) \/ r = NewRecord
      BY <1>2, AppendSet
    <3>2. CASE r \in StreamRecords(s)
      BY <2>2, <3>2 DEF BatchInv
    <3>3. CASE r = NewRecord
      BY <1>2, <3>3, AppendSet, AppendedIsNewest
    <3>. QED  BY <3>1, <3>2, <3>3
  <2>6. ASSUME NEW r \in inflight'
        PROVE  \/ \E i \in DOMAIN batch' : batch'[i] = r
               \/ \A i \in DOMAIN batch' : r.ver < batch'[i].ver
    <3>1. CASE \E i \in DOMAIN batch : batch[i] = r
      <4>1. PICK i \in DOMAIN batch : batch[i] = r
        BY <3>1
      <4>2. CASE i = 1
        BY <1>2, <2>1, <2>2, <4>1, <4>2, AppendedIsNewest
      <4>3. CASE i # 1
        BY <2>1, <2>2, <4>1, <4>3
      <4>. QED  BY <4>2, <4>3
    <3>2. CASE \A i \in DOMAIN batch : r.ver < batch[i].ver
      BY <2>1, <2>2, <3>2
    <3>. QED  BY <2>1, <3>1, <3>2 DEF BatchInv
  <2>7. phase' \notin {"plan", "append", "poisoned"} => batch' = <<>>
    BY <1>2 DEF Append1
  <2>. QED  BY <2>3, <2>4, <2>5, <2>6, <2>7 DEF BatchInv
<1>3. CASE PlanFails \/ Finish \/ OpenDone \/ Killed \/ PowerCut
  <2>1. batch' = <<>>
    BY <1>3, BatchOver DEF BatchInv
  <2>2. DOMAIN batch' = {}
    BY <2>1
  <2>. QED  BY <2>1, <2>2 DEF BatchInv
<1>4. CASE /\ ~(\E b \in Batches : Begin(b)) /\ ~Append1
           /\ ~(PlanFails \/ Finish \/ OpenDone \/ Killed \/ PowerCut)
  <2>1. /\ batch' = batch /\ inflight' = inflight
        /\ phase' \notin {"plan", "append", "poisoned"} => phase \notin {"plan", "append", "poisoned"}
    <3>1. CASE Planned
      BY <3>1 DEF Planned, call, hist
    <3>2. CASE ~Planned
      BY <1>4, <3>2, QuietSteps DEF Quiet
    <3>. QED  BY <3>1, <3>2
  <2>2. \A s \in Streams : StreamRecords(s)' \subseteq StreamRecords(s)
    BY <1>4, FewerStep, FewerSubset
  <2>3. \A s \in Streams : \A r \in StreamRecords(s)' : \A i \in DOMAIN batch : r.ver < batch[i].ver
    BY <2>2 DEF BatchInv
  <2>. QED  BY <2>1, <2>3 DEF BatchInv
<1>. QED  BY <1>1, <1>2, <1>3, <1>4

(* Every step keeps the batch in progress the newest.                      *)
LEMMA NewestStep ==
    ASSUME RInv, [Next]_vars, TypeOK'
    PROVE  NewestInv'
<1>. JInv /\ IInv /\ NewestInv
    BY DEF RInv, JInv
<1>1. ASSUME NEW b \in Batches, Begin(b)
      PROVE  NewestInv'
  <2>1. ASSUME NEW r \in inflight'
        PROVE  /\ r.ver \in issued'[r.key]
               /\ \A k \in Keys : \A v \in issued'[k] :
                     v < r.ver \/ \E q \in inflight' : q.key = k /\ q.ver = v
    <3>1. PICK i \in 1 .. Len(b) : batch'[i] = r
      BY <1>1, BegunBatch
    <3>2. r.key = b[i] /\ r.ver = version + i /\ r.key \in Keys
      BY <1>1, <3>1, BegunBatch
    <3>3. r.ver \in issued'[r.key]
      BY <1>1, <3>2, BegunBatch
    <3>4. ASSUME NEW k \in Keys, NEW v \in issued'[k]
          PROVE  v < r.ver \/ \E q \in inflight' : q.key = k /\ q.ver = v
      <4>1. CASE v \in issued[k]
        <5>1. v \in Nat /\ v <= version
          BY <4>1, PendingFacts DEF RInv, VersInv
        <5>2. version \in Nat /\ i \in Nat \ {0}
          BY <1>1, BegunBatch
        <5>. QED  BY <3>2, <5>1, <5>2
      <4>2. CASE \E j \in 1 .. Len(b) : b[j] = k /\ v = version + j
        <5>1. PICK j \in 1 .. Len(b) : b[j] = k /\ v = version + j
          BY <4>2
        <5>. QED  BY <1>1, <5>1, BegunBatch
      <4>. QED  BY <1>1, <4>1, <4>2, BegunBatch
    <3>. QED  BY <3>3, <3>4
  <2>. QED  BY <2>1 DEF NewestInv
<1>2. CASE ~(\E b \in Batches : Begin(b))
  <2>1. issued' = issued
    BY <1>2, IssuedOnlyByBegin
  <2>2. inflight' = inflight \/ inflight' = {}
    <3>1. CASE Append1 \/ Planned
      BY <3>1 DEF Append1, Planned, hist
    <3>2. CASE PlanFails \/ Finish \/ OpenDone \/ Killed \/ PowerCut
      BY <3>2, BatchOver
    <3>3. CASE ~(Append1 \/ Planned) /\ ~(PlanFails \/ Finish \/ OpenDone \/ Killed \/ PowerCut)
      BY <1>2, <3>3, QuietSteps DEF Quiet
    <3>. QED  BY <3>1, <3>2, <3>3
  <2>. QED  BY <2>1, <2>2 DEF NewestInv
<1>. QED  BY <1>1, <1>2

---------------------------------------------------------------------------
(* What a replay shows, before and after a step.                           *)

(* A replay of k depends on the records about k only.                      *)
LEMMA ReplaySameAbout ==
    ASSUME NEW R, NEW T, NEW k, About(R, k) = About(T, k)
    PROVE  Replay(R, k) = Replay(T, k)
<1>. DEFINE Newest(A) == IF A = {} THEN 0 ELSE (CHOOSE r \in A : \A q \in A : q.seq <= r.seq).ver
<1>1. Replay(R, k) = Newest(About(R, k)) /\ Replay(T, k) = Newest(About(T, k))
    BY DEF Replay, About
<1>. HIDE DEF Newest
<1>. QED  BY <1>1

(* What is shown of one entity, before and after a step.                   *)
LEMMA ShowsAt ==
    ASSUME NEW k \in Keys
    PROVE  /\ Recovers[k] = Replay(StreamRecords(Home[k]), k)
           /\ Recovers'[k] = Replay(StreamRecords(Home[k])', k)
           /\ Stored[k] = Replay(DurableRecords(Home[k]), k)
           /\ Stored'[k] = Replay(DurableRecords(Home[k])', k)
           /\ Home[k] \in Streams
    BY KeysAssumption DEF Recovers, Stored, Replay

(* A step that leaves the records alone leaves what a replay shows.        *)
LEMMA SameShows ==
    ASSUME IInv, [Next]_vars, SameRecords
    PROVE  Recovers' = Recovers
<1>1. TypeOK' /\ FilesEvolve
    BY TypeStep, FilesStep
<1>2. \A s \in Streams : StreamRecords(s)' = StreamRecords(s)
    BY <1>1, SameSet
<1>3. \A k \in Keys : Recovers'[k] = Recovers[k]
    BY <1>2, ShowsAt
<1>4. Recovers = [k \in Keys |-> Recovers[k]] /\ Recovers' = [k \in Keys |-> Recovers'[k]]
    BY DEF Recovers
<1>. HIDE DEF Recovers
<1>. QED  BY <1>3, <1>4

(* After an append a replay shows the new version of its entity.           *)
LEMMA AppendShows ==
    ASSUME RInv, TypeOK', Append1, NEW k \in Keys
    PROVE  /\ k = Head(batch).key => Recovers'[k] = Head(batch).ver
           /\ k # Head(batch).key => Recovers'[k] = Recovers[k]
<1>. JInv /\ IInv /\ [Next]_vars
    BY DEF RInv, JInv, Next, Step
<1>. DEFINE R == StreamRecords(Home[k])
            T == StreamRecords(Home[k])'
<1>1. Recovers[k] = Replay(R, k) /\ Recovers'[k] = Replay(T, k) /\ Home[k] \in Streams
    BY ShowsAt
<1>2. R \in SUBSET Record
    BY <1>1, RecordsType DEF IInv
<1>3. /\ NewRecord \in Record /\ NewRecord.key = Head(batch).key
      /\ NewRecord.ver = Head(batch).ver
      /\ Home[k] # Home[NewRecord.key] => T = R
      /\ Home[k] = Home[NewRecord.key] => T = R \cup {NewRecord}
    BY <1>1, AppendSet
<1>4. \A r \in R : r.ver < NewRecord.ver /\ r.ver \in Nat
    BY <1>1, <1>3, AppendedIsNewest, StoredFacts
<1>5. InLine(T)
  <2>1. Lined'
    BY LinedStep
  <2>. QED  BY <1>1, <2>1 DEF Lined, InLine
<1>. HIDE DEF R, T, NewRecord
<1>6. CASE k = Head(batch).key
  <2>1. T = R \cup {NewRecord} /\ T \in SUBSET Record /\ NewRecord \in About(T, k)
    BY <1>2, <1>3, <1>6 DEF About
  <2>2. NewRecord.ver \in Nat
    BY <1>3 DEF Record, Versions
  <2>3. \A q \in About(T, k) : q.ver <= NewRecord.ver
    BY <1>4, <2>1, <2>2 DEF About
  <2>4. Replay(T, k) = NewRecord.ver
    BY <1>5, <2>1, <2>3, ReplayIs
  <2>. QED  BY <1>1, <1>3, <1>6, <2>4
<1>7. CASE k # Head(batch).key
  <2>1. About(T, k) = About(R, k)
    BY <1>3, <1>7 DEF About
  <2>2. Replay(T, k) = Replay(R, k)
    BY <2>1, ReplaySameAbout
  <2>. QED  BY <1>1, <1>7, <2>2
<1>. QED  BY <1>6, <1>7

(* A member that bounds the set is its maximum.                            *)
LEMMA MaxIs ==
    ASSUME NEW S, NEW v \in S, S \subseteq Nat, \A y \in S : y <= v
    PROVE  Max(S) = v
<1>1. \E x \in S : \A y \in S : x >= y
    BY DEF Max
<1>2. Max(S) \in S /\ \A y \in S : Max(S) >= y
    BY <1>1 DEF Max
<1>3. Max(S) \in Nat /\ v \in Nat /\ Max(S) >= v /\ Max(S) <= v
    BY <1>2
<1>. QED  BY <1>3

(* What a replay shows after an append is the batch so far.                *)
LEMMA GraphAppend ==
    ASSUME RInv, TypeOK', Append1, NEW k \in Keys
    PROVE  Recovers'[k] = SoFar(k)'
<1>. JInv /\ IInv /\ BatchInv
    BY DEF RInv, JInv
<1>0. batch # <<>> /\ phase = "append"
    BY DEF Append1
<1>1. batch' = Tail(batch) /\ inflight' = inflight /\ shown' = shown
    BY DEF Append1, hist
<1>2. /\ Head(batch) = batch[1] /\ 1 \in DOMAIN batch
      /\ \A i \in DOMAIN Tail(batch) : i + 1 \in DOMAIN batch /\ Tail(batch)[i] = batch[i + 1]
      /\ \A i \in DOMAIN batch : i = 1 \/ (i - 1 \in DOMAIN Tail(batch) /\ Tail(batch)[i - 1] = batch[i])
    BY <1>0, BatchHead
<1>3. /\ Head(batch) \in inflight /\ Head(batch).ver \in Nat
      /\ \A i \in DOMAIN Tail(batch) : Head(batch).ver < Tail(batch)[i].ver
    BY AppendedIsNewest
<1>4. Recovers[k] = SoFar(k)
    BY <1>0 DEF RInv, GraphInv, Writing
<1>. DEFINE G == {r \in inflight : r.key = k /\ \A i \in DOMAIN batch : batch[i] # r}
            H == {r \in inflight : r.key = k /\ \A i \in DOMAIN Tail(batch) : Tail(batch)[i] # r}
<1>5. Given(k) = {r.ver : r \in G} /\ Given(k)' = {r.ver : r \in H}
    BY <1>1 DEF Given
<1>6. G \subseteq H /\ \A r \in H : r \in G \/ (r = Head(batch) /\ r.key = k)
    BY <1>2
<1>7. Head(batch).key = k => Head(batch) \in H
    BY <1>3
<1>8. \A r \in G : r.ver < Head(batch).ver /\ r.ver \in Nat
  <2>. SUFFICES ASSUME NEW r \in G PROVE r.ver < Head(batch).ver /\ r.ver \in Nat
    OBVIOUS
  <2>1. r \in inflight /\ \A i \in DOMAIN batch : batch[i] # r
    OBVIOUS
  <2>2. \A i \in DOMAIN batch : r.ver < batch[i].ver
    BY <2>1 DEF BatchInv
  <2>. QED  BY <1>2, <2>1, <2>2, PendingFacts
<1>. HIDE DEF G, H
<1>9. CASE Head(batch).key = k
  <2>1. Head(batch).ver \in Given(k)'
    BY <1>5, <1>7, <1>9
  <2>2. \A v \in Given(k)' : v \in Nat /\ v <= Head(batch).ver
    BY <1>3, <1>5, <1>6, <1>8
  <2>3. Max(Given(k)') = Head(batch).ver
    BY <2>1, <2>2, MaxIs
  <2>4. Given(k)' # {}
    BY <2>1
  <2>5. SoFar(k)' = Head(batch).ver
    BY <2>3, <2>4 DEF SoFar
  <2>. QED  BY <1>9, <2>5, AppendShows
<1>10. CASE Head(batch).key # k
  <2>1. Given(k)' = Given(k)
    BY <1>5, <1>6, <1>10
  <2>2. SoFar(k)' = SoFar(k)
    BY <1>1, <2>1 DEF SoFar
  <2>. QED  BY <1>4, <1>10, <2>2, AppendShows
<1>. QED  BY <1>9, <1>10

(* What SoFar depends on.                                                  *)
LEMMA SoFarStays ==
    ASSUME batch' = batch, inflight' = inflight, shown' = shown, NEW k \in Keys
    PROVE  SoFar(k)' = SoFar(k)
<1>1. Given(k)' = Given(k)
    BY DEF Given
<1>. QED  BY <1>1 DEF SoFar

(* When all of the batch is appended, SoFar is what the caller applies.    *)
LEMMA LatestIsSoFar ==
    ASSUME batch = <<>>, NEW k \in Keys
    PROVE  Latest(shown)[k] = SoFar(k)
<1>1. DOMAIN batch = {}
    OBVIOUS
<1>2. Given(k) = {r.ver : r \in {q \in inflight : q.key = k}}
    BY <1>1 DEF Given
<1>. DEFINE mine == {r.ver : r \in {q \in inflight : q.key = k}}
<1>3. Latest(shown)[k] = IF mine = {} THEN shown[k] ELSE Max(mine)
    BY DEF Latest
<1>. HIDE DEF mine
<1>. QED  BY <1>2, <1>3 DEF SoFar, mine

(* Recovers is a function on the entities.                                 *)
LEMMA RecoversDomain == Recovers = [k \in Keys |-> Recovers[k]]
    BY DEF Recovers

(* Every step keeps the graph and a replay in agreement.                   *)
LEMMA GraphStep ==
    ASSUME RInv, [Next]_vars, TypeOK'
    PROVE  GraphInv'
<1>. JInv /\ IInv /\ BatchInv /\ GraphInv
    BY DEF RInv, JInv
<1>0. ~Append1 /\ ~(Killed \/ PowerCut) => Recovers' = Recovers
    BY SameStep, SameShows DEF JInv
<1>1. ASSUME NEW b \in Batches, Begin(b)
      PROVE  GraphInv'
  <2>1. /\ phase = "idle" /\ phase' = "plan" /\ shown' = shown
    BY <1>1, BegunBatch
  <2>2. ~Append1 /\ ~(Killed \/ PowerCut)
    <3>1. ~Append1
      BY <2>1 DEF Append1
    <3>2. ~(Killed \/ PowerCut)
      BY <2>1, CrashChoice DEF Crash
    <3>. QED  BY <3>1, <3>2
  <2>3. Recovers' = Recovers
    BY <1>0, <2>2
  <2>. QED  BY <2>1, <2>3 DEF GraphInv, Writing
<1>2. CASE Append1
  <2>1. phase' \in {"sync", "append"}
    BY <1>2 DEF Append1
  <2>2. \A k \in Keys : Recovers'[k] = SoFar(k)'
    BY <1>2, GraphAppend
  <2>. QED  BY <2>1, <2>2 DEF GraphInv
<1>3. CASE Killed \/ PowerCut
  <2>1. phase' = "down"
    BY <1>3, CrashChoice DEF Crash
  <2>. QED  BY <2>1 DEF GraphInv, Writing
<1>4. CASE Planned
  <2>1. phase = "plan" /\ phase' = "append" /\ batch' = batch /\ inflight' = inflight /\ shown' = shown
    BY <1>4 DEF Planned, call, hist
  <2>2. Recovers' = Recovers
    <3>1. ~Append1
      BY <2>1 DEF Append1
    <3>2. ~(Killed \/ PowerCut)
      BY <2>1, CrashChoice DEF Crash
    <3>. QED  BY <1>0, <3>1, <3>2
  <2>3. \A r \in inflight : \E i \in DOMAIN batch : batch[i] = r
    BY <2>1 DEF IInv, InflightInv
  <2>4. \A k \in Keys : Given(k) = {}
    BY <2>3 DEF Given
  <2>5. \A k \in Keys : SoFar(k) = Recovers[k]
    BY <2>1, <2>4 DEF SoFar, GraphInv
  <2>6. \A k \in Keys : SoFar(k)' = SoFar(k)
    BY <2>1, SoFarStays
  <2>. QED  BY <2>1, <2>2, <2>5, <2>6 DEF GraphInv
<1>5. CASE Finish
  <2>1. phase = "save" /\ phase' = "idle" /\ shown' = Latest(shown)
    BY <1>5 DEF Finish
  <2>2. Recovers' = Recovers
    <3>1. ~Append1
      BY <2>1 DEF Append1
    <3>2. ~(Killed \/ PowerCut)
      BY <2>1, CrashChoice DEF Crash
    <3>. QED  BY <1>0, <3>1, <3>2
  <2>3. batch = <<>>
    BY <2>1 DEF BatchInv
  <2>4. \A k \in Keys : Latest(shown)[k] = Recovers[k]
    BY <2>1, <2>3, LatestIsSoFar DEF GraphInv, Writing
  <2>5. Latest(shown) = [k \in Keys |-> Latest(shown)[k]]
    BY DEF Latest
  <2>6. Latest(shown) = Recovers
    BY <2>4, <2>5, RecoversDomain
  <2>. QED  BY <2>1, <2>2, <2>6 DEF GraphInv, Writing
<1>6. CASE OpenDone
  <2>1. phase = "open" /\ phase' = "idle" /\ shown' = Recovers
    BY <1>6 DEF OpenDone
  <2>2. Recovers' = Recovers
    <3>1. ~Append1
      BY <2>1 DEF Append1
    <3>2. ~(Killed \/ PowerCut)
      BY <2>1, CrashChoice DEF Crash
    <3>. QED  BY <1>0, <3>1, <3>2
  <2>. QED  BY <2>1, <2>2 DEF GraphInv, Writing
<1>7. CASE PlanFails
  <2>1. phase = "plan" /\ phase' = "idle" /\ shown' = shown
    BY <1>7 DEF PlanFails
  <2>2. Recovers' = Recovers
    <3>1. ~Append1
      BY <2>1 DEF Append1
    <3>2. ~(Killed \/ PowerCut)
      BY <2>1, CrashChoice DEF Crash
    <3>. QED  BY <1>0, <3>1, <3>2
  <2>. QED  BY <2>1, <2>2 DEF GraphInv, Writing
<1>8. CASE /\ ~(\E b \in Batches : Begin(b)) /\ ~Append1 /\ ~PlanFails /\ ~Finish
           /\ ~OpenDone /\ ~Planned /\ ~(Killed \/ PowerCut)
  <2>1. Recovers' = Recovers
    BY <1>0, <1>8
  <2>2. /\ batch' = batch /\ inflight' = inflight /\ shown' = shown
        /\ phase' \in {"idle", "plan"} => phase \in {"idle", "plan"}
        /\ phase' \in Writing => phase \in Writing
    BY <1>8, QuietSteps DEF Quiet
  <2>3. \A k \in Keys : SoFar(k)' = SoFar(k)
    BY <2>2, SoFarStays
  <2>. QED  BY <2>1, <2>2, <2>3 DEF GraphInv
<1>. QED  BY <1>1, <1>2, <1>3, <1>4, <1>5, <1>6, <1>7, <1>8

---------------------------------------------------------------------------
(* The theorems.                                                           *)

(* The invariant holds at first.                                           *)
LEMMA ReplayAtFirst == Init => RInv
<1>. SUFFICES ASSUME Init PROVE RInv
    OBVIOUS
<1>1. JInv
    BY OrderedAtFirst
<1>2. \A s \in Streams : StreamRecords(s) = {}
    BY DEF Init, Present, StreamRecords
<1>3. DOMAIN batch = {} /\ inflight = {} /\ batch = <<>> /\ phase = "down"
    BY DEF Init
<1>4. Lined
    BY <1>2 DEF Lined, InLine
<1>5. VersInv
    BY <1>2 DEF VersInv, Init
<1>6. BatchInv /\ NewestInv
    BY <1>2, <1>3 DEF BatchInv, NewestInv
<1>7. GraphInv
    BY <1>3 DEF GraphInv, Writing
<1>. QED  BY <1>1, <1>4, <1>5, <1>6, <1>7 DEF RInv

(* The invariant is inductive.                                             *)
LEMMA ReplayInductive == RInv /\ [Next]_vars => RInv'
<1>. SUFFICES ASSUME RInv, [Next]_vars PROVE RInv'
    OBVIOUS
<1>1. JInv'
    BY OrderInductive DEF RInv
<1>2. TypeOK'
    BY <1>1 DEF JInv, IInv
<1>3. Lined' /\ VersInv'
    BY <1>2, LinedStep, VersStep
<1>4. BatchInv' /\ NewestInv'
    BY <1>2, BatchStep, NewestStep
<1>5. GraphInv'
    BY <1>2, GraphStep
<1>. QED  BY <1>1, <1>3, <1>4, <1>5 DEF RInv

(* The invariant holds in every behaviour.                                 *)
LEMMA RInvHolds == Spec => []RInv
    BY ReplayAtFirst, ReplayInductive, PTL DEF Spec

(* Between batches the graph in memory is what a replay of the files would *)
(* rebuild, whatever failed, rolled, was cut off or reopened before.       *)
THEOREM GraphStaysReplay == Spec => []GraphIsReplay
<1>1. RInv => GraphIsReplay
    BY DEF RInv, GraphInv, GraphIsReplay
<1>. QED  BY <1>1, RInvHolds, PTL

---------------------------------------------------------------------------
(* The store implements the promise of the trait, step by step: Begin is   *)
(* Submit, Finish is Ack, and every other step may only make more of what  *)
(* was issued durable.                                                     *)

RecordsTyped ==
    \A s \in Streams : /\ StreamRecords(s) \in SUBSET Record
                       /\ DurableRecords(s) \in SUBSET StreamRecords(s)

(* The records of the streams, in every state of the invariant ...         *)
LEMMA RecordsAreTyped == IInv => RecordsTyped
    BY RecordsType DEF IInv, RecordsTyped

(* ... and in the next.                                                    *)
LEMMA RecordsStayTyped == IInv' => RecordsTyped'
    BY RecordsAreTyped, PTL

(* Stored is a function on the entities.                                   *)
LEMMA StoredDomain == Stored = [k \in Keys |-> Stored[k]]
    BY DEF Stored

(* A step keeps what a restart would show, or makes it newer.              *)
LEMMA StoredGrows ==
    ASSUME RInv, RInv', [Next]_vars, NEW k \in Keys
    PROVE  /\ Stored'[k] \in Versions \cup {0}
           /\ Stored'[k] = Stored[k] \/ (Stored'[k] \in issued'[k] /\ Stored'[k] > Stored[k])
<1>. JInv /\ IInv /\ IInv' /\ RecordsTyped /\ RecordsTyped'
    BY RecordsAreTyped, RecordsStayTyped DEF RInv, JInv
<1>. DEFINE R == DurableRecords(Home[k])
            T == DurableRecords(Home[k])'
            S == StreamRecords(Home[k])'
<1>1. Home[k] \in Streams /\ Stored[k] = Replay(R, k) /\ Stored'[k] = Replay(T, k)
    BY ShowsAt
<1>2. R \subseteq T
    BY <1>1, DurableGrows
<1>3. T \subseteq S /\ S \in SUBSET Record
    BY <1>1 DEF RecordsTyped
<1>4. InLine(S)
    BY <1>1 DEF RInv, Lined, InLine
<1>5. \A r \in S : r.ver \in issued'[r.key]
    BY <1>1 DEF RInv, VersInv
<1>. HIDE DEF R, S, T
<1>6. InLine(T) /\ T \in SUBSET Record /\ R \in SUBSET Record
    BY <1>2, <1>3, <1>4 DEF InLine
<1>7. \/ Replay(T, k) = Replay(R, k)
      \/ \E r \in About(T, k) : Replay(T, k) = r.ver /\ Replay(T, k) > Replay(R, k)
    BY <1>2, <1>6, ReplayGrows
<1>8. \A r \in About(T, k) : r.ver \in issued'[k]
    BY <1>3, <1>5 DEF About
<1>9. Replay(T, k) \in Versions \cup {0}
    BY <1>6, ReplayType
<1>. QED  BY <1>1, <1>7, <1>8, <1>9

(* A step that leaves the files alone leaves what a restart would show.    *)
LEMMA StoredSame ==
    ASSUME files' = files
    PROVE  Stored' = Stored
<1>1. \A s \in Streams : DurableRecords(s)' = DurableRecords(s)
    BY DEF DurableRecords, Present
<1>2. \A k \in Keys : Stored'[k] = Stored[k]
    BY <1>1, ShowsAt
<1>3. Stored = [k \in Keys |-> Stored[k]] /\ Stored' = [k \in Keys |-> Stored'[k]]
    BY DEF Stored
<1>. HIDE DEF Stored
<1>. QED  BY <1>2, <1>3

(* Only Finish acknowledges.                                               *)
LEMMA AckedOnlyByFinish ==
    ASSUME [Next]_vars, ~Finish
    PROVE  acked' = acked
<1>1. CASE Killed \/ PowerCut
    BY <1>1, CrashChoice DEF Crash
<1>2. CASE \/ LoadManifest \/ OpenDone \/ InternDomain \/ CreateStream \/ RegisterStream
           \/ Planned \/ Append1 \/ Commit \/ RollCreate \/ Stamp \/ Harden
           \/ PlanFails \/ WriteFails \/ (\E s \in Streams : OpenStream(s))
           \/ (\E b \in Batches : Begin(b)) \/ UNCHANGED vars
    BY <1>2 DEF LoadManifest, OpenDone, InternDomain, CreateStream, RegisterStream, Planned,
                Append1, Commit, RollCreate, Stamp, Harden, PlanFails, WriteFails, Begin,
                OpenStream, vars, hist
<1>. QED  BY <1>1, <1>2 DEF Next, Step

(* When the batch returns, the newest version of an entity in it is what a *)
(* restart would show.                                                     *)
LEMMA FinishStores ==
    ASSUME RInv, phase = "save", NEW k \in Keys
    PROVE  Latest(acked)[k] = acked[k] \/ Latest(acked)[k] = Stored[k]
<1>. JInv /\ IInv /\ RecordsTyped
    BY RecordsAreTyped DEF RInv, JInv
<1>. DEFINE mine == {r.ver : r \in {q \in inflight : q.key = k}}
            D == DurableRecords(Home[k])
<1>1. Latest(acked)[k] = IF mine = {} THEN acked[k] ELSE Max(mine)
    BY DEF Latest
<1>2. CASE mine = {}
    BY <1>1, <1>2
<1>3. CASE mine # {}
  <2>1. mine \in SUBSET (0 .. MaxVersion) /\ MaxVersion \in Nat
    BY PendingFacts, BoundsAssumption DEF Versions
  <2>2. Max(mine) \in mine /\ \A v \in mine : v <= Max(mine)
    BY <1>3, <2>1, MaxExists
  <2>3. PICK r \in inflight : r.key = k /\ r.ver = Max(mine)
    BY <2>2
  <2>4. r.ver \in Nat
    BY PendingFacts
  <2>5. PICK d \in D : d.key = k /\ d.ver = r.ver
    <3>1. touched = <<>>
      BY DEF IInv, PhaseInv
    <3>2. ~CommitAhead(Home[r.key])
      BY <3>1 DEF CommitAhead
    <3>3. Durable(r)
      BY <3>2 DEF IInv, InflightInv, Writing
    <3>. QED  BY <2>3, <3>3 DEF Durable
  <2>6. Home[k] \in Streams /\ Stored[k] = Replay(D, k)
    BY ShowsAt
  <2>7. D \subseteq StreamRecords(Home[k]) /\ StreamRecords(Home[k]) \in SUBSET Record
    BY <2>6 DEF RecordsTyped
  <2>8. InLine(D)
    BY <2>6, <2>7 DEF RInv, Lined, InLine
  <2>9. \A q \in About(D, k) : q.ver <= d.ver
    <3>. SUFFICES ASSUME NEW q \in About(D, k) PROVE q.ver <= r.ver
      BY <2>5
    <3>1. q \in StreamRecords(Home[k]) /\ q.key = k
      BY <2>7 DEF About
    <3>2. q.ver \in issued[k] /\ q.ver \in Nat
      BY <2>6, <3>1, StoredFacts DEF RInv, VersInv
    <3>3. q.ver < r.ver \/ \E x \in inflight : x.key = k /\ x.ver = q.ver
      BY <2>3, <3>2 DEF RInv, NewestInv
    <3>4. CASE \E x \in inflight : x.key = k /\ x.ver = q.ver
      BY <2>2, <2>3, <3>4
    <3>. QED  BY <2>4, <3>2, <3>3, <3>4
  <2>10. d \in About(D, k)
    BY <2>5 DEF About
  <2>. HIDE DEF D
  <2>11. D \in SUBSET Record
    BY <2>7
  <2>12. Replay(D, k) = d.ver
    BY <2>8, <2>9, <2>10, <2>11, ReplayIs
  <2>. QED  BY <1>1, <1>3, <2>3, <2>5, <2>6, <2>12
<1>. QED  BY <1>2, <1>3

(* Every step is a step of the promise.                                    *)
LEMMA StepKeepsPromise ==
    ASSUME RInv, RInv', [Next]_vars
    PROVE  Promise!Next
<1>. JInv /\ IInv /\ TypeOK' /\ IInv'
    BY DEF RInv, JInv, IInv
<1>1. ASSUME NEW b \in Batches, Begin(b)
      PROVE  Promise!Submit
  <2>1. issued' \in [Keys -> SUBSET Versions]
    BY DEF TypeOK
  <2>2. Stored' = Stored /\ acked' = acked
    BY <1>1, BegunBatch, StoredSame
  <2>3. ASSUME NEW k \in Keys
        PROVE  /\ issued[k] \subseteq issued'[k]
               /\ \A v \in issued'[k] \ issued[k] : \A l \in Keys : \A w \in issued[l] : v > w
    <3>1. issued[k] \subseteq issued'[k]
      BY <1>1, BegunBatch
    <3>2. ASSUME NEW v \in issued'[k] \ issued[k], NEW l \in Keys, NEW w \in issued[l]
          PROVE  v > w
      <4>1. PICK i \in 1 .. Len(b) : v = version + i
        BY <1>1, BegunBatch
      <4>2. version \in Nat /\ i \in Nat \ {0} /\ w \in Nat /\ w <= version
        <5>1. Len(b) \in Nat
          BY <1>1, BegunBatch
        <5>. QED  BY <5>1, PendingFacts DEF RInv, VersInv
      <4>. QED  BY <4>1, <4>2
    <3>. QED  BY <3>1, <3>2
  <2>. QED  BY <2>1, <2>2, <2>3 DEF Promise!Submit
<1>2. CASE Finish
  <2>1. /\ phase = "save" /\ acked' = Latest(acked)
        /\ files' = files /\ issued' = issued
    BY <1>2 DEF Finish
  <2>2. Stored' = Stored
    BY <2>1, StoredSame
  <2>3. acked' \in [Keys -> Versions \cup {0}]
    BY DEF TypeOK
  <2>4. \A k \in Keys : acked'[k] = acked[k] \/ acked'[k] = Stored[k]
    BY <2>1, FinishStores
  <2>5. Promise!Ack
    BY <2>1, <2>2, <2>3, <2>4 DEF Promise!Ack
  <2>. QED  BY <2>5 DEF Promise!Next
<1>3. CASE ~(\E b \in Batches : Begin(b)) /\ ~Finish
  <2>1. issued' = issued /\ acked' = acked
    BY <1>3, IssuedOnlyByBegin, AckedOnlyByFinish
  <2>2. ASSUME NEW k \in Keys
        PROVE  /\ Stored'[k] \in Versions \cup {0}
               /\ Stored'[k] = Stored[k] \/ (Stored'[k] \in issued[k] /\ Stored'[k] > Stored[k])
    BY <2>1, StoredGrows
  <2>3. Stored' \in [Keys -> Versions \cup {0}]
    <3>1. Stored' = [k \in Keys |-> Stored'[k]]
      BY DEF Stored
    <3>. HIDE DEF Stored
    <3>. QED  BY <2>2, <3>1
  <2>4. Promise!Persist
    BY <2>1, <2>2, <2>3 DEF Promise!Persist
  <2>. QED  BY <2>4 DEF Promise!Next
<1>. QED  BY <1>1, <1>2, <1>3 DEF Promise!Next

(* The store is empty at first.                                            *)
LEMMA PromiseAtFirst == Init => Promise!Init
<1>. SUFFICES ASSUME Init PROVE Promise!Init
    OBVIOUS
<1>1. \A s \in Streams : DurableRecords(s) = {}
    BY DEF Init, Present, DurableRecords
<1>2. \A k \in Keys : About(DurableRecords(Home[k]), k) = {}
    BY <1>1, KeysAssumption DEF About
<1>3. \A k \in Keys : Stored[k] = 0
    BY <1>2, ReplayNone, ShowsAt
<1>4. Stored = [k \in Keys |-> 0]
    BY <1>3, StoredDomain
<1>5. issued = [k \in Keys |-> {}] /\ acked = [k \in Keys |-> 0]
    BY DEF Init, Nothing
<1>. QED  BY <1>4, <1>5 DEF Promise!Init

(* The segmented store keeps the promise of the Store trait, over any      *)
(* number of crashes, power cuts and failed writes: a successful append is *)
(* durable, and what is stored is only ever replaced by something newer.   *)
THEOREM StoreKeepsPromise == Spec => KeepsPromise
<1>1. Init => Promise!Init
    BY PromiseAtFirst
<1>2. RInv /\ RInv' /\ [Next]_vars => [Promise!Next]_(Promise!vars)
    BY StepKeepsPromise
<1>. QED  BY <1>1, <1>2, RInvHolds, PTL DEF Spec, KeepsPromise, Promise!Spec

(* Whatever happens next, a restart shows every acknowledged version, or a *)
(* newer one of the same entity.                                           *)
THEOREM AckedStaysShown == Spec => []Promise!Durability
<1>1. RInv => Promise!Durability
  <2>. SUFFICES ASSUME RInv, NEW k \in Keys PROVE acked[k] <= Stored[k]
    BY DEF Promise!Durability
  <2>. JInv /\ IInv /\ RecordsTyped
    BY RecordsAreTyped DEF RInv, JInv
  <2>. DEFINE D == DurableRecords(Home[k])
  <2>1. Home[k] \in Streams /\ Stored[k] = Replay(D, k)
    BY ShowsAt
  <2>2. D \subseteq StreamRecords(Home[k]) /\ D \in SUBSET Record
    BY <2>1 DEF RecordsTyped
  <2>3. InLine(D)
    BY <2>1, <2>2 DEF RInv, Lined, InLine
  <2>4. Replay(D, k) \in Nat
    BY <2>2, ReplayType DEF Versions
  <2>5. CASE acked[k] = 0
    BY <2>1, <2>4, <2>5
  <2>6. CASE acked[k] # 0
    <3>1. PICK d \in D : d.key = k /\ d.ver = acked[k]
      BY <2>6 DEF IInv, AckedOnDisk
    <3>. HIDE DEF D
    <3>2. d \in About(D, k)
      BY <3>1 DEF About
    <3>3. PICK r \in About(D, k) : /\ Replay(D, k) = r.ver
                                   /\ \A q \in About(D, k) : q.ver <= r.ver
      BY <2>2, <2>3, <3>2, ReplaySome
    <3>. QED  BY <2>1, <3>1, <3>2, <3>3
  <2>. QED  BY <2>5, <2>6
<1>. QED  BY <1>1, RInvHolds, PTL

---------------------------------------------------------------------------
(* The promise by itself, for a store of which nothing else is known.      *)
CONSTANTS Entities, Numbers
VARIABLES asked, kept, promised
Store == INSTANCE DurableStore WITH
            Keys <- Entities, Versions <- Numbers, issued <- asked, stored <- kept, acked <- promised

(* The versions are natural numbers, and so are the rows of the table.     *)
LEMMA RowsAreNat ==
    ASSUME Numbers \subseteq Nat, Store!TypeOK, NEW k \in Entities
    PROVE  kept[k] \in Nat /\ promised[k] \in Nat
<1>1. kept[k] \in Numbers \cup {0} /\ promised[k] \in Numbers \cup {0}
    BY DEF Store!TypeOK
<1>2. Numbers \cup {0} \subseteq Nat
    OBVIOUS
<1>. QED  BY <1>1, <1>2

(* trait Store: "a successful return from append / append_batch means the  *)
(* record survives a process crash".  The invariant carries the types: a   *)
(* stored version is only ever replaced by a larger one.                   *)
THEOREM PromiseIsDurable == ASSUME Numbers \subseteq Nat PROVE Store!Spec => []Store!Durability
<1>. DEFINE Inv == Store!TypeOK /\ Store!Durability
<1>0. \A n \in Numbers \cup {0} : n \in Nat
    OBVIOUS
<1>1. Store!Init => Inv
    BY DEF Store!Init, Store!TypeOK, Store!Durability
<1>2. Inv /\ [Store!Next]_Store!vars => Inv'
  <2>. SUFFICES ASSUME Inv, [Store!Next]_Store!vars PROVE Inv'
    OBVIOUS
  <2>1. CASE Store!Submit
    BY <2>1 DEF Store!Submit, Store!TypeOK, Store!Durability
  <2>2. CASE Store!Persist
    <3>1. Store!TypeOK'
      BY <2>2 DEF Store!Persist, Store!TypeOK
    <3>2. ASSUME NEW k \in Entities PROVE promised'[k] <= kept'[k]
      <4>1. kept'[k] = kept[k] \/ kept'[k] > kept[k]
        BY <2>2 DEF Store!Persist
      <4>2. promised[k] <= kept[k] /\ promised'[k] = promised[k]
        BY <2>2 DEF Store!Persist, Store!Durability
      <4>3. kept'[k] \in Numbers \cup {0}
        BY <3>1 DEF Store!TypeOK
      <4>4. kept[k] \in Nat /\ promised[k] \in Nat
        BY RowsAreNat DEF Inv
      <4>5. kept'[k] \in Nat
        BY <1>0, <4>3
      <4>. QED  BY <4>1, <4>2, <4>4, <4>5
    <3>. QED  BY <3>1, <3>2 DEF Store!Durability
  <2>3. CASE Store!Ack
    BY <2>3, RowsAreNat DEF Store!Ack, Store!TypeOK, Store!Durability
  <2>4. CASE UNCHANGED Store!vars
    BY <2>4 DEF Store!vars, Store!TypeOK, Store!Durability
  <2>. QED  BY <2>1, <2>2, <2>3, <2>4 DEF Store!Next
<1>. QED  BY <1>1, <1>2, PTL DEF Store!Spec

===========================================================================
