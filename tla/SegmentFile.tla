---------------------------- MODULE SegmentFile ----------------------------
(***************************************************************************)
(* The two files of one segment (storage/src/segment): .data, made durable *)
(* by every commit, and .idx, written after that sync and never synced     *)
(* before the seal.  Where SegmentStore takes a file to lose a suffix only,*)
(* here a power cut may keep any of the pages that were not synced: a bad  *)
(* record with good ones after it, an index with a hole, a stamp without   *)
(* its entries.  Opening the files again (recover.rs, sealed.rs) is the    *)
(* subject.                                                                *)
(*                                                                         *)
(* A record is its number, its place in the file its offset.  A cell of    *)
(* .data is "ok", "body" (the header decodes, the payload fails its crc or *)
(* does not resolve), "blank" (the header does not decode either), "short" *)
(* (it runs past the end of the file), or "long" or "less": its length,    *)
(* which no crc covers, reads too large, so that it reaches the end of the *)
(* file or past it, or too small, so that it ends before.                  *)
(***************************************************************************)
EXTENDS Integers, Sequences, FiniteSetsExt

CONSTANTS
    MaxCells,      \* records ever appended
    MaxFaults,     \* crashes, power cuts and rotten sectors
    None

VARIABLES
    head,          \* the .data header: "absent", "short", "written", "ok" (synced) or "blank"
    cells,         \* .data as the system sees it: [rec, st]
    hardCells,     \* how many of them are synced
    buffered,      \* records in the process's buffer
    idxFile,         \* the .idx: None or [stamp, ents], an entry a record or None
    hardIndex,     \* what is synced of it: [stamp, n]
    rolled,        \* the next segment exists: this one is not the last
    proc,          \* what the process does
    committed,      \* records whose commit returned
    faults, harm, rotten, severed, holed      \* history: what the faults left

cvars == <<head, cells, hardCells, buffered, idxFile, hardIndex, rolled, proc, committed, faults,
           harm, rotten, severed, holed>>
past == <<faults, harm, rotten, severed, holed>>
files == <<head, cells, hardCells, idxFile, hardIndex>>

Cell(r) == [rec |-> r, st |-> "ok"]
RecsOf(c) == [i \in 1..Len(c) |-> c[i].rec]
InData    == {cells[i].rec : i \in DOMAIN cells}
Newest == Max({0} \cup committed \cup InData \cup {buffered[i] : i \in DOMAIN buffered})

CInit ==
    /\ head = "absent" /\ cells = << >> /\ hardCells = 0 /\ buffered = << >>
    /\ idxFile = None /\ hardIndex = [stamp |-> 0, n |-> 0]
    /\ rolled = FALSE /\ proc = "create" /\ committed = {}
    /\ faults = 0 /\ harm = FALSE /\ rotten = {} /\ severed = {} /\ holed = FALSE

-----------------------------------------------------------------------------
(* ActiveSegment::create: both headers written and synced, .data first.    *)
Create ==
    /\ proc = "create"
    /\ CASE head = "absent"  -> head' = "short" /\ UNCHANGED <<idxFile, hardIndex, proc>>
         [] head = "short"   -> head' = "written" /\ UNCHANGED <<idxFile, hardIndex, proc>>
         [] head = "written" -> head' = "ok" /\ UNCHANGED <<idxFile, hardIndex, proc>>
         [] head = "ok"      -> /\ idxFile' = [stamp |-> 0, ents |-> << >>]
                                /\ hardIndex' = [stamp |-> 0, n |-> 0]
                                /\ proc' = "open" /\ UNCHANGED head
    /\ UNCHANGED <<cells, hardCells, buffered, rolled, committed, past>>

(* append buffers a record.  The buffer, once full, flows into the file    *)
(* before any commit.                                                      *)
AppendRecord ==
    /\ proc = "open"
    /\ Newest < MaxCells
    /\ buffered' = Append(buffered, Newest + 1)
    /\ UNCHANGED <<files, rolled, proc, committed, past>>

Spill ==
    /\ proc = "open" /\ buffered # << >>
    /\ cells' = Append(cells, Cell(Head(buffered))) /\ buffered' = Tail(buffered)
    /\ UNCHANGED <<head, hardCells, idxFile, hardIndex, rolled, proc, committed, past>>

(* commit: flush and fdatasync the data, and only then write the entries,  *)
(* unsynced.                                                               *)
SyncData ==
    /\ proc = "open" /\ Len(idxFile.ents) < Len(cells) + Len(buffered)
    /\ cells' = cells \o [i \in 1..Len(buffered) |-> Cell(buffered[i])]
    /\ hardCells' = Len(cells') /\ head' = "ok" /\ buffered' = << >> /\ proc' = "indexing"
    /\ UNCHANGED <<idxFile, hardIndex, rolled, committed, past>>

WriteEntries ==
    /\ proc = "indexing"
    /\ idxFile' = [idxFile EXCEPT !.ents = @ \o SubSeq(RecsOf(cells), Len(@) + 1, Len(cells))]
    /\ committed' = committed \cup InData /\ proc' = "open"
    /\ UNCHANGED <<head, cells, hardCells, buffered, hardIndex, rolled, past>>

(* maybe_roll, after a commit, creates the next segment, then seals this   *)
(* one: data synced, the count stamped into the index, the index synced.   *)
Roll ==
    /\ proc = "open" /\ cells # << >> /\ buffered = << >>
    /\ Len(idxFile.ents) = Len(cells) /\ hardCells = Len(cells)
    /\ rolled' = TRUE /\ proc' = "sealing"
    /\ UNCHANGED <<files, buffered, committed, past>>

Stamp ==
    /\ proc = "sealing"
    /\ hardCells' = Len(cells) /\ idxFile' = [idxFile EXCEPT !.stamp = Len(idxFile.ents)]
    /\ proc' = "stamped"
    /\ UNCHANGED <<head, cells, buffered, hardIndex, rolled, committed, past>>

SyncIndex ==
    /\ proc = "stamped"
    /\ hardIndex' = [stamp |-> idxFile.stamp, n |-> Len(idxFile.ents)] /\ proc' = "sealed"
    /\ UNCHANGED <<head, cells, hardCells, buffered, idxFile, rolled, committed, past>>

-----------------------------------------------------------------------------
Up == proc \notin {"down", "refused"}

(* The process dies: what the system has stays, a write may be half done.  *)
Kill ==
    /\ Up /\ faults < MaxFaults /\ faults' = faults + 1 /\ proc' = "down" /\ buffered' = << >>
    /\ \/ UNCHANGED <<cells, idxFile>>
       \/ /\ proc = "open" /\ buffered # << >>
          /\ cells' = Append(cells, [rec |-> Head(buffered), st |-> "short"]) /\ UNCHANGED idxFile
       \/ /\ proc = "indexing"
          /\ \E n \in Len(idxFile.ents)..Len(cells) :
                idxFile' = [idxFile EXCEPT !.ents = @ \o SubSeq(RecsOf(cells), Len(@) + 1, n)]
          /\ UNCHANGED cells
    /\ UNCHANGED <<head, hardCells, hardIndex, rolled, committed, harm, rotten, severed, holed>>

(* The power goes: of what was not synced any part may be on the disk, in  *)
(* any order; the lengths too.  A page that is missing reads as zeros: a   *)
(* header, or a part of one, that a page boundary crosses ("less").        *)
LostHead ==
    CASE head = "written" -> {"short", "blank", "ok"} \cup (IF idxFile = None THEN {"absent"} ELSE {})
      [] head = "short"   -> {"short"} \cup (IF idxFile = None THEN {"absent"} ELSE {})
      [] OTHER            -> {head}

PowerCut ==
    /\ faults < MaxFaults /\ proc # "refused" /\ faults' = faults + 1
    /\ proc' = "down" /\ buffered' = << >>
    /\ head' \in LostHead
    /\ \E n \in hardCells..Len(cells) :
       \E st \in [hardCells + 1..n -> {"ok", "body", "blank", "less", "short"}] :
          LET was(i) == cells[i].st # "ok" IN
          /\ head' \in {"absent", "short"} => n = 0
          /\ \A i \in DOMAIN st : /\ st[i] = "short" => i = n
                                  /\ was(i) => st[i] # "ok"
          /\ cells' = [i \in 1..n |-> IF i \in DOMAIN st THEN [cells[i] EXCEPT !.st = st[i]] ELSE cells[i]]
          /\ harm' = (harm \/ \E i \in DOMAIN st : st[i] \in {"blank", "less"} \/ (st[i] = "body" /\ i < n))
    /\ IF idxFile = None THEN UNCHANGED <<idxFile, holed>>
       ELSE \E m \in hardIndex.n..Len(idxFile.ents) : \E lost \in SUBSET (hardIndex.n + 1..m) :
            \E stamp \in {hardIndex.stamp, idxFile.stamp} :
                /\ idxFile' = [stamp |-> stamp,
                             ents  |-> [i \in 1..m |-> IF i \in lost THEN None ELSE idxFile.ents[i]]]
                /\ holed' = (holed \/ (stamp = m /\ m > 0 /\ lost # {} /\ m \notin lost))
    /\ UNCHANGED <<hardCells, hardIndex, rolled, committed, rotten, severed>>

(* A sector of the data goes bad while the store is closed: the one of the *)
(* header, or one of a record's.  A length that reads too large takes the  *)
(* records behind it along.                                                *)
Rot ==
    /\ proc = "down" /\ faults < MaxFaults /\ faults' = faults + 1
    /\ \/ head = "ok" /\ head' = "blank" /\ UNCHANGED <<cells, rotten, severed>>
       \/ \E i \in 1..hardCells : \E st \in {"body", "blank", "less", "long"} :
             /\ cells' = [cells EXCEPT ![i].st = st]
             /\ rotten' = rotten \cup {cells[i].rec}
             /\ severed' = severed \cup (IF st = "long" THEN {cells[j].rec : j \in i + 1..Len(cells)} ELSE {})
             /\ UNCHANGED head
    /\ harm' = TRUE
    /\ UNCHANGED <<hardCells, buffered, idxFile, hardIndex, rolled, proc, committed, holed>>

-----------------------------------------------------------------------------
(* Slip: the stamp alone.                                                  *)
Sealed_ByStamp == idxFile.stamp = Len(idxFile.ents)

(* SealedSegment::open: the stamp is the number of entries, and the last   *)
(* entry ends where the data does.  The entries before it are not looked   *)
(* at.                                                                     *)
Sealed ==
    /\ idxFile.stamp = Len(idxFile.ents)
    /\ IF idxFile.ents = << >> THEN cells = << >>
       ELSE LET n == Len(idxFile.ents)
            IN  idxFile.ents[n] # None /\ n = Len(cells) /\ cells[n].st # "short"

(* Stream::open.  A last segment too short for a header is created again;  *)
(* one that is not the last is sealed as it stands or recovered and        *)
(* sealed; and none is opened whose header is there and does not decode.   *)
OpenSegment ==
    /\ proc = "down"
    /\ CASE head \in {"absent", "short"} -> head' = "absent" /\ idxFile' = None /\ proc' = "create"
         [] head = "blank" -> proc' = "refused" /\ UNCHANGED <<head, idxFile>>
         [] OTHER -> /\ proc' = IF rolled /\ idxFile # None /\ Sealed THEN "sealed" ELSE "recover"
                     /\ UNCHANGED <<head, idxFile>>
    /\ UNCHANGED <<cells, hardCells, buffered, hardIndex, rolled, committed, past>>

(* The first record the scan stumbles on.                                  *)
Bad == CHOOSE i \in 1..Len(cells) : cells[i].st # "ok" /\ \A j \in 1..(i - 1) : cells[j].st = "ok"

(* refuse_unless_last: a bad record is discarded only when its extent is   *)
(* known, from its own header or from its index entry, and it is the last. *)
LastAndKnown(i) ==
    /\ i = Len(cells) /\ cells[i].st # "less"
    /\ cells[i].st = "blank" => idxFile # None /\ i <= Len(idxFile.ents) /\ idxFile.ents[i] # None

(* recover_segment, the data: cut at a record that runs past the end of    *)
(* the file, whatever is behind it, or at a bad last one, or refuse.  A    *)
(* clean scan does not sync what it found.                                 *)
Scan ==
    /\ proc = "recover"
    /\ IF \A i \in 1..Len(cells) : cells[i].st = "ok"
       THEN proc' = "reconcile" /\ UNCHANGED <<head, cells, hardCells>>
       ELSE IF cells[Bad].st \in {"short", "long"} \/ LastAndKnown(Bad)
       THEN /\ cells' = SubSeq(cells, 1, Bad - 1) /\ hardCells' = Bad - 1 /\ head' = "ok"
            /\ proc' = "reconcile"
       ELSE proc' = "refused" /\ UNCHANGED <<head, cells, hardCells>>
    /\ UNCHANGED <<buffered, idxFile, hardIndex, rolled, committed, past>>

(* recover_segment, the index: kept where it agrees, written from the      *)
(* first disagreement on, cut to length and synced.                        *)
Reconcile ==
    /\ proc = "reconcile"
    /\ LET exact == idxFile # None /\ idxFile.ents = RecsOf(cells) IN
       IF exact THEN UNCHANGED <<idxFile, hardIndex>>
       ELSE /\ idxFile' = [stamp |-> IF idxFile = None THEN 0 ELSE idxFile.stamp, ents |-> RecsOf(cells)]
            /\ hardIndex' = [stamp |-> idxFile'.stamp, n |-> Len(cells)]
    /\ proc' = IF rolled THEN "sealing" ELSE "open"
    /\ UNCHANGED <<head, cells, hardCells, buffered, rolled, committed, past>>

CNext ==
    \/ Create \/ AppendRecord \/ Spill \/ SyncData \/ WriteEntries
    \/ Roll \/ Stamp \/ SyncIndex \/ Kill \/ PowerCut \/ Rot
    \/ OpenSegment \/ Scan \/ Reconcile

CSpec == CInit /\ [][CNext]_cvars

-----------------------------------------------------------------------------
(* The entries are those of the first records.                             *)
Indexed ==
    /\ Len(idxFile.ents) <= Len(cells)
    /\ \A i \in DOMAIN idxFile.ents : idxFile.ents[i] = cells[i].rec

(* A segment that opened holds, in order, every record whose commit        *)
(* returned, but for one that went bad as the very last or whose damaged   *)
(* length ran past the end of the file, and for those behind the latter    *)
(* (CutsOnlyBad is what the code says of them); its index is the           *)
(* index of its records, exactly once it is sealed, unless a power cut in  *)
(* the seal left a hole in the middle of a stamped index, which nothing    *)
(* looks at; and an open is refused only for a file that lost a record     *)
(* with others behind it, or whose extent is lost, or that lost its        *)
(* header: to a bad sector, or before anything was committed to it.        *)
RecoverySound ==
    /\ proc \in {"open", "indexing", "sealing", "stamped", "sealed"} =>
         /\ committed \ (rotten \cup severed) \subseteq InData
         /\ \A i \in 2..Len(cells) : cells[i - 1].rec < cells[i].rec
         /\ holed \/ Indexed
         /\ proc = "sealed" => holed \/ idxFile = [stamp |-> Len(cells), ents |-> RecsOf(cells)]
    /\ proc = "refused" => harm \/ (head = "blank" /\ committed = {})

(* A bad record is cut off only as the last one: "A bad record with valid  *)
(* data after it is corruption or a newer format, and truncating would     *)
(* destroy acknowledged records" (recover.rs).  A damaged length in the    *)
(* middle of the file reads as a torn tail, and is cut with all behind it. *)
CutsOnlyBad == proc \in {"open", "indexing", "sealing", "stamped", "sealed"} => committed \ rotten \subseteq InData
=============================================================================
