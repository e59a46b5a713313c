------------------------------- MODULE Parts --------------------------------
(***************************************************************************)
(* Parts of the server that keep to themselves, each a module of its own:  *)
(* the lists, the search index, the questions, the extraction, the legacy  *)
(* store and its migration, the files of a segment, the backups, the       *)
(* review, the accounts, the payloads on disk, the settings and the        *)
(* registries.                                                             *)
(* MCServices checks them beside the others; Parts_proofs proves what they *)
(* promise for every value of the constants.                               *)
(***************************************************************************)
EXTENDS Integers, Sequences, FiniteSets

CONSTANT None
(* The lists.                                                              *)
CONSTANTS ListIds, NameSet, Limit, MaxWrites, LoadedIds
(* The search index.                                                       *)
CONSTANTS IndexTexts, MaxConcepts
(* The questions, the extraction.                                          *)
CONSTANTS Scripts, Deltas, MaxRetries, GivenIds, Invented, MaxErrors,
          Document, Keys, PieceBudget, MaxPieces
(* The legacy file store, its migration, the files of a segment.           *)
CONSTANTS LegacyItems, MaxSeq, Chunk, MaxWhole, MaxCells, MaxFaults
(* The backups, the review, the accounts.                                  *)
CONSTANTS MaxPart, MaxRecs, Requests, Handlers, Emails, MaxIds
(* The payloads, the settings, the registries.                             *)
CONSTANTS MaxVersions, MaxSwaps, Patches, Clients, MaxPatches,
          MaxRecords, MaxRequests, Window, Spacing, Capacity, Horizon

(* The providers that can be active: by default, or by a patch.            *)
Providers == {"default"} \cup {p["active"] : p \in {q \in Patches : "active" \in DOMAIN q}}

(* What stands for nothing is none of the values it is compared with.      *)
ASSUME NoneAssumption ==
    /\ None \notin IndexTexts /\ None # "ok"
    /\ None \notin Nat /\ None \notin Nat \X Nat /\ None \notin Seq(Nat) /\ None \notin [water : Nat]
    /\ None \notin [water : Nat, table : [LegacyItems -> 0 .. 2]]
    /\ None \notin [stamp : Nat, ents : Seq(Nat \cup {None})]
    /\ None \notin [name : Nat, ver : Nat]
    /\ None \notin [loc : Nat \X Nat, res : Nat \cup {None}, ver : Nat]
    /\ \A S \in SUBSET (1 .. MaxPart) : None # S
    /\ None \notin [snap : [active : Providers, key : Nat, model : Nat], at : {"persist", "write"}]

(* The allocator gives out finitely many ids.                              *)
ASSUME SearchAssumption == MaxConcepts \in Nat

(* Entities are numbered, and so are their names, in their order.          *)
ASSUME ListsAssumption == ListIds \subseteq Nat /\ NameSet \subseteq Nat /\ LoadedIds \subseteq ListIds

(* A store has a partition.                                                *)
ASSUME PartAssumption == MaxPart \in Nat \ {0}

(* A patch carries some of the settings, each of its type; what is sent    *)
(* blank is 0.                                                             *)
ASSUME PatchesAssumption ==
    \A p \in Patches :
        /\ "key" \in DOMAIN p => p["key"] \in Nat
        /\ "model" \in DOMAIN p => p["model"] \in Nat

(* The window of the rate limit is never empty (RateLimiter::refill_rate). *)
ASSUME LimitsAssumption ==
    /\ MaxRequests \in Nat /\ Window \in Nat \ {0}
    /\ Spacing \in Nat /\ Capacity \in Nat

VARIABLES kind, map, index, gen, cache, writer, reader, client, last
VARIABLES corpus, nextConcept, docTerms, postings, nDocs, rows, rowOf,
          cached, cacheFile, dirty, ghosts
VARIABLES mode, script, attempt, first, answer, got, used, net, failures,
          why, out, ended
VARIABLES queue, idx, concepts, relations, result
VARIABLES log, torn, snap, seq, table, pending, shot, refuses, running,
          acked, raced
VARIABLES legacyLog, legacySnap, retired, staging, store, start, whole,
          halved
VARIABLES head, cells, hardCells, buffered, idxFile, hardIndex, rolled,
          proc, committed, faults, harm, rotten, severed, holed
VARIABLES parts, active, nextRec, dest, complete, copying, taken, shown
VARIABLES live, disk, broken, pos, strict, refs, baseline, report, served
VARIABLES allow, db, file, nextId, tokens, req
VARIABLES slots, pendingLocs, sealedSeen, sealable, segIndex, actives, work,
          born, writes, swaps, look
VARIABLES settings, onFile, patching, crossed, unsaved, clientCache,
          calling, answeredBy, patches
VARIABLES clock, queries, nextQuery, gone, runs, bucket, admitted, samples,
          part
Lists == INSTANCE ListPages WITH Ids <- ListIds, Loaded <- LoadedIds
Search == INSTANCE Search WITH Texts <- IndexTexts
Ask == INSTANCE Ask WITH Texts <- Deltas, Known <- GivenIds
Extract == INSTANCE Extract WITH Budget <- PieceBudget
File == INSTANCE FileStore WITH Items <- LegacyItems
Migrate == INSTANCE Migrate
Segment == INSTANCE SegmentFile
Backup == INSTANCE Backup
Review == INSTANCE Review
Accounts == INSTANCE Accounts
Payloads == INSTANCE Payloads
Settings == INSTANCE Settings
Registries == INSTANCE Registries

(* A document of any length.                                               *)
ASSUME TextAssumption == Extract!DocumentAssumption

(* What a provider may send; its texts are no events of the pipeline's.    *)
ASSUME ScriptsAssumption ==
    Ask!AskAssumption /\ Deltas \cap (Ask!Signals \cup {"retrieved", "error", "end", "end?"}) = {}

listsVars == <<kind, map, index, gen, cache, writer, reader, client, last>>
searchVars ==
    <<corpus, nextConcept, docTerms, postings, nDocs, rows, rowOf, cached,
      cacheFile, dirty, ghosts>>
askVars ==
    <<mode, script, attempt, first, answer, got, used, net, failures, why,
      out, ended>>
extractVars == <<queue, idx, concepts, relations, result>>
fileVars ==
    <<log, torn, snap, seq, table, pending, shot, refuses, running, acked,
      raced>>
migrateVars ==
    <<legacyLog, legacySnap, retired, staging, store, start, whole, halved>>
segmentVars ==
    <<head, cells, hardCells, buffered, idxFile, hardIndex, rolled, proc,
      committed, faults, harm, rotten, severed, holed>>
backupVars ==
    <<parts, active, nextRec, dest, complete, copying, taken, shown>>
reviewVars ==
    <<live, disk, broken, pos, strict, refs, baseline, report, served>>
accountsVars == <<allow, db, file, nextId, tokens, req>>
payloadsVars ==
    <<slots, pendingLocs, sealedSeen, sealable, segIndex, actives, work,
      born, writes, swaps, look>>
settingsVars ==
    <<settings, onFile, patching, crossed, unsaved, clientCache, calling,
      answeredBy, patches>>
registriesVars ==
    <<clock, queries, nextQuery, gone, runs, bucket, admitted, samples,
      part>>
=============================================================================
