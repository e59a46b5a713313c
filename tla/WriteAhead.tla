----------------------------- MODULE WriteAhead -----------------------------
(***************************************************************************)
(* The server's writers (lib.rs): every handler takes the writer lock,     *)
(* runs the prepare half, appends its records to the store and only then   *)
(* runs the apply half.  The append runs on a blocking thread: a client    *)
(* that goes away drops the handler and its lock, never the append.        *)
(*                                                                         *)
(* The store is the sequence of records its replay would read; that the    *)
(* segment store is one, batch after batch, is the subject of SegmentStore *)
(* and Compaction.  A failed write leaves a prefix of its batch and        *)
(* poisons the store until the restart.                                    *)
(*                                                                         *)
(* A scene limits a behaviour to some handlers over a given first journal, *)
(* so that small instances still go deep; it is fixed at the start.        *)
(***************************************************************************)
EXTENDS GraphLog

CONSTANTS
    Names,      \* concept names
    Schemas,    \* schemas a client may put
    Scenes,     \* [calls: handlers in use, journal: records on disk at first,
                \*  faults: BOOLEAN, room: bound on the journal]
    MaxId       \* bound on the ids handed out

(* A scene starts from a list of records that a start accepts; whatever    *)
(* was journaled had its id by then.                                       *)
ASSUME ScenesAssumption ==
    \A s \in Scenes :
        /\ s.journal \in Seq(Range(s.journal)) /\ Replay(s.journal) # Refused
        /\ \A i \in DOMAIN s.journal :
              LET r == s.journal[i]
              IN  /\ r.kind = "concept" => r = ConceptRec(r)
                  /\ r.kind = "updateConcept" => r = UpdConceptRec(r)
                  /\ r.kind = "ref" => r = RefRec(r)
                  /\ r.kind \in {"concept", "updateConcept", "ref"} => r.id \in Nat \ {0}

VARIABLES
    graph,      \* the live graph
    journal,    \* what a replay of the store reads
    op,         \* the handler that holds the writer lock
    adrift,     \* appends and compactions whose handler was dropped
    poisoned,   \* a write failed half-way
    up,         \* the server runs
    scene

wvars == <<graph, journal, op, adrift, poisoned, up, scene>>

Idle == [kind |-> "idle", recs |-> << >>, phase |-> "none"]

(* An ingest keeps the lock between its appends.                           *)
Held    == [kind |-> "ingest", recs |-> << >>, phase |-> "none"]
Done(o) == IF o.kind = "ingest" THEN Held ELSE Idle
Batch   == {"append", "ingest"}

WInit ==
    /\ scene \in Scenes
    /\ journal = scene.journal
    /\ graph = Replay(journal)
    /\ op = Idle /\ adrift = {} /\ poisoned = FALSE /\ up = TRUE

---------------------------------------------------------------------------
(* The handlers, up to the await of their append.                          *)

(* Slip: memory first.                                                     *)
Begin_Applied(call, kind, g, recs) ==
    /\ up /\ op = Idle /\ call \in scene.calls
    /\ Len(journal) + Len(recs) <= scene.room
    /\ \A f \in DOMAIN g.next : g.next[f] <= MaxId
    /\ graph' = ApplyAll(g, recs)
    /\ op' = [kind |-> kind, recs |-> recs, phase |-> "append"]
    /\ UNCHANGED <<journal, adrift, poisoned, up, scene>>

Begin(call, kind, g, recs) ==
    /\ up /\ op = Idle /\ call \in scene.calls
    /\ Len(journal) + Len(recs) <= scene.room
    /\ \A f \in DOMAIN g.next : g.next[f] <= MaxId
    /\ graph' = g
    /\ op' = [kind |-> kind, recs |-> recs, phase |-> "append"]
    /\ UNCHANGED <<journal, adrift, poisoned, up, scene>>

CreateConcept ==
    \E t \in DOMAIN graph.schema.types, n \in Names, id \in {0} \cup DOMAIN graph.concepts :
        LET c == [id |-> id, type |-> t, name |-> n]
        IN  /\ ConceptOk(graph, c)
            /\ Begin("createConcept", "append", Allocate(graph, "concept", id),
                     <<ConceptRec([c EXCEPT !.id = IdFor(graph, "concept", id)])>>)

(* preview_concept_update                                                  *)
UpdateConcept ==
    \E id \in DOMAIN graph.concepts, n \in Names :
        LET c == [id |-> id, type |-> graph.concepts[id].type, name |-> n]
        IN  /\ NameFree(graph, c) /\ ConceptFits(graph, c)
            /\ Begin("updateConcept", "append", graph, <<UpdConceptRec(c)>>)

(* The concepts in order, each followed by its relations not yet listed.   *)
Cascade(ids) ==
    FoldLeft(LAMBDA recs, id :
                LET listed == {recs[i].id : i \in {j \in DOMAIN recs : recs[j].kind = "deleteRelation"}}
                    rels   == Ascending(Incident(graph, id) \ listed)
                IN  recs \o <<DelConceptRec(id)>> \o [i \in DOMAIN rels |-> DelRelRec(rels[i])],
             << >>, Ascending(ids))

DeleteConcepts ==
    \E ids \in (SUBSET DOMAIN graph.concepts) \ {{}} :
        Begin("deleteConcepts", "append", graph, Cascade(ids))

CreateRelation ==
    \E t \in DOMAIN graph.schema.relTypes, s, o \in DOMAIN graph.concepts,
       id \in {0} \cup DOMAIN graph.rels :
        LET r == [id |-> id, type |-> t, src |-> s, tgt |-> o, w |-> 1]
            p == PrepareRelation(graph, r)
        IN  /\ RelationOk(graph, r)
            /\ Begin("createRelation", "append", Observe(graph, "relation", p.id),
                     <<RelRec("relation", p)>>)

UpdateRelationWeight ==
    \E id \in DOMAIN graph.rels :
        Begin("updateRelation", "append", graph,
              <<RelRec("updateRelation", [id |-> id] @@ [graph.rels[id] EXCEPT !.w = 3 - @])>>)

DeleteRelation ==
    \E id \in DOMAIN graph.rels :
        Begin("deleteRelation", "append", graph, <<DelRelRec(id)>>)

(* prepare_rule, prepare_action                                            *)
CreateRef ==
    \E f \in Families, ends \in (SUBSET DOMAIN graph.concepts) \ {{}} :
        LET r == [family |-> f, id |-> graph.next[f], ends |-> ends]
        IN  /\ RefOk(graph, r)
            /\ Begin("createRef", "append", Observe(graph, f, r.id), <<RefRec(r)>>)

(* preview_rule_update, preview_action_update: the concepts are looked up  *)
(* only if the patch names some.                                           *)
UpdateRefEnds ==
    \E f \in Families : \E id \in DOMAIN graph.refs[f], ends \in (SUBSET DOMAIN graph.concepts) \ {{}} :
        Begin("updateRefEnds", "append", graph, <<RefRec([family |-> f, id |-> id, ends |-> ends])>>)

UpdateRefName ==
    \E f \in Families : \E id \in DOMAIN graph.refs[f] :
        Begin("updateRefName", "append", graph,
              <<RefRec([family |-> f, id |-> id, ends |-> graph.refs[f][id]])>>)

DeleteRef ==
    \E f \in Families : \E id \in DOMAIN graph.refs[f] :
        Begin("deleteRef", "append", graph, <<DelRefRec(f, id)>>)

PutOntology ==
    \E s \in Schemas :
        /\ s # graph.schema /\ SchemaOk(graph, s)
        /\ Begin("putOntology", "append", graph, <<OntologyRec(s)>>)

Reset   == Begin("reset", "reset", graph, << >>)
Compact == Begin("compact", "compact", graph, << >>)

Call ==
    \/ CreateConcept \/ UpdateConcept \/ DeleteConcepts
    \/ CreateRelation \/ UpdateRelationWeight \/ DeleteRelation
    \/ CreateRef \/ UpdateRefEnds \/ UpdateRefName \/ DeleteRef
    \/ PutOntology \/ Reset \/ Compact

---------------------------------------------------------------------------
(* The store's side.                                                       *)

(* compact_all replays what it wrote before it commits to it.              *)
Compacted == IF Replay(LiveRecords(graph)) = Refused THEN journal ELSE LiveRecords(graph)

After(o) ==
    CASE o.kind = "reset"   -> <<OntologyRec(NoSchema)>>
      [] o.kind = "compact" -> Compacted
      [] OTHER              -> journal \o o.recs

Land ==
    /\ up /\ op.phase = "append" /\ ~poisoned
    /\ journal' = After(op)
    /\ op' = [op EXCEPT !.phase = "durable"]
    /\ UNCHANGED <<graph, adrift, poisoned, up, scene>>

(* An error with nothing written; the only outcome of a poisoned store.    *)
Refuse ==
    /\ up /\ op.phase = "append" /\ (scene.faults \/ poisoned)
    /\ op' = Done(op)
    /\ UNCHANGED <<graph, journal, adrift, poisoned, up, scene>>

(* A write that fails part-way.                                            *)
Tear ==
    /\ up /\ op.phase = "append" /\ op.kind \in Batch /\ ~poisoned /\ scene.faults
    /\ \E n \in 0 .. Len(op.recs) : journal' = journal \o SubSeq(op.recs, 1, n)
    /\ poisoned' = TRUE
    /\ op' = Done(op)
    /\ UNCHANGED <<graph, adrift, up, scene>>

(* The handler resumes.                                                    *)
Apply ==
    /\ up /\ op.phase = "durable"
    /\ graph' = CASE op.kind = "reset" -> EmptyGraph
                  [] op.kind = "compact" -> graph
                  [] OTHER -> ApplyAll(graph, op.recs)
    /\ op' = Done(op)
    /\ UNCHANGED <<journal, adrift, poisoned, up, scene>>

(* The client goes away: the handler is dropped where it awaits (bound: one *)
(* abandoned append at a time).                                            *)
Cancel ==
    /\ up /\ op # Idle /\ "cancel" \in scene.calls /\ adrift = {}
    /\ adrift' = IF op.phase = "append" THEN adrift \cup {op} ELSE adrift
    /\ op' = Idle
    /\ UNCHANGED <<graph, journal, poisoned, up, scene>>

LandAdrift ==
    /\ up /\ ~poisoned
    /\ \E o \in adrift : journal' = After(o) /\ adrift' = adrift \ {o}
    /\ UNCHANGED <<graph, op, poisoned, up, scene>>

Crash ==
    /\ up /\ up' = FALSE
    /\ \/ journal' = journal
       \/ /\ op.phase = "append" /\ op.kind \in Batch /\ ~poisoned
          /\ \E n \in 1 .. Len(op.recs) : journal' = journal \o SubSeq(op.recs, 1, n)
    /\ op' = Idle /\ adrift' = {} /\ poisoned' = FALSE /\ graph' = EmptyGraph
    /\ UNCHANGED scene

(* A replay that is refused leaves the server down.                        *)
Restart ==
    /\ ~up /\ Replay(journal) # Refused
    /\ up' = TRUE /\ graph' = Replay(journal)
    /\ UNCHANGED <<journal, op, adrift, poisoned, scene>>

Store == Land \/ Refuse \/ Tear \/ LandAdrift

WNext == Call \/ Store \/ Apply \/ Cancel \/ Crash \/ Restart

WSpec == WInit /\ [][WNext]_wvars

---------------------------------------------------------------------------
(* The next start reads the journal to its end, unless a request was       *)
(* cancelled: then PreparedReplays, what the code says of the writer lock, *)
(* does not hold.                                                          *)
ReplayAccepted == "cancel" \notin scene.calls => Replay(journal) # Refused

(* The lock keeps every other writer out between the validation of a       *)
(* record and its application (AppState.writer), so that each was prepared *)
(* on what the records before it make.  A request dropped during its       *)
(* append gives the lock back, and its record lands all the same.          *)
PreparedReplays == Replay(journal) # Refused

Settled == up /\ op = Idle /\ ~poisoned

(* Between two handlers, a restart would show exactly what clients see.    *)
RestartShowsLive == Settled /\ "cancel" \notin scene.calls => Shown(Replay(journal)) = Shown(graph)

(* The same of the relations, whatever their ids: a tombstone reaches the  *)
(* relation the client deleted.                                            *)
RestartShowsLinks == Settled /\ "cancel" \notin scene.calls => Range(Replay(journal).rels) = Range(graph.rels)

(* Memory never runs ahead of the disk (R8): every concept, rule and       *)
(* action is live in a version some durable record holds, with no          *)
(* tombstone of its own after it that was applied.                         *)
Journaled ==
    up /\ op.kind # "reset" =>
          /\ \A id \in DOMAIN graph.concepts : \E i \in DOMAIN journal :
                /\ journal[i].kind \in {"concept", "updateConcept"} /\ journal[i].id = id
                /\ journal[i].name = graph.concepts[id].name
          /\ \A f \in Families : \A id \in DOMAIN graph.refs[f] : \E i \in DOMAIN journal :
                /\ journal[i].kind = "ref" /\ journal[i].family = f /\ journal[i].id = id
                /\ journal[i].ends = graph.refs[f][id]

(* The name index is exactly the inverse of the concepts' names.           *)
NamesExact ==
    graph.names = [k \in {KeyOf(graph.concepts[id]) : id \in DOMAIN graph.concepts} |->
                      CHOOSE id \in DOMAIN graph.concepts : KeyOf(graph.concepts[id]) = k]

FamilyOf(r) ==
    CASE r.kind \in {"concept", "updateConcept", "deleteConcept"} -> {"concept"}
      [] r.kind \in {"relation", "relationExact", "updateRelation", "deleteRelation"} -> {"relation"}
      [] r.kind \in {"ref", "deleteRef"} -> {r.family}
      [] OTHER -> {}

(* No id that a record of the journal names is handed out again, before or *)
(* after a restart.  A compaction drops the records of what was deleted,   *)
(* and with them the ids above those that are left: those are handed out   *)
(* again after the next restart.                                           *)
IdsFresh ==
    up => /\ \A i \in DOMAIN journal : \A f \in FamilyOf(journal[i]) : journal[i].id < graph.next[f]
          /\ \A r \in DOMAIN graph.rels : r < graph.next["relation"]

===========================================================================
