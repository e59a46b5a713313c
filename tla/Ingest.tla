------------------------------- MODULE Ingest -------------------------------
(***************************************************************************)
(* The ingestion of a source of records (ingest.rs) under the writer lock, *)
(* as the upload handler runs it.  Concepts, new relations and relation    *)
(* updates wait in three batches, each journaled under one barrier and     *)
(* then applied; type declarations change the live schema at once and are  *)
(* journaled before the first instance that could need them; a failure     *)
(* takes the undeclared types back.                                        *)
(*                                                                         *)
(* A record is worked off as an agenda of steps; a step that journals      *)
(* hands its records to the append of WriteAhead and the agenda goes on    *)
(* once they are applied.                                                  *)
(***************************************************************************)
EXTENDS WriteAhead

CONSTANTS
    Sources,     \* [recs: what the source yields, upsert, prune: options]
    BatchSize,   \* INGEST_BATCH_SIZE
    PruneMin,    \* PRUNE_GUARD_MIN_SHEETS
    NoBase       \* no schema to go back to

VARIABLE ing     \* the ingest in progress

ivars == <<wvars, ing>>

NoIngest == [recs |-> << >>]
Running  == ing # NoIngest

(* Ingester::new                                                           *)
Started(src) ==
    [recs |-> src.recs, upsert |-> src.upsert \/ src.prune, prune |-> src.prune,
     todo |-> << >>,                                \* agenda
     late |-> << >>, second |-> FALSE,              \* deferred records, retry pass
     pend |-> << >>, rels |-> << >>, ups |-> << >>, \* the batches
     base |-> NoBase, dirty |-> FALSE,                \* schema before, undeclared on disk
     types |-> {}, relTypes |-> {},                 \* declared: what prune looks at
     seen |-> {}, edges |-> {}]

IInit == WInit /\ ing = NoIngest

Upload ==
    \E src \in Sources :
        /\ up /\ op = Idle /\ "ingest" \in scene.calls /\ ~Running
        /\ Len(journal) + Len(src.recs) <= scene.room
        /\ \A f \in DOMAIN graph.next : graph.next[f] <= MaxId
        /\ ing' = Started(src)
        /\ op' = Held
        /\ UNCHANGED <<graph, journal, adrift, poisoned, up, scene>>

---------------------------------------------------------------------------
(* The agenda.                                                             *)

Flush     == << <<"schema">>, <<"concepts">>, <<"rels">>, <<"ups">> >>
Waiting   == ing.pend # << >> \/ ing.rels # << >> \/ ing.ups # << >>
Settle    == IF Waiting THEN Flush ELSE << >>       \* settle_pending
Steps(r)  ==
    CASE r.do = "concept"  -> << <<"rels">>, <<"ups">>, <<"stage", r>> >>
      [] r.do = "relation" -> << <<"schema">>, <<"concepts">>, <<"add", r>> >>
      [] r.do \in {"ontology", "ref"} -> Append(Flush, <<r.do, r>>)
      [] OTHER             -> << <<r.do, r>> >>     \* named, type, relType

Step == <<ing.todo[1][1], IF Len(ing.todo[1]) = 2 THEN ing.todo[1][2] ELSE {}>>
At(name) ==
    Running /\ up /\ op = Held /\ ing.todo # << >> /\ ing.todo[1][1] = name
Rest(now) == [ing EXCEPT !.todo = now \o Tail(@)]

(* A step that leaves the store alone, one that changes the live schema,   *)
(* and one that journals.                                                  *)
Local(i)  == ing' = i /\ UNCHANGED wvars
Live(i, g) ==
    ing' = i /\ graph' = g /\ UNCHANGED <<journal, op, adrift, poisoned, up, scene>>
Journal(i, g, recs) ==
    /\ ing' = i /\ graph' = g
    /\ op' = [kind |-> "ingest", recs |-> recs, phase |-> "append"]
    /\ UNCHANGED <<journal, adrift, poisoned, up, scene>>

Abort     == [ing EXCEPT !.todo = << <<"abort">> >>, !.pend = << >>, !.rels = << >>, !.ups = << >>]
Later(r)  == IF ing.second THEN Abort ELSE [ing EXCEPT !.todo = Tail(@), !.late = Append(@, r)]

(* run: the source, a flush, the deferred records, a flush, the prune.     *)
Next1 ==
    /\ Running /\ up /\ op = Held /\ ing.todo = << >>
    /\ CASE ing.recs # << >> -> Local([ing EXCEPT !.recs = Tail(@), !.todo = Steps(Head(ing.recs))])
         [] ing.recs = << >> /\ ~ing.second ->
                Local([ing EXCEPT !.recs = ing.late, !.second = TRUE, !.todo = Flush])
         [] OTHER -> Local([ing EXCEPT !.todo =
                IF ing.prune THEN Flush \o << <<"prune">>, <<"pruneLinks">>, <<"end">> >>
                ELSE Append(Flush, <<"end">>)])

---------------------------------------------------------------------------
(* The barriers.                                                           *)

FlushSchema ==
    /\ At("schema")
    /\ IF ing.dirty THEN Journal(Rest(<< <<"schemaDone">> >>), graph, <<OntologyRec(graph.schema)>>)
       ELSE Local(Rest(<< >>))
SchemaDone ==
    At("schemaDone") /\ Local([Rest(<< >>) EXCEPT !.dirty = FALSE, !.base = NoBase])

Emptied(i, f) == [i EXCEPT ![f] = << >>]
Barrier(name, field, Rec(_)) ==
    /\ At(name)
    /\ IF ing[field] = << >> THEN Local(Rest(<< >>))
       ELSE Journal(Emptied(Rest(<< >>), field), graph, [i \in DOMAIN ing[field] |-> Rec(ing[field][i])])

FlushConcepts  == Barrier("concepts", "pend", ConceptRec)
FlushRelations == Barrier("rels", "rels", LAMBDA r : RelRec("relation", r))
FlushUpdates   == Barrier("ups", "ups", LAMBDA r : RelRec("updateRelation", r))

---------------------------------------------------------------------------
(* Instances.                                                              *)

Found(t, n)  == Has(graph.names, <<t, Lower(n)>>)
Id(t, n)     == graph.names[<<t, Lower(n)>>]

(* check_pending_conflicts                                                 *)
PendingClash(c) ==
    \E i \in DOMAIN ing.pend :
        LET p == ing.pend[i]
        IN  /\ Lower(p.name) = Lower(c.name)
            /\ \/ p.type = c.type /\ p.id # c.id
               \/ Has(graph.schema.types, c.type) /\ p.type \in graph.schema.types[c.type].disjoint

Pushed(i, field, x, flush) ==
    [i EXCEPT ![field] = Append(@, x),
              !.todo = (IF Len(ing[field]) + 1 >= BatchSize THEN flush ELSE << >>) \o @]

(* stage_concept                                                           *)
StageConcept ==
    /\ At("stage")
    /\ LET r == Step[2]
           known == ing.upsert /\ Found(r.type, r.name)
           id == IF known THEN Id(r.type, r.name) ELSE 0
           c == [id |-> id, type |-> r.type, name |-> r.name]
           p == [c EXCEPT !.id = IdFor(graph, "concept", id)]
       IN  CASE known /\ (\E i \in DOMAIN ing.pend : ing.pend[i].id = id) ->
                    Local([ing EXCEPT !.todo = Flush \o @])
             [] known /\ (~\E i \in DOMAIN ing.pend : ing.pend[i].id = id)
                      /\ graph.concepts[id].name = r.name ->
                    Local([Rest(<< >>) EXCEPT !.seen = @ \cup {id}])
             [] OTHER ->
                    IF PendingClash(c) \/ ~ConceptOk(graph, c) THEN Local(Abort)
                    ELSE Live([Pushed(Rest(<< >>), "pend", p, Flush) EXCEPT !.seen = @ \cup {p.id}],
                              Allocate(graph, "concept", id))

RelTypeOf(t) == graph.schema.relTypes[t]

(* The batch holds a relation that the cardinality of r's type counts.     *)
PendingSibling(r) ==
    /\ Has(graph.schema.relTypes, r.type)
    /\ LET rt == RelTypeOf(r.type)
       IN  \E i \in DOMAIN ing.rels :
            LET p == ing.rels[i]
            IN  /\ p.type = r.type
                /\ \/ rt.oneOut /\ (p.src = r.src \/ (rt.symmetric /\ p.tgt = r.src))
                   \/ rt.oneIn /\ (p.tgt = r.tgt \/ (rt.symmetric /\ p.src = r.tgt))

(* add_relation, its concepts settled                                      *)
AddToBatch ==
    /\ At("add")
    /\ LET r == Step[2]
           p == PrepareRelation(graph, r)
       IN  CASE PendingSibling(r) \/ (r.id # 0 /\ (\E i \in DOMAIN ing.rels : ing.rels[i].id = r.id)) ->
                    Local([ing EXCEPT !.todo = << <<"rels">> >> \o @])
             [] OTHER ->
                    IF ~RelationOk(graph, r) THEN Local(Abort)
                    ELSE Live([Pushed(Rest(<< >>), "rels", p, << <<"rels">> >>)
                                  EXCEPT !.edges = @ \cup {<<p.src, p.tgt, p.type>>}],
                              Observe(graph, "relation", p.id))

SameEdge(p, s, t, type) ==
    /\ p.type = type
    /\ \/ p.src = s /\ p.tgt = t
       \/ Has(graph.schema.relTypes, type) /\ RelTypeOf(type).symmetric /\ p.src = t /\ p.tgt = s

Reweighed(batch, s, t, r) ==
    LET i == Min({j \in DOMAIN batch : SameEdge(batch[j], s, t, r.type)})
    IN  [batch EXCEPT ![i].w = r.w]

(* NamedRelation and upsert_relation                                       *)
Named ==
    /\ At("named")
    /\ LET r == Step[2]
           ends == Found(r.srcType, r.srcName) /\ Found(r.tgtType, r.tgtName)
           s == Id(r.srcType, r.srcName)
           t == Id(r.tgtType, r.tgtName)
           noted == [Rest(<< >>) EXCEPT !.edges = @ \cup {<<s, t, r.type>>}]
           new == [id |-> 0, type |-> r.type, src |-> s, tgt |-> t, w |-> r.w]
           holds(batch) == \E i \in DOMAIN batch : SameEdge(batch[i], s, t, r.type)
           edges == Between(graph, s, t, r.type)
           back == IF Has(graph.schema.relTypes, r.type) /\ RelTypeOf(r.type).symmetric
                   THEN Between(graph, t, s, r.type) ELSE {}
           found == IF edges # {} THEN edges ELSE back
           id == Min(found)
       IN  CASE ~ends /\ ing.pend # << >> -> Local([ing EXCEPT !.todo = << <<"schema">>, <<"concepts">> >> \o @])
             [] ~ends /\ ing.pend = << >> -> Local(Later(r))
             [] ends /\ ing.upsert /\ holds(ing.rels) ->
                    Local([noted EXCEPT !.rels = Reweighed(@, s, t, r)])
             [] ends /\ ing.upsert /\ ~holds(ing.rels) /\ holds(ing.ups) ->
                    Local([noted EXCEPT !.ups = Reweighed(@, s, t, r)])
             [] ends /\ ing.upsert /\ ~holds(ing.rels) /\ ~holds(ing.ups) /\ found # {} ->
                    IF graph.rels[id].w = r.w THEN Local(noted)
                    ELSE Local(Pushed(noted, "ups", [id |-> id] @@ [graph.rels[id] EXCEPT !.w = r.w],
                                      << <<"ups">> >>))
             [] OTHER ->
                    Local([noted EXCEPT !.todo = << <<"schema">>, <<"concepts">>, <<"add", new>> >> \o @])

(* Rules and actions: one append each, once everything they name exists.   *)
IngestRef ==
    /\ At("ref")
    /\ LET r == Step[2]
           ref == [family |-> r.family, id |-> graph.next[r.family], ends |-> r.ends]
       IN  IF RefOk(graph, ref)
           THEN Journal(Rest(<< >>), Observe(graph, ref.family, ref.id), <<RefRec(ref)>>)
           ELSE Local(Later(r))

---------------------------------------------------------------------------
(* The schema.                                                             *)

(* begin_schema_change and the declaration: live at once.                  *)
Declared(s, i) ==
    IF s = graph.schema THEN Local(i)
    ELSE IF Waiting THEN Local([ing EXCEPT !.todo = Flush \o @])
    ELSE IF ~SchemaOk(graph, s) THEN Local(Abort)
    ELSE Live([i EXCEPT !.base = IF @ = NoBase THEN graph.schema ELSE @, !.dirty = TRUE],
              [graph EXCEPT !.schema = s])

DeclareType ==
    /\ At("type")
    /\ LET r == Step[2]
       IN  Declared([graph.schema EXCEPT !.types = Put(@, r.name, r.decl)],
                    [Rest(<< >>) EXCEPT !.types = @ \cup {r.name}])

DeclareRelType ==
    /\ At("relType")
    /\ LET r == Step[2]
           i == [ing EXCEPT !.relTypes = @ \cup {r.name}]
       IN  IF r.decl.domain \cup r.decl.range \subseteq DOMAIN graph.schema.types
           THEN Declared([graph.schema EXCEPT !.relTypes = Put(@, r.name, r.decl)],
                         [Rest(<< >>) EXCEPT !.relTypes = i.relTypes])
           ELSE Local([i EXCEPT !.todo = Tail(@),       \* dropped in the retry pass
                                !.late = IF ing.second THEN @ ELSE Append(@, r)])

IngestOntology ==
    /\ At("ontology")
    /\ LET s == Step[2].schema
       IN  IF SchemaOk(graph, s)
           THEN Journal(Rest(<< >>), graph, <<OntologyRec(s)>>)
           ELSE Local(Abort)

---------------------------------------------------------------------------
(* The end: prune, success or failure.                                     *)

OfType(t) == {id \in DOMAIN graph.concepts : graph.concepts[id].type = t}

Prune ==
    /\ At("prune")
    /\ LET stale == UNION {OfType(t) \ ing.seen : t \in ing.types}
       IN  CASE \E t \in ing.types : /\ Cardinality(OfType(t)) >= PruneMin
                                     /\ 4 * Cardinality(OfType(t) \ ing.seen) > Cardinality(OfType(t)) ->
                    Local(Abort)
             [] OTHER -> IF stale = {} THEN Local(Rest(<< >>))
                         ELSE Journal(Rest(<< >>), graph, Cascade(stale))

PruneLinks ==
    /\ At("pruneLinks")
    /\ LET emitted(e) == \/ <<e.src, e.tgt, e.type>> \in ing.edges
                         \/ RelTypeOf(e.type).symmetric /\ <<e.tgt, e.src, e.type>> \in ing.edges
           stale == {r \in DOMAIN graph.rels :
                        LET e == graph.rels[r]
                        IN  /\ e.type \in ing.relTypes /\ ~emitted(e)
                            /\ \/ e.src \in ing.seen
                               \/ RelTypeOf(e.type).symmetric /\ e.tgt \in ing.seen}
           ids == Ascending(stale)
       IN  IF stale = {} THEN Local(Rest(<< >>))
           ELSE Journal(Rest(<< >>), graph, [i \in DOMAIN ids |-> DelRelRec(ids[i])])

(* Slip: the undeclared types stay.                                        *)
RolledBack_Not == graph

(* rollback_schema                                                         *)
RolledBack == IF ing.dirty /\ SchemaOk(graph, ing.base) THEN [graph EXCEPT !.schema = ing.base] ELSE graph

(* The handler returns; rollback_schema first if anything failed.          *)
End ==
    /\ At("end") \/ At("abort")
    /\ graph' = IF Step[1] = "abort" THEN RolledBack ELSE graph
    /\ ing' = NoIngest /\ op' = Idle
    /\ UNCHANGED <<journal, adrift, poisoned, up, scene>>

IngestStep ==
    \/ Next1 \/ FlushSchema \/ SchemaDone \/ FlushConcepts \/ FlushRelations \/ FlushUpdates
    \/ StageConcept \/ AddToBatch \/ Named \/ IngestRef
    \/ DeclareType \/ DeclareRelType \/ IngestOntology
    \/ Prune \/ PruneLinks \/ End

(* A failed append ends the ingest; a crash takes it along, and so does a  *)
(* client that goes away, without the rollback.                            *)
Failed == IF Running THEN Abort ELSE ing

Returns ==
    \/ (Land \/ Apply) /\ ing' = ing
    \/ (Refuse \/ Tear) /\ ing' = Failed

INext ==
    \/ Upload \/ IngestStep \/ Returns
    \/ (Call \/ LandAdrift \/ Restart) /\ ing' = ing
    \/ (Cancel \/ Crash) /\ ing' = NoIngest

ISpec == IInit /\ [][INext]_ivars

---------------------------------------------------------------------------
(* No type is live that the disk does not know, whenever another writer    *)
(* may come in (or no ingest runs at all).                                 *)
SchemaOnDisk == Settled /\ "cancel" \notin scene.calls /\ Replay(journal) # Refused => Replay(journal).schema = graph.schema

===========================================================================
