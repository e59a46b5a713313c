------------------------------ MODULE GraphLog ------------------------------
(***************************************************************************)
(* The in-memory graph (graph.rs) and what a journal record does to it.    *)
(*                                                                         *)
(* A mutation has two halves: a prepare half validates against the schema  *)
(* and the live graph and takes the ids, an apply half inserts.  A handler *)
(* journals between the two; the replay of the journal (memory.rs, apply)  *)
(* runs both halves for every record, and whatever the prepare half        *)
(* refuses there ends the replay, and with it the start of the server.     *)
(*                                                                         *)
(* Only operators: WriteAhead and Ingest make state machines of them.      *)
(***************************************************************************)
EXTENDS Naturals, Sequences, FiniteSets, FiniteSetsExt, SequencesExt, Functions, TLC

CONSTANTS
    Lower(_), \* the lowercase form of a name
    Refused   \* the graph of a replay that was refused

(* A schema: which types are declared, and what the checks read of each.   *)
(* A relation type's domain and range are the sets of types below them.    *)
NoSchema == [types |-> << >>, relTypes |-> << >>, families |-> {}]

(* A rule and an action are the same here: an entity of a family that      *)
(* names concepts (applies_to; subject and object).                        *)
Families == {"rule", "action"}

Has(f, x)    == x \in DOMAIN f
Put(f, x, v) == [y \in DOMAIN f \cup {x} |-> IF y = x THEN v ELSE f[y]]
Drop(f, S)   == Restrict(f, DOMAIN f \ S)

EmptyGraph ==
    [schema   |-> NoSchema,
     concepts |-> << >>,                        \* id |-> [type, name]
     names    |-> << >>,                        \* <<type, lowercase name>> |-> id
     rels     |-> << >>,                        \* id |-> [type, src, tgt, w]
     refs     |-> [f \in Families |-> << >>],   \* family |-> id |-> concepts named
     next     |-> [f \in Families \cup {"concept", "relation"} |-> 1]]

(* Slip: off by one.                                                       *)
Observe_Seen(g, fam, id) == [g EXCEPT !.next[fam] = Max({@, id})]

(* IdAllocator: observe keeps a counter above every id seen.               *)
Observe(g, fam, id) == [g EXCEPT !.next[fam] = Max({@, id + 1})]
Allocate(g, fam, id) == Observe(g, fam, IF id = 0 THEN g.next[fam] ELSE id)
IdFor(g, fam, id)    == IF id = 0 THEN g.next[fam] ELSE id

---------------------------------------------------------------------------
(* Concepts.                                                               *)

KeyOf(c) == <<c.type, Lower(c.name)>>

(* validate_concept_schema                                                 *)
ConceptFits(g, c) ==
    /\ Has(g.schema.types, c.type)
    /\ \A other \in g.schema.types[c.type].disjoint : ~Has(g.names, <<other, Lower(c.name)>>)

NameFree(g, c) == Has(g.names, KeyOf(c)) => g.names[KeyOf(c)] = c.id
TypeKept(g, c) == Has(g.concepts, c.id) => g.concepts[c.id].type = c.type

(* prepare_concept accepts c; id 0 asks for a new one.                     *)
ConceptOk(g, c) == ConceptFits(g, c) /\ NameFree(g, c) /\ TypeKept(g, c)

(* Slip: the old name stays.                                               *)
NewName_KeepsOld(g, c) == Put(g.names, KeyOf(c), c.id)

(* The name index with c in it.                                            *)
NewName(g, c) ==
    LET old == IF Has(g.concepts, c.id) THEN {KeyOf(g.concepts[c.id])} ELSE {}
    IN  Put(Drop(g.names, old), KeyOf(c), c.id)

(* apply_prepared_concept, apply_concept_update: an upsert or an update    *)
(* that renames frees the old name.                                        *)
ApplyConcept(g, c) ==
    IF ~NameFree(g, c) \/ ~TypeKept(g, c) THEN Refused
    ELSE Observe([g EXCEPT !.names = NewName(g, c),
                           !.concepts = Put(@, c.id, [type |-> c.type, name |-> c.name])],
                 "concept", c.id)

UpsertConcept(g, c) ==
    IF ConceptOk(g, c)
    THEN ApplyConcept(Allocate(g, "concept", c.id), [c EXCEPT !.id = IdFor(g, "concept", @)])
    ELSE Refused

(* incident_relation_ids                                                   *)
Incident(g, id) == {r \in DOMAIN g.rels : id \in {g.rels[r].src, g.rels[r].tgt}}

(* remove_concept takes the relations at the concept along -- and leaves   *)
(* the rules and actions that name it.                                     *)
RemoveConcept(g, id) ==
    IF ~Has(g.concepts, id) THEN g
    ELSE [g EXCEPT !.names = Drop(@, {KeyOf(g.concepts[id])}),
                   !.concepts = Drop(@, {id}),
                   !.rels = Drop(@, Incident(g, id))]

---------------------------------------------------------------------------
(* Relations.                                                              *)

(* relation_between and the typed adjacency.                               *)
Between(g, s, t, type) ==
    {r \in DOMAIN g.rels : g.rels[r].src = s /\ g.rels[r].tgt = t /\ g.rels[r].type = type}
Out(g, s, type) == {r \in DOMAIN g.rels : g.rels[r].src = s /\ g.rels[r].type = type}
In(g, t, type)  == {r \in DOMAIN g.rels : g.rels[r].tgt = t /\ g.rels[r].type = type}

EndsExist(g, r) == {r.src, r.tgt} \subseteq DOMAIN g.concepts

(* prepare_relation accepts r: ends, schema, cardinality.                  *)
RelationOk(g, r) ==
    /\ EndsExist(g, r)
    /\ Has(g.schema.relTypes, r.type)
    /\ LET rt == g.schema.relTypes[r.type]
       IN  /\ g.concepts[r.src].type \in rt.domain /\ g.concepts[r.tgt].type \in rt.range
           /\ rt.oneOut => Out(g, r.src, r.type) = {}
           /\ rt.oneIn => In(g, r.tgt, r.type) = {}

(* Slip: a given id is taken as it is.                                     *)
RelIdFor_Kept(g, id) == IF id = 0 THEN g.next["relation"] ELSE id

(* The id it takes: one that collides with a live relation is replaced.    *)
RelIdFor(g, id) == IF id = 0 \/ Has(g.rels, id) THEN g.next["relation"] ELSE id

Edge(r) == [type |-> r.type, src |-> r.src, tgt |-> r.tgt, w |-> r.w]

(* apply_prepared_relation: the inverse of a symmetric relation takes the  *)
(* next id when the relation is applied.                                   *)
ApplyRelation(g, r) ==
    LET one == Observe([g EXCEPT !.rels = Put(@, r.id, Edge(r))], "relation", r.id)
        inv == one.next["relation"]
    IN  IF g.schema.relTypes[r.type].symmetric /\ r.src # r.tgt
        THEN Observe([one EXCEPT !.rels = Put(@, inv, [Edge(r) EXCEPT !.src = r.tgt, !.tgt = r.src])],
                     "relation", inv)
        ELSE one

PrepareRelation(g, r) == [r EXCEPT !.id = RelIdFor(g, @)]

AddRelation(g, r) ==
    IF RelationOk(g, r)
    THEN LET p == PrepareRelation(g, r) IN ApplyRelation(Observe(g, "relation", p.id), p)
    ELSE Refused

(* insert_relation_exact: no inverse, no cardinality; the id must be free. *)
InsertExact(g, r) ==
    IF EndsExist(g, r) /\ ~Has(g.rels, r.id)
    THEN Observe([g EXCEPT !.rels = Put(@, r.id, Edge(r))], "relation", r.id)
    ELSE Refused

(* apply_relation_update: the weight; a symmetric inverse follows.         *)
UpdateRelation(g, r) ==
    LET e == g.rels[r.id]
        inverse == IF g.schema.relTypes[e.type].symmetric /\ e.src # e.tgt
                   THEN Between(g, e.tgt, e.src, e.type) ELSE {}
        touched == {r.id} \cup (IF inverse = {} THEN {} ELSE {Min(inverse)})
    IN  [g EXCEPT !.rels = [i \in DOMAIN @ |-> IF i \in touched THEN [@[i] EXCEPT !.w = r.w] ELSE @[i]]]

---------------------------------------------------------------------------
(* Rules, actions, schema.                                                 *)

RefOk(g, ref) == ref.family \in g.schema.families /\ ref.ends \subseteq DOMAIN g.concepts

ApplyRef(g, ref) == Observe([g EXCEPT !.refs[ref.family] = Put(@, ref.id, ref.ends)], ref.family, ref.id)

UpsertRef(g, ref) ==
    IF RefOk(g, ref) THEN ApplyRef(g, [ref EXCEPT !.id = IdFor(g, ref.family, @)]) ELSE Refused

(* validate_candidate: nothing that has instances disappears or changes    *)
(* shape.                                                                  *)
SchemaOk(g, s) ==
    /\ \A c \in DOMAIN g.concepts : Has(s.types, g.concepts[c].type)
    /\ \A r \in DOMAIN g.rels :
          LET t == g.rels[r].type
          IN  /\ Has(s.relTypes, t)
              /\ s.relTypes[t].domain = g.schema.relTypes[t].domain
              /\ s.relTypes[t].range = g.schema.relTypes[t].range
    /\ \A f \in Families : g.refs[f] # << >> => f \in s.families

---------------------------------------------------------------------------
(* Records.                                                                *)

OntologyRec(s)   == [kind |-> "ontology", schema |-> s]
ConceptRec(c)    == [kind |-> "concept", id |-> c.id, type |-> c.type, name |-> c.name]
UpdConceptRec(c) == [kind |-> "updateConcept", id |-> c.id, type |-> c.type, name |-> c.name]
DelConceptRec(i) == [kind |-> "deleteConcept", id |-> i]
RelRec(k, r)     == [kind |-> k, id |-> r.id, type |-> r.type, src |-> r.src, tgt |-> r.tgt, w |-> r.w]
DelRelRec(i)     == [kind |-> "deleteRelation", id |-> i]
RefRec(ref)      == [kind |-> "ref", family |-> ref.family, id |-> ref.id, ends |-> ref.ends]
DelRefRec(f, i)  == [kind |-> "deleteRef", family |-> f, id |-> i]

RemoveRef(g, r) == [g EXCEPT !.refs[r.family] = Drop(@, {r.id})]

(* apply: both halves, whatever the record says.                           *)
ApplyRecord(g, r) ==
    CASE r.kind = "ontology"       -> IF SchemaOk(g, r.schema) THEN [g EXCEPT !.schema = r.schema] ELSE Refused
      [] r.kind = "concept"        -> UpsertConcept(g, r)
      [] r.kind = "updateConcept"  -> IF Has(g.concepts, r.id) THEN ApplyConcept(g, r) ELSE UpsertConcept(g, r)
      [] r.kind = "deleteConcept"  -> RemoveConcept(g, r.id)
      [] r.kind = "relation"       -> AddRelation(g, r)
      [] r.kind = "relationExact"  -> InsertExact(g, r)
      [] r.kind = "updateRelation" -> IF Has(g.rels, r.id) THEN UpdateRelation(g, r) ELSE AddRelation(g, r)
      [] r.kind = "deleteRelation" -> [g EXCEPT !.rels = Drop(@, {r.id})]
      [] r.kind = "ref"            -> UpsertRef(g, r)
      [] OTHER                     -> RemoveRef(g, r)      \* deleteRef

(* The apply half alone, as a handler runs it once its record is durable.  *)
ApplyPrepared(g, r) ==
    CASE r.kind = "concept"  -> ApplyConcept(g, r)
      [] r.kind = "relation" -> ApplyRelation(g, r)
      [] r.kind = "ref"      -> ApplyRef(g, r)
      [] OTHER               -> ApplyRecord(g, r)

Replay(journal) ==
    FoldLeft(LAMBDA g, r : IF g = Refused THEN Refused ELSE ApplyRecord(g, r), EmptyGraph, journal)

(* A record that apply refuses leaves the graph alone (the handler returns *)
(* the error).                                                             *)
ApplyAll(g, recs) ==
    FoldLeft(LAMBDA h, r : LET n == ApplyPrepared(h, r) IN IF n = Refused THEN h ELSE n, g, recs)

(* A set of ids in ascending order.                                        *)
Ascending(S) == [i \in 1 .. Cardinality(S) |-> CHOOSE x \in S : Cardinality({y \in S : y < x}) = i - 1]

(* live_records: what a compaction writes for the live graph.              *)
ConceptRecords(g) ==
    [i \in 1 .. Cardinality(DOMAIN g.concepts) |->
        LET id == Ascending(DOMAIN g.concepts)[i]
        IN  ConceptRec([id |-> id, type |-> g.concepts[id].type, name |-> g.concepts[id].name])]

RelationRecords(g) ==
    [i \in 1 .. Cardinality(DOMAIN g.rels) |->
        LET id == Ascending(DOMAIN g.rels)[i]
        IN  RelRec("relationExact", [id |-> id] @@ g.rels[id])]

RefRecords(g, f) ==
    [i \in 1 .. Cardinality(DOMAIN g.refs[f]) |->
        LET id == Ascending(DOMAIN g.refs[f])[i]
        IN  RefRec([family |-> f, id |-> id, ends |-> g.refs[f][id]])]

LiveRecords(g) ==
    <<OntologyRec(g.schema)>> \o ConceptRecords(g) \o RelationRecords(g)
    \o RefRecords(g, "rule") \o RefRecords(g, "action")

(* What a client can see of a graph: everything but the id counters.       *)
Shown(g) == [g EXCEPT !.next = << >>]

===========================================================================
