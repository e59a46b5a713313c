------------------------------ MODULE MCServer ------------------------------
(***************************************************************************)
(* Small instances of WriteAhead and Ingest for TLC.  Each scene allows    *)
(* the handlers of one question over a journal that sets it up.            *)
(***************************************************************************)
EXTENDS Ingest

LowerOf(n) == IF n = "A" THEN "a" ELSE n

Type(disjoint) == [disjoint |-> disjoint]
RelType(dom, ran, out, in, sym) ==
    [domain |-> dom, range |-> ran, oneOut |-> out, oneIn |-> in, symmetric |-> sym]

SymType == RelType({"T", "U"}, {"T", "U"}, FALSE, FALSE, TRUE)
FunType == RelType({"T"}, {"T", "U"}, TRUE, FALSE, FALSE)

(* Two types, without and with a disjointness; and a schema of one type.   *)
Two(disjoint) ==
    [types    |-> [T |-> Type(IF disjoint THEN {"U"} ELSE {}), U |-> Type(IF disjoint THEN {"T"} ELSE {})],
     relTypes |-> [sym |-> SymType, fun |-> FunType],
     families |-> Families]
One == [types |-> [T |-> Type({})], relTypes |-> << >>, families |-> {}]

OneName    == {"a"}
AllNames   == {"a", "A", "b"}
AllSchemas == {Two(FALSE), One}

C(id, t, n)    == ConceptRec([id |-> id, type |-> t, name |-> n])
R(id, t, s, o) == RelRec("relation", [id |-> id, type |-> t, src |-> s, tgt |-> o, w |-> 1])
Pair   == <<OntologyRec(Two(FALSE)), C(1, "T", "a"), C(2, "U", "a")>>
Linked == <<OntologyRec(Two(FALSE)), C(1, "T", "a"), C(2, "T", "b"), R(1, "fun", 1, 2)>>

Scene(calls, first, faults, room) == [calls |-> calls, journal |-> first, faults |-> faults, room |-> room]

NamesScene     == Scene({"createConcept", "updateConcept", "deleteConcepts"}, <<OntologyRec(Two(TRUE))>>, TRUE, 4)
RelationsScene == Scene({"createRelation", "updateRelation", "deleteRelation", "deleteConcepts"}, Pair, TRUE, 6)
RefsScene      == Scene({"createRef", "updateRefEnds", "deleteRef", "deleteConcepts"}, Pair, TRUE, 5)
CompactScene   == Scene({"createRef", "updateRefName", "compact"}, Pair, TRUE, 5)
SchemaScene    == Scene({"putOntology", "createConcept", "deleteConcepts", "reset", "compact"},
                        <<OntologyRec(One)>>, TRUE, 4)
CancelScene    == Scene({"createConcept", "updateConcept", "cancel"}, <<OntologyRec(One)>>, FALSE, 3)
IngestScene    == Scene({"ingest", "deleteRelation"}, Linked, TRUE, 9)

AllScenes == {NamesScene, RelationsScene, RefsScene, CompactScene, SchemaScene, CancelScene, IngestScene}

(* What a source may yield.                                                *)
concept(t, n) == [do |-> "concept", type |-> t, name |-> n]
type(n, d)    == [do |-> "type", name |-> n, decl |-> Type(d)]
relType(n, d) == [do |-> "relType", name |-> n, decl |-> d]
named(t, s, sn, o, on, w) ==
    [do |-> "named", type |-> t, srcType |-> s, srcName |-> sn, tgtType |-> o, tgtName |-> on, w |-> w]
relation(id, t, s, o) == [do |-> "relation", id |-> id, type |-> t, src |-> s, tgt |-> o, w |-> 1]
Source(recs, upsert, prune) == [recs |-> recs, upsert |-> upsert, prune |-> prune]

AllSources == {
    \* a relation before its ends, a name twice up to its case
    Source(<<named("fun", "T", "a", "T", "b", 1), concept("T", "a"), concept("T", "A"), concept("T", "b")>>,
           FALSE, FALSE),
    \* a relation type before its domain; a second relation that the cardinality forbids
    Source(<<relType("to", RelType({"V"}, {"T"}, TRUE, FALSE, FALSE)), type("V", {"T"}), concept("V", "v"),
             named("to", "V", "v", "T", "a", 1), named("to", "V", "v", "T", "b", 1)>>, FALSE, FALSE),
    \* disjoint names within one batch
    Source(<<type("V", {"T"}), concept("T", "v"), concept("V", "v")>>, FALSE, FALSE),
    \* an import again: a renamed sheet, a new edge, what is not re-emitted pruned
    Source(<<type("T", {}), relType("fun", FunType), concept("T", "A"), named("fun", "T", "a", "T", "a", 2),
             concept("T", "c")>>, TRUE, TRUE),
    \* one edge of a symmetric type, told from both ends
    Source(<<type("U", {"T"}), named("sym", "T", "a", "T", "b", 2), named("sym", "T", "b", "T", "a", 1)>>,
           TRUE, FALSE),
    \* a new weight, twice
    Source(<<named("fun", "T", "a", "T", "b", 2), named("fun", "T", "a", "T", "b", 1)>>, TRUE, FALSE),
    \* a whole schema, a rule, an explicit id
    Source(<<[do |-> "ontology", schema |-> Two(FALSE)], [do |-> "ref", family |-> "rule", ends |-> {1}],
             relation(1, "fun", 2, 1)>>, FALSE, FALSE)}

(* A rule renamed after the concept it names is gone.                      *)
DanglingScenes == {Scene({"createRef", "updateRefName", "deleteConcepts"}, Pair, FALSE, 7)}

(* Two edges of a symmetric type in one batch.                             *)
SymmetricScenes  == {Scene({"ingest", "deleteRelation"},
                           <<OntologyRec(Two(FALSE)), C(1, "T", "a"), C(2, "T", "b"), C(3, "T", "c")>>, FALSE, 7)}
SymmetricSources == {Source(<<named("sym", "T", "a", "T", "b", 1), named("sym", "T", "a", "T", "c", 1)>>,
                            FALSE, FALSE)}

(* A concept created again after the client of the first went away.        *)
CancelledScenes == {Scene({"createConcept", "cancel"}, <<OntologyRec(One)>>, FALSE, 3)}

(* A compaction whose client goes away.                                    *)
AbandonedScenes == {Scene({"createConcept", "compact", "cancel"}, <<OntologyRec(One)>>, FALSE, 4)}

=============================================================================
