---------------------------- MODULE Server_proofs ----------------------------
(***************************************************************************)
(* The server's writers (GraphLog, WriteAhead, Ingest): the inductive      *)
(* invariant of every handler, of the ingest, of abandoned appends and of  *)
(* restarts.  The name index is the inverse of the names through every     *)
(* operation of the graph, and what is live was journaled: a replay shows  *)
(* only what its records say, and so does a batch that is applied after it *)
(* was appended.                                                           *)
(*                                                                         *)
(* Replay, ApplyAll and Cascade are folds over sequences of any length:    *)
(* what a fold goes through is shown to exist by induction over the sets   *)
(* of positions (Folding), and what every step keeps then holds of all.    *)
(***************************************************************************)
EXTENDS Ingest, Extremes, FiniteSetTheorems, TLAPS

(* A graph: its fields, and its entities finite in number.                 *)
Shaped(g) ==
    /\ {"schema", "concepts", "names", "rels", "refs", "next"} \subseteq DOMAIN g
    /\ IsFiniteSet(DOMAIN g.concepts) /\ IsFiniteSet(DOMAIN g.rels)
    /\ \A f \in Families : f \in DOMAIN g.refs /\ IsFiniteSet(DOMAIN g.refs[f])

(* The name index is the inverse of the names, and no two concepts share   *)
(* a key.                                                                  *)
Keyed(g) ==
    /\ g.names = [k \in DOMAIN g.names |-> g.names[k]]
    /\ DOMAIN g.names = {KeyOf(g.concepts[id]) : id \in DOMAIN g.concepts}
    /\ \A id \in DOMAIN g.concepts : g.names[KeyOf(g.concepts[id])] = id

Sound(g) == Shaped(g) /\ Keyed(g)

(* What the steps that leave the concepts alone keep.                      *)
LEMMA SameConcepts ==
    ASSUME NEW g, NEW h, Sound(g), h.concepts = g.concepts, h.names = g.names,
           {"schema", "concepts", "names", "rels", "refs", "next"} \subseteq DOMAIN h,
           IsFiniteSet(DOMAIN h.rels), \A f \in Families : f \in DOMAIN h.refs /\ IsFiniteSet(DOMAIN h.refs[f])
    PROVE  Sound(h)
BY DEF Sound, Shaped, Keyed

LEMMA ObserveSound ==
    ASSUME NEW g, Sound(g), NEW fam, NEW id
    PROVE  Sound(Observe(g, fam, id)) /\ Sound(Allocate(g, fam, id))
<1>1. ASSUME NEW i PROVE Sound(Observe(g, fam, i))
  <2>. DEFINE h == Observe(g, fam, i)
  <2>0. Shaped(g)
    BY DEF Sound
  <2>a. h = Observe(g, fam, i)
    OBVIOUS
  <2>. HIDE DEF h
  <2>1. DOMAIN h = DOMAIN g /\ h.concepts = g.concepts /\ h.names = g.names /\ h.rels = g.rels /\ h.refs = g.refs
    BY <2>0, <2>a DEF Observe, Shaped
  <2>2. {"schema", "concepts", "names", "rels", "refs", "next"} \subseteq DOMAIN h /\ IsFiniteSet(DOMAIN h.rels)
      /\ \A f \in Families : f \in DOMAIN h.refs /\ IsFiniteSet(DOMAIN h.refs[f])
    BY <2>1 DEF Sound, Shaped
  <2>3. Sound(h)
    BY <2>1, <2>2, SameConcepts
  <2>. QED  BY <2>3 DEF h
<1>. QED  BY <1>1, Zenon DEF Allocate

(* An upsert or an update moves the name of its concept and no other.     *)
LEMMA ApplyConceptSound ==
    ASSUME NEW g, Sound(g), NEW c
    PROVE  ApplyConcept(g, c) = Refused \/ Sound(ApplyConcept(g, c))
<1>. SUFFICES ASSUME NameFree(g, c), TypeKept(g, c) PROVE Sound(ApplyConcept(g, c))
  BY Zenon DEF ApplyConcept
<1>. DEFINE new == [type |-> c.type, name |-> c.name]
            h == [g EXCEPT !.names = NewName(g, c), !.concepts = Put(@, c.id, new)]
            old == IF Has(g.concepts, c.id) THEN {KeyOf(g.concepts[c.id])} ELSE {}
            mid == Drop(g.names, old)
<1>1. ApplyConcept(g, c) = Observe(h, "concept", c.id)
  BY Zenon DEF ApplyConcept
<1>a. h.concepts = Put(g.concepts, c.id, new)
  BY DEF NewName, Sound, Shaped
<1>b. h.names = Put(mid, KeyOf(c), c.id)
  BY DEF NewName, Sound, Shaped
<1>2. h.rels = g.rels /\ h.refs = g.refs /\ DOMAIN h = DOMAIN g
  BY DEF NewName, Sound, Shaped
<1>c. mid = Drop(g.names, old)
  OBVIOUS
<1>3. KeyOf(new) = KeyOf(c)
  BY DEF KeyOf
<1>. HIDE DEF h, new, mid
<1>4. DOMAIN h.concepts = DOMAIN g.concepts \cup {c.id} /\ h.concepts[c.id] = new
      /\ \A i \in DOMAIN g.concepts \ {c.id} : h.concepts[i] = g.concepts[i]
  BY <1>a DEF Put
<1>5. /\ DOMAIN mid = DOMAIN g.names \ old
      /\ \A y \in DOMAIN g.names \ old : mid[y] = g.names[y]
  BY <1>c DEF Drop, Restrict
<1>6. /\ DOMAIN h.names = DOMAIN mid \cup {KeyOf(c)} /\ h.names[KeyOf(c)] = c.id
      /\ \A y \in DOMAIN mid \ {KeyOf(c)} : h.names[y] = mid[y]
      /\ h.names = [y \in DOMAIN h.names |-> h.names[y]]
  BY <1>b DEF Put
<1>7. ASSUME NEW i \in DOMAIN g.concepts, i # c.id
      PROVE  KeyOf(g.concepts[i]) # KeyOf(c) /\ KeyOf(g.concepts[i]) \notin old /\ KeyOf(g.concepts[i]) \in DOMAIN g.names
  <2>1. g.names[KeyOf(g.concepts[i])] = i /\ KeyOf(g.concepts[i]) \in DOMAIN g.names
    BY DEF Sound, Keyed
  <2>2. KeyOf(g.concepts[i]) # KeyOf(c)
    BY <2>1, <1>7, Zenon DEF NameFree, Has
  <2>3. ASSUME c.id \in DOMAIN g.concepts PROVE KeyOf(g.concepts[i]) # KeyOf(g.concepts[c.id])
    <3>1. g.names[KeyOf(g.concepts[c.id])] = c.id
      BY <2>3, Zenon DEF Sound, Keyed
    <3>. QED  BY <2>1, <3>1, <1>7, Zenon
  <2>. QED  BY <2>1, <2>2, <2>3, Zenon DEF Has
<1>8. Keyed(h)
  <2>1. ASSUME NEW i \in DOMAIN h.concepts PROVE h.names[KeyOf(h.concepts[i])] = i /\ KeyOf(h.concepts[i]) \in DOMAIN h.names
    <3>1. CASE i = c.id
      BY <3>1, <1>3, <1>4, <1>6
    <3>2. CASE i # c.id
      <4>1. i \in DOMAIN g.concepts /\ h.concepts[i] = g.concepts[i] /\ g.names[KeyOf(g.concepts[i])] = i
        BY <3>2, <1>4 DEF Sound, Keyed
      <4>2. KeyOf(g.concepts[i]) \in DOMAIN mid \ {KeyOf(c)}
        BY <3>2, <4>1, <1>5, <1>7, Zenon
      <4>. QED  BY <4>1, <4>2, <1>5, <1>6, Zenon
    <3>. QED  BY <3>1, <3>2
  <2>2. ASSUME NEW k \in DOMAIN h.names PROVE \E i \in DOMAIN h.concepts : k = KeyOf(h.concepts[i])
    <3>1. CASE k = KeyOf(c)
      BY <3>1, <1>3, <1>4, Zenon
    <3>2. CASE k # KeyOf(c)
      <4>1. k \in DOMAIN g.names \ old
        BY <3>2, <1>5, <1>6, Zenon
      <4>2. PICK i \in DOMAIN g.concepts : k = KeyOf(g.concepts[i])
        BY <4>1, Zenon DEF Sound, Keyed
      <4>3. i # c.id
        BY <4>1, <4>2, Zenon DEF Has
      <4>. QED  BY <4>2, <4>3, <1>4, Zenon
    <3>. QED  BY <3>1, <3>2
  <2>3. DOMAIN h.names = {KeyOf(h.concepts[i]) : i \in DOMAIN h.concepts}
    BY <2>1, <2>2, Zenon
  <2>. QED  BY <2>1, <2>3, <1>6, Zenon DEF Keyed
<1>9. Shaped(h)
  <2>1. IsFiniteSet(DOMAIN g.concepts \cup {c.id})
    BY FS_AddElement DEF Sound, Shaped
  <2>. QED  BY <2>1, <1>2, <1>4 DEF Sound, Shaped
<1>. QED  BY <1>1, <1>8, <1>9, ObserveSound, Zenon DEF Sound

LEMMA UpsertConceptSound ==
    ASSUME NEW g, Sound(g), NEW c
    PROVE  UpsertConcept(g, c) = Refused \/ Sound(UpsertConcept(g, c))
BY ObserveSound, ApplyConceptSound, Zenon DEF UpsertConcept

(* A removal frees the name of the concept it removes and no other.        *)
LEMMA RemoveConceptSound ==
    ASSUME NEW g, Sound(g), NEW id
    PROVE  Sound(RemoveConcept(g, id))
<1>. SUFFICES ASSUME id \in DOMAIN g.concepts PROVE Sound(RemoveConcept(g, id))
  BY Zenon DEF RemoveConcept, Has
<1>. DEFINE h == RemoveConcept(g, id)
            key == KeyOf(g.concepts[id])
<1>a. h.names = Drop(g.names, {key})
  BY DEF RemoveConcept, Has, Sound, Shaped
<1>b. h.concepts = Drop(g.concepts, {id})
  BY DEF RemoveConcept, Has, Sound, Shaped
<1>c. h.rels = Drop(g.rels, Incident(g, id))
  BY DEF RemoveConcept, Has, Sound, Shaped
<1>1. DOMAIN h = DOMAIN g /\ h.refs = g.refs
  BY DEF RemoveConcept, Has, Sound, Shaped
<1>. HIDE DEF h, key
<1>2. /\ DOMAIN h.names = DOMAIN g.names \ {key}
      /\ \A y \in DOMAIN g.names \ {key} : h.names[y] = g.names[y]
      /\ h.names = [y \in DOMAIN h.names |-> h.names[y]]
  BY <1>a DEF Drop, Restrict
<1>3. DOMAIN h.concepts = DOMAIN g.concepts \ {id} /\ \A y \in DOMAIN g.concepts \ {id} : h.concepts[y] = g.concepts[y]
  BY <1>b DEF Drop, Restrict
<1>4. DOMAIN h.rels = DOMAIN g.rels \ Incident(g, id)
  BY <1>c DEF Drop, Restrict
<1>5. IsFiniteSet(DOMAIN h.concepts) /\ IsFiniteSet(DOMAIN h.rels)
  <2>1. IsFiniteSet(DOMAIN g.concepts) /\ IsFiniteSet(DOMAIN g.rels)
    BY DEF Sound, Shaped
  <2>2. IsFiniteSet(DOMAIN g.concepts \ {id}) /\ IsFiniteSet(DOMAIN g.rels \ Incident(g, id))
    BY <2>1, FS_Difference
  <2>. QED  BY <2>2, <1>3, <1>4
<1>6. ASSUME NEW i \in DOMAIN h.concepts
      PROVE  h.names[KeyOf(h.concepts[i])] = i /\ KeyOf(h.concepts[i]) \in DOMAIN h.names
  <2>1. i \in DOMAIN g.concepts /\ i # id /\ h.concepts[i] = g.concepts[i]
    BY <1>3, Zenon
  <2>2. g.names[KeyOf(g.concepts[i])] = i /\ g.names[key] = id /\ KeyOf(g.concepts[i]) \in DOMAIN g.names
    BY <2>1, Zenon DEF Sound, Keyed, key
  <2>. QED  BY <1>2, <2>1, <2>2, Zenon
<1>7. ASSUME NEW k \in DOMAIN h.names PROVE \E i \in DOMAIN h.concepts : k = KeyOf(h.concepts[i])
  <2>1. k \in DOMAIN g.names /\ k # key
    BY <1>2, Zenon
  <2>2. PICK i \in DOMAIN g.concepts : k = KeyOf(g.concepts[i])
    BY <2>1, Zenon DEF Sound, Keyed
  <2>. QED  BY <1>3, <2>1, <2>2, Zenon DEF key
<1>8. Keyed(h)
  <2>1. DOMAIN h.names = {KeyOf(h.concepts[i]) : i \in DOMAIN h.concepts}
    BY <1>6, <1>7, Zenon
  <2>. QED  BY <1>2, <1>6, <2>1, Zenon DEF Keyed
<1>. QED  BY <1>1, <1>5, <1>8, Zenon DEF Sound, Shaped, h

(* A step that changes the relations alone.                                *)
LEMMA RelsChange ==
    ASSUME NEW g, Sound(g), NEW v, IsFiniteSet(DOMAIN v)
    PROVE  Sound([g EXCEPT !.rels = v])
<1>. DEFINE h == [g EXCEPT !.rels = v]
<1>1. h.concepts = g.concepts /\ h.names = g.names /\ DOMAIN h = DOMAIN g /\ h.rels = v /\ h.refs = g.refs
  BY DEF Sound, Shaped
<1>. HIDE DEF h
<1>2. Sound(h)
  BY <1>1, SameConcepts DEF Sound, Shaped
<1>. QED  BY <1>2 DEF h

LEMMA SchemaChange ==
    ASSUME NEW g, Sound(g), NEW v
    PROVE  Sound([g EXCEPT !.schema = v])
<1>. DEFINE h == [g EXCEPT !.schema = v]
<1>1. h.concepts = g.concepts /\ h.names = g.names /\ DOMAIN h = DOMAIN g /\ h.rels = g.rels /\ h.refs = g.refs
  BY DEF Sound, Shaped
<1>. HIDE DEF h
<1>2. Sound(h)
  BY <1>1, SameConcepts DEF Sound, Shaped
<1>. QED  BY <1>2 DEF h

LEMMA RefsChange ==
    ASSUME NEW g, Sound(g), NEW fam, NEW v, fam \in Families => IsFiniteSet(DOMAIN v)
    PROVE  Sound([g EXCEPT !.refs[fam] = v])
<1>. DEFINE h == [g EXCEPT !.refs[fam] = v]
<1>1. h.concepts = g.concepts /\ h.names = g.names /\ DOMAIN h = DOMAIN g /\ h.rels = g.rels
      /\ h.refs = [g.refs EXCEPT ![fam] = v]
  BY DEF Sound, Shaped
<1>. HIDE DEF h
<1>2. \A f \in Families : f \in DOMAIN h.refs /\ IsFiniteSet(DOMAIN h.refs[f])
  BY <1>1 DEF Sound, Shaped
<1>3. Sound(h)
  BY <1>1, <1>2, SameConcepts DEF Sound, Shaped
<1>. QED  BY <1>3 DEF h

LEMMA PutRelSound ==
    ASSUME NEW g, Sound(g), NEW i, NEW e, NEW fam, NEW id
    PROVE  Sound(Observe([g EXCEPT !.rels = Put(@, i, e)], fam, id))
<1>1. IsFiniteSet(DOMAIN Put(g.rels, i, e))
  <2>1. DOMAIN Put(g.rels, i, e) = DOMAIN g.rels \cup {i}
    BY DEF Put
  <2>. QED  BY <2>1, FS_AddElement DEF Sound, Shaped
<1>2. Sound([g EXCEPT !.rels = Put(g.rels, i, e)])
  BY <1>1, RelsChange
<1>3. [g EXCEPT !.rels = Put(@, i, e)] = [g EXCEPT !.rels = Put(g.rels, i, e)]
  OBVIOUS
<1>. QED  BY <1>2, <1>3, ObserveSound, Zenon

LEMMA ApplyRelationSound ==
    ASSUME NEW g, Sound(g), NEW r
    PROVE  Sound(ApplyRelation(g, r))
<1>. DEFINE one == Observe([g EXCEPT !.rels = Put(@, r.id, Edge(r))], "relation", r.id)
            inv == one.next["relation"]
            back == [Edge(r) EXCEPT !.src = r.tgt, !.tgt = r.src]
            two == Observe([one EXCEPT !.rels = Put(@, inv, back)], "relation", inv)
<1>1. ApplyRelation(g, r) = IF g.schema.relTypes[r.type].symmetric /\ r.src # r.tgt THEN two ELSE one
  BY Zenon DEF ApplyRelation
<1>2. Sound(one)
  BY PutRelSound, Zenon
<1>. HIDE DEF one
<1>3. Sound(two)
  <2>. HIDE DEF back, inv
  <2>. QED  BY <1>2, PutRelSound, Zenon DEF two
<1>. QED  BY <1>1, <1>2, <1>3, Zenon

LEMMA AddRelationSound ==
    ASSUME NEW g, Sound(g), NEW r
    PROVE  AddRelation(g, r) = Refused \/ Sound(AddRelation(g, r))
<1>. DEFINE p == PrepareRelation(g, r)
<1>1. AddRelation(g, r) = IF RelationOk(g, r) THEN ApplyRelation(Observe(g, "relation", p.id), p) ELSE Refused
  BY Zenon DEF AddRelation
<1>. HIDE DEF p
<1>2. Sound(ApplyRelation(Observe(g, "relation", p.id), p))
  BY ObserveSound, ApplyRelationSound, Zenon
<1>. QED  BY <1>1, <1>2, Zenon

LEMMA InsertExactSound ==
    ASSUME NEW g, Sound(g), NEW r
    PROVE  InsertExact(g, r) = Refused \/ Sound(InsertExact(g, r))
BY PutRelSound, Zenon DEF InsertExact

LEMMA UpdateRelationSound ==
    ASSUME NEW g, Sound(g), NEW r
    PROVE  Sound(UpdateRelation(g, r))
<1>1. PICK touched : UpdateRelation(g, r)
        = [g EXCEPT !.rels = [i \in DOMAIN @ |-> IF i \in touched THEN [@[i] EXCEPT !.w = r.w] ELSE @[i]]]
  BY Zenon DEF UpdateRelation
<1>. DEFINE v == [i \in DOMAIN g.rels |-> IF i \in touched THEN [g.rels[i] EXCEPT !.w = r.w] ELSE g.rels[i]]
<1>2. UpdateRelation(g, r) = [g EXCEPT !.rels = v]
  BY <1>1, Zenon
<1>3. DOMAIN v = DOMAIN g.rels
  OBVIOUS
<1>. HIDE DEF v
<1>4. Sound([g EXCEPT !.rels = v])
  BY <1>3, RelsChange DEF Sound, Shaped
<1>. QED  BY <1>2, <1>4, Zenon

LEMMA RefSound ==
    ASSUME NEW g, Sound(g), NEW ref
    PROVE  /\ Sound(ApplyRef(g, ref))
           /\ UpsertRef(g, ref) = Refused \/ Sound(UpsertRef(g, ref))
           /\ Sound(RemoveRef(g, ref))
<1>1. ASSUME NEW x PROVE Sound(ApplyRef(g, x))
  <2>1. x.family \in Families => IsFiniteSet(DOMAIN Put(g.refs[x.family], x.id, x.ends))
    <3>1. DOMAIN Put(g.refs[x.family], x.id, x.ends) = DOMAIN g.refs[x.family] \cup {x.id}
      BY DEF Put
    <3>. QED  BY <3>1, FS_AddElement DEF Sound, Shaped
  <2>2. Sound([g EXCEPT !.refs[x.family] = Put(g.refs[x.family], x.id, x.ends)])
    BY <2>1, RefsChange
  <2>3. [g EXCEPT !.refs[x.family] = Put(@, x.id, x.ends)]
        = [g EXCEPT !.refs[x.family] = Put(g.refs[x.family], x.id, x.ends)]
    BY DEF Sound, Shaped
  <2>. QED  BY <2>2, <2>3, ObserveSound DEF ApplyRef
<1>2. Sound(RemoveRef(g, ref))
  <2>1. ref.family \in Families => IsFiniteSet(DOMAIN Drop(g.refs[ref.family], {ref.id}))
    <3>1. DOMAIN Drop(g.refs[ref.family], {ref.id}) = DOMAIN g.refs[ref.family] \ {ref.id}
      BY DEF Drop, Restrict
    <3>2. ref.family \in Families => IsFiniteSet(DOMAIN g.refs[ref.family])
      BY DEF Sound, Shaped
    <3>3. ref.family \in Families => IsFiniteSet(DOMAIN g.refs[ref.family] \ {ref.id})
      BY <3>2, FS_Difference
    <3>. QED  BY <3>1, <3>3, Zenon
  <2>2. Sound([g EXCEPT !.refs[ref.family] = Drop(g.refs[ref.family], {ref.id})])
    BY <2>1, RefsChange
  <2>. QED  BY <2>2 DEF RemoveRef, Sound, Shaped
<1>. QED  BY <1>1, <1>2, Zenon DEF UpsertRef

(* No record of a replay breaks the name index; it is refused before it    *)
(* would.                                                                  *)
LEMMA ApplyRecordSound ==
    ASSUME NEW g, Sound(g), NEW r
    PROVE  ApplyRecord(g, r) = Refused \/ Sound(ApplyRecord(g, r))
<1>1. Sound([g EXCEPT !.schema = r.schema])
  BY SchemaChange, Zenon
<1>2. Sound([g EXCEPT !.rels = Drop(@, {r.id})])
  <2>1. DOMAIN Drop(g.rels, {r.id}) = DOMAIN g.rels \ {r.id}
    BY DEF Drop, Restrict
  <2>2. IsFiniteSet(DOMAIN g.rels \ {r.id})
    BY FS_Difference, FS_Singleton DEF Sound, Shaped
  <2>3. Sound([g EXCEPT !.rels = Drop(g.rels, {r.id})])
    BY <2>1, <2>2, RelsChange
  <2>4. [g EXCEPT !.rels = Drop(@, {r.id})] = [g EXCEPT !.rels = Drop(g.rels, {r.id})]
    OBVIOUS
  <2>. QED  BY <2>3, <2>4, Zenon
<1>. DEFINE OkOr(h) == h = Refused \/ Sound(h)
<1>3. /\ OkOr(IF SchemaOk(g, r.schema) THEN [g EXCEPT !.schema = r.schema] ELSE Refused)
      /\ OkOr(UpsertConcept(g, r))
      /\ OkOr(IF Has(g.concepts, r.id) THEN ApplyConcept(g, r) ELSE UpsertConcept(g, r))
      /\ OkOr(RemoveConcept(g, r.id))
      /\ OkOr(AddRelation(g, r))
      /\ OkOr(InsertExact(g, r))
      /\ OkOr(IF Has(g.rels, r.id) THEN UpdateRelation(g, r) ELSE AddRelation(g, r))
      /\ OkOr([g EXCEPT !.rels = Drop(@, {r.id})])
      /\ OkOr(UpsertRef(g, r))
      /\ OkOr(RemoveRef(g, r))
  BY <1>1, <1>2, UpsertConceptSound, ApplyConceptSound, RemoveConceptSound, AddRelationSound, InsertExactSound,
     UpdateRelationSound, RefSound, Zenon
<1>. HIDE DEF OkOr
<1>4. OkOr(ApplyRecord(g, r))
  BY <1>3 DEF ApplyRecord
<1>. QED  BY <1>4 DEF OkOr

(* Nor does the apply half of a record alone.                              *)
LEMMA ApplyPreparedSound ==
    ASSUME NEW g, Sound(g), NEW r
    PROVE  ApplyPrepared(g, r) = Refused \/ Sound(ApplyPrepared(g, r))
<1>. DEFINE OkOr(h) == h = Refused \/ Sound(h)
<1>1. OkOr(ApplyConcept(g, r)) /\ OkOr(ApplyRelation(g, r)) /\ OkOr(ApplyRef(g, r)) /\ OkOr(ApplyRecord(g, r))
  BY ApplyConceptSound, ApplyRelationSound, RefSound, ApplyRecordSound, Zenon
<1>. HIDE DEF OkOr
<1>2. OkOr(ApplyPrepared(g, r))
  BY <1>1 DEF ApplyPrepared
<1>. QED  BY <1>2 DEF OkOr

LEMMA EmptySound == Sound(EmptyGraph)
<1>1. Shaped(EmptyGraph)
  BY FS_EmptySet DEF Shaped, EmptyGraph, Families
<1>2. Keyed(EmptyGraph)
  BY DEF Keyed, EmptyGraph
<1>. QED  BY <1>1, <1>2 DEF Sound

-----------------------------------------------------------------------------
(* Folds.  FoldLeft is recursion over the sets of positions; what it goes  *)
(* through, position by position, exists for any length.                   *)
ReplayStep(g, r) == IF g = Refused THEN Refused ELSE ApplyRecord(g, r)
ApplyStep(g, r) == LET n == ApplyPrepared(g, r) IN IF n = Refused THEN g ELSE n
CascadeStep(recs, id) ==
    LET listed == {recs[i].id : i \in {j \in DOMAIN recs : recs[j].kind = "deleteRelation"}}
        rels   == Ascending(Incident(graph, id) \ listed)
    IN  recs \o <<DelConceptRec(id)>> \o [i \in DOMAIN rels |-> DelRelRec(rels[i])]

Follow(k, y, x) ==
    IF k = "replay" THEN ReplayStep(y, x) ELSE IF k = "apply" THEN ApplyStep(y, x) ELSE CascadeStep(y, x)

Folding(k, base, s, S, f) ==
    f = [u \in SUBSET S |-> IF u = {} THEN base ELSE Follow(k, f[u \ {Max(u)}], s[Max(u)])]

(* The recursion has a solution, for any number of positions.              *)
LEMMA FoldingExists ==
    ASSUME NEW k, NEW base, NEW s, NEW n \in Nat
    PROVE  \E f : Folding(k, base, s, 1 .. n, f)
<1>. DEFINE T == {m \in Nat : \E f : Folding(k, base, s, 1 .. m, f)}
<1>1. 0 \in T
  <2>1. Folding(k, base, s, 1 .. 0, [u \in SUBSET (1 .. 0) |-> base])
    <3>1. \A u \in SUBSET (1 .. 0) : u = {}
      OBVIOUS
    <3>. QED  BY <3>1 DEF Folding
  <2>. QED  BY <2>1
<1>2. ASSUME NEW m \in T PROVE m + 1 \in T
  <2>1. PICK f : Folding(k, base, s, 1 .. m, f)
    OBVIOUS
  <2>. DEFINE g == [u \in SUBSET (1 .. m + 1) |-> IF m + 1 \in u THEN Follow(k, f[u \ {m + 1}], s[m + 1]) ELSE f[u]]
              h == [u \in SUBSET (1 .. m + 1) |-> IF u = {} THEN base ELSE Follow(k, g[u \ {Max(u)}], s[Max(u)])]
  <2>2. ASSUME NEW u \in SUBSET (1 .. m + 1) PROVE g[u] = h[u]
    <3>0. m \in Nat /\ u \ {m + 1} \in SUBSET (1 .. m)
      OBVIOUS
    <3>1. CASE m + 1 \in u
      <4>1. Max(u) = m + 1 /\ u # {} /\ u \ {m + 1} \in SUBSET (1 .. m + 1) /\ m + 1 \notin u \ {m + 1}
        BY <3>0, <3>1, TopOf
      <4>2. g[u \ {Max(u)}] = f[u \ {m + 1}]
        BY <4>1, Zenon
      <4>3. g[u] = Follow(k, f[u \ {m + 1}], s[m + 1])
        BY <3>1, Zenon
      <4>. QED  BY <4>1, <4>2, <4>3, Zenon
    <3>2. CASE m + 1 \notin u
      <4>1. u \in SUBSET (1 .. m) /\ u \ {Max(u)} \in SUBSET (1 .. m) /\ u \ {Max(u)} \in SUBSET (1 .. m + 1)
            /\ m + 1 \notin u \ {Max(u)}
        BY <3>0, <3>2
      <4>2. g[u \ {Max(u)}] = f[u \ {Max(u)}] /\ g[u] = f[u]
        BY <3>2, <4>1, Zenon
      <4>3. f[u] = IF u = {} THEN base ELSE Follow(k, f[u \ {Max(u)}], s[Max(u)])
        BY <2>1, <4>1, Zenon DEF Folding
      <4>. QED  BY <4>2, <4>3, Zenon
    <3>. QED  BY <3>1, <3>2
  <2>3. DOMAIN g = DOMAIN h /\ g = [u \in DOMAIN g |-> g[u]] /\ h = [u \in DOMAIN h |-> h[u]]
    BY Zenon
  <2>4. \A u \in DOMAIN g : g[u] = h[u]
    BY <2>2, Zenon
  <2>5. g = h
    <3>. HIDE DEF g, h
    <3>. QED  BY <2>3, <2>4
  <2>6. Folding(k, base, s, 1 .. m + 1, g)
    BY <2>5, Zenon DEF Folding
  <2>. QED  BY <2>6
<1>3. T = Nat
  <2>. HIDE DEF T
  <2>1. T \in SUBSET Nat
    BY DEF T
  <2>. QED  BY <1>1, <1>2, <2>1, NatInduct
<1>. QED  BY <1>3

(* What a fold of n elements goes through.                                 *)
Passes(k, base, s, n, f) ==
    f[0] = base /\ \A i \in 1 .. n : f[i] = Follow(k, f[i - 1], s[i])

LEMMA FoldingPasses ==
    ASSUME NEW k, NEW base, NEW s, NEW n \in Nat, NEW h, Folding(k, base, s, 1 .. n, h)
    PROVE  \E f : Passes(k, base, s, n, f) /\ f[n] = h[1 .. n]
<1>. DEFINE f == [i \in 0 .. n |-> h[1 .. i]]
<1>1. ASSUME NEW i \in 1 .. n PROVE f[i] = Follow(k, f[i - 1], s[i])
  <2>1. 1 .. i \in SUBSET (1 .. n) /\ 1 .. i # {} /\ Max(1 .. i) = i /\ (1 .. i) \ {i} = 1 .. (i - 1)
        /\ i \in 0 .. n /\ i - 1 \in 0 .. n
    BY UpToIsPrefix, Zenon
  <2>2. h[1 .. i] = Follow(k, h[1 .. (i - 1)], s[i])
    BY <2>1, Zenon DEF Folding
  <2>. QED  BY <2>1, <2>2, Zenon
<1>2. f[0] = base
  <2>1. {} \in SUBSET (1 .. n) /\ 1 .. 0 = {} /\ 0 \in 0 .. n
    OBVIOUS
  <2>2. h[{}] = base
    BY <2>1, Zenon DEF Folding
  <2>. QED  BY <2>1, <2>2, Zenon
<1>3. f[n] = h[1 .. n]
  OBVIOUS
<1>. HIDE DEF f
<1>. QED  BY <1>1, <1>2, <1>3, Zenon DEF Passes

ReplayFold(j, f) == f = [u \in SUBSET DOMAIN j |-> IF u = {} THEN EmptyGraph ELSE ReplayStep(f[u \ {Max(u)}], j[Max(u)])]
ApplyFold(g, s, f) == f = [u \in SUBSET DOMAIN s |-> IF u = {} THEN g ELSE ApplyStep(f[u \ {Max(u)}], s[Max(u)])]
CascadeFold(s, f) == f = [u \in SUBSET DOMAIN s |-> IF u = {} THEN << >> ELSE CascadeStep(f[u \ {Max(u)}], s[Max(u)])]

LEMMA ReplayIs == ASSUME NEW j PROVE Replay(j) = (CHOOSE f : ReplayFold(j, f))[DOMAIN j]
BY Zenon DEF Replay, FoldLeft, MapThenFoldSet, ReplayFold, ReplayStep

LEMMA ApplyIs == ASSUME NEW g, NEW s PROVE ApplyAll(g, s) = (CHOOSE f : ApplyFold(g, s, f))[DOMAIN s]
BY Zenon DEF ApplyAll, FoldLeft, MapThenFoldSet, ApplyFold, ApplyStep

LEMMA CascadeIs ==
    ASSUME NEW ids
    PROVE  Cascade(ids) = (CHOOSE f : CascadeFold(Ascending(ids), f))[DOMAIN Ascending(ids)]
BY Zenon DEF Cascade, FoldLeft, MapThenFoldSet, CascadeFold, CascadeStep

LEMMA FoldsAgree ==
    ASSUME NEW s, NEW n \in Nat, DOMAIN s = 1 .. n, NEW f, NEW g
    PROVE  /\ ReplayFold(s, f) <=> Folding("replay", EmptyGraph, s, 1 .. n, f)
           /\ ApplyFold(g, s, f) <=> Folding("apply", g, s, 1 .. n, f)
           /\ CascadeFold(s, f) <=> Folding("cascade", << >>, s, 1 .. n, f)
<1>1. \A y, x : /\ Follow("replay", y, x) = ReplayStep(y, x)
                /\ Follow("apply", y, x) = ApplyStep(y, x)
                /\ Follow("cascade", y, x) = CascadeStep(y, x)
  BY DEF Follow
<1>. QED  BY <1>1 DEF ReplayFold, ApplyFold, CascadeFold, Folding

LEMMA ReplayPasses ==
    ASSUME NEW j, NEW n \in Nat, DOMAIN j = 1 .. n
    PROVE  \E f : /\ f[0] = EmptyGraph /\ Replay(j) = f[n]
                  /\ \A i \in 1 .. n : f[i] = ReplayStep(f[i - 1], j[i])
<1>. DEFINE h == CHOOSE f : ReplayFold(j, f)
<1>1. Folding("replay", EmptyGraph, j, 1 .. n, h)
  <2>1. \E f : ReplayFold(j, f)
    BY FoldingExists, FoldsAgree, Zenon
  <2>2. ReplayFold(j, h)
    BY <2>1, Zenon
  <2>. QED  BY <2>2, FoldsAgree, Zenon
<1>2. Replay(j) = h[1 .. n]
  BY ReplayIs, Zenon
<1>. HIDE DEF h
<1>3. PICK f : Passes("replay", EmptyGraph, j, n, f) /\ f[n] = h[1 .. n]
  BY <1>1, FoldingPasses
<1>4. \A y, x : Follow("replay", y, x) = ReplayStep(y, x)
  BY DEF Follow
<1>. QED  BY <1>2, <1>3, <1>4 DEF Passes

(* The graphs between the records of a batch.                              *)
Applies(g, s, n, f) ==
    /\ f[0] = g /\ ApplyAll(g, s) = f[n]
    /\ \A i \in 1 .. n : f[i] = ApplyStep(f[i - 1], s[i])

LEMMA ApplyPasses ==
    ASSUME NEW g, NEW s, NEW n \in Nat, DOMAIN s = 1 .. n
    PROVE  \E f : Applies(g, s, n, f)
<1>. DEFINE h == CHOOSE f : ApplyFold(g, s, f)
<1>1. Folding("apply", g, s, 1 .. n, h)
  <2>1. \E f : ApplyFold(g, s, f)
    BY FoldingExists, FoldsAgree, Zenon
  <2>2. ApplyFold(g, s, h)
    BY <2>1, Zenon
  <2>. QED  BY <2>2, FoldsAgree, Zenon
<1>2. ApplyAll(g, s) = h[1 .. n]
  BY ApplyIs, Zenon
<1>. HIDE DEF h
<1>3. PICK f : Passes("apply", g, s, n, f) /\ f[n] = h[1 .. n]
  BY <1>1, FoldingPasses
<1>4. \A y, x : Follow("apply", y, x) = ApplyStep(y, x)
  BY DEF Follow
<1>. QED  BY <1>2, <1>3, <1>4 DEF Passes, Applies

LEMMA CascadePasses ==
    ASSUME NEW ids, IsFiniteSet(ids)
    PROVE  \E n, f : /\ n \in Nat /\ n = Cardinality(ids) /\ f[0] = << >> /\ Cascade(ids) = f[n]
                             /\ \A i \in 1 .. n : f[i] = CascadeStep(f[i - 1], Ascending(ids)[i])
<1>. DEFINE s == Ascending(ids)
            n == Cardinality(ids)
            h == CHOOSE f : CascadeFold(s, f)
<1>0. n \in Nat /\ DOMAIN s = 1 .. n
  BY FS_CardinalityType DEF Ascending
<1>1. Cascade(ids) = h[DOMAIN s]
  BY CascadeIs, Zenon
<1>. HIDE DEF s, n
<1>2. Folding("cascade", << >>, s, 1 .. n, h)
  <2>1. \E f : CascadeFold(s, f)
    BY <1>0, FoldingExists, FoldsAgree, Zenon
  <2>2. CascadeFold(s, h)
    BY <2>1, Zenon
  <2>. QED  BY <1>0, <2>2, FoldsAgree, Zenon
<1>3. Cascade(ids) = h[1 .. n]
  BY <1>0, <1>1, Zenon
<1>. HIDE DEF h
<1>4. PICK f : Passes("cascade", << >>, s, n, f) /\ f[n] = h[1 .. n]
  BY <1>0, <1>2, FoldingPasses
<1>5. \A y, x : Follow("cascade", y, x) = CascadeStep(y, x)
  BY DEF Follow
<1>6. /\ n = Cardinality(ids) /\ f[0] = << >> /\ Cascade(ids) = f[n]
      /\ \A i \in 1 .. n : f[i] = CascadeStep(f[i - 1], s[i])
  BY <1>3, <1>4, <1>5, Zenon DEF Passes, n
<1>. QED  BY <1>0, <1>6, Zenon DEF s

-----------------------------------------------------------------------------
(* Sequences of whatever.                                                  *)
IsList(s) == \E R : s \in Seq(R)

LEMMA ListLen ==
    ASSUME NEW s, IsList(s)
    PROVE  Len(s) \in Nat /\ DOMAIN s = 1 .. Len(s)
BY DEF IsList

LEMMA ListJoin ==
    ASSUME NEW s, NEW t, IsList(s), IsList(t)
    PROVE  IsList(s \o t)
<1>1. PICK R, Q : s \in Seq(R) /\ t \in Seq(Q)
  BY DEF IsList
<1>2. s \in Seq(R \cup Q) /\ t \in Seq(R \cup Q)
  BY <1>1
<1>3. s \o t \in Seq(R \cup Q)
  BY <1>2
<1>. QED  BY <1>3 DEF IsList

LEMMA ListAppend ==
    ASSUME NEW s, NEW x, IsList(s)
    PROVE  IsList(Append(s, x))
<1>1. PICK R : s \in Seq(R)
  BY DEF IsList
<1>2. s \in Seq(R \cup {x})
  BY <1>1
<1>3. Append(s, x) \in Seq(R \cup {x})
  BY <1>2
<1>. QED  BY <1>3 DEF IsList

LEMMA ListOne == /\ IsList(<< >>) /\ \A x : IsList(<<x>>)
<1>1. << >> \in Seq({})
  OBVIOUS
<1>2. \A x : <<x>> \in Seq({x})
  OBVIOUS
<1>. QED  BY <1>1, <1>2 DEF IsList

LEMMA ListFun ==
    ASSUME NEW n \in Nat, NEW s, s = [i \in 1 .. n |-> s[i]]
    PROVE  IsList(s)
<1>1. s \in Seq({s[i] : i \in 1 .. n})
  OBVIOUS
<1>. QED  BY <1>1 DEF IsList

LEMMA ListSub ==
    ASSUME NEW s, IsList(s), NEW n \in 0 .. Len(s)
    PROVE  IsList(SubSeq(s, 1, n))
<1>1. PICK R : s \in Seq(R)
  BY DEF IsList
<1>2. SubSeq(s, 1, n) \in Seq(R)
  BY <1>1
<1>. QED  BY <1>2 DEF IsList

(* The replay of a journal, and an applied batch, leave a sound graph.     *)
LEMMA ReplaySound ==
    ASSUME NEW j, IsList(j)
    PROVE  Replay(j) = Refused \/ Sound(Replay(j))
<1>. DEFINE n == Len(j)
<1>1. n \in Nat /\ DOMAIN j = 1 .. n
  BY ListLen
<1>. HIDE DEF n
<1>2. PICK f : f[0] = EmptyGraph /\ Replay(j) = f[n] /\ \A i \in 1 .. n : f[i] = ReplayStep(f[i - 1], j[i])
  BY <1>1, ReplayPasses
<1>. DEFINE T == {i \in Nat : i <= n => f[i] = Refused \/ Sound(f[i])}
<1>3. 0 \in T
  BY <1>2, EmptySound
<1>4. ASSUME NEW i \in T PROVE i + 1 \in T
  <2>. SUFFICES ASSUME i + 1 <= n PROVE f[i + 1] = Refused \/ Sound(f[i + 1])
    OBVIOUS
  <2>1. i <= n /\ i + 1 \in 1 .. n /\ (i + 1) - 1 = i
    BY <1>1
  <2>2. f[i] = Refused \/ Sound(f[i])
    BY <2>1
  <2>3. f[i + 1] = ReplayStep(f[i], j[i + 1])
    BY <1>2, <2>1
  <2>. QED  BY <2>2, <2>3, ApplyRecordSound, Zenon DEF ReplayStep
<1>5. n \in T
  <2>. HIDE DEF T
  <2>1. T \in SUBSET Nat
    BY DEF T
  <2>. QED  BY <1>1, <1>3, <1>4, <2>1, NatInduct
<1>. QED  BY <1>1, <1>2, <1>5

LEMMA ApplyAllSound ==
    ASSUME NEW g, Sound(g), NEW s, IsList(s)
    PROVE  Sound(ApplyAll(g, s))
<1>. SUFFICES ASSUME NEW n \in Nat, DOMAIN s = 1 .. n PROVE Sound(ApplyAll(g, s))
  BY ListLen
<1>1. PICK f : Applies(g, s, n, f)
  BY ApplyPasses
<1>2. /\ f[0] = g /\ ApplyAll(g, s) = f[n]
      /\ \A i \in 1 .. n : f[i] = ApplyStep(f[i - 1], s[i])
  BY <1>1 DEF Applies
<1>. DEFINE T == {i \in Nat : i <= n => Sound(f[i])}
<1>3. 0 \in T
  BY <1>2
<1>4. ASSUME NEW i \in T PROVE i + 1 \in T
  <2>. SUFFICES ASSUME i + 1 <= n PROVE Sound(f[i + 1])
    OBVIOUS
  <2>1. i <= n /\ i + 1 \in 1 .. n /\ (i + 1) - 1 = i
    OBVIOUS
  <2>2. Sound(f[i])
    BY <2>1
  <2>3. f[i + 1] = ApplyStep(f[i], s[i + 1])
    BY <1>2, <2>1
  <2>. QED  BY <2>2, <2>3, ApplyPreparedSound, Zenon DEF ApplyStep
<1>5. n \in T
  <2>. HIDE DEF T
  <2>1. T \in SUBSET Nat
    BY DEF T
  <2>. QED  BY <1>3, <1>4, <2>1, NatInduct
<1>. QED  BY <1>2, <1>5

-----------------------------------------------------------------------------
(* What is live was journaled.                                             *)

TellsConcept(s, id, name) ==
    \E i \in DOMAIN s : s[i].kind \in {"concept", "updateConcept"} /\ s[i].id = id /\ s[i].name = name
TellsRef(s, f, id, ends) ==
    \E i \in DOMAIN s : s[i].kind = "ref" /\ s[i].family = f /\ s[i].id = id /\ s[i].ends = ends

Recorded(g, s) ==
    /\ \A id \in DOMAIN g.concepts : TellsConcept(s, id, g.concepts[id].name)
    /\ \A f \in Families : \A id \in DOMAIN g.refs[f] : TellsRef(s, f, id, g.refs[f][id])

(* Ids are positive: 0 asks for a new one.                                 *)
Counted == Families \cup {"concept"}
Ids     == Nat \ {0}

Tidy(g) ==
    /\ \A f \in Counted : f \in DOMAIN g.next /\ g.next[f] \in Ids
    /\ DOMAIN g.concepts \subseteq Ids
    /\ \A f \in Families : DOMAIN g.refs[f] \subseteq Ids

Issued(r) ==
    /\ r.kind = "concept" => r = ConceptRec(r) /\ r.id \in Ids
    /\ r.kind = "updateConcept" => r = UpdConceptRec(r) /\ r.id \in Ids
    /\ r.kind = "ref" => r = RefRec(r) /\ (r.family \in Counted => r.id \in Ids)
AllIssued(s) == \A i \in DOMAIN s : Issued(s[i])

(* What is live in h was live in g, or is what the record r says.          *)
Follows(g, r, h) ==
    /\ \A id \in DOMAIN h.concepts :
          \/ id \in DOMAIN g.concepts /\ h.concepts[id].name = g.concepts[id].name
          \/ r.kind \in {"concept", "updateConcept"} /\ r.id = id /\ r.name = h.concepts[id].name
    /\ \A f \in Families : \A id \in DOMAIN h.refs[f] :
          \/ id \in DOMAIN g.refs[f] /\ h.refs[f][id] = g.refs[f][id]
          \/ r.kind = "ref" /\ r.family = f /\ r.id = id /\ r.ends = h.refs[f][id]

Told(g, r, h) == Tidy(h) /\ Follows(g, r, h)

LEMMA SameTold ==
    ASSUME NEW g, Tidy(g), NEW h, h.concepts = g.concepts, h.refs = g.refs, h.next = g.next, NEW r
    PROVE  Told(g, r, h)
BY DEF Tidy, Told, Follows

(* An observed id keeps the counters positive.                             *)
LEMMA ObserveTidy ==
    ASSUME NEW g, Sound(g), Tidy(g), NEW fam, NEW id, fam \in Counted => id \in Nat
    PROVE  /\ Tidy(Observe(g, fam, id))
           /\ Observe(g, fam, id).concepts = g.concepts /\ Observe(g, fam, id).refs = g.refs
<1>. DEFINE h == Observe(g, fam, id)
<1>1. h.concepts = g.concepts /\ h.refs = g.refs /\ h.names = g.names
      /\ h.next = [g.next EXCEPT ![fam] = Max({g.next[fam], id + 1})]
  BY DEF Observe, Sound, Shaped
<1>2. ASSUME fam \in Counted PROVE Max({g.next[fam], id + 1}) \in Ids
  <2>1. g.next[fam] \in Nat /\ g.next[fam] # 0 /\ id + 1 \in Nat /\ id + 1 # 0
    BY <1>2 DEF Tidy, Ids
  <2>2. Max({g.next[fam], id + 1}) \in {g.next[fam], id + 1}
    BY <2>1, MaxOfTwo
  <2>. QED  BY <2>1, <2>2 DEF Ids
<1>3. \A f \in Counted : f \in DOMAIN h.next /\ h.next[f] \in Ids
  BY <1>1, <1>2 DEF Tidy
<1>. HIDE DEF h
<1>4. Tidy(h)
  BY <1>1, <1>3 DEF Tidy
<1>. QED  BY <1>1, <1>4, Zenon DEF h

LEMMA ObserveTold ==
    ASSUME NEW g, Sound(g), Tidy(g), NEW fam, NEW id, fam \in Counted => id \in Nat, NEW r
    PROVE  Told(g, r, Observe(g, fam, id))
<1>. DEFINE h == Observe(g, fam, id)
<1>1. Tidy(h) /\ h.concepts = g.concepts /\ h.refs = g.refs
  BY ObserveTidy, Zenon
<1>. HIDE DEF h
<1>2. Told(g, r, h)
  BY <1>1 DEF Told, Follows
<1>. QED  BY <1>2 DEF h

LEMMA ApplyConceptTold ==
    ASSUME NEW g, Sound(g), Tidy(g), NEW r, r.kind \in {"concept", "updateConcept"}, r.id \in Ids,
           ApplyConcept(g, r) # Refused
    PROVE  Told(g, r, ApplyConcept(g, r))
<1>. DEFINE new == [type |-> r.type, name |-> r.name]
            h == [g EXCEPT !.names = NewName(g, r), !.concepts = Put(@, r.id, new)]
            k == Observe(h, "concept", r.id)
<1>1. ApplyConcept(g, r) = k
  BY Zenon DEF ApplyConcept
<1>2. h.concepts = Put(g.concepts, r.id, new)
  BY DEF Sound, Shaped
<1>3. h.refs = g.refs /\ h.next = g.next /\ DOMAIN h = DOMAIN g
  BY DEF Sound, Shaped
<1>4. new.name = r.name
  OBVIOUS
<1>. HIDE DEF h, new
<1>5. k.concepts = h.concepts /\ k.refs = h.refs /\ k.next = [h.next EXCEPT !["concept"] = Max({@, r.id + 1})]
  BY <1>3 DEF Observe, Sound, Shaped
<1>. HIDE DEF k
<1>6. DOMAIN k.concepts = DOMAIN g.concepts \cup {r.id} /\ k.concepts[r.id] = new
      /\ \A i \in DOMAIN g.concepts \ {r.id} : k.concepts[i] = g.concepts[i]
  BY <1>2, <1>5 DEF Put
<1>7. Follows(g, r, k)
  BY <1>3, <1>4, <1>5, <1>6 DEF Follows
<1>8. Max({g.next["concept"], r.id + 1}) \in Ids
  <2>1. g.next["concept"] \in Nat /\ g.next["concept"] # 0 /\ r.id + 1 \in Nat /\ r.id + 1 # 0
    BY DEF Tidy, Ids, Counted
  <2>2. Max({g.next["concept"], r.id + 1}) \in {g.next["concept"], r.id + 1}
    BY <2>1, MaxOfTwo
  <2>. QED  BY <2>1, <2>2 DEF Ids
<1>9. k.next = [g.next EXCEPT !["concept"] = Max({g.next["concept"], r.id + 1})]
  BY <1>3, <1>5
<1>10. \A f \in Counted : f \in DOMAIN k.next /\ k.next[f] \in Ids
  BY <1>8, <1>9 DEF Tidy
<1>11. Tidy(k)
  BY <1>3, <1>5, <1>6, <1>10 DEF Tidy
<1>. QED  BY <1>1, <1>7, <1>11, Zenon DEF Told

LEMMA UpsertConceptTold ==
    ASSUME NEW g, Sound(g), Tidy(g), NEW r, r.kind \in {"concept", "updateConcept"}, Issued(r),
           UpsertConcept(g, r) # Refused
    PROVE  Told(g, r, UpsertConcept(g, r))
<1>. DEFINE c == [r EXCEPT !.id = IdFor(g, "concept", @)]
            a == Observe(g, "concept", r.id)
<1>1. r.id # 0 /\ r.id \in Nat /\ r.id \in Ids
  BY DEF Ids, Issued
<1>a. r = [kind |-> r.kind, id |-> r.id, type |-> r.type, name |-> r.name]
  BY DEF Issued, ConceptRec, UpdConceptRec
<1>b. c = [r EXCEPT !.id = r.id]
  BY <1>1 DEF IdFor
<1>2. Allocate(g, "concept", r.id) = a /\ c = r
  BY <1>1, <1>a, <1>b DEF Allocate
<1>3. UpsertConcept(g, r) = ApplyConcept(a, c)
  BY <1>2, Zenon DEF UpsertConcept
<1>4. Tidy(a) /\ a.concepts = g.concepts /\ a.refs = g.refs
  BY <1>1, ObserveTidy, Zenon
<1>5. Sound(a)
  BY ObserveSound, Zenon
<1>. HIDE DEF a, c
<1>c. ApplyConcept(a, r) # Refused
  BY <1>2, <1>3
<1>6. Told(a, r, ApplyConcept(a, r))
  BY <1>1, <1>c, <1>4, <1>5, ApplyConceptTold
<1>. QED  BY <1>2, <1>3, <1>4, <1>6, Zenon DEF Told, Follows

(* What takes concepts, rules or actions away adds none.                   *)
LEMMA LessTold ==
    ASSUME NEW g, Tidy(g), NEW h, h.next = g.next,
           DOMAIN h.concepts \subseteq DOMAIN g.concepts, \A i \in DOMAIN h.concepts : h.concepts[i] = g.concepts[i],
           \A f \in Families : DOMAIN h.refs[f] \subseteq DOMAIN g.refs[f],
           \A f \in Families : \A i \in DOMAIN h.refs[f] : h.refs[f][i] = g.refs[f][i],
           NEW r
    PROVE  Told(g, r, h)
<1>1. Tidy(h)
  BY DEF Tidy
<1>2. Follows(g, r, h)
  BY DEF Follows
<1>. QED  BY <1>1, <1>2 DEF Told

LEMMA RemoveConceptTold == ASSUME NEW g, Sound(g), Tidy(g), NEW id, NEW r PROVE Told(g, r, RemoveConcept(g, id))
<1>. DEFINE h == RemoveConcept(g, id)
<1>1. CASE id \notin DOMAIN g.concepts
  BY <1>1, SameTold, Zenon DEF RemoveConcept, Has
<1>2. CASE id \in DOMAIN g.concepts
  <2>1. h.concepts = Drop(g.concepts, {id})
    BY <1>2 DEF RemoveConcept, Has, Sound, Shaped
  <2>2. h.refs = g.refs /\ h.next = g.next
    BY <1>2 DEF RemoveConcept, Has, Sound, Shaped
  <2>. HIDE DEF h
  <2>3. DOMAIN h.concepts = DOMAIN g.concepts \ {id} /\ \A i \in DOMAIN h.concepts : h.concepts[i] = g.concepts[i]
    BY <2>1 DEF Drop, Restrict
  <2>4. Told(g, r, h)
    BY <2>2, <2>3, LessTold
  <2>. QED  BY <2>4 DEF h
<1>. QED  BY <1>1, <1>2

(* The steps about relations and schemas leave the entities alone.         *)
LEMMA RelsTold == ASSUME NEW g, Sound(g), Tidy(g), NEW v, NEW r PROVE Told(g, r, [g EXCEPT !.rels = v])
<1>. DEFINE h == [g EXCEPT !.rels = v]
<1>1. h.concepts = g.concepts /\ h.refs = g.refs /\ h.next = g.next
  BY DEF Sound, Shaped
<1>. HIDE DEF h
<1>2. Told(g, r, h)
  BY <1>1, SameTold, Zenon
<1>. QED  BY <1>2 DEF h

LEMMA SchemaTold == ASSUME NEW g, Sound(g), Tidy(g), NEW v, NEW r PROVE Told(g, r, [g EXCEPT !.schema = v])
<1>. DEFINE h == [g EXCEPT !.schema = v]
<1>1. h.concepts = g.concepts /\ h.refs = g.refs /\ h.next = g.next
  BY DEF Sound, Shaped
<1>. HIDE DEF h
<1>2. Told(g, r, h)
  BY <1>1, SameTold, Zenon
<1>. QED  BY <1>2 DEF h

LEMMA ToldTrans ==
    ASSUME NEW g, NEW r, NEW h, Told(g, r, h), NEW k, Told(h, r, k)
    PROVE  Told(g, r, k)
BY DEF Told, Follows

LEMMA NotCounted == "relation" \notin Counted
BY DEF Counted, Families

LEMMA PutRelTold ==
    ASSUME NEW g, Sound(g), Tidy(g), NEW i, NEW e, NEW id, NEW r
    PROVE  Told(g, r, Observe([g EXCEPT !.rels = Put(@, i, e)], "relation", id))
<1>. DEFINE h == [g EXCEPT !.rels = Put(g.rels, i, e)]
<1>1. Told(g, r, h)
  BY RelsTold, Zenon
<1>2. [g EXCEPT !.rels = Put(@, i, e)] = h
  OBVIOUS
<1>3. Sound(h)
  <2>1. DOMAIN Put(g.rels, i, e) = DOMAIN g.rels \cup {i}
    BY DEF Put
  <2>2. IsFiniteSet(DOMAIN Put(g.rels, i, e))
    BY <2>1, FS_AddElement DEF Sound, Shaped
  <2>. QED  BY <2>2, RelsChange
<1>. HIDE DEF h
<1>4. Tidy(h)
  BY <1>1, Zenon DEF Told
<1>5. Told(h, r, Observe(h, "relation", id))
  BY <1>3, <1>4, NotCounted, ObserveTold
<1>6. Told(g, r, Observe(h, "relation", id))
  BY <1>1, <1>5, ToldTrans
<1>. QED  BY <1>2, <1>6, Zenon

LEMMA ApplyRelationTold == ASSUME NEW g, Sound(g), Tidy(g), NEW x, NEW r PROVE Told(g, r, ApplyRelation(g, x))
<1>. DEFINE one == Observe([g EXCEPT !.rels = Put(@, x.id, Edge(x))], "relation", x.id)
            inv == one.next["relation"]
            back == [Edge(x) EXCEPT !.src = x.tgt, !.tgt = x.src]
            two == Observe([one EXCEPT !.rels = Put(@, inv, back)], "relation", inv)
<1>1. ApplyRelation(g, x) = IF g.schema.relTypes[x.type].symmetric /\ x.src # x.tgt THEN two ELSE one
  BY Zenon DEF ApplyRelation
<1>2. Told(g, r, one) /\ Sound(one)
  BY PutRelTold, PutRelSound, Zenon
<1>. HIDE DEF one
<1>3. Told(one, r, two)
  <2>. HIDE DEF back, inv
  <2>1. Tidy(one)
    BY <1>2, Zenon DEF Told
  <2>. QED  BY <1>2, <2>1, PutRelTold, Zenon DEF two
<1>. HIDE DEF two
<1>4. Told(g, r, two)
  BY <1>2, <1>3, ToldTrans
<1>. QED  BY <1>1, <1>2, <1>4, Zenon

LEMMA AddRelationTold ==
    ASSUME NEW g, Sound(g), Tidy(g), NEW x, NEW r, AddRelation(g, x) # Refused
    PROVE  Told(g, r, AddRelation(g, x))
<1>. DEFINE p == PrepareRelation(g, x)
            h == Observe(g, "relation", p.id)
<1>1. AddRelation(g, x) = ApplyRelation(h, p)
  BY Zenon DEF AddRelation
<1>. HIDE DEF p
<1>2. Told(g, r, h) /\ Sound(h)
  BY NotCounted, ObserveTold, ObserveSound
<1>. HIDE DEF h
<1>3. Told(h, r, ApplyRelation(h, p))
  BY <1>2, ApplyRelationTold DEF Told
<1>4. Told(g, r, ApplyRelation(h, p))
  BY <1>2, <1>3, ToldTrans
<1>. QED  BY <1>1, <1>4, Zenon

LEMMA InsertExactTold ==
    ASSUME NEW g, Sound(g), Tidy(g), NEW x, NEW r, InsertExact(g, x) # Refused
    PROVE  Told(g, r, InsertExact(g, x))
BY PutRelTold, Zenon DEF InsertExact

LEMMA UpdateRelationTold == ASSUME NEW g, Sound(g), Tidy(g), NEW x, NEW r PROVE Told(g, r, UpdateRelation(g, x))
<1>1. PICK touched : UpdateRelation(g, x)
        = [g EXCEPT !.rels = [i \in DOMAIN @ |-> IF i \in touched THEN [@[i] EXCEPT !.w = x.w] ELSE @[i]]]
  BY Zenon DEF UpdateRelation
<1>. DEFINE v == [i \in DOMAIN g.rels |-> IF i \in touched THEN [g.rels[i] EXCEPT !.w = x.w] ELSE g.rels[i]]
<1>2. UpdateRelation(g, x) = [g EXCEPT !.rels = v]
  BY <1>1, Zenon
<1>. HIDE DEF v
<1>3. Told(g, r, [g EXCEPT !.rels = v])
  BY RelsTold
<1>. QED  BY <1>2, <1>3, Zenon

LEMMA ApplyRefTold ==
    ASSUME NEW g, Sound(g), Tidy(g), NEW r, r.kind = "ref", NEW x, x.family = r.family, x.ends = r.ends,
           x.family \in Counted => x.id = r.id /\ r.id \in Ids
    PROVE  Told(g, r, ApplyRef(g, x))
<1>. DEFINE fam == x.family
            h == [g EXCEPT !.refs[fam] = Put(@, x.id, x.ends)]
            k == Observe(h, fam, x.id)
<1>1. ApplyRef(g, x) = k
  BY Zenon DEF ApplyRef
<1>2. h.concepts = g.concepts /\ h.next = g.next /\ DOMAIN h = DOMAIN g
      /\ h.refs = [g.refs EXCEPT ![fam] = Put(g.refs[fam], x.id, x.ends)]
  BY DEF Sound, Shaped
<1>. HIDE DEF h
<1>3. k.concepts = h.concepts /\ k.refs = h.refs /\ k.next = [h.next EXCEPT ![fam] = Max({h.next[fam], x.id + 1})]
  BY <1>2 DEF Observe, Sound, Shaped
<1>. HIDE DEF k
<1>4. ASSUME NEW f \in Families, f # fam PROVE k.refs[f] = g.refs[f]
  BY <1>2, <1>3, <1>4 DEF Sound, Shaped
<1>5. ASSUME fam \in Families
      PROVE  /\ DOMAIN k.refs[fam] = DOMAIN g.refs[fam] \cup {x.id} /\ k.refs[fam][x.id] = x.ends
             /\ \A i \in DOMAIN g.refs[fam] \ {x.id} : k.refs[fam][i] = g.refs[fam][i]
  <2>1. k.refs[fam] = Put(g.refs[fam], x.id, x.ends)
    BY <1>2, <1>3, <1>5 DEF Sound, Shaped
  <2>. QED  BY <2>1 DEF Put
<1>6. ASSUME fam \in Families PROVE x.id = r.id /\ r.id \in Ids
  BY <1>6 DEF Counted
<1>7. ASSUME NEW f \in Families
      PROVE  /\ DOMAIN k.refs[f] \subseteq Ids
             /\ \A id \in DOMAIN k.refs[f] :
                  \/ id \in DOMAIN g.refs[f] /\ k.refs[f][id] = g.refs[f][id]
                  \/ r.kind = "ref" /\ r.family = f /\ r.id = id /\ r.ends = k.refs[f][id]
  <2>1. CASE f # fam
    BY <1>4, <2>1 DEF Tidy
  <2>2. CASE f = fam
    BY <1>5, <1>6, <2>2 DEF Tidy
  <2>. QED  BY <2>1, <2>2
<1>8. Follows(g, r, k)
  BY <1>2, <1>3, <1>7 DEF Follows
<1>9. \A f \in Counted : f \in DOMAIN k.next /\ k.next[f] \in Ids
  <2>1. ASSUME fam \in Counted PROVE Max({g.next[fam], x.id + 1}) \in Ids
    <3>1. g.next[fam] \in Nat /\ g.next[fam] # 0 /\ x.id + 1 \in Nat /\ x.id + 1 # 0
      BY <2>1 DEF Tidy, Ids
    <3>2. Max({g.next[fam], x.id + 1}) \in {g.next[fam], x.id + 1}
      BY <3>1, MaxOfTwo
    <3>. QED  BY <3>1, <3>2 DEF Ids
  <2>2. k.next = [g.next EXCEPT ![fam] = Max({g.next[fam], x.id + 1})]
    BY <1>2, <1>3
  <2>. HIDE DEF fam
  <2>. QED  BY <2>1, <2>2 DEF Tidy
<1>10. Tidy(k)
  BY <1>2, <1>3, <1>7, <1>9 DEF Tidy
<1>. QED  BY <1>1, <1>8, <1>10, Zenon DEF Told

LEMMA UpsertRefTold ==
    ASSUME NEW g, Sound(g), Tidy(g), NEW r, r.kind = "ref", Issued(r), UpsertRef(g, r) # Refused
    PROVE  Told(g, r, UpsertRef(g, r))
<1>. DEFINE x == [r EXCEPT !.id = IdFor(g, r.family, @)]
<1>1. UpsertRef(g, r) = ApplyRef(g, x)
  BY Zenon DEF UpsertRef
<1>2. r = [kind |-> "ref", family |-> r.family, id |-> r.id, ends |-> r.ends]
      /\ (r.family \in Counted => r.id \in Ids)
  BY DEF Issued, RefRec
<1>3. x.family = r.family /\ x.ends = r.ends /\ x.id = IdFor(g, r.family, r.id)
  BY <1>2
<1>4. x.family \in Counted => x.id = r.id /\ r.id \in Ids
  BY <1>2, <1>3 DEF IdFor, Ids
<1>. HIDE DEF x
<1>. QED  BY <1>1, <1>3, <1>4, ApplyRefTold

LEMMA RemoveRefTold == ASSUME NEW g, Sound(g), Tidy(g), NEW x, NEW r PROVE Told(g, r, RemoveRef(g, x))
<1>. DEFINE fam == x.family
            h == RemoveRef(g, x)
<1>1. h.concepts = g.concepts /\ h.next = g.next /\ h.refs = [g.refs EXCEPT ![fam] = Drop(g.refs[fam], {x.id})]
  BY DEF RemoveRef, Sound, Shaped
<1>. HIDE DEF h
<1>2. ASSUME NEW f \in Families
      PROVE  DOMAIN h.refs[f] \subseteq DOMAIN g.refs[f] /\ \A i \in DOMAIN h.refs[f] : h.refs[f][i] = g.refs[f][i]
  <2>1. CASE f # fam
    BY <1>1, <2>1 DEF Sound, Shaped
  <2>2. CASE f = fam
    <3>1. h.refs[f] = Drop(g.refs[f], {x.id})
      BY <1>1, <2>2 DEF Sound, Shaped
    <3>. QED  BY <3>1 DEF Drop, Restrict
  <2>. QED  BY <2>1, <2>2
<1>3. Told(g, r, h)
  BY <1>1, <1>2, LessTold
<1>. QED  BY <1>3 DEF h

(* After a record, what is live was live before or is what it says.        *)
LEMMA ApplyRecordTold ==
    ASSUME NEW g, Sound(g), Tidy(g), NEW r, Issued(r), ApplyRecord(g, r) # Refused
    PROVE  Told(g, r, ApplyRecord(g, r))
<1>. DEFINE OkOr(h) == h = Refused \/ Told(g, r, h)
<1>1. r.kind \in {"concept", "updateConcept"} => r.id \in Ids
  BY DEF Issued
<1>2. /\ r.kind = "ontology" => OkOr(IF SchemaOk(g, r.schema) THEN [g EXCEPT !.schema = r.schema] ELSE Refused)
      /\ r.kind = "deleteConcept" => OkOr(RemoveConcept(g, r.id))
      /\ r.kind = "relation" => OkOr(AddRelation(g, r))
      /\ r.kind = "relationExact" => OkOr(InsertExact(g, r))
      /\ r.kind = "updateRelation" =>
            OkOr(IF Has(g.rels, r.id) THEN UpdateRelation(g, r) ELSE AddRelation(g, r))
      /\ OkOr(RemoveRef(g, r))
  BY SchemaTold, RemoveConceptTold, AddRelationTold, InsertExactTold, UpdateRelationTold, RemoveRefTold, Zenon
<1>3. OkOr([g EXCEPT !.rels = Drop(@, {r.id})])
  <2>1. Told(g, r, [g EXCEPT !.rels = Drop(g.rels, {r.id})])
    BY RelsTold
  <2>2. [g EXCEPT !.rels = Drop(g.rels, {r.id})] = [g EXCEPT !.rels = Drop(@, {r.id})]
    OBVIOUS
  <2>. QED  BY <2>1, <2>2, Zenon
<1>4. r.kind \in {"concept", "updateConcept"} => OkOr(UpsertConcept(g, r)) /\ OkOr(ApplyConcept(g, r))
  BY <1>1, UpsertConceptTold, ApplyConceptTold
<1>5. r.kind = "ref" => OkOr(UpsertRef(g, r))
  BY UpsertRefTold, Zenon
<1>. HIDE DEF OkOr
<1>6. OkOr(ApplyRecord(g, r))
  BY <1>2, <1>3, <1>4, <1>5 DEF ApplyRecord
<1>. QED  BY <1>6, Zenon DEF OkOr

LEMMA ApplyPreparedTold ==
    ASSUME NEW g, Sound(g), Tidy(g), NEW r, Issued(r), ApplyPrepared(g, r) # Refused
    PROVE  Told(g, r, ApplyPrepared(g, r))
<1>. DEFINE OkOr(h) == h = Refused \/ Told(g, r, h)
<1>1. r.kind = "concept" => OkOr(ApplyConcept(g, r))
  BY ApplyConceptTold DEF Issued
<1>2. r.kind = "relation" => OkOr(ApplyRelation(g, r))
  BY ApplyRelationTold, Zenon
<1>3. r.kind = "ref" => OkOr(ApplyRef(g, r))
  BY ApplyRefTold DEF Issued
<1>4. OkOr(ApplyRecord(g, r))
  BY ApplyRecordTold, Zenon
<1>. HIDE DEF OkOr
<1>5. OkOr(ApplyPrepared(g, r))
  BY <1>1, <1>2, <1>3, <1>4 DEF ApplyPrepared
<1>. QED  BY <1>5, Zenon DEF OkOr

LEMMA EmptyTidy == Tidy(EmptyGraph) /\ \A s : Recorded(EmptyGraph, s)
BY DEF Tidy, EmptyGraph, Recorded, Families, Counted, Ids

LEMMA OneTold ==
    ASSUME NEW g, NEW s, Recorded(g, s), NEW i \in DOMAIN s, NEW r, s[i] = r, NEW h, Told(g, r, h)
    PROVE  Recorded(h, s)
<1>1. ASSUME NEW id \in DOMAIN h.concepts PROVE TellsConcept(s, id, h.concepts[id].name)
  <2>1. CASE id \in DOMAIN g.concepts /\ h.concepts[id].name = g.concepts[id].name
    BY <2>1 DEF Recorded
  <2>2. CASE r.kind \in {"concept", "updateConcept"} /\ r.id = id /\ r.name = h.concepts[id].name
    BY <2>2 DEF TellsConcept
  <2>. QED  BY <2>1, <2>2 DEF Told, Follows
<1>2. ASSUME NEW f \in Families, NEW id \in DOMAIN h.refs[f] PROVE TellsRef(s, f, id, h.refs[f][id])
  <2>1. CASE id \in DOMAIN g.refs[f] /\ h.refs[f][id] = g.refs[f][id]
    BY <2>1 DEF Recorded
  <2>2. CASE r.kind = "ref" /\ r.family = f /\ r.id = id /\ r.ends = h.refs[f][id]
    BY <2>2 DEF TellsRef
  <2>. QED  BY <2>1, <2>2 DEF Told, Follows
<1>. QED  BY <1>1, <1>2 DEF Recorded

Sayable(g, j) == Sound(g) /\ Tidy(g) /\ Recorded(g, j)

(* The replay of a journal shows what the journal says.                    *)
LEMMA ReplayTells ==
    ASSUME NEW j, IsList(j), AllIssued(j), Replay(j) # Refused
    PROVE  Tidy(Replay(j)) /\ Recorded(Replay(j), j)
<1>. DEFINE n == Len(j)
<1>1. n \in Nat /\ DOMAIN j = 1 .. n
  BY ListLen
<1>. HIDE DEF n
<1>2. PICK f : f[0] = EmptyGraph /\ Replay(j) = f[n] /\ \A i \in 1 .. n : f[i] = ReplayStep(f[i - 1], j[i])
  BY <1>1, ReplayPasses
<1>. DEFINE T == {i \in Nat : i <= n => f[i] = Refused \/ Sayable(f[i], j)}
<1>3. 0 \in T
  BY <1>2, EmptySound, EmptyTidy DEF Sayable
<1>4. ASSUME NEW i \in T PROVE i + 1 \in T
  <2>. SUFFICES ASSUME i + 1 <= n
                PROVE  f[i + 1] = Refused \/ Sayable(f[i + 1], j)
    OBVIOUS
  <2>1. i <= n /\ i + 1 \in 1 .. n /\ (i + 1) - 1 = i
    BY <1>1
  <2>2. f[i] = Refused \/ Sayable(f[i], j)
    BY <2>1
  <2>3. f[i + 1] = ReplayStep(f[i], j[i + 1])
    BY <1>2, <2>1
  <2>. SUFFICES ASSUME f[i + 1] # Refused PROVE Sayable(f[i + 1], j)
    OBVIOUS
  <2>4. f[i] # Refused /\ f[i + 1] = ApplyRecord(f[i], j[i + 1])
    BY <2>3, Zenon DEF ReplayStep
  <2>5. Issued(j[i + 1])
    BY <1>1, <2>1 DEF AllIssued
  <2>6. Told(f[i], j[i + 1], f[i + 1])
    BY <2>2, <2>4, <2>5, ApplyRecordTold, Zenon DEF Sayable
  <2>7. Sound(f[i + 1])
    BY <2>2, <2>4, ApplyRecordSound, Zenon DEF Sayable
  <2>8. Recorded(f[i + 1], j)
    BY <1>1, <2>1, <2>2, <2>4, <2>6, OneTold, Zenon DEF Sayable
  <2>. QED  BY <2>6, <2>7, <2>8, Zenon DEF Told, Sayable
<1>5. n \in T
  <2>. HIDE DEF T
  <2>1. T \in SUBSET Nat
    BY DEF T
  <2>. QED  BY <1>1, <1>3, <1>4, <2>1, NatInduct
<1>. QED  BY <1>1, <1>2, <1>5 DEF Sayable

Within(s, j) == \A i \in DOMAIN s : \E k \in DOMAIN j : j[k] = s[i]

(* A batch that the journal holds makes nothing live that it does not say. *)
LEMMA ApplyAllTells ==
    ASSUME NEW g, Sound(g), Tidy(g), NEW j, Recorded(g, j), NEW s, IsList(s), AllIssued(s), Within(s, j)
    PROVE  Tidy(ApplyAll(g, s)) /\ Recorded(ApplyAll(g, s), j)
<1>. SUFFICES ASSUME NEW n \in Nat, DOMAIN s = 1 .. n
              PROVE  Tidy(ApplyAll(g, s)) /\ Recorded(ApplyAll(g, s), j)
  BY ListLen
<1>1. PICK f : Applies(g, s, n, f)
  BY ApplyPasses
<1>2. /\ f[0] = g /\ ApplyAll(g, s) = f[n]
      /\ \A i \in 1 .. n : f[i] = ApplyStep(f[i - 1], s[i])
  BY <1>1 DEF Applies
<1>. DEFINE T == {i \in Nat : i <= n => Sayable(f[i], j)}
<1>3. 0 \in T
  BY <1>2 DEF Sayable
<1>4. ASSUME NEW i \in T PROVE i + 1 \in T
  <2>. SUFFICES ASSUME i + 1 <= n PROVE Sayable(f[i + 1], j)
    OBVIOUS
  <2>1. i <= n /\ i + 1 \in 1 .. n /\ (i + 1) - 1 = i
    OBVIOUS
  <2>2. Sayable(f[i], j)
    BY <2>1
  <2>3. f[i + 1] = ApplyStep(f[i], s[i + 1])
    BY <1>2, <2>1
  <2>4. CASE f[i + 1] = f[i]
    BY <2>2, <2>4, Zenon
  <2>5. CASE f[i + 1] # f[i]
    <3>1. f[i + 1] = ApplyPrepared(f[i], s[i + 1]) /\ f[i + 1] # Refused
      BY <2>3, <2>5, Zenon DEF ApplyStep
    <3>2. Issued(s[i + 1])
      BY <2>1, Zenon DEF AllIssued
    <3>3. Told(f[i], s[i + 1], f[i + 1])
      BY <2>2, <3>1, <3>2, ApplyPreparedTold, Zenon DEF Sayable
    <3>4. Sound(f[i + 1])
      BY <2>2, <3>1, ApplyPreparedSound, Zenon DEF Sayable
    <3>5. PICK k \in DOMAIN j : j[k] = s[i + 1]
      BY <2>1, Zenon DEF Within
    <3>6. Recorded(f[i + 1], j)
      BY <2>2, <3>3, <3>5, OneTold, Zenon DEF Sayable
    <3>. QED  BY <3>3, <3>4, <3>6, Zenon DEF Told, Sayable
  <2>. QED  BY <2>4, <2>5
<1>5. n \in T
  <2>. HIDE DEF T
  <2>1. T \in SUBSET Nat
    BY DEF T
  <2>. QED  BY <1>3, <1>4, <2>1, NatInduct
<1>. QED  BY <1>2, <1>5 DEF Sayable

LEMMA ApplyAllTidy ==
    ASSUME NEW g, Sound(g), Tidy(g), NEW s, IsList(s), AllIssued(s)
    PROVE  Tidy(ApplyAll(g, s))
<1>. SUFFICES ASSUME NEW n \in Nat, DOMAIN s = 1 .. n PROVE Tidy(ApplyAll(g, s))
  BY ListLen
<1>1. PICK f : Applies(g, s, n, f)
  BY ApplyPasses
<1>2. /\ f[0] = g /\ ApplyAll(g, s) = f[n]
      /\ \A i \in 1 .. n : f[i] = ApplyStep(f[i - 1], s[i])
  BY <1>1 DEF Applies
<1>. DEFINE T == {i \in Nat : i <= n => Sound(f[i]) /\ Tidy(f[i])}
<1>3. 0 \in T
  BY <1>2
<1>4. ASSUME NEW i \in T PROVE i + 1 \in T
  <2>. SUFFICES ASSUME i + 1 <= n PROVE Sound(f[i + 1]) /\ Tidy(f[i + 1])
    OBVIOUS
  <2>1. i <= n /\ i + 1 \in 1 .. n /\ (i + 1) - 1 = i
    OBVIOUS
  <2>2. Sound(f[i]) /\ Tidy(f[i])
    BY <2>1
  <2>3. f[i + 1] = ApplyStep(f[i], s[i + 1])
    BY <1>2, <2>1
  <2>4. Issued(s[i + 1])
    BY <2>1, Zenon DEF AllIssued
  <2>. QED  BY <2>2, <2>3, <2>4, ApplyPreparedSound, ApplyPreparedTold, Zenon DEF ApplyStep, Told
<1>5. n \in T
  <2>. HIDE DEF T
  <2>1. T \in SUBSET Nat
    BY DEF T
  <2>. QED  BY <1>3, <1>4, <2>1, NatInduct
<1>. QED  BY <1>2, <1>5

(* A set of naturals in ascending order: each of its elements, and no more.*)
LEMMA AscendingLists ==
    ASSUME NEW S \in SUBSET Nat, IsFiniteSet(S)
    PROVE  /\ \A i \in 1 .. Cardinality(S) : Ascending(S)[i] \in S
           /\ \A x \in S : \E i \in 1 .. Cardinality(S) : Ascending(S)[i] = x
<1>. DEFINE n == Cardinality(S)
            Below(x) == {y \in S : y < x}
            rank == [x \in S |-> Cardinality(Below(x))]
<1>1. n \in Nat
  BY FS_CardinalityType
<1>2. ASSUME NEW x \in S PROVE IsFiniteSet(Below(x)) /\ rank[x] \in 0 .. (n - 1)
  <2>1. Below(x) \in SUBSET S /\ Below(x) # S
    BY x \notin Below(x)
  <2>2. IsFiniteSet(Below(x)) /\ Cardinality(Below(x)) <= n /\ Cardinality(Below(x)) # n
    BY <2>1, FS_Subset
  <2>3. Cardinality(Below(x)) \in Nat
    BY <2>2, FS_CardinalityType
  <2>. QED  BY <1>1, <2>2, <2>3
<1>3. ASSUME NEW x \in S, NEW z \in S, x < z PROVE rank[x] # rank[z]
  <2>0. x \in Nat /\ z \in Nat /\ \A y \in S : y \in Nat
    OBVIOUS
  <2>a. \A y \in S : y < x => y < z
    BY <1>3, <2>0
  <2>b. ~(x < x)
    BY <2>0
  <2>1. Below(x) \in SUBSET Below(z) /\ x \in Below(z) /\ x \notin Below(x)
    BY <1>3, <2>a, <2>b, Zenon
  <2>2. Cardinality(Below(z)) # Cardinality(Below(x))
    <3>. HIDE DEF Below
    <3>. QED  BY <1>2, <2>1, FS_Subset
  <2>. QED  BY <2>2
<1>4. \A x, z \in S : rank[x] = rank[z] => x = z
  BY <1>3
<1>5. rank \in [S -> 0 .. (n - 1)]
  BY <1>2
<1>a. DOMAIN rank = S
  OBVIOUS
<1>6. rank \in Injection(S, 0 .. (n - 1))
  <2>. HIDE DEF rank, n
  <2>. QED  BY <1>4, <1>5, <1>a DEF Injection, IsInjective
<1>7. IsFiniteSet(0 .. (n - 1)) /\ Cardinality(0 .. (n - 1)) = n
  <2>1. n - 1 \in Int /\ 0 \in Int /\ (0 > n - 1 => n = 0) /\ (n - 1) - 0 + 1 = n
    BY <1>1
  <2>. HIDE DEF n
  <2>. QED  BY <1>1, <2>1, FS_Interval
<1>8. rank \in Surjection(S, 0 .. (n - 1))
  <2>. HIDE DEF rank, n
  <2>1. n = Cardinality(S)
    BY DEF n
  <2>. QED  BY <1>6, <1>7, <2>1, FS_Injection
<1>9. ASSUME NEW i \in 1 .. n PROVE Ascending(S)[i] \in S /\ rank[Ascending(S)[i]] = i - 1
  <2>1. i - 1 \in 0 .. (n - 1)
    BY <1>1
  <2>2. \E x \in S : rank[x] = i - 1
    BY <1>8, <2>1 DEF Surjection
  <2>3. \E x \in S : Cardinality({y \in S : y < x}) = i - 1
    BY <2>2
  <2>4. Ascending(S)[i] = CHOOSE x \in S : Cardinality({y \in S : y < x}) = i - 1
    BY DEF Ascending
  <2>. QED  BY <2>3, <2>4
<1>10. ASSUME NEW x \in S PROVE \E i \in 1 .. n : Ascending(S)[i] = x
  <2>1. rank[x] + 1 \in 1 .. n /\ (rank[x] + 1) - 1 = rank[x]
    BY <1>1, <1>2
  <2>2. Ascending(S)[rank[x] + 1] \in S /\ rank[Ascending(S)[rank[x] + 1]] = rank[x]
    BY <1>9, <2>1
  <2>. QED  BY <1>4, <2>1, <2>2
<1>. QED  BY <1>9, <1>10

LEMMA TellsJoin ==
    ASSUME NEW s, NEW t, IsList(s), IsList(t)
    PROVE  /\ \A i \in DOMAIN s : i \in DOMAIN (s \o t) /\ (s \o t)[i] = s[i]
           /\ \A i \in DOMAIN t : Len(s) + i \in DOMAIN (s \o t) /\ (s \o t)[Len(s) + i] = t[i]
           /\ \A i \in DOMAIN (s \o t) : \/ i \in DOMAIN s /\ (s \o t)[i] = s[i]
                                         \/ i - Len(s) \in DOMAIN t /\ (s \o t)[i] = t[i - Len(s)]
<1>1. PICK R, Q : s \in Seq(R) /\ t \in Seq(Q)
  BY DEF IsList
<1>2. s \in Seq(R \cup Q) /\ t \in Seq(R \cup Q)
  BY <1>1
<1>. QED  BY <1>2

LEMMA JoinKeeps ==
    ASSUME NEW s, NEW t, IsList(s), IsList(t)
    PROVE  /\ AllIssued(s) /\ AllIssued(t) => AllIssued(s \o t)
           /\ Within(s, s \o t) /\ Within(t, s \o t)
<1>. DEFINE u == s \o t
<1>a. /\ \A i \in DOMAIN s : i \in DOMAIN u /\ u[i] = s[i]
      /\ \A i \in DOMAIN t : Len(s) + i \in DOMAIN u /\ u[Len(s) + i] = t[i]
      /\ \A i \in DOMAIN u : \/ i \in DOMAIN s /\ u[i] = s[i]
                             \/ i - Len(s) \in DOMAIN t /\ u[i] = t[i - Len(s)]
  BY TellsJoin
<1>. HIDE DEF u
<1>0. /\ \A i \in DOMAIN s : \E k \in DOMAIN u : u[k] = s[i]
      /\ \A i \in DOMAIN t : \E k \in DOMAIN u : u[k] = t[i]
      /\ \A k \in DOMAIN u : (\E i \in DOMAIN s : u[k] = s[i]) \/ (\E i \in DOMAIN t : u[k] = t[i])
  BY <1>a, Zenon
<1>1. AllIssued(s) /\ AllIssued(t) => AllIssued(u)
  BY <1>0 DEF AllIssued
<1>2. Within(s, u) /\ Within(t, u)
  BY <1>0 DEF Within
<1>. QED  BY <1>1, <1>2, Zenon DEF u

LEMMA NumberedRecords ==
    /\ \A id \in Ids : \A t, n : Issued([kind |-> "concept", id |-> id, type |-> t, name |-> n])
    /\ \A id \in Ids : \A t, n : Issued([kind |-> "updateConcept", id |-> id, type |-> t, name |-> n])
    /\ \A id \in Ids : \A f, e : Issued([kind |-> "ref", family |-> f, id |-> id, ends |-> e])
BY DEF Issued, ConceptRec, UpdConceptRec, RefRec

LEMMA WithinTrans == ASSUME NEW s, NEW t, NEW u, Within(s, t), Within(t, u) PROVE Within(s, u)
BY Zenon DEF Within

LEMMA RecordedWithin ==
    ASSUME NEW g, NEW s, NEW t, Recorded(g, s), Within(s, t)
    PROVE  Recorded(g, t)
<1>1. ASSUME NEW id, NEW name, TellsConcept(s, id, name) PROVE TellsConcept(t, id, name)
  <2>1. PICK i \in DOMAIN s : s[i].kind \in {"concept", "updateConcept"} /\ s[i].id = id /\ s[i].name = name
    BY <1>1, Zenon DEF TellsConcept
  <2>2. PICK k \in DOMAIN t : t[k] = s[i]
    BY Zenon DEF Within
  <2>. QED  BY <2>1, <2>2 DEF TellsConcept
<1>2. ASSUME NEW f, NEW id, NEW ends, TellsRef(s, f, id, ends) PROVE TellsRef(t, f, id, ends)
  <2>1. PICK i \in DOMAIN s : s[i].kind = "ref" /\ s[i].family = f /\ s[i].id = id /\ s[i].ends = ends
    BY <1>2, Zenon DEF TellsRef
  <2>2. PICK k \in DOMAIN t : t[k] = s[i]
    BY Zenon DEF Within
  <2>. QED  BY <2>1, <2>2 DEF TellsRef
<1>. QED  BY <1>1, <1>2, Zenon DEF Recorded

(* What a compaction writes tells all that is live.                        *)
(* A compaction writes records that say all that is live.                  *)
LEMMA LiveRecordsTell ==
    ASSUME NEW g, Sound(g), Tidy(g)
    PROVE  IsList(LiveRecords(g)) /\ AllIssued(LiveRecords(g)) /\ Recorded(g, LiveRecords(g))
<1>. DEFINE C == ConceptRecords(g)
            D == DOMAIN g.concepts
            L == RelationRecords(g)
            P == RefRecords(g, "rule")
            Q == RefRecords(g, "action")
            O == <<OntologyRec(g.schema)>>
<1>1. IsFiniteSet(D) /\ D \in SUBSET Nat /\ D \subseteq Ids
  BY DEF Sound, Shaped, Tidy, Ids
<1>2. IsList(C) /\ AllIssued(C) /\ \A id \in D : TellsConcept(C, id, g.concepts[id].name)
  <2>1. Cardinality(D) \in Nat
    BY <1>1, FS_CardinalityType
  <2>2. DOMAIN C = 1 .. Cardinality(D) /\ C = [i \in 1 .. Cardinality(D) |-> C[i]]
        /\ \A i \in 1 .. Cardinality(D) :
              C[i] = LET id == Ascending(D)[i]
                     IN  ConceptRec([id |-> id, type |-> g.concepts[id].type, name |-> g.concepts[id].name])
    BY Zenon DEF ConceptRecords
  <2>3. \A i \in 1 .. Cardinality(D) :
          LET id == Ascending(D)[i]
          IN  C[i] = [kind |-> "concept", id |-> id, type |-> g.concepts[id].type, name |-> g.concepts[id].name]
    BY <2>2 DEF ConceptRec
  <2>. HIDE DEF C
  <2>4. AllIssued(C)
    <3>. SUFFICES ASSUME NEW i \in 1 .. Cardinality(D) PROVE Issued(C[i])
      BY <2>2, Zenon DEF AllIssued
    <3>1. Ascending(D)[i] \in Ids
      BY <1>1, AscendingLists
    <3>. HIDE DEF D
    <3>2. C[i] = [kind |-> "concept", id |-> Ascending(D)[i], type |-> g.concepts[Ascending(D)[i]].type,
                  name |-> g.concepts[Ascending(D)[i]].name]
      BY <2>3
    <3>. QED  BY <3>1, <3>2, NumberedRecords, Zenon
  <2>5. ASSUME NEW id \in D PROVE TellsConcept(C, id, g.concepts[id].name)
    <3>1. PICK i \in 1 .. Cardinality(D) : Ascending(D)[i] = id
      BY <1>1, AscendingLists
    <3>. HIDE DEF D
    <3>. QED  BY <2>2, <2>3, <3>1 DEF TellsConcept
  <2>. QED  BY <2>1, <2>2, <2>4, <2>5, ListFun
<1>3. IsList(L) /\ AllIssued(L)
  <2>. DEFINE R == DOMAIN g.rels
  <2>1. Cardinality(R) \in Nat
    BY FS_CardinalityType DEF Sound, Shaped
  <2>2. DOMAIN L = 1 .. Cardinality(R) /\ L = [i \in 1 .. Cardinality(R) |-> L[i]]
        /\ \A i \in 1 .. Cardinality(R) : \E r : L[i] = RelRec("relationExact", r)
    BY Zenon DEF RelationRecords
  <2>3. \A r : Issued(RelRec("relationExact", r))
    BY DEF Issued, RelRec
  <2>. HIDE DEF L
  <2>4. AllIssued(L)
    BY <2>2, <2>3, Zenon DEF AllIssued
  <2>. QED  BY <2>1, <2>2, <2>4, ListFun
<1>4. ASSUME NEW f \in Families
      PROVE  IsList(RefRecords(g, f)) /\ AllIssued(RefRecords(g, f))
             /\ \A id \in DOMAIN g.refs[f] : TellsRef(RefRecords(g, f), f, id, g.refs[f][id])
  <2>. DEFINE M == RefRecords(g, f)
              E == DOMAIN g.refs[f]
  <2>0. IsFiniteSet(E) /\ E \in SUBSET Nat /\ E \subseteq Ids
    BY DEF Sound, Shaped, Tidy, Ids
  <2>1. Cardinality(E) \in Nat
    BY <2>0, FS_CardinalityType
  <2>2. DOMAIN M = 1 .. Cardinality(E) /\ M = [i \in 1 .. Cardinality(E) |-> M[i]]
        /\ \A i \in 1 .. Cardinality(E) :
              M[i] = LET id == Ascending(E)[i] IN RefRec([family |-> f, id |-> id, ends |-> g.refs[f][id]])
    BY Zenon DEF RefRecords
  <2>3. \A i \in 1 .. Cardinality(E) :
          LET id == Ascending(E)[i]
          IN  M[i] = [kind |-> "ref", family |-> f, id |-> id, ends |-> g.refs[f][id]]
    BY <2>2 DEF RefRec
  <2>. HIDE DEF M
  <2>4. AllIssued(M)
    <3>. SUFFICES ASSUME NEW i \in 1 .. Cardinality(E) PROVE Issued(M[i])
      BY <2>2, Zenon DEF AllIssued
    <3>1. Ascending(E)[i] \in Ids
      BY <2>0, AscendingLists
    <3>. HIDE DEF E
    <3>2. M[i] = [kind |-> "ref", family |-> f, id |-> Ascending(E)[i], ends |-> g.refs[f][Ascending(E)[i]]]
      BY <2>3
    <3>. QED  BY <3>1, <3>2, NumberedRecords, Zenon
  <2>5. ASSUME NEW id \in E PROVE TellsRef(M, f, id, g.refs[f][id])
    <3>1. PICK i \in 1 .. Cardinality(E) : Ascending(E)[i] = id
      BY <2>0, AscendingLists
    <3>. HIDE DEF E
    <3>. QED  BY <2>2, <2>3, <3>1 DEF TellsRef
  <2>6. IsList(M)
    BY <2>1, <2>2, ListFun
  <2>. QED  BY <2>4, <2>5, <2>6 DEF M
<1>5. IsList(O) /\ AllIssued(O)
  BY ListOne DEF AllIssued, Issued, OntologyRec
<1>6. /\ IsList(P) /\ AllIssued(P) /\ \A id \in DOMAIN g.refs["rule"] : TellsRef(P, "rule", id, g.refs["rule"][id])
      /\ IsList(Q) /\ AllIssued(Q)
      /\ \A id \in DOMAIN g.refs["action"] : TellsRef(Q, "action", id, g.refs["action"][id])
  BY <1>4 DEF Families
<1>7. LiveRecords(g) = O \o C \o L \o P \o Q
  BY Zenon DEF LiveRecords
<1>. DEFINE a == O \o C
            b == a \o L
            c == b \o P
            d == c \o Q
<1>. HIDE DEF C, D, L, P, Q, O
<1>8. IsList(a) /\ AllIssued(a) /\ Within(C, a)
  BY <1>2, <1>5, JoinKeeps, ListJoin
<1>9. IsList(b) /\ AllIssued(b) /\ Within(a, b)
  <2>. HIDE DEF a
  <2>. QED  BY <1>3, <1>8, JoinKeeps, ListJoin DEF b
<1>10. IsList(c) /\ AllIssued(c) /\ Within(b, c) /\ Within(P, c)
  <2>. HIDE DEF b
  <2>. QED  BY <1>6, <1>9, JoinKeeps, ListJoin DEF c
<1>11. IsList(d) /\ AllIssued(d) /\ Within(c, d) /\ Within(Q, d)
  <2>. HIDE DEF c
  <2>. QED  BY <1>6, <1>10, JoinKeeps, ListJoin DEF d
<1>12. LiveRecords(g) = d
  BY <1>7
<1>. HIDE DEF a, b, c, d
<1>13. Within(C, d) /\ Within(P, d) /\ Within(Q, d)
  BY <1>8, <1>9, <1>10, <1>11, WithinTrans
<1>14. ASSUME NEW id \in D PROVE TellsConcept(d, id, g.concepts[id].name)
  <2>1. TellsConcept(C, id, g.concepts[id].name)
    BY <1>2
  <2>2. PICK i \in DOMAIN C : C[i].kind \in {"concept", "updateConcept"} /\ C[i].id = id
                              /\ C[i].name = g.concepts[id].name
    BY <2>1, Zenon DEF TellsConcept
  <2>3. PICK k \in DOMAIN d : d[k] = C[i]
    BY <1>13, Zenon DEF Within
  <2>. QED  BY <2>2, <2>3 DEF TellsConcept
<1>15. ASSUME NEW s, Within(s, d), NEW f, NEW id, NEW ends, TellsRef(s, f, id, ends) PROVE TellsRef(d, f, id, ends)
  <2>1. PICK i \in DOMAIN s : s[i].kind = "ref" /\ s[i].family = f /\ s[i].id = id /\ s[i].ends = ends
    BY <1>15, Zenon DEF TellsRef
  <2>2. PICK k \in DOMAIN d : d[k] = s[i]
    BY <1>15, Zenon DEF Within
  <2>. QED  BY <2>1, <2>2 DEF TellsRef
<1>16. \A f \in Families : \A id \in DOMAIN g.refs[f] : TellsRef(d, f, id, g.refs[f][id])
  BY <1>6, <1>13, <1>15, Zenon DEF Families
<1>17. Recorded(g, d)
  BY <1>14, <1>16, Zenon DEF Recorded, D
<1>. QED  BY <1>11, <1>12, <1>17, Zenon

(* What is journaled: a list of records that have their ids.               *)
IssuedList(s) == IsList(s) /\ AllIssued(s)

LEMMA RecordsJoin == ASSUME NEW s, NEW t, IssuedList(s), IssuedList(t) PROVE IssuedList(s \o t)
BY ListJoin, JoinKeeps DEF IssuedList

LEMMA NoRecords == IssuedList(<< >>)
BY ListOne DEF IssuedList, AllIssued

LEMMA OneRecord == ASSUME NEW r, Issued(r) PROVE IssuedList(<<r>>)
BY ListOne DEF IssuedList, AllIssued

LEMMA RecordsSub == ASSUME NEW s, IssuedList(s), NEW n \in 0 .. Len(s) PROVE IssuedList(SubSeq(s, 1, n))
<1>1. PICK R : s \in Seq(R)
  BY DEF IssuedList, IsList
<1>2. \A i \in DOMAIN SubSeq(s, 1, n) : i \in DOMAIN s /\ SubSeq(s, 1, n)[i] = s[i]
  BY <1>1
<1>. QED  BY <1>2, ListSub DEF IssuedList, AllIssued

(* The tombstones of a deletion are a list of records.                     *)
LEMMA CascadeList ==
    ASSUME NEW ids, IsFiniteSet(ids), Sound(graph)
    PROVE  IssuedList(Cascade(ids))
<1>1. PICK n, f : /\ n \in Nat /\ n = Cardinality(ids) /\ f[0] = << >> /\ Cascade(ids) = f[n]
                  /\ \A i \in 1 .. n : f[i] = CascadeStep(f[i - 1], Ascending(ids)[i])
  BY CascadePasses
<1>2. ASSUME NEW recs, NEW id, IssuedList(recs) PROVE IssuedList(CascadeStep(recs, id))
  <2>. DEFINE listed == {recs[i].id : i \in {j \in DOMAIN recs : recs[j].kind = "deleteRelation"}}
              D == Incident(graph, id) \ listed
              rels == Ascending(D)
              last == [i \in DOMAIN rels |-> DelRelRec(rels[i])]
  <2>1. CascadeStep(recs, id) = recs \o <<DelConceptRec(id)>> \o last
    BY Zenon DEF CascadeStep
  <2>2. IsFiniteSet(D)
    <3>1. IsFiniteSet(DOMAIN graph.rels) /\ D \subseteq DOMAIN graph.rels
      BY DEF Sound, Shaped, Incident
    <3>. HIDE DEF D
    <3>. QED  BY <3>1, FS_Subset
  <2>3. IssuedList(last)
    <3>. HIDE DEF D
    <3>1. Cardinality(D) \in Nat /\ DOMAIN rels = 1 .. Cardinality(D)
      BY <2>2, FS_CardinalityType DEF Ascending
    <3>. HIDE DEF rels
    <3>2. DOMAIN last = 1 .. Cardinality(D) /\ last = [i \in 1 .. Cardinality(D) |-> last[i]]
      BY <3>1
    <3>3. IsList(last)
      BY <3>1, <3>2, ListFun
    <3>4. \A i \in DOMAIN last : last[i].kind = "deleteRelation"
      BY <3>1 DEF DelRelRec
    <3>5. AllIssued(last)
      <4>. HIDE DEF last
      <4>. QED  BY <3>4 DEF AllIssued, Issued
    <3>. QED  BY <3>3, <3>5 DEF IssuedList
  <2>4. IssuedList(<<DelConceptRec(id)>>)
    BY ListOne DEF IssuedList, AllIssued, Issued, DelConceptRec
  <2>. HIDE DEF last
  <2>. QED  BY <1>2, <2>1, <2>3, <2>4, RecordsJoin, Zenon
<1>. DEFINE T == {i \in Nat : i <= n => IssuedList(f[i])}
<1>3. 0 \in T
  BY <1>1, NoRecords
<1>4. ASSUME NEW i \in T PROVE i + 1 \in T
  <2>. SUFFICES ASSUME i + 1 <= n PROVE IssuedList(f[i + 1])
    OBVIOUS
  <2>1. i <= n /\ i + 1 \in 1 .. n /\ (i + 1) - 1 = i
    BY <1>1
  <2>2. IssuedList(f[i])
    BY <2>1
  <2>3. f[i + 1] = CascadeStep(f[i], Ascending(ids)[i + 1])
    BY <1>1, <2>1
  <2>. QED  BY <1>2, <2>2, <2>3, Zenon
<1>5. n \in T
  <2>. HIDE DEF T
  <2>1. T \in SUBSET Nat
    BY DEF T
  <2>. QED  BY <1>1, <1>3, <1>4, <2>1, NatInduct
<1>. QED  BY <1>1, <1>5

-----------------------------------------------------------------------------
(* The inductive invariant: the graph is sound, its ids and its counters   *)
(* are positive, and what is or waits to be written is a list of records   *)
(* that have their ids.  Where no reset or compaction can lose its         *)
(* handler, what is live was journaled, and so was a durable batch.        *)
Rewrites == {"reset", "compact"}
NoAbandonedRewrite == \A s \in Scenes : "cancel" \in s.calls => s.calls \cap Rewrites = {}

Handler(o) == o = [kind |-> o.kind, recs |-> o.recs, phase |-> o.phase] /\ IssuedList(o.recs)

Batches(i) ==
    /\ {"pend", "rels", "ups"} \subseteq DOMAIN i /\ IsList(i.pend) /\ IsList(i.rels) /\ IsList(i.ups)
    /\ \A k \in DOMAIN i.pend : i.pend[k].id \in Ids

ToldIsKept ==
    /\ scene \in Scenes
    /\ op.kind \in Rewrites => scene.calls \cap Rewrites # {}
    /\ adrift # {} => "cancel" \in scene.calls
    /\ \A o \in adrift : o.kind \notin Rewrites
    /\ op.phase = "durable" /\ op.kind \notin Rewrites => Within(op.recs, journal)
    /\ ~(op.phase = "durable" /\ op.kind = "reset") => Recorded(graph, journal)

ServerInv ==
    /\ Sound(graph) /\ Tidy(graph) /\ IssuedList(journal)
    /\ Handler(op) /\ \A o \in adrift : Handler(o)
    /\ Running => Batches(ing)
    /\ NoAbandonedRewrite => ToldIsKept

(* The graph with other counters, relations or types.                      *)
Kin(g) == Sound(g) /\ Tidy(g) /\ g.concepts = graph.concepts /\ g.refs = graph.refs

LEMMA HandlerAt ==
    ASSUME NEW k, NEW recs, NEW p, IssuedList(recs)
    PROVE  Handler([kind |-> k, recs |-> recs, phase |-> p])
BY DEF Handler

LEMMA NoHandler == Handler(Idle) /\ Handler(Held)
BY NoRecords, HandlerAt, Zenon DEF Idle, Held

LEMMA DoneHandler == ASSUME NEW o PROVE Handler(Done(o))
BY NoHandler, Zenon DEF Done

LEMMA DoneIs == ASSUME NEW o PROVE Done(o).kind \notin Rewrites /\ Done(o).phase = "none"
BY DEF Done, Idle, Held, Rewrites

LEMMA ServerBegins == ASSUME IInit PROVE ServerInv
<1>1. IsList(journal) /\ Replay(journal) # Refused /\ graph = Replay(journal) /\ scene \in Scenes
  BY ScenesAssumption DEF IInit, WInit, IsList
<1>2. AllIssued(journal)
  <2>. SUFFICES ASSUME NEW i \in DOMAIN journal PROVE Issued(journal[i])
    BY DEF AllIssued
  <2>1. LET r == journal[i]
        IN  /\ r.kind = "concept" => r = ConceptRec(r)
            /\ r.kind = "updateConcept" => r = UpdConceptRec(r)
            /\ r.kind = "ref" => r = RefRec(r)
            /\ r.kind \in {"concept", "updateConcept", "ref"} => r.id \in Nat \ {0}
    BY ScenesAssumption, Zenon DEF IInit, WInit
  <2>. QED  BY <2>1 DEF Issued, Ids
<1>3. Sound(graph) /\ Tidy(graph) /\ Recorded(graph, journal)
  BY <1>1, <1>2, ReplaySound, ReplayTells, Zenon
<1>4. Handler(op) /\ op = Idle /\ adrift = {} /\ ~Running
  BY NoHandler DEF IInit, WInit, Running
<1>5. ToldIsKept
  BY <1>1, <1>3, <1>4 DEF ToldIsKept, Idle, Rewrites
<1>. QED  BY <1>1, <1>2, <1>3, <1>4, <1>5 DEF ServerInv, IssuedList

LEMMA KinRecorded == ASSUME NEW g, Kin(g), NEW s, Recorded(graph, s) PROVE Recorded(g, s)
BY Zenon DEF Kin, Recorded

(* An append begins.                                                       *)
LEMMA AppendsKeep ==
    ASSUME ServerInv, NEW k, NEW g, NEW recs, Kin(g), IssuedList(recs),
           k \in Rewrites => scene.calls \cap Rewrites # {},
           graph' = g, op' = [kind |-> k, recs |-> recs, phase |-> "append"],
           journal' = journal, adrift' = adrift, scene' = scene,
           Running' => Batches(ing'), op = Idle \/ op = Held
    PROVE  ServerInv'
<1>1. Handler(op') /\ op'.kind = k /\ op'.phase = "append"
  BY HandlerAt, Zenon
<1>2. op.phase # "durable"
  BY DEF Idle, Held
<1>3. ASSUME NoAbandonedRewrite PROVE ToldIsKept'
  <2>1. ToldIsKept
    BY <1>3, Zenon DEF ServerInv
  <2>2. Recorded(graph', journal')
    BY <1>2, <2>1, KinRecorded, Zenon DEF ToldIsKept
  <2>3. op'.phase # "durable"
    BY <1>1
  <2>. QED  BY <1>1, <2>1, <2>2, <2>3, Zenon DEF ToldIsKept
<1>4. NoAbandonedRewrite' <=> NoAbandonedRewrite
  BY Zenon DEF NoAbandonedRewrite
<1>. QED  BY <1>1, <1>3, <1>4, Zenon DEF ServerInv, Kin

LEMMA BeginKeeps ==
    ASSUME ServerInv, NEW call, NEW k, NEW g, NEW recs, Kin(g), IssuedList(recs),
           k \in Rewrites => call = k, Begin(call, k, g, recs), ing' = ing
    PROVE  ServerInv'
<1>1. graph' = g /\ op' = [kind |-> k, recs |-> recs, phase |-> "append"] /\ journal' = journal /\ adrift' = adrift
      /\ scene' = scene /\ op = Idle /\ call \in scene.calls
  BY DEF Begin
<1>2. k \in Rewrites => scene.calls \cap Rewrites # {}
  BY <1>1
<1>3. Running' => Batches(ing')
  BY Zenon DEF ServerInv, Running
<1>. QED  BY <1>1, <1>2, <1>3, AppendsKeep, Zenon

LEMMA SubsetFinite == ASSUME NEW S, NEW T, IsFiniteSet(T), S \subseteq T PROVE IsFiniteSet(S)
BY FS_Subset

LEMMA AscendingDomain ==
    ASSUME NEW S, IsFiniteSet(S)
    PROVE  Cardinality(S) \in Nat /\ DOMAIN Ascending(S) = 1 .. Cardinality(S)
BY FS_CardinalityType DEF Ascending

LEMMA SelfKin == ASSUME ServerInv PROVE Kin(graph)
BY DEF ServerInv, Kin

LEMMA ObserveKin ==
    ASSUME ServerInv, NEW fam, NEW id, fam \in Counted => id \in Nat
    PROVE  Kin(Observe(graph, fam, id))
BY ObserveSound, ObserveTidy, Zenon DEF ServerInv, Kin

LEMMA SchemaKin == ASSUME ServerInv, NEW s PROVE Kin([graph EXCEPT !.schema = s])
<1>. DEFINE h == [graph EXCEPT !.schema = s]
<1>1. h.concepts = graph.concepts /\ h.refs = graph.refs
  BY DEF ServerInv, Sound, Shaped
<1>2. Sound(h) /\ Told(graph, h, h)
  BY SchemaChange, SchemaTold DEF ServerInv
<1>. QED  BY <1>1, <1>2 DEF Kin, Told

(* Ids that are handed out or given are positive.                          *)
LEMMA ConceptIds ==
    ASSUME ServerInv, NEW id \in {0} \cup DOMAIN graph.concepts
    PROVE  IdFor(graph, "concept", id) \in Ids /\ Kin(Allocate(graph, "concept", id))
<1>1. "concept" \in Counted
  BY DEF Counted
<1>2. IdFor(graph, "concept", id) \in Ids
  BY <1>1 DEF ServerInv, Tidy, IdFor, Ids
<1>3. IdFor(graph, "concept", id) \in Nat /\ Allocate(graph, "concept", id) = Observe(graph, "concept", IdFor(graph, "concept", id))
  BY <1>2 DEF Allocate, IdFor, Ids
<1>. QED  BY <1>2, <1>3, ObserveKin, Zenon

(* A handler begins, up to the await of its append.                        *)
LEMMA CallKeeps == ASSUME ServerInv, Call, ing' = ing PROVE ServerInv'
<1>1. Sound(graph) /\ Tidy(graph) /\ IsFiniteSet(DOMAIN graph.concepts) /\ Kin(graph)
  BY SelfKin DEF ServerInv, Sound, Shaped
<1>2. "append" \notin Rewrites
  BY DEF Rewrites
<1>3. CASE CreateConcept
  <2>1. PICK t, n, id :
          /\ id \in {0} \cup DOMAIN graph.concepts
          /\ Begin("createConcept", "append", Allocate(graph, "concept", id),
                   <<ConceptRec([[id |-> id, type |-> t, name |-> n] EXCEPT !.id = IdFor(graph, "concept", id)])>>)
    BY <1>3, Zenon DEF CreateConcept
  <2>2. Issued(ConceptRec([[id |-> id, type |-> t, name |-> n] EXCEPT !.id = IdFor(graph, "concept", id)]))
    <3>1. IdFor(graph, "concept", id) \in Ids
      BY <2>1, ConceptIds
    <3>. QED  BY <3>1 DEF Issued, ConceptRec
  <2>3. Kin(Allocate(graph, "concept", id))
    BY <2>1, ConceptIds
  <2>. QED  BY <1>2, <2>1, <2>2, <2>3, BeginKeeps, OneRecord, Zenon
<1>4. CASE UpdateConcept
  <2>1. PICK id, t, n :
          /\ id \in DOMAIN graph.concepts
          /\ Begin("updateConcept", "append", graph, <<UpdConceptRec([id |-> id, type |-> t, name |-> n])>>)
    BY <1>4, Zenon DEF UpdateConcept
  <2>2. id \in Ids
    BY <1>1, <2>1 DEF Tidy
  <2>3. Issued(UpdConceptRec([id |-> id, type |-> t, name |-> n]))
    BY <2>2 DEF Issued, UpdConceptRec
  <2>. QED  BY <1>1, <1>2, <2>1, <2>3, BeginKeeps, OneRecord, Zenon
<1>5. CASE DeleteConcepts
  <2>1. PICK ids \in SUBSET DOMAIN graph.concepts : Begin("deleteConcepts", "append", graph, Cascade(ids))
    BY <1>5, Zenon DEF DeleteConcepts
  <2>2. IssuedList(Cascade(ids))
    BY <1>1, SubsetFinite, CascadeList
  <2>. QED  BY <1>1, <1>2, <2>1, <2>2, BeginKeeps, Zenon
<1>6. CASE CreateRelation
  <2>1. PICK id, r : Begin("createRelation", "append", Observe(graph, "relation", id), <<RelRec("relation", r)>>)
    BY <1>6, Zenon DEF CreateRelation
  <2>2. Issued(RelRec("relation", r))
    BY DEF Issued, RelRec
  <2>3. Kin(Observe(graph, "relation", id))
    BY NotCounted, ObserveKin
  <2>. QED  BY <1>2, <2>1, <2>2, <2>3, BeginKeeps, OneRecord, Zenon
<1>7. CASE UpdateRelationWeight \/ DeleteRelation \/ PutOntology \/ DeleteRef
  <2>1. \E call, r : Issued(r) /\ Begin(call, "append", graph, <<r>>)
    <3>1. \A r : Issued(RelRec("updateRelation", r)) /\ Issued(DelRelRec(r)) /\ Issued(OntologyRec(r))
      BY DEF Issued, RelRec, DelRelRec, OntologyRec
    <3>2. \A f, i : Issued(DelRefRec(f, i))
      BY DEF Issued, DelRefRec
    <3>. QED  BY <1>7, <3>1, <3>2, Zenon DEF UpdateRelationWeight, DeleteRelation, PutOntology, DeleteRef
  <2>2. PICK call, r : Issued(r) /\ Begin(call, "append", graph, <<r>>)
    BY <2>1, Zenon
  <2>. QED  BY <1>1, <1>2, <2>2, BeginKeeps, OneRecord, Zenon
<1>8. CASE CreateRef
  <2>1. PICK f, e :
          /\ f \in Families
          /\ Begin("createRef", "append", Observe(graph, f, graph.next[f]),
                   <<RefRec([family |-> f, id |-> graph.next[f], ends |-> e])>>)
    BY <1>8 DEF CreateRef
  <2>2. graph.next[f] \in Ids /\ graph.next[f] \in Nat
    BY <1>1, <2>1 DEF Tidy, Counted, Ids
  <2>3. Issued(RefRec([family |-> f, id |-> graph.next[f], ends |-> e]))
    BY <2>2 DEF Issued, RefRec
  <2>4. Kin(Observe(graph, f, graph.next[f]))
    BY <2>2, ObserveKin
  <2>. QED  BY <1>2, <2>1, <2>3, <2>4, BeginKeeps, OneRecord, Zenon
<1>9. CASE UpdateRefEnds \/ UpdateRefName
  <2>1. PICK call, f, id, e :
          /\ f \in Families /\ id \in DOMAIN graph.refs[f]
          /\ Begin(call, "append", graph, <<RefRec([family |-> f, id |-> id, ends |-> e])>>)
    BY <1>9, Zenon DEF UpdateRefEnds, UpdateRefName
  <2>2. id \in Ids
    BY <1>1, <2>1 DEF Tidy
  <2>3. Issued(RefRec([family |-> f, id |-> id, ends |-> e]))
    BY <2>2 DEF Issued, RefRec
  <2>. QED  BY <1>1, <1>2, <2>1, <2>3, BeginKeeps, OneRecord, Zenon
<1>10. CASE Reset \/ Compact
  BY <1>10, <1>1, BeginKeeps, NoRecords, Zenon DEF Reset, Compact
<1>. QED  BY <1>3, <1>4, <1>5, <1>6, <1>7, <1>8, <1>9, <1>10, Zenon DEF Call

(* What the store, the end of a handler, a crash and a restart leave.      *)
LEMMA AfterIs ==
    ASSUME ServerInv, NEW o, Handler(o)
    PROVE  /\ IssuedList(After(o))
           /\ o.kind = "compact" /\ Recorded(graph, journal) => Recorded(graph, After(o))
           /\ o.kind \notin Rewrites => After(o) = journal \o o.recs
                                        /\ Within(journal, After(o)) /\ Within(o.recs, After(o))
<1>. DEFINE w == <<OntologyRec(NoSchema)>>
            d == journal \o o.recs
<1>1. IssuedList(journal) /\ IssuedList(o.recs)
  BY DEF ServerInv, Handler
<1>2. IssuedList(Compacted) /\ (Recorded(graph, journal) => Recorded(graph, Compacted))
  BY LiveRecordsTell, Zenon DEF ServerInv, Compacted, IssuedList
<1>3. IssuedList(w)
  <2>1. Issued(OntologyRec(NoSchema))
    BY DEF Issued, OntologyRec
  <2>. QED  BY <2>1, OneRecord
<1>4. IssuedList(d) /\ Within(journal, d) /\ Within(o.recs, d)
  BY <1>1, RecordsJoin, JoinKeeps DEF IssuedList
<1>5. After(o) = CASE o.kind = "reset" -> w [] o.kind = "compact" -> Compacted [] OTHER -> d
  BY DEF After
<1>. HIDE DEF w, d
<1>6. After(o) = w \/ After(o) = Compacted \/ After(o) = d
  BY <1>5
<1>7. IssuedList(After(o))
  BY <1>2, <1>3, <1>4, <1>6, Zenon
<1>8. (o.kind = "compact" => After(o) = Compacted) /\ (o.kind \notin Rewrites => After(o) = d)
  BY <1>5 DEF Rewrites
<1>9. o.kind = "compact" /\ Recorded(graph, journal) => Recorded(graph, After(o))
  BY <1>2, <1>8, Zenon
<1>10. o.kind \notin Rewrites => After(o) = journal \o o.recs /\ Within(journal, After(o)) /\ Within(o.recs, After(o))
  BY <1>4, <1>8, Zenon DEF d
<1>. QED  BY <1>7, <1>9, <1>10

LEMMA FailedKeeps == ASSUME Running => Batches(ing), ing' = Failed PROVE (Running => Batches(ing))'
<1>1. CASE Running
  <2>1. ing' = [ing EXCEPT !.todo = << <<"abort">> >>, !.pend = << >>, !.rels = << >>, !.ups = << >>]
    BY <1>1 DEF Failed, Abort
  <2>2. DOMAIN ing' = DOMAIN ing
    BY <2>1
  <2>3. ing'.pend = << >> /\ ing'.rels = << >> /\ ing'.ups = << >>
    BY <1>1, <2>1 DEF Batches
  <2>4. \A k \in DOMAIN ing'.pend : ing'.pend[k].id \in Ids
    BY <2>3
  <2>. QED  BY <1>1, <2>2, <2>3, <2>4, ListOne, Zenon DEF Batches
<1>2. CASE ~Running
  BY <1>2, Zenon DEF Failed, Running
<1>. QED  BY <1>1, <1>2

(* A handler is over, or a write lands, with nothing that was told lost.   *)
LEMMA DoneKeeps ==
    ASSUME ServerInv, op' = Done(op), adrift' = adrift, scene' = scene, IssuedList(journal'), Sound(graph'), Tidy(graph'),
           NoAbandonedRewrite => Recorded(graph', journal'), (Running => Batches(ing))'
    PROVE  ServerInv'
<1>1. Handler(op') /\ op'.kind \notin Rewrites /\ op'.phase # "durable"
  BY DoneHandler, DoneIs
<1>2. ASSUME NoAbandonedRewrite PROVE ToldIsKept'
  <2>1. ToldIsKept /\ Recorded(graph', journal')
    BY <1>2, Zenon DEF ServerInv
  <2>. QED  BY <1>1, <2>1, Zenon DEF ToldIsKept
<1>3. NoAbandonedRewrite' <=> NoAbandonedRewrite
  BY Zenon DEF NoAbandonedRewrite
<1>. QED  BY <1>1, <1>2, <1>3, Zenon DEF ServerInv

(* The append of the handler's batch, a reset or a compaction is durable.  *)
LEMMA LandKeeps == ASSUME ServerInv, Land, ing' = ing PROVE ServerInv'
<1>1. /\ journal' = After(op) /\ op' = [op EXCEPT !.phase = "durable"] /\ graph' = graph /\ adrift' = adrift
      /\ scene' = scene /\ op.phase = "append"
  BY DEF Land
<1>2. IssuedList(journal')
  BY <1>1, AfterIs, Zenon DEF ServerInv
<1>3. op' = [kind |-> op.kind, recs |-> op.recs, phase |-> "durable"]
  BY <1>1 DEF ServerInv, Handler
<1>4. Handler(op') /\ op'.kind = op.kind /\ op'.recs = op.recs
  <2>1. Handler(op')
    BY <1>3, HandlerAt, Zenon DEF ServerInv, Handler
  <2>. QED  BY <1>3, <2>1
<1>5. ASSUME NoAbandonedRewrite PROVE ToldIsKept'
  <2>1. ToldIsKept /\ Handler(op)
    BY <1>5, Zenon DEF ServerInv
  <2>2. Recorded(graph, journal)
    BY <1>1, <2>1 DEF ToldIsKept
  <2>3. op.kind \notin Rewrites => Within(op'.recs, journal') /\ Within(journal, journal')
    BY <1>1, <1>4, <2>1, AfterIs, Zenon
  <2>4. op.kind # "reset" => Recorded(graph', journal')
    <3>1. CASE op.kind = "compact"
      BY <1>1, <2>1, <2>2, <3>1, AfterIs, Zenon
    <3>2. CASE op.kind \notin Rewrites
      BY <1>1, <2>2, <2>3, <3>2, RecordedWithin, Zenon
    <3>. QED  BY <3>1, <3>2 DEF Rewrites
  <2>5. op'.phase = "durable"
    BY <1>3
  <2>6. op'.kind \notin Rewrites => Within(op'.recs, journal')
    BY <1>4, <2>3, Zenon
  <2>7. ~(op'.phase = "durable" /\ op'.kind = "reset") => Recorded(graph', journal')
    BY <1>4, <2>4, <2>5, Zenon
  <2>. QED  BY <1>1, <1>4, <2>1, <2>6, <2>7, Zenon DEF ToldIsKept
<1>6. NoAbandonedRewrite' <=> NoAbandonedRewrite
  BY Zenon DEF NoAbandonedRewrite
<1>7. (Running => Batches(ing))'
  BY Zenon DEF ServerInv, Running
<1>. QED  BY <1>1, <1>2, <1>4, <1>5, <1>6, <1>7, Zenon DEF ServerInv

(* The handler resumes and applies what is durable.                        *)
LEMMA ResumeKeeps == ASSUME ServerInv, Apply, ing' = ing PROVE ServerInv'
<1>1. op' = Done(op) /\ journal' = journal /\ adrift' = adrift /\ scene' = scene /\ op.phase = "durable"
  BY DEF Apply
<1>2. \/ graph' = EmptyGraph
      \/ op.kind = "compact" /\ graph' = graph
      \/ op.kind \notin Rewrites /\ graph' = ApplyAll(graph, op.recs)
  BY DEF Apply, Rewrites
<1>3. Sound(graph') /\ Tidy(graph')
  <2>1. CASE graph' = EmptyGraph
    BY <2>1, EmptySound, EmptyTidy, Zenon
  <2>2. CASE graph' = graph
    BY <2>2, Zenon DEF ServerInv
  <2>3. CASE graph' = ApplyAll(graph, op.recs)
    BY <2>3, ApplyAllSound, ApplyAllTidy, Zenon DEF ServerInv, Handler, IssuedList
  <2>. QED  BY <1>2, <2>1, <2>2, <2>3
<1>4. ASSUME NoAbandonedRewrite PROVE Recorded(graph', journal')
  <2>1. ToldIsKept
    BY <1>4, Zenon DEF ServerInv
  <2>2. CASE graph' = EmptyGraph
    BY <2>2, EmptyTidy, Zenon
  <2>3. CASE op.kind = "compact" /\ graph' = graph
    BY <1>1, <2>1, <2>3 DEF ToldIsKept
  <2>4. CASE op.kind \notin Rewrites /\ graph' = ApplyAll(graph, op.recs)
    <3>1. Within(op.recs, journal) /\ Recorded(graph, journal)
      BY <1>1, <2>1, <2>4 DEF ToldIsKept, Rewrites
    <3>. QED  BY <1>1, <2>4, <3>1, ApplyAllTells, Zenon DEF ServerInv, Handler, IssuedList
  <2>. QED  BY <1>2, <2>2, <2>3, <2>4
<1>5. (Running => Batches(ing))' /\ IssuedList(journal')
  BY <1>1, Zenon DEF ServerInv, Running
<1>. QED  BY <1>1, <1>3, <1>4, <1>5, DoneKeeps

(* A write that fails leaves a prefix of its batch that is not applied.    *)
LEMMA RefuseKeeps == ASSUME ServerInv, Refuse \/ Tear, ing' = Failed PROVE ServerInv'
<1>1. op' = Done(op) /\ graph' = graph /\ adrift' = adrift /\ scene' = scene /\ op.phase = "append"
  BY DEF Refuse, Tear
<1>2. IssuedList(journal') /\ Within(journal, journal')
  <2>1. CASE journal' = journal
    BY <2>1, Zenon DEF ServerInv, Within
  <2>2. CASE \E n \in 0 .. Len(op.recs) : journal' = journal \o SubSeq(op.recs, 1, n)
    <3>1. PICK n \in 0 .. Len(op.recs) : journal' = journal \o SubSeq(op.recs, 1, n)
      BY <2>2
    <3>2. IssuedList(SubSeq(op.recs, 1, n)) /\ IssuedList(journal)
      BY RecordsSub DEF ServerInv, Handler
    <3>. QED  BY <3>1, <3>2, RecordsJoin, JoinKeeps, Zenon DEF IssuedList
  <2>. QED  BY <2>1, <2>2 DEF Refuse, Tear
<1>3. ASSUME NoAbandonedRewrite PROVE Recorded(graph', journal')
  <2>1. ToldIsKept
    BY <1>3, Zenon DEF ServerInv
  <2>2. Recorded(graph, journal)
    BY <1>1, <2>1 DEF ToldIsKept
  <2>. QED  BY <1>1, <1>2, <2>2, RecordedWithin, Zenon
<1>4. (Running => Batches(ing))'
  BY FailedKeeps DEF ServerInv
<1>5. Sound(graph') /\ Tidy(graph')
  BY <1>1, Zenon DEF ServerInv
<1>. QED  BY <1>1, <1>2, <1>3, <1>4, <1>5, DoneKeeps

LEMMA ReturnsKeep == ASSUME ServerInv, Returns PROVE ServerInv'
BY LandKeeps, ResumeKeeps, RefuseKeeps, Zenon DEF Returns

(* An append whose handler was dropped lands behind everybody's back; the  *)
(* journal only grows by it.                                               *)
LEMMA LandAdriftKeeps == ASSUME ServerInv, LandAdrift, ing' = ing PROVE ServerInv'
<1>1. PICK o \in adrift : journal' = After(o) /\ adrift' = adrift \ {o}
  BY DEF LandAdrift
<1>2. graph' = graph /\ op' = op /\ scene' = scene
  BY DEF LandAdrift
<1>3. IssuedList(journal') /\ Handler(o) /\ \A q \in adrift' : Handler(q)
  BY <1>1, AfterIs, Zenon DEF ServerInv
<1>4. ASSUME NoAbandonedRewrite PROVE ToldIsKept'
  <2>1. ToldIsKept
    BY <1>4, Zenon DEF ServerInv
  <2>2. o.kind \notin Rewrites /\ op.kind \notin Rewrites /\ "cancel" \in scene.calls
    BY <1>1, <1>4, <2>1 DEF ToldIsKept, NoAbandonedRewrite
  <2>3. Within(journal, journal')
    BY <1>1, <1>3, <2>2, AfterIs, Zenon
  <2>4. Recorded(graph, journal)
    BY <2>1, <2>2 DEF ToldIsKept, Rewrites
  <2>5. Recorded(graph', journal')
    BY <1>2, <2>3, <2>4, RecordedWithin, Zenon
  <2>6. op'.phase = "durable" => Within(op'.recs, journal')
    BY <1>2, <2>1, <2>2, <2>3, WithinTrans, Zenon DEF ToldIsKept
  <2>. QED  BY <1>1, <1>2, <2>1, <2>2, <2>5, <2>6, Zenon DEF ToldIsKept
<1>5. NoAbandonedRewrite' <=> NoAbandonedRewrite
  BY Zenon DEF NoAbandonedRewrite
<1>6. (Running => Batches(ing))'
  BY Zenon DEF ServerInv, Running
<1>. QED  BY <1>2, <1>3, <1>4, <1>5, <1>6, Zenon DEF ServerInv

(* A restart serves the replay of the journal.                             *)
LEMMA RestartKeeps == ASSUME ServerInv, Restart, ing' = ing PROVE ServerInv'
<1>1. journal' = journal /\ op' = op /\ adrift' = adrift /\ scene' = scene /\ graph' = Replay(journal)
      /\ Replay(journal) # Refused
  BY DEF Restart
<1>2. Sound(graph') /\ Tidy(graph') /\ Recorded(graph', journal')
  BY <1>1, ReplaySound, ReplayTells, Zenon DEF ServerInv, IssuedList
<1>3. (NoAbandonedRewrite' <=> NoAbandonedRewrite) /\ (Running => Batches(ing))'
  BY Zenon DEF NoAbandonedRewrite, ServerInv, Running
<1>4. NoAbandonedRewrite => ToldIsKept'
  BY <1>1, <1>2, Zenon DEF ServerInv, ToldIsKept
<1>. QED  BY <1>1, <1>2, <1>3, <1>4, Zenon DEF ServerInv

LEMMA IdleIs == Idle.kind \notin Rewrites /\ Idle.phase # "durable"
BY DEF Idle, Rewrites

(* A client goes away; what its handler had handed to the store stays.     *)
LEMMA CancelKeeps == ASSUME ServerInv, Cancel, ing' = NoIngest PROVE ServerInv'
<1>1. graph' = graph /\ journal' = journal /\ op' = Idle /\ scene' = scene /\ "cancel" \in scene.calls
      /\ (adrift' = adrift \cup {op} \/ adrift' = adrift)
  BY Zenon DEF Cancel
<1>2. \A o \in adrift' : Handler(o)
  BY <1>1, Zenon DEF ServerInv
<1>3. ASSUME NoAbandonedRewrite PROVE ToldIsKept'
  <2>1. ToldIsKept
    BY <1>3, Zenon DEF ServerInv
  <2>2. op.kind \notin Rewrites
    BY <1>1, <1>3, <2>1 DEF ToldIsKept, NoAbandonedRewrite
  <2>3. Recorded(graph, journal)
    BY <2>1, <2>2 DEF ToldIsKept, Rewrites
  <2>4. \A o \in adrift' : o.kind \notin Rewrites
    BY <1>1, <2>1, <2>2, Zenon DEF ToldIsKept
  <2>. QED  BY <1>1, <2>1, <2>3, <2>4, IdleIs, Zenon DEF ToldIsKept
<1>4. NoAbandonedRewrite' <=> NoAbandonedRewrite
  BY Zenon DEF NoAbandonedRewrite
<1>. QED  BY <1>1, <1>2, <1>3, <1>4, NoHandler, Zenon DEF ServerInv, Running

(* A crash keeps the journal and a prefix of the batch in progress.        *)
LEMMA CrashKeeps == ASSUME ServerInv, Crash, ing' = NoIngest PROVE ServerInv'
<1>1. graph' = EmptyGraph /\ op' = Idle /\ adrift' = {} /\ scene' = scene
  BY DEF Crash
<1>2. IssuedList(journal')
  <2>1. CASE journal' = journal
    BY <2>1, Zenon DEF ServerInv
  <2>2. CASE \E n \in 1 .. Len(op.recs) : journal' = journal \o SubSeq(op.recs, 1, n)
    <3>1. PICK n \in 1 .. Len(op.recs) : journal' = journal \o SubSeq(op.recs, 1, n)
      BY <2>2
    <3>2. n \in 0 .. Len(op.recs)
      BY ListLen DEF ServerInv, Handler, IssuedList
    <3>3. IssuedList(SubSeq(op.recs, 1, n)) /\ IssuedList(journal)
      BY <3>2, RecordsSub DEF ServerInv, Handler
    <3>. QED  BY <3>1, <3>3, RecordsJoin, Zenon
  <2>. QED  BY <2>1, <2>2 DEF Crash
<1>3. \A o \in adrift' : FALSE
  BY <1>1
<1>4. NoAbandonedRewrite => ToldIsKept'
  <2>1. Recorded(graph', journal')
    BY <1>1, EmptyTidy, Zenon
  <2>2. adrift' = {}
    BY <1>1
  <2>. QED  BY <1>1, <1>3, <2>1, IdleIs, Zenon DEF ToldIsKept, ServerInv
<1>5. NoAbandonedRewrite' <=> NoAbandonedRewrite
  BY Zenon DEF NoAbandonedRewrite
<1>. QED  BY <1>1, <1>2, <1>3, <1>4, <1>5, NoHandler, EmptySound, EmptyTidy, Zenon DEF ServerInv, Running

(* The batches after a step of the ingest that leaves them alone, empties  *)
(* one, adds to one or changes an element of one.                          *)
LEMMA SameBatches ==
    ASSUME NEW i, Batches(i), NEW h, DOMAIN h = DOMAIN i,
           h.pend = i.pend, h.rels = i.rels, h.ups = i.ups
    PROVE  Batches(h)
BY DEF Batches

LEMMA RestBatches == ASSUME Batches(ing), NEW now PROVE Batches(Rest(now))
<1>. DEFINE h == Rest(now)
<1>1. DOMAIN h = DOMAIN ing
  BY DEF Rest
<1>2. h.pend = ing.pend /\ h.rels = ing.rels /\ h.ups = ing.ups
  BY DEF Rest, Batches
<1>. HIDE DEF h
<1>3. Batches(h)
  BY <1>1, <1>2, SameBatches, Zenon
<1>. QED  BY <1>3 DEF h

LEMMA FieldBatches ==
    ASSUME NEW i, Batches(i), NEW f, NEW v, f \in {"pend", "rels", "ups"} => IsList(v),
           f = "pend" => \A k \in DOMAIN v : v[k].id \in Ids
    PROVE  Batches([i EXCEPT ![f] = v])
<1>. DEFINE h == [i EXCEPT ![f] = v]
<1>1. DOMAIN h = DOMAIN i /\ \A x \in {"pend", "rels", "ups"} : h[x] = IF x = f THEN v ELSE i[x]
  BY DEF Batches
<1>. HIDE DEF h
<1>2. h.pend = (IF f = "pend" THEN v ELSE i.pend) /\ h.rels = (IF f = "rels" THEN v ELSE i.rels)
      /\ h.ups = (IF f = "ups" THEN v ELSE i.ups)
  BY <1>1
<1>3. IsList(h.pend) /\ IsList(h.rels) /\ IsList(h.ups)
  BY <1>2 DEF Batches
<1>4. \A k \in DOMAIN h.pend : h.pend[k].id \in Ids
  BY <1>2, Zenon DEF Batches
<1>5. {"pend", "rels", "ups"} \subseteq DOMAIN h
  BY <1>1 DEF Batches
<1>6. Batches(h)
  BY <1>3, <1>4, <1>5, Zenon DEF Batches
<1>. QED  BY <1>6 DEF h

LEMMA AbortBatches == ASSUME Batches(ing) PROVE Batches(Abort)
<1>1. DOMAIN Abort = DOMAIN ing
  BY DEF Abort
<1>2. Abort.pend = << >> /\ Abort.rels = << >> /\ Abort.ups = << >>
  BY DEF Abort, Batches
<1>3. \A k \in DOMAIN Abort.pend : Abort.pend[k].id \in Ids
  BY <1>2
<1>. QED  BY <1>1, <1>2, <1>3, ListOne, Zenon DEF Batches

LEMMA LaterBatches == ASSUME Batches(ing), NEW r PROVE Batches(Later(r))
<1>. DEFINE h == [ing EXCEPT !.todo = Tail(@), !.late = Append(@, r)]
<1>1. DOMAIN h = DOMAIN ing
  OBVIOUS
<1>2. h.pend = ing.pend /\ h.rels = ing.rels /\ h.ups = ing.ups
  BY DEF Batches
<1>. HIDE DEF h
<1>3. Batches(h)
  BY <1>1, <1>2, SameBatches, Zenon
<1>. QED  BY <1>3, AbortBatches, Zenon DEF Later, h

LEMMA PushedBatches ==
    ASSUME NEW i, Batches(i), NEW f \in {"pend", "rels", "ups"}, NEW x, NEW flush,
           f = "pend" => x.id \in Ids
    PROVE  Batches(Pushed(i, f, x, flush))
<1>. DEFINE h == Pushed(i, f, x, flush)
            v == Append(i[f], x)
<1>1. DOMAIN h = DOMAIN i
  BY DEF Pushed
<1>2. \A y \in {"pend", "rels", "ups"} : h[y] = IF y = f THEN v ELSE i[y]
  BY DEF Pushed, Batches
<1>3. IsList(v)
  BY ListAppend DEF Batches
<1>4. f = "pend" => \A k \in DOMAIN v : v[k].id \in Ids
  <2>. SUFFICES ASSUME f = "pend", NEW k \in DOMAIN v PROVE v[k].id \in Ids
    OBVIOUS
  <2>1. PICK R : i.pend \in Seq(R)
    BY DEF Batches, IsList
  <2>2. v = Append(i.pend, x)
    OBVIOUS
  <2>. HIDE DEF v
  <2>3. \/ v[k] = x
        \/ k \in DOMAIN i.pend /\ v[k] = i.pend[k]
    BY <2>1, <2>2
  <2>. QED  BY <2>3 DEF Batches
<1>. HIDE DEF h, v
<1>5. IsList(h.pend) /\ IsList(h.rels) /\ IsList(h.ups)
  BY <1>2, <1>3 DEF Batches
<1>6. \A k \in DOMAIN h.pend : h.pend[k].id \in Ids
  BY <1>2, <1>4, Zenon DEF Batches
<1>7. {"pend", "rels", "ups"} \subseteq DOMAIN h
  BY <1>1, Zenon DEF Batches
<1>8. Batches(h)
  BY <1>5, <1>6, <1>7, Zenon DEF Batches
<1>. QED  BY <1>8 DEF h

LEMMA ReweighedList == ASSUME NEW b, IsList(b), NEW s, NEW t, NEW r PROVE IsList(Reweighed(b, s, t, r))
<1>1. PICK i : Reweighed(b, s, t, r) = [b EXCEPT ![i].w = r.w]
  BY Zenon DEF Reweighed
<1>. DEFINE c == [b EXCEPT ![i].w = r.w]
<1>2. DOMAIN c = 1 .. Len(b) /\ c = [j \in 1 .. Len(b) |-> c[j]] /\ Len(b) \in Nat
  BY ListLen
<1>. HIDE DEF c
<1>3. IsList(c)
  BY <1>2, ListFun, Zenon
<1>. QED  BY <1>1, <1>3 DEF c

LEMMA MappedList ==
    ASSUME NEW s, IsList(s), NEW t, DOMAIN t = DOMAIN s, t = [i \in DOMAIN s |-> t[i]]
    PROVE  IsList(t)
<1>1. DOMAIN s = 1 .. Len(s) /\ Len(s) \in Nat
  BY ListLen
<1>2. t = [i \in 1 .. Len(s) |-> t[i]]
  BY <1>1, Zenon
<1>. QED  BY <1>1, <1>2, ListFun, Zenon

(* The three ways an ingest takes a step, and how it begins and ends.      *)
LEMMA QuietKeeps ==
    ASSUME ServerInv, Kin(graph'), op' = op \/ op' = Idle \/ op' = Held,
           op = Idle \/ op = Held, journal' = journal, adrift' = adrift, scene' = scene, Running' => Batches(ing')
    PROVE  ServerInv'
<1>1. op.phase # "durable" /\ op'.phase # "durable" /\ op'.kind \notin Rewrites
  BY DEF Idle, Held, Rewrites
<1>2. Handler(op')
  BY NoHandler, Zenon DEF ServerInv
<1>3. ASSUME NoAbandonedRewrite PROVE ToldIsKept'
  <2>1. ToldIsKept
    BY <1>3, Zenon DEF ServerInv
  <2>2. Recorded(graph', journal')
    BY <1>1, <2>1, KinRecorded, Zenon DEF ToldIsKept
  <2>. QED  BY <1>1, <2>1, <2>2, Zenon DEF ToldIsKept
<1>4. NoAbandonedRewrite' <=> NoAbandonedRewrite
  BY Zenon DEF NoAbandonedRewrite
<1>. QED  BY <1>2, <1>3, <1>4, Zenon DEF ServerInv, Kin

LEMMA LocalKeeps == ASSUME ServerInv, op = Held, NEW i, Batches(i), Local(i) PROVE ServerInv'
<1>1. ing' = i /\ graph' = graph /\ op' = op /\ journal' = journal /\ adrift' = adrift /\ scene' = scene
  BY DEF Local, wvars
<1>. QED  BY <1>1, SelfKin, QuietKeeps, Zenon

LEMMA LiveKeeps ==
    ASSUME ServerInv, op = Held, NEW i, Batches(i), NEW g, Kin(g), Live(i, g)
    PROVE  ServerInv'
<1>1. ing' = i /\ graph' = g /\ op' = op /\ journal' = journal /\ adrift' = adrift /\ scene' = scene
  BY DEF Live
<1>. QED  BY <1>1, QuietKeeps, Zenon

LEMMA JournalKeeps ==
    ASSUME ServerInv, op = Held, NEW i, Batches(i), NEW g, Kin(g), NEW recs, IssuedList(recs), Journal(i, g, recs)
    PROVE  ServerInv'
<1>1. /\ ing' = i /\ graph' = g /\ op' = [kind |-> "ingest", recs |-> recs, phase |-> "append"]
      /\ journal' = journal /\ adrift' = adrift /\ scene' = scene
  BY DEF Journal
<1>2. "ingest" \notin Rewrites
  BY DEF Rewrites
<1>. QED  BY <1>1, <1>2, AppendsKeep, Zenon
(* The steps of an ingest, one at a time.                                  *)
LEMMA TodoBatches == ASSUME Batches(ing), NEW todo PROVE Batches([ing EXCEPT !.todo = todo])
BY FieldBatches, Zenon

LEMMA SourceKeeps == ASSUME ServerInv, Next1 PROVE ServerInv'
<1>1. Batches(ing) /\ op = Held
  BY DEF ServerInv, Next1
<1>2. PICK recs, second, todo :
        \/ Local([ing EXCEPT !.recs = recs, !.todo = todo])
        \/ Local([ing EXCEPT !.recs = recs, !.second = second, !.todo = todo])
        \/ Local([ing EXCEPT !.todo = todo])
  BY Zenon DEF Next1
<1>. DEFINE h1 == [ing EXCEPT !.recs = recs, !.todo = todo]
            h2 == [ing EXCEPT !.recs = recs, !.second = second, !.todo = todo]
            h3 == [ing EXCEPT !.todo = todo]
<1>3. /\ DOMAIN h1 = DOMAIN ing /\ h1.pend = ing.pend /\ h1.rels = ing.rels /\ h1.ups = ing.ups
      /\ DOMAIN h2 = DOMAIN ing /\ h2.pend = ing.pend /\ h2.rels = ing.rels /\ h2.ups = ing.ups
      /\ DOMAIN h3 = DOMAIN ing /\ h3.pend = ing.pend /\ h3.rels = ing.rels /\ h3.ups = ing.ups
  BY <1>1 DEF Batches
<1>4. Local(h1) \/ Local(h2) \/ Local(h3)
  BY <1>2
<1>. HIDE DEF h1, h2, h3
<1>5. Batches(h1) /\ Batches(h2) /\ Batches(h3)
  BY <1>1, <1>3, SameBatches, Zenon
<1>. QED  BY <1>1, <1>4, <1>5, LocalKeeps, Zenon

LEMMA BarrierKeeps ==
    ASSUME ServerInv, NEW name, At(name), NEW f \in {"pend", "rels", "ups"}, NEW recs,
           recs = [i \in DOMAIN ing[f] |-> recs[i]], DOMAIN recs = DOMAIN ing[f],
           \A i \in DOMAIN recs : (f = "pend" => ing.pend[i].id \in Ids) => Issued(recs[i]),
           Local(Rest(<< >>)) \/ Journal(Emptied(Rest(<< >>), f), graph, recs)
    PROVE  ServerInv'
<1>1. Batches(ing) /\ op = Held
  BY DEF ServerInv, At
<1>2. CASE Local(Rest(<< >>))
  BY <1>1, <1>2, RestBatches, LocalKeeps, Zenon
<1>3. CASE Journal(Emptied(Rest(<< >>), f), graph, recs)
  <2>1. IsList(ing[f])
    BY <1>1 DEF Batches
  <2>2. \A i \in DOMAIN ing[f] : f = "pend" => ing.pend[i].id \in Ids
    BY <1>1 DEF Batches
  <2>3. \A i \in DOMAIN recs : Issued(recs[i])
    BY <2>2, Zenon
  <2>4. IssuedList(recs)
    BY <2>1, <2>3, MappedList, Zenon DEF IssuedList, AllIssued
  <2>5. Batches(Emptied(Rest(<< >>), f))
    <3>1. \A k \in DOMAIN << >> : << >>[k].id \in Ids
      OBVIOUS
    <3>. QED  BY <1>1, <3>1, RestBatches, FieldBatches, ListOne, Zenon DEF Emptied
  <2>. QED  BY <1>1, <1>3, <2>4, <2>5, SelfKin, JournalKeeps, Zenon
<1>. QED  BY <1>2, <1>3

LEMMA BarriersKeep == ASSUME ServerInv, FlushConcepts \/ FlushRelations \/ FlushUpdates PROVE ServerInv'
<1>1. CASE FlushConcepts
  <2>. DEFINE recs == [i \in DOMAIN ing.pend |-> ConceptRec(ing.pend[i])]
  <2>1. At("concepts") /\ (Local(Rest(<< >>)) \/ Journal(Emptied(Rest(<< >>), "pend"), graph, recs))
    BY <1>1 DEF FlushConcepts, Barrier
  <2>2. \A i \in DOMAIN recs : ing.pend[i].id \in Ids => Issued(recs[i])
    BY DEF Issued, ConceptRec
  <2>. QED  BY <2>1, <2>2, BarrierKeeps
<1>2. CASE FlushRelations
  <2>. DEFINE recs == [i \in DOMAIN ing.rels |-> RelRec("relation", ing.rels[i])]
  <2>1. At("rels") /\ (Local(Rest(<< >>)) \/ Journal(Emptied(Rest(<< >>), "rels"), graph, recs))
    BY <1>2 DEF FlushRelations, Barrier
  <2>2. \A i \in DOMAIN recs : Issued(recs[i])
    BY DEF Issued, RelRec
  <2>. QED  BY <2>1, <2>2, BarrierKeeps
<1>3. CASE FlushUpdates
  <2>. DEFINE recs == [i \in DOMAIN ing.ups |-> RelRec("updateRelation", ing.ups[i])]
  <2>1. At("ups") /\ (Local(Rest(<< >>)) \/ Journal(Emptied(Rest(<< >>), "ups"), graph, recs))
    BY <1>3 DEF FlushUpdates, Barrier
  <2>2. \A i \in DOMAIN recs : Issued(recs[i])
    BY DEF Issued, RelRec
  <2>. QED  BY <2>1, <2>2, BarrierKeeps
<1>. QED  BY <1>1, <1>2, <1>3

LEMMA SchemaKeeps == ASSUME ServerInv, FlushSchema \/ SchemaDone PROVE ServerInv'
<1>1. Batches(ing) /\ Sound(graph) /\ op = Held
  BY DEF ServerInv, FlushSchema, SchemaDone, At
<1>2. CASE FlushSchema
  <2>1. Issued(OntologyRec(graph.schema))
    BY DEF Issued, OntologyRec
  <2>. QED  BY <1>1, <1>2, <2>1, RestBatches, LocalKeeps, JournalKeeps, SelfKin, OneRecord, Zenon DEF FlushSchema
<1>3. CASE SchemaDone
  <2>. DEFINE h == [Rest(<< >>) EXCEPT !.dirty = FALSE, !.base = NoBase]
              i == Rest(<< >>)
  <2>1. Batches(i)
    BY <1>1, RestBatches, Zenon
  <2>2. h = [i EXCEPT !.dirty = FALSE, !.base = NoBase]
    OBVIOUS
  <2>. HIDE DEF i
  <2>3. DOMAIN h = DOMAIN i /\ h.pend = i.pend /\ h.rels = i.rels /\ h.ups = i.ups
    BY <2>1, <2>2 DEF Batches
  <2>4. Local(h)
    BY <1>3 DEF SchemaDone
  <2>. HIDE DEF h
  <2>. QED  BY <1>1, <2>1, <2>3, <2>4, SameBatches, LocalKeeps, Zenon
<1>. QED  BY <1>2, <1>3

LEMMA SetFields ==
    ASSUME NEW i, Batches(i), NEW f, f \notin {"pend", "rels", "ups"}, NEW v
    PROVE  Batches([i EXCEPT ![f] = v])
BY FieldBatches, Zenon

(* A staged concept has the id the name index knows it by, or a new one.   *)
LEMMA StageKeeps == ASSUME ServerInv, StageConcept PROVE ServerInv'
<1>1. Batches(ing) /\ Keyed(graph) /\ op = Held
  BY DEF ServerInv, Sound, StageConcept, At
<1>2. PICK p, id, todo, seen :
        /\ id \in {0} \cup DOMAIN graph.concepts
        /\ p.id = IdFor(graph, "concept", id)
        /\ \/ Local([ing EXCEPT !.todo = todo])
           \/ Local([Rest(<< >>) EXCEPT !.seen = seen])
           \/ Local(Abort)
           \/ Live([Pushed(Rest(<< >>), "pend", p, Flush) EXCEPT !.seen = seen], Allocate(graph, "concept", id))
  <2>. DEFINE r == Step[2]
              known == ing.upsert /\ Found(r.type, r.name)
              id == IF known THEN Id(r.type, r.name) ELSE 0
              c == [id |-> id, type |-> r.type, name |-> r.name]
              p == [c EXCEPT !.id = IdFor(graph, "concept", id)]
  <2>1. \/ Local([ing EXCEPT !.todo = Flush \o @])
        \/ Local([Rest(<< >>) EXCEPT !.seen = @ \cup {id}])
        \/ Local(Abort)
        \/ Live([Pushed(Rest(<< >>), "pend", p, Flush) EXCEPT !.seen = @ \cup {p.id}],
                              Allocate(graph, "concept", id))
    BY Zenon DEF StageConcept
  <2>2. p.id = IdFor(graph, "concept", id)
    OBVIOUS
  <2>3. ASSUME known PROVE id \in DOMAIN graph.concepts
    <3>1. <<r.type, Lower(r.name)>> \in DOMAIN graph.names /\ id = graph.names[<<r.type, Lower(r.name)>>]
      BY <2>3 DEF Found, Id, Has
    <3>. HIDE DEF id
    <3>2. PICK i \in DOMAIN graph.concepts : KeyOf(graph.concepts[i]) = <<r.type, Lower(r.name)>>
      BY <1>1, <3>1 DEF Keyed
    <3>. QED  BY <1>1, <3>1, <3>2 DEF Keyed
  <2>4. id \in {0} \cup DOMAIN graph.concepts
    BY <2>3
  <2>. HIDE DEF id, p
  <2>. QED  BY <2>1, <2>2, <2>4, Zenon
<1>3. Batches(Rest(<< >>)) /\ Batches([ing EXCEPT !.todo = todo]) /\ Batches(Abort)
  BY <1>1, RestBatches, TodoBatches, AbortBatches, Zenon
<1>4. p.id \in Ids /\ Kin(Allocate(graph, "concept", id))
  BY <1>2, ConceptIds
<1>5. Batches(Pushed(Rest(<< >>), "pend", p, Flush))
  BY <1>3, <1>4, PushedBatches, Zenon
<1>6. \A i : Batches(i) => Batches([i EXCEPT !.seen = seen])
  BY SetFields
<1>. QED  BY <1>1, <1>2, <1>3, <1>4, <1>5, <1>6, LocalKeeps, LiveKeeps, Zenon

LEMMA AddKeeps == ASSUME ServerInv, AddToBatch PROVE ServerInv'
<1>1. Batches(ing) /\ Sound(graph) /\ op = Held
  BY DEF ServerInv, AddToBatch, At
<1>2. PICK p, todo, edges :
        \/ Local([ing EXCEPT !.todo = todo])
        \/ Local(Abort)
        \/ Live([Pushed(Rest(<< >>), "rels", p, << <<"rels">> >>) EXCEPT !.edges = edges],
                Observe(graph, "relation", p.id))
  <2>. DEFINE p == PrepareRelation(graph, Step[2])
  <2>1. \/ Local([ing EXCEPT !.todo = << <<"rels">> >> \o @])
        \/ Local(Abort)
        \/ Live([Pushed(Rest(<< >>), "rels", p, << <<"rels">> >>) EXCEPT !.edges = @ \cup {<<p.src, p.tgt, p.type>>}],
                Observe(graph, "relation", p.id))
    BY Zenon DEF AddToBatch
  <2>. HIDE DEF p
  <2>. QED  BY <2>1, Zenon
<1>3. Batches(Rest(<< >>)) /\ Batches([ing EXCEPT !.todo = todo]) /\ Batches(Abort)
  BY <1>1, RestBatches, TodoBatches, AbortBatches, Zenon
<1>4. Batches(Pushed(Rest(<< >>), "rels", p, << <<"rels">> >>))
  BY <1>3, PushedBatches
<1>5. \A i : Batches(i) => Batches([i EXCEPT !.edges = edges])
  BY SetFields
<1>6. Kin(Observe(graph, "relation", p.id))
  BY NotCounted, ObserveKin
<1>. QED  BY <1>1, <1>2, <1>3, <1>4, <1>5, <1>6, LocalKeeps, LiveKeeps, Zenon

LEMMA NamedKeeps == ASSUME ServerInv, Named PROVE ServerInv'
<1>1. Batches(ing) /\ op = Held
  BY DEF ServerInv, Named, At
<1>2. PICK todo, edges, r, s, t, x :
        \/ Local([ing EXCEPT !.todo = todo])
        \/ Local(Later(r))
        \/ Local([[Rest(<< >>) EXCEPT !.edges = edges] EXCEPT !.rels = Reweighed(@, s, t, r)])
        \/ Local([[Rest(<< >>) EXCEPT !.edges = edges] EXCEPT !.ups = Reweighed(@, s, t, r)])
        \/ Local([Rest(<< >>) EXCEPT !.edges = edges])
        \/ Local(Pushed([Rest(<< >>) EXCEPT !.edges = edges], "ups", x, << <<"ups">> >>))
        \/ Local([[Rest(<< >>) EXCEPT !.edges = edges] EXCEPT !.todo = todo])
  BY Zenon DEF Named
<1>. DEFINE noted == [Rest(<< >>) EXCEPT !.edges = edges]
<1>3. Batches(noted)
  BY <1>1, RestBatches, SetFields, Zenon
<1>4. Batches([ing EXCEPT !.todo = todo]) /\ Batches(Later(r)) /\ Batches([noted EXCEPT !.todo = todo])
  <2>. HIDE DEF noted
  <2>. QED  BY <1>1, <1>3, TodoBatches, LaterBatches, SetFields
<1>5. Batches(Pushed(noted, "ups", x, << <<"ups">> >>))
  <2>. HIDE DEF noted
  <2>. QED  BY <1>3, PushedBatches
<1>6. Batches([noted EXCEPT !.rels = Reweighed(@, s, t, r)])
  <2>1. IsList(noted.rels)
    BY <1>3, Zenon DEF Batches
  <2>. HIDE DEF noted
  <2>2. Batches([noted EXCEPT !.rels = Reweighed(noted.rels, s, t, r)])
    BY <1>3, <2>1, ReweighedList, FieldBatches
  <2>. QED  BY <2>2
<1>7. Batches([noted EXCEPT !.ups = Reweighed(@, s, t, r)])
  <2>1. IsList(noted.ups)
    BY <1>3, Zenon DEF Batches
  <2>. HIDE DEF noted
  <2>2. Batches([noted EXCEPT !.ups = Reweighed(noted.ups, s, t, r)])
    BY <1>3, <2>1, ReweighedList, FieldBatches
  <2>. QED  BY <2>2
<1>8. \/ Local([ing EXCEPT !.todo = todo])
      \/ Local(Later(r))
      \/ Local([noted EXCEPT !.rels = Reweighed(@, s, t, r)])
      \/ Local([noted EXCEPT !.ups = Reweighed(@, s, t, r)])
      \/ Local(noted)
      \/ Local(Pushed(noted, "ups", x, << <<"ups">> >>))
      \/ Local([noted EXCEPT !.todo = todo])
  BY <1>2, Zenon
<1>. HIDE DEF noted
<1>. QED  BY <1>1, <1>3, <1>4, <1>5, <1>6, <1>7, <1>8, LocalKeeps, Zenon

LEMMA RefKeeps == ASSUME ServerInv, IngestRef PROVE ServerInv'
<1>1. Batches(ing) /\ Tidy(graph) /\ op = Held
  BY DEF ServerInv, IngestRef, At
<1>2. PICK r, fam, ends :
        \/ Journal(Rest(<< >>), Observe(graph, fam, graph.next[fam]),
                   <<RefRec([family |-> fam, id |-> graph.next[fam], ends |-> ends])>>)
        \/ Local(Later(r))
  <2>. DEFINE r == Step[2]
              ref == [family |-> r.family, id |-> graph.next[r.family], ends |-> r.ends]
  <2>1. \/ Journal(Rest(<< >>), Observe(graph, ref.family, ref.id), <<RefRec(ref)>>)
        \/ Local(Later(r))
    BY Zenon DEF IngestRef
  <2>2. ref.family = r.family /\ ref.id = graph.next[r.family]
    OBVIOUS
  <2>. QED  BY <2>1, <2>2
<1>3. fam \in Counted => graph.next[fam] \in Ids /\ graph.next[fam] \in Nat
  BY <1>1 DEF Tidy, Ids
<1>4. Kin(Observe(graph, fam, graph.next[fam]))
  BY <1>3, ObserveKin, Zenon
<1>5. Issued(RefRec([family |-> fam, id |-> graph.next[fam], ends |-> ends]))
  BY <1>3 DEF Issued, RefRec
<1>. QED  BY <1>1, <1>2, <1>4, <1>5, RestBatches, LaterBatches, OneRecord, LocalKeeps, JournalKeeps, Zenon

LEMMA DeclaredKeeps == ASSUME ServerInv, op = Held, Batches(ing), NEW s, NEW i, Batches(i), Declared(s, i) PROVE ServerInv'
<1>1. Kin([graph EXCEPT !.schema = s])
  BY SchemaKin
<1>2. PICK base : \/ Local(i) \/ Local([ing EXCEPT !.todo = Flush \o @]) \/ Local(Abort)
                  \/ Live([i EXCEPT !.base = base, !.dirty = TRUE], [graph EXCEPT !.schema = s])
  BY Zenon DEF Declared
<1>. DEFINE h == [i EXCEPT !.base = base, !.dirty = TRUE]
<1>3. DOMAIN h = DOMAIN i /\ h.pend = i.pend /\ h.rels = i.rels /\ h.ups = i.ups
  BY DEF Batches
<1>4. \/ Local(i) \/ Local([ing EXCEPT !.todo = Flush \o @]) \/ Local(Abort)
      \/ Live(h, [graph EXCEPT !.schema = s])
  BY <1>2, Zenon
<1>. HIDE DEF h
<1>5. Batches(h)
  BY <1>3, SameBatches, Zenon
<1>6. Batches([ing EXCEPT !.todo = Flush \o @])
  <2>1. Batches([ing EXCEPT !.todo = Flush \o ing.todo])
    BY TodoBatches, Zenon
  <2>2. [ing EXCEPT !.todo = Flush \o ing.todo] = [ing EXCEPT !.todo = Flush \o @]
    OBVIOUS
  <2>. QED  BY <2>1, <2>2, Zenon
<1>. QED  BY <1>1, <1>4, <1>5, <1>6, AbortBatches, LocalKeeps, LiveKeeps, Zenon

LEMMA TypesKeep == ASSUME ServerInv, DeclareType \/ DeclareRelType \/ IngestOntology PROVE ServerInv'
<1>1. Batches(ing) /\ Sound(graph) /\ op = Held /\ Batches(Rest(<< >>))
  BY RestBatches DEF ServerInv, DeclareType, DeclareRelType, IngestOntology, At
<1>2. CASE DeclareType
  <2>1. PICK s, types : Declared(s, [Rest(<< >>) EXCEPT !.types = types])
    BY <1>2, Zenon DEF DeclareType
  <2>2. Batches([Rest(<< >>) EXCEPT !.types = types])
    BY <1>1, SetFields
  <2>. QED  BY <1>1, <2>1, <2>2, DeclaredKeeps, Zenon
<1>3. CASE DeclareRelType
  <2>. DEFINE h(types, todo, late) == [[ing EXCEPT !.relTypes = types] EXCEPT !.todo = todo, !.late = late]
  <2>1. PICK s, types, todo, late :
          \/ Declared(s, [Rest(<< >>) EXCEPT !.relTypes = types])
          \/ Local(h(types, todo, late))
    <3>. DEFINE r == Step[2]
                i == [ing EXCEPT !.relTypes = @ \cup {r.name}]
    <3>1. \/ Declared([graph.schema EXCEPT !.relTypes = Put(@, r.name, r.decl)],
                      [Rest(<< >>) EXCEPT !.relTypes = i.relTypes])
          \/ Local([i EXCEPT !.todo = Tail(@), !.late = IF ing.second THEN @ ELSE Append(@, r)])
      BY <1>3, Zenon DEF DeclareRelType
    <3>. QED  BY <3>1, Zenon
  <2>2. Batches([Rest(<< >>) EXCEPT !.relTypes = types])
    BY <1>1, SetFields
  <2>. DEFINE k == h(types, todo, late)
  <2>3. DOMAIN k = DOMAIN ing /\ k.pend = ing.pend /\ k.rels = ing.rels /\ k.ups = ing.ups
    BY <1>1 DEF Batches
  <2>4. Declared(s, [Rest(<< >>) EXCEPT !.relTypes = types]) \/ Local(k)
    BY <2>1
  <2>. HIDE DEF k
  <2>5. Batches(k)
    BY <1>1, <2>3, SameBatches, Zenon
  <2>. QED  BY <1>1, <2>2, <2>4, <2>5, DeclaredKeeps, LocalKeeps, Zenon
<1>4. CASE IngestOntology
  <2>1. \A s : Issued(OntologyRec(s))
    BY DEF Issued, OntologyRec
  <2>. QED  BY <1>1, <1>4, <2>1, AbortBatches, OneRecord, SelfKin, LocalKeeps, JournalKeeps, Zenon DEF IngestOntology
<1>. QED  BY <1>2, <1>3, <1>4

LEMMA PruneKeeps == ASSUME ServerInv, Prune \/ PruneLinks PROVE ServerInv'
<1>1. Batches(ing) /\ Sound(graph) /\ op = Held /\ Batches(Rest(<< >>)) /\ Batches(Abort)
  BY RestBatches, AbortBatches DEF ServerInv, Prune, PruneLinks, At
<1>2. IsFiniteSet(DOMAIN graph.concepts) /\ IsFiniteSet(DOMAIN graph.rels)
  BY <1>1 DEF Sound, Shaped
<1>3. CASE Prune
  <2>. DEFINE stale == UNION {OfType(t) \ ing.seen : t \in ing.types}
  <2>1. stale \subseteq DOMAIN graph.concepts
    BY DEF OfType
  <2>2. Local(Abort) \/ Local(Rest(<< >>)) \/ Journal(Rest(<< >>), graph, Cascade(stale))
    BY <1>3, Zenon DEF Prune
  <2>. HIDE DEF stale
  <2>3. IssuedList(Cascade(stale))
    BY <1>1, <1>2, <2>1, SubsetFinite, CascadeList
  <2>. QED  BY <1>1, <2>2, <2>3, SelfKin, LocalKeeps, JournalKeeps, Zenon
<1>4. CASE PruneLinks
  <2>1. PICK P : \/ Local(Rest(<< >>))
                 \/ Journal(Rest(<< >>), graph,
                            [i \in DOMAIN Ascending({r \in DOMAIN graph.rels : r \in P}) |->
                                DelRelRec(Ascending({r \in DOMAIN graph.rels : r \in P})[i])])
    <3>. DEFINE emitted(e) == \/ <<e.src, e.tgt, e.type>> \in ing.edges
                              \/ RelTypeOf(e.type).symmetric /\ <<e.tgt, e.src, e.type>> \in ing.edges
                stale == {r \in DOMAIN graph.rels :
                             LET e == graph.rels[r]
                             IN  /\ e.type \in ing.relTypes /\ ~emitted(e)
                                 /\ \/ e.src \in ing.seen
                                    \/ RelTypeOf(e.type).symmetric /\ e.tgt \in ing.seen}
                ids == Ascending(stale)
    <3>1. Local(Rest(<< >>)) \/ Journal(Rest(<< >>), graph, [i \in DOMAIN ids |-> DelRelRec(ids[i])])
      BY <1>4, Zenon DEF PruneLinks
    <3>2. stale = {r \in DOMAIN graph.rels : r \in stale}
      OBVIOUS
    <3>. HIDE DEF stale
    <3>. QED  BY <3>1, <3>2
  <2>. DEFINE stale == {r \in DOMAIN graph.rels : r \in P}
              ids == Ascending(stale)
              recs == [i \in DOMAIN ids |-> DelRelRec(ids[i])]
  <2>2. IsFiniteSet(stale)
    BY <1>2, SubsetFinite
  <2>. HIDE DEF stale
  <2>3. Cardinality(stale) \in Nat /\ DOMAIN ids = 1 .. Cardinality(stale)
    BY <2>2, AscendingDomain
  <2>. HIDE DEF ids
  <2>4. recs = [i \in 1 .. Cardinality(stale) |-> recs[i]]
    BY <2>3
  <2>5. \A i \in DOMAIN recs : Issued(recs[i])
    BY DEF Issued, DelRelRec
  <2>. HIDE DEF recs
  <2>6. IssuedList(recs)
    BY <2>3, <2>4, <2>5, ListFun, Zenon DEF IssuedList, AllIssued
  <2>. QED  BY <1>1, <2>1, <2>6, SelfKin, LocalKeeps, JournalKeeps, Zenon DEF recs, ids, stale
<1>. QED  BY <1>3, <1>4

LEMMA EndKeeps == ASSUME ServerInv, End PROVE ServerInv'
<1>1. graph' = graph \/ graph' = [graph EXCEPT !.schema = ing.base]
  <2>1. RolledBack = graph \/ RolledBack = [graph EXCEPT !.schema = ing.base]
    BY Zenon DEF RolledBack
  <2>2. graph' = RolledBack \/ graph' = graph
    BY Zenon DEF End
  <2>. QED  BY <2>1, <2>2
<1>2. Kin(graph')
  BY <1>1, SelfKin, SchemaKin, Zenon
<1>3. /\ ing' = NoIngest /\ op' = Idle /\ op = Held /\ journal' = journal /\ adrift' = adrift /\ scene' = scene
  BY DEF End, At
<1>. QED  BY <1>2, <1>3, QuietKeeps, Zenon DEF Running

LEMMA UploadKeeps == ASSUME ServerInv, Upload PROVE ServerInv'
<1>1. PICK src : ing' = Started(src)
  BY DEF Upload
<1>2. op = Idle /\ op' = Held /\ graph' = graph /\ journal' = journal /\ adrift' = adrift /\ scene' = scene
  BY DEF Upload
<1>3. Batches(ing')
  BY <1>1, ListOne DEF Started, Batches
<1>. QED  BY <1>2, <1>3, SelfKin, QuietKeeps, Zenon

LEMMA StillKeeps == ASSUME ServerInv, UNCHANGED ivars PROVE ServerInv'
<1>1. /\ graph' = graph /\ journal' = journal /\ op' = op /\ adrift' = adrift /\ scene' = scene /\ ing' = ing
  BY DEF ivars, wvars
<1>. QED  BY <1>1, Zenon DEF ServerInv, ToldIsKept, NoAbandonedRewrite, Running

(* Every step keeps the invariant, and the invariant says what is claimed. *)
LEMMA ServerStepKeeps == ASSUME ServerInv, [INext]_ivars PROVE ServerInv'
<1>1. CASE IngestStep
  BY <1>1, SourceKeeps, BarriersKeep, SchemaKeeps, StageKeeps, AddKeeps, NamedKeeps, RefKeeps, TypesKeep, PruneKeeps,
     EndKeeps, Zenon DEF IngestStep
<1>. QED  BY <1>1, StillKeeps, CallKeeps, UploadKeeps, ReturnsKeep, LandAdriftKeeps, RestartKeeps, CancelKeeps, CrashKeeps,
             Zenon DEF INext

LEMMA NamesImplied == ASSUME ServerInv PROVE NamesExact
<1>. DEFINE K == {KeyOf(graph.concepts[id]) : id \in DOMAIN graph.concepts}
            N == [k \in K |-> CHOOSE id \in DOMAIN graph.concepts : KeyOf(graph.concepts[id]) = k]
<1>1. Keyed(graph)
  BY DEF ServerInv, Sound
<1>2. DOMAIN graph.names = K /\ graph.names = [k \in DOMAIN graph.names |-> graph.names[k]]
  BY <1>1 DEF Keyed
<1>3. ASSUME NEW k \in K PROVE graph.names[k] = CHOOSE id \in DOMAIN graph.concepts : KeyOf(graph.concepts[id]) = k
  <2>1. \E id \in DOMAIN graph.concepts : KeyOf(graph.concepts[id]) = k
    OBVIOUS
  <2>2. \A id \in DOMAIN graph.concepts : KeyOf(graph.concepts[id]) = k => graph.names[k] = id
    BY <1>1, Zenon DEF Keyed
  <2>. QED  BY <2>1, <2>2, Zenon
<1>4. graph.names = N
  BY <1>2, <1>3
<1>. QED  BY <1>4 DEF NamesExact

LEMMA JournaledImplied == ASSUME ServerInv, NoAbandonedRewrite PROVE Journaled
<1>. SUFFICES ASSUME op.kind # "reset" PROVE Recorded(graph, journal)
  BY Zenon DEF Journaled, Recorded, TellsConcept, TellsRef
<1>1. ToldIsKept
  BY Zenon DEF ServerInv
<1>. QED  BY <1>1, Zenon DEF ToldIsKept

=============================================================================
