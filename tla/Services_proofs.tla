--------------------------- MODULE Services_proofs ---------------------------
(***************************************************************************)
(* Theorems about the parts of the server, stated of the specification     *)
(* that runs one of them at a time, for every value of the constants.  The *)
(* invariants and the steps that preserve them are in Parts_proofs and     *)
(* Answers_proofs, for the writers in Server_proofs, and for the search    *)
(* index, the questions and the extraction here, before the theorems.      *)
(***************************************************************************)
EXTENDS MCServices, Answers_proofs, Server_proofs

-----------------------------------------------------------------------------
(* The search index.  It is an index of the documents it holds, whatever   *)
(* they are: the postings are of their words, the rows are dense and one   *)
(* per document, each under its id.                                        *)
AnIndex(x) == x = [lex |-> x.lex, post |-> x.post, n |-> x.n, rows |-> x.rows, pos |-> x.pos]

(* The words posted are those of the documents, which are counted.         *)
Posted(x) ==
    /\ x.lex = [k \in DOMAIN x.lex |-> x.lex[k]]
    /\ IsFiniteSet(DOMAIN x.lex) /\ x.n = Cardinality(DOMAIN x.lex)
    /\ x.post = [w \in Search!Words |-> x.post[w]]
    /\ \A w \in Search!Words : x.post[w] = {k \in DOMAIN x.lex : w \in x.lex[k]}

(* Every row is where its id says, and every id has a row.                 *)
Dense(x) ==
    /\ x.pos = [k \in DOMAIN x.pos |-> x.pos[k]]
    /\ Len(x.rows) \in Nat /\ x.rows = [j \in 1 .. Len(x.rows) |-> x.rows[j]]
    /\ \A j \in 1 .. Len(x.rows) :
          /\ x.rows[j] = [id |-> x.rows[j].id, vec |-> x.rows[j].vec]
          /\ x.rows[j].id \in DOMAIN x.pos /\ x.pos[x.rows[j].id] = j
    /\ \A k \in DOMAIN x.pos : x.pos[k] \in 1 .. Len(x.rows) /\ x.rows[x.pos[k]].id = k

(* A document has a row, of its text or of a request that failed.          *)
Both(x) ==
    /\ DOMAIN x.pos = DOMAIN x.lex /\ Len(x.rows) = x.n
    /\ \A k \in DOMAIN x.lex : x.rows[x.pos[k]].vec \in {x.lex[k], Search!Zero}

Exact(x) == AnIndex(x) /\ Posted(x) /\ Dense(x) /\ Both(x)

(* What is remembered of the embedder are texts under themselves.          *)
Honest(mem) == \A p \in mem : p[1] = p[2]

XInv ==
    /\ Exact(Search!Here)
    /\ corpus = [i \in Search!ConceptIds |-> corpus[i]] /\ \A i \in Search!ConceptIds : corpus[i] \in IndexTexts \cup {None}
    /\ DOMAIN docTerms = Search!Corpus \cup ghosts /\ Search!Corpus \cap ghosts = {}
    /\ \A i \in Search!Corpus : docTerms[i] = corpus[i]
    /\ Honest(cached) /\ Honest(cacheFile)

LEMMA SearchSizes == ASSUME NEW S PROVE Search!Cardinality(S) = Cardinality(S)
    BY Zenon DEF Search!Cardinality, Cardinality

LEMMA SearchImply == ASSUME XInv PROVE Search!IndexCurrent
<1>1. /\ docTerms = Search!Here.lex /\ postings = Search!Here.post /\ nDocs = Search!Here.n /\ rows = Search!Here.rows
      /\ rowOf = Search!Here.pos
    BY DEF Search!Here
<1>2. /\ nDocs = Cardinality(DOMAIN docTerms) /\ Len(rows) = nDocs /\ DOMAIN rowOf = DOMAIN docTerms
      /\ \A w \in Search!Words : postings[w] = {k \in DOMAIN docTerms : w \in docTerms[k]}
      /\ DOMAIN rows = 1 .. Len(rows) /\ \A j \in DOMAIN rows : rows[j].id \in DOMAIN docTerms /\ rowOf[rows[j].id] = j
      /\ \A k \in DOMAIN docTerms : rowOf[k] \in DOMAIN rows /\ rows[rowOf[k]].id = k
      /\ \A k \in DOMAIN docTerms : rows[rowOf[k]].vec \in {docTerms[k], Search!Zero}
    BY <1>1 DEF XInv, Exact, Posted, Dense, Both
<1>3. /\ DOMAIN docTerms = Search!Corpus \cup ghosts /\ \A i \in Search!Corpus : docTerms[i] = corpus[i]
    BY DEF XInv
<1>4. {rows[k].id : k \in DOMAIN rows} = DOMAIN docTerms
  <2>1. {rows[k].id : k \in DOMAIN rows} \subseteq DOMAIN docTerms
    BY <1>2
  <2>2. ASSUME NEW i \in DOMAIN docTerms PROVE i \in {rows[k].id : k \in DOMAIN rows}
    <3>1. rowOf[i] \in DOMAIN rows /\ rows[rowOf[i]].id = i
      BY <1>2
    <3>. QED  BY <3>1
  <2>. QED  BY <2>1, <2>2
<1>5. ASSUME NEW q \in IndexTexts, NEW typed \in BOOLEAN
      PROVE  Search!Hits(q, typed) = {i \in DOMAIN docTerms : docTerms[i] \cap q # {} /\ (typed => i \in Search!Corpus)}
  <2>1. q \subseteq Search!Words
    BY DEF Search!Words
  <2>2. UNION {postings[w] : w \in q} = {i \in DOMAIN docTerms : docTerms[i] \cap q # {}}
    BY <1>2, <2>1
  <2>3. {rows[k].id : k \in {k \in DOMAIN rows : rows[k].vec \cap q # {}}} \subseteq {i \in DOMAIN docTerms : docTerms[i] \cap q # {}}
    <3>. SUFFICES ASSUME NEW k \in DOMAIN rows, rows[k].vec \cap q # {}
         PROVE  rows[k].id \in DOMAIN docTerms /\ docTerms[rows[k].id] \cap q # {}
      OBVIOUS
    <3>1. rows[k].id \in DOMAIN docTerms /\ rowOf[rows[k].id] = k
      BY <1>2
    <3>2. rows[k].vec \in {docTerms[rows[k].id], Search!Zero}
      BY <1>2, <3>1
    <3>. QED  BY <3>1, <3>2 DEF Search!Zero
  <2>4. PICK A, B : A = UNION {postings[w] : w \in q} /\ B = {rows[k].id : k \in {k \in DOMAIN rows : rows[k].vec \cap q # {}}}
    OBVIOUS
  <2>5. A \cup B = {i \in DOMAIN docTerms : docTerms[i] \cap q # {}}
    BY <2>2, <2>3, <2>4, Zenon
  <2>6. Search!Hits(q, typed) = {i \in A \cup B : typed => i \in Search!Corpus}
    BY <2>4, Zenon DEF Search!Hits
  <2>. QED  BY <2>5, <2>6
<1>6. \A q \in IndexTexts :
          /\ Search!Hits(q, TRUE) = {i \in Search!Corpus : corpus[i] \cap q # {}}
          /\ Search!Hits(q, FALSE) \subseteq Search!Hits(q, TRUE) \cup ghosts
    BY <1>3, <1>5
<1>7. \A i \in Search!Corpus : rows[rowOf[i]].vec \in {corpus[i], Search!Zero}
    BY <1>2, <1>3
<1>8. \A p \in cached \cup cacheFile : p[1] = p[2]
    BY DEF XInv, Honest
<1>9. nDocs = Search!Cardinality(DOMAIN docTerms)
    BY <1>2, SearchSizes
<1>. QED  BY <1>2, <1>3, <1>4, <1>6, <1>7, <1>8, <1>9 DEF Search!IndexCurrent

LEMMA EmptyExact == Exact(Search!Empty)
<1>1. /\ Search!Empty.lex = << >> /\ Search!Empty.post = [w \in Search!Words |-> {}] /\ Search!Empty.n = 0
      /\ Search!Empty.rows = << >> /\ Search!Empty.pos = << >>
    BY DEF Search!Empty
<1>2. AnIndex(Search!Empty)
    BY <1>1 DEF AnIndex, Search!Empty
<1>3. Posted(Search!Empty)
  <2>1. DOMAIN << >> = {} /\ << >> = [k \in {} |-> << >>[k]]
    OBVIOUS
  <2>2. IsFiniteSet({}) /\ Cardinality({}) = 0
    BY FS_EmptySet
  <2>. QED  BY <1>1, <2>1, <2>2 DEF Posted
<1>4. Dense(Search!Empty)
    BY <1>1 DEF Dense
<1>5. Both(Search!Empty)
    BY <1>1 DEF Both
<1>. QED  BY <1>2, <1>3, <1>4, <1>5 DEF Exact

LEMMA SearchBegins == ASSUME Search!SInit PROVE XInv
<1>1. Search!Here = Search!Empty
    BY DEF Search!SInit, Search!Here, Search!Empty
<1>2. Search!Corpus = {} /\ ghosts = {} /\ DOMAIN docTerms = {}
    BY DEF Search!SInit, Search!Corpus, Search!Empty
<1>. QED  BY <1>1, <1>2, EmptyExact DEF XInv, Search!SInit, Honest

(* The words of a document, set anew.                                      *)
Worded(x, y, i, t) ==
    /\ AnIndex(y) /\ y.rows = x.rows /\ y.pos = x.pos
    /\ y.lex = [k \in DOMAIN x.lex \cup {i} |-> IF k = i THEN t ELSE x.lex[k]]
    /\ y.post = [w \in Search!Words |-> IF w \in t THEN (x.post[w] \ {i}) \cup {i} ELSE x.post[w] \ {i}]
    /\ y.n = IF i \in DOMAIN x.lex THEN x.n ELSE x.n + 1

LEMMA PostIs ==
    ASSUME NEW x, AnIndex(x), NEW i, NEW t, NEW y, y = Search!Post(x, i, t)
    PROVE  Worded(x, y, i, t)
<1>1. PICK u : u = Search!Unpost(x, i)
    OBVIOUS
<1>2. /\ AnIndex(u) /\ u.rows = x.rows /\ u.pos = x.pos /\ u.n = x.n
      /\ u.post = [w \in Search!Words |-> x.post[w] \ {i}]
      /\ u.lex = [k \in DOMAIN x.lex \ {i} |-> x.lex[k]]
    BY <1>1 DEF Search!Unpost, AnIndex, Search!Restrict
<1>3. /\ AnIndex(y) /\ y.rows = u.rows /\ y.pos = u.pos /\ y.n = (IF i \in DOMAIN x.lex THEN u.n ELSE u.n + 1)
      /\ y.post = [w \in Search!Words |-> IF w \in t THEN u.post[w] \cup {i} ELSE u.post[w]]
      /\ y.lex = [k \in DOMAIN u.lex \cup {i} |-> IF k = i THEN t ELSE u.lex[k]]
    BY <1>1, <1>2 DEF Search!Post, AnIndex
<1>4. y.lex = [k \in DOMAIN x.lex \cup {i} |-> IF k = i THEN t ELSE x.lex[k]]
  <2>1. DOMAIN u.lex \cup {i} = DOMAIN x.lex \cup {i}
    BY <1>2
  <2>2. \A k \in DOMAIN x.lex \cup {i} : (IF k = i THEN t ELSE u.lex[k]) = (IF k = i THEN t ELSE x.lex[k])
    BY <1>2
  <2>. QED  BY <1>3, <2>1, <2>2
<1>5. y.post = [w \in Search!Words |-> IF w \in t THEN (x.post[w] \ {i}) \cup {i} ELSE x.post[w] \ {i}]
    BY <1>2, <1>3
<1>. QED  BY <1>2, <1>3, <1>4, <1>5 DEF Worded

LEMMA PostKeeps ==
    ASSUME NEW x, AnIndex(x), Posted(x), NEW i, NEW t, NEW y, y = Search!Post(x, i, t)
    PROVE  Posted(y)
<1>1. /\ y.lex = [k \in DOMAIN x.lex \cup {i} |-> IF k = i THEN t ELSE x.lex[k]]
      /\ y.post = [w \in Search!Words |-> IF w \in t THEN (x.post[w] \ {i}) \cup {i} ELSE x.post[w] \ {i}]
      /\ y.n = IF i \in DOMAIN x.lex THEN x.n ELSE x.n + 1
    BY PostIs DEF Worded
<1>2. DOMAIN y.lex = DOMAIN x.lex \cup {i} /\ y.lex = [k \in DOMAIN y.lex |-> y.lex[k]]
    BY <1>1
<1>3. IsFiniteSet(DOMAIN y.lex) /\ y.n = Cardinality(DOMAIN y.lex)
  <2>1. PICK S : S = DOMAIN x.lex
    OBVIOUS
  <2>2. IsFiniteSet(S) /\ x.n = Cardinality(S)
    BY <2>1 DEF Posted
  <2>3. IsFiniteSet(S \cup {i}) /\ Cardinality(S \cup {i}) = IF i \in S THEN Cardinality(S) ELSE Cardinality(S) + 1
    BY <2>2, FS_AddElement
  <2>. QED  BY <1>1, <1>2, <2>1, <2>2, <2>3
<1>4. ASSUME NEW w \in Search!Words PROVE y.post[w] = {k \in DOMAIN y.lex : w \in y.lex[k]}
  <2>1. x.post[w] = {k \in DOMAIN x.lex : w \in x.lex[k]}
    BY DEF Posted
  <2>. QED  BY <1>1, <1>2, <2>1
<1>. QED  BY <1>1, <1>2, <1>3, <1>4 DEF Posted

(* The row of a document, set anew or put last.                            *)
LEMMA UpsertKeeps ==
    ASSUME NEW x, AnIndex(x), Dense(x), NEW i, NEW v, NEW y, y = Search!Upsert(x, i, v)
    PROVE  /\ AnIndex(y) /\ y.lex = x.lex /\ y.post = x.post /\ y.n = x.n
           /\ Dense(y) /\ DOMAIN y.pos = DOMAIN x.pos \cup {i} /\ y.rows[y.pos[i]].vec = v
           /\ \A k \in DOMAIN x.pos : k # i => y.rows[y.pos[k]].vec = x.rows[x.pos[k]].vec
           /\ Len(y.rows) = IF i \in DOMAIN x.pos THEN Len(x.rows) ELSE Len(x.rows) + 1
<1>1. CASE i \in DOMAIN x.pos
  <2>1. y = [x EXCEPT !.rows[x.pos[i]].vec = v]
    BY <1>1 DEF Search!Upsert
  <2>2. PICK j : j = x.pos[i]
    OBVIOUS
  <2>3. j \in 1 .. Len(x.rows) /\ x.rows[j].id = i
    BY <1>1, <2>2 DEF Dense
  <2>4. /\ AnIndex(y) /\ y.lex = x.lex /\ y.post = x.post /\ y.n = x.n /\ y.pos = x.pos
        /\ y.rows = [x.rows EXCEPT ![j] = [x.rows[j] EXCEPT !.vec = v]]
    BY <2>1, <2>2 DEF AnIndex
  <2>5. [x.rows[j] EXCEPT !.vec = v] = [id |-> i, vec |-> v]
    <3>1. PICK w : x.rows[j] = [id |-> i, vec |-> w]
      BY <2>3 DEF Dense
    <3>. QED  BY <3>1
  <2>6. y.rows = [l \in 1 .. Len(x.rows) |-> IF l = j THEN [id |-> i, vec |-> v] ELSE x.rows[l]] /\ Len(x.rows) \in Nat
    BY <2>4, <2>5 DEF Dense
  <2>7. Len(y.rows) = Len(x.rows) /\ y.rows = [l \in 1 .. Len(y.rows) |-> y.rows[l]]
    BY <2>6
  <2>8. \A l \in 1 .. Len(x.rows) : y.rows[l].id = x.rows[l].id /\ y.rows[l] = [id |-> y.rows[l].id, vec |-> y.rows[l].vec]
    BY <2>3, <2>6 DEF Dense
  <2>9. Dense(y)
    <3>1. \A l \in 1 .. Len(y.rows) : y.rows[l].id \in DOMAIN y.pos /\ y.pos[y.rows[l].id] = l
      <4>1. \A l \in 1 .. Len(x.rows) : x.rows[l].id \in DOMAIN x.pos /\ x.pos[x.rows[l].id] = l
        BY DEF Dense
      <4>. QED  BY <2>4, <2>7, <2>8, <4>1
    <3>2. \A k \in DOMAIN y.pos : y.pos[k] \in 1 .. Len(y.rows) /\ y.rows[y.pos[k]].id = k
      BY <2>4, <2>7, <2>8 DEF Dense
    <3>3. y.pos = [k \in DOMAIN y.pos |-> y.pos[k]] /\ Len(y.rows) \in Nat
      BY <2>4, <2>6, <2>7 DEF Dense
    <3>4. \A l \in 1 .. Len(y.rows) : y.rows[l] = [id |-> y.rows[l].id, vec |-> y.rows[l].vec]
      BY <2>7, <2>8
    <3>. QED  BY <2>7, <3>1, <3>2, <3>3, <3>4, Zenon DEF Dense
  <2>10. \A k \in DOMAIN x.pos : k # i => x.pos[k] # j /\ x.pos[k] \in 1 .. Len(x.rows)
    BY <2>3 DEF Dense
  <2>. QED  BY <1>1, <2>2, <2>3, <2>4, <2>6, <2>7, <2>9, <2>10
<1>2. CASE i \notin DOMAIN x.pos
  <2>0. PICK m, r : m = Len(x.rows) + 1 /\ r = [id |-> i, vec |-> v]
    OBVIOUS
  <2>1. y = [x EXCEPT !.rows = Append(@, r), !.pos = [k \in DOMAIN @ \cup {i} |-> IF k = i THEN m ELSE @[k]]]
    BY <1>2, <2>0 DEF Search!Upsert
  <2>2. /\ AnIndex(y) /\ y.lex = x.lex /\ y.post = x.post /\ y.n = x.n
        /\ y.pos = [k \in DOMAIN x.pos \cup {i} |-> IF k = i THEN m ELSE x.pos[k]]
        /\ y.rows = Append(x.rows, r)
    BY <2>1 DEF AnIndex
  <2>3. /\ Len(x.rows) \in Nat /\ x.rows \in Seq({x.rows[j] : j \in 1 .. Len(x.rows)} \cup {r})
    BY DEF Dense
  <2>4. /\ Len(y.rows) = m /\ m \in Nat /\ y.rows = [l \in 1 .. m |-> IF l = m THEN r ELSE x.rows[l]]
    BY <2>0, <2>2, <2>3
  <2>5. \A j \in 1 .. m : y.rows[j] = [id |-> y.rows[j].id, vec |-> y.rows[j].vec] /\ y.rows[j].id \in DOMAIN y.pos /\ y.pos[y.rows[j].id] = j
    BY <1>2, <2>0, <2>2, <2>4 DEF Dense
  <2>6. \A k \in DOMAIN y.pos : y.pos[k] \in 1 .. m /\ y.rows[y.pos[k]].id = k
    BY <1>2, <2>0, <2>2, <2>4 DEF Dense
  <2>7. Dense(y)
    <3>1. y.pos = [k \in DOMAIN y.pos |-> y.pos[k]]
      BY <2>2
    <3>2. Len(y.rows) \in Nat /\ y.rows = [l \in 1 .. Len(y.rows) |-> y.rows[l]] /\ Len(y.rows) = m
      BY <2>4
    <3>. QED  BY <2>5, <2>6, <3>1, <3>2, Zenon DEF Dense
  <2>8. \A k \in DOMAIN x.pos : k # i => y.pos[k] = x.pos[k] /\ x.pos[k] \in 1 .. Len(x.rows)
    BY <2>2 DEF Dense
  <2>9. \A k \in DOMAIN x.pos : k # i => y.rows[y.pos[k]].vec = x.rows[x.pos[k]].vec
    BY <2>0, <2>3, <2>4, <2>8
  <2>10. y.pos[i] = m /\ y.rows[m].vec = v /\ DOMAIN y.pos = DOMAIN x.pos \cup {i}
    BY <2>0, <2>2, <2>4
  <2>. QED  BY <1>2, <2>0, <2>2, <2>4, <2>7, <2>9, <2>10
<1>. QED  BY <1>1, <1>2

(* What the embedder gives, by itself or remembered.                       *)
LEMMA EmbedIs == ASSUME NEW mem, Honest(mem), NEW t, NEW answered PROVE Search!Embed(mem, t, answered) \in {t, Search!Zero}
<1>1. ASSUME Search!Known(mem, t) PROVE (CHOOSE p \in mem : p[1] = t)[2] = t
    BY <1>1 DEF Search!Known, Honest
<1>. QED  BY <1>1 DEF Search!Embed

(* A document set anew, its words and its vector.                          *)
Inserted(x, y, i, t) == Exact(y) /\ y.lex = [k \in DOMAIN x.lex \cup {i} |-> IF k = i THEN t ELSE x.lex[k]]

LEMMA InsertIs ==
    ASSUME NEW x, Exact(x), NEW i, NEW t, NEW mem, Honest(mem), NEW answered, NEW y, y = Search!Insert(x, i, t, mem, answered)
    PROVE  Inserted(x, y, i, t)
<1>0. PICK u, v : u = Search!Post(x, i, t) /\ v = Search!Embed(mem, t, answered)
    OBVIOUS
<1>1. v \in {t, Search!Zero}
    BY <1>0, EmbedIs
<1>2. /\ AnIndex(u) /\ u.rows = x.rows /\ u.pos = x.pos
      /\ u.lex = [k \in DOMAIN x.lex \cup {i} |-> IF k = i THEN t ELSE x.lex[k]]
      /\ u.n = IF i \in DOMAIN x.lex THEN x.n ELSE x.n + 1
    <2>1. AnIndex(x) /\ u = Search!Post(x, i, t)
      BY <1>0 DEF Exact
    <2>2. Worded(x, u, i, t)
      BY <2>1, PostIs
    <2>. QED  BY <2>2 DEF Worded
<1>3. Posted(u) /\ Dense(u)
    BY <1>0, <1>2, PostKeeps DEF Exact, Dense
<1>4. y = Search!Upsert(u, i, v)
    BY <1>0 DEF Search!Insert
<1>5. /\ AnIndex(y) /\ y.lex = u.lex /\ y.post = u.post /\ y.n = u.n
      /\ Dense(y) /\ DOMAIN y.pos = DOMAIN u.pos \cup {i} /\ y.rows[y.pos[i]].vec = v
      /\ \A k \in DOMAIN u.pos : k # i => y.rows[y.pos[k]].vec = u.rows[u.pos[k]].vec
      /\ Len(y.rows) = IF i \in DOMAIN u.pos THEN Len(u.rows) ELSE Len(u.rows) + 1
    BY <1>2, <1>3, <1>4, UpsertKeeps
<1>6. Posted(y)
    BY <1>3, <1>5 DEF Posted
<1>7. Both(y)
    BY <1>1, <1>2, <1>5 DEF Exact, Both
<1>. QED  BY <1>2, <1>5, <1>6, <1>7 DEF Exact, Inserted
(* A document is taken out: its words, then its row, into whose place the  *)
(* last row goes.                                                          *)
LEMMA RemoveIs ==
    ASSUME NEW x, Exact(x), NEW i \in DOMAIN x.lex, NEW y, y = Search!DropRow(Search!Unlist(x, i), i)
    PROVE  Exact(y) /\ y.lex = [k \in DOMAIN x.lex \ {i} |-> x.lex[k]]
<1>1. PICK u : u = Search!Unlist(x, i)
    OBVIOUS
<1>2. /\ AnIndex(u) /\ u.rows = x.rows /\ u.pos = x.pos /\ u.n = x.n - 1
      /\ u.post = [w \in Search!Words |-> x.post[w] \ {i}]
      /\ u.lex = [k \in DOMAIN x.lex \ {i} |-> x.lex[k]]
    BY <1>1 DEF Search!Unlist, Search!Unpost, Exact, AnIndex, Search!Restrict
<1>3. PICK m, l, p : m = Len(x.rows) /\ l = x.rows[m] /\ p = x.pos[i]
    OBVIOUS
<1>4. /\ m \in Nat /\ i \in DOMAIN x.pos /\ p \in 1 .. m /\ x.rows[p].id = i
      /\ m \in 1 .. m /\ l = [id |-> l.id, vec |-> l.vec] /\ l.id \in DOMAIN x.pos /\ x.pos[l.id] = m
    BY <1>3 DEF Exact, Both, Dense
<1>5. /\ AnIndex(y) /\ y.lex = u.lex /\ y.post = u.post /\ y.n = u.n
      /\ y.rows = SubSeq([x.rows EXCEPT ![p] = l], 1, Len([x.rows EXCEPT ![p] = l]) - 1)
      /\ y.pos = [k \in DOMAIN x.pos \ {i} |-> IF k = l.id THEN p ELSE x.pos[k]]
  <2>1. y = [u EXCEPT !.rows = Search!Front([u.rows EXCEPT ![u.pos[i]] = Search!Last(u.rows)]), !.pos = Search!Positions(u, i)]
    BY <1>1, <1>2, <1>4, Zenon DEF Search!DropRow
  <2>2. Search!Last(u.rows) = l
    BY <1>2, <1>3 DEF Search!Last
  <2>3. Search!Positions(u, i) = [k \in DOMAIN x.pos \ {i} |-> IF k = l.id THEN p ELSE x.pos[k]]
    BY <1>2, <1>3, <2>2, Zenon DEF Search!Positions
  <2>. QED  BY <1>2, <1>3, <2>1, <2>2, <2>3 DEF AnIndex, Search!Front
<1>6. Len(y.rows) = m - 1 /\ y.rows = [j \in 1 .. m - 1 |-> IF j = p THEN l ELSE x.rows[j]]
  <2>1. PICK q : q = [x.rows EXCEPT ![p] = l]
    OBVIOUS
  <2>2. x.rows = [j \in 1 .. m |-> x.rows[j]]
    BY <1>3 DEF Exact, Dense
  <2>3. q = [j \in 1 .. m |-> IF j = p THEN l ELSE x.rows[j]]
    BY <1>4, <2>1, <2>2
  <2>4. q \in Seq({q[j] : j \in 1 .. m}) /\ Len(q) = m
    BY <1>4, <2>3
  <2>. QED  BY <1>4, <1>5, <2>1, <2>3, <2>4
<1>7. ASSUME NEW j \in 1 .. m - 1
      PROVE  /\ y.rows[j] = [id |-> y.rows[j].id, vec |-> y.rows[j].vec]
             /\ y.rows[j].id \in DOMAIN y.pos /\ y.pos[y.rows[j].id] = j
  <2>1. j \in 1 .. m /\ j # m
    BY <1>4
  <2>2. /\ x.rows[j] = [id |-> x.rows[j].id, vec |-> x.rows[j].vec] /\ x.rows[j].id \in DOMAIN x.pos
        /\ x.pos[x.rows[j].id] = j
    BY <1>3, <2>1 DEF Exact, Dense
  <2>3. CASE j = p
    <3>1. l.id # i
      BY <1>3, <1>4, <2>1, <2>3
    <3>. QED  BY <1>4, <1>5, <1>6, <2>3, <3>1
  <2>4. CASE j # p
    <3>1. x.rows[j].id # i /\ x.rows[j].id # l.id
      BY <1>3, <1>4, <2>1, <2>2, <2>4
    <3>. QED  BY <1>5, <1>6, <2>2, <2>4, <3>1
  <2>. QED  BY <2>3, <2>4
<1>8. ASSUME NEW k \in DOMAIN y.pos
      PROVE  /\ y.pos[k] \in 1 .. m - 1 /\ y.rows[y.pos[k]].id = k
             /\ y.rows[y.pos[k]].vec = x.rows[x.pos[k]].vec
  <2>1. k \in DOMAIN x.pos /\ k # i /\ x.pos[k] \in 1 .. m /\ x.rows[x.pos[k]].id = k
    BY <1>3, <1>5 DEF Exact, Dense
  <2>2. x.pos[k] # p
    BY <1>4, <2>1
  <2>3. CASE k = l.id
    <3>1. y.pos[k] = p /\ x.pos[k] = m /\ p # m /\ p \in 1 .. m - 1
      BY <1>4, <1>5, <2>1, <2>2, <2>3
    <3>. QED  BY <1>3, <1>6, <2>3, <3>1
  <2>4. CASE k # l.id
    <3>1. y.pos[k] = x.pos[k] /\ x.pos[k] # m
      BY <1>3, <1>5, <2>1, <2>4
    <3>2. x.pos[k] \in 1 .. m - 1
      BY <1>4, <2>1, <3>1
    <3>. QED  BY <1>6, <2>1, <2>2, <3>1, <3>2
  <2>. QED  BY <2>3, <2>4
<1>9. Dense(y)
  <2>1. y.pos = [k \in DOMAIN y.pos |-> y.pos[k]]
    BY <1>5
  <2>2. Len(y.rows) \in Nat /\ y.rows = [j \in 1 .. Len(y.rows) |-> y.rows[j]] /\ Len(y.rows) = m - 1
    BY <1>4, <1>6
  <2>. QED  BY <1>7, <1>8, <2>1, <2>2, Zenon DEF Dense
<1>10. Posted(y)
  <2>1. PICK S : S = DOMAIN x.lex
    OBVIOUS
  <2>2. IsFiniteSet(S) /\ x.n = Cardinality(S) /\ i \in S
    BY <2>1 DEF Exact, Posted
  <2>3. IsFiniteSet(S \ {i}) /\ Cardinality(S \ {i}) = Cardinality(S) - 1
    BY <2>2, FS_RemoveElement
  <2>4. DOMAIN y.lex = S \ {i} /\ y.lex = [k \in DOMAIN y.lex |-> y.lex[k]] /\ y.n = Cardinality(S \ {i})
    BY <1>2, <1>5, <2>1, <2>2, <2>3
  <2>5. ASSUME NEW w \in Search!Words PROVE y.post[w] = {k \in DOMAIN y.lex : w \in y.lex[k]}
    <3>1. x.post[w] = {k \in DOMAIN x.lex : w \in x.lex[k]}
      BY DEF Exact, Posted
    <3>. QED  BY <1>2, <1>5, <3>1
  <2>6. y.post = [w \in Search!Words |-> y.post[w]]
    BY <1>2, <1>5
  <2>. QED  BY <2>3, <2>4, <2>5, <2>6 DEF Posted
<1>11. Both(y)
  <2>1. DOMAIN y.pos = DOMAIN y.lex /\ Len(y.rows) = y.n
    BY <1>2, <1>3, <1>5, <1>6 DEF Exact, Both
  <2>2. \A k \in DOMAIN y.lex : y.lex[k] = x.lex[k] /\ x.rows[x.pos[k]].vec \in {x.lex[k], Search!Zero}
    BY <1>2, <1>5 DEF Exact, Both
  <2>. QED  BY <1>8, <2>1, <2>2 DEF Both
<1>. QED  BY <1>2, <1>5, <1>9, <1>10, <1>11 DEF Exact
-----------------------------------------------------------------------------
(* Folds: of the concepts of a graph into an index, of the items of an     *)
(* answer into a proposal, one after the other.  What a fold goes through  *)
(* exists for any number of them.                                          *)
IndexTurn(r, y, i) == IF r.texts[i] = None THEN y ELSE Search!Insert(y, i, r.texts[i], r.mem, r.answered)
ConceptTurn(r, y, i) == Extract!AddConcept(y, r.items[i])
RelationTurn(r, y, i) == IF r.items[i].ref \in r.known THEN y ELSE Append(y, r.items[i])

Turn(r, y, i) ==
    IF r.what = "index" THEN IndexTurn(r, y, i)
    ELSE IF r.what = "concept" THEN ConceptTurn(r, y, i) ELSE RelationTurn(r, y, i)

TurnFold(r, base, S, f) ==
    f = [u \in SUBSET S |-> IF u = {} THEN base ELSE Turn(r, f[u \ {Max(u)}], Max(u))]

TurnPasses(r, base, n, f) == f[0] = base /\ \A i \in 1 .. n : f[i] = Turn(r, f[i - 1], i)

LEMMA TurnFoldExists ==
    ASSUME NEW r, NEW base, NEW n \in Nat
    PROVE  \E f : TurnFold(r, base, 1 .. n, f)
<1>. DEFINE T == {m \in Nat : \E f : TurnFold(r, base, 1 .. m, f)}
<1>1. 0 \in T
  <2>1. TurnFold(r, base, 1 .. 0, [u \in SUBSET (1 .. 0) |-> base])
    <3>1. \A u \in SUBSET (1 .. 0) : u = {}
      OBVIOUS
    <3>. QED  BY <3>1 DEF TurnFold
  <2>. QED  BY <2>1
<1>2. ASSUME NEW m \in T PROVE m + 1 \in T
  <2>1. PICK f : TurnFold(r, base, 1 .. m, f)
    OBVIOUS
  <2>. DEFINE g == [u \in SUBSET (1 .. m + 1) |-> IF m + 1 \in u THEN Turn(r, f[u \ {m + 1}], m + 1) ELSE f[u]]
              h == [u \in SUBSET (1 .. m + 1) |-> IF u = {} THEN base ELSE Turn(r, g[u \ {Max(u)}], Max(u))]
  <2>2. ASSUME NEW u \in SUBSET (1 .. m + 1) PROVE g[u] = h[u]
    <3>0. m \in Nat /\ u \ {m + 1} \in SUBSET (1 .. m)
      OBVIOUS
    <3>1. CASE m + 1 \in u
      <4>1. Max(u) = m + 1 /\ u # {} /\ u \ {m + 1} \in SUBSET (1 .. m + 1) /\ m + 1 \notin u \ {m + 1}
        BY <3>0, <3>1, TopOf
      <4>2. g[u \ {Max(u)}] = f[u \ {m + 1}]
        BY <4>1, Zenon
      <4>3. g[u] = Turn(r, f[u \ {m + 1}], m + 1)
        BY <3>1, Zenon
      <4>. QED  BY <4>1, <4>2, <4>3, Zenon
    <3>2. CASE m + 1 \notin u
      <4>1. u \in SUBSET (1 .. m) /\ u \ {Max(u)} \in SUBSET (1 .. m) /\ u \ {Max(u)} \in SUBSET (1 .. m + 1)
            /\ m + 1 \notin u \ {Max(u)}
        BY <3>0, <3>2
      <4>2. g[u \ {Max(u)}] = f[u \ {Max(u)}] /\ g[u] = f[u]
        BY <3>2, <4>1, Zenon
      <4>3. f[u] = IF u = {} THEN base ELSE Turn(r, f[u \ {Max(u)}], Max(u))
        BY <2>1, <4>1, Zenon DEF TurnFold
      <4>. QED  BY <4>2, <4>3, Zenon
    <3>. QED  BY <3>1, <3>2
  <2>3. DOMAIN g = DOMAIN h /\ g = [u \in DOMAIN g |-> g[u]] /\ h = [u \in DOMAIN h |-> h[u]]
    BY Zenon
  <2>4. \A u \in DOMAIN g : g[u] = h[u]
    BY <2>2, Zenon
  <2>5. g = h
    <3>. HIDE DEF g, h
    <3>. QED  BY <2>3, <2>4
  <2>6. TurnFold(r, base, 1 .. m + 1, g)
    BY <2>5, Zenon DEF TurnFold
  <2>. QED  BY <2>6
<1>3. T = Nat
  <2>. HIDE DEF T
  <2>1. T \in SUBSET Nat
    BY DEF T
  <2>. QED  BY <1>1, <1>2, <2>1, NatInduct
<1>. QED  BY <1>3

LEMMA TurnFoldPasses ==
    ASSUME NEW r, NEW base, NEW n \in Nat, NEW h, TurnFold(r, base, 1 .. n, h)
    PROVE  \E f : TurnPasses(r, base, n, f) /\ f[n] = h[1 .. n]
<1>. DEFINE f == [i \in 0 .. n |-> h[1 .. i]]
<1>1. ASSUME NEW i \in 1 .. n PROVE f[i] = Turn(r, f[i - 1], i)
  <2>1. 1 .. i \in SUBSET (1 .. n) /\ 1 .. i # {} /\ Max(1 .. i) = i /\ (1 .. i) \ {i} = 1 .. (i - 1)
        /\ i \in 0 .. n /\ i - 1 \in 0 .. n
    BY UpToIsPrefix, Zenon
  <2>2. h[1 .. i] = Turn(r, h[1 .. (i - 1)], i)
    BY <2>1, Zenon DEF TurnFold
  <2>. QED  BY <2>1, <2>2, Zenon
<1>2. f[0] = base
  <2>1. {} \in SUBSET (1 .. n) /\ 1 .. 0 = {} /\ 0 \in 0 .. n
    OBVIOUS
  <2>2. h[{}] = base
    BY <2>1, Zenon DEF TurnFold
  <2>. QED  BY <2>1, <2>2, Zenon
<1>3. f[n] = h[1 .. n]
  OBVIOUS
<1>. HIDE DEF f
<1>. QED  BY <1>1, <1>2, <1>3, Zenon DEF TurnPasses

Refold(r, x, f) ==
    LET each == [i \in Search!ConceptIds |-> i]
    IN  f = [u \in SUBSET DOMAIN each |-> IF u = {} THEN x ELSE Turn(r, f[u \ {Search!Max(u)}], each[Search!Max(u)])]

(* The index of a graph of any size, from an index that is exact: exact,   *)
(* every concept under its text, the rest as it was.                       *)
LEMMA ReindexIs ==
    ASSUME NEW r, r.what = "index", NEW x, Exact(x), Honest(r.mem),
           NEW y, y = (CHOOSE f : Refold(r, x, f))[Search!ConceptIds]
    PROVE  /\ Exact(y)
           /\ DOMAIN y.lex = DOMAIN x.lex \cup {i \in Search!ConceptIds : r.texts[i] # None}
           /\ \A k \in DOMAIN y.lex :
                 y.lex[k] = IF k \in Search!ConceptIds /\ r.texts[k] # None THEN r.texts[k] ELSE x.lex[k]
<1>. DEFINE n == MaxConcepts
            Sofar(z, m) ==
                /\ Exact(z)
                /\ DOMAIN z.lex = DOMAIN x.lex \cup {i \in 1 .. m : r.texts[i] # None}
                /\ \A k \in DOMAIN z.lex :
                      z.lex[k] = IF k \in 1 .. m /\ r.texts[k] # None THEN r.texts[k] ELSE x.lex[k]
<1>0. n \in Nat /\ Search!ConceptIds = 1 .. n
    BY SearchAssumption DEF Search!ConceptIds
<1>1. ASSUME NEW f PROVE Refold(r, x, f) <=> TurnFold(r, x, 1 .. n, f)
  <2>1. PICK p : p = [i \in 1 .. n |-> i]
    OBVIOUS
  <2>2. DOMAIN p = 1 .. n /\ \A i \in 1 .. n : p[i] = i
    BY <2>1
  <2>3. ASSUME NEW u \in SUBSET (1 .. n)
        PROVE (IF u = {} THEN x ELSE Turn(r, f[u \ {Search!Max(u)}], p[Search!Max(u)]))
              = (IF u = {} THEN x ELSE Turn(r, f[u \ {Max(u)}], Max(u)))
    <3>1. Search!Max(u) = Max(u)
      BY Zenon DEF Search!Max, Max
    <3>2. CASE u # {}
      <4>1. u \in SUBSET (0 .. n)
        BY <1>0
      <4>2. Max(u) \in 1 .. n
        BY <1>0, <3>2, <4>1, MaxExists
      <4>. QED  BY <2>2, <3>1, <4>2, Zenon
    <3>. QED  BY <3>2
  <2>4. [u \in SUBSET (1 .. n) |-> IF u = {} THEN x ELSE Turn(r, f[u \ {Search!Max(u)}], p[Search!Max(u)])]
        = [u \in SUBSET (1 .. n) |-> IF u = {} THEN x ELSE Turn(r, f[u \ {Max(u)}], Max(u))]
    BY <2>3, Zenon
  <2>5. Refold(r, x, f) <=> f = [u \in SUBSET (1 .. n) |-> IF u = {} THEN x ELSE Turn(r, f[u \ {Search!Max(u)}], p[Search!Max(u)])]
    <3>1. Search!ConceptIds = 1 .. n
      BY <1>0
    <3>2. Refold(r, x, f) <=> f = [u \in SUBSET DOMAIN p |-> IF u = {} THEN x ELSE Turn(r, f[u \ {Search!Max(u)}], p[Search!Max(u)])]
      BY <2>1, <3>1, Zenon DEF Refold
    <3>. QED  BY <2>2, <3>2, Zenon
  <2>. QED  BY <2>4, <2>5, Zenon DEF TurnFold
<1>2. TurnFold(r, x, 1 .. n, CHOOSE f : Refold(r, x, f))
  <2>1. PICK f : TurnFold(r, x, 1 .. n, f)
    BY <1>0, TurnFoldExists
  <2>2. Refold(r, x, f)
    BY <1>1, <2>1
  <2>3. Refold(r, x, CHOOSE g : Refold(r, x, g))
    BY <2>2, Zenon
  <2>. QED  BY <1>1, <2>3
<1>3. PICK f : TurnPasses(r, x, n, f) /\ f[n] = y
  <2>1. PICK h : h = (CHOOSE f : Refold(r, x, f))
    OBVIOUS
  <2>2. TurnFold(r, x, 1 .. n, h) /\ y = h[1 .. n]
    BY <1>0, <1>2, <2>1, Zenon
  <2>3. \E f : TurnPasses(r, x, n, f) /\ f[n] = h[1 .. n]
    BY <1>0, <2>2, TurnFoldPasses
  <2>. QED  BY <2>2, <2>3
<1>4. Sofar(f[0], 0)
    BY <1>3 DEF TurnPasses
<1>5. ASSUME NEW m \in 1 .. n, Sofar(f[m - 1], m - 1) PROVE Sofar(f[m], m)
  <2>1. PICK a, b : a = f[m - 1] /\ b = f[m]
    OBVIOUS
  <2>2. b = Turn(r, a, m) /\ Sofar(a, m - 1)
    BY <1>3, <1>5, <2>1 DEF TurnPasses
  <2>3. 1 .. m = 1 .. (m - 1) \cup {m} /\ m \notin 1 .. (m - 1)
    BY <1>0
  <2>4. CASE r.texts[m] = None
    <3>1. b = a
      BY <2>2, <2>4, Zenon DEF Turn, IndexTurn
    <3>. QED  BY <2>1, <2>2, <2>3, <2>4, <3>1
  <2>5. CASE r.texts[m] # None
    <3>1. b = Search!Insert(a, m, r.texts[m], r.mem, r.answered)
      BY <2>2, <2>5, Zenon DEF Turn, IndexTurn
    <3>2. Inserted(a, b, m, r.texts[m])
      <4>1. PICK t, mem, answered : t = r.texts[m] /\ mem = r.mem /\ answered = r.answered
        OBVIOUS
      <4>2. Exact(a) /\ Honest(mem) /\ b = Search!Insert(a, m, t, mem, answered)
        BY <2>2, <3>1, <4>1
      <4>. QED  BY <4>1, <4>2, InsertIs
    <3>. QED  BY <2>1, <2>2, <2>3, <2>5, <3>2 DEF Inserted
  <2>. QED  BY <2>4, <2>5
<1>. DEFINE T == {m \in Nat : m <= n => Sofar(f[m], m)}
<1>6. T = Nat
  <2>1. T \in SUBSET Nat /\ 0 \in T
    BY <1>4
  <2>2. ASSUME NEW m \in T PROVE m + 1 \in T
    <3>1. CASE m + 1 <= n
      <4>1. m + 1 \in 1 .. n /\ (m + 1) - 1 = m /\ Sofar(f[m], m)
        BY <1>0, <3>1
      <4>. HIDE DEF Sofar
      <4>2. Sofar(f[m + 1], m + 1)
        BY <1>5, <4>1
      <4>. QED  BY <4>2
    <3>. QED  BY <3>1
  <2>. HIDE DEF T
  <2>. QED  BY <2>1, <2>2, NatInduct
<1>7. Sofar(f[n], n)
  <2>. HIDE DEF Sofar
  <2>. QED  BY <1>0, <1>6
<1>. QED  BY <1>0, <1>3, <1>7
-----------------------------------------------------------------------------
(* The steps.                                                              *)
LEMMA RememberHonest ==
    ASSUME NEW mem, Honest(mem), NEW texts, NEW answered, NEW fresh, fresh = Search!Remember(mem, texts, answered)
    PROVE  Honest(fresh)
<1>1. \A t \in texts : Search!Embed(mem, t, answered) \in {t, Search!Zero}
    BY EmbedIs
<1>. QED  BY <1>1 DEF Search!Remember, Honest

LEMMA PutIs == ASSUME NEW z, AnIndex(z), Search!Put(z) PROVE Search!Here' = z
BY DEF AnIndex, Search!Put, Search!Here

LEMMA IndexConceptKeeps ==
    ASSUME XInv, NEW i \in Search!ConceptIds, NEW t \in IndexTexts, corpus' = [corpus EXCEPT ![i] = t],
           NEW answered, Search!IndexConcept(i, answered)
    PROVE  XInv'
<1>1. PICK x, mem, z : x = Search!Here /\ mem = cached /\ z = Search!Insert(x, i, t, mem, answered)
    OBVIOUS
<1>2. Exact(x) /\ Honest(mem) /\ x.lex = docTerms
    BY <1>1 DEF XInv, Search!Here
<1>3. Inserted(x, z, i, t)
    BY <1>1, <1>2, InsertIs
<1>4. corpus' = [k \in Search!ConceptIds |-> IF k = i THEN t ELSE corpus[k]]
    BY DEF XInv
<1>5. corpus'[i] = t /\ t # None
    BY <1>4, NoneAssumption
<1>6. /\ Search!Put(z) /\ cached' = Search!Remember(mem, {t}, answered) /\ ghosts' = ghosts \ {i} /\ cacheFile' = cacheFile
    BY <1>1, <1>5 DEF Search!IndexConcept
<1>7. Search!Here' = z
    BY <1>3, <1>6, PutIs DEF Inserted, Exact
<1>8. docTerms' = [k \in DOMAIN docTerms \cup {i} |-> IF k = i THEN t ELSE docTerms[k]]
    BY <1>2, <1>3, <1>6 DEF Search!Put, Inserted
<1>9. Search!Corpus' = Search!Corpus \cup {i}
    BY <1>4, <1>5 DEF Search!Corpus
<1>10. Exact(Search!Here)'
    BY <1>3, <1>7 DEF Inserted
<1>11. Honest(cached)' /\ Honest(cacheFile)'
  <2>1. PICK fresh : fresh = cached'
    OBVIOUS
  <2>2. Honest(fresh)
    BY <1>2, <1>6, <2>1, RememberHonest
  <2>. QED  BY <1>6, <2>1, <2>2 DEF XInv, Honest
<1>12. /\ (DOMAIN docTerms)' = Search!Corpus' \cup ghosts' /\ Search!Corpus' \cap ghosts' = {}
       /\ \A k \in Search!Corpus' : docTerms'[k] = corpus'[k]
    BY <1>4, <1>6, <1>8, <1>9 DEF XInv, Search!Corpus
<1>13. corpus' = [k \in Search!ConceptIds |-> corpus'[k]] /\ \A k \in Search!ConceptIds : corpus'[k] \in IndexTexts \cup {None}
    BY <1>4 DEF XInv
<1>. QED  BY <1>10, <1>11, <1>12, <1>13 DEF XInv

Reindexed(x, y, texts) ==
    /\ Exact(y)
    /\ DOMAIN y.lex = DOMAIN x.lex \cup {i \in Search!ConceptIds : texts[i] # None}
    /\ \A k \in DOMAIN y.lex :
          y.lex[k] = IF k \in Search!ConceptIds /\ texts[k] # None THEN texts[k] ELSE x.lex[k]

LEMMA ReindexGives ==
    ASSUME NEW x, Exact(x), NEW mem, Honest(mem), NEW changed, NEW answered, Search!Reindex(x, mem, changed, answered)
    PROVE  /\ Reindexed(x, Search!Here', corpus')
           /\ Honest(cached)' /\ cacheFile' \in {cached', cacheFile}
<1>1. PICK r, y : r = [what |-> "index", texts |-> corpus', mem |-> mem, answered |-> answered] /\ y = (CHOOSE f : Refold(r, x, f))[Search!ConceptIds]
    OBVIOUS
<1>2. r.what = "index" /\ r.texts = corpus' /\ r.mem = mem /\ r.answered = answered
    BY <1>1
<1>3. Search!Put(y)
  <2>. DEFINE Each(z, i) == IF corpus'[i] = None THEN z ELSE Search!Insert(z, i, corpus'[i], mem, answered)
              order == [i \in Search!ConceptIds |-> i]
              G(f) == f = [u \in SUBSET DOMAIN order |-> IF u = {} THEN x ELSE Each(f[u \ {Search!Max(u)}], order[Search!Max(u)])]
  <2>1. ASSUME NEW z, NEW i PROVE Each(z, i) = Turn(r, z, i)
    BY <1>2, Zenon DEF Turn, IndexTurn
  <2>2. ASSUME NEW f PROVE G(f) <=> Refold(r, x, f)
    BY <1>2, Zenon DEF Refold, Turn, IndexTurn
  <2>3. (CHOOSE f : G(f)) = (CHOOSE f : Refold(r, x, f))
    <3>. HIDE DEF G
    <3>. QED  BY <2>2, Zenon
  <2>4. Search!Put((CHOOSE f : G(f))[Search!ConceptIds])
    <3>1. DOMAIN order = Search!ConceptIds
      BY Zenon
    <3>2. Search!Put((CHOOSE f : G(f))[DOMAIN order])
      BY Zenon DEF Search!Reindex, Search!FoldLeft, Search!MapThenFoldSet
    <3>. HIDE DEF G, order
    <3>. QED  BY <3>1, <3>2, Zenon
  <2>. HIDE DEF G
  <2>. QED  BY <1>1, <2>3, <2>4, Zenon
<1>4. Reindexed(x, y, corpus')
    BY <1>1, <1>2, ReindexIs DEF Reindexed
<1>5. Search!Here' = y
    BY <1>3, <1>4, PutIs DEF Reindexed, Exact
<1>6. PICK texts, fresh :
        /\ texts = {corpus'[i] : i \in {j \in Search!ConceptIds : corpus'[j] # None}}
        /\ fresh = Search!Remember(mem, texts, answered)
    OBVIOUS
<1>7. cached' = fresh /\ Search!Save(fresh, changed \/ fresh # mem)
    BY <1>6, Zenon DEF Search!Reindex
<1>8. Honest(fresh)
    BY <1>6, RememberHonest
<1>9. cacheFile' \in {fresh, cacheFile}
    BY <1>7 DEF Search!Save
<1>. QED  BY <1>4, <1>5, <1>7, <1>8, <1>9 DEF Honest

LEMMA ReindexKeeps ==
    ASSUME XInv, NEW x, Exact(x), NEW mem, Honest(mem), NEW changed, NEW answered, Search!Reindex(x, mem, changed, answered),
           corpus' = [i \in Search!ConceptIds |-> corpus'[i]], \A i \in Search!ConceptIds : corpus'[i] \in IndexTexts \cup {None},
           DOMAIN x.lex \cup Search!Corpus' = Search!Corpus' \cup ghosts', Search!Corpus' \cap ghosts' = {}
    PROVE  XInv'
<1>1. /\ Reindexed(x, Search!Here', corpus')
      /\ Honest(cached)' /\ cacheFile' \in {cached', cacheFile}
    BY ReindexGives
<1>2. Search!Here'.lex = docTerms' /\ Search!Corpus' = {i \in Search!ConceptIds : corpus'[i] # None}
    BY DEF Search!Here, Search!Corpus
<1>3. (DOMAIN docTerms)' = Search!Corpus' \cup ghosts' /\ \A i \in Search!Corpus' : docTerms'[i] = corpus'[i]
    BY <1>1, <1>2 DEF Reindexed
<1>4. Exact(Search!Here)' /\ Honest(cacheFile)'
    BY <1>1 DEF Reindexed, XInv, Honest
<1>. QED  BY <1>1, <1>3, <1>4 DEF XInv

LEMMA SearchStepKeeps == ASSUME XInv, Search!SNext PROVE XInv'
<1>0. PICK x, mem : x = Search!Here /\ mem = cached
    OBVIOUS
<1>a. Exact(x) /\ Honest(mem) /\ x.lex = docTerms
    BY <1>0 DEF XInv, Search!Here
<1>1. CASE Search!Create
  <2>1. PICK t \in IndexTexts, answered \in BOOLEAN :
          /\ nextConcept \in Search!ConceptIds
          /\ corpus' = [corpus EXCEPT ![nextConcept] = t]
          /\ Search!IndexConcept(nextConcept, answered)
    BY <1>1 DEF Search!Create
  <2>2. PICK i : i = nextConcept
    OBVIOUS
  <2>3. i \in Search!ConceptIds /\ corpus' = [corpus EXCEPT ![i] = t] /\ Search!IndexConcept(i, answered)
    BY <2>1, <2>2
  <2>. QED  BY <2>3, IndexConceptKeeps
<1>2. CASE Search!Update
  <2>1. PICK i \in Search!Corpus, t \in IndexTexts, answered \in BOOLEAN :
          corpus' = [corpus EXCEPT ![i] = t] /\ Search!IndexConcept(i, answered)
    BY <1>2 DEF Search!Update
  <2>2. i \in Search!ConceptIds
    BY DEF Search!Corpus
  <2>. QED  BY <2>1, <2>2, IndexConceptKeeps
<1>3. CASE Search!Delete
  <2>1. PICK i \in Search!Corpus :
          /\ corpus' = [corpus EXCEPT ![i] = None]
          /\ Search!Put(Search!DropRow(Search!Unlist(Search!Here, i), i))
          /\ cached' = cached /\ cacheFile' = cacheFile /\ ghosts' = ghosts
    BY <1>3 DEF Search!Delete
  <2>2. PICK z : z = Search!DropRow(Search!Unlist(x, i), i)
    OBVIOUS
  <2>3. i \in DOMAIN x.lex /\ i \notin ghosts /\ i \in Search!ConceptIds
    BY <1>a DEF XInv, Search!Corpus
  <2>4. Exact(z) /\ z.lex = [k \in DOMAIN x.lex \ {i} |-> x.lex[k]]
    BY <1>a, <2>2, <2>3, RemoveIs
  <2>5. Search!Put(z)
    BY <1>0, <2>1, <2>2
  <2>6. Search!Here' = z
    BY <2>4, <2>5, PutIs DEF Exact
  <2>7. docTerms' = [k \in DOMAIN docTerms \ {i} |-> docTerms[k]]
    BY <1>a, <2>4, <2>5 DEF Search!Put
  <2>8. corpus' = [k \in Search!ConceptIds |-> IF k = i THEN None ELSE corpus[k]]
    BY <2>1, <2>3 DEF XInv
  <2>9. Search!Corpus' = Search!Corpus \ {i}
    BY <2>8 DEF Search!Corpus
  <2>10. /\ (DOMAIN docTerms)' = Search!Corpus' \cup ghosts' /\ Search!Corpus' \cap ghosts' = {}
         /\ \A k \in Search!Corpus' : docTerms'[k] = corpus'[k]
    BY <2>1, <2>3, <2>7, <2>8, <2>9 DEF XInv
  <2>11. /\ corpus' = [k \in Search!ConceptIds |-> corpus'[k]] /\ \A k \in Search!ConceptIds : corpus'[k] \in IndexTexts \cup {None}
         /\ Honest(cached)' /\ Honest(cacheFile)'
    BY <2>1, <2>8 DEF XInv, Honest
  <2>12. Exact(Search!Here)'
    BY <2>4, <2>6
  <2>. QED  BY <2>10, <2>11, <2>12 DEF XInv
<1>4. CASE Search!Upload
  <2>1. PICK t \in IndexTexts, answered \in BOOLEAN :
          /\ \/ \E i \in Search!Corpus : corpus' = [corpus EXCEPT ![i] = t]
             \/ nextConcept \in Search!ConceptIds /\ corpus' = [corpus EXCEPT ![nextConcept] = t]
          /\ Search!Reindex(Search!Here, cached, dirty, answered)
          /\ ghosts' = ghosts \ {i \in Search!ConceptIds : corpus'[i] # None}
    BY <1>4 DEF Search!Upload
  <2>2. PICK i \in Search!ConceptIds : corpus' = [corpus EXCEPT ![i] = t]
    BY <2>1 DEF Search!Corpus
  <2>3. corpus' = [k \in Search!ConceptIds |-> IF k = i THEN t ELSE corpus[k]]
    BY <2>2 DEF XInv
  <2>4. Search!Corpus' = Search!Corpus \cup {i} /\ ghosts' = ghosts \ Search!Corpus'
    BY <2>1, <2>3, NoneAssumption DEF Search!Corpus
  <2>5. /\ corpus' = [k \in Search!ConceptIds |-> corpus'[k]] /\ \A k \in Search!ConceptIds : corpus'[k] \in IndexTexts \cup {None}
    BY <2>3 DEF XInv
  <2>6. DOMAIN x.lex \cup Search!Corpus' = Search!Corpus' \cup ghosts' /\ Search!Corpus' \cap ghosts' = {}
    BY <1>a, <2>4 DEF XInv
  <2>7. PICK changed : changed = dirty
    OBVIOUS
  <2>8. Search!Reindex(x, mem, changed, answered)
    BY <1>0, <2>1, <2>7
  <2>. QED  BY <1>a, <2>5, <2>6, <2>8, ReindexKeeps
<1>5. CASE Search!Reset
  <2>1. /\ corpus' = [i \in Search!ConceptIds |-> None] /\ ghosts' = DOMAIN docTerms
        /\ Search!Reindex(Search!Here, cached, dirty, TRUE)
    BY <1>5 DEF Search!Reset
  <2>2. Search!Corpus' = {}
    BY <2>1 DEF Search!Corpus
  <2>3. /\ corpus' = [k \in Search!ConceptIds |-> corpus'[k]] /\ \A k \in Search!ConceptIds : corpus'[k] \in IndexTexts \cup {None}
    BY <2>1
  <2>4. DOMAIN x.lex \cup Search!Corpus' = Search!Corpus' \cup ghosts' /\ Search!Corpus' \cap ghosts' = {}
    BY <1>a, <2>1, <2>2
  <2>5. PICK changed : changed = dirty
    OBVIOUS
  <2>6. Search!Reindex(x, mem, changed, TRUE)
    BY <1>0, <2>1, <2>5
  <2>. QED  BY <1>a, <2>3, <2>4, <2>6, ReindexKeeps
<1>6. CASE Search!Restart
  <2>1. PICK answered \in BOOLEAN :
          corpus' = corpus /\ ghosts' = {} /\ Search!Reindex(Search!Empty, cacheFile, FALSE, answered)
    BY <1>6 DEF Search!Restart
  <2>2. /\ corpus' = [k \in Search!ConceptIds |-> corpus'[k]] /\ \A k \in Search!ConceptIds : corpus'[k] \in IndexTexts \cup {None}
    BY <2>1 DEF XInv
  <2>3. PICK e, m : e = Search!Empty /\ m = cacheFile
    OBVIOUS
  <2>4. Exact(e) /\ Honest(m) /\ DOMAIN e.lex = {}
    BY <2>3, EmptyExact DEF XInv, Search!Empty
  <2>5. DOMAIN e.lex \cup Search!Corpus' = Search!Corpus' \cup ghosts' /\ Search!Corpus' \cap ghosts' = {}
    BY <2>1, <2>4
  <2>6. Search!Reindex(e, m, FALSE, answered)
    BY <2>1, <2>3
  <2>. QED  BY <2>2, <2>4, <2>5, <2>6, ReindexKeeps
<1>. QED  BY <1>1, <1>2, <1>3, <1>4, <1>5, <1>6 DEF Search!SNext

LEMMA SearchStays == ASSUME XInv, UNCHANGED searchVars PROVE XInv'
BY DEF XInv, searchVars, Search!Here, Search!Corpus

-----------------------------------------------------------------------------
(* The questions.  The text of a sequence, element by element: what the    *)
(* recursion goes through exists for any length.                           *)
Said(texts, x) == IF x \in Deltas THEN Append(texts, x) ELSE texts

Reading(s, n, f) == f = [i \in 0 .. n |-> IF i = 0 THEN << >> ELSE Said(f[i - 1], s[i])]

Reads(s, n, f) == f[0] = << >> /\ \A i \in 1 .. n : f[i] = Said(f[i - 1], s[i])

LEMMA ReadingExists == ASSUME NEW s, NEW n \in Nat PROVE \E f : Reading(s, n, f)
<1>. DEFINE T == {m \in Nat : \E f : Reading(s, m, f)}
<1>1. 0 \in T
  <2>1. Reading(s, 0, [i \in 0 .. 0 |-> << >>])
    BY DEF Reading
  <2>. QED  BY <2>1
<1>2. ASSUME NEW m \in T PROVE m + 1 \in T
  <2>1. PICK f : Reading(s, m, f)
    OBVIOUS
  <2>2. PICK g : g = [i \in 0 .. m + 1 |-> IF i = m + 1 THEN Said(f[m], s[m + 1]) ELSE f[i]]
    OBVIOUS
  <2>3. ASSUME NEW i \in 0 .. m + 1 PROVE g[i] = IF i = 0 THEN << >> ELSE Said(g[i - 1], s[i])
    <3>1. CASE i = m + 1
      <4>1. g[i] = Said(f[m], s[i]) /\ g[i - 1] = f[m] /\ i # 0
        BY <2>2, <3>1
      <4>. QED  BY <4>1, Zenon
    <3>2. CASE i # m + 1 /\ i # 0
      <4>1. i \in 0 .. m /\ g[i] = f[i] /\ g[i - 1] = f[i - 1]
        BY <2>2, <3>2
      <4>2. f[i] = Said(f[i - 1], s[i])
        BY <2>1, <3>2, <4>1 DEF Reading
      <4>. QED  BY <3>2, <4>1, <4>2, Zenon
    <3>3. CASE i = 0
      <4>1. f[0] = << >>
        BY <2>1 DEF Reading
      <4>. QED  BY <2>2, <3>3, <4>1
    <3>. QED  BY <3>1, <3>2, <3>3
  <2>4. g = [i \in 0 .. m + 1 |-> g[i]]
    BY <2>2
  <2>5. [i \in 0 .. m + 1 |-> g[i]] = [i \in 0 .. m + 1 |-> IF i = 0 THEN << >> ELSE Said(g[i - 1], s[i])]
    BY <2>3, Zenon
  <2>6. Reading(s, m + 1, g)
    BY <2>4, <2>5, Zenon DEF Reading
  <2>. QED  BY <2>6
<1>3. T = Nat
  <2>. HIDE DEF T
  <2>1. T \in SUBSET Nat
    BY DEF T
  <2>. QED  BY <1>1, <1>2, <2>1, NatInduct
<1>. QED  BY <1>3

LEMMA TextReads ==
    ASSUME NEW s, NEW n \in Nat, n = Len(s)
    PROVE  \E f : Reads(s, n, f) /\ Ask!TextOf(s) = f[n]
<1>1. PICK h : h = CHOOSE f : Reading(s, n, f)
    OBVIOUS
<1>2. Reading(s, n, h)
    BY <1>1, ReadingExists, Zenon
<1>3. \A i \in 0 .. n : h[i] = IF i = 0 THEN << >> ELSE Said(h[i - 1], s[i])
    BY <1>2 DEF Reading
<1>4. Reads(s, n, h)
    BY <1>3 DEF Reads
<1>5. Ask!TextOf(s) = h[n]
    BY <1>1, Zenon DEF Ask!TextOf, Reading, Said
<1>. QED  BY <1>4, <1>5

(* Two sequences that begin alike read alike.                              *)
LEMMA ReadsAgree ==
    ASSUME NEW s, NEW t, NEW n \in Nat, NEW f, NEW g, Reads(s, n, f), Reads(t, n, g), \A i \in 1 .. n : s[i] = t[i]
    PROVE  \A m \in 0 .. n : f[m] = g[m]
<1>. DEFINE T == {m \in Nat : m <= n => f[m] = g[m]}
<1>1. 0 \in T
    BY DEF Reads
<1>2. ASSUME NEW m \in T PROVE m + 1 \in T
  <2>1. CASE m + 1 <= n
    <3>1. m + 1 \in 1 .. n /\ (m + 1) - 1 = m /\ f[m] = g[m]
      BY <2>1
    <3>2. f[m + 1] = Said(f[m], s[m + 1]) /\ g[m + 1] = Said(g[m], t[m + 1]) /\ s[m + 1] = t[m + 1]
      BY <3>1 DEF Reads
    <3>. QED  BY <3>1, <3>2
  <2>. QED  BY <2>1
<1>3. T = Nat
  <2>. HIDE DEF T
  <2>1. T \in SUBSET Nat
    BY DEF T
  <2>. QED  BY <1>1, <1>2, <2>1, NatInduct
<1>. QED  BY <1>3

LEMMA TextAppended ==
    ASSUME NEW S, NEW s \in Seq(S), NEW x \in S
    PROVE  Ask!TextOf(Append(s, x)) = Said(Ask!TextOf(s), x)
<1>1. PICK n, t : n = Len(s) /\ t = Append(s, x)
    OBVIOUS
<1>2. n \in Nat /\ n + 1 = Len(t) /\ n + 1 \in Nat /\ (\A i \in 1 .. n : s[i] = t[i]) /\ t[n + 1] = x
    BY <1>1
<1>3. PICK f : Reads(s, n, f) /\ Ask!TextOf(s) = f[n]
    BY <1>1, <1>2, TextReads
<1>4. PICK g : Reads(t, n + 1, g) /\ Ask!TextOf(t) = g[n + 1]
    BY <1>2, TextReads
<1>5. Reads(t, n, g) /\ g[n + 1] = Said(g[n], x)
    BY <1>2, <1>4 DEF Reads
<1>6. f[n] = g[n]
  <2>1. \A m \in 0 .. n : f[m] = g[m]
    BY <1>2, <1>3, <1>5, ReadsAgree
  <2>. QED  BY <1>2, <2>1
<1>. QED  BY <1>1, <1>3, <1>4, <1>5, <1>6

(* The texts of a script grow by the deltas, and no more once none follow. *)
Longer(f, u, n) ==
    /\ f[u] \in Seq(Deltas) /\ f[n] \in Seq(Deltas)
    /\ Len(f[u]) <= Len(f[n]) /\ \A i \in 1 .. Len(f[u]) : f[u][i] = f[n][i]

LEMMA ReadsGrow ==
    ASSUME NEW s, NEW n \in Nat, NEW f, Reads(s, n, f), NEW u \in 0 .. n
    PROVE  /\ Longer(f, u, n)
           /\ (\A i \in u + 1 .. n : s[i] \notin Deltas) => f[n] = f[u]
<1>. DEFINE Grown(m) ==
              /\ f[m] \in Seq(Deltas)
              /\ u <= m => /\ f[u] \in Seq(Deltas) /\ Len(f[u]) <= Len(f[m]) /\ \A i \in 1 .. Len(f[u]) : f[u][i] = f[m][i]
                           /\ (\A i \in u + 1 .. m : s[i] \notin Deltas) => f[m] = f[u]
            T == {m \in Nat : m <= n => Grown(m)}
<1>1. 0 \in T
  <2>1. f[0] = << >> /\ << >> \in Seq(Deltas) /\ 1 .. Len(<< >>) = {}
    BY DEF Reads
  <2>2. CASE u = 0
    BY <2>1, <2>2
  <2>3. CASE u # 0
    <3>1. ~(u <= 0)
      BY <2>3
    <3>. QED  BY <2>1, <3>1
  <2>. QED  BY <2>2, <2>3
<1>2. ASSUME NEW m \in T PROVE m + 1 \in T
  <2>. SUFFICES ASSUME m + 1 <= n PROVE Grown(m + 1)
    OBVIOUS
  <2>1. m \in Nat /\ m + 1 \in 1 .. n /\ (m + 1) - 1 = m /\ Grown(m)
    OBVIOUS
  <2>2. f[m + 1] = Said(f[m], s[m + 1])
    BY <2>1 DEF Reads
  <2>3. /\ f[m + 1] \in Seq(Deltas) /\ Len(f[m]) <= Len(f[m + 1]) /\ \A i \in 1 .. Len(f[m]) : f[m][i] = f[m + 1][i]
        /\ s[m + 1] \notin Deltas => f[m + 1] = f[m]
    BY <2>1, <2>2 DEF Said
  <2>4. CASE u = m + 1
    BY <2>3, <2>4
  <2>5. CASE u <= m
    <3>1. m + 1 \in u + 1 .. m + 1 /\ u + 1 .. m \subseteq u + 1 .. m + 1
      BY <2>1, <2>5
    <3>2. f[u] \in Seq(Deltas) /\ Len(f[u]) <= Len(f[m]) /\ (\A i \in 1 .. Len(f[u]) : f[u][i] = f[m][i])
      BY <2>1, <2>5
    <3>3. \A i \in 1 .. Len(f[u]) : i \in 1 .. Len(f[m])
      BY <2>1, <3>2
    <3>4. (\A i \in u + 1 .. m : s[i] \notin Deltas) => f[m] = f[u]
      BY <2>1, <2>5
    <3>. QED  BY <2>1, <2>3, <2>5, <3>1, <3>2, <3>3, <3>4
  <2>6. CASE m + 1 < u
    BY <2>3, <2>6
  <2>. QED  BY <2>1, <2>4, <2>5, <2>6
<1>3. T = Nat
  <2>. HIDE DEF T
  <2>1. T \in SUBSET Nat
    BY DEF T
  <2>. QED  BY <1>1, <1>2, <2>1, NatInduct
<1>4. Grown(n)
    BY <1>3
<1>. QED  BY <1>4 DEF Longer

(* What was sent on is the text of the frames taken off, in their order.   *)
Events == Deltas \cup {"retrieved", "error", "end", "end?"}

(* The stop reason is one of the frames taken off.                         *)
Reasoned == why => \E i \in 1 .. used : script[i] = "why"

QInv ==
    /\ script \in Scripts /\ used \in 0 .. Len(script) /\ got \in 0 .. 2 * Len(script) /\ 2 * used <= got
    /\ out \in Seq(Events)
    /\ mode = "stream" => out # << >> /\ out[1] = "retrieved"
    /\ mode # "stream" => out = << >> /\ used = 0
    /\ \E f : Reads(script, Len(script), f) /\ Ask!TextOf(out) = f[used] /\ Ask!TextOf(script) = f[Len(script)]
    /\ Reasoned
    /\ \A i \in 1 .. Len(out) : Ask!IsEnd(out[i]) => ended /\ i = Len(out)
    /\ (\E i \in 1 .. Len(out) : out[i] = "end") => Ask!TextOf(out) = Ask!TextOf(script)

(* No text follows the stop reason or the end.                             *)
LEMMA NoneFollows ==
    ASSUME NEW s \in Scripts, NEW i \in 1 .. Len(s), s[i] \in {"why", "stop"}, NEW j \in 1 .. Len(s), i < j
    PROVE  s[j] \notin Deltas
<1>1. s \in Seq(Deltas \cup Ask!Signals)
    BY ScriptsAssumption DEF Ask!AskAssumption
<1>2. DOMAIN s = 1 .. Len(s)
    BY <1>1
<1>. QED  BY <1>2, ScriptsAssumption DEF Ask!AskAssumption

LEMMA AskBegins == ASSUME Ask!QInit PROVE QInv
<1>1. /\ script \in Scripts /\ used = 0 /\ got = 0 /\ out = << >> /\ mode = "idle" /\ why = FALSE /\ ended = FALSE
    BY DEF Ask!QInit
<1>2. script \in Seq(Deltas \cup Ask!Signals)
    BY <1>1, ScriptsAssumption DEF Ask!AskAssumption
<1>3. PICK n : n = Len(script) /\ n \in Nat
    BY <1>2
<1>4. PICK s : s = script
    OBVIOUS
<1>5. PICK f : Reads(s, n, f) /\ Ask!TextOf(s) = f[n]
    BY <1>3, <1>4, TextReads
<1>6. Ask!TextOf(<< >>) = << >>
  <2>1. PICK g : Reads(<< >>, 0, g) /\ Ask!TextOf(<< >>) = g[0]
    BY TextReads
  <2>. QED  BY <2>1 DEF Reads
<1>7. \E g : Reads(script, Len(script), g) /\ Ask!TextOf(out) = g[used] /\ Ask!TextOf(script) = g[Len(script)]
    BY <1>1, <1>3, <1>4, <1>5, <1>6 DEF Reads
<1>. QED  BY <1>1, <1>3, <1>7 DEF QInv, Reasoned

LEMMA AskImplies == ASSUME QInv PROVE Ask!StreamWhole
<1>1. PICK f : Reads(script, Len(script), f) /\ Ask!TextOf(out) = f[used] /\ Ask!TextOf(script) = f[Len(script)]
    BY DEF QInv
<1>2. PICK s, n, u : s = script /\ n = Len(script) /\ u = used
    OBVIOUS
<1>3. n \in Nat /\ u \in 0 .. n /\ Reads(s, n, f)
  <2>1. script \in Seq(Deltas \cup Ask!Signals)
    BY ScriptsAssumption DEF QInv, Ask!AskAssumption
  <2>. QED  BY <1>1, <1>2, <2>1 DEF QInv
<1>4. Longer(f, u, n)
    BY <1>3, ReadsGrow
<1>5. Ask!IsPrefix(f[u], f[n])
    BY <1>4 DEF Longer, Ask!IsPrefix
<1>6. Ask!IsPrefix(Ask!TextOf(out), Ask!TextOf(script))
    BY <1>1, <1>2, <1>5
<1>7. DOMAIN out = 1 .. Len(out)
    BY DEF QInv
<1>8. out # << >> => out[1] = "retrieved"
    BY DEF QInv
<1>. QED  BY <1>6, <1>7, <1>8 DEF QInv, Ask!StreamWhole

(* An event is sent on: an end only once, and with the stop reason only    *)
(* when no more text can come.                                             *)
LEMMA SentKeeps ==
    ASSUME QInv, mode = "stream", mode' = mode, script' = script, ended = FALSE, NEW e \in Events, out' = Append(out, e),
           used' \in 0 .. Len(script), got' \in 0 .. 2 * Len(script), 2 * used' <= got', Reasoned',
           \E f : Reads(script, Len(script), f) /\ Said(Ask!TextOf(out), e) = f[used'] /\ Ask!TextOf(script) = f[Len(script)],
           Ask!IsEnd(e) => ended', e = "end" => \A j \in used' + 1 .. Len(script) : script[j] \notin Deltas
    PROVE  QInv'
<1>1. PICK o, s, u : o = out /\ s = script /\ u = used'
    OBVIOUS
<1>2. PICK f : Reads(script, Len(script), f) /\ Said(Ask!TextOf(out), e) = f[used'] /\ Ask!TextOf(script) = f[Len(script)]
    OBVIOUS
<1>3. o \in Seq(Events) /\ o # << >> /\ o[1] = "retrieved" /\ \A i \in 1 .. Len(o) : ~Ask!IsEnd(o[i])
    BY <1>1 DEF QInv
<1>4. PICK p : p = Append(o, e)
    OBVIOUS
<1>5. out' = p /\ p \in Seq(Events) /\ p # << >> /\ p[1] = "retrieved" /\ Len(p) = Len(o) + 1
      /\ (\A i \in 1 .. Len(o) : p[i] = o[i]) /\ p[Len(p)] = e /\ Len(o) \in Nat
    BY <1>1, <1>3, <1>4
<1>6. Ask!TextOf(p) = Said(Ask!TextOf(o), e)
    BY <1>3, <1>4, TextAppended
<1>7. Ask!TextOf(out)' = f[used'] /\ Ask!TextOf(script)' = Ask!TextOf(script)
    BY <1>1, <1>2, <1>5, <1>6
<1>8. \A i \in 1 .. Len(p) : Ask!IsEnd(p[i]) => ended' /\ i = Len(p)
    BY <1>3, <1>5
<1>9. ASSUME NEW i \in 1 .. Len(p), p[i] = "end" PROVE f[used'] = f[Len(script)]
  <2>1. i = Len(p)
    BY <1>8, <1>9 DEF Ask!IsEnd
  <2>2. e = "end"
    BY <1>5, <1>9, <2>1
  <2>3. PICK n : n = Len(script) /\ n \in Nat
    <3>1. script \in Seq(Deltas \cup Ask!Signals)
      BY ScriptsAssumption DEF QInv, Ask!AskAssumption
    <3>. QED  BY <3>1
  <2>4. Reads(s, n, f) /\ u \in 0 .. n /\ \A j \in u + 1 .. n : s[j] \notin Deltas
    BY <1>1, <1>2, <2>2, <2>3
  <2>5. f[n] = f[u]
    BY <2>3, <2>4, ReadsGrow
  <2>. QED  BY <1>1, <2>3, <2>5
<1>10. (\E i \in 1 .. Len(p) : p[i] = "end") => Ask!TextOf(out)' = Ask!TextOf(script)'
    BY <1>2, <1>7, <1>9
<1>11. \E g : Reads(script', Len(script'), g) /\ Ask!TextOf(out)' = g[used'] /\ Ask!TextOf(script)' = g[Len(script')]
    BY <1>2, <1>7
<1>12. script' \in Scripts /\ used' \in 0 .. Len(script') /\ got' \in 0 .. 2 * Len(script')
    BY DEF QInv
<1>. QED  BY <1>5, <1>8, <1>10, <1>11, <1>12 DEF QInv

LEMMA AskStays ==
    ASSUME QInv, script' = script, used' = used, out' = out, ended' = ended, why' = why,
           mode' = mode \/ (mode # "stream" /\ mode' # "stream"), got' \in got .. 2 * Len(script)
    PROVE  QInv'
<1>1. Ask!TextOf(out)' = Ask!TextOf(out) /\ Ask!TextOf(script)' = Ask!TextOf(script)
    OBVIOUS
<1>2. script \in Seq(Deltas \cup Ask!Signals)
    BY ScriptsAssumption DEF QInv, Ask!AskAssumption
<1>3. got' \in 0 .. 2 * Len(script) /\ 2 * used <= got'
    BY <1>2 DEF QInv
<1>. QED  BY <1>1, <1>3 DEF QInv, Reasoned

LEMMA AskUnmoved == ASSUME QInv, UNCHANGED askVars PROVE QInv'
<1>1. script \in Seq(Deltas \cup Ask!Signals)
    BY ScriptsAssumption DEF QInv, Ask!AskAssumption
<1>2. got' \in got .. 2 * Len(script)
    BY <1>1 DEF QInv, askVars
<1>. QED  BY <1>2, AskStays DEF askVars

LEMMA AskStepKeeps == ASSUME QInv, Ask!QNext PROVE QInv'
<1>0. script \in Seq(Deltas \cup Ask!Signals) /\ Len(script) \in Nat
    BY ScriptsAssumption DEF QInv, Ask!AskAssumption
<1>1. CASE Ask!AskPlain \/ Ask!Retry \/ Ask!Fail \/ Ask!Answered
  <2>1. /\ script' = script /\ used' = used /\ out' = out /\ ended' = ended /\ why' = why /\ got' = got
        /\ mode # "stream" /\ mode' # "stream"
    BY <1>1 DEF Ask!AskPlain, Ask!Retry, Ask!Fail, Ask!Answered, Ask!Generating, Ask!stream
  <2>2. got' \in got .. 2 * Len(script)
    BY <1>0, <2>1 DEF QInv
  <2>. QED  BY <2>1, <2>2, AskStays
<1>2. CASE Ask!Arrive \/ Ask!Hang
  <2>1. /\ script' = script /\ used' = used /\ out' = out /\ ended' = ended /\ why' = why /\ mode' = mode
        /\ got' \in got .. 2 * Len(script)
    BY <1>0, <1>2 DEF Ask!Arrive, Ask!Hang, Ask!Total, QInv
  <2>. QED  BY <2>1, AskStays
<1>3. CASE Ask!AskStream
  <2>1. /\ script' = script /\ used' = used /\ out' = <<"retrieved">> /\ ended' = ended /\ why' = why /\ got' = got
        /\ mode = "idle" /\ mode' = "stream"
    BY <1>3 DEF Ask!AskStream
  <2>2. out = << >> /\ used = 0
    BY <2>1 DEF QInv
  <2>3. Ask!TextOf(<<"retrieved">>) = Ask!TextOf(<< >>)
    <3>1. << >> \in Seq(Events) /\ "retrieved" \in Events /\ Append(<< >>, "retrieved") = <<"retrieved">>
      BY DEF Events
    <3>2. Ask!TextOf(Append(<< >>, "retrieved")) = Said(Ask!TextOf(<< >>), "retrieved")
      BY <3>1, TextAppended
    <3>3. "retrieved" \notin Deltas
      BY ScriptsAssumption
    <3>. QED  BY <3>1, <3>2, <3>3 DEF Said
  <2>4. Ask!TextOf(out)' = Ask!TextOf(out) /\ Ask!TextOf(script)' = Ask!TextOf(script)
    BY <2>1, <2>2, <2>3
  <2>5. PICK p : p = <<"retrieved">>
    OBVIOUS
  <2>6. p \in Seq(Events) /\ p # << >> /\ Len(p) = 1 /\ p[1] = "retrieved" /\ \A i \in 1 .. Len(p) : ~Ask!IsEnd(p[i]) /\ p[i] # "end"
    BY <2>5 DEF Events, Ask!IsEnd
  <2>7. out' = p
    BY <2>1, <2>5
  <2>. QED  BY <2>1, <2>2, <2>4, <2>6, <2>7 DEF QInv, Reasoned
<1>4. CASE Ask!Drain
  <2>1. PICK u, x, o : u = used /\ x = script[used + 1] /\ o = out
    OBVIOUS
  <2>2. /\ mode = "stream" /\ ended = FALSE /\ got >= 2 * (used + 1) /\ used' = used + 1 /\ why' = (why \/ x = "why")
        /\ ended' = (x = "stop") /\ mode' = mode /\ script' = script /\ got' = got
        /\ out' = IF x \in Deltas THEN Append(out, x)
                  ELSE IF x = "oops" THEN Append(out, "error")
                  ELSE IF x = "stop" THEN Append(out, IF why THEN "end" ELSE "end?")
                  ELSE out
    BY <1>4, <2>1 DEF Ask!Drain, Ask!Streaming, Ask!Complete, Ask!TakeOne, Ask!Frame
  <2>3. used' \in 0 .. Len(script) /\ used + 1 \in 1 .. Len(script) /\ got' \in 0 .. 2 * Len(script) /\ 2 * used' <= got'
    BY <1>0, <2>2 DEF QInv
  <2>4. Reasoned'
    <3>1. used' = used + 1 /\ used + 1 \in 1 .. used' /\ 1 .. used \subseteq 1 .. used'
      BY <1>0, <2>2 DEF QInv
    <3>2. CASE x = "why"
      BY <2>1, <2>2, <3>1, <3>2 DEF Reasoned
    <3>3. CASE x # "why"
      BY <2>2, <3>1, <3>3 DEF QInv, Reasoned
    <3>. QED  BY <3>2, <3>3
  <2>5. PICK f : Reads(script, Len(script), f) /\ Ask!TextOf(out) = f[used] /\ Ask!TextOf(script) = f[Len(script)]
    BY DEF QInv
  <2>6. f[used'] = Said(Ask!TextOf(out), x)
    <3>1. used + 1 \in 1 .. Len(script) /\ (used + 1) - 1 = used
      BY <1>0, <2>3 DEF QInv
    <3>2. f[used + 1] = Said(f[used], script[used + 1])
      BY <2>5, <3>1 DEF Reads
    <3>. QED  BY <2>1, <2>2, <2>5, <3>2
  <2>7. x \in Deltas \cup Ask!Signals
    BY <1>0, <2>1, <2>3
  <2>8. CASE x \in Deltas
    <3>1. x \in Events /\ ~Ask!IsEnd(x) /\ x # "end" /\ x # "stop"
      BY <2>8, ScriptsAssumption DEF Events, Ask!IsEnd, Ask!Signals
    <3>2. \E g : Reads(script, Len(script), g) /\ Said(Ask!TextOf(out), x) = g[used'] /\ Ask!TextOf(script) = g[Len(script)]
      BY <2>5, <2>6
    <3>. QED  BY <2>2, <2>3, <2>4, <2>8, <3>1, <3>2, SentKeeps
  <2>9. CASE x \notin Deltas /\ x \in {"oops", "stop"}
    <3>1. PICK e : e = IF x = "oops" THEN "error" ELSE IF why THEN "end" ELSE "end?"
      OBVIOUS
    <3>2. e \in Events /\ e \notin Deltas /\ (Ask!IsEnd(e) => ended')
      BY <2>2, <2>9, <3>1, ScriptsAssumption DEF Events, Ask!IsEnd
    <3>3. out' = Append(out, e)
      BY <2>2, <2>9, <3>1
    <3>4. Said(Ask!TextOf(out), e) = Said(Ask!TextOf(out), x)
      BY <2>9, <3>2 DEF Said
    <3>5. \E g : Reads(script, Len(script), g) /\ Said(Ask!TextOf(out), e) = g[used'] /\ Ask!TextOf(script) = g[Len(script)]
      BY <2>5, <2>6, <3>4
    <3>6. ASSUME e = "end", NEW j \in used' + 1 .. Len(script) PROVE script[j] \notin Deltas
      <4>1. x = "stop"
        BY <2>9, <3>1, <3>6
      <4>2. PICK s, k : s = script /\ k = used + 1
        OBVIOUS
      <4>3. s \in Scripts /\ k \in 1 .. Len(s) /\ s[k] \in {"why", "stop"} /\ j \in 1 .. Len(s) /\ k < j
        <5>1. used' = k /\ s[k] = x /\ k \in 1 .. Len(s) /\ s \in Scripts
          BY <2>1, <2>2, <2>3, <4>2 DEF QInv
        <5>. QED  BY <1>0, <4>1, <4>2, <5>1
      <4>. QED  BY <4>2, <4>3, NoneFollows
    <3>. QED  BY <2>2, <2>3, <2>4, <3>2, <3>3, <3>5, <3>6, SentKeeps
  <2>10. CASE x \notin Deltas /\ x \notin {"oops", "stop"}
    <3>1. out' = out /\ ended' = ended /\ f[used'] = Ask!TextOf(out)
      BY <2>2, <2>6, <2>10 DEF Said
    <3>2. Ask!TextOf(out)' = f[used'] /\ Ask!TextOf(out)' = Ask!TextOf(out) /\ Ask!TextOf(script)' = Ask!TextOf(script)
      BY <2>2, <3>1
    <3>. QED  BY <2>2, <2>3, <2>4, <2>5, <3>1, <3>2 DEF QInv
  <2>. QED  BY <2>8, <2>9, <2>10
<1>5. CASE Ask!ReadOn
  <2>1. /\ mode = "stream" /\ ended = FALSE /\ used' = used /\ why' = why /\ mode' = mode /\ script' = script /\ got' = got
        /\ \/ out' = Append(out, IF why THEN "end" ELSE "end?") /\ ended' = TRUE
           \/ out' = Append(out, "error") /\ ended' = ended
    BY <1>5 DEF Ask!ReadOn, Ask!Streaming
  <2>2. PICK e : out' = Append(out, e) /\ e \in {"error", "end", "end?"} /\ (e = "end" => why) /\ (e # "error" => ended')
    BY <2>1
  <2>3. e \in Events /\ e \notin Deltas /\ (Ask!IsEnd(e) => ended')
    BY <2>2, ScriptsAssumption DEF Events, Ask!IsEnd
  <2>4. PICK f : Reads(script, Len(script), f) /\ Ask!TextOf(out) = f[used] /\ Ask!TextOf(script) = f[Len(script)]
    BY DEF QInv
  <2>5. \E g : Reads(script, Len(script), g) /\ Said(Ask!TextOf(out), e) = g[used'] /\ Ask!TextOf(script) = g[Len(script)]
    BY <2>1, <2>3, <2>4 DEF Said
  <2>6. ASSUME e = "end", NEW j \in used' + 1 .. Len(script) PROVE script[j] \notin Deltas
    <3>1. PICK k \in 1 .. used : script[k] = "why"
      BY <2>2, <2>6 DEF QInv, Reasoned
    <3>2. PICK s : s = script
      OBVIOUS
    <3>3. s \in Scripts /\ k \in 1 .. Len(s) /\ s[k] \in {"why", "stop"} /\ j \in 1 .. Len(s) /\ k < j
      BY <1>0, <2>1, <3>1, <3>2 DEF QInv
    <3>. QED  BY <3>2, <3>3, NoneFollows
  <2>7. used' \in 0 .. Len(script) /\ got' \in 0 .. 2 * Len(script) /\ 2 * used' <= got' /\ Reasoned'
    BY <2>1 DEF QInv, Reasoned
  <2>. QED  BY <2>1, <2>2, <2>3, <2>5, <2>6, <2>7, SentKeeps
<1>. QED  BY <1>1, <1>2, <1>3, <1>4, <1>5 DEF Ask!QNext

-----------------------------------------------------------------------------
(* The extraction.  What a fold of n items goes through.                   *)
Goes(r, base, n, y) == \E f : TurnPasses(r, base, n, f) /\ f[n] = y

LEMMA FoldGoes ==
    ASSUME NEW r, NEW base, NEW n \in Nat, NEW y, y = (CHOOSE f : TurnFold(r, base, 1 .. n, f))[1 .. n]
    PROVE  Goes(r, base, n, y)
<1>1. PICK h : h = (CHOOSE f : TurnFold(r, base, 1 .. n, f))
    OBVIOUS
<1>2. TurnFold(r, base, 1 .. n, h)
    BY <1>1, TurnFoldExists, Zenon
<1>3. y = h[1 .. n]
    BY <1>1
<1>4. \E f : TurnPasses(r, base, n, f) /\ f[n] = h[1 .. n]
    BY <1>2, TurnFoldPasses
<1>. QED  BY <1>3, <1>4 DEF Goes

LEMMA ExtractMax == ASSUME NEW u PROVE Extract!Max(u) = Max(u)
    BY Zenon DEF Extract!Max, Max

LEMMA ConceptsFold ==
    ASSUME NEW acc, NEW items, NEW n \in Nat, DOMAIN items = 1 .. n, NEW r, r = [what |-> "concept", items |-> items]
    PROVE  Extract!AddConcepts(acc, items) = (CHOOSE f : TurnFold(r, acc, 1 .. n, f))[1 .. n]
<1>. DEFINE G(f) == f = [u \in SUBSET DOMAIN items |->
                            IF u = {} THEN acc ELSE Extract!AddConcept(f[u \ {Extract!Max(u)}], items[Extract!Max(u)])]
<1>0. r.what = "concept" /\ r.items = items
    OBVIOUS
<1>1. Extract!AddConcepts(acc, items) = (CHOOSE f : G(f))[DOMAIN items]
    BY Zenon DEF Extract!AddConcepts, Extract!FoldLeft, Extract!MapThenFoldSet
<1>2. ASSUME NEW f PROVE G(f) <=> TurnFold(r, acc, 1 .. n, f)
  <2>1. ASSUME NEW u
        PROVE (IF u = {} THEN acc ELSE Extract!AddConcept(f[u \ {Extract!Max(u)}], items[Extract!Max(u)]))
              = (IF u = {} THEN acc ELSE Turn(r, f[u \ {Max(u)}], Max(u)))
    BY <1>0, ExtractMax, Zenon DEF Turn, ConceptTurn
  <2>2. G(f) <=> f = [u \in SUBSET (1 .. n) |->
                            IF u = {} THEN acc ELSE Extract!AddConcept(f[u \ {Extract!Max(u)}], items[Extract!Max(u)])]
    BY Zenon
  <2>. QED  BY <2>1, <2>2, Zenon DEF TurnFold
<1>3. (CHOOSE f : G(f)) = (CHOOSE f : TurnFold(r, acc, 1 .. n, f))
  <2>. HIDE DEF G
  <2>. QED  BY <1>2, Zenon
<1>. HIDE DEF G
<1>. QED  BY <1>1, <1>3, Zenon

RefsOf(acc) == {acc[k].ref : k \in DOMAIN acc}

LEMMA RelationsFold ==
    ASSUME NEW acc, NEW items, NEW n \in Nat, DOMAIN items = 1 .. n,
           NEW r, r.what = "relation", r.items = items, r.known = RefsOf(acc)
    PROVE  Extract!AddRelations(acc, items) = (CHOOSE f : TurnFold(r, acc, 1 .. n, f))[1 .. n]
<1>. DEFINE Add(y, x) == IF x.ref \in r.known THEN y ELSE Append(y, x)
            G(f) == f = [u \in SUBSET DOMAIN items |->
                            IF u = {} THEN acc ELSE Add(f[u \ {Extract!Max(u)}], items[Extract!Max(u)])]
<1>0. r.what # "concept" /\ r.what # "index" /\ r.items = items /\ r.known = {acc[k].ref : k \in DOMAIN acc}
    BY DEF RefsOf
<1>1. Extract!AddRelations(acc, items) = (CHOOSE f : G(f))[DOMAIN items]
    BY <1>0, Zenon DEF Extract!AddRelations, Extract!FoldLeft, Extract!MapThenFoldSet
<1>2. ASSUME NEW f PROVE G(f) <=> TurnFold(r, acc, 1 .. n, f)
  <2>1. ASSUME NEW u
        PROVE (IF u = {} THEN acc ELSE Add(f[u \ {Extract!Max(u)}], items[Extract!Max(u)]))
              = (IF u = {} THEN acc ELSE Turn(r, f[u \ {Max(u)}], Max(u)))
    BY <1>0, ExtractMax, Zenon DEF Turn, RelationTurn
  <2>2. G(f) <=> f = [u \in SUBSET (1 .. n) |->
                            IF u = {} THEN acc ELSE Add(f[u \ {Extract!Max(u)}], items[Extract!Max(u)])]
    BY Zenon
  <2>. QED  BY <2>1, <2>2, Zenon DEF TurnFold
<1>3. (CHOOSE f : G(f)) = (CHOOSE f : TurnFold(r, acc, 1 .. n, f))
  <2>. HIDE DEF G
  <2>. QED  BY <1>2, Zenon
<1>. HIDE DEF G
<1>. QED  BY <1>1, <1>3, Zenon

(* An entity of the document is named, as surely as the line is.           *)
ItemSet == [key : Keys, conf : Nat]
Apart(y) == \A i, j \in 1 .. Len(y) : y[i].key = y[j].key => i = j
Described(y, l) == \E i \in 1 .. Len(y) : y[i].key = Document[l].key /\ y[i].conf >= Document[l].conf

LEMMA AddConceptIs ==
    ASSUME NEW y \in Seq(ItemSet), Apart(y), NEW l \in 1 .. Len(Document), NEW z, z = Extract!AddConcept(y, l)
    PROVE  z \in Seq(ItemSet) /\ Apart(z) /\ Described(z, l) /\ \A m \in 1 .. Len(Document) : Described(y, m) => Described(z, m)
<1>1. Document \in Seq(ItemSet)
    BY TextAssumption DEF Extract!DocumentAssumption, ItemSet
<1>2. PICK c : c = Document[l] /\ c \in ItemSet /\ c.key \in Keys /\ c.conf \in Nat
  <2>1. Document[l] \in ItemSet
    BY <1>1
  <2>. QED  BY <2>1 DEF ItemSet
<1>3. PICK known : known = {i \in 1 .. Len(y) : y[i].key = c.key}
    OBVIOUS
<1>4. z = IF known = {} THEN Append(y, c)
          ELSE [i \in 1 .. Len(y) |-> IF i \in known /\ y[i].conf < c.conf THEN c ELSE y[i]]
  <2>1. DOMAIN y = 1 .. Len(y)
    OBVIOUS
  <2>. QED  BY <1>2, <1>3, <2>1 DEF Extract!AddConcept, Extract!Item
<1>5. \A i \in 1 .. Len(y) : y[i] \in ItemSet /\ y[i].conf \in Nat
  <2>1. \A i \in 1 .. Len(y) : y[i] \in ItemSet
    OBVIOUS
  <2>. QED  BY <2>1 DEF ItemSet
<1>6. \A m \in 1 .. Len(Document) : Document[m].conf \in Nat
  <2>1. \A m \in 1 .. Len(Document) : Document[m] \in ItemSet
    BY <1>1
  <2>. QED  BY <2>1 DEF ItemSet
<1>7. CASE known = {}
  <2>1. z = Append(y, c) /\ z \in Seq(ItemSet) /\ Len(z) = Len(y) + 1 /\ z[Len(z)] = c /\ \A i \in 1 .. Len(y) : z[i] = y[i]
    BY <1>2, <1>4, <1>7
  <2>2. \A i \in 1 .. Len(y) : z[i].key # c.key
    BY <1>3, <1>7, <2>1
  <2>3. Apart(z)
    BY <2>1, <2>2 DEF Apart
  <2>4. Described(z, l)
    BY <1>2, <2>1 DEF Described
  <2>. QED  BY <2>1, <2>3, <2>4 DEF Described
<1>8. CASE known # {}
  <2>1. z = [i \in 1 .. Len(y) |-> IF i \in known /\ y[i].conf < c.conf THEN c ELSE y[i]]
    BY <1>4, <1>8
  <2>2. z \in Seq(ItemSet) /\ Len(z) = Len(y)
    BY <1>2, <1>5, <2>1
  <2>3. \A i \in 1 .. Len(y) : z[i].key = y[i].key /\ z[i].conf >= y[i].conf /\ z[i].conf \in Nat
    BY <1>2, <1>3, <1>5, <2>1
  <2>4. Apart(z)
    BY <2>2, <2>3 DEF Apart
  <2>5. Described(z, l)
    <3>1. PICK k \in 1 .. Len(y) : k \in known /\ y[k].key = c.key
      BY <1>3, <1>8
    <3>2. z[k].key = c.key /\ z[k].conf >= c.conf
      BY <1>2, <1>5, <2>1, <2>3, <3>1
    <3>. QED  BY <1>2, <2>2, <3>2 DEF Described
  <2>6. ASSUME NEW m \in 1 .. Len(Document), Described(y, m) PROVE Described(z, m)
    <3>1. PICK k \in 1 .. Len(y) : y[k].key = Document[m].key /\ y[k].conf >= Document[m].conf
      BY <2>6 DEF Described
    <3>2. z[k].key = Document[m].key /\ z[k].conf >= Document[m].conf
      BY <1>5, <1>6, <2>3, <3>1
    <3>. QED  BY <2>2, <3>2 DEF Described
  <2>. QED  BY <2>2, <2>4, <2>5, <2>6
<1>. QED  BY <1>7, <1>8

Whole(y, d) == y \in Seq(ItemSet) /\ Apart(y) /\ \A l \in 1 .. d : Described(y, l)

(* The lines of a piece are added to those of the pieces before it.        *)
LEMMA ConceptsMerge ==
    ASSUME NEW d \in Nat, NEW n \in Nat, d + n <= Len(Document), NEW acc, Whole(acc, d),
           NEW items, items = [i \in 1 .. n |-> d + i]
    PROVE  Whole(Extract!AddConcepts(acc, items), d + n)
<1>1. PICK r, y : r = [what |-> "concept", items |-> items] /\ y = Extract!AddConcepts(acc, items)
    OBVIOUS
<1>2. r.what = "concept" /\ r.items = items /\ DOMAIN items = 1 .. n /\ Len(Document) \in Nat
    BY <1>1, TextAssumption DEF Extract!DocumentAssumption
<1>3. y = (CHOOSE f : TurnFold(r, acc, 1 .. n, f))[1 .. n]
  <2>1. DOMAIN items = 1 .. n /\ r = [what |-> "concept", items |-> items]
    BY <1>1, <1>2
  <2>2. Extract!AddConcepts(acc, items) = (CHOOSE f : TurnFold(r, acc, 1 .. n, f))[1 .. n]
    BY <2>1, ConceptsFold
  <2>. QED  BY <1>1, <2>2
<1>4. PICK f : TurnPasses(r, acc, n, f) /\ f[n] = y
  <2>1. Goes(r, acc, n, y)
    BY <1>3, FoldGoes
  <2>. QED  BY <2>1 DEF Goes
<1>. DEFINE T == {m \in Nat : m <= n => Whole(f[m], d + m)}
<1>5. 0 \in T
    BY <1>4 DEF TurnPasses
<1>6. ASSUME NEW m \in T PROVE m + 1 \in T
  <2>. SUFFICES ASSUME m + 1 <= n PROVE Whole(f[m + 1], d + (m + 1))
    OBVIOUS
  <2>1. PICK a, b : a = f[m] /\ b = f[m + 1]
    OBVIOUS
  <2>2. Whole(a, d + m) /\ m \in Nat /\ m + 1 \in 1 .. n /\ (m + 1) - 1 = m
    BY <2>1
  <2>3. b = Turn(r, a, m + 1)
    BY <1>4, <2>1, <2>2 DEF TurnPasses
  <2>4. b = Extract!AddConcept(a, items[m + 1]) /\ items[m + 1] = d + (m + 1)
    BY <1>2, <2>2, <2>3 DEF Turn, ConceptTurn
  <2>5. PICK l : l = d + (m + 1) /\ l \in 1 .. Len(Document)
    BY <1>2, <2>2
  <2>6. b \in Seq(ItemSet) /\ Apart(b) /\ Described(b, l) /\ \A k \in 1 .. Len(Document) : Described(a, k) => Described(b, k)
    <3>1. a \in Seq(ItemSet) /\ Apart(a) /\ b = Extract!AddConcept(a, l)
      BY <2>2, <2>4, <2>5 DEF Whole
    <3>. QED  BY <2>5, <3>1, AddConceptIs
  <2>7. \A k \in 1 .. l : Described(b, k)
    <3>1. \A k \in 1 .. l : k = l \/ (k \in 1 .. d + m /\ k \in 1 .. Len(Document))
      BY <1>2, <2>2, <2>5
    <3>. QED  BY <2>2, <2>6, <3>1 DEF Whole
  <2>. QED  BY <2>1, <2>5, <2>6, <2>7 DEF Whole
<1>7. T = Nat
  <2>. HIDE DEF T
  <2>1. T \in SUBSET Nat
    BY DEF T
  <2>. QED  BY <1>5, <1>6, <2>1, NatInduct
<1>8. Whole(f[n], d + n)
    BY <1>7
<1>. QED  BY <1>1, <1>4, <1>8

RelationSet == [line : Nat, ref : Nat \X Nat]

(* The first m items come after acc.                                       *)
Extended(z, acc, items, m) ==
    /\ z \in Seq(RelationSet) /\ Len(z) = Len(acc) + m
    /\ \A i \in 1 .. Len(acc) : z[i] = acc[i]
    /\ \A i \in 1 .. m : z[Len(acc) + i] = items[i]

(* Items whose references are new are appended, all of them.               *)
LEMMA RelationsMerge ==
    ASSUME NEW acc \in Seq(RelationSet), NEW n \in Nat, NEW items, items = [i \in 1 .. n |-> items[i]],
           \A i \in 1 .. n : items[i] \in RelationSet,
           \A i \in 1 .. n : \A k \in 1 .. Len(acc) : acc[k].ref # items[i].ref,
           NEW y, y = Extract!AddRelations(acc, items)
    PROVE  Extended(y, acc, items, n)
<1>1. PICK r : r = [what |-> "relation", items |-> items, known |-> RefsOf(acc)]
    OBVIOUS
<1>2. /\ r.what = "relation" /\ r.items = items /\ r.known = RefsOf(acc)
      /\ DOMAIN items = 1 .. n
    BY <1>1
<1>3. y = (CHOOSE f : TurnFold(r, acc, 1 .. n, f))[1 .. n]
  <2>1. Extract!AddRelations(acc, items) = (CHOOSE f : TurnFold(r, acc, 1 .. n, f))[1 .. n]
    BY <1>2, RelationsFold
  <2>. QED  BY <2>1
<1>4. PICK f : TurnPasses(r, acc, n, f) /\ f[n] = y
  <2>1. Goes(r, acc, n, y)
    BY <1>3, FoldGoes
  <2>. QED  BY <2>1 DEF Goes
<1>5. \A i \in 1 .. n : items[i].ref \notin r.known
    BY <1>2 DEF RefsOf
<1>. DEFINE Sofar(z, m) == Extended(z, acc, items, m)
            T == {m \in Nat : m <= n => Sofar(f[m], m)}
<1>6. 0 \in T
    BY <1>4 DEF TurnPasses, Extended
<1>7. ASSUME NEW m \in T PROVE m + 1 \in T
  <2>. SUFFICES ASSUME m + 1 <= n PROVE Sofar(f[m + 1], m + 1)
    OBVIOUS
  <2>1. PICK a, b, c : a = f[m] /\ b = f[m + 1] /\ c = items[m + 1]
    OBVIOUS
  <2>2. Sofar(a, m) /\ m \in Nat /\ m + 1 \in 1 .. n /\ (m + 1) - 1 = m /\ c \in RelationSet
    BY <2>1
  <2>3. b = Turn(r, a, m + 1)
    BY <1>4, <2>1, <2>2 DEF TurnPasses
  <2>4. b = Append(a, c)
    BY <1>2, <1>5, <2>1, <2>2, <2>3 DEF Turn, RelationTurn
  <2>5. /\ b \in Seq(RelationSet) /\ Len(b) = Len(acc) + (m + 1) /\ b[Len(acc) + (m + 1)] = c
        /\ \A i \in 1 .. Len(acc) + m : b[i] = a[i]
    BY <2>2, <2>4 DEF Extended
  <2>6. \A i \in 1 .. Len(acc) : b[i] = acc[i]
    BY <2>2, <2>5 DEF Extended
  <2>7. ASSUME NEW i \in 1 .. m + 1 PROVE b[Len(acc) + i] = items[i]
    <3>1. CASE i = m + 1
      BY <2>1, <2>5, <3>1
    <3>2. CASE i # m + 1
      <4>1. i \in 1 .. m /\ Len(acc) + i \in 1 .. Len(acc) + m
        BY <2>2, <3>2
      <4>. QED  BY <2>2, <2>5, <4>1 DEF Extended
    <3>. QED  BY <3>1, <3>2
  <2>. QED  BY <2>1, <2>5, <2>6, <2>7 DEF Extended
<1>8. T = Nat
  <2>. HIDE DEF T
  <2>1. T \in SUBSET Nat
    BY DEF T
  <2>. QED  BY <1>6, <1>7, <2>1, NatInduct
<1>9. Sofar(f[n], n)
    BY <1>8
<1>. QED  BY <1>4, <1>9

(* The pieces in the queue are the rest of the document, in order.         *)
Pieces == (1 .. Len(Document)) \X (1 .. Len(Document))
Unread(q, d) ==
    /\ q \in Seq(Pieces) /\ \A k \in 1 .. Len(q) : q[k][1] <= q[k][2]
    /\ q = << >> => d = Len(Document)
    /\ q # << >> => q[1][1] = d + 1 /\ q[Len(q)][2] = Len(Document)
    /\ \A k \in 1 .. Len(q) - 1 : q[k + 1][1] = q[k][2] + 1

(* The relations merged are those of the lines before it.                  *)
Enlisted(y, d) ==
    /\ y \in Seq(RelationSet) /\ Len(y) = d /\ \A i \in 1 .. d : y[i].line = i
    /\ \A i, j \in 1 .. d : y[i].ref = y[j].ref => i = j

DInv ==
    /\ idx \in Nat /\ \A i \in 1 .. Len(relations) : relations[i].ref[1] < idx
    /\ \E d \in 0 .. Len(Document) : Unread(queue, d) /\ Whole(concepts, d) /\ Enlisted(relations, d)
    /\ result = "ok" => queue = << >>

LEMMA ExtractImplies == ASSUME DInv PROVE Extract!ProposalWhole
<1>. SUFFICES ASSUME result = "ok"
     PROVE  /\ \A l \in Extract!Lines : \E c \in Extract!ToSet(concepts) : c.key = Document[l].key /\ c.conf >= Document[l].conf
            /\ \A i, j \in DOMAIN concepts : concepts[i].key = concepts[j].key => i = j
            /\ [i \in DOMAIN relations |-> relations[i].line] = [l \in Extract!Lines |-> l]
            /\ Extract!IsInjective([i \in DOMAIN relations |-> relations[i].ref])
    BY DEF Extract!ProposalWhole
<1>1. PICK n : n = Len(Document) /\ Whole(concepts, n) /\ Enlisted(relations, n)
    BY DEF DInv, Unread
<1>2. DOMAIN concepts = 1 .. Len(concepts) /\ DOMAIN relations = 1 .. n /\ Extract!Lines = 1 .. n
    BY <1>1 DEF Whole, Enlisted, Extract!Lines
<1>3. ASSUME NEW l \in 1 .. n
      PROVE \E c \in Extract!ToSet(concepts) : c.key = Document[l].key /\ c.conf >= Document[l].conf
  <2>1. PICK i \in 1 .. Len(concepts) : concepts[i].key = Document[l].key /\ concepts[i].conf >= Document[l].conf
    BY <1>1 DEF Whole, Described
  <2>2. concepts[i] \in Extract!ToSet(concepts)
    BY <1>2 DEF Extract!ToSet
  <2>. QED  BY <2>1, <2>2
<1>4. [i \in DOMAIN relations |-> relations[i].line] = [l \in Extract!Lines |-> l]
    BY <1>1, <1>2 DEF Enlisted
<1>5. Extract!IsInjective([i \in DOMAIN relations |-> relations[i].ref])
    BY <1>1, <1>2 DEF Enlisted, Extract!IsInjective
<1>. QED  BY <1>1, <1>2, <1>3, <1>4, <1>5 DEF Whole, Apart

LEMMA ExtractUnmoved == ASSUME DInv, UNCHANGED extractVars PROVE DInv'
BY DEF DInv, extractVars

(* The document is cut into pieces that follow one another.                *)
LEMMA ChunksAreRest == Unread(Extract!Chunks, 0)
<1>. DEFINE n == Len(Document)
            b == PieceBudget
            q == (n + b - 1) \div b
            c == Extract!Chunks
<1>0. n \in Nat /\ b \in Nat \ {0}
    BY TextAssumption DEF Extract!DocumentAssumption
<1>1. q \in Nat /\ b * q <= n + b - 1 /\ n + b - 1 < b * q + b
    BY <1>0
<1>2. c = [k \in 1 .. q |-> <<(k - 1) * b + 1, IF k * b > n THEN n ELSE k * b>>]
    BY DEF Extract!Chunks
<1>. HIDE DEF n, b, q, c
<1>3. ASSUME NEW k \in 1 .. q
      PROVE  /\ (k - 1) * b \in Nat /\ k * b = (k - 1) * b + b /\ (k - 1) * b < n /\ k * b \in Nat
             /\ k < q => k * b < n
             /\ k = q => k * b >= n
  <2>1. k \in Nat /\ k - 1 \in Nat /\ k * b = (k - 1) * b + b /\ (k - 1) * b \in Nat /\ k * b \in Nat
    BY <1>0, <1>1
  <2>2. \A m \in Nat : m <= q => m * b <= b * q
    BY <1>0, <1>1
  <2>3. k * b <= b * q /\ (k < q => k * b + b <= b * q)
    <3>1. k < q => (k + 1) * b <= b * q /\ (k + 1) * b = k * b + b
      BY <1>0, <1>1, <2>1, <2>2
    <3>. QED  BY <2>1, <2>2, <3>1
  <2>4. k = q => k * b = b * q
    BY <1>0, <1>1
  <2>. QED  BY <1>0, <1>1, <2>1, <2>3, <2>4
<1>4. /\ c \in Seq(Pieces) /\ Len(c) = q
      /\ \A k \in 1 .. q : c[k] = <<(k - 1) * b + 1, IF k * b > n THEN n ELSE k * b>>
  <2>1. \A k \in 1 .. q : <<(k - 1) * b + 1, IF k * b > n THEN n ELSE k * b>> \in (1 .. n) \X (1 .. n)
    <3>. SUFFICES ASSUME NEW k \in 1 .. q
         PROVE (k - 1) * b + 1 \in 1 .. n /\ (IF k * b > n THEN n ELSE k * b) \in 1 .. n
      OBVIOUS
    <3>1. (k - 1) * b \in Nat /\ k * b = (k - 1) * b + b /\ (k - 1) * b < n /\ k * b \in Nat
      BY <1>3
    <3>. QED  BY <1>0, <3>1
  <2>2. Pieces = (1 .. n) \X (1 .. n)
    BY DEF Pieces, n
  <2>. QED  BY <1>1, <1>2, <2>1, <2>2
<1>5. \A k \in 1 .. q : c[k][1] = (k - 1) * b + 1 /\ c[k][2] = IF k * b > n THEN n ELSE k * b
    BY <1>4
<1>6. \A k \in 1 .. q : c[k][1] <= c[k][2]
  <2>. SUFFICES ASSUME NEW k \in 1 .. q PROVE c[k][1] <= c[k][2]
    OBVIOUS
  <2>1. (k - 1) * b \in Nat /\ k * b = (k - 1) * b + b /\ (k - 1) * b < n
    BY <1>3
  <2>. QED  BY <1>0, <1>5, <2>1
<1>7. \A k \in 1 .. q - 1 : c[k + 1][1] = c[k][2] + 1
  <2>. SUFFICES ASSUME NEW k \in 1 .. q - 1 PROVE c[k + 1][1] = c[k][2] + 1
    OBVIOUS
  <2>1. k \in 1 .. q /\ k + 1 \in 1 .. q /\ k < q /\ (k + 1) - 1 = k
    BY <1>1
  <2>2. k * b < n /\ k * b \in Nat
    BY <1>3, <2>1
  <2>3. c[k][2] = k * b /\ c[k + 1][1] = k * b + 1
    BY <1>0, <1>5, <2>1, <2>2
  <2>. QED  BY <2>3
<1>8. q = 0 => n = 0
  <2>1. q = 0 => b * q = 0
    BY <1>0
  <2>. QED  BY <1>0, <1>1, <2>1
<1>9. q # 0 => c[1][1] = 1 /\ c[q][2] = n
  <2>. SUFFICES ASSUME q # 0 PROVE c[1][1] = 1 /\ c[q][2] = n
    OBVIOUS
  <2>1. q \in 1 .. q /\ 1 \in 1 .. q
    BY <1>1
  <2>2. q * b >= n /\ q * b \in Nat
    BY <1>3, <2>1
  <2>3. (1 - 1) * b = 0
    BY <1>0
  <2>. QED  BY <1>0, <1>5, <2>1, <2>2, <2>3
<1>10. c = << >> <=> q = 0
    BY <1>4
<1>. QED  BY <1>1, <1>4, <1>6, <1>7, <1>8, <1>9, <1>10 DEF Unread, n, c

LEMMA ExtractBegins == ASSUME Extract!XInit PROVE DInv
<1>1. queue = Extract!Chunks /\ idx = 0 /\ concepts = << >> /\ relations = << >> /\ result = None
    BY DEF Extract!XInit
<1>2. Whole(<< >>, 0) /\ Enlisted(<< >>, 0)
    BY DEF Whole, Apart, Enlisted
<1>3. result # "ok"
    BY <1>1, NoneAssumption
<1>4. 0 \in 0 .. Len(Document)
    BY TextAssumption DEF Extract!DocumentAssumption
<1>. QED  BY <1>1, <1>2, <1>3, <1>4, ChunksAreRest DEF DInv

LEMMA TwoAhead ==
    ASSUME NEW T, NEW a \in T, NEW b \in T, NEW t \in Seq(T), NEW z, z = <<a, b>> \o t
    PROVE  /\ z \in Seq(T) /\ Len(z) = Len(t) + 2 /\ z[1] = a /\ z[2] = b
           /\ \A i \in 3 .. Len(t) + 2 : z[i] = t[i - 2]
<1>1. <<a, b>> \in Seq(T) /\ Len(<<a, b>>) = 2 /\ <<a, b>>[1] = a /\ <<a, b>>[2] = b /\ Len(t) \in Nat
    OBVIOUS
<1>2. z \in Seq(T) /\ Len(z) = 2 + Len(t)
    BY <1>1
<1>3. 1 \in 1 .. 2 /\ 2 \in 1 .. 2
    OBVIOUS
<1>4. \A i \in 1 .. 2 : z[i] = <<a, b>>[i]
    BY <1>1
<1>5. \A i \in 1 .. Len(t) : z[2 + i] = t[i]
    BY <1>1
<1>6. \A i \in 3 .. Len(t) + 2 : i - 2 \in 1 .. Len(t) /\ 2 + (i - 2) = i
    BY <1>1
<1>. QED  BY <1>1, <1>2, <1>3, <1>4, <1>5, <1>6

LEMMA ExtractStepKeeps == ASSUME DInv, Extract!XNext PROVE DInv'
<1>0. PICK d \in 0 .. Len(Document) : Unread(queue, d) /\ Whole(concepts, d) /\ Enlisted(relations, d)
    BY DEF DInv
<1>a. Len(Document) \in Nat /\ d \in Nat /\ Len(relations) = d
    BY <1>0, TextAssumption DEF Extract!DocumentAssumption, Enlisted
<1>1. CASE Extract!Answer
  <2>1. PICK q, p, n : q = queue /\ p = Head(queue) /\ n = p[2] - d
    OBVIOUS
  <2>2. q # << >> /\ q \in Seq(Pieces) /\ p = q[1] /\ Len(q) \in Nat /\ 1 \in 1 .. Len(q)
    BY <1>0, <1>1, <2>1 DEF Unread, Extract!Answer, Extract!Running
  <2>3. /\ p[1] = d + 1 /\ p[1] <= p[2] /\ p[2] \in 1 .. Len(Document) /\ n \in Nat /\ d + n = p[2] /\ d + n <= Len(Document)
        /\ p[2] - p[1] + 1 = n
    <3>1. p \in Pieces /\ p[1] = d + 1 /\ p[1] <= p[2]
      BY <1>0, <2>1, <2>2 DEF Unread
    <3>. QED  BY <1>a, <2>1, <3>1 DEF Pieces
  <2>4. PICK ls : ls = Extract!LinesOf(p)
    OBVIOUS
  <2>5. ls = [i \in 1 .. n |-> d + i]
    <3>1. \A i \in 1 .. n : p[1] + i - 1 = d + i
      BY <1>a, <2>3
    <3>. QED  BY <2>3, <2>4, <3>1 DEF Extract!LinesOf
  <2>6. PICK items, k : items = Extract!Related(p) /\ k = idx
    OBVIOUS
  <2>7. items = [i \in 1 .. n |-> [line |-> d + i, ref |-> <<k, i>>]]
    <3>1. items = [i \in DOMAIN ls |-> [line |-> ls[i], ref |-> <<k, i>>]]
      BY <2>4, <2>6, Zenon DEF Extract!Related, Extract!Ref
    <3>. QED  BY <2>5, <3>1
  <2>8. /\ concepts' = Extract!AddConcepts(concepts, ls) /\ relations' = Extract!AddRelations(relations, items)
        /\ queue' = Tail(queue) /\ idx' = k + 1 /\ result' = result /\ result = None
    BY <1>1, <2>1, <2>4, <2>6 DEF Extract!Answer, Extract!Piece, Extract!Running
  <2>9. PICK acc, rels : acc = concepts /\ rels = relations
    OBVIOUS
  <2>10. Whole(concepts', d + n)
    <3>1. Whole(Extract!AddConcepts(acc, ls), d + n)
      BY <1>0, <1>a, <2>3, <2>5, <2>9, ConceptsMerge
    <3>. QED  BY <2>8, <2>9, <3>1
  <2>11. PICK y : y = Extract!AddRelations(rels, items)
    OBVIOUS
  <2>12. k \in Nat /\ rels \in Seq(RelationSet) /\ Len(rels) = d /\ \A i \in 1 .. d : rels[i].line = i /\ rels[i].ref[1] < k
    BY <1>0, <1>a, <2>6, <2>9 DEF DInv, Enlisted
  <2>13. \A i \in 1 .. n : items[i].line = d + i /\ items[i].ref = <<k, i>> /\ items[i] \in RelationSet
    BY <1>a, <2>7, <2>12 DEF RelationSet
  <2>14. \A i \in 1 .. n : \A j \in 1 .. Len(rels) : rels[j].ref # items[i].ref
    <3>. SUFFICES ASSUME NEW i \in 1 .. n, NEW j \in 1 .. d, rels[j].ref = items[i].ref PROVE FALSE
      BY <2>12
    <3>1. rels[j].ref[1] = k
      BY <2>13
    <3>. QED  BY <2>12, <3>1
  <2>15. Extended(y, rels, items, n)
    <3>1. items = [i \in 1 .. n |-> items[i]]
      BY <2>7
    <3>. QED  BY <2>3, <2>11, <2>12, <2>13, <2>14, <3>1, RelationsMerge
  <2>16. /\ y \in Seq(RelationSet) /\ Len(y) = d + n /\ \A i \in 1 .. d : y[i] = rels[i]
         /\ \A i \in 1 .. n : y[d + i] = items[i]
    BY <2>12, <2>15 DEF Extended
  <2>17. \A i \in 1 .. d + n : i \in 1 .. d \/ (i - d \in 1 .. n /\ y[i] = items[i - d] /\ i = d + (i - d))
    <3>. SUFFICES ASSUME NEW i \in 1 .. d + n, i \notin 1 .. d
         PROVE  i - d \in 1 .. n /\ y[i] = items[i - d] /\ i = d + (i - d)
      OBVIOUS
    <3>1. i - d \in 1 .. n /\ d + (i - d) = i
      BY <1>a, <2>3
    <3>. QED  BY <2>16, <3>1
  <2>18. \A i \in 1 .. d + n : y[i].line = i /\ y[i].ref[1] < k + 1
    <3>. SUFFICES ASSUME NEW i \in 1 .. d + n PROVE y[i].line = i /\ y[i].ref[1] < k + 1
      OBVIOUS
    <3>1. CASE i \in 1 .. d
      <4>1. rels[i].ref[1] < k /\ rels[i] \in RelationSet /\ y[i] = rels[i] /\ rels[i].line = i
        BY <2>12, <2>16, <3>1
      <4>2. rels[i].ref[1] \in Nat
        BY <4>1 DEF RelationSet
      <4>. QED  BY <2>12, <4>1, <4>2
    <3>2. CASE i \notin 1 .. d
      <4>1. i - d \in 1 .. n /\ y[i] = items[i - d] /\ i = d + (i - d)
        BY <2>17, <3>2
      <4>. QED  BY <2>12, <2>13, <4>1
    <3>. QED  BY <3>1, <3>2
  <2>19. ASSUME NEW i \in 1 .. d + n, NEW j \in 1 .. d + n, y[i].ref = y[j].ref PROVE i = j
    <3>1. \A m \in 1 .. d + n : m \notin 1 .. d => y[m].ref = <<k, m - d>>
      BY <2>13, <2>17
    <3>2. \A m \in 1 .. d : y[m].ref[1] < k /\ y[m] = rels[m]
      BY <2>12, <2>16
    <3>3. CASE i \in 1 .. d /\ j \in 1 .. d
      BY <1>0, <1>a, <2>9, <2>19, <3>2, <3>3 DEF Enlisted
    <3>4. CASE i \notin 1 .. d /\ j \notin 1 .. d
      <4>1. <<k, i - d>> = <<k, j - d>>
        BY <2>19, <3>1, <3>4
      <4>2. i - d = j - d
        BY <4>1
      <4>. QED  BY <1>a, <4>2
    <3>5. CASE i \in 1 .. d /\ j \notin 1 .. d
      <4>1. y[i].ref[1] < k /\ y[i].ref[1] = k
        BY <2>19, <3>1, <3>2, <3>5
      <4>. QED  BY <2>12, <4>1
    <3>6. CASE i \notin 1 .. d /\ j \in 1 .. d
      <4>1. y[j].ref[1] < k /\ y[j].ref[1] = k
        BY <2>19, <3>1, <3>2, <3>6
      <4>. QED  BY <2>12, <4>1
    <3>. QED  BY <3>3, <3>4, <3>5, <3>6
  <2>20. Enlisted(y, d + n)
    BY <2>16, <2>18, <2>19 DEF Enlisted
  <2>21. PICK t : t = Tail(q)
    OBVIOUS
  <2>22. t \in Seq(Pieces) /\ Len(t) = Len(q) - 1 /\ \A i \in 1 .. Len(q) - 1 : t[i] = q[i + 1]
    BY <2>2, <2>21
  <2>23. Unread(t, d + n)
    <3>1. \A i \in 1 .. Len(t) : t[i][1] <= t[i][2]
      BY <1>0, <2>1, <2>2, <2>22 DEF Unread
    <3>2. t = << >> => d + n = Len(Document)
      <4>1. t = << >> => Len(q) = 1
        BY <2>2, <2>22
      <4>. QED  BY <1>0, <2>1, <2>2, <2>3, <4>1 DEF Unread
    <3>3. t # << >> => t[1][1] = (d + n) + 1 /\ t[Len(t)][2] = Len(Document)
      <4>1. t # << >> => Len(q) - 1 \in 1 .. Len(q) - 1 /\ 1 \in 1 .. Len(q) - 1
        BY <2>2, <2>22
      <4>2. t # << >> => t[1] = q[2] /\ q[2][1] = q[1][2] + 1 /\ t[Len(t)] = q[Len(q)]
        <5>1. \A i \in 1 .. Len(q) - 1 : q[i + 1][1] = q[i][2] + 1
          BY <1>0, <2>1 DEF Unread
        <5>. QED  BY <2>2, <2>22, <4>1, <5>1
      <4>3. q[Len(q)][2] = Len(Document)
        BY <1>0, <2>1, <2>2 DEF Unread
      <4>. QED  BY <2>2, <2>3, <4>2, <4>3
    <3>4. \A i \in 1 .. Len(t) - 1 : t[i + 1][1] = t[i][2] + 1
      <4>. SUFFICES ASSUME NEW i \in 1 .. Len(t) - 1 PROVE t[i + 1][1] = t[i][2] + 1
        OBVIOUS
      <4>1. i + 1 \in 1 .. Len(q) - 1 /\ i \in 1 .. Len(q) - 1
        BY <2>2, <2>22
      <4>2. q[(i + 1) + 1][1] = q[i + 1][2] + 1
        BY <1>0, <2>1, <4>1 DEF Unread
      <4>. QED  BY <2>22, <4>1, <4>2
    <3>. QED  BY <2>22, <3>1, <3>2, <3>3, <3>4 DEF Unread
  <2>24. queue' = t /\ relations' = y /\ idx' \in Nat /\ result' # "ok"
    BY <2>1, <2>8, <2>9, <2>11, <2>12, <2>21, NoneAssumption
  <2>25. \A i \in 1 .. Len(relations') : relations'[i].ref[1] < idx'
    BY <2>8, <2>16, <2>18, <2>24
  <2>26. d + n \in 0 .. Len(Document)
    BY <1>a, <2>3
  <2>. QED  BY <2>10, <2>20, <2>23, <2>24, <2>25, <2>26 DEF DInv
<1>2. CASE Extract!CutOff
  <2>1. PICK q, p : q = queue /\ p = Head(queue)
    OBVIOUS
  <2>2. q # << >> /\ q \in Seq(Pieces) /\ p = q[1] /\ Len(q) \in Nat /\ 1 \in 1 .. Len(q)
    BY <1>0, <1>2, <2>1 DEF Unread, Extract!CutOff, Extract!Running
  <2>3. p \in Pieces /\ p[1] = d + 1 /\ p[1] \in 1 .. Len(Document) /\ p[2] \in 1 .. Len(Document)
    BY <1>0, <2>1, <2>2 DEF Unread, Pieces
  <2>4. PICK cut \in p[1] .. p[2] - 1 : queue' = <<<<p[1], cut>>, <<cut + 1, p[2]>>>> \o Tail(queue)
    BY <1>2, <2>1 DEF Extract!CutOff, Extract!Piece
  <2>5. PICK a, b, t, z : a = <<p[1], cut>> /\ b = <<cut + 1, p[2]>> /\ t = Tail(q) /\ z = <<a, b>> \o t
    OBVIOUS
  <2>6. a \in Pieces /\ b \in Pieces /\ a[1] = d + 1 /\ a[2] = cut /\ b[1] = cut + 1 /\ b[2] = p[2] /\ a[1] <= a[2] /\ b[1] <= b[2]
    BY <1>a, <2>3, <2>4, <2>5 DEF Pieces
  <2>7. t \in Seq(Pieces) /\ Len(t) = Len(q) - 1 /\ \A i \in 1 .. Len(q) - 1 : t[i] = q[i + 1]
    BY <2>2, <2>5
  <2>8. z \in Seq(Pieces) /\ Len(z) = Len(q) + 1 /\ z[1] = a /\ z[2] = b /\ \A i \in 3 .. Len(q) + 1 : z[i] = q[i - 1]
    <3>1. z \in Seq(Pieces) /\ Len(z) = Len(t) + 2 /\ z[1] = a /\ z[2] = b /\ \A i \in 3 .. Len(t) + 2 : z[i] = t[i - 2]
      BY <2>5, <2>6, <2>7, TwoAhead
    <3>2. \A i \in 3 .. Len(q) + 1 : i - 2 \in 1 .. Len(q) - 1 /\ (i - 2) + 1 = i - 1
      BY <2>2
    <3>3. Len(t) + 2 = Len(q) + 1
      BY <2>2, <2>7
    <3>4. ASSUME NEW i \in 3 .. Len(q) + 1 PROVE z[i] = q[i - 1]
      BY <2>7, <3>1, <3>2, <3>3
    <3>. QED  BY <3>1, <3>3, <3>4
  <2>9. Unread(z, d)
    <3>0. /\ \A i \in 1 .. Len(q) : q[i][1] <= q[i][2]
          /\ \A i \in 1 .. Len(q) - 1 : q[i + 1][1] = q[i][2] + 1
          /\ q[Len(q)][2] = Len(Document)
      BY <1>0, <2>1, <2>2 DEF Unread
    <3>a. Len(q) # 1 => Len(q) >= 2
      <4>1. \A m \in Nat : 1 \in 1 .. m /\ m # 1 => m >= 2
        OBVIOUS
      <4>2. Len(q) \in Nat /\ 1 \in 1 .. Len(q)
        BY <2>2
      <4>. QED  BY <4>1, <4>2, Zenon
    <3>1. \A i \in 1 .. Len(z) : z[i][1] <= z[i][2]
      <4>. SUFFICES ASSUME NEW i \in 1 .. Len(z) PROVE z[i][1] <= z[i][2]
        OBVIOUS
      <4>1. i = 1 \/ i = 2 \/ (i \in 3 .. Len(q) + 1 /\ i - 1 \in 1 .. Len(q))
        BY <2>2, <2>8
      <4>. QED  BY <2>6, <2>8, <3>0, <4>1
    <3>2. z[Len(z)][2] = Len(Document)
      <4>1. CASE Len(q) = 1
        BY <2>2, <2>6, <2>8, <3>0, <4>1
      <4>2. CASE Len(q) # 1
        <5>1. Len(q) + 1 \in 3 .. Len(q) + 1 /\ (Len(q) + 1) - 1 = Len(q)
          BY <2>2, <3>a, <4>2
        <5>2. z[Len(q) + 1] = q[(Len(q) + 1) - 1]
          BY <2>8, <5>1
        <5>. QED  BY <2>2, <2>8, <3>0, <5>1, <5>2
      <4>. QED  BY <4>1, <4>2
    <3>3. \A i \in 1 .. Len(z) - 1 : z[i + 1][1] = z[i][2] + 1
      <4>. SUFFICES ASSUME NEW i \in 1 .. Len(q) PROVE z[i + 1][1] = z[i][2] + 1
        BY <2>2, <2>8
      <4>1. CASE i = 1
        BY <2>6, <2>8, <4>1
      <4>2. CASE i = 2
        <5>1. 3 \in 3 .. Len(q) + 1 /\ 1 \in 1 .. Len(q) - 1
          BY <2>2, <4>2
        <5>2. z[3] = q[2] /\ q[2][1] = q[1][2] + 1
          BY <2>8, <3>0, <5>1
        <5>. QED  BY <2>2, <2>6, <2>8, <4>2, <5>2
      <4>3. CASE i # 1 /\ i # 2
        <5>1. i \in 3 .. Len(q) + 1 /\ i + 1 \in 3 .. Len(q) + 1 /\ (i + 1) - 1 = i /\ i - 1 \in 1 .. Len(q) - 1 /\ (i - 1) + 1 = i
          BY <2>2, <4>3
        <5>2. z[i + 1] = q[i] /\ z[i] = q[i - 1] /\ q[i][1] = q[i - 1][2] + 1
          BY <2>8, <3>0, <5>1
        <5>. QED  BY <5>2
      <4>. QED  BY <4>1, <4>2, <4>3
    <3>. QED  BY <2>2, <2>6, <2>8, <3>1, <3>2, <3>3 DEF Unread
  <2>10. /\ queue' = z /\ idx' = idx + 1 /\ concepts' = concepts /\ relations' = relations /\ result' = result /\ result = None
    BY <1>2, <2>1, <2>4, <2>5 DEF Extract!CutOff, Extract!Running
  <2>11. \A i \in 1 .. Len(relations) : relations[i].ref[1] < idx + 1
    <3>. SUFFICES ASSUME NEW i \in 1 .. Len(relations) PROVE relations[i].ref[1] < idx + 1
      OBVIOUS
    <3>1. relations[i] \in RelationSet /\ relations[i].ref[1] < idx /\ idx \in Nat
      BY <1>0, <1>a DEF DInv, Enlisted
    <3>2. relations[i].ref[1] \in Nat
      BY <3>1 DEF RelationSet
    <3>. QED  BY <3>1, <3>2
  <2>. QED  BY <1>0, <2>9, <2>10, <2>11, NoneAssumption DEF DInv
<1>3. CASE Extract!Fail
    BY <1>3 DEF Extract!Fail, DInv
<1>4. CASE Extract!Finish
    BY <1>4 DEF Extract!Finish, DInv
<1>. QED  BY <1>1, <1>2, <1>3, <1>4 DEF Extract!XNext

-----------------------------------------------------------------------------
(* A behaviour is about one part: a step of it is a step of that part, or  *)
(* leaves its variables alone.                                             *)
LEMMA OnePart ==
    ASSUME [ServicesNext]_servicesVars
    PROVE  /\ unit' = unit
           /\ unit = "server" => [INext]_ivars
           /\ unit = "lists" => [Lists!PNext]_listsVars
           /\ unit = "search" => [Search!SNext]_searchVars
           /\ unit = "ask" => [Ask!QNext]_askVars
           /\ unit = "extract" => [Extract!XNext]_extractVars
           /\ unit = "file" => [File!FNext]_fileVars
           /\ unit = "migrate" => [Migrate!GNext]_migrateVars
           /\ unit = "backup" => [Backup!KNext]_backupVars
           /\ unit = "review" => [Review!RNext]_reviewVars
           /\ unit = "accounts" => [Accounts!ANext]_accountsVars
           /\ unit = "payloads" => [Payloads!TNext]_payloadsVars
           /\ unit = "settings" => [Settings!MNext]_settingsVars
           /\ unit = "registries" => [Registries!NNext]_registriesVars
           /\ unit = "segment" => [Segment!CNext]_segmentVars
BY DEF ServicesNext, servicesVars, serverVars, ivars, wvars, OthersRest, ServerStep, ListsStep, FileStep, MigrateStep, BackupStep, ReviewStep,
       AccountsStep, AskStep, ExtractStep, SearchStep, PayloadsStep, PlanStep, WalkStep, SegmentStep, SettingsStep,
       RegistriesStep

LEMMA PartBegins ==
    ASSUME ServicesInit
    PROVE  /\ unit = "server" => IInit
           /\ unit = "lists" => Lists!PInit
           /\ unit = "search" => Search!SInit
           /\ unit = "ask" => Ask!QInit
           /\ unit = "extract" => Extract!XInit
           /\ unit = "file" => File!FInit
           /\ unit = "migrate" => Migrate!GInit
           /\ unit = "backup" => Backup!KInit
           /\ unit = "review" => Review!RInit
           /\ unit = "accounts" => Accounts!AInit
           /\ unit = "payloads" => Payloads!TInit
           /\ unit = "settings" => Settings!MInit
           /\ unit = "registries" => Registries!NInit
           /\ unit = "segment" => Segment!CInit
BY DEF ServicesInit

LEMMA UnitStays == [ServicesNext]_servicesVars => unit' = unit
BY OnePart

(* PageFresh: a page answered -- built beside the writers, out of the      *)
(* cache or confirmed by its tag -- shows every write acknowledged before  *)
(* the request, and a first page that is not full misses no entity that    *)
(* stood throughout, for any entities, any names, any length of a page and *)
(* any number of writes, whichever step of a write the reader is beside    *)
(* (graph.rs, the list endpoints).                                         *)
THEOREM PageFreshHolds == ServicesSpec => []PageFresh
<1>1. ServicesInit /\ unit = "lists" => PInv
    BY PartBegins, ListsBegin
<1>2. unit = "lists" /\ PInv /\ [ServicesNext]_servicesVars => (unit = "lists")' /\ PInv'
    BY OnePart, ListsStepKeeps
<1>3. ~(unit = "lists") /\ [ServicesNext]_servicesVars => ~(unit = "lists")'
    BY UnitStays
<1>4. PInv \/ ~(unit = "lists") => PageFresh
    BY ListsImply DEF PageFresh
<1>. QED  BY <1>1, <1>2, <1>3, <1>4, PTL DEF ServicesSpec

(* WalkComplete: a walk from cursor to cursor that came to its end, while  *)
(* no id took another name, showed every entity that stood throughout      *)
(* exactly once, for any entities, any names, any length of a page and any *)
(* number of writes, wherever the pages came from and whatever was created *)
(* and deleted around it (graph.rs, the list endpoints).  A page of no     *)
(* entities would end the walk at once.                                    *)
THEOREM WalkCompleteHolds == ASSUME Limit \in Nat \ {0} PROVE ServicesSpec => []WalkComplete
<1>1. ServicesInit /\ unit = "lists" => WInv
    BY PartBegins, WalkBegins
<1>2. unit = "lists" /\ WInv /\ [ServicesNext]_servicesVars => (unit = "lists")' /\ WInv'
    BY OnePart, WalkStepKeeps
<1>3. ~(unit = "lists") /\ [ServicesNext]_servicesVars => ~(unit = "lists")'
    BY UnitStays
<1>4. WInv \/ ~(unit = "lists") => WalkComplete
    BY WalkImply DEF WalkComplete
<1>. QED  BY <1>1, <1>2, <1>3, <1>4, PTL DEF ServicesSpec

(* IndexCurrent: between two writes a search finds every concept by the    *)
(* words of its text as it is now, by no others, and nothing that is gone  *)
(* save what a reset left behind; the vector rows are dense, one for each  *)
(* document, and no failed request of the embedder is remembered, for any  *)
(* texts and any number of concepts: an upload, a reset and a start        *)
(* reindex them all, one after the other (index/src).                      *)
THEOREM IndexCurrentHolds == ServicesSpec => []IndexCurrent
<1>1. ServicesInit /\ unit = "search" => XInv
    BY PartBegins, SearchBegins
<1>2. unit = "search" /\ XInv /\ [ServicesNext]_servicesVars => (unit = "search")' /\ XInv'
    BY OnePart, SearchStepKeeps, SearchStays
<1>3. ~(unit = "search") /\ [ServicesNext]_servicesVars => ~(unit = "search")'
    BY UnitStays
<1>4. XInv \/ ~(unit = "search") => IndexCurrent
    BY SearchImply DEF IndexCurrent
<1>. QED  BY <1>1, <1>2, <1>3, <1>4, PTL DEF ServicesSpec

(* StreamWhole: however the bytes of a streamed answer are cut and         *)
(* wherever its connection closes or fails, the text sent on is a prefix   *)
(* of the provider's, nothing twice and nothing left out; one end comes,   *)
(* last, and with the stop reason only after the whole text; for any       *)
(* texts and any frames that put no text behind the stop reason            *)
(* (rag/src/model.rs, the event streams; the server's ask_stream).         *)
THEOREM StreamWholeHolds == ServicesSpec => []StreamWhole
<1>1. ServicesInit /\ unit = "ask" => QInv
    BY PartBegins, AskBegins
<1>2. unit = "ask" /\ QInv /\ [ServicesNext]_servicesVars => (unit = "ask")' /\ QInv'
    BY OnePart, AskStepKeeps, AskUnmoved
<1>3. ~(unit = "ask") /\ [ServicesNext]_servicesVars => ~(unit = "ask")'
    BY UnitStays
<1>4. QInv \/ ~(unit = "ask") => StreamWhole
    BY AskImplies DEF StreamWhole
<1>. QED  BY <1>1, <1>2, <1>3, <1>4, PTL DEF ServicesSpec

(* ProposalWhole: a proposal that is returned has one item for every       *)
(* entity of the document, the surest one, and every relation once, in     *)
(* order, under a reference of its own, for any document, any size of a    *)
(* piece and whatever answers are cut off (rag/src/extract.rs).            *)
THEOREM ProposalWholeHolds == ServicesSpec => []ProposalWhole
<1>1. ServicesInit /\ unit = "extract" => DInv
    BY PartBegins, ExtractBegins
<1>2. unit = "extract" /\ DInv /\ [ServicesNext]_servicesVars => (unit = "extract")' /\ DInv'
    BY OnePart, ExtractStepKeeps, ExtractUnmoved
<1>3. ~(unit = "extract") /\ [ServicesNext]_servicesVars => ~(unit = "extract")'
    BY UnitStays
<1>4. DInv \/ ~(unit = "extract") => ProposalWhole
    BY ExtractImplies DEF ProposalWhole
<1>. QED  BY <1>1, <1>2, <1>3, <1>4, PTL DEF ServicesSpec

(* LegacyKept: a load of the legacy store rebuilds what was acknowledged   *)
(* and what a failed write left whole, for any entities and any length of  *)
(* the log, wherever a snapshot or a compaction was cut short, unless a    *)
(* snapshot's watermark covered a record its graph lacked (file.rs).       *)
THEOREM LegacyKeptHolds == ServicesSpec => []LegacyKept
<1>1. ServicesInit /\ unit = "file" => FInv
    BY PartBegins, FileBegins
<1>2. unit = "file" /\ FInv /\ [ServicesNext]_servicesVars => (unit = "file")' /\ FInv'
    BY OnePart, FileStepKeeps
<1>3. ~(unit = "file") /\ [ServicesNext]_servicesVars => ~(unit = "file")'
    BY UnitStays
<1>4. FInv \/ ~(unit = "file") => LegacyKept
    BY FileImply DEF LegacyKept
<1>. QED  BY <1>1, <1>2, <1>3, <1>4, PTL DEF ServicesSpec

(* ServesWhole: a start that serves the graph serves the whole history,    *)
(* for a legacy log and snapshot of any length, wherever the migration was *)
(* cut short and whatever it retired (migrate.rs).                         *)
THEOREM ServesWholeHolds == ServicesSpec => []ServesWhole
<1>1. ServicesInit /\ unit = "migrate" => GInv
    BY PartBegins, MigrateBegins
<1>2. unit = "migrate" /\ GInv /\ [ServicesNext]_servicesVars => (unit = "migrate")' /\ GInv'
    BY OnePart, MigrateStepKeeps
<1>3. ~(unit = "migrate") /\ [ServicesNext]_servicesVars => ~(unit = "migrate")'
    BY UnitStays
<1>4. GInv \/ ~(unit = "migrate") => ServesWhole
    BY MigrateImply DEF ServesWhole
<1>. QED  BY <1>1, <1>2, <1>3, <1>4, PTL DEF ServicesSpec

(* OneAdmin: a tenant with accounts has exactly one administrator, on disk *)
(* and in memory, for any number of handlers and accounts, whatever races  *)
(* the password hash and whichever writes fail (auth.rs).                  *)
THEOREM OneAdminAmongServices == ServicesSpec => []OneAdmin
<1>1. ServicesInit /\ unit = "accounts" => AInv
    BY PartBegins, AccountsBegin
<1>2. unit = "accounts" /\ AInv /\ [ServicesNext]_servicesVars => (unit = "accounts")' /\ AInv'
    BY OnePart, AccountsStepKeeps
<1>3. ~(unit = "accounts") /\ [ServicesNext]_servicesVars => ~(unit = "accounts")'
    BY UnitStays
<1>4. AInv \/ ~(unit = "accounts") => OneAdmin
    BY AccountsImply DEF OneAdmin
<1>. QED  BY <1>1, <1>2, <1>3, <1>4, PTL DEF ServicesSpec

(* ReadsCurrent: a read of a concept whose payload is on disk returns one  *)
(* at least as new as the graph showed when it began, and fails only when  *)
(* a compaction dropped the old partitions between its two steps.          *)
THEOREM ReadsCurrentHolds == ServicesSpec => []ReadsCurrent
<1>1. ServicesInit /\ unit = "payloads" => TInv
    BY PartBegins, PayloadsBegin
<1>2. unit = "payloads" /\ TInv /\ [ServicesNext]_servicesVars => (unit = "payloads")' /\ TInv'
    BY OnePart, PayloadsStepKeeps
<1>3. ~(unit = "payloads") /\ [ServicesNext]_servicesVars => ~(unit = "payloads")'
    BY UnitStays
<1>4. TInv \/ ~(unit = "payloads") => ReadsCurrent
    BY PayloadsImply DEF ReadsCurrent
<1>. QED  BY <1>1, <1>2, <1>3, <1>4, PTL DEF ServicesSpec

(* ReviewDurable: at every moment of any number of reviews, with items     *)
(* that are refused, appends that fail and may leave their record, and     *)
(* restarts: the journal replays; what is served and not in it are types   *)
(* still to be journaled; it holds nothing more than is served unless an   *)
(* append failed; and what a journaled request's report calls created or   *)
(* merged is served and on disk, with its type and its ends                *)
(* (ingest_review.rs).                                                     *)
THEOREM ReviewDurableHolds == ServicesSpec => []ReviewDurable
<1>1. ServicesInit /\ unit = "review" => RInv
    BY PartBegins, ReviewBegin
<1>2. unit = "review" /\ RInv /\ [ServicesNext]_servicesVars => (unit = "review")' /\ RInv'
    BY OnePart, ReviewStepKeeps
<1>3. ~(unit = "review") /\ [ServicesNext]_servicesVars => ~(unit = "review")'
    BY UnitStays
<1>4. RInv \/ ~(unit = "review") => ReviewDurable
    BY ReviewImply DEF ReviewDurable
<1>. QED  BY <1>1, <1>2, <1>3, <1>4, PTL DEF ServicesSpec

(* AdminSound: a model call is answered under settings that were in force  *)
(* during it, and once the patches are done the settings on file are those *)
(* served, unless two patches met or the last write of the file failed     *)
(* (lib.rs); saved queries, the rate limit and the samples, for any sizes  *)
(* and limits.                                                             *)
THEOREM AdminSoundHolds == ServicesSpec => []AdminSound
<1>1. ServicesInit /\ unit = "settings" => MInv
    BY PartBegins, SettingsBegin
<1>2. unit = "settings" /\ MInv /\ [ServicesNext]_servicesVars => (unit = "settings")' /\ MInv'
    BY OnePart, SettingsStepKeeps
<1>3. ~(unit = "settings") /\ [ServicesNext]_servicesVars => ~(unit = "settings")'
    BY UnitStays
<1>4. ServicesInit /\ unit = "registries" => NInv
    BY PartBegins, RegistriesBegin
<1>5. unit = "registries" /\ NInv /\ [ServicesNext]_servicesVars => (unit = "registries")' /\ NInv'
    BY OnePart, RegistriesStepKeeps
<1>6. ~(unit = "registries") /\ [ServicesNext]_servicesVars => ~(unit = "registries")'
    BY UnitStays
<1>7. (MInv \/ ~(unit = "settings")) /\ (NInv \/ ~(unit = "registries")) => AdminSound
    BY SettingsImply, RegistriesImply DEF AdminSound
<1>. QED  BY <1>1, <1>2, <1>3, <1>4, <1>5, <1>6, <1>7, PTL DEF ServicesSpec

(* RestoresTaken: a restore shows what the last whole backup took, for any *)
(* number of records and partitions, over whatever older and interrupted   *)
(* backups the directory holds, beside rolls and compactions.              *)
THEOREM RestoresTakenHolds == ServicesSpec => RestoresTaken
<1>1. ServicesInit /\ unit = "backup" => KInv
    BY PartBegins, BackupBegin
<1>2. unit = "backup" /\ KInv /\ [ServicesNext]_servicesVars => (unit = "backup")' /\ KInv'
    BY OnePart, BackupStepKeeps
<1>3. ~(unit = "backup") /\ [ServicesNext]_servicesVars => ~(unit = "backup")'
    BY UnitStays
<1>4. (KInv \/ ~(unit = "backup")) /\ [ServicesNext]_servicesVars
      => [unit = "backup" => (shown' # shown => shown' = taken)]_<<unit, backupVars>>
    BY OnePart, BackupImply
<1>. QED  BY <1>1, <1>2, <1>3, <1>4, PTL DEF ServicesSpec, RestoresTaken

(* RecoverySound: a segment that opens holds, in order, every record that  *)
(* was committed but those a bad sector spoiled or cut off with a damaged  *)
(* length, under an index of its own records; one is refused only for      *)
(* damage, or for a header that was lost before anything was committed:    *)
(* for any number of records, kills, power cuts that keep any part of what *)
(* was not synced, and bad sectors (recover.rs).                           *)
THEOREM RecoverySoundHolds == ServicesSpec => []RecoverySound
<1>1. ServicesInit /\ unit = "segment" => SInv
    BY PartBegins, SegmentBegins
<1>2. unit = "segment" /\ SInv /\ [ServicesNext]_servicesVars => (unit = "segment")' /\ SInv'
    BY OnePart, SegmentStepKeeps
<1>3. ~(unit = "segment") /\ [ServicesNext]_servicesVars => ~(unit = "segment")'
    BY UnitStays
<1>4. SInv \/ ~(unit = "segment") => RecoverySound
    BY SegmentImply DEF RecoverySound
<1>. QED  BY <1>1, <1>2, <1>3, <1>4, PTL DEF ServicesSpec

(* ServerNames: the name index is exactly the inverse of the concepts'     *)
(* names, for any journal, schemas and sources: after every handler, batch *)
(* of an ingest and restart, whatever failed on the way (graph.rs).        *)
THEOREM ServerNamesHolds == ServicesSpec => []ServerNames
<1>1. ServicesInit /\ unit = "server" => ServerInv
    BY PartBegins, ServerBegins
<1>2. unit = "server" /\ ServerInv /\ [ServicesNext]_servicesVars => (unit = "server")' /\ ServerInv'
    BY OnePart, ServerStepKeeps
<1>3. ~(unit = "server") /\ [ServicesNext]_servicesVars => ~(unit = "server")'
    BY UnitStays
<1>4. ServerInv \/ ~(unit = "server") => ServerNames
    BY NamesImplied DEF ServerNames
<1>. QED  BY <1>1, <1>2, <1>3, <1>4, PTL DEF ServicesSpec

(* ServerJournal: memory never runs ahead of the disk.  Every concept,     *)
(* rule and action that is live is told by a record of the journal, through*)
(* failed writes, crashes, restarts, compactions and abandoned appends --  *)
(* unless a reset or a compaction may lose the client that asked for it,   *)
(* where it is false (the run server_abandoned).                           *)
THEOREM ServerJournalHolds == ASSUME NoAbandonedRewrite PROVE ServicesSpec => []ServerJournal
<1>1. ServicesInit /\ unit = "server" => ServerInv
    BY PartBegins, ServerBegins
<1>2. unit = "server" /\ ServerInv /\ [ServicesNext]_servicesVars => (unit = "server")' /\ ServerInv'
    BY OnePart, ServerStepKeeps
<1>3. ~(unit = "server") /\ [ServicesNext]_servicesVars => ~(unit = "server")'
    BY UnitStays
<1>4. ServerInv \/ ~(unit = "server") => ServerJournal
    BY JournaledImplied DEF ServerJournal
<1>. QED  BY <1>1, <1>2, <1>3, <1>4, PTL DEF ServicesSpec

==============================================================================
