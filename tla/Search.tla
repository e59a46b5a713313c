------------------------------- MODULE Search -------------------------------
(***************************************************************************)
(* The retrieval index beside the graph (index/src): postings by word,     *)
(* dense vector rows, and the cache of a remote embedder, in memory and in *)
(* its file.  Handlers change the graph and then the index, under the      *)
(* writer lock; an upload, a reset and a start reindex everything.         *)
(*                                                                         *)
(* A text is its set of words and the vector of a text is the text; the    *)
(* zero vector stands for a request to the embedder that failed.  Scores,  *)
(* pools and the relevance floor are left out: a search returns every      *)
(* concept with a positive score.                                          *)
(***************************************************************************)
EXTENDS Naturals, Sequences, FiniteSets, SequencesExt, Functions

CONSTANTS Texts,       \* texts of concepts: non-empty sets of words
          MaxConcepts, \* ids the allocator gives out
          None

Words == UNION Texts
Zero  == {}

VARIABLES
    corpus,     \* id |-> text, or None: the graph
    nextConcept,
    docTerms,   \* id |-> words: what to unpost
    postings,   \* word |-> ids
    nDocs,
    rows,       \* [id, vec], dense
    rowOf,      \* id |-> its row
    cached,     \* <<text, vector>> remembered in memory
    cacheFile,  \* ... and in the file
    dirty,
    ghosts      \* history: ids a reset left in the index

svars == <<corpus, nextConcept, docTerms, postings, nDocs, rows, rowOf, cached, cacheFile, dirty, ghosts>>

ConceptIds == 1 .. MaxConcepts
Corpus     == {i \in ConceptIds : corpus[i] # None}
Empty      == [lex |-> << >>, post |-> [w \in Words |-> {}], n |-> 0, rows |-> << >>, pos |-> << >>]

SInit ==
    /\ corpus = [i \in ConceptIds |-> None] /\ nextConcept = 1
    /\ docTerms = Empty.lex /\ postings = Empty.post /\ nDocs = 0
    /\ rows = << >> /\ rowOf = << >>
    /\ cached = {} /\ cacheFile = {} /\ dirty = FALSE /\ ghosts = {}

---------------------------------------------------------------------------
(* The lexical half: an insert replaces the document's own postings.       *)

Unpost(x, i) == [x EXCEPT !.post = [w \in Words |-> x.post[w] \ {i}],
                          !.lex = Restrict(@, DOMAIN @ \ {i})]

Post(x, i, text) ==
    LET y == Unpost(x, i)
    IN  [y EXCEPT !.post = [w \in Words |-> IF w \in text THEN y.post[w] \cup {i} ELSE y.post[w]],
                  !.lex = [k \in DOMAIN @ \cup {i} |-> IF k = i THEN text ELSE @[k]],
                  !.n = IF i \in DOMAIN x.lex THEN @ ELSE @ + 1]

Unlist(x, i) == [Unpost(x, i) EXCEPT !.n = IF i \in DOMAIN x.lex THEN @ - 1 ELSE @]

(* The vectors: a new id goes last; a removal moves the last row into the  *)
(* hole and records where it went.                                         *)
Upsert(x, i, v) ==
    IF i \in DOMAIN x.pos THEN [x EXCEPT !.rows[x.pos[i]].vec = v]
    ELSE [x EXCEPT !.rows = Append(@, [id |-> i, vec |-> v]),
                   !.pos = [k \in DOMAIN @ \cup {i} |-> IF k = i THEN Len(x.rows) + 1 ELSE @[k]]]

Positions_Kept(x, i) == Restrict(x.pos, DOMAIN x.pos \ {i})
Positions(x, i) ==
    [k \in DOMAIN x.pos \ {i} |-> IF k = Last(x.rows).id THEN x.pos[i] ELSE x.pos[k]]

DropRow(x, i) ==
    IF i \notin DOMAIN x.pos THEN x
    ELSE [x EXCEPT !.rows = Front([x.rows EXCEPT ![x.pos[i]] = Last(x.rows)]), !.pos = Positions(x, i)]

(* The embedder: the cache first, then the provider, up or not; a zero     *)
(* vector is not remembered.                                               *)
Known(cache, t) == \E p \in cache : p[1] = t
Embed(cache, t, up) ==
    IF Known(cache, t) THEN (CHOOSE p \in cache : p[1] = t)[2] ELSE IF up THEN t ELSE Zero
Remember(cache, texts, up) ==
    cache \cup {p \in {<<t, Embed(cache, t, up)>> : t \in texts} : p[2] # Zero}

Here   == [lex |-> docTerms, post |-> postings, n |-> nDocs, rows |-> rows, pos |-> rowOf]
Put(x) == /\ docTerms' = x.lex /\ postings' = x.post /\ nDocs' = x.n
          /\ rows' = x.rows /\ rowOf' = x.pos

---------------------------------------------------------------------------
(* One document: its words, then its vector.                               *)
Insert(y, i, t, cache, up) == Upsert(Post(y, i, t), i, Embed(cache, t, up))

(* index_concept and forget, after the graph has changed.                  *)
IndexConcept(i, up) ==
    LET t == corpus'[i]
    IN  /\ Put(Insert(Here, i, t, cached, up))
        /\ cached' = Remember(cached, {t}, up)
        /\ dirty' = (dirty \/ cached' # cached)
        /\ ghosts' = ghosts \ {i}
        /\ UNCHANGED cacheFile

Create == \E t \in Texts, up \in BOOLEAN :
    /\ nextConcept \in ConceptIds
    /\ corpus' = [corpus EXCEPT ![nextConcept] = t]
    /\ nextConcept' = nextConcept + 1
    /\ IndexConcept(nextConcept, up)

Update == \E i \in Corpus, t \in Texts, up \in BOOLEAN :
    /\ corpus' = [corpus EXCEPT ![i] = t]
    /\ IndexConcept(i, up)
    /\ UNCHANGED nextConcept

Delete == \E i \in Corpus :
    /\ corpus' = [corpus EXCEPT ![i] = None]
    /\ Put(DropRow(Unlist(Here, i), i))
    /\ UNCHANGED <<nextConcept, cached, cacheFile, dirty, ghosts>>

(* save: nothing unless dirty; the flag is cleared before the file is      *)
(* written, which may fail.                                                *)
Save(cache, changed) ==
    \/ dirty' = FALSE /\ cacheFile' = IF changed THEN cache ELSE cacheFile
    \/ changed /\ dirty' = FALSE /\ UNCHANGED cacheFile

(* reindex_all: every concept of the graph is inserted, in one order;      *)
(* texts go to the embedder together; nothing is removed.                  *)
Reindex(x, cache, changed, up) ==
    LET Next(y, i) == IF corpus'[i] = None THEN y ELSE Insert(y, i, corpus'[i], cache, up)
        fresh == Remember(cache, {corpus'[i] : i \in {j \in ConceptIds : corpus'[j] # None}}, up)
    IN  /\ Put(FoldLeft(Next, x, [i \in ConceptIds |-> i]))
        /\ cached' = fresh
        /\ Save(fresh, changed \/ fresh # cache)

(* An upload that creates a concept, changes one or does nothing.          *)
Upload == \E t \in Texts, up \in BOOLEAN :
    /\ \/ \E i \in Corpus : corpus' = [corpus EXCEPT ![i] = t] /\ UNCHANGED nextConcept
       \/ /\ nextConcept \in ConceptIds /\ nextConcept' = nextConcept + 1
          /\ corpus' = [corpus EXCEPT ![nextConcept] = t]
    /\ Reindex(Here, cached, dirty, up)
    /\ ghosts' = ghosts \ {i \in ConceptIds : corpus'[i] # None}

(* POST /reset: the graph is emptied, its ids start again, and an empty    *)
(* graph is reindexed.                                                     *)
Reset ==
    /\ corpus' = [i \in ConceptIds |-> None] /\ nextConcept' = 1
    /\ Reindex(Here, cached, dirty, TRUE)
    /\ ghosts' = DOMAIN docTerms

(* A stop and a start: the index is built again, the cache is what its     *)
(* file holds.                                                             *)
Restart == \E up \in BOOLEAN :
    /\ UNCHANGED <<corpus, nextConcept>>
    /\ Reindex(Empty, cacheFile, FALSE, up)
    /\ ghosts' = {}

SNext == Create \/ Update \/ Delete \/ Upload \/ Reset \/ Restart

SSpec == SInit /\ [][SNext]_svars

(* What a search for the words q finds; with a type filter the graph is    *)
(* asked for each hit.                                                     *)
Hits(q, typed) ==
    LET found == (UNION {postings[w] : w \in q}) \cup {rows[k].id : k \in {k \in DOMAIN rows : rows[k].vec \cap q # {}}}
    IN  {i \in found : typed => i \in Corpus}

---------------------------------------------------------------------------
(* Between two writes every concept is found by the words of its text as   *)
(* it is now, by no other, and nothing else is found, save what a reset    *)
(* left behind and only by a search without a type filter.  The vector     *)
(* rows are dense, one per document, each of the current text or zero, and *)
(* neither the cache nor its file holds a vector of a failed request.      *)
IndexCurrent ==
    /\ DOMAIN docTerms = Corpus \cup ghosts /\ nDocs = Cardinality(DOMAIN docTerms)
    /\ \A q \in Texts :
          /\ Hits(q, TRUE) = {i \in Corpus : corpus[i] \cap q # {}}
          /\ Hits(q, FALSE) \subseteq Hits(q, TRUE) \cup ghosts
    /\ {rows[k].id : k \in DOMAIN rows} = DOMAIN docTerms /\ Len(rows) = nDocs
    /\ \A k \in DOMAIN rows : rowOf[rows[k].id] = k
    /\ \A i \in Corpus : rows[rowOf[i]].vec \in {corpus[i], Zero}
    /\ \A p \in cached \cup cacheFile : p[1] = p[2]

==============================================================================
