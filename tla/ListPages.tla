------------------------------ MODULE ListPages ------------------------------
(***************************************************************************)
(* The list endpoints beside the writers (graph.rs, lib.rs).  Writers go   *)
(* one at a time but in several steps: the primary map, the sorted index,  *)
(* the generation, the page cache.  Readers take no writer lock: they load *)
(* the generation for the ETag, load it again for the cache, and build the *)
(* page by walking the index and fetching each entity from the map.        *)
(*                                                                         *)
(* Three listings: concepts by (name, id); relations by id; the relations  *)
(* of one source, from its adjacency list.  One client asks for first      *)
(* pages, with the tag of the one it has, and walks on from cursor to      *)
(* cursor.  One concept type; MaxWrites bounds the writes.                 *)
(***************************************************************************)
EXTENDS Naturals, Sequences, FiniteSets

CONSTANTS Ids, NameSet, Limit, MaxWrites, None,
    Loaded    \* entities the graph was hydrated with; their names are their ids


VARIABLES
    kind,    \* the listing: "concept", "relation" or "edge"
    map,     \* id |-> [name, ver], or None: the primary map
    index,   \* keys <<name, id>>: the sorted index, or the adjacency list
    gen,     \* concepts_gen, relations_gen
    cache,   \* the cached first page: [gen, rows], or None
    writer,  \* the write in progress
    reader,  \* the request in progress
    client,  \* the first page the client has, and its walk
    last     \* id |-> number of the last acknowledged write to it

pvars == <<kind, map, index, gen, cache, writer, reader, client, last>>

Resting == [id |-> None, name |-> None, old |-> None, ver |-> 0, steps |-> << >>]
Waiting == [phase |-> "idle", after |-> None, tag |-> 0, gen |-> 0, held |-> FALSE,
            todo |-> {}, rows |-> << >>, since |-> [i \in Ids |-> 0], kept |-> {}]
Away    == [tag |-> None, rows |-> << >>, next |-> None, shown |-> << >>, kept |-> {}, calm |-> TRUE]

PInit ==
    /\ kind \in {"concept", "relation", "edge"}
    /\ map = [i \in Ids |-> IF i \in Loaded THEN [name |-> IF kind = "concept" THEN i ELSE 0, ver |-> 0] ELSE None]
    /\ index = {<<map[i].name, i>> : i \in Loaded}
    /\ gen = 0 /\ cache = None
    /\ writer = Resting /\ reader = Waiting /\ client = Away
    /\ last = [i \in Ids |-> 0]

---------------------------------------------------------------------------
(* Writers.                                                                *)

Live   == {i \in Ids : map[i] # None}
Key(i) == <<map[i].name, i>>
Free(n) == \A i \in Live : map[i].name # n      \* the name index

(* The steps of each operation, in the code's order.                       *)
Steps(o) ==
    CASE o = "create" /\ kind # "edge" -> <<"map", "index", "bump", "clear">>
      [] o = "create" /\ kind = "edge" -> <<"index", "map", "bump", "clear">>
      [] o = "upsert" -> <<"map", "unindex", "index", "bump", "clear">>
      [] o = "rename" -> <<"lock", "swap", "unlock", "bump", "clear">>
      [] o = "update" -> <<"lock", "unlock", "bump", "clear">>
      [] o = "remove" -> <<"unmap", "unindex", "bump", "clear">>

Writes == writer.ver

Name(i) == IF i \in Live THEN map[i].name ELSE None

Start(o, i, n) ==
    /\ writer.steps = << >> /\ Writes < MaxWrites
    /\ writer' = [id |-> i, name |-> n, old |-> Name(i),
                  ver |-> writer.ver + 1, steps |-> Steps(o)]
    /\ reader' = [reader EXCEPT !.kept = @ \ {i}]
    /\ client' = [client EXCEPT !.kept = @ \ {i}, !.calm = @ /\ (n # None => n = Name(i) \/ (Name(i) = None /\ last[i] = 0))]
    /\ UNCHANGED <<kind, map, index, gen, cache, last>>

(* apply_prepared_concept, apply_prepared_relation.                        *)
GivenNames == IF kind = "concept" THEN NameSet ELSE {0}    \* a relation has no name
Create == \E i \in Ids \ Live, n \in GivenNames :
    (kind = "concept" => Free(n)) /\ Start("create", i, n)

Upsert == \E i \in Live, n \in NameSet : kind = "concept" /\ Free(n) /\ Start("upsert", i, n)

(* apply_concept_update, apply_relation_update.                            *)
Rename == \E i \in Live, n \in NameSet : kind = "concept" /\ Free(n) /\ Start("rename", i, n)
Update == \E i \in Live : Start("update", i, map[i].name)

(* remove_concept, remove_relation.                                        *)
Erase == \E i \in Live : Start("remove", i, None)

At(s) == writer.steps # << >> /\ Head(writer.steps) = s /\ writer' = [writer EXCEPT !.steps = Tail(@)]

New == [name |-> writer.name, ver |-> writer.ver]
OldKey == <<writer.old, writer.id>>
NewKey == <<writer.name, writer.id>>

(* The index is behind a read-write lock that a reader holds for its walk. *)
IndexFree == ~reader.held

Insert == /\ At("map") /\ map' = [map EXCEPT ![writer.id] = New]
          /\ UNCHANGED <<kind, index, gen, cache, reader, client, last>>
Delete == /\ At("unmap") /\ map' = [map EXCEPT ![writer.id] = None]
          /\ UNCHANGED <<kind, index, gen, cache, reader, client, last>>
Index  == /\ At("index") /\ IndexFree /\ index' = index \cup {NewKey}
          /\ UNCHANGED <<kind, map, gen, cache, reader, client, last>>
Unindex == /\ At("unindex") /\ IndexFree /\ index' = index \ {OldKey}
           /\ UNCHANGED <<kind, map, gen, cache, reader, client, last>>

(* An update holds the entry of the map over its other steps.              *)
Lock   == At("lock") /\ UNCHANGED <<kind, map, index, gen, cache, reader, client, last>>
Swap   == /\ At("swap") /\ IndexFree /\ index' = (index \ {OldKey}) \cup {NewKey}
          /\ UNCHANGED <<kind, map, gen, cache, reader, client, last>>
Unlock == /\ At("unlock") /\ map' = [map EXCEPT ![writer.id] = New]
          /\ UNCHANGED <<kind, index, gen, cache, reader, client, last>>
Locked(i) == writer.id = i /\ writer.steps # << >> /\ Head(writer.steps) \in {"swap", "unlock"}

(* bump_concepts_gen, bump_relations_gen; then the handler returns.        *)
Bump  == At("bump") /\ gen' = gen + 1 /\ UNCHANGED <<kind, map, index, cache, reader, client, last>>
Clear == /\ At("clear") /\ cache' = None /\ last' = [last EXCEPT ![writer.id] = writer.ver]
         /\ UNCHANGED <<kind, map, index, gen, reader, client>>

Writer ==
    \/ Create \/ Upsert \/ Rename \/ Update \/ Erase
    \/ Insert \/ Delete \/ Index \/ Unindex \/ Lock \/ Swap \/ Unlock \/ Bump \/ Clear

---------------------------------------------------------------------------
(* Readers.                                                                *)

Untouched == {i \in Live : writer.steps # << >> => writer.id # i}

Ask(after, c) ==
    /\ reader.phase = "idle"
    /\ reader' = [Waiting EXCEPT !.phase = "tag", !.after = after, !.since = last, !.kept = Untouched]
    /\ client' = c
    /\ UNCHANGED <<kind, map, index, gen, cache, writer, last>>

AskFirst == Ask(None, [client EXCEPT !.next = None, !.shown = << >>, !.kept = Untouched,
                                     !.calm = writer.steps = << >> \/ kind # "concept"])
AskNext  == client.next # None /\ Ask(client.next, client)

Goes(phase) == reader.phase = phase /\ UNCHANGED <<kind, map, index, gen, writer, last>>

(* The answer; the cursor is the key of the last row of a full page.       *)
Answered(r, rows) ==
    /\ reader' = [r EXCEPT !.phase = "answer", !.rows = rows, !.held = FALSE]

(* list_concepts, list_relations: 304 when the tag is the client's.        *)
Tag ==
    /\ Goes("tag")
    /\ IF reader.after = None /\ client.tag = gen
       THEN Answered([reader EXCEPT !.tag = gen], client.rows)
       ELSE reader' = [reader EXCEPT !.tag = gen, !.phase = IF @ = "tag" /\ reader.after = None THEN "gen" ELSE "walk"]
    /\ UNCHANGED <<cache, client>>

(* try_list_concepts_page, list_relations_page: the cache.                 *)
LoadGen == Goes("gen") /\ reader' = [reader EXCEPT !.gen = gen, !.phase = "lookup"] /\ UNCHANGED <<cache, client>>

Hit_AnyGen == cache # None
Hit == cache # None /\ cache.gen = reader.gen

Lookup ==
    /\ Goes("lookup")
    /\ IF Hit THEN Answered(reader, cache.rows) ELSE reader' = [reader EXCEPT !.phase = "walk"]
    /\ UNCHANGED <<cache, client>>

Before(k, l) == k[1] < l[1] \/ (k[1] = l[1] /\ k[2] < l[2])
Beyond_Name(k, after) == after = None \/ after[1] < k[1]
Beyond(k, after) == after = None \/ Before(after, k)

(* The keys after the cursor: from the locked index; from clones of the    *)
(* buckets (include_subtypes); from the sorted adjacency list.             *)
Enter ==
    /\ Goes("walk")
    /\ \E held \in IF kind = "concept" THEN BOOLEAN ELSE {kind = "relation"} :
          reader' = [reader EXCEPT !.phase = "page", !.held = held,
                         !.todo = {k \in index : Beyond(k, reader.after)}]
    /\ UNCHANGED <<cache, client>>

(* The keys are walked in their order.                                     *)
Least(keys) == CHOOSE k \in keys : \A l \in keys \ {k} : Before(k, l)

(* One row: an entity that is gone is skipped.                             *)
Row(i) == IF map[i] = None THEN << >> ELSE << [id |-> i, name |-> map[i].name, ver |-> map[i].ver] >>

Fetch ==
    /\ Goes("page") /\ reader.todo # {} /\ Len(reader.rows) < Limit
    /\ LET k == Least(reader.todo)
       IN  /\ ~Locked(k[2])
           /\ reader' = [reader EXCEPT !.todo = @ \ {k}, !.rows = @ \o Row(k[2])]
    /\ UNCHANGED <<cache, client>>

Leave ==
    /\ Goes("page") /\ (reader.todo = {} \/ Len(reader.rows) = Limit)
    /\ reader' = [reader EXCEPT !.phase = IF @ = "page" /\ reader.after = None THEN "store" ELSE "answer",
                                !.held = FALSE]
    /\ UNCHANGED <<cache, client>>

Store ==
    /\ Goes("store")
    /\ cache' = [gen |-> reader.gen, rows |-> reader.rows]
    /\ reader' = [reader EXCEPT !.phase = "answer"]
    /\ UNCHANGED client

Cursor(rows) ==
    IF rows = << >> \/ Len(rows) < Limit THEN None ELSE LET r == rows[Len(rows)] IN <<r.name, r.id>>

Receive ==
    /\ Goes("answer")
    /\ client' = [client EXCEPT !.tag = IF reader.after = None THEN reader.tag ELSE @,
                                !.rows = IF reader.after = None THEN reader.rows ELSE @,
                                !.next = Cursor(reader.rows),
                                !.shown = IF client.calm THEN @ \o [j \in DOMAIN reader.rows |-> reader.rows[j].id]
                                          ELSE << >>]
    /\ reader' = Waiting
    /\ UNCHANGED cache

Reader == AskFirst \/ AskNext \/ Tag \/ LoadGen \/ Lookup \/ Enter \/ Fetch \/ Leave \/ Store \/ Receive

PNext == Writer \/ Reader

PSpec == PInit /\ [][PNext]_pvars

---------------------------------------------------------------------------
(* An answer -- built, cached or the one the client has (304) -- is not    *)
(* older than any write acknowledged before the request: no row is an      *)
(* earlier version than that, and on a first page no entity is missing     *)
(* that was there then and was not written to since.                       *)
PageFresh ==
    reader.phase = "answer" =>
        /\ \A j \in DOMAIN reader.rows : reader.rows[j].ver >= reader.since[reader.rows[j].id]
        /\ reader.after = None /\ Len(reader.rows) < Limit =>
               reader.kept \subseteq {reader.rows[j].id : j \in DOMAIN reader.rows}

(* A walk that ended, while no id took another name, showed every entity that  *)
(* was there throughout exactly once, whatever was created and deleted     *)
(* around it.                                                              *)
WalkComplete ==
    reader.phase = "idle" /\ client.next = None /\ client.tag # None /\ client.calm =>
        \A i \in client.kept : Cardinality({j \in DOMAIN client.shown : client.shown[j] = i}) = 1

(* A reader that holds the index and the writer never wait on each other.  *)
NoneStuck ==
    ~(/\ reader.held /\ reader.todo # {} /\ Len(reader.rows) < Limit
      /\ Locked(Least(reader.todo)[2]) /\ Head(writer.steps) = "swap")

==============================================================================
