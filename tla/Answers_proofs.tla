--------------------------- MODULE Answers_proofs ----------------------------
(***************************************************************************)
(* What the lists promise, for every value of the constants: a page, and a *)
(* walk from page to page.  As in Parts_proofs there is for each an        *)
(* invariant that the initial states satisfy, that every action preserves, *)
(* and that implies the property.                                          *)
(***************************************************************************)
EXTENDS Parts_proofs

-----------------------------------------------------------------------------
(* The lists.  A write shows in the generation before it is acknowledged:  *)
(* between the two a page may have it or not, under either generation, and *)
(* what is known of a page is about the writes its generation covers.      *)

(* The entity the writer is at, from its first step to the generation.     *)
Busy(i) == writer.id = i /\ writer.steps # << >> /\ writer.steps # <<"clear">>

(* The number of the last write to an entity that the generation counts.   *)
LastCounted(i) == IF writer.id = i /\ writer.steps = <<"clear">> THEN writer.ver ELSE last[i]

(* The writes to i a page may have to show.                                *)
Marks(i) == {last[i], LastCounted(i), reader.since[i]}

(* No row is an earlier version than a write the generation g covers.      *)
APage(rs) == Len(rs) \in Nat /\ rs = [j \in 1 .. Len(rs) |-> rs[j]]

FreshRows(rs, g) ==
    /\ APage(rs)
    /\ \A j \in DOMAIN rs :
        /\ rs[j].id \in ListIds /\ rs[j].ver \in Nat
        /\ \A m \in Marks(rs[j].id) : m <= g => rs[j].ver >= m

(* The entities that are there, and were when the generation was g.        *)
Solid(g) == {i \in Lists!Live : ~Busy(i) /\ LastCounted(i) <= g}

ShownIn(rs) == {rs[j].id : j \in DOMAIN rs}

FullRows(rs, g) == Len(rs) < Limit => Solid(g) \subseteq ShownIn(rs)

(* While the page is built: what is not shown yet is still to come.        *)
Coming(rs, keys, g) == \A i \in Solid(g) : i \in ShownIn(rs) \/ Lists!Key(i) \in keys

(* The writer's steps, and what it has done when those are left.           *)
Written == map[writer.id] = None \/ (map[writer.id] = Lists!New /\ Lists!NewKey \in index)

Underway ==
    \/ writer.steps = << >>
    \/ writer.steps \in {<<"clear">>, <<"bump", "clear">>} /\ Written
    \/ /\ writer.steps \in {<<"map", "index", "bump", "clear">>, <<"index", "map", "bump", "clear">>,
                            <<"map", "unindex", "index", "bump", "clear">>,
                            <<"lock", "swap", "unlock", "bump", "clear">>, <<"swap", "unlock", "bump", "clear">>}
       /\ writer.name \in Nat
    \/ /\ writer.steps \in {<<"index", "bump", "clear">>, <<"unindex", "index", "bump", "clear">>}
       /\ writer.name \in Nat /\ map[writer.id] = Lists!New
    \/ writer.steps = <<"unmap", "unindex", "bump", "clear">>
    \/ writer.steps = <<"unindex", "bump", "clear">> /\ map[writer.id] = None
    \/ /\ writer.steps \in {<<"map", "bump", "clear">>, <<"unlock", "bump", "clear">>,
                            <<"lock", "unlock", "bump", "clear">>}
       /\ Lists!NewKey \in index

WriterOk ==
    /\ writer.ver \in Nat
    /\ writer.steps # << >> => writer.id \in ListIds
    /\ writer = [id |-> writer.id, name |-> writer.name, old |-> writer.old, ver |-> writer.ver, steps |-> writer.steps]
    /\ Underway

(* The generation lags behind the writes by the one in progress.           *)
GenLags ==
    /\ gen \in Nat
    /\ writer.ver = IF writer.steps \in {<< >>, <<"clear">>} THEN gen ELSE gen + 1

(* The map and the index: an entity nobody writes is in both.              *)
Indexed ==
    /\ index \subseteq Nat \X ListIds
    /\ map = [i \in ListIds |-> map[i]]
    /\ \A i \in Lists!Live : map[i].ver \in Nat /\ LastCounted(i) <= map[i].ver /\ (~Busy(i) => Lists!Key(i) \in index)

Acked ==
    /\ last = [i \in ListIds |-> last[i]]
    /\ \A i \in ListIds : last[i] \in Nat /\ LastCounted(i) \in Nat /\ last[i] <= LastCounted(i) /\ LastCounted(i) <= gen

Graph == WriterOk /\ GenLags /\ Indexed /\ Acked

AReader(r) ==
    r = [phase |-> r.phase, after |-> r.after, tag |-> r.tag, gen |-> r.gen, held |-> r.held,
         todo |-> r.todo, rows |-> r.rows, since |-> r.since, kept |-> r.kept]

AClient(c) ==
    c = [tag |-> c.tag, rows |-> c.rows, next |-> c.next, shown |-> c.shown, kept |-> c.kept, calm |-> c.calm]

(* The pages that are kept: the cached one, the client's.                  *)
CacheOk == cache # None => cache.gen \in Nat /\ cache.gen <= gen /\ FreshRows(cache.rows, cache.gen) /\ FullRows(cache.rows, cache.gen)
ClientOk ==
    /\ AClient(client)
    /\ client.tag # None => client.tag \in Nat /\ client.tag <= gen /\ FreshRows(client.rows, client.tag) /\ FullRows(client.rows, client.tag)

(* The generation the page of the reader is for.                           *)
PageGen == IF reader.phase \in {"page", "store"} /\ reader.after = None THEN reader.gen ELSE reader.tag

ReaderOk ==
    /\ AReader(reader)
    /\ reader.since = [i \in ListIds |-> reader.since[i]]
    /\ \A i \in ListIds : reader.since[i] \in Nat /\ reader.since[i] <= last[i]
    /\ reader.tag \in Nat /\ reader.gen \in Nat /\ reader.tag <= gen /\ reader.gen <= gen
    /\ reader.phase \notin {"idle", "tag"} => \A i \in ListIds : reader.since[i] <= reader.tag
    /\ reader.phase \in {"gen", "lookup", "store"} => reader.after = None
    /\ reader.phase \in {"lookup", "walk", "page", "store"} /\ reader.after = None => reader.tag <= reader.gen
    /\ reader.phase \in {"idle", "tag", "gen", "lookup", "walk"} => reader.rows = << >>
    /\ \A i \in reader.kept : i \in Lists!Live /\ (writer.steps # << >> => writer.id # i) /\ last[i] = reader.since[i]

PageOk ==
    /\ reader.todo \subseteq Nat \X ListIds
    /\ FreshRows(reader.rows, PageGen)
    /\ reader.after = None =>
        /\ reader.phase = "page" => Coming(reader.rows, reader.todo, reader.gen)
        /\ reader.phase \in {"store", "answer"} => FullRows(reader.rows, PageGen)

PInv == Graph /\ CacheOk /\ ClientOk /\ ReaderOk /\ PageOk

-----------------------------------------------------------------------------
(* The first of the steps, and what it leaves.                             *)
LEMMA StepsLeft ==
    /\ Head(<<"clear">>) = "clear" /\ Tail(<<"clear">>) = << >>
    /\ Head(<<"bump", "clear">>) = "bump" /\ Tail(<<"bump", "clear">>) = <<"clear">>
    /\ Head(<<"index", "bump", "clear">>) = "index" /\ Tail(<<"index", "bump", "clear">>) = <<"bump", "clear">>
    /\ Head(<<"map", "bump", "clear">>) = "map" /\ Tail(<<"map", "bump", "clear">>) = <<"bump", "clear">>
    /\ Head(<<"unlock", "bump", "clear">>) = "unlock" /\ Tail(<<"unlock", "bump", "clear">>) = <<"bump", "clear">>
    /\ Head(<<"unindex", "bump", "clear">>) = "unindex" /\ Tail(<<"unindex", "bump", "clear">>) = <<"bump", "clear">>
    /\ Head(<<"map", "index", "bump", "clear">>) = "map" /\ Tail(<<"map", "index", "bump", "clear">>) = <<"index", "bump", "clear">>
    /\ Head(<<"index", "map", "bump", "clear">>) = "index" /\ Tail(<<"index", "map", "bump", "clear">>) = <<"map", "bump", "clear">>
    /\ Head(<<"unindex", "index", "bump", "clear">>) = "unindex" /\ Tail(<<"unindex", "index", "bump", "clear">>) = <<"index", "bump", "clear">>
    /\ Head(<<"swap", "unlock", "bump", "clear">>) = "swap" /\ Tail(<<"swap", "unlock", "bump", "clear">>) = <<"unlock", "bump", "clear">>
    /\ Head(<<"lock", "unlock", "bump", "clear">>) = "lock" /\ Tail(<<"lock", "unlock", "bump", "clear">>) = <<"unlock", "bump", "clear">>
    /\ Head(<<"unmap", "unindex", "bump", "clear">>) = "unmap" /\ Tail(<<"unmap", "unindex", "bump", "clear">>) = <<"unindex", "bump", "clear">>
    /\ Head(<<"map", "unindex", "index", "bump", "clear">>) = "map" /\ Tail(<<"map", "unindex", "index", "bump", "clear">>) = <<"unindex", "index", "bump", "clear">>
    /\ Head(<<"lock", "swap", "unlock", "bump", "clear">>) = "lock" /\ Tail(<<"lock", "swap", "unlock", "bump", "clear">>) = <<"swap", "unlock", "bump", "clear">>
OBVIOUS

LEMMA StepsApart ==
    /\ <<"clear">> # << >>
    /\ <<"bump", "clear">> # << >> /\ <<"bump", "clear">> # <<"clear">>
    /\ <<"index", "bump", "clear">> # << >> /\ <<"index", "bump", "clear">> # <<"clear">>
    /\ <<"map", "bump", "clear">> # << >> /\ <<"map", "bump", "clear">> # <<"clear">>
    /\ <<"unlock", "bump", "clear">> # << >> /\ <<"unlock", "bump", "clear">> # <<"clear">>
    /\ <<"unindex", "bump", "clear">> # << >> /\ <<"unindex", "bump", "clear">> # <<"clear">>
    /\ <<"map", "index", "bump", "clear">> # << >> /\ <<"map", "index", "bump", "clear">> # <<"clear">>
    /\ <<"index", "map", "bump", "clear">> # << >> /\ <<"index", "map", "bump", "clear">> # <<"clear">>
    /\ <<"unindex", "index", "bump", "clear">> # << >> /\ <<"unindex", "index", "bump", "clear">> # <<"clear">>
    /\ <<"swap", "unlock", "bump", "clear">> # << >> /\ <<"swap", "unlock", "bump", "clear">> # <<"clear">>
    /\ <<"lock", "unlock", "bump", "clear">> # << >> /\ <<"lock", "unlock", "bump", "clear">> # <<"clear">>
    /\ <<"unmap", "unindex", "bump", "clear">> # << >> /\ <<"unmap", "unindex", "bump", "clear">> # <<"clear">>
    /\ <<"map", "unindex", "index", "bump", "clear">> # << >> /\ <<"map", "unindex", "index", "bump", "clear">> # <<"clear">>
    /\ <<"lock", "swap", "unlock", "bump", "clear">> # << >> /\ <<"lock", "swap", "unlock", "bump", "clear">> # <<"clear">>
OBVIOUS

LEMMA ListsImply == ASSUME PInv PROVE Lists!PageFresh
<1>. SUFFICES ASSUME reader.phase = "answer"
     PROVE /\ \A j \in DOMAIN reader.rows : reader.rows[j].ver >= reader.since[reader.rows[j].id]
           /\ reader.after = None /\ Len(reader.rows) < Limit =>
                 reader.kept \subseteq {reader.rows[j].id : j \in DOMAIN reader.rows}
    BY DEF Lists!PageFresh
<1>1. PageGen = reader.tag /\ \A i \in ListIds : reader.since[i] <= reader.tag
    BY DEF PInv, ReaderOk, PageGen
<1>2. ASSUME NEW j \in DOMAIN reader.rows PROVE reader.rows[j].ver >= reader.since[reader.rows[j].id]
  <2>1. reader.rows[j].id \in ListIds /\ \A m \in Marks(reader.rows[j].id) : m <= reader.tag => reader.rows[j].ver >= m
    BY <1>1 DEF PInv, PageOk, FreshRows
  <2>. QED  BY <1>1, <2>1 DEF Marks
<1>3. ASSUME reader.after = None, Len(reader.rows) < Limit, NEW i \in reader.kept
      PROVE  i \in {reader.rows[j].id : j \in DOMAIN reader.rows}
  <2>1. i \in Lists!Live /\ (writer.steps # << >> => writer.id # i) /\ last[i] = reader.since[i] /\ i \in ListIds
    BY DEF PInv, ReaderOk, Lists!Live
  <2>2. ~Busy(i) /\ LastCounted(i) = last[i]
    BY <2>1, StepsApart DEF Busy, LastCounted
  <2>3. i \in Solid(reader.tag)
    BY <1>1, <2>1, <2>2 DEF Solid
  <2>. QED  BY <1>1, <1>3, <2>3 DEF PInv, PageOk, FullRows, ShownIn
<1>. QED  BY <1>2, <1>3

LEMMA ListsBegin == ASSUME Lists!PInit PROVE PInv
<1>1. /\ writer = Lists!Resting /\ reader = Lists!Waiting /\ client = Lists!Away /\ gen = 0 /\ cache = None
      /\ last = [i \in ListIds |-> 0]
    BY DEF Lists!PInit
<1>2. writer.steps = << >> /\ writer.ver = 0 /\ \A i \in ListIds : last[i] = 0 /\ LastCounted(i) = 0 /\ ~Busy(i)
    BY <1>1 DEF Lists!Resting, LastCounted, Busy
<1>3. WriterOk /\ GenLags /\ Acked
    BY <1>1, <1>2 DEF WriterOk, GenLags, Acked, Underway, Lists!Resting
<1>4. \A i \in ListIds : map[i] = IF i \in LoadedIds THEN [name |-> IF kind = "concept" THEN i ELSE 0, ver |-> 0] ELSE None
    BY DEF Lists!PInit
<1>5. \A i \in Lists!Live : i \in LoadedIds /\ map[i].ver = 0
  <2>. SUFFICES ASSUME NEW i \in Lists!Live PROVE i \in LoadedIds /\ map[i].ver = 0
    OBVIOUS
  <2>1. i \in ListIds /\ map[i] # None
    BY DEF Lists!Live
  <2>2. i \in LoadedIds
    BY <1>4, <2>1
  <2>3. map[i] = [name |-> IF kind = "concept" THEN i ELSE 0, ver |-> 0]
    BY <1>4, <2>1, <2>2
  <2>. QED  BY <2>2, <2>3
<1>6. \A i \in Lists!Live : Lists!Key(i) \in index
  <2>1. index = {<<map[i].name, i>> : i \in LoadedIds}
    BY DEF Lists!PInit
  <2>. QED  BY <1>5, <2>1 DEF Lists!Key
<1>7. index \subseteq Nat \X ListIds
    BY <1>4, ListsAssumption DEF Lists!PInit
<1>8. Indexed
  <2>1. map = [i \in ListIds |-> map[i]]
    BY DEF Lists!PInit
  <2>2. \A i \in Lists!Live : map[i].ver \in Nat /\ LastCounted(i) <= map[i].ver
    <3>. SUFFICES ASSUME NEW i \in Lists!Live PROVE map[i].ver \in Nat /\ LastCounted(i) <= map[i].ver
      OBVIOUS
    <3>1. i \in ListIds /\ map[i].ver = 0
      BY <1>5, ListsAssumption
    <3>. QED  BY <1>2, <3>1
  <2>. QED  BY <1>6, <1>7, <2>1, <2>2 DEF Indexed
<1>9. CacheOk /\ ClientOk
    BY <1>1 DEF CacheOk, ClientOk, AClient, Lists!Away
<1>10. /\ reader.phase = "idle" /\ reader.tag = 0 /\ reader.gen = 0 /\ reader.todo = {} /\ reader.rows = << >>
       /\ reader.since = [i \in ListIds |-> 0] /\ reader.kept = {}
    BY <1>1 DEF Lists!Waiting
<1>11. ReaderOk
    BY <1>1, <1>2, <1>10 DEF ReaderOk, AReader, Lists!Waiting
<1>12. PageOk
    BY <1>10 DEF PageOk, FreshRows, APage
<1>. QED  BY <1>3, <1>8, <1>9, <1>11, <1>12 DEF PInv, Graph

(* Where the writer is, by the step it takes.                              *)
AtMap ==
    \/ writer.steps = <<"map", "index", "bump", "clear">> /\ writer'.steps = <<"index", "bump", "clear">> /\ writer.name \in Nat
    \/ writer.steps = <<"map", "bump", "clear">> /\ writer'.steps = <<"bump", "clear">> /\ Lists!NewKey \in index
    \/ writer.steps = <<"map", "unindex", "index", "bump", "clear">> /\ writer'.steps = <<"unindex", "index", "bump", "clear">> /\ writer.name \in Nat

AtIndex ==
    \/ writer.steps = <<"index", "bump", "clear">> /\ writer'.steps = <<"bump", "clear">> /\ writer.name \in Nat /\ map[writer.id] = Lists!New
    \/ writer.steps = <<"index", "map", "bump", "clear">> /\ writer'.steps = <<"map", "bump", "clear">> /\ writer.name \in Nat

AtBump ==
    \/ writer.steps = <<"bump", "clear">> /\ writer'.steps = <<"clear">> /\ Written

AtClear ==
    \/ writer.steps = <<"clear">> /\ writer'.steps = << >> /\ Written

AtUnindex ==
    \/ writer.steps = <<"unindex", "index", "bump", "clear">> /\ writer'.steps = <<"index", "bump", "clear">> /\ writer.name \in Nat /\ map[writer.id] = Lists!New
    \/ writer.steps = <<"unindex", "bump", "clear">> /\ writer'.steps = <<"bump", "clear">> /\ map[writer.id] = None

AtLock ==
    \/ writer.steps = <<"lock", "swap", "unlock", "bump", "clear">> /\ writer'.steps = <<"swap", "unlock", "bump", "clear">> /\ writer.name \in Nat
    \/ writer.steps = <<"lock", "unlock", "bump", "clear">> /\ writer'.steps = <<"unlock", "bump", "clear">> /\ Lists!NewKey \in index

AtSwap ==
    \/ writer.steps = <<"swap", "unlock", "bump", "clear">> /\ writer'.steps = <<"unlock", "bump", "clear">> /\ writer.name \in Nat

AtUnlock ==
    \/ writer.steps = <<"unlock", "bump", "clear">> /\ writer'.steps = <<"bump", "clear">> /\ Lists!NewKey \in index

AtUnmap ==
    \/ writer.steps = <<"unmap", "unindex", "bump", "clear">> /\ writer'.steps = <<"unindex", "bump", "clear">>

LEMMA StepTaken ==
    ASSUME WriterOk
    PROVE  /\ Lists!At("map") => AtMap
           /\ Lists!At("index") => AtIndex
           /\ Lists!At("bump") => AtBump
           /\ Lists!At("clear") => AtClear
           /\ Lists!At("unindex") => AtUnindex
           /\ Lists!At("lock") => AtLock
           /\ Lists!At("swap") => AtSwap
           /\ Lists!At("unlock") => AtUnlock
           /\ Lists!At("unmap") => AtUnmap
<1>. SUFFICES ASSUME NEW s, Lists!At(s)
     PROVE  /\ s = "map" => AtMap
            /\ s = "index" => AtIndex
            /\ s = "bump" => AtBump
            /\ s = "clear" => AtClear
            /\ s = "unindex" => AtUnindex
            /\ s = "lock" => AtLock
            /\ s = "swap" => AtSwap
            /\ s = "unlock" => AtUnlock
            /\ s = "unmap" => AtUnmap
    OBVIOUS
<1>1. writer.steps # << >> /\ Head(writer.steps) = s /\ writer'.steps = Tail(writer.steps)
    BY DEF Lists!At, WriterOk
<1>2. s = "map" => AtMap
    BY <1>1, StepsLeft DEF WriterOk, Underway, AtMap
<1>3. s = "index" => AtIndex
    BY <1>1, StepsLeft DEF WriterOk, Underway, AtIndex
<1>4. s = "bump" => AtBump
    BY <1>1, StepsLeft DEF WriterOk, Underway, AtBump
<1>5. s = "clear" => AtClear
    BY <1>1, StepsLeft DEF WriterOk, Underway, AtClear
<1>6. s = "unindex" => AtUnindex
    BY <1>1, StepsLeft DEF WriterOk, Underway, AtUnindex
<1>7. s = "lock" => AtLock
    BY <1>1, StepsLeft DEF WriterOk, Underway, AtLock
<1>8. s = "swap" => AtSwap
    BY <1>1, StepsLeft DEF WriterOk, Underway, AtSwap
<1>9. s = "unlock" => AtUnlock
    BY <1>1, StepsLeft DEF WriterOk, Underway, AtUnlock
<1>10. s = "unmap" => AtUnmap
    BY <1>1, StepsLeft DEF WriterOk, Underway, AtUnmap
<1>. QED  BY <1>2, <1>3, <1>4, <1>5, <1>6, <1>7, <1>8, <1>9, <1>10

(* The request and the pages stay as they are, but for what a new write is *)
(* taken off.                                                              *)
SameRequest ==
    /\ AReader(reader') /\ AClient(client') /\ client'.tag = client.tag /\ client'.rows = client.rows
    /\ reader'.phase = reader.phase /\ reader'.after = reader.after /\ reader'.tag = reader.tag /\ reader'.gen = reader.gen
    /\ reader'.todo = reader.todo /\ reader'.rows = reader.rows /\ reader'.since = reader.since

LEMMA SameIsSame == ASSUME PInv, reader' = reader, client' = client PROVE SameRequest
BY DEF PInv, ReaderOk, ClientOk, SameRequest

(* What is there, and not being written, was there under the same key, or  *)
(* only a later generation counts it.                                      *)
Remains ==
    \A i \in Lists!Live' : ~Busy(i)' =>
        \/ i \in Lists!Live /\ ~Busy(i) /\ LastCounted(i)' = LastCounted(i) /\ Lists!Key(i)' = Lists!Key(i)
        \/ LastCounted(i)' > gen

LEMMA SolidBefore ==
    ASSUME Acked, Acked', gen \in Nat, Remains, NEW g \in Nat, g <= gen, NEW i \in Solid(g)'
    PROVE  i \in Solid(g) /\ Lists!Key(i)' = Lists!Key(i)
<1>1. i \in Lists!Live' /\ ~Busy(i)' /\ LastCounted(i)' <= g /\ i \in ListIds
    BY DEF Solid, Lists!Live
<1>2. LastCounted(i) \in Nat /\ LastCounted(i)' \in Nat
    BY <1>1 DEF Acked
<1>3. ~(LastCounted(i)' > gen)
    BY <1>1, <1>2
<1>. QED  BY <1>1, <1>3 DEF Solid, Remains

(* What a step of a writer leaves true of every page: no write is newly    *)
(* counted by an old generation, and what is there was.                    *)
LEMMA PagesStay ==
    ASSUME PInv, Graph', gen <= gen',
           \A i \in ListIds : \A m \in Marks(i)' : m \in Marks(i) \/ m > gen,
           Remains,
           \A i \in ListIds : last[i] <= last'[i],
           cache' = cache \/ cache' = None, SameRequest,
           \A i \in reader'.kept : i \in Lists!Live' /\ (writer'.steps # << >> => writer'.id # i) /\ last'[i] = reader.since[i]
    PROVE  PInv'
<1>1. gen \in Nat /\ gen' \in Nat /\ \A i \in ListIds : LastCounted(i) \in Nat /\ LastCounted(i)' \in Nat
    BY DEF PInv, Graph, GenLags, Acked
<1>2. ASSUME NEW rs, NEW g \in Nat, g <= gen, FreshRows(rs, g) PROVE FreshRows(rs, g)'
  <2>. SUFFICES ASSUME NEW j \in DOMAIN rs, NEW m \in Marks(rs[j].id)', m <= g PROVE rs[j].ver >= m
    BY <1>2 DEF FreshRows
  <2>1. rs[j].id \in ListIds
    BY <1>2 DEF FreshRows
  <2>2. m \in Marks(rs[j].id) \/ m > gen
    BY <2>1
  <2>3. m \in Nat
    <3>1. reader'.since[rs[j].id] \in Nat /\ last'[rs[j].id] \in Nat /\ LastCounted(rs[j].id)' \in Nat
      BY <2>1 DEF PInv, Graph, Acked, ReaderOk, SameRequest
    <3>. QED  BY <3>1 DEF Marks
  <2>. QED  BY <1>1, <1>2, <2>2, <2>3 DEF FreshRows
<1>3. ASSUME NEW g \in Nat, g <= gen, NEW i \in Solid(g)'
      PROVE  i \in Solid(g) /\ Lists!Key(i)' = Lists!Key(i)
    BY <1>1, <1>3, SolidBefore DEF PInv, Graph
<1>4. ASSUME NEW rs, NEW g \in Nat, g <= gen, FullRows(rs, g) PROVE FullRows(rs, g)'
  <2>1. Solid(g)' \subseteq Solid(g)
    BY <1>3, <1>4
  <2>. QED  BY <1>4, <2>1 DEF FullRows, ShownIn
<1>5. ASSUME NEW rs, NEW keys, NEW g \in Nat, g <= gen, Coming(rs, keys, g) PROVE Coming(rs, keys, g)'
    BY <1>3, <1>5 DEF Coming, ShownIn
<1>6. CacheOk'
  <2>1. \A r, n : cache # None /\ r = cache.rows /\ n = cache.gen => n \in Nat /\ n <= gen' /\ FreshRows(r, n)' /\ FullRows(r, n)'
    <3>1. cache # None => cache.gen \in Nat /\ cache.gen <= gen /\ FreshRows(cache.rows, cache.gen) /\ FullRows(cache.rows, cache.gen)
      BY DEF PInv, CacheOk
    <3>. QED  BY <1>1, <1>2, <1>4, <3>1
  <2>. QED  BY <2>1 DEF CacheOk, FreshRows, APage, FullRows, Marks, LastCounted, Solid, Busy, Lists!Live, ShownIn
<1>7. ClientOk'
  <2>0. PICK r, n : r = client.rows /\ n = client.tag
    OBVIOUS
  <2>1. n # None => n \in Nat /\ n <= gen /\ FreshRows(r, n) /\ FullRows(r, n)
    BY <2>0 DEF PInv, ClientOk
  <2>2. n # None => n \in Nat /\ n <= gen' /\ FreshRows(r, n)' /\ FullRows(r, n)'
    BY <1>1, <1>2, <1>4, <2>1
  <2>3. AClient(client') /\ client'.rows = r /\ client'.tag = n
    BY <2>0 DEF SameRequest
  <2>4. AClient(client)'
    BY <2>3 DEF AClient
  <2>. QED  BY <2>2, <2>3, <2>4 DEF ClientOk, FreshRows, APage, FullRows, Marks, LastCounted, Solid, Busy, Lists!Live, ShownIn
<1>8. SameRequest
    OBVIOUS
<1>9. ReaderOk'
  <2>1. \A i \in ListIds : reader'.since[i] \in Nat /\ reader'.since[i] <= last'[i]
    BY <1>8 DEF PInv, ReaderOk, Graph, Acked, SameRequest
  <2>2. reader'.tag <= gen' /\ reader'.gen <= gen'
    BY <1>1, <1>8 DEF PInv, ReaderOk, SameRequest
  <2>. QED  BY <1>8, <2>1, <2>2 DEF PInv, ReaderOk, SameRequest
<1>10. PageGen' = PageGen /\ PageGen \in Nat /\ PageGen <= gen /\ reader.gen \in Nat /\ reader.gen <= gen
    BY <1>8 DEF PageGen, PInv, ReaderOk, SameRequest
<1>11. PageOk'
  <2>1. FreshRows(reader.rows, PageGen)'
    <3>. DEFINE rs == reader.rows
                g == PageGen
    <3>1. FreshRows(rs, g) /\ g \in Nat /\ g <= gen
      BY <1>10 DEF PInv, PageOk
    <3>2. \A r, n : r = reader.rows /\ n = PageGen => FreshRows(r, n)'
      BY <1>2, <3>1
    <3>. QED  BY <1>8, <1>10, <3>2 DEF SameRequest, FreshRows, APage, Marks, LastCounted
  <2>2. reader.after = None /\ reader.phase = "page" => Coming(reader.rows, reader.todo, reader.gen)'
    <3>0. PICK r, k, n : r = reader.rows /\ k = reader.todo /\ n = reader.gen
      OBVIOUS
    <3>1. Coming(r, k, n) => Coming(r, k, n)'
      BY <1>5, <1>10, <3>0
    <3>2. reader'.rows = r /\ reader'.todo = k /\ reader'.gen = n /\ reader'.after = reader.after /\ reader'.phase = reader.phase
      BY <1>8, <3>0 DEF SameRequest
    <3>3. reader.after = None /\ reader.phase = "page" => Coming(r, k, n)
      BY <3>0 DEF PInv, PageOk
    <3>. QED  BY <3>1, <3>2, <3>3 DEF Coming, ShownIn, Solid, Busy, LastCounted, Lists!Live, Lists!Key
  <2>3. reader.after = None /\ reader.phase \in {"store", "answer"} => FullRows(reader.rows, PageGen)'
    <3>1. \A r, n : r = reader.rows /\ n = PageGen /\ FullRows(r, n) => FullRows(r, n)'
      BY <1>4, <1>10
    <3>. QED  BY <1>8, <1>10, <3>1 DEF SameRequest, FullRows, PInv, PageOk, ShownIn, Solid, Busy, LastCounted, Lists!Live
  <2>. QED  BY <1>8, <2>1, <2>2, <2>3 DEF PInv, PageOk, SameRequest
<1>. QED  BY <1>6, <1>7, <1>9, <1>11 DEF PInv

(* A step before the generation: of one entity, which is being written.    *)
LEMMA InnerStep ==
    ASSUME PInv, NEW s, Lists!At(s), UNCHANGED <<gen, cache, reader, client, last>>,
           writer.steps # <<"clear">>, writer'.steps # << >>, writer'.steps # <<"clear">>, Underway',
           map' = [i \in ListIds |-> map'[i]], \A i \in ListIds : i # writer.id => map'[i] = map[i],
           map'[writer.id] \in {map[writer.id], Lists!New, None},
           index' \subseteq Nat \X ListIds, \A n \in Nat, i \in ListIds : i # writer.id /\ <<n, i>> \in index => <<n, i>> \in index'
    PROVE  PInv' /\ Remains
<1>1. /\ writer.steps # << >> /\ writer.id \in ListIds
      /\ writer' = [id |-> writer.id, name |-> writer.name, old |-> writer.old, ver |-> writer.ver, steps |-> writer'.steps]
    BY DEF Lists!At, PInv, Graph, WriterOk
<1>2. /\ writer'.id = writer.id /\ writer'.ver = writer.ver /\ writer'.name = writer.name
      /\ \A i \in ListIds : LastCounted(i) = last[i] /\ LastCounted(i)' = last[i] /\ (Busy(i) <=> i = writer.id) /\ (Busy(i)' <=> i = writer.id)
    BY <1>1 DEF LastCounted, Busy
<1>3. WriterOk'
    BY <1>1, <1>2 DEF WriterOk, PInv, Graph
<1>4. GenLags' /\ Acked'
    BY <1>1, <1>2 DEF PInv, Graph, GenLags, Acked
<1>5. \A i \in Lists!Live' : i # writer.id => i \in Lists!Live /\ map'[i] = map[i] /\ Lists!Key(i)' = Lists!Key(i)
    BY DEF Lists!Live, Lists!Key
<1>6. ASSUME NEW i \in Lists!Live' PROVE map'[i].ver \in Nat /\ LastCounted(i)' <= map'[i].ver /\ (~Busy(i)' => Lists!Key(i)' \in index')
  <2>0. i \in ListIds /\ map'[i] # None
    BY DEF Lists!Live
  <2>1. CASE i # writer.id
    <3>1. i \in Lists!Live /\ map'[i] = map[i] /\ Lists!Key(i)' = Lists!Key(i)
      BY <1>5, <2>1
    <3>2. Lists!Key(i) \in index /\ map[i].ver \in Nat /\ LastCounted(i) <= map[i].ver
      BY <1>2, <2>0, <2>1, <3>1 DEF PInv, Graph, Indexed
    <3>3. Lists!Key(i) = <<map[i].name, i>> /\ map[i].name \in Nat
      BY <3>2 DEF Lists!Key, PInv, Graph, Indexed
    <3>. QED  BY <1>2, <2>0, <2>1, <3>1, <3>2, <3>3
  <2>2. CASE i = writer.id
    <3>1. map'[i] = map[i] \/ map'[i] = Lists!New
      BY <2>0, <2>2
    <3>2. map'[i] = map[i] => i \in Lists!Live
      BY <2>0 DEF Lists!Live
    <3>3. Lists!New.ver = writer.ver /\ writer.ver \in Nat /\ last[i] <= writer.ver
      BY <1>1, <2>0 DEF Lists!New, PInv, Graph, GenLags, Acked, WriterOk
    <3>. QED  BY <1>2, <2>0, <2>2, <3>1, <3>2, <3>3 DEF PInv, Graph, Indexed
  <2>. QED  BY <2>1, <2>2
<1>7. Graph'
    BY <1>3, <1>4, <1>6 DEF Graph, Indexed
<1>8. \A i \in ListIds : Marks(i)' = Marks(i)
    BY <1>2 DEF Marks
<1>9. Remains
    BY <1>2, <1>5 DEF Lists!Live, Remains
<1>10. \A i \in reader'.kept : i \in Lists!Live' /\ (writer'.steps # << >> => writer'.id # i) /\ last'[i] = reader.since[i]
    BY <1>1, <1>2 DEF PInv, ReaderOk, Lists!Live
<1>11. gen <= gen' /\ \A i \in ListIds : last[i] <= last'[i]
    BY DEF PInv, Graph, GenLags, Acked
<1>. QED  BY <1>7, <1>8, <1>9, <1>10, <1>11, SameIsSame, PagesStay

LEMMA InsertKeeps == ASSUME PInv, Lists!Insert PROVE PInv' /\ Remains
<1>1. Lists!At("map") /\ map' = [map EXCEPT ![writer.id] = Lists!New] /\ UNCHANGED <<kind, index, gen, cache, reader, client, last>>
    BY DEF Lists!Insert
<1>2. AtMap
    BY <1>1, StepTaken DEF PInv, Graph
<1>3. writer.id \in ListIds /\ index \subseteq Nat \X ListIds /\ map = [i \in ListIds |-> map[i]]
    BY <1>2 DEF AtMap, PInv, Graph, WriterOk, Indexed
<1>4. map' = [i \in ListIds |-> map'[i]] /\ map'[writer.id] = Lists!New /\ \A i \in ListIds : i # writer.id => map'[i] = map[i]
    BY <1>1, <1>3
<1>5. writer'.id = writer.id /\ writer'.name = writer.name /\ writer'.ver = writer.ver
    BY <1>1 DEF Lists!At, PInv, Graph, WriterOk
<1>6. Lists!New' = Lists!New /\ Lists!NewKey' = Lists!NewKey
    BY <1>5 DEF Lists!New, Lists!NewKey
<1>7. Underway'
    BY <1>1, <1>2, <1>4, <1>5, <1>6 DEF AtMap, Underway, Written
<1>8. writer.steps # <<"clear">> /\ writer'.steps # << >> /\ writer'.steps # <<"clear">>
    BY <1>2, StepsApart DEF AtMap
<1>. QED  BY <1>1, <1>3, <1>4, <1>7, <1>8, InnerStep

LEMMA DeleteKeeps == ASSUME PInv, Lists!Delete PROVE PInv' /\ Remains
<1>1. Lists!At("unmap") /\ map' = [map EXCEPT ![writer.id] = None] /\ UNCHANGED <<kind, index, gen, cache, reader, client, last>>
    BY DEF Lists!Delete
<1>2. AtUnmap
    BY <1>1, StepTaken DEF PInv, Graph
<1>3. writer.id \in ListIds /\ index \subseteq Nat \X ListIds /\ map = [i \in ListIds |-> map[i]]
    BY <1>2 DEF AtUnmap, PInv, Graph, WriterOk, Indexed
<1>4. map' = [i \in ListIds |-> map'[i]] /\ map'[writer.id] = None /\ \A i \in ListIds : i # writer.id => map'[i] = map[i]
    BY <1>1, <1>3
<1>5. writer'.id = writer.id
    BY <1>1 DEF Lists!At, PInv, Graph, WriterOk
<1>7. Underway'
    BY <1>1, <1>2, <1>4, <1>5 DEF AtUnmap, Underway
<1>8. writer.steps # <<"clear">> /\ writer'.steps # << >> /\ writer'.steps # <<"clear">>
    BY <1>2, StepsApart DEF AtUnmap
<1>. QED  BY <1>1, <1>3, <1>4, <1>7, <1>8, InnerStep

LEMMA IndexKeeps == ASSUME PInv, Lists!Index PROVE PInv' /\ Remains
<1>1. Lists!At("index") /\ index' = index \cup {Lists!NewKey} /\ UNCHANGED <<kind, map, gen, cache, reader, client, last>>
    BY DEF Lists!Index
<1>2. AtIndex
    BY <1>1, StepTaken DEF PInv, Graph
<1>3. writer.id \in ListIds /\ writer.name \in Nat /\ index \subseteq Nat \X ListIds /\ map = [i \in ListIds |-> map[i]]
    BY <1>2 DEF AtIndex, PInv, Graph, WriterOk, Indexed
<1>4. index' \subseteq Nat \X ListIds
    BY <1>1, <1>3 DEF Lists!NewKey
<1>5. writer'.id = writer.id /\ writer'.name = writer.name /\ writer'.ver = writer.ver
    BY <1>1 DEF Lists!At, PInv, Graph, WriterOk
<1>6. Lists!New' = Lists!New /\ Lists!NewKey' = Lists!NewKey /\ Lists!NewKey \in index'
    BY <1>1, <1>5 DEF Lists!New, Lists!NewKey
<1>7. Underway'
    BY <1>1, <1>2, <1>5, <1>6 DEF AtIndex, Underway, Written
<1>8. writer.steps # <<"clear">> /\ writer'.steps # << >> /\ writer'.steps # <<"clear">>
    BY <1>2, StepsApart DEF AtIndex
<1>9. \A n \in Nat, i \in ListIds : i # writer.id /\ <<n, i>> \in index => <<n, i>> \in index'
    BY <1>1
<1>. QED  BY <1>1, <1>3, <1>4, <1>7, <1>8, <1>9, InnerStep

LEMMA UnindexKeeps == ASSUME PInv, Lists!Unindex PROVE PInv' /\ Remains
<1>1. Lists!At("unindex") /\ index' = index \ {Lists!OldKey} /\ UNCHANGED <<kind, map, gen, cache, reader, client, last>>
    BY DEF Lists!Unindex
<1>2. AtUnindex
    BY <1>1, StepTaken DEF PInv, Graph
<1>3. writer.id \in ListIds /\ index \subseteq Nat \X ListIds /\ map = [i \in ListIds |-> map[i]]
    BY <1>2 DEF AtUnindex, PInv, Graph, WriterOk, Indexed
<1>4. index' \subseteq Nat \X ListIds
    BY <1>1, <1>3
<1>5. writer'.id = writer.id /\ writer'.name = writer.name /\ writer'.ver = writer.ver
    BY <1>1 DEF Lists!At, PInv, Graph, WriterOk
<1>6. Lists!New' = Lists!New
    BY <1>5 DEF Lists!New
<1>7. Underway'
    BY <1>1, <1>2, <1>5, <1>6 DEF AtUnindex, Underway, Written
<1>8. writer.steps # <<"clear">> /\ writer'.steps # << >> /\ writer'.steps # <<"clear">>
    BY <1>2, StepsApart DEF AtUnindex
<1>9. \A n \in Nat, i \in ListIds : i # writer.id /\ <<n, i>> \in index => <<n, i>> \in index'
    BY <1>1 DEF Lists!OldKey
<1>. QED  BY <1>1, <1>3, <1>4, <1>7, <1>8, <1>9, InnerStep

LEMMA LockKeeps == ASSUME PInv, Lists!Lock PROVE PInv' /\ Remains
<1>1. Lists!At("lock") /\ UNCHANGED <<kind, map, index, gen, cache, reader, client, last>>
    BY DEF Lists!Lock
<1>2. AtLock
    BY <1>1, StepTaken DEF PInv, Graph
<1>3. writer.id \in ListIds /\ index \subseteq Nat \X ListIds /\ map = [i \in ListIds |-> map[i]]
    BY <1>2 DEF AtLock, PInv, Graph, WriterOk, Indexed
<1>5. writer'.id = writer.id /\ writer'.name = writer.name
    BY <1>1 DEF Lists!At, PInv, Graph, WriterOk
<1>6. Lists!NewKey' = Lists!NewKey
    BY <1>5 DEF Lists!NewKey
<1>7. Underway'
    BY <1>1, <1>2, <1>5, <1>6 DEF AtLock, Underway
<1>8. writer.steps # <<"clear">> /\ writer'.steps # << >> /\ writer'.steps # <<"clear">>
    BY <1>2, StepsApart DEF AtLock
<1>. QED  BY <1>1, <1>3, <1>7, <1>8, InnerStep

LEMMA SwapKeeps == ASSUME PInv, Lists!Swap PROVE PInv' /\ Remains
<1>1. Lists!At("swap") /\ index' = (index \ {Lists!OldKey}) \cup {Lists!NewKey} /\ UNCHANGED <<kind, map, gen, cache, reader, client, last>>
    BY DEF Lists!Swap
<1>2. AtSwap
    BY <1>1, StepTaken DEF PInv, Graph
<1>3. writer.id \in ListIds /\ writer.name \in Nat /\ index \subseteq Nat \X ListIds /\ map = [i \in ListIds |-> map[i]]
    BY <1>2 DEF AtSwap, PInv, Graph, WriterOk, Indexed
<1>4. index' \subseteq Nat \X ListIds
    BY <1>1, <1>3 DEF Lists!NewKey
<1>5. writer'.id = writer.id /\ writer'.name = writer.name
    BY <1>1 DEF Lists!At, PInv, Graph, WriterOk
<1>6. Lists!NewKey' = Lists!NewKey /\ Lists!NewKey \in index'
    BY <1>1, <1>5 DEF Lists!NewKey
<1>7. Underway'
    BY <1>1, <1>2, <1>5, <1>6 DEF AtSwap, Underway
<1>8. writer.steps # <<"clear">> /\ writer'.steps # << >> /\ writer'.steps # <<"clear">>
    BY <1>2, StepsApart DEF AtSwap
<1>9. \A n \in Nat, i \in ListIds : i # writer.id /\ <<n, i>> \in index => <<n, i>> \in index'
    BY <1>1 DEF Lists!OldKey
<1>. QED  BY <1>1, <1>3, <1>4, <1>7, <1>8, <1>9, InnerStep

LEMMA UnlockKeeps == ASSUME PInv, Lists!Unlock PROVE PInv' /\ Remains
<1>1. Lists!At("unlock") /\ map' = [map EXCEPT ![writer.id] = Lists!New] /\ UNCHANGED <<kind, index, gen, cache, reader, client, last>>
    BY DEF Lists!Unlock
<1>2. AtUnlock
    BY <1>1, StepTaken DEF PInv, Graph
<1>3. writer.id \in ListIds /\ index \subseteq Nat \X ListIds /\ map = [i \in ListIds |-> map[i]]
    BY <1>2 DEF AtUnlock, PInv, Graph, WriterOk, Indexed
<1>4. map' = [i \in ListIds |-> map'[i]] /\ map'[writer.id] = Lists!New /\ \A i \in ListIds : i # writer.id => map'[i] = map[i]
    BY <1>1, <1>3
<1>5. writer'.id = writer.id /\ writer'.name = writer.name /\ writer'.ver = writer.ver
    BY <1>1 DEF Lists!At, PInv, Graph, WriterOk
<1>6. Lists!New' = Lists!New /\ Lists!NewKey' = Lists!NewKey
    BY <1>5 DEF Lists!New, Lists!NewKey
<1>7. Underway'
    BY <1>1, <1>2, <1>4, <1>5, <1>6 DEF AtUnlock, Underway, Written
<1>8. writer.steps # <<"clear">> /\ writer'.steps # << >> /\ writer'.steps # <<"clear">>
    BY <1>2, StepsApart DEF AtUnlock
<1>. QED  BY <1>1, <1>3, <1>4, <1>7, <1>8, InnerStep

(* The generation, and with it the write counts.                           *)
LEMMA BumpKeeps == ASSUME PInv, Lists!Bump PROVE PInv' /\ Remains
<1>1. Lists!At("bump") /\ gen' = gen + 1 /\ UNCHANGED <<kind, map, index, cache, reader, client, last>>
    BY DEF Lists!Bump
<1>2. AtBump
    BY <1>1, StepTaken DEF PInv, Graph
<1>3. writer.steps = <<"bump", "clear">> /\ writer'.steps = <<"clear">> /\ Written /\ writer.id \in ListIds
    BY <1>2 DEF AtBump, PInv, Graph, WriterOk
<1>4. writer' = [id |-> writer.id, name |-> writer.name, old |-> writer.old, ver |-> writer.ver, steps |-> <<"clear">>]
    BY <1>1, <1>3 DEF Lists!At, PInv, Graph, WriterOk
<1>5. gen \in Nat /\ writer.ver = gen + 1
    BY <1>3 DEF PInv, Graph, GenLags
<1>6. /\ writer'.id = writer.id /\ writer'.name = writer.name /\ writer'.ver = writer.ver
      /\ \A i \in ListIds : /\ LastCounted(i) = last[i] /\ LastCounted(i)' = IF i = writer.id THEN gen + 1 ELSE last[i]
                            /\ (Busy(i) <=> i = writer.id) /\ ~Busy(i)'
    BY <1>1, <1>3, <1>4, <1>5 DEF LastCounted, Busy
<1>7. Written' /\ Lists!New' = Lists!New /\ Lists!NewKey' = Lists!NewKey
    BY <1>1, <1>3, <1>6 DEF Written, Lists!New, Lists!NewKey
<1>8. WriterOk'
    BY <1>3, <1>4, <1>5, <1>6, <1>7 DEF WriterOk, Underway
<1>9. GenLags'
    BY <1>1, <1>3, <1>5, <1>6 DEF GenLags
<1>10. Acked'
    BY <1>1, <1>5, <1>6 DEF PInv, Graph, Acked
<1>11. Lists!Live' = Lists!Live /\ \A i \in ListIds : Lists!Key(i)' = Lists!Key(i)
    BY <1>1 DEF Lists!Live, Lists!Key
<1>12. ASSUME NEW i \in Lists!Live PROVE map'[i].ver \in Nat /\ LastCounted(i)' <= map'[i].ver /\ Lists!Key(i) \in index
  <2>1. i \in ListIds /\ map[i] # None
    BY DEF Lists!Live
  <2>2. CASE i = writer.id
    <3>1. map[i] = Lists!New /\ Lists!NewKey \in index
      BY <1>3, <2>1, <2>2 DEF Written
    <3>. QED  BY <1>1, <1>5, <1>6, <2>1, <2>2, <3>1 DEF Lists!New, Lists!NewKey, Lists!Key
  <2>3. CASE i # writer.id
    BY <1>1, <1>6, <2>1, <2>3 DEF PInv, Graph, Indexed
  <2>. QED  BY <2>2, <2>3
<1>13. Graph'
    BY <1>1, <1>8, <1>9, <1>10, <1>11, <1>12 DEF Graph, Indexed, PInv, Lists!Live
<1>14. \A i \in ListIds : \A m \in Marks(i)' : m \in Marks(i) \/ m > gen
    BY <1>1, <1>5, <1>6 DEF Marks
<1>15. Remains
    BY <1>5, <1>6, <1>11 DEF Lists!Live, Remains
<1>16. \A i \in reader'.kept : i \in Lists!Live' /\ (writer'.steps # << >> => writer'.id # i) /\ last'[i] = reader.since[i]
    BY <1>1, <1>3, <1>6, <1>11, StepsApart DEF PInv, ReaderOk
<1>17. gen <= gen' /\ \A i \in ListIds : last[i] <= last'[i]
    BY <1>1, <1>5 DEF PInv, Graph, Acked
<1>. QED  BY <1>1, <1>13, <1>14, <1>15, <1>16, <1>17, SameIsSame, PagesStay

(* The acknowledgement: of a write the generation counts already.          *)
LEMMA ClearKeeps == ASSUME PInv, Lists!Clear PROVE PInv' /\ Remains
<1>1. /\ Lists!At("clear") /\ cache' = None /\ last' = [last EXCEPT ![writer.id] = writer.ver]
      /\ UNCHANGED <<kind, map, index, gen, reader, client>>
    BY DEF Lists!Clear
<1>2. AtClear
    BY <1>1, StepTaken DEF PInv, Graph
<1>3. writer.steps = <<"clear">> /\ writer'.steps = << >> /\ writer.id \in ListIds
    BY <1>2 DEF AtClear, PInv, Graph, WriterOk
<1>4. writer' = [id |-> writer.id, name |-> writer.name, old |-> writer.old, ver |-> writer.ver, steps |-> << >>]
    BY <1>1, <1>3 DEF Lists!At, PInv, Graph, WriterOk
<1>5. gen \in Nat /\ writer.ver = gen
    BY <1>3 DEF PInv, Graph, GenLags
<1>6. last' = [i \in ListIds |-> last'[i]] /\ \A i \in ListIds : last'[i] = IF i = writer.id THEN gen ELSE last[i]
    BY <1>1, <1>3, <1>5 DEF PInv, Graph, Acked
<1>7. \A i \in ListIds : LastCounted(i)' = LastCounted(i) /\ LastCounted(i) = last'[i] /\ ~Busy(i) /\ ~Busy(i)'
    BY <1>3, <1>4, <1>5, <1>6 DEF LastCounted, Busy
<1>8. WriterOk' /\ GenLags'
    BY <1>1, <1>4, <1>5 DEF WriterOk, Underway, GenLags
<1>9. Acked'
    BY <1>1, <1>6, <1>7 DEF PInv, Graph, Acked
<1>10. Lists!Live' = Lists!Live /\ \A i \in ListIds : Lists!Key(i)' = Lists!Key(i)
    BY <1>1 DEF Lists!Live, Lists!Key
<1>11. Graph'
    BY <1>1, <1>7, <1>8, <1>9, <1>10 DEF Graph, Indexed, PInv, Lists!Live
<1>12. \A i \in ListIds : last[i] <= last'[i]
    BY <1>7 DEF PInv, Graph, Acked
<1>13. \A i \in ListIds : \A m \in Marks(i)' : m \in Marks(i)
    BY <1>1, <1>7 DEF Marks
<1>14. \A i \in reader'.kept : i \in Lists!Live' /\ (writer'.steps # << >> => writer'.id # i) /\ last'[i] = reader.since[i]
    BY <1>1, <1>3, <1>6, <1>10, StepsApart DEF PInv, ReaderOk, Lists!Live
<1>15. gen <= gen'
    BY <1>1, <1>5
<1>16. Remains
    BY <1>7, <1>10 DEF Lists!Live, Remains
<1>. QED  BY <1>1, <1>11, <1>12, <1>13, <1>14, <1>15, <1>16, SameIsSame, PagesStay

(* A writer sets out.                                                      *)
LEMMA StartKeeps ==
    ASSUME PInv, NEW o \in {"create", "upsert", "rename", "update", "remove"}, NEW i \in ListIds, NEW n, Lists!Start(o, i, n),
           o \in {"create", "upsert", "rename"} => n \in Nat,
           o = "update" => i \in Lists!Live /\ n = map[i].name
    PROVE  PInv' /\ Remains
<1>1. /\ writer.steps = << >>
      /\ writer' = [id |-> i, name |-> n, old |-> Lists!Name(i), ver |-> writer.ver + 1, steps |-> Lists!Steps(o)]
      /\ reader' = [reader EXCEPT !.kept = @ \ {i}]
      /\ \E k, c : client' = [client EXCEPT !.kept = k, !.calm = c]
      /\ UNCHANGED <<kind, map, index, gen, cache, last>>
    BY DEF Lists!Start
<1>2. /\ writer'.id = i /\ writer'.name = n /\ writer'.ver = writer.ver + 1 /\ writer'.steps = Lists!Steps(o)
    BY <1>1
<1>3. gen \in Nat /\ writer.ver = gen
    BY <1>1 DEF PInv, Graph, GenLags
<1>4. /\ o = "create" => Lists!Steps(o) \in {<<"map", "index", "bump", "clear">>, <<"index", "map", "bump", "clear">>}
      /\ o = "upsert" => Lists!Steps(o) = <<"map", "unindex", "index", "bump", "clear">>
      /\ o = "rename" => Lists!Steps(o) = <<"lock", "swap", "unlock", "bump", "clear">>
      /\ o = "update" => Lists!Steps(o) = <<"lock", "unlock", "bump", "clear">>
      /\ o = "remove" => Lists!Steps(o) = <<"unmap", "unindex", "bump", "clear">>
    BY DEF Lists!Steps
<1>5. Lists!Steps(o) # << >> /\ Lists!Steps(o) # <<"clear">>
    BY <1>4, StepsApart, Zenon
<1>6. /\ \A j \in ListIds : LastCounted(j) = last[j] /\ LastCounted(j)' = last[j] /\ ~Busy(j) /\ (Busy(j)' <=> j = i)
    BY <1>1, <1>2, <1>5 DEF LastCounted, Busy
<1>7. o = "update" => Lists!NewKey' \in index'
  <2>. SUFFICES ASSUME o = "update" PROVE Lists!NewKey' \in index'
    OBVIOUS
  <2>1. Lists!Key(i) \in index
    BY <1>6 DEF PInv, Graph, Indexed
  <2>. QED  BY <1>1, <1>2, <2>1 DEF Lists!Key, Lists!NewKey
<1>8. Underway'
    BY <1>1, <1>2, <1>4, <1>7 DEF Underway
<1>9. WriterOk' /\ GenLags'
    BY <1>1, <1>2, <1>3, <1>5, <1>8 DEF WriterOk, GenLags
<1>10. Acked'
    BY <1>1, <1>6 DEF PInv, Graph, Acked
<1>11. Lists!Live' = Lists!Live /\ \A j \in ListIds : Lists!Key(j)' = Lists!Key(j)
    BY <1>1 DEF Lists!Live, Lists!Key
<1>12. Graph'
    BY <1>1, <1>6, <1>9, <1>10, <1>11 DEF Graph, Indexed, PInv, Lists!Live
<1>13. \A j \in ListIds : Marks(j)' = Marks(j)
    BY <1>1, <1>6 DEF Marks
<1>14. \A j \in reader'.kept : j \in Lists!Live' /\ (writer'.steps # << >> => writer'.id # j) /\ last'[j] = reader.since[j]
    BY <1>1, <1>2, <1>11 DEF PInv, ReaderOk, AReader
<1>15. gen <= gen' /\ \A j \in ListIds : last[j] <= last'[j]
    BY <1>1, <1>3 DEF PInv, Graph, Acked
<1>16. Remains
    BY <1>6, <1>11 DEF Lists!Live, Remains
<1>17. SameRequest
    BY <1>1 DEF PInv, ReaderOk, ClientOk, AReader, AClient, SameRequest
<1>. QED  BY <1>1, <1>12, <1>13, <1>14, <1>15, <1>16, <1>17, PagesStay

-----------------------------------------------------------------------------
(* The reader's steps: the graph stays as it is, and the pages with it,    *)
(* whatever writes the request is then about.                              *)
LEMMA GraphStays ==
    ASSUME PInv, UNCHANGED <<kind, map, index, gen, writer, last>>
    PROVE  /\ Graph' /\ Lists!Live' = Lists!Live
           /\ \A i : (Busy(i)' <=> Busy(i)) /\ LastCounted(i)' = LastCounted(i) /\ Lists!Key(i)' = Lists!Key(i)
           /\ \A g : Solid(g)' = Solid(g)
           /\ \A rs, g : FullRows(rs, g)' <=> FullRows(rs, g)
           /\ \A rs, keys, g : Coming(rs, keys, g)' <=> Coming(rs, keys, g)
<1>1. Graph' <=> Graph
    BY DEF Graph, WriterOk, Underway, Written, GenLags, Indexed, Acked, LastCounted, Busy, Lists!New, Lists!NewKey, Lists!Key, Lists!Live
<1>2. /\ Lists!Live' = Lists!Live
      /\ \A i : (Busy(i)' <=> Busy(i)) /\ LastCounted(i)' = LastCounted(i) /\ Lists!Key(i)' = Lists!Key(i)
    BY DEF Lists!Live, Busy, LastCounted, Lists!Key
<1>3. \A g : Solid(g)' = Solid(g)
    BY <1>2 DEF Solid
<1>. QED  BY <1>1, <1>2, <1>3 DEF PInv, FullRows, Coming, ShownIn

LEMMA FreshStays ==
    ASSUME UNCHANGED <<kind, map, index, gen, writer, last>>, NEW rs, NEW g, FreshRows(rs, g),
           \A i \in ListIds : reader'.since[i] \in {reader.since[i], last[i], 0}
    PROVE  FreshRows(rs, g)'
<1>1. \A i \in ListIds : Marks(i)' \subseteq Marks(i) \cup {0}
    BY DEF Marks, LastCounted
<1>2. ASSUME NEW j \in DOMAIN rs, NEW m \in Marks(rs[j].id)', m <= g PROVE rs[j].ver >= m
    BY <1>1, <1>2 DEF FreshRows
<1>. QED  BY <1>2 DEF FreshRows

(* The pages that are kept stay good.                                      *)
LEMMA KeptStay ==
    ASSUME PInv, UNCHANGED <<kind, map, index, gen, writer, last>>,
           \A i \in ListIds : reader'.since[i] \in {reader.since[i], last[i], 0}
    PROVE  /\ cache' = cache => CacheOk'
           /\ AClient(client') /\ client'.tag = client.tag /\ client'.rows = client.rows => ClientOk'
<1>1. \A rs, g : FreshRows(rs, g) => FreshRows(rs, g)'
    BY FreshStays
<1>2. \A rs, g : FullRows(rs, g) => FullRows(rs, g)'
    BY GraphStays
<1>3. ASSUME cache' = cache PROVE CacheOk'
  <2>. SUFFICES ASSUME cache # None
       PROVE  cache'.gen \in Nat /\ cache'.gen <= gen' /\ FreshRows(cache.rows, cache.gen)' /\ FullRows(cache.rows, cache.gen)'
    BY <1>3 DEF CacheOk
  <2>0. PICK r, n : r = cache.rows /\ n = cache.gen
    OBVIOUS
  <2>1. n \in Nat /\ n <= gen /\ FreshRows(r, n)' /\ FullRows(r, n)'
    BY <1>1, <1>2, <2>0 DEF PInv, CacheOk
  <2>2. cache'.rows = r /\ cache'.gen = n
    BY <1>3, <2>0
  <2>. QED  BY <2>1, <2>2 DEF FreshRows, APage, FullRows, Marks, LastCounted, Solid, Busy, Lists!Live, ShownIn
<1>4. ASSUME AClient(client') /\ client'.tag = client.tag /\ client'.rows = client.rows PROVE ClientOk'
  <2>. SUFFICES ASSUME client.tag # None
       PROVE  client'.tag \in Nat /\ client'.tag <= gen' /\ FreshRows(client.rows, client.tag)' /\ FullRows(client.rows, client.tag)'
    BY <1>4 DEF ClientOk
  <2>0. PICK r, n : r = client.rows /\ n = client.tag
    OBVIOUS
  <2>1. n \in Nat /\ n <= gen /\ FreshRows(r, n)' /\ FullRows(r, n)'
    BY <1>1, <1>2, <2>0 DEF PInv, ClientOk
  <2>2. client'.rows = r /\ client'.tag = n
    BY <1>4, <2>0
  <2>. QED  BY <2>1, <2>2 DEF FreshRows, APage, FullRows, Marks, LastCounted, Solid, Busy, Lists!Live, ShownIn
<1>. QED  BY <1>3, <1>4

(* The page of the next state, in terms of its fields.                     *)
LEMMA PageIs ==
    ASSUME NEW rs, NEW n, NEW ks, reader'.rows = rs, PageGen' = n, reader'.todo = ks, ks \subseteq Nat \X ListIds,
           FreshRows(rs, n)',
           reader'.after = None /\ reader'.phase = "page" => n = reader'.gen /\ Coming(rs, ks, n)',
           reader'.after = None /\ reader'.phase \in {"store", "answer"} => FullRows(rs, n)'
    PROVE  PageOk'
<1>1. FreshRows(reader.rows, PageGen)'
    BY DEF FreshRows, APage, Marks, LastCounted
<1>2. reader'.after = None /\ reader'.phase = "page" => Coming(reader.rows, reader.todo, reader.gen)'
    BY DEF Coming, ShownIn, Solid, Busy, LastCounted, Lists!Live, Lists!Key
<1>3. reader'.after = None /\ reader'.phase \in {"store", "answer"} => FullRows(reader.rows, PageGen)'
    BY DEF FullRows, ShownIn, Solid, Busy, LastCounted, Lists!Live
<1>. QED  BY <1>1, <1>2, <1>3 DEF PageOk

(* A request that has no row yet.                                          *)
LEMMA NoRowsYet ==
    ASSUME reader'.rows = << >>, reader'.todo \subseteq Nat \X ListIds, reader'.phase \notin {"page", "store", "answer"}
    PROVE  PageOk'
<1>1. PICK n, ks : n = PageGen' /\ ks = reader'.todo
    OBVIOUS
<1>2. FreshRows(<< >>, n)'
    BY DEF FreshRows, APage
<1>. QED  BY <1>1, <1>2, PageIs

LEMMA AskKeeps ==
    ASSUME PInv, NEW after, NEW c, Lists!Ask(after, c), AClient(c), c.tag = client.tag, c.rows = client.rows
    PROVE  PInv'
<1>1. /\ reader' = [phase |-> "tag", after |-> after, tag |-> 0, gen |-> 0, held |-> FALSE, todo |-> {}, rows |-> << >>,
                    since |-> last, kept |-> Lists!Untouched]
      /\ client' = c /\ UNCHANGED <<kind, map, index, gen, cache, writer, last>>
    BY DEF Lists!Ask, Lists!Waiting
<1>2. /\ reader'.phase = "tag" /\ reader'.rows = << >> /\ reader'.todo = {} /\ reader'.since = last /\ reader'.tag = 0
      /\ reader'.gen = 0 /\ reader'.kept = Lists!Untouched /\ AReader(reader')
    BY <1>1 DEF AReader
<1>3. Graph' /\ Lists!Live' = Lists!Live
    BY <1>1, GraphStays
<1>4. CacheOk' /\ ClientOk'
    BY <1>1, <1>2, KeptStay
<1>5. ReaderOk'
    BY <1>1, <1>2, <1>3 DEF ReaderOk, PInv, Graph, Acked, GenLags, Lists!Untouched
<1>6. PageOk'
    BY <1>2, NoRowsYet
<1>. QED  BY <1>3, <1>4, <1>5, <1>6 DEF PInv

LEMMA AskFirstKeeps == ASSUME PInv, Lists!AskFirst PROVE PInv'
<1>1. PICK n, h, k, m : Lists!Ask(None, [client EXCEPT !.next = n, !.shown = h, !.kept = k, !.calm = m])
    BY DEF Lists!AskFirst
<1>0. PICK c : c = [client EXCEPT !.next = n, !.shown = h, !.kept = k, !.calm = m]
    OBVIOUS
<1>2. AClient(c) /\ c.tag = client.tag /\ c.rows = client.rows
    BY <1>0 DEF PInv, ClientOk, AClient
<1>3. Lists!Ask(None, c)
    BY <1>0, <1>1
<1>. QED  BY <1>2, <1>3, AskKeeps

LEMMA AskNextKeeps == ASSUME PInv, Lists!AskNext PROVE PInv'
<1>1. Lists!Ask(client.next, client) /\ AClient(client)
    BY DEF Lists!AskNext, PInv, ClientOk
<1>. QED  BY <1>1, AskKeeps

(* The fields a step of the reader leaves alone.                           *)
LEMMA RequestGoesOn ==
    ASSUME PInv, NEW p, Lists!Goes(p), AReader(reader'), reader'.since = reader.since, reader'.kept = reader.kept,
           reader'.tag \in {reader.tag, gen}, reader'.gen \in {reader.gen, gen},
           p # "tag" \/ reader'.tag = gen, p # "tag" => reader'.tag = reader.tag,
           reader'.phase \notin {"idle", "tag"}, p # "idle",
           reader'.phase \in {"lookup", "walk", "page", "store"} /\ reader'.after = None => reader'.tag <= reader'.gen,
           reader'.phase \in {"gen", "lookup", "store"} => reader'.after = None,
           reader'.phase \in {"gen", "lookup", "walk"} => reader'.rows = << >>
    PROVE  ReaderOk'
<1>1. /\ UNCHANGED <<kind, map, index, gen, writer, last>> /\ reader.phase = p
    BY DEF Lists!Goes
<1>2. Lists!Live' = Lists!Live /\ gen \in Nat
    BY <1>1, GraphStays DEF PInv, Graph, GenLags
<1>3. \A i \in ListIds : reader.since[i] \in Nat /\ reader.since[i] <= last[i] /\ last[i] \in Nat /\ last[i] <= gen
    BY <1>2 DEF PInv, ReaderOk, Graph, Acked
<1>4. \A i \in ListIds : reader.since[i] <= reader'.tag
  <2>1. CASE p = "tag"
    BY <1>2, <1>3, <2>1
  <2>2. CASE p # "tag"
    BY <1>1, <2>2 DEF PInv, ReaderOk
  <2>. QED  BY <2>1, <2>2
<1>5. reader'.tag \in Nat /\ reader'.gen \in Nat /\ reader'.tag <= gen' /\ reader'.gen <= gen'
    BY <1>1, <1>2 DEF PInv, ReaderOk
<1>. QED  BY <1>1, <1>2, <1>3, <1>4, <1>5 DEF PInv, ReaderOk

(* A request ends with the page it has: one as good as its tag says.       *)
LEMMA TagKeeps == ASSUME PInv, Lists!Tag PROVE PInv'
<1>1. Lists!Goes("tag") /\ UNCHANGED <<cache, client>> /\ UNCHANGED <<kind, map, index, gen, writer, last>> /\ reader.phase = "tag"
    BY DEF Lists!Tag, Lists!Goes
<1>2. Graph' /\ gen \in Nat
    BY <1>1, GraphStays DEF PInv, Graph, GenLags
<1>3. CASE reader.after = None /\ client.tag = gen
  <2>1. reader' = [reader EXCEPT !.tag = gen, !.phase = "answer", !.rows = client.rows, !.held = FALSE]
    BY <1>3 DEF Lists!Tag, Lists!Answered
  <2>2. /\ reader'.phase = "answer" /\ reader'.tag = gen /\ reader'.rows = client.rows /\ reader'.since = reader.since
        /\ reader'.kept = reader.kept /\ reader'.gen = reader.gen /\ reader'.after = None /\ reader'.todo = reader.todo /\ AReader(reader')
    BY <1>3, <2>1 DEF PInv, ReaderOk, AReader
  <2>3. ReaderOk'
    BY <1>1, <2>2, RequestGoesOn
  <2>4. CacheOk' /\ ClientOk'
    BY <1>1, <2>2, KeptStay DEF PInv, ClientOk
  <2>5. client.tag # None
    BY <1>2, <1>3, NoneAssumption
  <2>6. FreshRows(client.rows, client.tag) /\ FullRows(client.rows, client.tag)
    BY <2>5 DEF PInv, ClientOk
  <2>7. \A r, n : r = client.rows /\ n = client.tag => FreshRows(r, n)' /\ FullRows(r, n)'
    BY <1>1, <2>2, <2>6, FreshStays, GraphStays
  <2>9. PageOk'
    <3>0. PICK rs, n, ks : rs = client.rows /\ n = client.tag /\ ks = reader.todo
      OBVIOUS
    <3>1. reader'.rows = rs /\ PageGen' = n /\ reader'.todo = ks
      BY <1>3, <2>2, <3>0 DEF PageGen
    <3>2. FreshRows(rs, n)' /\ FullRows(rs, n)' /\ ks \subseteq Nat \X ListIds
      BY <2>7, <3>0 DEF PInv, PageOk
    <3>. QED  BY <2>2, <3>1, <3>2, PageIs
  <2>. QED  BY <1>2, <2>3, <2>4, <2>9 DEF PInv
<1>4. CASE ~(reader.after = None /\ client.tag = gen)
  <2>1. reader' = [reader EXCEPT !.tag = gen, !.phase = reader'.phase] /\ reader'.phase \in {"gen", "walk"}
        /\ (reader'.phase = "walk" <=> reader.after # None)
    BY <1>1, <1>4 DEF Lists!Tag, PInv, ReaderOk, AReader
  <2>2. /\ reader'.tag = gen /\ reader'.rows = reader.rows /\ reader'.since = reader.since /\ reader.rows = << >>
        /\ reader'.kept = reader.kept /\ reader'.gen = reader.gen /\ reader'.after = reader.after /\ reader'.todo = reader.todo
        /\ AReader(reader')
    BY <1>1, <2>1 DEF PInv, ReaderOk, AReader
  <2>3. ReaderOk'
    BY <1>1, <2>1, <2>2, RequestGoesOn
  <2>4. CacheOk' /\ ClientOk'
    BY <1>1, <2>2, KeptStay DEF PInv, ClientOk
  <2>5. PageOk'
    BY <2>1, <2>2, NoRowsYet DEF PInv, PageOk
  <2>. QED  BY <1>2, <2>3, <2>4, <2>5 DEF PInv
<1>. QED  BY <1>3, <1>4

LEMMA LoadGenKeeps == ASSUME PInv, Lists!LoadGen PROVE PInv'
<1>1. /\ Lists!Goes("gen") /\ reader' = [reader EXCEPT !.gen = gen, !.phase = "lookup"] /\ UNCHANGED <<cache, client>>
      /\ UNCHANGED <<kind, map, index, gen, writer, last>> /\ reader.phase = "gen"
    BY DEF Lists!LoadGen, Lists!Goes
<1>2. Graph' /\ gen \in Nat
    BY <1>1, GraphStays DEF PInv, Graph, GenLags
<1>3. /\ reader'.phase = "lookup" /\ reader'.tag = reader.tag /\ reader'.rows = << >> /\ reader'.since = reader.since
      /\ reader'.kept = reader.kept /\ reader'.gen = gen /\ reader'.after = reader.after /\ reader'.todo = reader.todo
      /\ AReader(reader') /\ reader.tag <= gen /\ reader.after = None
    BY <1>1 DEF PInv, ReaderOk, AReader
<1>4. ReaderOk'
    BY <1>1, <1>3, RequestGoesOn
<1>5. CacheOk' /\ ClientOk'
    BY <1>1, <1>3, KeptStay DEF PInv, ClientOk
<1>6. PageOk'
    BY <1>3, NoRowsYet DEF PInv, PageOk
<1>. QED  BY <1>2, <1>4, <1>5, <1>6 DEF PInv

(* A page is as good for a tag as for a later generation.                  *)
LEMMA EarlierTag ==
    ASSUME NEW rs, NEW g \in Nat, NEW h \in Nat, h <= g, Acked, ReaderOk, FreshRows(rs, g)
    PROVE  /\ FreshRows(rs, h) /\ (FullRows(rs, g) => FullRows(rs, h))
<1>1. \A i \in ListIds : LastCounted(i) \in Nat /\ \A m \in Marks(i) : m \in Nat
    BY DEF Acked, ReaderOk, Marks
<1>2. FreshRows(rs, h)
    BY <1>1 DEF FreshRows
<1>3. Solid(h) \subseteq Solid(g)
    BY <1>1 DEF Solid, Lists!Live
<1>. QED  BY <1>2, <1>3 DEF FullRows

LEMMA LookupKeeps == ASSUME PInv, Lists!Lookup PROVE PInv'
<1>1. Lists!Goes("lookup") /\ UNCHANGED <<cache, client>> /\ UNCHANGED <<kind, map, index, gen, writer, last>> /\ reader.phase = "lookup"
    BY DEF Lists!Lookup, Lists!Goes
<1>2. Graph' /\ gen \in Nat
    BY <1>1, GraphStays DEF PInv, Graph, GenLags
<1>3. CASE Lists!Hit
  <2>1. reader' = [reader EXCEPT !.phase = "answer", !.rows = cache.rows, !.held = FALSE]
    BY <1>3 DEF Lists!Lookup, Lists!Answered
  <2>2. /\ reader'.phase = "answer" /\ reader'.tag = reader.tag /\ reader'.rows = cache.rows /\ reader'.since = reader.since
        /\ reader'.kept = reader.kept /\ reader'.gen = reader.gen /\ reader'.after = reader.after /\ reader'.todo = reader.todo
        /\ AReader(reader')
    BY <2>1 DEF PInv, ReaderOk, AReader
  <2>3. ReaderOk'
    BY <1>1, <2>2, RequestGoesOn
  <2>4. CacheOk' /\ ClientOk'
    BY <1>1, <2>2, KeptStay DEF PInv, ClientOk
  <2>5. cache.gen \in Nat /\ FreshRows(cache.rows, cache.gen) /\ FullRows(cache.rows, cache.gen) /\ cache.gen = reader.gen
    BY <1>3 DEF PInv, CacheOk, Lists!Hit
  <2>6. reader.after = None => reader.tag <= cache.gen
    BY <1>1, <2>5 DEF PInv, ReaderOk
  <2>7. reader.tag \in Nat
    BY DEF PInv, ReaderOk
  <2>8. reader.after = None => \A r, n : r = cache.rows /\ n = reader.tag => FreshRows(r, n)' /\ FullRows(r, n)'
    <3>. SUFFICES ASSUME reader.after = None, NEW r, NEW n, r = cache.rows, n = reader.tag PROVE FreshRows(r, n)' /\ FullRows(r, n)'
      OBVIOUS
    <3>1. FreshRows(r, n) /\ FullRows(r, n)
      BY <2>5, <2>6, <2>7, EarlierTag DEF PInv, Graph
    <3>. QED  BY <1>1, <2>2, <3>1, FreshStays, GraphStays
  <2>9. reader.after = None
    BY <1>1 DEF PInv, ReaderOk
  <2>10. PageOk'
    <3>0. PICK rs, n, ks : rs = cache.rows /\ n = reader.tag /\ ks = reader.todo
      OBVIOUS
    <3>1. reader'.rows = rs /\ PageGen' = n /\ reader'.todo = ks
      BY <2>2, <3>0 DEF PageGen
    <3>2. FreshRows(rs, n)' /\ FullRows(rs, n)' /\ ks \subseteq Nat \X ListIds
      BY <2>8, <2>9, <3>0 DEF PInv, PageOk
    <3>. QED  BY <2>2, <3>1, <3>2, PageIs
  <2>. QED  BY <1>2, <2>3, <2>4, <2>10 DEF PInv
<1>4. CASE ~Lists!Hit
  <2>1. reader' = [reader EXCEPT !.phase = "walk"]
    BY <1>4 DEF Lists!Lookup
  <2>2. /\ reader'.tag = reader.tag /\ reader'.rows = << >> /\ reader'.since = reader.since /\ reader'.phase = "walk"
        /\ reader'.kept = reader.kept /\ reader'.gen = reader.gen /\ reader'.after = reader.after /\ reader'.todo = reader.todo
        /\ AReader(reader') /\ (reader.after = None => reader.tag <= reader.gen)
    BY <1>1, <2>1 DEF PInv, ReaderOk, AReader
  <2>3. ReaderOk'
    BY <1>1, <2>2, RequestGoesOn
  <2>4. CacheOk' /\ ClientOk'
    BY <1>1, <2>2, KeptStay DEF PInv, ClientOk
  <2>5. PageOk'
    BY <2>1, <2>2, NoRowsYet DEF PInv, PageOk
  <2>. QED  BY <1>2, <2>3, <2>4, <2>5 DEF PInv
<1>. QED  BY <1>3, <1>4

LEMMA EnterKeeps == ASSUME PInv, Lists!Enter PROVE PInv'
<1>1. /\ Lists!Goes("walk") /\ UNCHANGED <<cache, client>> /\ UNCHANGED <<kind, map, index, gen, writer, last>> /\ reader.phase = "walk"
    BY DEF Lists!Enter, Lists!Goes
<1>2. PICK held : reader' = [reader EXCEPT !.phase = "page", !.held = held, !.todo = {k \in index : Lists!Beyond(k, reader.after)}]
    BY DEF Lists!Enter
<1>3. /\ reader'.phase = "page" /\ reader'.tag = reader.tag /\ reader'.rows = << >> /\ reader'.since = reader.since
      /\ reader'.kept = reader.kept /\ reader'.gen = reader.gen /\ reader'.after = reader.after
      /\ reader'.todo = {k \in index : Lists!Beyond(k, reader.after)}
      /\ AReader(reader') /\ (reader.after = None => reader.tag <= reader.gen)
    BY <1>1, <1>2 DEF PInv, ReaderOk, AReader
<1>4. Graph' /\ ReaderOk'
    BY <1>1, <1>3, RequestGoesOn, GraphStays
<1>5. CacheOk' /\ ClientOk'
    BY <1>1, <1>3, KeptStay DEF PInv, ClientOk
<1>6. PICK n, ks : n = PageGen' /\ ks = {k \in index : Lists!Beyond(k, reader.after)}
    OBVIOUS
<1>7. FreshRows(<< >>, n)'
    BY DEF FreshRows, APage
<1>8. ASSUME reader.after = None PROVE n = reader'.gen /\ Coming(<< >>, ks, n)'
  <2>1. ks = index
    BY <1>6, <1>8 DEF Lists!Beyond
  <2>2. n = reader'.gen
    BY <1>3, <1>6, <1>8 DEF PageGen
  <2>3. Coming(<< >>, ks, n)
    BY <2>1 DEF Coming, Solid, PInv, Graph, Indexed
  <2>. QED  BY <1>1, <2>2, <2>3, GraphStays
<1>9. ks \subseteq Nat \X ListIds
    BY <1>6 DEF PInv, Graph, Indexed
<1>10. PageOk'
    BY <1>3, <1>6, <1>7, <1>8, <1>9, PageIs
<1>. QED  BY <1>4, <1>5, <1>10 DEF PInv

(* The keys are walked in their order: there is a first.                   *)
LEMMA LeastIs ==
    ASSUME NEW keys \in SUBSET (Nat \X ListIds), keys # {}
    PROVE  Lists!Least(keys) \in keys /\ \A l \in keys \ {Lists!Least(keys)} : Lists!Before(Lists!Least(keys), l)
<1>. DEFINE N == {k[1] : k \in keys}
            n == Min(N)
            I == {k[2] : k \in {l \in keys : l[1] = n}}
            i == Min(I)
<1>1. N \in SUBSET Nat /\ N # {}
    OBVIOUS
<1>2. n \in N /\ \A y \in N : n <= y
    BY <1>1, MinExists
<1>3. I \in SUBSET Nat /\ I # {}
    BY <1>2, ListsAssumption
<1>4. i \in I /\ \A y \in I : i <= y
    BY <1>3, MinExists
<1>. HIDE DEF n, i
<1>5. PICK k \in keys : k[1] = n /\ k[2] = i
    BY <1>4
<1>6. ASSUME NEW l \in keys \ {k} PROVE Lists!Before(k, l)
  <2>1. l[1] \in Nat /\ k[1] \in Nat /\ l[2] \in Nat /\ k[2] \in Nat /\ l = <<l[1], l[2]>> /\ k = <<k[1], k[2]>> /\ l # k
    <3>1. l \in Nat \X Nat /\ k \in Nat \X Nat /\ l # k
      BY ListsAssumption
    <3>. QED  BY <3>1
  <2>2. n <= l[1]
    BY <1>2
  <2>3. l[1] = n => i <= l[2]
    BY <1>4
  <2>4. l[1] # k[1] \/ l[2] # k[2]
    BY <2>1
  <2>. QED  BY <1>5, <2>1, <2>2, <2>3, <2>4 DEF Lists!Before
<1>. QED  BY <1>5, <1>6 DEF Lists!Least

LEMMA RowAdded ==
    ASSUME NEW rs, NEW r, APage(rs)
    PROVE  /\ APage(rs \o <<r>>) /\ Len(rs \o <<r>>) = Len(rs) + 1
           /\ \A j \in 1 .. Len(rs) : (rs \o <<r>>)[j] = rs[j]
           /\ (rs \o <<r>>)[Len(rs) + 1] = r
<1>. DEFINE S == {rs[j] : j \in 1 .. Len(rs)} \cup {r}
<1>1. rs \in Seq(S) /\ <<r>> \in Seq(S) /\ Len(<<r>>) = 1 /\ <<r>>[1] = r
    BY DEF APage
<1>. HIDE DEF S
<1>2. rs \o <<r>> \in Seq(S) /\ Len(rs \o <<r>>) = Len(rs) + 1
    BY <1>1
<1>3. \A j \in 1 .. Len(rs) : (rs \o <<r>>)[j] = rs[j]
    BY <1>1
<1>4. (rs \o <<r>>)[Len(rs) + 1] = r
    BY <1>1
<1>5. APage(rs \o <<r>>)
    BY <1>2 DEF APage
<1>. QED  BY <1>2, <1>3, <1>4, <1>5

LEMMA FetchKeeps == ASSUME PInv, Lists!Fetch PROVE PInv'
<1>. DEFINE least == Lists!Least(reader.todo)
<1>1. /\ Lists!Goes("page") /\ UNCHANGED <<cache, client>> /\ UNCHANGED <<kind, map, index, gen, writer, last>> /\ reader.phase = "page"
      /\ reader.todo # {}
      /\ reader' = [reader EXCEPT !.todo = @ \ {least}, !.rows = @ \o Lists!Row(least[2])]
    BY DEF Lists!Fetch, Lists!Goes
<1>2. least \in reader.todo /\ reader.todo \subseteq Nat \X ListIds
    BY <1>1, LeastIs DEF PInv, PageOk
<1>. HIDE DEF least
<1>3. PICK k : k = least
    OBVIOUS
<1>4. k \in reader.todo /\ k[1] \in Nat /\ k[2] \in ListIds
    BY <1>2, <1>3
<1>5. PICK i : i = k[2]
    OBVIOUS
<1>6. /\ reader'.phase = "page" /\ reader'.tag = reader.tag /\ reader'.since = reader.since
      /\ reader'.kept = reader.kept /\ reader'.gen = reader.gen /\ reader'.after = reader.after
      /\ reader'.todo = reader.todo \ {k} /\ reader'.rows = reader.rows \o Lists!Row(i)
      /\ AReader(reader') /\ (reader.after = None => reader.tag <= reader.gen)
    BY <1>1, <1>3, <1>5 DEF PInv, ReaderOk, AReader
<1>7. Graph' /\ ReaderOk'
    BY <1>1, <1>6, RequestGoesOn, GraphStays
<1>8. CacheOk' /\ ClientOk'
    BY <1>1, <1>6, KeptStay DEF PInv, ClientOk
<1>9. PICK n, old, was, rs, ks : n = PageGen /\ old = reader.rows /\ was = reader.todo /\ rs = reader'.rows /\ ks = reader'.todo
    OBVIOUS
<1>10. FreshRows(old, n) /\ (reader.after = None => n = reader.gen /\ Coming(old, was, n)) /\ PageGen' = n
    BY <1>1, <1>6, <1>9 DEF PInv, PageOk, PageGen
<1>11. FreshRows(rs, n) /\ (reader.after = None => Coming(rs, ks, n))
  <2>1. CASE map[i] = None
    <3>1. rs = old \o << >>
      BY <1>6, <1>9, <2>1 DEF Lists!Row
    <3>2. old \in Seq({old[j] : j \in 1 .. Len(old)})
      BY <1>10 DEF FreshRows, APage
    <3>3. rs = old
      BY <3>1, <3>2
    <3>4. \A e \in Solid(n) : Lists!Key(e) # k
      BY <1>5, <2>1 DEF Solid, Lists!Live, Lists!Key
    <3>. QED  BY <1>6, <1>9, <1>10, <3>3, <3>4 DEF Coming
  <2>2. CASE map[i] # None
    <3>0. PICK r : r = [id |-> i, name |-> map[i].name, ver |-> map[i].ver]
      OBVIOUS
    <3>1. rs = old \o <<r>> /\ r.id = i /\ r.ver = map[i].ver
      BY <1>6, <1>9, <2>2, <3>0 DEF Lists!Row
    <3>2. APage(rs) /\ Len(rs) = Len(old) + 1 /\ (\A j \in 1 .. Len(old) : rs[j] = old[j]) /\ rs[Len(old) + 1] = r
      BY <1>10, <3>1, RowAdded DEF FreshRows
    <3>3. DOMAIN old = 1 .. Len(old) /\ DOMAIN rs = 1 .. Len(old) + 1 /\ Len(old) \in Nat
      BY <1>10, <3>2 DEF FreshRows, APage
    <3>4. i \in ListIds /\ i \in Lists!Live
      BY <1>4, <1>5, <2>2 DEF Lists!Live
    <3>5. r.ver \in Nat /\ \A m \in Marks(i) : r.ver >= m
      <4>1. last[i] \in Nat /\ LastCounted(i) \in Nat /\ reader.since[i] \in Nat /\ reader.since[i] <= last[i] /\ last[i] <= LastCounted(i)
        BY <3>4 DEF PInv, Graph, Acked, ReaderOk
      <4>2. map[i].ver \in Nat /\ LastCounted(i) <= map[i].ver
        BY <3>4 DEF PInv, Graph, Indexed
      <4>. QED  BY <3>1, <4>1, <4>2 DEF Marks
    <3>6. FreshRows(rs, n)
      <4>1. ASSUME NEW j \in DOMAIN rs
            PROVE  rs[j].id \in ListIds /\ rs[j].ver \in Nat /\ \A m \in Marks(rs[j].id) : m <= n => rs[j].ver >= m
        <5>1. CASE j = Len(old) + 1
          BY <3>1, <3>2, <3>4, <3>5, <5>1
        <5>2. CASE j # Len(old) + 1
          BY <1>10, <3>2, <3>3, <5>2 DEF FreshRows
        <5>. QED  BY <5>1, <5>2
      <4>. QED  BY <3>2, <4>1 DEF FreshRows
    <3>7. ShownIn(old) \subseteq ShownIn(rs) /\ i \in ShownIn(rs)
      <4>1. \A j \in DOMAIN old : j \in DOMAIN rs /\ rs[j] = old[j]
        BY <3>2, <3>3
      <4>2. Len(old) + 1 \in DOMAIN rs /\ rs[Len(old) + 1].id = i
        BY <3>1, <3>2, <3>3
      <4>. QED  BY <4>1, <4>2 DEF ShownIn
    <3>8. \A e : Lists!Key(e) = k => e = i
      BY <1>5 DEF Lists!Key
    <3>9. reader.after = None => Coming(rs, ks, n)
      BY <1>6, <1>9, <1>10, <3>7, <3>8 DEF Coming
    <3>. QED  BY <3>6, <3>9
  <2>. QED  BY <2>1, <2>2
<1>12. FreshRows(rs, n)' /\ (reader.after = None => Coming(rs, ks, n)')
    BY <1>1, <1>6, <1>11, FreshStays, GraphStays
<1>13. ks \subseteq Nat \X ListIds
    BY <1>2, <1>6, <1>9
<1>14. PageOk'
    BY <1>6, <1>9, <1>10, <1>12, <1>13, PageIs
<1>. QED  BY <1>7, <1>8, <1>14 DEF PInv

LEMMA LeaveKeeps == ASSUME PInv, Lists!Leave PROVE PInv'
<1>1. /\ Lists!Goes("page") /\ UNCHANGED <<cache, client>> /\ UNCHANGED <<kind, map, index, gen, writer, last>> /\ reader.phase = "page"
      /\ (reader.todo = {} \/ Len(reader.rows) = Limit)
      /\ reader' = [reader EXCEPT !.phase = IF reader.after = None THEN "store" ELSE "answer", !.held = FALSE]
    BY DEF Lists!Leave, Lists!Goes, PInv, ReaderOk, AReader
<1>2. /\ reader'.phase = (IF reader.after = None THEN "store" ELSE "answer")
      /\ reader'.tag = reader.tag /\ reader'.since = reader.since /\ reader'.todo = reader.todo
      /\ reader'.kept = reader.kept /\ reader'.gen = reader.gen /\ reader'.after = reader.after /\ reader'.rows = reader.rows
      /\ AReader(reader') /\ (reader.after = None => reader.tag <= reader.gen)
    BY <1>1 DEF PInv, ReaderOk, AReader
<1>3. Graph' /\ ReaderOk'
    BY <1>1, <1>2, RequestGoesOn, GraphStays
<1>4. CacheOk' /\ ClientOk'
    BY <1>1, <1>2, KeptStay DEF PInv, ClientOk
<1>5. PICK n, rs, ks : n = PageGen /\ rs = reader.rows /\ ks = reader.todo
    OBVIOUS
<1>6. PageGen' = n /\ FreshRows(rs, n) /\ ks \subseteq Nat \X ListIds /\ (reader.after = None => Coming(rs, ks, n))
    BY <1>1, <1>2, <1>5 DEF PInv, PageOk, PageGen
<1>7. reader.after = None => FullRows(rs, n)
  <2>1. CASE ks = {}
    BY <1>6, <2>1 DEF Coming, FullRows
  <2>2. CASE Len(rs) = Limit
    BY <1>6, <2>2 DEF FreshRows, APage, FullRows
  <2>. QED  BY <1>1, <1>5, <2>1, <2>2
<1>8. FreshRows(rs, n)' /\ (reader.after = None => FullRows(rs, n)')
    BY <1>1, <1>2, <1>6, <1>7, FreshStays, GraphStays
<1>9. PageOk'
    BY <1>2, <1>5, <1>6, <1>8, PageIs
<1>. QED  BY <1>3, <1>4, <1>9 DEF PInv

LEMMA StoreKeeps == ASSUME PInv, Lists!Store PROVE PInv'
<1>1. /\ Lists!Goes("store") /\ UNCHANGED client /\ UNCHANGED <<kind, map, index, gen, writer, last>> /\ reader.phase = "store"
      /\ cache' = [gen |-> reader.gen, rows |-> reader.rows] /\ reader' = [reader EXCEPT !.phase = "answer"]
    BY DEF Lists!Store, Lists!Goes
<1>2. /\ reader'.phase = "answer" /\ reader'.tag = reader.tag /\ reader'.since = reader.since /\ reader'.todo = reader.todo
      /\ reader'.kept = reader.kept /\ reader'.gen = reader.gen /\ reader'.after = reader.after /\ reader'.rows = reader.rows
      /\ AReader(reader') /\ reader.after = None /\ reader.tag <= reader.gen
      /\ reader.gen \in Nat /\ reader.tag \in Nat /\ reader.gen <= gen
    BY <1>1 DEF PInv, ReaderOk, AReader
<1>3. Graph' /\ ReaderOk'
    BY <1>1, <1>2, RequestGoesOn, GraphStays
<1>4. ClientOk'
    BY <1>1, <1>2, KeptStay DEF PInv, ClientOk
<1>5. PICK n, t, rs, ks : n = reader.gen /\ t = reader.tag /\ rs = reader.rows /\ ks = reader.todo
    OBVIOUS
<1>6. FreshRows(rs, n) /\ FullRows(rs, n) /\ ks \subseteq Nat \X ListIds
    BY <1>1, <1>2, <1>5 DEF PInv, PageOk, PageGen
<1>7. FreshRows(rs, t) /\ FullRows(rs, t)
    BY <1>2, <1>5, <1>6, EarlierTag DEF PInv, Graph
<1>8. FreshRows(rs, n)' /\ FullRows(rs, n)' /\ FreshRows(rs, t)' /\ FullRows(rs, t)'
    BY <1>1, <1>2, <1>6, <1>7, FreshStays, GraphStays
<1>9. PageGen' = t
    BY <1>2, <1>5 DEF PageGen
<1>10. PageOk'
    BY <1>2, <1>5, <1>6, <1>8, <1>9, PageIs
<1>11. CacheOk'
  <2>1. cache'.gen = n /\ cache'.rows = rs /\ n \in Nat /\ n <= gen'
    BY <1>1, <1>2, <1>5
  <2>. QED  BY <1>8, <2>1 DEF CacheOk, FreshRows, APage, FullRows, Marks, LastCounted, Solid, Busy, Lists!Live, ShownIn
<1>. QED  BY <1>3, <1>4, <1>10, <1>11 DEF PInv

LEMMA ReceiveKeeps == ASSUME PInv, Lists!Receive PROVE PInv'
<1>1. /\ Lists!Goes("answer") /\ UNCHANGED cache /\ UNCHANGED <<kind, map, index, gen, writer, last>> /\ reader.phase = "answer"
      /\ reader' = Lists!Waiting
    BY DEF Lists!Receive, Lists!Goes
<1>2. PICK n, h : client' = [client EXCEPT !.tag = IF reader.after = None THEN reader.tag ELSE @,
                                           !.rows = IF reader.after = None THEN reader.rows ELSE @,
                                           !.next = n, !.shown = h]
    BY DEF Lists!Receive
<1>3. /\ AClient(client') /\ client'.tag = (IF reader.after = None THEN reader.tag ELSE client.tag)
      /\ client'.rows = (IF reader.after = None THEN reader.rows ELSE client.rows)
    BY <1>2 DEF PInv, ClientOk, AClient
<1>4. /\ reader'.phase = "idle" /\ reader'.tag = 0 /\ reader'.gen = 0 /\ reader'.todo = {} /\ reader'.rows = << >>
      /\ reader'.since = [i \in ListIds |-> 0] /\ reader'.kept = {} /\ AReader(reader')
    BY <1>1 DEF Lists!Waiting, AReader
<1>5. Graph' /\ gen \in Nat
    BY <1>1, GraphStays DEF PInv, Graph, GenLags
<1>6. ReaderOk'
    BY <1>1, <1>4, <1>5 DEF ReaderOk, PInv, Graph, Acked
<1>7. PageOk'
    BY <1>4, NoRowsYet
<1>8. CacheOk'
    BY <1>1, <1>4, KeptStay
<1>9. ClientOk'
  <2>1. CASE reader.after # None
    BY <1>1, <1>3, <1>4, <2>1, KeptStay
  <2>2. CASE reader.after = None
    <3>1. PICK t, rs : t = reader.tag /\ rs = reader.rows
      OBVIOUS
    <3>2. FreshRows(rs, t) /\ FullRows(rs, t) /\ t \in Nat /\ t <= gen
      BY <1>1, <2>2, <3>1 DEF PInv, PageOk, PageGen, ReaderOk
    <3>3. FreshRows(rs, t)' /\ FullRows(rs, t)'
      BY <1>1, <1>4, <3>2, FreshStays, GraphStays
    <3>4. client'.tag = t /\ client'.rows = rs /\ t <= gen'
      BY <1>1, <1>3, <2>2, <3>1, <3>2
    <3>. QED  BY <1>3, <3>2, <3>3, <3>4 DEF ClientOk, AClient, FreshRows, APage, FullRows, Marks, LastCounted, Solid, Busy, Lists!Live, ShownIn
  <2>. QED  BY <2>1, <2>2
<1>. QED  BY <1>5, <1>6, <1>7, <1>8, <1>9 DEF PInv

LEMMA ListsStepKeeps == ASSUME PInv, [Lists!PNext]_listsVars PROVE PInv'
<1>1. CASE UNCHANGED listsVars
  <2>1. Graph' /\ gen <= gen' /\ UNCHANGED <<kind, map, index, gen, writer, last>>
    BY <1>1, GraphStays DEF listsVars, PInv, Graph, GenLags
  <2>2. SameRequest /\ cache' = cache
    BY <1>1, SameIsSame DEF listsVars
  <2>3. /\ \A i \in ListIds : Marks(i)' = Marks(i) /\ last[i] <= last'[i]
        /\ \A i \in reader'.kept : i \in Lists!Live' /\ (writer'.steps # << >> => writer'.id # i) /\ last'[i] = reader.since[i]
    <3>1. reader' = reader /\ Lists!Live' = Lists!Live /\ \A i : LastCounted(i)' = LastCounted(i)
      BY <1>1, <2>1, GraphStays DEF listsVars
    <3>2. \A i \in ListIds : Marks(i)' = Marks(i) /\ last[i] <= last'[i]
      BY <2>1, <3>1 DEF Marks, PInv, Graph, Acked
    <3>3. \A i \in reader.kept : i \in Lists!Live /\ (writer.steps # << >> => writer.id # i) /\ last[i] = reader.since[i]
      BY DEF PInv, ReaderOk
    <3>. QED  BY <2>1, <3>1, <3>2, <3>3
  <2>4. Remains
    BY <2>1, GraphStays DEF Remains
  <2>. QED  BY <2>1, <2>2, <2>3, <2>4, PagesStay
<1>2. CASE Lists!Create
  <2>1. PICK i \in ListIds, n \in Lists!GivenNames : Lists!Start("create", i, n)
    BY <1>2 DEF Lists!Create
  <2>. QED  BY <2>1, StartKeeps, ListsAssumption DEF Lists!GivenNames
<1>3. CASE Lists!Upsert
  <2>1. PICK i \in ListIds, n \in NameSet : Lists!Start("upsert", i, n)
    BY <1>3 DEF Lists!Upsert, Lists!Live
  <2>. QED  BY <2>1, StartKeeps, ListsAssumption
<1>4. CASE Lists!Rename
  <2>1. PICK i \in ListIds, n \in NameSet : Lists!Start("rename", i, n)
    BY <1>4 DEF Lists!Rename, Lists!Live
  <2>. QED  BY <2>1, StartKeeps, ListsAssumption
<1>5. CASE Lists!Update
  <2>1. PICK i \in ListIds : i \in Lists!Live /\ Lists!Start("update", i, map[i].name)
    BY <1>5 DEF Lists!Update, Lists!Live
  <2>2. PICK n : n = map[i].name
    OBVIOUS
  <2>. QED  BY <2>1, <2>2, StartKeeps
<1>6. CASE Lists!Erase
  <2>1. PICK i \in ListIds : Lists!Start("remove", i, None)
    BY <1>6 DEF Lists!Erase, Lists!Live
  <2>. QED  BY <2>1, StartKeeps
<1>. QED  BY <1>1, <1>2, <1>3, <1>4, <1>5, <1>6, InsertKeeps, DeleteKeeps, IndexKeeps, UnindexKeeps, LockKeeps, SwapKeeps,
             UnlockKeeps, BumpKeeps, ClearKeeps, AskFirstKeeps, AskNextKeeps, TagKeeps, LoadGenKeeps, LookupKeeps, EnterKeeps,
             FetchKeeps, LeaveKeeps, StoreKeeps, ReceiveKeeps DEF Lists!PNext, Lists!Writer, Lists!Reader

-----------------------------------------------------------------------------
(* The walk from cursor to cursor.  A page is the entities whose keys come *)
(* next, of those the generation covers, as long as no id takes another    *)
(* name; a page that somebody's rename may have torn is never one that a   *)
(* walk in progress can get.                                               *)

(* The steps at which the index still has the old name; those that create. *)
Early == {<<"map", "unindex", "index", "bump", "clear">>, <<"unindex", "index", "bump", "clear">>,
          <<"lock", "swap", "unlock", "bump", "clear">>, <<"swap", "unlock", "bump", "clear">>,
          <<"unmap", "unindex", "bump", "clear">>, <<"unindex", "bump", "clear">>}
Linking == {<<"index", "map", "bump", "clear">>, <<"map", "bump", "clear">>}
Making == {<<"map", "index", "bump", "clear">>} \cup Linking

(* Names are numbers, and what has no name goes by 0.                       *)
Called ==
    /\ \A i \in Lists!Live : map[i].name \in Nat
    /\ writer.steps # << >> => writer.ver > 0 /\ writer.name \in Nat \cup {None} /\ writer.old \in Nat \cup {None}
    /\ kind # "concept" =>
        /\ \A i \in Lists!Live : map[i].name = 0
        /\ \A k \in index : k[1] = 0
        /\ writer.steps # << >> => writer.name \in {0, None}

(* The index has an entity under its name, and the one that is being       *)
(* written under its old or its new one, by the step.                      *)
Straight ==
    /\ \A k \in index : ~Busy(k[2]) => map[k[2]] # None /\ map[k[2]].name = k[1]
    /\ \A k \in index : Busy(k[2]) => k[1] = IF writer.steps \in Early THEN writer.old ELSE writer.name

(* The writer and the entity it is at.                                     *)
AtWork ==
    writer.steps # << >> =>
        /\ map[writer.id] = None => writer.name = None \/ (writer.old = None /\ writer.steps \in Making)
        /\ writer.steps \in Linking => kind = "edge"
        /\ writer.steps = <<"map", "index", "bump", "clear">> => \A k \in index : k[2] # writer.id
        /\ map[writer.id] # None => map[writer.id].name \in {writer.old, writer.name}
        /\ writer.steps = <<"unmap", "unindex", "bump", "clear">> => writer.name = None

(* No id takes another name.                                               *)
CalmOk ==
    client.calm /\ kind = "concept" /\ writer.steps # << >> =>
        writer.name \in {None, writer.old} \/ (writer.old = None /\ last[writer.id] = 0)

Shape == Called /\ Straight /\ AtWork /\ CalmOk

(* A key of the walk names its entity, or nothing any more.                *)
Steady(k) ==
    IF map[k[2]] # None THEN map[k[2]].name = k[1]
    ELSE \/ kind # "concept" /\ k[1] = 0
         \/ kind = "concept" /\ last[k[2]] > 0
         \/ kind = "concept" /\ writer.id = k[2] /\ writer.steps # << >> /\ writer.name = None

LEMMA EarlyOrLate ==
    /\ <<"clear">> \notin Early \cup Making /\ <<"bump", "clear">> \notin Early \cup Making
    /\ <<"index", "bump", "clear">> \notin Early \cup Making
    /\ <<"map", "bump", "clear">> \notin Early /\ <<"map", "bump", "clear">> \in Linking
    /\ <<"unlock", "bump", "clear">> \notin Early \cup Making
    /\ <<"unindex", "bump", "clear">> \in Early \ Making
    /\ <<"map", "index", "bump", "clear">> \notin Early \cup Linking
    /\ <<"index", "map", "bump", "clear">> \notin Early /\ <<"index", "map", "bump", "clear">> \in Linking
    /\ <<"unindex", "index", "bump", "clear">> \in Early \ Making
    /\ <<"swap", "unlock", "bump", "clear">> \in Early \ Making
    /\ <<"lock", "unlock", "bump", "clear">> \notin Early \cup Making
    /\ <<"unmap", "unindex", "bump", "clear">> \in Early \ Making
    /\ <<"map", "unindex", "index", "bump", "clear">> \in Early \ Making
    /\ <<"lock", "swap", "unlock", "bump", "clear">> \in Early \ Making
BY DEF Early, Making, Linking

(* The writes that take steps of their own.                                *)
LEMMA StepsDiffer ==
    /\ \A s \in {<<"clear">>, <<"bump", "clear">>, <<"index", "bump", "clear">>, <<"unlock", "bump", "clear">>,
                 <<"unindex", "bump", "clear">>, <<"map", "bump", "clear">>, <<"unindex", "index", "bump", "clear">>,
                 <<"swap", "unlock", "bump", "clear">>} :
          s # <<"map", "index", "bump", "clear">> /\ s # <<"unmap", "unindex", "bump", "clear">>
OBVIOUS

LEMMA NewIsSome == ASSUME PInv, writer.name \in Nat PROVE Lists!New # None /\ Lists!New.name = writer.name
<1>1. Lists!New \in [name : Nat, ver : Nat]
    BY DEF Lists!New, PInv, Graph, WriterOk
<1>. QED  BY <1>1, NoneAssumption DEF Lists!New

LEMMA ShapeBegins == ASSUME Lists!PInit PROVE Shape
<1>1. /\ writer.steps = << >> /\ index = {<<map[i].name, i>> : i \in LoadedIds} /\ \A i : ~Busy(i)
      /\ \A i \in ListIds : map[i] = IF i \in LoadedIds THEN [name |-> IF kind = "concept" THEN i ELSE 0, ver |-> 0] ELSE None
    BY DEF Lists!PInit, Lists!Resting, Busy
<1>2. ASSUME NEW i \in LoadedIds
      PROVE  i \in ListIds /\ map[i] # None /\ map[i].name \in Nat /\ (kind # "concept" => map[i].name = 0)
  <2>1. i \in ListIds /\ i \in Nat
    BY ListsAssumption
  <2>2. map[i] = [name |-> IF kind = "concept" THEN i ELSE 0, ver |-> 0]
    BY <1>1, <2>1
  <2>3. map[i] \in [name : Nat, ver : Nat]
    BY <2>1, <2>2
  <2>. QED  BY <2>1, <2>2, <2>3, NoneAssumption
<1>3. \A i \in Lists!Live : i \in LoadedIds
    BY <1>1 DEF Lists!Live
<1>. QED  BY <1>1, <1>2, <1>3 DEF Shape, Called, Straight, AtWork, CalmOk

(* What a step of a writer leaves true of the keys of a walk, if no id     *)
(* takes another name while it writes.                                     *)
StaysSteady ==
    \A k \in Nat \X ListIds :
        (client.calm \/ kind # "concept" \/ writer.steps \in {<< >>, <<"clear">>}) /\ Steady(k) => Steady(k)'

LEMMA SameWrite ==
    ASSUME PInv, NEW s, Lists!At(s)
    PROVE  /\ writer'.id = writer.id /\ writer'.name = writer.name /\ writer'.old = writer.old /\ writer'.ver = writer.ver
           /\ writer.steps # << >> /\ writer.id \in ListIds
BY DEF Lists!At, PInv, Graph, WriterOk

(* A step that leaves the map alone.                                       *)
LEMMA MapStays ==
    ASSUME PInv, NEW s, Lists!At(s), UNCHANGED <<kind, map, last>>, writer'.steps # << >>
    PROVE  StaysSteady
<1>1. writer'.id = writer.id /\ writer'.name = writer.name /\ writer.steps # << >>
    BY SameWrite
<1>. QED  BY <1>1 DEF StaysSteady, Steady

(* A step that puts the entity in the map.                                 *)
LEMMA PutStays ==
    ASSUME PInv, Shape, NEW s, Lists!At(s), UNCHANGED <<kind, last>>, writer.name \in Nat,
           map' = [map EXCEPT ![writer.id] = Lists!New], writer'.steps # << >>, writer.steps # <<"clear">>
    PROVE  StaysSteady
<1>1. writer'.id = writer.id /\ writer'.name = writer.name /\ writer.steps # << >> /\ writer.id \in ListIds
    BY SameWrite
<1>2. map = [i \in ListIds |-> map[i]] /\ last[writer.id] \in Nat
    BY <1>1 DEF PInv, Graph, Indexed, Acked
<1>3. map'[writer.id] = Lists!New /\ \A i \in ListIds : i # writer.id => map'[i] = map[i]
    BY <1>1, <1>2
<1>4. Lists!New # None /\ Lists!New.name = writer.name
    BY NewIsSome
<1>5. writer.name # None /\ (map[writer.id] # None => map[writer.id].name # None)
  <2>1. map[writer.id] # None => map[writer.id].name \in Nat
    BY <1>1 DEF Shape, Called, Lists!Live
  <2>. QED  BY <2>1, NoneAssumption
<1>6. ASSUME NEW k \in Nat \X ListIds, client.calm \/ kind # "concept", Steady(k) PROVE Steady(k)'
  <2>1. CASE k[2] # writer.id
    BY <1>1, <1>3, <1>6, <2>1 DEF Steady
  <2>2. CASE k[2] = writer.id
    <3>1. CASE kind # "concept"
      <4>1. writer.name = 0
        BY <1>1, <1>5, <3>1 DEF Shape, Called
      <4>2. k[1] = 0
        <5>1. map[writer.id] # None => map[writer.id].name = 0
          BY <1>1, <3>1 DEF Shape, Called, Lists!Live
        <5>. QED  BY <1>6, <2>2, <3>1, <5>1 DEF Steady
      <4>. QED  BY <1>3, <1>4, <2>2, <4>1, <4>2 DEF Steady
    <3>2. CASE kind = "concept"
      <4>1. writer.name = writer.old \/ (writer.old = None /\ last[writer.id] = 0)
        BY <1>1, <1>5, <1>6, <3>2 DEF Shape, CalmOk
      <4>2. map[writer.id] = None => writer.old = None
        BY <1>1, <1>5 DEF Shape, AtWork
      <4>3. map[writer.id] # None => map[writer.id].name \in {writer.old, writer.name}
        BY <1>1 DEF Shape, AtWork
      <4>4. map[writer.id] # None /\ map[writer.id].name = writer.name
        BY <1>2, <1>5, <1>6, <2>2, <3>2, <4>1, <4>2, <4>3 DEF Steady
      <4>5. k[1] = writer.name
        BY <1>6, <2>2, <4>4 DEF Steady
      <4>. QED  BY <1>3, <1>4, <2>2, <4>5 DEF Steady
    <3>. QED  BY <3>1, <3>2
  <2>. QED  BY <2>1, <2>2
<1>. QED  BY <1>1, <1>6 DEF StaysSteady

LEMMA InsertShape == ASSUME PInv, Shape, Lists!Insert PROVE Shape' /\ StaysSteady
<1>1. Lists!At("map") /\ map' = [map EXCEPT ![writer.id] = Lists!New] /\ UNCHANGED <<kind, index, gen, cache, reader, client, last>>
    BY DEF Lists!Insert
<1>2. AtMap
    BY <1>1, StepTaken DEF PInv, Graph
<1>3. /\ writer'.id = writer.id /\ writer'.name = writer.name /\ writer'.old = writer.old /\ writer'.ver = writer.ver
      /\ writer.steps # << >> /\ writer.id \in ListIds /\ index \subseteq Nat \X ListIds
    BY <1>1, SameWrite DEF PInv, Graph, Indexed
<1>4. writer.name \in Nat
    BY <1>2, <1>3 DEF AtMap, Lists!NewKey
<1>5. map'[writer.id] = Lists!New /\ Lists!New # None /\ Lists!New.name = writer.name /\ \A i \in ListIds : i # writer.id => map'[i] = map[i]
    BY <1>1, <1>3, <1>4, NewIsSome DEF PInv, Graph, Indexed
<1>6. writer'.steps # << >> /\ writer.steps # <<"clear">>
    BY <1>2, StepsApart DEF AtMap
<1>7. \A i \in ListIds : (Busy(i) <=> i = writer.id) /\ (Busy(i)' <=> i = writer.id)
    BY <1>2, <1>3, StepsApart DEF AtMap, Busy
<1>8. Called'
  <2>1. \A i \in Lists!Live' : i = writer.id \/ (i \in Lists!Live /\ map'[i] = map[i])
    BY <1>5 DEF Lists!Live
  <2>. QED  BY <1>1, <1>3, <1>4, <1>5, <1>6, <2>1, NoneAssumption DEF Shape, Called
<1>9. Straight'
  <2>1. \A k \in index : k[2] \in ListIds
    BY <1>3
  <2>2. \/ \A k \in index : k[2] # writer.id
        \/ (writer.steps \in Early <=> writer'.steps \in Early)
    BY <1>2, <1>3, EarlyOrLate DEF AtMap, Shape, AtWork
  <2>. QED  BY <1>1, <1>3, <1>5, <1>7, <2>1, <2>2 DEF Shape, Straight
<1>10. AtWork'
  <2>1. writer'.steps \notin Making
    BY <1>2, EarlyOrLate DEF AtMap, Making
  <2>2. writer'.steps # <<"map", "index", "bump", "clear">> /\ writer'.steps # <<"unmap", "unindex", "bump", "clear">>
    BY <1>2, StepsDiffer DEF AtMap
  <2>. QED  BY <1>3, <1>5, <2>1, <2>2 DEF AtWork, Making
<1>11. CalmOk'
    BY <1>1, <1>3 DEF Shape, CalmOk
<1>. QED  BY <1>1, <1>4, <1>6, <1>8, <1>9, <1>10, <1>11, PutStays DEF Shape

LEMMA UnlockShape == ASSUME PInv, Shape, Lists!Unlock PROVE Shape' /\ StaysSteady
<1>1. Lists!At("unlock") /\ map' = [map EXCEPT ![writer.id] = Lists!New] /\ UNCHANGED <<kind, index, gen, cache, reader, client, last>>
    BY DEF Lists!Unlock
<1>2. AtUnlock
    BY <1>1, StepTaken DEF PInv, Graph
<1>3. /\ writer'.id = writer.id /\ writer'.name = writer.name /\ writer'.old = writer.old /\ writer'.ver = writer.ver
      /\ writer.steps # << >> /\ writer.id \in ListIds /\ index \subseteq Nat \X ListIds
    BY <1>1, SameWrite DEF PInv, Graph, Indexed
<1>4. writer.name \in Nat
    BY <1>2, <1>3 DEF AtUnlock, Lists!NewKey
<1>5. map'[writer.id] = Lists!New /\ Lists!New # None /\ Lists!New.name = writer.name /\ \A i \in ListIds : i # writer.id => map'[i] = map[i]
    BY <1>1, <1>3, <1>4, NewIsSome DEF PInv, Graph, Indexed
<1>6. writer'.steps # << >> /\ writer.steps # <<"clear">>
    BY <1>2, StepsApart DEF AtUnlock
<1>7. \A i \in ListIds : (Busy(i) <=> i = writer.id) /\ (Busy(i)' <=> i = writer.id)
    BY <1>2, <1>3, StepsApart DEF AtUnlock, Busy
<1>8. Called'
  <2>1. \A i \in Lists!Live' : i = writer.id \/ (i \in Lists!Live /\ map'[i] = map[i])
    BY <1>5 DEF Lists!Live
  <2>. QED  BY <1>1, <1>3, <1>4, <1>5, <1>6, <2>1, NoneAssumption DEF Shape, Called
<1>9. Straight'
  <2>1. \A k \in index : k[2] \in ListIds
    BY <1>3
  <2>2. writer.steps \notin Early /\ writer'.steps \notin Early
    BY <1>2, EarlyOrLate DEF AtUnlock
  <2>. QED  BY <1>1, <1>3, <1>5, <1>7, <2>1, <2>2 DEF Shape, Straight
<1>10. AtWork'
  <2>1. writer'.steps \notin Making
    BY <1>2, EarlyOrLate DEF AtUnlock
  <2>2. writer'.steps # <<"map", "index", "bump", "clear">> /\ writer'.steps # <<"unmap", "unindex", "bump", "clear">>
    BY <1>2, StepsDiffer DEF AtUnlock
  <2>. QED  BY <1>3, <1>5, <2>1, <2>2 DEF AtWork, Making
<1>11. CalmOk'
    BY <1>1, <1>3 DEF Shape, CalmOk
<1>. QED  BY <1>1, <1>4, <1>6, <1>8, <1>9, <1>10, <1>11, PutStays DEF Shape

LEMMA DeleteShape == ASSUME PInv, Shape, Lists!Delete PROVE Shape' /\ StaysSteady
<1>1. Lists!At("unmap") /\ map' = [map EXCEPT ![writer.id] = None] /\ UNCHANGED <<kind, index, gen, cache, reader, client, last>>
    BY DEF Lists!Delete
<1>2. AtUnmap
    BY <1>1, StepTaken DEF PInv, Graph
<1>3. /\ writer'.id = writer.id /\ writer'.name = writer.name /\ writer'.old = writer.old /\ writer'.ver = writer.ver
      /\ writer.steps # << >> /\ writer.id \in ListIds /\ index \subseteq Nat \X ListIds
    BY <1>1, SameWrite DEF PInv, Graph, Indexed
<1>4. writer.name = None
    BY <1>2, <1>3 DEF AtUnmap, Shape, AtWork
<1>5. map'[writer.id] = None /\ \A i \in ListIds : i # writer.id => map'[i] = map[i]
    BY <1>1, <1>3 DEF PInv, Graph, Indexed
<1>6. writer'.steps # << >> /\ writer.steps # <<"clear">>
    BY <1>2, StepsApart DEF AtUnmap
<1>7. \A i \in ListIds : (Busy(i) <=> i = writer.id) /\ (Busy(i)' <=> i = writer.id)
    BY <1>2, <1>3, StepsApart DEF AtUnmap, Busy
<1>8. Called'
  <2>1. \A i \in Lists!Live' : i \in Lists!Live /\ map'[i] = map[i]
    BY <1>5 DEF Lists!Live
  <2>. QED  BY <1>1, <1>3, <1>5, <1>6, <2>1 DEF Shape, Called
<1>9. Straight'
  <2>1. \A k \in index : k[2] \in ListIds
    BY <1>3
  <2>2. writer.steps \in Early /\ writer'.steps \in Early
    BY <1>2, EarlyOrLate DEF AtUnmap
  <2>. QED  BY <1>1, <1>3, <1>5, <1>7, <2>1, <2>2 DEF Shape, Straight
<1>10. AtWork'
  <2>1. writer'.steps \notin Linking /\ writer'.steps # <<"map", "index", "bump", "clear">>
    BY <1>2, EarlyOrLate DEF AtUnmap, Making
  <2>. QED  BY <1>3, <1>4, <1>5, <2>1 DEF AtWork
<1>11. CalmOk'
    BY <1>1, <1>3 DEF Shape, CalmOk
<1>12. StaysSteady
  <2>. SUFFICES ASSUME NEW k \in Nat \X ListIds, Steady(k) PROVE Steady(k)'
    BY DEF StaysSteady
  <2>1. CASE k[2] # writer.id
    BY <1>1, <1>3, <1>5, <2>1 DEF Steady
  <2>2. CASE k[2] = writer.id /\ kind = "concept"
    BY <1>1, <1>3, <1>4, <1>5, <1>6, <2>2 DEF Steady
  <2>3. CASE k[2] = writer.id /\ kind # "concept"
    <3>1. map[writer.id] # None => map[writer.id].name = 0
      BY <1>3, <2>3 DEF Shape, Called, Lists!Live
    <3>. QED  BY <1>1, <1>5, <2>3, <3>1 DEF Steady
  <2>. QED  BY <2>1, <2>2, <2>3
<1>. QED  BY <1>8, <1>9, <1>10, <1>11, <1>12 DEF Shape

(* A step that changes the index alone, or nothing.                        *)
LEMMA KeyedShape ==
    ASSUME PInv, Shape, NEW s, Lists!At(s), UNCHANGED <<kind, map, gen, cache, reader, client, last>>,
           writer.steps # <<"clear">>, writer'.steps # << >>, writer'.steps # <<"clear">>, index' \subseteq Nat \X ListIds,
           \A k \in index' : k[2] # writer.id => k \in index,
           \A k \in index' : k[2] = writer.id => k[1] = IF writer'.steps \in Early THEN writer.old ELSE writer.name,
           writer'.steps \in Making => writer.steps \in Linking /\ writer'.steps \in Linking,
           writer'.steps # <<"unmap", "unindex", "bump", "clear">>,
           writer.steps \in Making => writer'.steps \in Making \/ map[writer.id] # None,
           kind # "concept" => \A k \in index' : k[1] = 0
    PROVE  Shape' /\ StaysSteady
<1>1. /\ writer'.id = writer.id /\ writer'.name = writer.name /\ writer'.old = writer.old /\ writer'.ver = writer.ver
      /\ writer.steps # << >> /\ writer.id \in ListIds
    BY SameWrite
<1>2. \A i \in ListIds : (Busy(i) <=> i = writer.id) /\ (Busy(i)' <=> i = writer.id)
    BY <1>1 DEF Busy
<1>3. Called'
    BY <1>1 DEF Shape, Called, Lists!Live
<1>4. Straight'
    BY <1>1, <1>2 DEF Shape, Straight
<1>5. AtWork'
  <2>1. writer'.steps # <<"map", "index", "bump", "clear">>
    BY EarlyOrLate DEF Making
  <2>. QED  BY <1>1, <2>1 DEF Shape, AtWork, Making
<1>6. CalmOk'
    BY <1>1 DEF Shape, CalmOk
<1>. QED  BY <1>3, <1>4, <1>5, <1>6, MapStays DEF Shape

LEMMA IndexShape == ASSUME PInv, Shape, Lists!Index PROVE Shape' /\ StaysSteady
<1>1. Lists!At("index") /\ index' = index \cup {Lists!NewKey} /\ UNCHANGED <<kind, map, gen, cache, reader, client, last>>
    BY DEF Lists!Index
<1>2. AtIndex
    BY <1>1, StepTaken DEF PInv, Graph
<1>3. writer.id \in ListIds /\ writer.steps # << >> /\ writer.name \in Nat /\ index \subseteq Nat \X ListIds
    BY <1>1, <1>2, SameWrite DEF AtIndex, PInv, Graph, Indexed
<1>4. writer.steps # <<"clear">> /\ writer'.steps # << >> /\ writer'.steps # <<"clear">>
    BY <1>2, StepsApart DEF AtIndex
<1>5. Lists!NewKey = <<writer.name, writer.id>> /\ index' \subseteq Nat \X ListIds
    BY <1>1, <1>3 DEF Lists!NewKey
<1>6. writer.steps \notin Early /\ writer'.steps \notin Early
    BY <1>2, EarlyOrLate DEF AtIndex
<1>7. \A k \in index : k[2] = writer.id => k[1] = writer.name
    BY <1>3, <1>4, <1>6 DEF Shape, Straight, Busy
<1>8. /\ writer'.steps \in Making => writer.steps \in Linking /\ writer'.steps \in Linking
      /\ writer.steps \in Making => writer'.steps \in Making
    BY <1>2, EarlyOrLate DEF AtIndex, Making
<1>9. writer'.steps # <<"unmap", "unindex", "bump", "clear">>
    BY <1>2, StepsDiffer DEF AtIndex
<1>10. kind # "concept" => \A k \in index' : k[1] = 0
  <2>1. kind # "concept" => writer.name = 0
    BY <1>3, NoneAssumption DEF Shape, Called
  <2>. QED  BY <1>1, <1>5, <2>1 DEF Shape, Called
<1>11. \A k \in index' : (k[2] # writer.id => k \in index) /\ (k[2] = writer.id => k[1] = writer.name)
    BY <1>1, <1>5, <1>7
<1>. QED  BY <1>1, <1>4, <1>5, <1>6, <1>8, <1>9, <1>10, <1>11, KeyedShape

LEMMA UnindexShape == ASSUME PInv, Shape, Lists!Unindex PROVE Shape' /\ StaysSteady
<1>1. Lists!At("unindex") /\ index' = index \ {Lists!OldKey} /\ UNCHANGED <<kind, map, gen, cache, reader, client, last>>
    BY DEF Lists!Unindex
<1>2. AtUnindex
    BY <1>1, StepTaken DEF PInv, Graph
<1>3. writer.id \in ListIds /\ writer.steps # << >> /\ index \subseteq Nat \X ListIds
    BY <1>1, SameWrite DEF PInv, Graph, Indexed
<1>4. writer.steps # <<"clear">> /\ writer'.steps # << >> /\ writer'.steps # <<"clear">>
    BY <1>2, StepsApart DEF AtUnindex
<1>5. Lists!OldKey = <<writer.old, writer.id>> /\ index' \subseteq Nat \X ListIds
    BY <1>1, <1>3 DEF Lists!OldKey
<1>6. writer.steps \in Early \ Making /\ writer'.steps \notin Early \cup Making
    BY <1>2, EarlyOrLate DEF AtUnindex
<1>7. \A k \in index : k[2] = writer.id => k = Lists!OldKey
    BY <1>3, <1>4, <1>5, <1>6 DEF Shape, Straight, Busy
<1>9. writer'.steps # <<"unmap", "unindex", "bump", "clear">>
    BY <1>2, StepsDiffer DEF AtUnindex
<1>10. kind # "concept" => \A k \in index' : k[1] = 0
    BY <1>1 DEF Shape, Called
<1>11. \A k \in index' : k \in index /\ k[2] # writer.id
    BY <1>1, <1>7
<1>. QED  BY <1>1, <1>4, <1>5, <1>6, <1>9, <1>10, <1>11, KeyedShape

LEMMA LockShape == ASSUME PInv, Shape, Lists!Lock PROVE Shape' /\ StaysSteady
<1>1. Lists!At("lock") /\ UNCHANGED <<kind, map, index, gen, cache, reader, client, last>>
    BY DEF Lists!Lock
<1>2. AtLock
    BY <1>1, StepTaken DEF PInv, Graph
<1>3. writer.id \in ListIds /\ writer.steps # << >> /\ index \subseteq Nat \X ListIds
    BY <1>1, SameWrite DEF PInv, Graph, Indexed
<1>4. writer.steps # <<"clear">> /\ writer'.steps # << >> /\ writer'.steps # <<"clear">>
    BY <1>2, StepsApart DEF AtLock
<1>6. (writer.steps \in Early <=> writer'.steps \in Early) /\ writer.steps \notin Making /\ writer'.steps \notin Making
    BY <1>2, EarlyOrLate DEF AtLock
<1>7. \A k \in index : k[2] = writer.id => k[1] = IF writer'.steps \in Early THEN writer.old ELSE writer.name
    BY <1>3, <1>4, <1>6 DEF Shape, Straight, Busy
<1>9. writer'.steps # <<"unmap", "unindex", "bump", "clear">>
    BY <1>2, StepsDiffer DEF AtLock
<1>10. kind # "concept" => \A k \in index' : k[1] = 0
    BY <1>1 DEF Shape, Called
<1>. QED  BY <1>1, <1>3, <1>4, <1>6, <1>7, <1>9, <1>10, KeyedShape

LEMMA SwapShape == ASSUME PInv, Shape, Lists!Swap PROVE Shape' /\ StaysSteady
<1>1. Lists!At("swap") /\ index' = (index \ {Lists!OldKey}) \cup {Lists!NewKey} /\ UNCHANGED <<kind, map, gen, cache, reader, client, last>>
    BY DEF Lists!Swap
<1>2. AtSwap
    BY <1>1, StepTaken DEF PInv, Graph
<1>3. writer.id \in ListIds /\ writer.steps # << >> /\ writer.name \in Nat /\ index \subseteq Nat \X ListIds
    BY <1>1, <1>2, SameWrite DEF AtSwap, PInv, Graph, Indexed
<1>4. writer.steps # <<"clear">> /\ writer'.steps # << >> /\ writer'.steps # <<"clear">>
    BY <1>2, StepsApart DEF AtSwap
<1>5. /\ Lists!OldKey = <<writer.old, writer.id>> /\ Lists!NewKey = <<writer.name, writer.id>>
      /\ index' \subseteq Nat \X ListIds
    BY <1>1, <1>3 DEF Lists!OldKey, Lists!NewKey
<1>6. writer.steps \in Early \ Making /\ writer'.steps \notin Early \cup Making
    BY <1>2, EarlyOrLate DEF AtSwap
<1>7. \A k \in index : k[2] = writer.id => k = Lists!OldKey
    BY <1>3, <1>4, <1>5, <1>6 DEF Shape, Straight, Busy
<1>9. writer'.steps # <<"unmap", "unindex", "bump", "clear">>
    BY <1>2, StepsDiffer DEF AtSwap
<1>10. kind # "concept" => \A k \in index' : k[1] = 0
  <2>1. kind # "concept" => writer.name = 0
    BY <1>3, NoneAssumption DEF Shape, Called
  <2>. QED  BY <1>1, <1>5, <2>1 DEF Shape, Called
<1>11. \A k \in index' : (k[2] # writer.id => k \in index) /\ (k[2] = writer.id => k[1] = writer.name)
    BY <1>1, <1>5, <1>7
<1>. QED  BY <1>1, <1>4, <1>5, <1>6, <1>9, <1>10, <1>11, KeyedShape

LEMMA BumpShape == ASSUME PInv, Shape, Lists!Bump PROVE Shape' /\ StaysSteady
<1>1. Lists!At("bump") /\ UNCHANGED <<kind, map, index, cache, reader, client, last>>
    BY DEF Lists!Bump
<1>2. AtBump
    BY <1>1, StepTaken DEF PInv, Graph
<1>3. /\ writer'.id = writer.id /\ writer'.name = writer.name /\ writer'.old = writer.old /\ writer'.ver = writer.ver
      /\ writer.steps = <<"bump", "clear">> /\ writer'.steps = <<"clear">> /\ writer.id \in ListIds /\ index \subseteq Nat \X ListIds
    BY <1>1, <1>2, SameWrite DEF AtBump, PInv, Graph, Indexed
<1>4. writer.steps # << >> /\ writer'.steps # << >> /\ writer.steps \notin Early \cup Making /\ writer'.steps \notin Early \cup Making
    BY <1>3, StepsApart, EarlyOrLate
<1>5. \A i \in ListIds : (Busy(i) <=> i = writer.id) /\ ~Busy(i)'
    BY <1>3, StepsApart DEF Busy
<1>6. Called'
    BY <1>1, <1>3, <1>4 DEF Shape, Called, Lists!Live
<1>7. Straight'
  <2>. SUFFICES ASSUME NEW k \in index PROVE map[k[2]] # None /\ map[k[2]].name = k[1]
    BY <1>1, <1>3, <1>5 DEF Straight
  <2>1. k[2] \in ListIds /\ k[1] \in Nat
    BY <1>3
  <2>2. CASE k[2] # writer.id
    BY <1>5, <2>1, <2>2 DEF Shape, Straight
  <2>3. CASE k[2] = writer.id
    <3>1. k[1] = writer.name
      BY <1>4, <1>5, <2>1, <2>3 DEF Shape, Straight
    <3>2. writer.name \in Nat /\ writer.name # None
      BY <2>1, <3>1, NoneAssumption
    <3>3. map[writer.id] # None
      BY <1>4, <3>2 DEF Shape, AtWork
    <3>4. map[writer.id] = Lists!New /\ Lists!New.name = writer.name
      BY <1>2, <3>2, <3>3, NewIsSome DEF AtBump, Written
    <3>. QED  BY <2>3, <3>1, <3>3, <3>4
  <2>. QED  BY <2>2, <2>3
<1>8. AtWork'
  <2>1. writer'.steps # <<"map", "index", "bump", "clear">> /\ writer'.steps # <<"unmap", "unindex", "bump", "clear">>
    BY <1>3, StepsDiffer
  <2>. QED  BY <1>1, <1>3, <1>4, <2>1 DEF Shape, AtWork, Making
<1>9. CalmOk'
    BY <1>1, <1>3, <1>4 DEF Shape, CalmOk
<1>. QED  BY <1>1, <1>4, <1>6, <1>7, <1>8, <1>9, MapStays DEF Shape

LEMMA ClearShape == ASSUME PInv, Shape, Lists!Clear PROVE Shape' /\ StaysSteady
<1>1. Lists!At("clear") /\ last' = [last EXCEPT ![writer.id] = writer.ver] /\ UNCHANGED <<kind, map, index, gen, reader, client>>
    BY DEF Lists!Clear
<1>2. AtClear
    BY <1>1, StepTaken DEF PInv, Graph
<1>3. /\ writer'.id = writer.id /\ writer.steps = <<"clear">> /\ writer'.steps = << >> /\ writer.steps # << >>
      /\ writer.id \in ListIds /\ index \subseteq Nat \X ListIds
    BY <1>1, <1>2, SameWrite DEF AtClear, PInv, Graph, Indexed
<1>4. last'[writer.id] = writer.ver /\ writer.ver > 0 /\ \A i \in ListIds : i # writer.id => last'[i] = last[i]
    BY <1>1, <1>3 DEF PInv, Graph, Acked, Shape, Called
<1>5. \A i \in ListIds : ~Busy(i) /\ ~Busy(i)'
    BY <1>3 DEF Busy
<1>6. Called'
    BY <1>1, <1>3 DEF Shape, Called, Lists!Live
<1>7. Straight'
    BY <1>1, <1>3, <1>5 DEF Shape, Straight
<1>8. AtWork' /\ CalmOk'
    BY <1>3 DEF AtWork, CalmOk
<1>9. StaysSteady
    BY <1>1, <1>3, <1>4 DEF StaysSteady, Steady
<1>. QED  BY <1>6, <1>7, <1>8, <1>9 DEF Shape

(* How the writers set out.                                                *)
SetsOut(o, i, n) ==
    /\ o \in {"create", "upsert", "rename", "update", "remove"} /\ i \in ListIds /\ Lists!Start(o, i, n)
    /\ o = "create" <=> i \notin Lists!Live
    /\ o = "create" => n \in Nat /\ (kind # "concept" => n = 0)
    /\ o \in {"upsert", "rename"} => n \in Nat /\ kind = "concept"
    /\ o = "update" => n = map[i].name
    /\ o = "remove" => n = None

LEMMA StartShape == ASSUME PInv, Shape, NEW o, NEW i, NEW n, SetsOut(o, i, n) PROVE Shape' /\ StaysSteady
<1>1. /\ writer.steps = << >> /\ UNCHANGED <<kind, map, index, gen, cache, last>> /\ i \in ListIds
      /\ writer'.id = i /\ writer'.name = n /\ writer'.old = Lists!Name(i) /\ writer'.ver = writer.ver + 1
      /\ writer'.steps = Lists!Steps(o) /\ writer.ver \in Nat /\ index \subseteq Nat \X ListIds
    BY DEF SetsOut, Lists!Start, PInv, Graph, WriterOk, Indexed
<1>2. client'.calm => client.calm /\ (n # None => n = Lists!Name(i) \/ (Lists!Name(i) = None /\ last[i] = 0))
    BY DEF SetsOut, Lists!Start, PInv, ClientOk, AClient
<1>3. /\ o = "create" /\ kind # "edge" => Lists!Steps(o) = <<"map", "index", "bump", "clear">>
      /\ o = "create" /\ kind = "edge" => Lists!Steps(o) = <<"index", "map", "bump", "clear">>
      /\ o = "upsert" => Lists!Steps(o) = <<"map", "unindex", "index", "bump", "clear">>
      /\ o = "rename" => Lists!Steps(o) = <<"lock", "swap", "unlock", "bump", "clear">>
      /\ o = "update" => Lists!Steps(o) = <<"lock", "unlock", "bump", "clear">>
      /\ o = "remove" => Lists!Steps(o) = <<"unmap", "unindex", "bump", "clear">>
    BY DEF Lists!Steps
<1>4. /\ o = "create" => Lists!Steps(o) \in Making
      /\ o # "create" => Lists!Steps(o) \notin Making
      /\ Lists!Steps(o) \in Linking => kind = "edge"
      /\ Lists!Steps(o) \notin Early => o \in {"create", "update"}
      /\ o # "remove" => Lists!Steps(o) # <<"unmap", "unindex", "bump", "clear">>
    BY <1>3, EarlyOrLate DEF SetsOut, Making
<1>5. Lists!Steps(o) # << >> /\ Lists!Steps(o) # <<"clear">>
    BY <1>3, StepsApart, ZenonT(20) DEF SetsOut
<1>6. \A j \in ListIds : ~Busy(j) /\ (Busy(j)' <=> j = i)
    BY <1>1, <1>5 DEF Busy
<1>7. /\ i \in Lists!Live => Lists!Name(i) = map[i].name /\ map[i].name \in Nat /\ map[i] # None
      /\ i \notin Lists!Live => Lists!Name(i) = None /\ map[i] = None
    BY <1>1 DEF Lists!Name, Shape, Called, Lists!Live
<1>8. Lists!Live' = Lists!Live
    BY <1>1 DEF Lists!Live
<1>9. n \in Nat \cup {None} /\ (kind # "concept" => n \in {0, None})
    BY <1>7 DEF SetsOut, Shape, Called
<1>10. Called'
    BY <1>1, <1>7, <1>8, <1>9 DEF Shape, Called
<1>11. \A k \in index : k[2] \in ListIds /\ map[k[2]] # None /\ map[k[2]].name = k[1]
    BY <1>1, <1>6 DEF Shape, Straight
<1>12. Straight'
  <2>. SUFFICES ASSUME NEW k \in index, k[2] = i PROVE k[1] = IF Lists!Steps(o) \in Early THEN Lists!Name(i) ELSE n
    BY <1>1, <1>6, <1>11 DEF Straight
  <2>1. i \in Lists!Live /\ k[1] = map[i].name
    BY <1>1, <1>11 DEF Lists!Live
  <2>2. o # "create"
    BY <2>1 DEF SetsOut
  <2>. QED  BY <1>4, <1>7, <2>1, <2>2 DEF SetsOut
<1>13. AtWork'
  <2>1. map[i] = None => o = "create" /\ Lists!Name(i) = None
    BY <1>1, <1>7 DEF SetsOut, Lists!Live
  <2>2. Lists!Steps(o) = <<"map", "index", "bump", "clear">> => o = "create"
    BY <1>4 DEF Making
  <2>3. o = "create" => \A k \in index : k[2] # i
    BY <1>11 DEF SetsOut, Lists!Live
  <2>4. map[i] # None => map[i].name = Lists!Name(i)
    BY <1>1, <1>7 DEF Lists!Live
  <2>5. Lists!Steps(o) = <<"unmap", "unindex", "bump", "clear">> => n = None
    BY <1>4 DEF SetsOut
  <2>. QED  BY <1>1, <1>4, <2>1, <2>2, <2>3, <2>4, <2>5 DEF AtWork
<1>14. CalmOk'
    BY <1>1, <1>2 DEF CalmOk
<1>15. StaysSteady
    BY <1>1 DEF StaysSteady, Steady
<1>. QED  BY <1>10, <1>12, <1>13, <1>14, <1>15 DEF Shape

(* A page for the generation g, from the cursor on: its rows rise, those   *)
(* of entities that g covers have their names, and all of those are there  *)
(* as far as the page reaches.                                             *)
RowKey(r) == <<r.name, r.id>>

Rises(rs) == \A j, l \in DOMAIN rs : j < l => Lists!Before(RowKey(rs[j]), RowKey(rs[l]))

OfAge(rs, after, g) ==
    /\ Rises(rs)
    /\ \A j \in DOMAIN rs :
        /\ rs[j].name \in Nat /\ Lists!Beyond(RowKey(rs[j]), after)
        /\ rs[j].id \in Solid(g) => rs[j].name = map[rs[j].id].name

Reached(rs, after, i) ==
    Lists!Beyond(Lists!Key(i), after) /\ (Len(rs) < Limit \/ ~Lists!Before(RowKey(rs[Len(rs)]), Lists!Key(i)))

PageWhole(rs, after, g) ==
    /\ OfAge(rs, after, g)
    /\ \A i \in Solid(g) : i \in ShownIn(rs) <=> Reached(rs, after, i)

(* While it is built, with the keys that are still to come.                *)
Orderly(rs, keys, after, g) ==
    /\ OfAge(rs, after, g)
    /\ \A k \in keys : Steady(k) /\ Lists!Beyond(k, after) /\ \A j \in DOMAIN rs : Lists!Before(RowKey(rs[j]), k)
    /\ \A i \in Solid(g) : (i \in ShownIn(rs) \/ Lists!Key(i) \in keys) <=> Lists!Beyond(Lists!Key(i), after)

(* The pages that are kept, unless a write may have torn them that a walk  *)
(* in progress is not to see.                                              *)
Relied(g) ==
    /\ client.calm /\ reader.after = None
    /\ \/ reader.phase \in {"tag", "gen"} /\ g = gen
       \/ reader.phase = "lookup" /\ reader.gen = g

KeptPage(rs, g) == PageWhole(rs, None, g) \/ (kind = "concept" /\ writer.ver > g /\ ~Relied(g))

PagesOk ==
    /\ cache # None => KeptPage(cache.rows, cache.gen)
    /\ client.tag # None => KeptPage(client.rows, client.tag)

(* The page of the reader, unless a write may tear it.                     *)
Undisturbed == client.calm \/ kind # "concept" \/ (reader.after = None /\ writer.ver = PageGen)

BuiltOk ==
    Undisturbed =>
        /\ reader.phase = "page" => Orderly(reader.rows, reader.todo, reader.after, PageGen)
        /\ reader.phase \in {"store", "answer"} => PageWhole(reader.rows, reader.after, PageGen)

(* The entities that stay throughout the walk.                             *)
KeptOk ==
    \A i \in client.kept :
        /\ i \in Lists!Live
        /\ writer.steps # << >> => writer.id # i
        /\ reader.phase \notin {"idle", "tag"} => last[i] <= reader.tag

(* They were shown once or are still to come.                              *)
Once(s, i) == \E j \in DOMAIN s : s[j] = i /\ \A l \in DOMAIN s : s[l] = i => l = j
Never(s, i) == \A j \in DOMAIN s : s[j] # i

Point == IF reader.phase = "idle" THEN client.next ELSE reader.after
Behind(i) == (reader.phase = "idle" /\ client.next = None) \/ ~Lists!Beyond(Lists!Key(i), Point)

WalkOk ==
    /\ client.shown \in Seq(ListIds)
    /\ client.calm =>
        /\ reader.phase # "idle" /\ reader.after = None => client.shown = << >>
        /\ \A i \in client.kept : IF Behind(i) THEN Once(client.shown, i) ELSE Never(client.shown, i)
        /\ \A c \in {client.next, reader.after} : c # None => c \in Nat \X ListIds

WInv == PInv /\ Shape /\ PagesOk /\ BuiltOk /\ KeptOk /\ WalkOk

LEMMA WholeStays ==
    ASSUME PInv, Graph', Remains, NEW rs, NEW after, NEW g \in Nat, g <= gen
    PROVE  /\ PageWhole(rs, after, g) => PageWhole(rs, after, g)'
           /\ \A keys : Orderly(rs, keys, after, g) /\ (\A k \in keys : Steady(k) => Steady(k)') => Orderly(rs, keys, after, g)'
<1>1. \A i \in Solid(g)' : i \in Solid(g) /\ Lists!Key(i)' = Lists!Key(i) /\ map'[i].name = map[i].name
  <2>. SUFFICES ASSUME NEW i \in Solid(g)' PROVE i \in Solid(g) /\ Lists!Key(i)' = Lists!Key(i) /\ map'[i].name = map[i].name
    OBVIOUS
  <2>1. i \in Solid(g) /\ Lists!Key(i)' = Lists!Key(i)
    BY SolidBefore DEF PInv, Graph, GenLags
  <2>. QED  BY <2>1 DEF Lists!Key
<1>2. OfAge(rs, after, g) => OfAge(rs, after, g)'
    BY <1>1 DEF OfAge, Rises, RowKey, Lists!Beyond, Lists!Before
<1>3. \A i \in Solid(g)' : Reached(rs, after, i)' <=> Reached(rs, after, i)
    BY <1>1 DEF Reached, RowKey, Lists!Beyond, Lists!Before
<1>4. PageWhole(rs, after, g) => PageWhole(rs, after, g)'
    BY <1>1, <1>2, <1>3 DEF PageWhole, ShownIn
<1>5. ASSUME NEW keys, Orderly(rs, keys, after, g), \A k \in keys : Steady(k) => Steady(k)' PROVE Orderly(rs, keys, after, g)'
  <2>1. OfAge(rs, after, g)'
    BY <1>2, <1>5 DEF Orderly
  <2>2. \A k \in keys : Steady(k)' /\ Lists!Beyond(k, after) /\ \A j \in DOMAIN rs : Lists!Before(RowKey(rs[j]), k)
    BY <1>5 DEF Orderly
  <2>3. \A i \in Solid(g)' : (i \in ShownIn(rs) \/ Lists!Key(i)' \in keys) <=> Lists!Beyond(Lists!Key(i)', after)
    BY <1>1, <1>5 DEF Orderly
  <2>. QED  BY <2>1, <2>2, <2>3 DEF Orderly, RowKey, Lists!Beyond, Lists!Before, ShownIn
<1>. QED  BY <1>4, <1>5

LEMMA ListSizes == ASSUME NEW S PROVE Lists!Cardinality(S) = Cardinality(S)
    BY Zenon DEF Lists!Cardinality, Cardinality

LEMMA WalkImply == ASSUME WInv PROVE Lists!WalkComplete
<1>. SUFFICES ASSUME reader.phase = "idle", client.next = None, client.calm, NEW i \in client.kept
     PROVE  Lists!Cardinality({j \in DOMAIN client.shown : client.shown[j] = i}) = 1
    BY DEF Lists!WalkComplete
<1>1. Once(client.shown, i)
    BY DEF WInv, WalkOk, Behind
<1>2. PICK j \in DOMAIN client.shown : client.shown[j] = i /\ \A l \in DOMAIN client.shown : client.shown[l] = i => l = j
    BY <1>1 DEF Once
<1>3. {l \in DOMAIN client.shown : client.shown[l] = i} = {j}
    BY <1>2
<1>4. Cardinality({j}) = 1
    BY FS_Singleton
<1>. QED  BY <1>3, <1>4, ListSizes

LEMMA WalkBegins == ASSUME Lists!PInit PROVE WInv
<1>1. PInv /\ Shape
    BY ListsBegin, ShapeBegins
<1>2. /\ cache = None /\ client.tag = None /\ reader.phase = "idle" /\ client.kept = {} /\ client.shown = << >>
      /\ client.next = None /\ reader.after = None
    BY DEF Lists!PInit, Lists!Waiting, Lists!Away
<1>. QED  BY <1>1, <1>2 DEF WInv, PagesOk, BuiltOk, KeptOk, WalkOk

(* The page of the next state, in terms of its fields.                     *)
LEMMA BuiltIs ==
    ASSUME NEW rs, NEW ks, NEW after, NEW g, reader'.rows = rs, reader'.todo = ks, reader'.after = after, PageGen' = g
    PROVE  /\ Orderly(rs, ks, after, g)' => Orderly(reader.rows, reader.todo, reader.after, PageGen)'
           /\ PageWhole(rs, after, g)' => PageWhole(reader.rows, reader.after, PageGen)'
<1>1. Solid(PageGen)' = Solid(g)'
    BY DEF Solid, Busy, LastCounted, Lists!Live
<1>2. OfAge(rs, after, g)' => OfAge(reader.rows, reader.after, PageGen)'
    BY <1>1 DEF OfAge, Rises, RowKey
<1>3. PageWhole(rs, after, g)' => PageWhole(reader.rows, reader.after, PageGen)'
    BY <1>1, <1>2 DEF PageWhole, Reached, RowKey, ShownIn
<1>4. Orderly(rs, ks, after, g)' => Orderly(reader.rows, reader.todo, reader.after, PageGen)'
    BY <1>1, <1>2 DEF Orderly, RowKey, ShownIn
<1>. QED  BY <1>3, <1>4

(* A step of a writer.                                                     *)
SameWalk ==
    /\ kind' = kind /\ SameRequest /\ cache' \in {cache, None}
    /\ client'.next = client.next /\ client'.shown = client.shown /\ client'.kept \subseteq client.kept
    /\ client'.calm => client.calm
    /\ writer'.ver = writer.ver \/ (writer.steps = << >> /\ writer'.ver = writer.ver + 1)
    /\ \A i \in client'.kept :
          i \in Lists!Live' /\ Lists!Key(i)' = Lists!Key(i) /\ last'[i] = last[i] /\ (writer'.steps # << >> => writer'.id # i)

LEMMA WalkStays == ASSUME WInv, PInv', Shape', StaysSteady, Remains, SameWalk, gen <= gen' PROVE WInv'
<1>1. /\ gen \in Nat /\ writer.ver \in Nat /\ gen <= writer.ver
      /\ (writer.steps \notin {<< >>, <<"clear">>} => writer.ver = gen + 1)
      /\ (writer.steps = << >> => writer.ver = gen)
    BY DEF WInv, PInv, Graph, GenLags, WriterOk
<1>2. /\ reader'.phase = reader.phase /\ reader'.after = reader.after /\ reader'.tag = reader.tag /\ reader'.gen = reader.gen
      /\ reader'.todo = reader.todo /\ reader'.rows = reader.rows /\ client'.tag = client.tag /\ client'.rows = client.rows
      /\ kind' = kind /\ (client'.calm => client.calm)
    BY DEF SameWalk, SameRequest
<1>3. PageGen' = PageGen /\ PageGen \in Nat /\ PageGen <= gen
    BY <1>2 DEF PageGen, WInv, PInv, ReaderOk
<1>4. Undisturbed' => Undisturbed /\ (client.calm \/ kind # "concept" \/ writer.steps \in {<< >>, <<"clear">>})
  <2>. SUFFICES ASSUME Undisturbed', ~client.calm, kind = "concept"
       PROVE  Undisturbed /\ writer.steps \in {<< >>, <<"clear">>}
    BY DEF Undisturbed
  <2>1. reader.after = None /\ writer'.ver = PageGen
    BY <1>2, <1>3 DEF Undisturbed
  <2>2. writer'.ver = writer.ver
    BY <1>1, <1>3, <2>1 DEF SameWalk
  <2>. QED  BY <1>1, <1>3, <2>1, <2>2 DEF Undisturbed
<1>5. Graph' /\ PInv
    BY DEF PInv, WInv
<1>6. ASSUME NEW rs, NEW g \in Nat, g <= gen, KeptPage(rs, g) PROVE KeptPage(rs, g)'
  <2>1. CASE PageWhole(rs, None, g)
    BY <1>5, <1>6, <2>1, WholeStays DEF KeptPage
  <2>2. CASE kind = "concept" /\ writer.ver > g /\ ~Relied(g)
    <3>1. writer'.ver > g
      BY <1>1, <1>6, <2>2 DEF SameWalk
    <3>2. ~Relied(g)'
      <4>1. g = gen' => g = gen
        BY <1>1, <1>6 DEF PInv, Graph, GenLags
      <4>. QED  BY <1>2, <2>2, <4>1 DEF Relied
    <3>. QED  BY <1>2, <2>2, <3>1, <3>2 DEF KeptPage
  <2>. QED  BY <1>6, <2>1, <2>2 DEF KeptPage
<1>7. PagesOk'
  <2>1. cache' # None => KeptPage(cache.rows, cache.gen)'
    <3>. SUFFICES ASSUME cache' # None PROVE KeptPage(cache.rows, cache.gen)'
      OBVIOUS
    <3>0. PICK rs, g : rs = cache.rows /\ g = cache.gen
      OBVIOUS
    <3>1. cache' = cache /\ g \in Nat /\ g <= gen /\ KeptPage(rs, g)
      BY <3>0 DEF SameWalk, WInv, PInv, CacheOk, PagesOk
    <3>2. KeptPage(rs, g)'
      BY <1>6, <3>1
    <3>3. cache'.rows = rs /\ cache'.gen = g
      BY <3>0, <3>1
    <3>. QED  BY <3>2, <3>3 DEF KeptPage, PageWhole, OfAge, Rises, RowKey, Reached, ShownIn, Relied
  <2>2. client'.tag # None => KeptPage(client.rows, client.tag)'
    <3>. SUFFICES ASSUME client'.tag # None PROVE KeptPage(client.rows, client.tag)'
      OBVIOUS
    <3>0. PICK rs, g : rs = client.rows /\ g = client.tag
      OBVIOUS
    <3>1. g \in Nat /\ g <= gen /\ KeptPage(rs, g)
      BY <1>2, <3>0 DEF WInv, PInv, ClientOk, PagesOk
    <3>2. KeptPage(rs, g)'
      BY <1>6, <3>1
    <3>3. client'.rows = rs /\ client'.tag = g
      BY <1>2, <3>0
    <3>. QED  BY <3>2, <3>3 DEF KeptPage, PageWhole, OfAge, Rises, RowKey, Reached, ShownIn, Relied
  <2>. QED  BY <2>1, <2>2 DEF PagesOk
<1>8. BuiltOk'
  <2>. SUFFICES ASSUME Undisturbed'
       PROVE  /\ reader.phase = "page" => Orderly(reader.rows, reader.todo, reader.after, PageGen)'
              /\ reader.phase \in {"store", "answer"} => PageWhole(reader.rows, reader.after, PageGen)'
    BY <1>2 DEF BuiltOk
  <2>0. PICK rs, ks, after, g : rs = reader.rows /\ ks = reader.todo /\ after = reader.after /\ g = PageGen
    OBVIOUS
  <2>1. /\ reader.phase = "page" => Orderly(rs, ks, after, g)
        /\ reader.phase \in {"store", "answer"} => PageWhole(rs, after, g)
    BY <1>4, <2>0 DEF WInv, BuiltOk
  <2>2. \A k \in ks : Steady(k) => Steady(k)'
    <3>1. ks \subseteq Nat \X ListIds
      BY <2>0 DEF WInv, PInv, PageOk
    <3>. QED  BY <1>4, <3>1 DEF StaysSteady
  <2>3. g \in Nat /\ g <= gen
    BY <1>3, <2>0
  <2>4. /\ reader.phase = "page" => Orderly(rs, ks, after, g)'
        /\ reader.phase \in {"store", "answer"} => PageWhole(rs, after, g)'
    BY <1>5, <2>1, <2>2, <2>3, WholeStays
  <2>5. rs = reader'.rows /\ ks = reader'.todo /\ after = reader'.after /\ g = PageGen'
    BY <1>2, <1>3, <2>0
  <2>. QED  BY <2>4, <2>5, BuiltIs
<1>9. KeptOk'
  <2>. SUFFICES ASSUME NEW i \in client'.kept
       PROVE  /\ i \in Lists!Live' /\ (writer'.steps # << >> => writer'.id # i)
              /\ reader'.phase \notin {"idle", "tag"} => last'[i] <= reader'.tag
    BY DEF KeptOk
  <2>1. i \in client.kept /\ i \in Lists!Live' /\ last'[i] = last[i] /\ (writer'.steps # << >> => writer'.id # i)
    BY DEF SameWalk
  <2>. QED  BY <1>2, <2>1 DEF WInv, KeptOk
<1>10. WalkOk'
  <2>1. \A i \in client'.kept : i \in client.kept /\ (Behind(i)' <=> Behind(i))
    BY <1>2 DEF SameWalk, Behind, Point, Lists!Beyond, Lists!Before
  <2>2. client'.next = client.next /\ client'.shown = client.shown
    BY DEF SameWalk
  <2>. QED  BY <1>2, <2>1, <2>2 DEF WInv, WalkOk, Once, Never
<1>. QED  BY <1>7, <1>8, <1>9, <1>10 DEF WInv

LEMMA OwnEntity ==
    ASSUME WInv, NEW s, Lists!At(s), UNCHANGED <<kind, reader, client>>, cache' \in {cache, None},
           \A i \in ListIds : i # writer.id => map'[i] = map[i] /\ last'[i] = last[i]
    PROVE  SameWalk
<1>1. writer'.id = writer.id /\ writer'.ver = writer.ver /\ writer.steps # << >>
    BY SameWrite DEF WInv
<1>2. ASSUME NEW i \in client.kept
      PROVE  i \in Lists!Live' /\ Lists!Key(i)' = Lists!Key(i) /\ last'[i] = last[i] /\ (writer'.steps # << >> => writer'.id # i)
  <2>1. i \in ListIds /\ map[i] # None /\ i # writer.id
    BY <1>1 DEF WInv, KeptOk, Lists!Live
  <2>. QED  BY <1>1, <2>1 DEF Lists!Live, Lists!Key
<1>3. SameRequest
    BY SameIsSame DEF WInv
<1>. QED  BY <1>1, <1>2, <1>3 DEF SameWalk

LEMMA WriterWalks ==
    ASSUME WInv, Lists!Insert \/ Lists!Delete \/ Lists!Index \/ Lists!Unindex \/ Lists!Lock \/ Lists!Swap \/ Lists!Unlock
                 \/ Lists!Bump \/ Lists!Clear
    PROVE  WInv'
<1>1. PInv' /\ Remains
    BY InsertKeeps, DeleteKeeps, IndexKeeps, UnindexKeeps, LockKeeps, SwapKeeps, UnlockKeeps, BumpKeeps, ClearKeeps DEF WInv
<1>2. Shape' /\ StaysSteady
    BY InsertShape, DeleteShape, IndexShape, UnindexShape, LockShape, SwapShape, UnlockShape, BumpShape, ClearShape DEF WInv
<1>3. gen \in Nat /\ map = [i \in ListIds |-> map[i]] /\ last = [i \in ListIds |-> last[i]]
    BY DEF WInv, PInv, Graph, GenLags, Indexed, Acked
<1>4. gen <= gen'
    BY <1>3 DEF Lists!Insert, Lists!Delete, Lists!Index, Lists!Unindex, Lists!Lock, Lists!Swap, Lists!Unlock, Lists!Bump, Lists!Clear
<1>5. UNCHANGED <<kind, reader, client>> /\ cache' \in {cache, None}
    BY DEF Lists!Insert, Lists!Delete, Lists!Index, Lists!Unindex, Lists!Lock, Lists!Swap, Lists!Unlock, Lists!Bump, Lists!Clear
<1>6. \A i \in ListIds : i # writer.id => map'[i] = map[i] /\ last'[i] = last[i]
    BY <1>3 DEF Lists!Insert, Lists!Delete, Lists!Index, Lists!Unindex, Lists!Lock, Lists!Swap, Lists!Unlock, Lists!Bump, Lists!Clear
<1>7. PICK s : Lists!At(s)
    BY DEF Lists!Insert, Lists!Delete, Lists!Index, Lists!Unindex, Lists!Lock, Lists!Swap, Lists!Unlock, Lists!Bump, Lists!Clear
<1>. QED  BY <1>1, <1>2, <1>4, <1>5, <1>6, <1>7, OwnEntity, WalkStays

LEMMA StartWalks == ASSUME WInv, NEW o, NEW i, NEW n, SetsOut(o, i, n) PROVE WInv'
<1>0. Lists!Start(o, i, n) /\ o \in {"create", "upsert", "rename", "update", "remove"} /\ i \in ListIds
    BY DEF SetsOut
<1>1. PInv' /\ Remains
  <2>1. o \in {"create", "upsert", "rename"} => n \in Nat
    BY DEF SetsOut
  <2>2. o = "update" => i \in Lists!Live /\ n = map[i].name
    BY DEF SetsOut
  <2>. QED  BY <1>0, <2>1, <2>2, StartKeeps DEF WInv
<1>2. Shape' /\ StaysSteady
    BY StartShape DEF WInv
<1>3. /\ writer.steps = << >> /\ writer'.id = i /\ writer'.ver = writer.ver + 1
      /\ UNCHANGED <<kind, map, index, gen, cache, last>> /\ gen \in Nat
    BY <1>0 DEF Lists!Start, WInv, PInv, Graph, GenLags
<1>4. PICK c : client' = [client EXCEPT !.kept = @ \ {i}, !.calm = @ /\ c]
    BY <1>0 DEF Lists!Start
<1>5. /\ client'.next = client.next /\ client'.shown = client.shown /\ client'.kept = client.kept \ {i}
      /\ (client'.calm => client.calm) /\ AClient(client') /\ client'.tag = client.tag /\ client'.rows = client.rows
    BY <1>4 DEF WInv, PInv, ClientOk, AClient
<1>6. SameRequest
    BY <1>0, <1>5 DEF Lists!Start, WInv, PInv, ReaderOk, AReader, SameRequest
<1>7. \A j \in client'.kept :
          j \in Lists!Live' /\ Lists!Key(j)' = Lists!Key(j) /\ last'[j] = last[j] /\ (writer'.steps # << >> => writer'.id # j)
    BY <1>3, <1>5 DEF WInv, KeptOk, Lists!Live, Lists!Key
<1>8. SameWalk
    BY <1>3, <1>5, <1>6, <1>7 DEF SameWalk
<1>. QED  BY <1>1, <1>2, <1>3, <1>8, WalkStays

(* A step of the reader.                                                   *)
LEMMA OnlyReads ==
    ASSUME PInv, UNCHANGED <<kind, map, index, gen, writer, last>>
    PROVE  /\ \A rs, after, g : PageWhole(rs, after, g)' <=> PageWhole(rs, after, g)
           /\ \A rs, ks, after, g : Orderly(rs, ks, after, g)' <=> Orderly(rs, ks, after, g)
           /\ Shape /\ (client'.calm => client.calm \/ kind # "concept" \/ writer.steps = << >>) => Shape'
<1>1. /\ \A g : Solid(g)' = Solid(g)
      /\ \A i : Lists!Key(i)' = Lists!Key(i)
      /\ \A i : Busy(i)' <=> Busy(i)
      /\ Lists!Live' = Lists!Live
    BY GraphStays
<1>2. \A k : Steady(k)' <=> Steady(k)
    BY DEF Steady
<1>3. \A rs, after, g : OfAge(rs, after, g)' <=> OfAge(rs, after, g)
    BY <1>1 DEF OfAge, Rises, RowKey, Lists!Beyond, Lists!Before
<1>4. \A rs, after, i : Reached(rs, after, i)' <=> Reached(rs, after, i)
    BY <1>1 DEF Reached, RowKey, Lists!Beyond, Lists!Before
<1>5. \A rs, after, g : PageWhole(rs, after, g)' <=> PageWhole(rs, after, g)
    BY <1>1, <1>3, <1>4 DEF PageWhole, ShownIn
<1>6. \A rs, ks, after, g : Orderly(rs, ks, after, g)' <=> Orderly(rs, ks, after, g)
    BY <1>1, <1>2, <1>3 DEF Orderly, RowKey, Lists!Beyond, Lists!Before, ShownIn
<1>7. Shape /\ (client'.calm => client.calm \/ kind # "concept" \/ writer.steps = << >>) => Shape'
    BY <1>1 DEF Shape, Called, Straight, AtWork, CalmOk
<1>. QED  BY <1>5, <1>6, <1>7

(* The pages that are kept: no more is relied on than was.                 *)
NoMoreRelied == \A g \in Nat : g < writer.ver /\ kind = "concept" /\ Relied(g)' => Relied(g)

LEMMA PagesKept ==
    ASSUME WInv, UNCHANGED <<kind, map, index, gen, writer, last>>, NoMoreRelied
    PROVE  /\ \A rs : \A g \in Nat : KeptPage(rs, g) => KeptPage(rs, g)'
           /\ client'.tag = client.tag /\ client'.rows = client.rows /\ client.tag # None => KeptPage(client.rows, client.tag)'
           /\ cache' = cache /\ cache # None => KeptPage(cache.rows, cache.gen)'
           /\ client'.tag = client.tag /\ client'.rows = client.rows /\ cache' = cache => PagesOk'
<1>1. \A rs : \A g \in Nat : KeptPage(rs, g) => KeptPage(rs, g)'
    BY OnlyReads DEF WInv, KeptPage, NoMoreRelied
<1>2. client'.tag = client.tag /\ client'.rows = client.rows /\ client.tag # None => KeptPage(client.rows, client.tag)'
  <2>. SUFFICES ASSUME client'.tag = client.tag, client'.rows = client.rows, client.tag # None PROVE KeptPage(client.rows, client.tag)'
    OBVIOUS
  <2>0. PICK rs, g : rs = client.rows /\ g = client.tag
    OBVIOUS
  <2>1. g \in Nat /\ KeptPage(rs, g)
    BY <2>0 DEF WInv, PInv, ClientOk, PagesOk
  <2>2. KeptPage(rs, g)'
    BY <1>1, <2>1
  <2>3. client'.rows = rs /\ client'.tag = g
    BY <2>0
  <2>. QED  BY <2>2, <2>3 DEF KeptPage, PageWhole, OfAge, Rises, RowKey, Reached, ShownIn, Relied, Solid, Busy, LastCounted, Lists!Live
<1>3. cache' = cache /\ cache # None => KeptPage(cache.rows, cache.gen)'
  <2>. SUFFICES ASSUME cache' = cache, cache # None PROVE KeptPage(cache.rows, cache.gen)'
    OBVIOUS
  <2>0. PICK rs, g : rs = cache.rows /\ g = cache.gen
    OBVIOUS
  <2>1. g \in Nat /\ KeptPage(rs, g)
    BY <2>0 DEF WInv, PInv, CacheOk, PagesOk
  <2>2. KeptPage(rs, g)'
    BY <1>1, <2>1
  <2>3. cache'.rows = rs /\ cache'.gen = g
    BY <2>0
  <2>. QED  BY <2>2, <2>3 DEF KeptPage, PageWhole, OfAge, Rises, RowKey, Reached, ShownIn, Relied, Solid, Busy, LastCounted, Lists!Live
<1>. QED  BY <1>1, <1>2, <1>3 DEF PagesOk

(* A step of a request under way.                                          *)
LEMMA RequestWalks ==
    ASSUME WInv, UNCHANGED <<kind, map, index, gen, writer, last, client>>,
           reader.phase # "idle", reader'.phase \notin {"idle", "tag"}, reader'.after = reader.after,
           reader'.tag = IF reader.phase = "tag" THEN gen ELSE reader.tag, NoMoreRelied
    PROVE  Shape' /\ (cache' = cache => PagesOk') /\ KeptOk' /\ WalkOk'
<1>1. Shape' /\ (cache' = cache => PagesOk') /\ Lists!Live' = Lists!Live
    BY OnlyReads, PagesKept, GraphStays DEF WInv
<1>2. KeptOk'
  <2>. SUFFICES ASSUME NEW i \in client.kept PROVE last[i] <= reader'.tag
    BY <1>1 DEF WInv, KeptOk
  <2>1. i \in ListIds
    BY DEF WInv, KeptOk, Lists!Live
  <2>2. last[i] <= gen
    BY <2>1 DEF WInv, PInv, Graph, GenLags, Acked
  <2>. QED  BY <2>2 DEF WInv, KeptOk
<1>3. WalkOk'
  <2>1. \A i : Behind(i)' <=> Behind(i)
    BY GraphStays DEF WInv, Behind, Point, Lists!Beyond, Lists!Before
  <2>. QED  BY <2>1 DEF WInv, WalkOk
<1>. QED  BY <1>1, <1>2, <1>3

LEMMA AskFirstWalks == ASSUME WInv, Lists!AskFirst PROVE WInv'
<1>1. /\ client' = [client EXCEPT !.next = None, !.shown = << >>, !.kept = Lists!Untouched,
                                  !.calm = writer.steps = << >> \/ kind # "concept"]
      /\ reader' = [phase |-> "tag", after |-> None, tag |-> 0, gen |-> 0, held |-> FALSE, todo |-> {}, rows |-> << >>,
                    since |-> last, kept |-> Lists!Untouched]
      /\ UNCHANGED <<kind, map, index, gen, cache, writer, last>>
    BY DEF Lists!AskFirst, Lists!Ask, Lists!Waiting
<1>2. /\ reader'.phase = "tag" /\ reader'.after = None /\ cache' = cache
      /\ client'.next = None /\ client'.shown = << >> /\ client'.kept = Lists!Untouched
      /\ (client'.calm => writer.steps = << >> \/ kind # "concept")
      /\ client'.tag = client.tag /\ client'.rows = client.rows
    BY <1>1 DEF WInv, PInv, ClientOk, AClient
<1>3. PInv' /\ Shape'
    BY <1>1, <1>2, AskFirstKeeps, OnlyReads DEF WInv
<1>4. NoMoreRelied
    BY <1>1, <1>2 DEF NoMoreRelied, Relied, WInv, PInv, Graph, GenLags
<1>5. PagesOk'
    BY <1>1, <1>2, <1>4, PagesKept
<1>6. BuiltOk'
    BY <1>2 DEF BuiltOk
<1>7. Lists!Live' = Lists!Live /\ KeptOk'
    BY <1>1, <1>2 DEF KeptOk, Lists!Untouched, Lists!Live
<1>8. WalkOk'
    BY <1>2 DEF WalkOk, Behind, Point, Lists!Beyond, Never
<1>. QED  BY <1>3, <1>5, <1>6, <1>7, <1>8 DEF WInv

LEMMA AskNextWalks == ASSUME WInv, Lists!AskNext PROVE WInv'
<1>1. /\ client.next # None /\ client' = client /\ reader.phase = "idle"
      /\ reader' = [phase |-> "tag", after |-> client.next, tag |-> 0, gen |-> 0, held |-> FALSE, todo |-> {}, rows |-> << >>,
                    since |-> last, kept |-> Lists!Untouched]
      /\ UNCHANGED <<kind, map, index, gen, cache, writer, last>>
    BY DEF Lists!AskNext, Lists!Ask, Lists!Waiting
<1>2. reader'.phase = "tag" /\ reader'.after = client.next
    BY <1>1
<1>3. PInv' /\ Shape'
    BY <1>1, AskNextKeeps, OnlyReads DEF WInv
<1>4. NoMoreRelied
    BY <1>1, <1>2 DEF NoMoreRelied, Relied
<1>5. PagesOk'
    BY <1>1, <1>4, PagesKept
<1>6. BuiltOk'
    BY <1>2 DEF BuiltOk
<1>7. KeptOk'
    BY <1>1, <1>2 DEF WInv, KeptOk, Lists!Live
<1>8. WalkOk'
  <2>1. \A i : Lists!Key(i)' = Lists!Key(i)
    BY <1>1 DEF Lists!Key
  <2>2. \A i : Behind(i)' <=> Behind(i)
    BY <1>1, <1>2, <2>1 DEF Behind, Point, Lists!Beyond, Lists!Before
  <2>. QED  BY <1>1, <1>2, <2>2 DEF WInv, WalkOk
<1>. QED  BY <1>3, <1>5, <1>6, <1>7, <1>8 DEF WInv

(* A page is as good for an earlier generation.                            *)
LEMMA EarlierWhole ==
    ASSUME Acked, NEW rs, NEW after, NEW g \in Nat, NEW h \in Nat, h <= g, PageWhole(rs, after, g)
    PROVE  PageWhole(rs, after, h)
<1>1. Solid(h) \subseteq Solid(g)
    BY DEF Solid, Acked, Lists!Live
<1>. QED  BY <1>1 DEF PageWhole, OfAge

(* A kept page that is undisturbed still is what it was.                   *)
LEMMA UndisturbedIsWhole ==
    ASSUME NEW rs, NEW g \in Nat, KeptPage(rs, g), writer.ver \in Nat, NEW h \in Nat, h <= g,
           client.calm => Relied(g), client.calm \/ kind # "concept" \/ writer.ver = h
    PROVE  PageWhole(rs, None, g)
BY DEF KeptPage

LEMMA TagWalks == ASSUME WInv, Lists!Tag PROVE WInv'
<1>1. Lists!Goes("tag") /\ UNCHANGED <<cache, client>> /\ UNCHANGED <<kind, map, index, gen, writer, last>> /\ reader.phase = "tag"
    BY DEF Lists!Tag, Lists!Goes
<1>2. gen \in Nat /\ writer.ver \in Nat
    BY DEF WInv, PInv, Graph, GenLags, WriterOk
<1>3. CASE reader.after = None /\ client.tag = gen
  <2>1. reader' = [reader EXCEPT !.tag = gen, !.phase = "answer", !.rows = client.rows, !.held = FALSE]
    BY <1>3 DEF Lists!Tag, Lists!Answered
  <2>2. reader'.phase = "answer" /\ reader'.tag = gen /\ reader'.rows = client.rows /\ reader'.after = None /\ reader'.todo = reader.todo
    BY <1>3, <2>1 DEF WInv, PInv, ReaderOk, AReader
  <2>3. NoMoreRelied
    BY <2>2 DEF NoMoreRelied, Relied
  <2>4. Shape' /\ PagesOk' /\ KeptOk' /\ WalkOk'
    BY <1>1, <1>3, <2>2, <2>3, RequestWalks
  <2>5. BuiltOk'
    <3>0. PICK rs, ks, g : rs = client.rows /\ ks = reader.todo /\ g = gen
      OBVIOUS
    <3>1. PageGen' = g /\ reader'.rows = rs /\ reader'.todo = ks
      BY <2>2, <3>0 DEF PageGen
    <3>. SUFFICES ASSUME Undisturbed' PROVE PageWhole(reader.rows, reader.after, PageGen)'
      BY <2>2 DEF BuiltOk
    <3>2. client.calm \/ kind # "concept" \/ writer.ver = g
      BY <1>1, <3>1 DEF Undisturbed
    <3>3. KeptPage(rs, g)
      BY <1>2, <1>3, <3>0, NoneAssumption DEF WInv, PagesOk
    <3>4. client.calm => Relied(g)
      BY <1>1, <1>3, <3>0 DEF Relied
    <3>5. PageWhole(rs, None, g)
      BY <1>2, <3>0, <3>2, <3>3, <3>4, UndisturbedIsWhole
    <3>6. PageWhole(rs, None, g)'
      BY <1>1, <3>5, OnlyReads DEF WInv
    <3>. QED  BY <2>2, <3>1, <3>6, BuiltIs
  <2>. QED  BY <2>4, <2>5, TagKeeps DEF WInv
<1>4. CASE ~(reader.after = None /\ client.tag = gen)
  <2>1. reader' = [reader EXCEPT !.tag = gen, !.phase = reader'.phase] /\ reader'.phase \in {"gen", "walk"}
    BY <1>1, <1>4 DEF Lists!Tag, WInv, PInv, ReaderOk, AReader
  <2>2. reader'.tag = gen /\ reader'.after = reader.after
    BY <2>1 DEF WInv, PInv, ReaderOk, AReader
  <2>3. NoMoreRelied
    BY <1>1, <2>1, <2>2 DEF NoMoreRelied, Relied
  <2>4. Shape' /\ PagesOk' /\ KeptOk' /\ WalkOk'
    BY <1>1, <2>1, <2>2, <2>3, RequestWalks
  <2>5. BuiltOk'
    BY <2>1 DEF BuiltOk
  <2>. QED  BY <2>4, <2>5, TagKeeps DEF WInv
<1>. QED  BY <1>3, <1>4

LEMMA LoadGenWalks == ASSUME WInv, Lists!LoadGen PROVE WInv'
<1>1. /\ UNCHANGED <<cache, client>> /\ UNCHANGED <<kind, map, index, gen, writer, last>> /\ reader.phase = "gen"
      /\ reader' = [reader EXCEPT !.gen = gen, !.phase = "lookup"]
    BY DEF Lists!LoadGen, Lists!Goes
<1>2. reader'.phase = "lookup" /\ reader'.tag = reader.tag /\ reader'.after = reader.after /\ reader'.gen = gen
    BY <1>1 DEF WInv, PInv, ReaderOk, AReader
<1>3. NoMoreRelied
    BY <1>1, <1>2 DEF NoMoreRelied, Relied
<1>4. Shape' /\ PagesOk' /\ KeptOk' /\ WalkOk'
    BY <1>1, <1>2, <1>3, RequestWalks
<1>5. BuiltOk'
    BY <1>2 DEF BuiltOk
<1>. QED  BY <1>4, <1>5, LoadGenKeeps DEF WInv

LEMMA LookupWalks == ASSUME WInv, Lists!Lookup PROVE WInv'
<1>1. UNCHANGED <<cache, client>> /\ UNCHANGED <<kind, map, index, gen, writer, last>> /\ reader.phase = "lookup"
    BY DEF Lists!Lookup, Lists!Goes
<1>2. /\ reader.after = None /\ reader.tag <= reader.gen /\ reader.tag \in Nat /\ reader.gen \in Nat /\ writer.ver \in Nat
    BY <1>1 DEF WInv, PInv, Graph, WriterOk, ReaderOk
<1>3. CASE Lists!Hit
  <2>1. reader' = [reader EXCEPT !.phase = "answer", !.rows = cache.rows, !.held = FALSE]
    BY <1>3 DEF Lists!Lookup, Lists!Answered
  <2>2. reader'.phase = "answer" /\ reader'.tag = reader.tag /\ reader'.rows = cache.rows /\ reader'.after = None /\ reader'.todo = reader.todo
    BY <1>2, <2>1 DEF WInv, PInv, ReaderOk, AReader
  <2>3. NoMoreRelied
    BY <2>2 DEF NoMoreRelied, Relied
  <2>4. Shape' /\ PagesOk' /\ KeptOk' /\ WalkOk'
    BY <1>1, <1>2, <2>2, <2>3, RequestWalks
  <2>5. BuiltOk'
    <3>0. PICK rs, ks, g, h : rs = cache.rows /\ ks = reader.todo /\ g = reader.gen /\ h = reader.tag
      OBVIOUS
    <3>1. PageGen' = h /\ reader'.rows = rs /\ reader'.todo = ks
      BY <2>2, <3>0 DEF PageGen
    <3>. SUFFICES ASSUME Undisturbed' PROVE PageWhole(reader.rows, reader.after, PageGen)'
      BY <2>2 DEF BuiltOk
    <3>2. client.calm \/ kind # "concept" \/ writer.ver = h
      BY <1>1, <3>1 DEF Undisturbed
    <3>3. KeptPage(rs, g) /\ g \in Nat /\ h \in Nat /\ h <= g
      BY <1>2, <1>3, <3>0 DEF WInv, PagesOk, Lists!Hit
    <3>4. client.calm => Relied(g)
      BY <1>1, <1>2, <3>0 DEF Relied
    <3>5. PageWhole(rs, None, g)
      BY <1>2, <3>2, <3>3, <3>4, UndisturbedIsWhole
    <3>6. PageWhole(rs, None, h)
      BY <3>3, <3>5, EarlierWhole DEF WInv, PInv, Graph
    <3>7. PageWhole(rs, None, h)'
      BY <1>1, <3>6, OnlyReads DEF WInv
    <3>. QED  BY <2>2, <3>1, <3>7, BuiltIs
  <2>. QED  BY <2>4, <2>5, LookupKeeps DEF WInv
<1>4. CASE ~Lists!Hit
  <2>1. reader' = [reader EXCEPT !.phase = "walk"]
    BY <1>4 DEF Lists!Lookup
  <2>2. reader'.tag = reader.tag /\ reader'.after = reader.after /\ reader'.phase = "walk"
    BY <2>1 DEF WInv, PInv, ReaderOk, AReader
  <2>3. NoMoreRelied
    BY <2>2 DEF NoMoreRelied, Relied
  <2>4. Shape' /\ PagesOk' /\ KeptOk' /\ WalkOk'
    BY <1>1, <2>2, <2>3, RequestWalks
  <2>5. BuiltOk'
    BY <2>2 DEF BuiltOk
  <2>. QED  BY <2>4, <2>5, LookupKeeps DEF WInv
<1>. QED  BY <1>3, <1>4

LEMMA BeforeOrders ==
    ASSUME NEW k \in Nat \X Nat, NEW l \in Nat \X Nat, NEW m \in Nat \X Nat
    PROVE  /\ ~Lists!Before(k, k)
           /\ Lists!Before(k, l) => ~Lists!Before(l, k)
           /\ Lists!Before(k, l) /\ Lists!Before(l, m) => Lists!Before(k, m)
BY DEF Lists!Before

(* No key of the index is about to change its name, as long as no id does. *)
LEMMA IndexSteady ==
    ASSUME PInv, Shape, client.calm \/ kind # "concept" \/ writer.ver <= gen, NEW k \in index
    PROVE  Steady(k)
<1>1. k[1] \in Nat /\ k[2] \in ListIds /\ k[1] # None
  <2>1. k \in Nat \X ListIds
    BY DEF PInv, Graph, Indexed
  <2>. QED  BY <2>1, NoneAssumption
<1>2. CASE ~Busy(k[2])
    BY <1>2 DEF Shape, Straight, Steady
<1>3. CASE Busy(k[2]) /\ kind # "concept"
  <2>1. k[1] = 0 /\ (map[k[2]] # None => map[k[2]].name = 0)
    BY <1>1, <1>3 DEF Shape, Called, Lists!Live
  <2>. QED  BY <1>3, <2>1 DEF Steady
<1>4. CASE Busy(k[2]) /\ kind = "concept"
  <2>1. writer.id = k[2] /\ writer.steps # << >> /\ writer.steps # <<"clear">>
    BY <1>4 DEF Busy
  <2>2. client.calm
    BY <1>4, <2>1 DEF PInv, Graph, GenLags
  <2>3. writer.name \in {None, writer.old} \/ writer.old = None
    BY <1>4, <2>1, <2>2 DEF Shape, CalmOk
  <2>4. k[1] \in {writer.old, writer.name}
    BY <1>4 DEF Shape, Straight
  <2>5. CASE map[k[2]] # None
    <3>1. map[k[2]].name \in {writer.old, writer.name} /\ map[k[2]].name # None
      BY <1>1, <2>1, <2>5, NoneAssumption DEF Shape, AtWork, Called, Lists!Live
    <3>. QED  BY <1>1, <2>3, <2>4, <2>5, <3>1 DEF Steady
  <2>6. CASE map[k[2]] = None
    <3>1. writer.name = None \/ writer.steps \in Making
      BY <2>1, <2>6 DEF Shape, AtWork
    <3>2. writer.steps \notin Making
      BY <1>4, <2>1 DEF Shape, AtWork, Making
    <3>. QED  BY <1>4, <2>1, <2>6, <3>1, <3>2 DEF Steady
  <2>. QED  BY <2>5, <2>6
<1>. QED  BY <1>2, <1>3, <1>4

LEMMA EnterWalks == ASSUME WInv, Lists!Enter PROVE WInv'
<1>1. UNCHANGED <<cache, client>> /\ UNCHANGED <<kind, map, index, gen, writer, last>> /\ reader.phase = "walk"
    BY DEF Lists!Enter, Lists!Goes
<1>2. PICK held : reader' = [reader EXCEPT !.phase = "page", !.held = held, !.todo = {k \in index : Lists!Beyond(k, reader.after)}]
    BY DEF Lists!Enter
<1>3. /\ reader'.phase = "page" /\ reader'.tag = reader.tag /\ reader'.rows = << >> /\ reader'.gen = reader.gen
      /\ reader'.after = reader.after /\ reader'.todo = {k \in index : Lists!Beyond(k, reader.after)}
      /\ reader.tag <= gen /\ reader.gen <= gen
    BY <1>1, <1>2 DEF WInv, PInv, ReaderOk, AReader
<1>4. NoMoreRelied
    BY <1>3 DEF NoMoreRelied, Relied
<1>5. Shape' /\ PagesOk' /\ KeptOk' /\ WalkOk'
    BY <1>1, <1>3, <1>4, RequestWalks
<1>6. BuiltOk'
  <2>. SUFFICES ASSUME Undisturbed' PROVE Orderly(reader.rows, reader.todo, reader.after, PageGen)'
    BY <1>3 DEF BuiltOk
  <2>0. PICK ks, after, g : ks = {k \in index : Lists!Beyond(k, reader.after)} /\ after = reader.after /\ g = PageGen'
    OBVIOUS
  <2>1. g <= gen
    BY <1>3, <2>0 DEF PageGen
  <2>2. client.calm \/ kind # "concept" \/ writer.ver <= gen
    BY <1>1, <2>0, <2>1 DEF Undisturbed
  <2>3. OfAge(<< >>, after, g)
    BY DEF OfAge, Rises
  <2>4. \A k \in ks : Steady(k) /\ Lists!Beyond(k, after)
    BY <2>0, <2>2, IndexSteady DEF WInv
  <2>5. \A i \in Solid(g) : Lists!Key(i) \in index
    BY DEF Solid, WInv, PInv, Graph, Indexed
  <2>6. Orderly(<< >>, ks, after, g)
    BY <2>0, <2>3, <2>4, <2>5 DEF Orderly, ShownIn
  <2>7. Orderly(<< >>, ks, after, g)'
    BY <1>1, <2>6, OnlyReads DEF WInv
  <2>. QED  BY <1>3, <2>0, <2>7, BuiltIs
<1>. QED  BY <1>5, <1>6, EnterKeeps DEF WInv

LEMMA LeaveWalks == ASSUME WInv, Limit \in Nat \ {0}, Lists!Leave PROVE WInv'
<1>1. /\ UNCHANGED <<cache, client>> /\ UNCHANGED <<kind, map, index, gen, writer, last>> /\ reader.phase = "page"
      /\ (reader.todo = {} \/ Len(reader.rows) = Limit)
      /\ reader' = [reader EXCEPT !.phase = IF reader.after = None THEN "store" ELSE "answer", !.held = FALSE]
    BY DEF Lists!Leave, Lists!Goes, WInv, PInv, ReaderOk, AReader
<1>2. /\ reader'.phase = (IF reader.after = None THEN "store" ELSE "answer")
      /\ reader'.tag = reader.tag /\ reader'.todo = reader.todo /\ reader'.gen = reader.gen /\ reader'.after = reader.after
      /\ reader'.rows = reader.rows
    BY <1>1 DEF WInv, PInv, ReaderOk, AReader
<1>3. NoMoreRelied
    BY <1>2 DEF NoMoreRelied, Relied
<1>4. Shape' /\ PagesOk' /\ KeptOk' /\ WalkOk'
    BY <1>1, <1>2, <1>3, RequestWalks
<1>5. BuiltOk'
  <2>. SUFFICES ASSUME Undisturbed' PROVE PageWhole(reader.rows, reader.after, PageGen)'
    BY <1>2 DEF BuiltOk
  <2>0. PICK rs, ks, after, g : rs = reader.rows /\ ks = reader.todo /\ after = reader.after /\ g = PageGen
    OBVIOUS
  <2>1. PageGen' = g
    BY <1>1, <1>2, <2>0 DEF PageGen
  <2>2. Orderly(rs, ks, after, g)
    BY <1>1, <1>2, <2>0, <2>1 DEF Undisturbed, WInv, BuiltOk
  <2>3. FreshRows(rs, g) /\ (ks = {} \/ Len(rs) = Limit)
    BY <1>1, <2>0 DEF WInv, PInv, PageOk
  <2>4. Len(rs) \in Nat /\ DOMAIN rs = 1 .. Len(rs) /\ \A j \in DOMAIN rs : RowKey(rs[j]) \in Nat \X Nat
    <3>1. Len(rs) \in Nat /\ DOMAIN rs = 1 .. Len(rs)
      BY <2>3 DEF FreshRows, APage
    <3>2. \A j \in DOMAIN rs : rs[j].id \in Nat /\ rs[j].name \in Nat
      BY <2>2, <2>3, ListsAssumption DEF FreshRows, Orderly, OfAge
    <3>. QED  BY <3>1, <3>2 DEF RowKey
  <2>5. ASSUME NEW i \in Solid(g) PROVE i \in ShownIn(rs) <=> Reached(rs, after, i)
    <3>0. PICK key : key = Lists!Key(i)
      OBVIOUS
    <3>1. key \in Nat \X Nat /\ key = <<map[i].name, i>> /\ i \in ListIds
      BY <3>0, ListsAssumption DEF WInv, Shape, Called, Lists!Key, Solid, Lists!Live
    <3>2. (i \in ShownIn(rs) \/ key \in ks) <=> Lists!Beyond(key, after)
      BY <2>2, <3>0 DEF Orderly
    <3>3. ASSUME i \in ShownIn(rs) PROVE Reached(rs, after, i)
      <4>1. PICK j \in DOMAIN rs : rs[j].id = i
        BY <3>3 DEF ShownIn
      <4>2. RowKey(rs[j]) = key
        BY <2>2, <3>1, <4>1 DEF Orderly, OfAge, RowKey
      <4>3. j \in 1 .. Len(rs) /\ Len(rs) \in DOMAIN rs
        BY <2>4, <4>1
      <4>4. j = Len(rs) \/ Lists!Before(RowKey(rs[j]), RowKey(rs[Len(rs)]))
        BY <2>2, <2>4, <4>3 DEF Orderly, OfAge, Rises
      <4>5. ~Lists!Before(RowKey(rs[Len(rs)]), key)
        BY <2>4, <3>1, <4>2, <4>3, <4>4, BeforeOrders
      <4>. QED  BY <3>0, <3>2, <3>3, <4>5 DEF Reached
    <3>4. ASSUME Reached(rs, after, i) PROVE i \in ShownIn(rs)
      <4>1. Lists!Beyond(key, after) /\ (Len(rs) < Limit \/ ~Lists!Before(RowKey(rs[Len(rs)]), key))
        BY <3>0, <3>4 DEF Reached
      <4>2. CASE ks = {}
        BY <3>2, <4>1, <4>2
      <4>3. CASE Len(rs) = Limit
        <5>1. Len(rs) \in DOMAIN rs
          BY <2>4, <4>3
        <5>2. key \notin ks
          BY <2>2, <4>1, <4>3, <5>1 DEF Orderly
        <5>. QED  BY <3>2, <4>1, <5>2
      <4>. QED  BY <2>3, <4>2, <4>3
    <3>. QED  BY <3>3, <3>4
  <2>6. PageWhole(rs, after, g)
    BY <2>2, <2>5 DEF PageWhole, Orderly
  <2>7. PageWhole(rs, after, g)'
    BY <1>1, <2>6, OnlyReads DEF WInv
  <2>. QED  BY <1>2, <2>0, <2>1, <2>7, BuiltIs
<1>. QED  BY <1>4, <1>5, LeaveKeeps DEF WInv

LEMMA StoreWalks == ASSUME WInv, Lists!Store PROVE WInv'
<1>1. /\ UNCHANGED client /\ UNCHANGED <<kind, map, index, gen, writer, last>> /\ reader.phase = "store"
      /\ cache' = [gen |-> reader.gen, rows |-> reader.rows] /\ reader' = [reader EXCEPT !.phase = "answer"]
    BY DEF Lists!Store, Lists!Goes
<1>2. /\ reader'.phase = "answer" /\ reader'.tag = reader.tag /\ reader'.todo = reader.todo /\ reader'.gen = reader.gen
      /\ reader'.after = reader.after /\ reader'.rows = reader.rows /\ reader.after = None /\ reader.tag <= reader.gen
      /\ reader.gen \in Nat /\ reader.tag \in Nat /\ reader.gen <= gen
    BY <1>1 DEF WInv, PInv, ReaderOk, AReader
<1>3. gen \in Nat /\ writer.ver \in Nat /\ gen <= writer.ver
    BY DEF WInv, PInv, Graph, GenLags, WriterOk
<1>4. NoMoreRelied
    BY <1>2 DEF NoMoreRelied, Relied
<1>5. Shape' /\ KeptOk' /\ WalkOk'
    BY <1>1, <1>2, <1>4, RequestWalks
<1>6. PICK rs, ks, g, h : rs = reader.rows /\ ks = reader.todo /\ g = reader.gen /\ h = reader.tag
    OBVIOUS
<1>7. PageGen = g /\ PageGen' = h
    BY <1>1, <1>2, <1>6 DEF PageGen
<1>8. Undisturbed => PageWhole(rs, None, g)
    BY <1>1, <1>2, <1>6, <1>7 DEF WInv, BuiltOk
<1>9. BuiltOk'
  <2>. SUFFICES ASSUME Undisturbed' PROVE PageWhole(reader.rows, reader.after, PageGen)'
    BY <1>2 DEF BuiltOk
  <2>1. Undisturbed
    BY <1>1, <1>2, <1>3, <1>6, <1>7 DEF Undisturbed
  <2>2. PageWhole(rs, None, h)
    BY <1>2, <1>6, <1>8, <2>1, EarlierWhole DEF WInv, PInv, Graph
  <2>3. PageWhole(rs, None, h)'
    BY <1>1, <2>2, OnlyReads DEF WInv
  <2>. QED  BY <1>2, <1>6, <1>7, <2>3, BuiltIs
<1>10. PagesOk'
  <2>1. client.tag # None => KeptPage(client.rows, client.tag)'
    BY <1>1, <1>4, PagesKept
  <2>2. KeptPage(rs, g)
    BY <1>1, <1>2, <1>3, <1>6, <1>7, <1>8 DEF KeptPage, Undisturbed, Relied
  <2>3. KeptPage(rs, g)'
    BY <1>1, <1>2, <1>4, <1>6, <2>2, PagesKept
  <2>4. cache'.rows = rs /\ cache'.gen = g
    BY <1>1, <1>6
  <2>5. KeptPage(cache.rows, cache.gen)'
    BY <2>3, <2>4 DEF KeptPage, PageWhole, OfAge, Rises, RowKey, Reached, ShownIn, Relied, Solid, Busy, LastCounted, Lists!Live
  <2>. QED  BY <1>1, <2>1, <2>5 DEF PagesOk
<1>. QED  BY <1>5, <1>9, <1>10, StoreKeeps DEF WInv

(* One more row: the entity of the least key to come.                      *)
LEMMA RowWalks ==
    ASSUME PInv, NEW old, NEW was \in SUBSET (Nat \X ListIds), NEW after, NEW g, Orderly(old, was, after, g), APage(old),
           NEW k \in was, \A l \in was \ {k} : Lists!Before(k, l)
    PROVE  Orderly(old \o Lists!Row(k[2]), was \ {k}, after, g)
<1>0. PICK i, rs : i = k[2] /\ rs = old \o Lists!Row(i)
    OBVIOUS
<1>1. k = <<k[1], i>> /\ k[1] \in Nat /\ i \in ListIds
    BY <1>0
<1>2. Len(old) \in Nat /\ DOMAIN old = 1 .. Len(old) /\ old \in Seq({old[j] : j \in 1 .. Len(old)})
    BY DEF APage
<1>3. OfAge(old, after, g) /\ \A l \in was : Steady(l) /\ Lists!Beyond(l, after) /\ \A j \in DOMAIN old : Lists!Before(RowKey(old[j]), l)
    BY DEF Orderly
<1>4. \A e \in Solid(g) : (e \in ShownIn(old) \/ Lists!Key(e) \in was) <=> Lists!Beyond(Lists!Key(e), after)
    BY DEF Orderly
<1>5. \A e : Lists!Key(e) = k => e = i
    BY <1>1 DEF Lists!Key
<1>6. CASE map[i] = None
  <2>1. rs = old \o << >>
    BY <1>0, <1>6 DEF Lists!Row
  <2>2. rs = old
    BY <1>2, <2>1
  <2>3. \A e \in Solid(g) : Lists!Key(e) # k
    BY <1>5, <1>6 DEF Solid, Lists!Live
  <2>4. \A e \in Solid(g) : (e \in ShownIn(rs) \/ Lists!Key(e) \in was \ {k}) <=> Lists!Beyond(Lists!Key(e), after)
    BY <1>4, <2>2, <2>3
  <2>. QED  BY <1>0, <1>3, <2>2, <2>4 DEF Orderly
<1>7. CASE map[i] # None
  <2>0. PICK r : r = [id |-> i, name |-> map[i].name, ver |-> map[i].ver]
    OBVIOUS
  <2>1. rs = old \o <<r>> /\ r.id = i /\ r.name = map[i].name
    BY <1>0, <1>7, <2>0 DEF Lists!Row
  <2>2. Len(rs) = Len(old) + 1 /\ (\A j \in 1 .. Len(old) : rs[j] = old[j]) /\ rs[Len(old) + 1] = r /\ APage(rs)
    BY <2>1, RowAdded
  <2>3. DOMAIN rs = 1 .. Len(old) + 1
    BY <2>2 DEF APage
  <2>4. \A j \in DOMAIN rs : (j \in DOMAIN old /\ rs[j] = old[j]) \/ (j = Len(old) + 1 /\ rs[j] = r)
    BY <1>2, <2>2, <2>3
  <2>5. map[i].name = k[1] /\ RowKey(r) = k
    BY <1>0, <1>1, <1>3, <1>7, <2>1 DEF Steady, RowKey
  <2>6. Rises(rs)
    <3>. SUFFICES ASSUME NEW j \in DOMAIN rs, NEW l \in DOMAIN rs, j < l PROVE Lists!Before(RowKey(rs[j]), RowKey(rs[l]))
      BY DEF Rises
    <3>1. j \in DOMAIN old /\ rs[j] = old[j]
      BY <1>2, <2>2, <2>3
    <3>2. CASE l \in DOMAIN old /\ rs[l] = old[l]
      BY <1>3, <3>1, <3>2 DEF OfAge, Rises
    <3>3. CASE rs[l] = r
      BY <1>3, <2>5, <3>1, <3>3
    <3>. QED  BY <2>4, <3>2, <3>3
  <2>7. OfAge(rs, after, g)
    <3>. SUFFICES ASSUME NEW j \in DOMAIN rs
         PROVE  /\ rs[j].name \in Nat /\ Lists!Beyond(RowKey(rs[j]), after)
                /\ rs[j].id \in Solid(g) => rs[j].name = map[rs[j].id].name
      BY <2>6 DEF OfAge
    <3>1. CASE j \in DOMAIN old /\ rs[j] = old[j]
      BY <1>3, <3>1 DEF OfAge
    <3>2. CASE rs[j] = r
      BY <1>1, <1>3, <2>1, <2>5, <3>2
    <3>. QED  BY <2>4, <3>1, <3>2
  <2>8. ASSUME NEW l \in was \ {k}, NEW j \in DOMAIN rs PROVE Lists!Before(RowKey(rs[j]), l)
    BY <1>3, <2>4, <2>5
  <2>9. \A e : e \in ShownIn(rs) <=> e \in ShownIn(old) \/ e = i
    <3>1. \A j \in DOMAIN old : j \in DOMAIN rs /\ rs[j] = old[j]
      BY <1>2, <2>2, <2>3
    <3>2. Len(old) + 1 \in DOMAIN rs /\ rs[Len(old) + 1].id = i
      BY <1>2, <2>1, <2>2, <2>3
    <3>. QED  BY <2>1, <2>4, <3>1, <3>2 DEF ShownIn
  <2>10. Lists!Key(i) = k
    BY <1>1, <2>5 DEF Lists!Key
  <2>11. \A e \in Solid(g) : (e \in ShownIn(rs) \/ Lists!Key(e) \in was \ {k}) <=> Lists!Beyond(Lists!Key(e), after)
    BY <1>4, <1>5, <2>9, <2>10
  <2>. QED  BY <1>0, <1>3, <2>7, <2>8, <2>11 DEF Orderly
<1>. QED  BY <1>6, <1>7

LEMMA FetchWalks == ASSUME WInv, Lists!Fetch PROVE WInv'
<1>. DEFINE least == Lists!Least(reader.todo)
<1>1. /\ UNCHANGED <<cache, client>> /\ UNCHANGED <<kind, map, index, gen, writer, last>> /\ reader.phase = "page"
      /\ reader.todo # {}
      /\ reader' = [reader EXCEPT !.todo = @ \ {least}, !.rows = @ \o Lists!Row(least[2])]
    BY DEF Lists!Fetch, Lists!Goes
<1>2. /\ least \in reader.todo /\ reader.todo \in SUBSET (Nat \X ListIds)
      /\ \A l \in reader.todo \ {least} : Lists!Before(least, l)
    BY <1>1, LeastIs DEF WInv, PInv, PageOk
<1>. HIDE DEF least
<1>3. PICK k, old, was, after, g, rs : /\ k = least /\ old = reader.rows /\ was = reader.todo /\ after = reader.after
                                       /\ g = PageGen /\ rs = old \o Lists!Row(k[2])
    OBVIOUS
<1>4. /\ reader'.phase = "page" /\ reader'.tag = reader.tag /\ reader'.gen = reader.gen /\ reader'.after = reader.after
      /\ reader'.todo = was \ {k} /\ reader'.rows = rs
    BY <1>1, <1>3 DEF WInv, PInv, ReaderOk, AReader
<1>5. NoMoreRelied
    BY <1>4 DEF NoMoreRelied, Relied
<1>6. Shape' /\ PagesOk' /\ KeptOk' /\ WalkOk'
    BY <1>1, <1>4, <1>5, RequestWalks
<1>7. PageGen' = g
    BY <1>1, <1>3, <1>4 DEF PageGen
<1>8. BuiltOk'
  <2>. SUFFICES ASSUME Undisturbed' PROVE Orderly(reader.rows, reader.todo, reader.after, PageGen)'
    BY <1>4 DEF BuiltOk
  <2>1. Orderly(old, was, after, g)
    BY <1>1, <1>3, <1>4, <1>7 DEF Undisturbed, WInv, BuiltOk
  <2>2. APage(old)
    BY <1>3 DEF WInv, PInv, PageOk, FreshRows
  <2>3. Orderly(rs, was \ {k}, after, g)
    BY <1>2, <1>3, <2>1, <2>2, RowWalks DEF WInv
  <2>4. Orderly(rs, was \ {k}, after, g)'
    BY <1>1, <2>3, OnlyReads DEF WInv
  <2>5. after = reader'.after
    BY <1>3, <1>4
  <2>. QED  BY <1>4, <1>7, <2>4, <2>5, BuiltIs
<1>. QED  BY <1>6, <1>8, FetchKeeps DEF WInv

(* What a page adds to what was shown.                                     *)
LEMMA ShownOnce ==
    ASSUME NEW s \in Seq(ListIds), NEW q \in Seq(ListIds), NEW i
    PROVE  /\ s \o q \in Seq(ListIds)
           /\ Once(s, i) /\ Never(q, i) => Once(s \o q, i)
           /\ Never(s, i) /\ Once(q, i) => Once(s \o q, i)
           /\ Never(s, i) /\ Never(q, i) => Never(s \o q, i)
<1>0. PICK r : r = s \o q
    OBVIOUS
<1>1. /\ r \in Seq(ListIds) /\ Len(r) = Len(s) + Len(q) /\ Len(s) \in Nat /\ Len(q) \in Nat
      /\ DOMAIN s = 1 .. Len(s) /\ DOMAIN q = 1 .. Len(q) /\ DOMAIN r = 1 .. Len(r)
      /\ \A j \in 1 .. Len(r) : r[j] = IF j <= Len(s) THEN s[j] ELSE q[j - Len(s)]
    BY <1>0
<1>2. \A j \in DOMAIN s : j \in DOMAIN r /\ r[j] = s[j] /\ j <= Len(s)
    BY <1>1
<1>3. \A j \in DOMAIN q : j + Len(s) \in DOMAIN r /\ r[j + Len(s)] = q[j] /\ j \in Nat
  <2>. SUFFICES ASSUME NEW j \in DOMAIN q PROVE j + Len(s) \in DOMAIN r /\ r[j + Len(s)] = q[j] /\ j \in Nat
    OBVIOUS
  <2>1. j \in Nat /\ j + Len(s) \in 1 .. Len(r) /\ ~(j + Len(s) <= Len(s)) /\ (j + Len(s)) - Len(s) = j
    BY <1>1
  <2>2. r[j + Len(s)] = q[(j + Len(s)) - Len(s)]
    BY <1>1, <2>1
  <2>. QED  BY <1>1, <2>1, <2>2
<1>4. \A j \in DOMAIN r : (j \in DOMAIN s /\ r[j] = s[j]) \/ \E l \in DOMAIN q : j = l + Len(s) /\ r[j] = q[l]
  <2>. SUFFICES ASSUME NEW j \in DOMAIN r PROVE (j \in DOMAIN s /\ r[j] = s[j]) \/ \E l \in DOMAIN q : j = l + Len(s) /\ r[j] = q[l]
    OBVIOUS
  <2>1. CASE j <= Len(s)
    BY <1>1, <2>1
  <2>2. CASE ~(j <= Len(s))
    <3>1. j - Len(s) \in DOMAIN q /\ j = (j - Len(s)) + Len(s) /\ r[j] = q[j - Len(s)]
      BY <1>1, <2>2
    <3>. QED  BY <3>1
  <2>. QED  BY <2>1, <2>2
<1>5. Never(s, i) /\ Never(q, i) => Never(r, i)
    BY <1>4 DEF Never
<1>6. ASSUME Once(s, i), Never(q, i) PROVE Once(r, i)
  <2>1. PICK j \in DOMAIN s : s[j] = i /\ \A l \in DOMAIN s : s[l] = i => l = j
    BY <1>6 DEF Once
  <2>2. j \in DOMAIN r /\ r[j] = i
    BY <1>2, <2>1
  <2>3. \A l \in DOMAIN r : r[l] = i => l = j
    BY <1>4, <1>6, <2>1 DEF Never
  <2>. QED  BY <2>2, <2>3 DEF Once
<1>7. ASSUME Never(s, i), Once(q, i) PROVE Once(r, i)
  <2>1. PICK j \in DOMAIN q : q[j] = i /\ \A l \in DOMAIN q : q[l] = i => l = j
    BY <1>7 DEF Once
  <2>2. j + Len(s) \in DOMAIN r /\ r[j + Len(s)] = i
    BY <1>3, <2>1
  <2>3. \A l \in DOMAIN r : r[l] = i => l = j + Len(s)
    BY <1>4, <1>7, <2>1 DEF Never
  <2>. QED  BY <2>2, <2>3 DEF Once
<1>. QED  BY <1>0, <1>1, <1>5, <1>6, <1>7

(* The ids of a page, each once if the generation covers it.               *)
IdsOf(rs) == [j \in DOMAIN rs |-> rs[j].id]

LEMMA PageOnce ==
    ASSUME WInv, NEW rs, NEW after, NEW g, OfAge(rs, after, g), FreshRows(rs, g), NEW i \in Solid(g)
    PROVE  /\ i \in ShownIn(rs) => Once(IdsOf(rs), i)
           /\ i \notin ShownIn(rs) => Never(IdsOf(rs), i)
<1>1. DOMAIN IdsOf(rs) = DOMAIN rs /\ \A j \in DOMAIN rs : IdsOf(rs)[j] = rs[j].id
    BY DEF IdsOf
<1>2. i \notin ShownIn(rs) => Never(IdsOf(rs), i)
    BY <1>1 DEF Never, ShownIn
<1>3. ASSUME NEW j \in DOMAIN rs, NEW l \in DOMAIN rs, rs[j].id = i, rs[l].id = i PROVE j = l
  <2>1. RowKey(rs[j]) = <<map[i].name, i>> /\ RowKey(rs[l]) = <<map[i].name, i>>
    BY <1>3 DEF OfAge, RowKey
  <2>2. <<map[i].name, i>> \in Nat \X Nat
    BY ListsAssumption DEF WInv, Shape, Called, Solid, Lists!Live
  <2>3. ~Lists!Before(RowKey(rs[j]), RowKey(rs[l])) /\ ~Lists!Before(RowKey(rs[l]), RowKey(rs[j]))
    BY <2>1, <2>2, BeforeOrders
  <2>4. ~(j < l) /\ ~(l < j)
    BY <2>3 DEF OfAge, Rises
  <2>5. j \in Nat /\ l \in Nat
    BY DEF FreshRows, APage
  <2>. QED  BY <2>4, <2>5
<1>4. i \in ShownIn(rs) => Once(IdsOf(rs), i)
  <2>. SUFFICES ASSUME NEW j \in DOMAIN rs, rs[j].id = i PROVE Once(IdsOf(rs), i)
    BY DEF ShownIn
  <2>. QED  BY <1>1, <1>3 DEF Once
<1>. QED  BY <1>2, <1>4

LEMMA CursorIs ==
    ASSUME Limit \in Nat \ {0}, NEW rs, NEW after, NEW g, OfAge(rs, after, g), FreshRows(rs, g)
    PROVE  Lists!Cursor(rs) # None => Lists!Cursor(rs) \in Nat \X ListIds
<1>. SUFFICES ASSUME Lists!Cursor(rs) # None PROVE Lists!Cursor(rs) \in Nat \X ListIds
    OBVIOUS
<1>1. ~(Len(rs) < Limit) /\ Lists!Cursor(rs) = <<rs[Len(rs)].name, rs[Len(rs)].id>>
    BY DEF Lists!Cursor
<1>2. Len(rs) \in DOMAIN rs
    BY <1>1 DEF FreshRows, APage
<1>. QED  BY <1>1, <1>2 DEF OfAge, FreshRows

(* Where the walk stands after a page: a page that is not full is the last *)
(* one.                                                                    *)
LEMMA PageAdvances ==
    ASSUME WInv, Limit \in Nat \ {0}, NEW rs, NEW after, NEW g, PageWhole(rs, after, g), FreshRows(rs, g), NEW i \in Solid(g),
           after # None => after \in Nat \X ListIds
    PROVE  /\ ~Lists!Beyond(Lists!Key(i), after) =>
                  i \notin ShownIn(rs) /\ (Lists!Cursor(rs) = None \/ ~Lists!Beyond(Lists!Key(i), Lists!Cursor(rs)))
           /\ Lists!Beyond(Lists!Key(i), after) =>
                  (i \in ShownIn(rs) <=> Lists!Cursor(rs) = None \/ ~Lists!Beyond(Lists!Key(i), Lists!Cursor(rs)))
<1>1. OfAge(rs, after, g) /\ (i \in ShownIn(rs) <=> Reached(rs, after, i))
    BY DEF PageWhole
<1>2. Len(rs) \in Nat /\ DOMAIN rs = 1 .. Len(rs) /\ rs = [j \in 1 .. Len(rs) |-> rs[j]]
    BY DEF FreshRows, APage
<1>3. PICK key : key = Lists!Key(i)
    OBVIOUS
<1>4. key \in Nat \X Nat
    BY <1>3, ListsAssumption DEF WInv, Shape, Called, Solid, Lists!Live, Lists!Key
<1>5. CASE Len(rs) < Limit
  <2>1. Lists!Cursor(rs) = None
    BY <1>5 DEF Lists!Cursor
  <2>. QED  BY <1>1, <1>5, <2>1 DEF Reached
<1>6. CASE ~(Len(rs) < Limit)
  <2>1. Len(rs) \in DOMAIN rs /\ rs # << >>
    BY <1>2, <1>6
  <2>2. PICK c : c = RowKey(rs[Len(rs)])
    OBVIOUS
  <2>3. Lists!Cursor(rs) = c
    BY <1>6, <2>1, <2>2 DEF Lists!Cursor, RowKey
  <2>4. c = <<rs[Len(rs)].name, rs[Len(rs)].id>> /\ c[1] \in Nat /\ c[2] \in ListIds
    BY <1>1, <2>1, <2>2 DEF OfAge, RowKey, FreshRows
  <2>5. c \in Nat \X Nat /\ c # None
    BY <2>4, ListsAssumption, NoneAssumption
  <2>6. Lists!Beyond(c, after) /\ (Lists!Beyond(key, c) <=> Lists!Before(c, key))
    BY <1>1, <2>1, <2>2, <2>5 DEF OfAge, Lists!Beyond
  <2>7. Reached(rs, after, i) <=> Lists!Beyond(key, after) /\ ~Lists!Before(c, key)
    BY <1>3, <1>6, <2>2 DEF Reached
  <2>8. ~Lists!Beyond(key, after) => ~Lists!Before(c, key)
    <3>. SUFFICES ASSUME ~Lists!Beyond(key, after), Lists!Before(c, key) PROVE FALSE
      OBVIOUS
    <3>1. after # None /\ ~Lists!Before(after, key)
      BY DEF Lists!Beyond
    <3>2. Lists!Before(after, c) /\ after \in Nat \X Nat
      BY <2>6, <3>1, ListsAssumption DEF Lists!Beyond
    <3>. QED  BY <1>4, <2>5, <3>1, <3>2, BeforeOrders
  <2>9. i \in ShownIn(rs) <=> Lists!Beyond(key, after) /\ ~Lists!Before(c, key)
    BY <1>1, <2>7
  <2>10. /\ ~Lists!Beyond(key, after) => i \notin ShownIn(rs) /\ (c = None \/ ~Lists!Beyond(key, c))
         /\ Lists!Beyond(key, after) => (i \in ShownIn(rs) <=> c = None \/ ~Lists!Beyond(key, c))
    BY <2>5, <2>6, <2>8, <2>9
  <2>. QED  BY <1>3, <2>3, <2>10
<1>. QED  BY <1>5, <1>6

LEMMA ReceiveWalks == ASSUME WInv, Limit \in Nat \ {0}, Lists!Receive PROVE WInv'
<1>1. UNCHANGED cache /\ UNCHANGED <<kind, map, index, gen, writer, last>> /\ reader.phase = "answer" /\ reader' = Lists!Waiting
    BY DEF Lists!Receive, Lists!Goes
<1>2. PICK rs, after, g, n, old, new :
          /\ rs = reader.rows /\ after = reader.after /\ g = reader.tag /\ n = Lists!Cursor(rs) /\ old = client.shown
          /\ new = old \o IdsOf(rs)
    OBVIOUS
<1>3. client' = [client EXCEPT !.tag = IF after = None THEN g ELSE @, !.rows = IF after = None THEN rs ELSE @,
                               !.next = n, !.shown = IF client.calm THEN new ELSE << >>]
    BY <1>2 DEF Lists!Receive, IdsOf
<1>4. /\ client'.tag = (IF after = None THEN g ELSE client.tag) /\ client'.rows = (IF after = None THEN rs ELSE client.rows)
      /\ client'.next = n /\ client'.shown = (IF client.calm THEN new ELSE << >>)
      /\ client'.calm = client.calm /\ client'.kept = client.kept
    BY <1>3 DEF WInv, PInv, ClientOk, AClient
<1>5. reader'.phase = "idle" /\ reader'.after = None
    BY <1>1 DEF Lists!Waiting
<1>6. PInv' /\ Shape'
    BY <1>1, <1>4, ReceiveKeeps, OnlyReads DEF WInv
<1>7. NoMoreRelied
    BY <1>5 DEF NoMoreRelied, Relied
<1>8. /\ PageGen = g /\ FreshRows(rs, g) /\ g \in Nat /\ g <= gen /\ gen \in Nat /\ writer.ver \in Nat /\ gen <= writer.ver
    BY <1>1, <1>2 DEF WInv, PInv, PageOk, PageGen, ReaderOk, Graph, GenLags, WriterOk
<1>9. Undisturbed => PageWhole(rs, after, g)
    BY <1>1, <1>2, <1>8 DEF WInv, BuiltOk
<1>10. PagesOk'
  <2>1. cache' # None => KeptPage(cache.rows, cache.gen)'
    BY <1>1, <1>7, PagesKept
  <2>2. CASE after # None
    BY <1>1, <1>4, <1>7, <2>2, PagesKept
  <2>3. CASE after = None
    <3>1. KeptPage(rs, g)'
      <4>1. CASE Undisturbed
        <5>1. PageWhole(rs, None, g)'
          BY <1>1, <1>9, <2>3, <4>1, OnlyReads DEF WInv
        <5>. QED  BY <5>1 DEF KeptPage
      <4>2. CASE ~Undisturbed
        BY <1>1, <1>2, <1>5, <1>8, <2>3, <4>2 DEF Undisturbed, KeptPage, Relied
      <4>. QED  BY <4>1, <4>2
    <3>2. client'.rows = rs /\ client'.tag = g
      BY <1>4, <2>3
    <3>3. KeptPage(client.rows, client.tag)'
      BY <3>1, <3>2 DEF KeptPage, PageWhole, OfAge, Rises, RowKey, Reached, ShownIn, Relied, Solid, Busy, LastCounted, Lists!Live
    <3>. QED  BY <2>1, <3>3 DEF PagesOk
  <2>. QED  BY <2>2, <2>3
<1>11. BuiltOk'
    BY <1>5 DEF BuiltOk
<1>12. KeptOk'
    BY <1>1, <1>4, <1>5 DEF WInv, KeptOk, Lists!Live
<1>13. WalkOk'
  <2>1. IdsOf(rs) \in Seq(ListIds) /\ old \in Seq(ListIds)
    <3>1. \A j \in 1 .. Len(rs) : rs[j].id \in ListIds
      BY <1>8 DEF FreshRows, APage
    <3>2. Len(rs) \in Nat /\ DOMAIN rs = 1 .. Len(rs)
      BY <1>8 DEF FreshRows, APage
    <3>. QED  BY <1>2, <3>1, <3>2 DEF IdsOf, WInv, WalkOk
  <2>2. new \in Seq(ListIds) /\ << >> \in Seq(ListIds)
    BY <1>2, <2>1, ShownOnce
  <2>3. CASE ~client.calm
    BY <1>4, <2>2, <2>3 DEF WalkOk
  <2>4. CASE client.calm
    <3>1. PageWhole(rs, after, g) /\ OfAge(rs, after, g)
      BY <1>9, <2>4 DEF Undisturbed, PageWhole
    <3>2. n # None => n \in Nat \X ListIds
      BY <1>2, <1>8, <3>1, CursorIs
    <3>3. after # None => after \in Nat \X ListIds
      BY <1>2, <2>4 DEF WInv, WalkOk
    <3>4. ASSUME NEW i \in client.kept
          PROVE  IF n = None \/ ~Lists!Beyond(Lists!Key(i), n) THEN Once(new, i) ELSE Never(new, i)
      <4>1. i \in Solid(g)
        <5>1. i \in Lists!Live /\ (writer.steps # << >> => writer.id # i) /\ last[i] <= g
          BY <1>1, <1>2 DEF WInv, KeptOk
        <5>2. ~Busy(i) /\ LastCounted(i) = last[i]
          BY <5>1, StepsApart DEF Busy, LastCounted
        <5>. QED  BY <5>1, <5>2 DEF Solid
      <4>2. IF ~Lists!Beyond(Lists!Key(i), after) THEN Once(old, i) ELSE Never(old, i)
        BY <1>1, <1>2, <2>4 DEF WInv, WalkOk, Behind, Point
      <4>3. (i \in ShownIn(rs) => Once(IdsOf(rs), i)) /\ (i \notin ShownIn(rs) => Never(IdsOf(rs), i))
        BY <1>8, <3>1, <4>1, PageOnce
      <4>4. /\ ~Lists!Beyond(Lists!Key(i), after) => i \notin ShownIn(rs) /\ (n = None \/ ~Lists!Beyond(Lists!Key(i), n))
            /\ Lists!Beyond(Lists!Key(i), after) => (i \in ShownIn(rs) <=> n = None \/ ~Lists!Beyond(Lists!Key(i), n))
        BY <1>2, <1>8, <3>1, <3>3, <4>1, PageAdvances
      <4>5. /\ Once(old, i) /\ Never(IdsOf(rs), i) => Once(new, i)
            /\ Never(old, i) /\ Once(IdsOf(rs), i) => Once(new, i)
            /\ Never(old, i) /\ Never(IdsOf(rs), i) => Never(new, i)
        BY <1>2, <2>1, ShownOnce
      <4>. QED  BY <4>2, <4>3, <4>4, <4>5
    <3>5. \A i \in client.kept : Behind(i)' <=> n = None \/ ~Lists!Beyond(Lists!Key(i), n)
      BY <1>1, <1>4, <1>5 DEF Behind, Point, Lists!Key, Lists!Beyond, Lists!Before
    <3>6. client'.shown = new /\ client'.kept = client.kept /\ client'.next = n
      BY <1>4, <2>4
    <3>. QED  BY <1>5, <2>2, <3>2, <3>4, <3>5, <3>6 DEF WalkOk, Once, Never
  <2>. QED  BY <2>3, <2>4
<1>. QED  BY <1>6, <1>10, <1>11, <1>12, <1>13 DEF WInv

LEMMA WalkStepKeeps == ASSUME WInv, Limit \in Nat \ {0}, [Lists!PNext]_listsVars PROVE WInv'
<1>1. CASE UNCHANGED listsVars
  <2>1. UNCHANGED <<kind, map, index, gen, cache, writer, reader, client, last>>
    BY <1>1 DEF listsVars
  <2>2. PInv' /\ Shape' /\ StaysSteady
    BY <1>1, <2>1, ListsStepKeeps, OnlyReads DEF WInv, StaysSteady, Steady
  <2>3. Remains /\ SameWalk /\ gen <= gen'
    <3>1. SameRequest /\ gen \in Nat
      BY <2>1, SameIsSame DEF WInv, PInv, Graph, GenLags
    <3>2. \A i \in client.kept : i \in Lists!Live /\ (writer.steps # << >> => writer.id # i)
      BY DEF WInv, KeptOk
    <3>3. Lists!Live' = Lists!Live /\ (\A i : Lists!Key(i)' = Lists!Key(i)) /\ \A i : (Busy(i)' <=> Busy(i)) /\ LastCounted(i)' = LastCounted(i)
      BY <2>1, GraphStays DEF WInv
    <3>. QED  BY <2>1, <3>1, <3>2, <3>3 DEF Remains, SameWalk
  <2>. QED  BY <2>2, <2>3, WalkStays
<1>2. CASE Lists!Create
  <2>1. PICK i \in ListIds, n \in Lists!GivenNames : i \notin Lists!Live /\ Lists!Start("create", i, n)
    BY <1>2 DEF Lists!Create
  <2>2. n \in Nat /\ (kind # "concept" => n = 0)
    BY ListsAssumption DEF Lists!GivenNames
  <2>3. SetsOut("create", i, n)
    BY <2>1, <2>2 DEF SetsOut
  <2>. QED  BY <2>3, StartWalks
<1>3. CASE Lists!Upsert
  <2>1. PICK i \in ListIds, n \in NameSet : i \in Lists!Live /\ kind = "concept" /\ Lists!Start("upsert", i, n)
    BY <1>3 DEF Lists!Upsert, Lists!Live
  <2>2. SetsOut("upsert", i, n)
    BY <2>1, ListsAssumption DEF SetsOut
  <2>. QED  BY <2>2, StartWalks
<1>4. CASE Lists!Rename
  <2>1. PICK i \in ListIds, n \in NameSet : i \in Lists!Live /\ kind = "concept" /\ Lists!Start("rename", i, n)
    BY <1>4 DEF Lists!Rename, Lists!Live
  <2>2. SetsOut("rename", i, n)
    BY <2>1, ListsAssumption DEF SetsOut
  <2>. QED  BY <2>2, StartWalks
<1>5. CASE Lists!Update
  <2>1. PICK i \in ListIds : i \in Lists!Live /\ Lists!Start("update", i, map[i].name)
    BY <1>5 DEF Lists!Update, Lists!Live
  <2>2. PICK n : n = map[i].name
    OBVIOUS
  <2>3. SetsOut("update", i, n)
    BY <2>1, <2>2 DEF SetsOut
  <2>. QED  BY <2>3, StartWalks
<1>6. CASE Lists!Erase
  <2>1. PICK i \in ListIds : i \in Lists!Live /\ Lists!Start("remove", i, None)
    BY <1>6 DEF Lists!Erase, Lists!Live
  <2>2. SetsOut("remove", i, None)
    BY <2>1 DEF SetsOut
  <2>. QED  BY <2>2, StartWalks
<1>. QED  BY <1>1, <1>2, <1>3, <1>4, <1>5, <1>6, WriterWalks, AskFirstWalks, AskNextWalks, TagWalks, LoadGenWalks, LookupWalks,
             EnterWalks, FetchWalks, LeaveWalks, StoreWalks, ReceiveWalks DEF Lists!PNext, Lists!Writer, Lists!Reader

==============================================================================
