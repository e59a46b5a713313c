----------------------------- MODULE Traversal -----------------------------
(***************************************************************************)
(* The three walks of graph/src/traversal.rs over the links of the graph:  *)
(* expand, which grows a subgraph level by level under a cap on concepts   *)
(* and a cap on relations; shortest_path; and closure along one type.      *)
(* Walks take no lock: a link or a concept may be deleted between any two  *)
(* of their reads (graph.rs remove_relation, remove_concept).              *)
(*                                                                         *)
(* A link's id is its place in the order of the adjacency lists; whitelist,*)
(* exclusion and direction of a specification are the set of the types     *)
(* followed and the sides looked at.                                       *)
(***************************************************************************)
EXTENDS Integers, SequencesExt, FiniteSetsExt

CONSTANTS
    Nodes,       \* the concepts
    NodeType,    \* the type of each of them
    LinkPool,    \* id -> [src, tgt, type, w]
    Walks,       \* what may be asked
    MaxDrops     \* deletions during the walk

VARIABLES
    nodes,       \* the concepts of the graph
    links,       \* its relations: id -> record
    drops,       \* deletions so far
    walk,        \* what was asked
    seen,        \* visited
    depths,      \* depth_of
    kept,        \* concepts, in the order they were admitted
    emitted,     \* relations, in order
    offers,      \* the candidates of the level, in the order of admission
    frontier, nextFrontier, level,
    parents,     \* shortest_path: concept -> <<predecessor, link>>
    phase        \* "walk" or "done"

lvars == <<nodes, links, drops, walk, seen, depths, kept, emitted, offers, frontier, nextFrontier,
           level, parents, phase>>
walked == <<walk, seen, depths, kept, emitted, offers, frontier, nextFrontier, level, parents, phase>>

-----------------------------------------------------------------------------
(* adjacent_edge_ids: the links out of the concept, then those into it.    *)
Adjacent(n, sides) ==
    LET byId(S) == SetToSortSeq(S, <) IN
    byId({e \in DOMAIN links : "out" \in sides /\ links[e].src = n})
        \o byId({e \in DOMAIN links : "in" \in sides /\ links[e].tgt = n})

Far(e, n) == IF links[e].src = n THEN links[e].tgt ELSE links[e].src

NodesCapped == Len(kept) >= walk.maxNodes
EdgesCapped == walk.maxEdges > 0 /\ Len(emitted) >= walk.maxEdges

(* The edges that leave the frontier, as a level gathers them.             *)
Gathered ==
    LET of(n) == LET es == SelectSeq(Adjacent(n, walk.sides),
                                     LAMBDA e : /\ links[e].type \in walk.types
                                                /\ NodesCapped => Far(e, n) \in seen) IN
                 [i \in 1..Len(es) |-> [link |-> es[i], to |-> Far(es[i], n),
                                        type |-> links[es[i]].type, w |-> links[es[i]].w]] IN
    FlattenSeq([i \in 1..Len(frontier) |-> of(frontier[i])])

(* Slip: no sort by weight.                                                *)
Ahead_AsGathered(c, i) == {j \in 1..(i - 1) : c[j].type = c[i].type}

(* The places of c ahead of place i within its type: the stronger first,   *)
(* equal weights in the order gathered.                                    *)
Ahead(c, i) == {j \in 1..Len(c) : /\ c[j].type = c[i].type
                                  /\ c[j].w > c[i].w \/ (c[j].w = c[i].w /\ j < i)}

(* Round-robin over the types, in the order they were first seen.          *)
RoundRobin(c) ==
    LET first(i) == CHOOSE j \in 1..Len(c) : c[j].type = c[i].type /\ \A k \in 1..(j - 1) : c[k].type # c[i].type
        turn(i)  == Cardinality(Ahead(c, i))
        earlier(i, j) == turn(i) < turn(j) \/ (turn(i) = turn(j) /\ first(i) < first(j)) IN
    [k \in 1..Len(c) |->
        c[CHOOSE i \in 1..Len(c) : Cardinality({j \in 1..Len(c) : earlier(j, i)}) = k - 1]]

-----------------------------------------------------------------------------
LInit ==
    /\ nodes = Nodes /\ drops = 0
    /\ \E ids \in SUBSET DOMAIN LinkPool : links = [e \in ids |-> LinkPool[e]]
    /\ walk \in Walks
    /\ seen = ToSet(walk.seeds) /\ frontier = walk.seeds /\ nextFrontier = << >>
    /\ kept = walk.seeds
    /\ depths = [n \in ToSet(walk.seeds) |-> 0]
    /\ emitted = << >> /\ offers = << >> /\ level = 0 /\ parents = << >>
    /\ phase = IF walk.do = "path" /\ walk.goal = walk.seeds[1] THEN "done" ELSE "walk"

(* A level begins: stop, or gather and order what it offers.               *)
Level ==
    /\ phase = "walk" /\ walk.do = "expand" /\ offers = << >> /\ nextFrontier = << >>
    /\ IF level = walk.depth \/ frontier = << >> \/ EdgesCapped
       THEN /\ phase' = "done" /\ UNCHANGED <<offers, frontier, level>>
       ELSE LET todo == RoundRobin(Gathered) IN
            /\ offers' = todo
            /\ IF todo = << >> THEN frontier' = << >> /\ level' = level + 1 ELSE UNCHANGED <<frontier, level>>
            /\ UNCHANGED phase
    /\ UNCHANGED <<nodes, links, drops, walk, seen, depths, kept, emitted, nextFrontier, parents>>

(* Does the candidate's far end get into the result, and as a new one?     *)
Admissible(o) == /\ o.to \in seen \/ ~NodesCapped
                 /\ o.to \in nodes
                 /\ NodeType[o.to] \in walk.conceptTypes

(* One candidate is admitted or skipped; after the last the level is over, *)
(* and at the cap on relations the rest of it is dropped.                  *)
Admit ==
    /\ phase = "walk" /\ walk.do = "expand" /\ offers # << >>
    /\ LET o      == Head(offers)
           take   == ~EdgesCapped /\ Admissible(o)
           new    == take /\ o.to \notin seen
           rest   == IF EdgesCapped THEN << >> ELSE Tail(offers)
           coming == IF new THEN Append(nextFrontier, o.to) ELSE nextFrontier IN
       /\ seen'   = IF new THEN seen \cup {o.to} ELSE seen
       /\ kept'   = IF new THEN Append(kept, o.to) ELSE kept
       /\ depths' = IF new THEN [n \in DOMAIN depths \cup {o.to} |-> IF n = o.to THEN level + 1 ELSE depths[n]]
                    ELSE depths
       /\ emitted' = IF take /\ o.link \notin ToSet(emitted) /\ o.link \in DOMAIN links
                     THEN Append(emitted, o.link) ELSE emitted
       /\ offers' = rest
       /\ IF rest = << >>
          THEN frontier' = coming /\ nextFrontier' = << >> /\ level' = level + 1
          ELSE nextFrontier' = coming /\ UNCHANGED <<frontier, level>>
    /\ UNCHANGED <<nodes, links, drops, walk, parents, phase>>

(* shortest_path and closure take the first of the queue and look at all   *)
(* its neighbours; frontier is the queue.  closure looks along one type.   *)
Visit ==
    /\ phase = "walk" /\ walk.do \in {"path", "closure"} /\ frontier # << >>
    /\ LET n    == Head(frontier)
           es   == SelectSeq(Adjacent(n, {"out", "in"}), LAMBDA e : links[e].type \in walk.types)
           news == {e \in ToSet(es) : /\ Far(e, n) \notin seen
                                      /\ \A i \in 1..Len(es) : \A j \in 1..(i - 1) :
                                            es[i] = e => Far(es[j], n) # Far(e, n)}
           via  == SelectSeq(es, LAMBDA e : e \in news)
           hit  == walk.do = "path" /\ \E e \in news : Far(e, n) = walk.goal IN
       IF depths[n] >= walk.depth
       THEN frontier' = Tail(frontier) /\ UNCHANGED <<seen, depths, kept, parents, phase>>
       ELSE LET firsts == [i \in 1..Len(via) |-> Far(via[i], n)] IN
            /\ seen'   = seen \cup ToSet(firsts)
            /\ depths' = [m \in DOMAIN depths \cup ToSet(firsts) |->
                            IF m \in DOMAIN depths THEN depths[m] ELSE depths[n] + 1]
            /\ parents' = [m \in DOMAIN parents \cup ToSet(firsts) |->
                             IF m \in DOMAIN parents THEN parents[m]
                             ELSE <<n, CHOOSE e \in news : Far(e, n) = m>>]
            /\ kept' = kept \o firsts
            /\ frontier' = IF hit THEN << >> ELSE Tail(frontier) \o firsts
            /\ phase' = IF hit THEN "found" ELSE phase
    /\ UNCHANGED <<nodes, links, drops, walk, emitted, offers, nextFrontier, level>>

(* The queue is empty: None, or the whole closure.                         *)
Exhausted ==
    /\ phase = "walk" /\ walk.do \in {"path", "closure"} /\ frontier = << >>
    /\ phase' = "done"
    /\ UNCHANGED <<nodes, links, drops, walk, seen, depths, kept, emitted, offers, frontier,
                   nextFrontier, level, parents>>

(* The way back from the goal, a link at a time; a link or a concept that  *)
(* is gone by now fails the call.                                          *)
Back ==
    /\ phase = "found"
    /\ LET at == IF emitted = << >> THEN walk.goal ELSE parents[Head(frontier)][1] IN
       IF at = walk.seeds[1]
       THEN phase' = "done" /\ UNCHANGED <<emitted, frontier>>
       ELSE IF parents[at][2] \in DOMAIN links /\ at \in nodes
            THEN /\ emitted' = <<parents[at][2]>> \o emitted
                 /\ frontier' = <<at>> \o frontier /\ UNCHANGED phase
            ELSE phase' = "failed" /\ UNCHANGED <<emitted, frontier>>
    /\ UNCHANGED <<nodes, links, drops, walk, seen, depths, kept, offers, nextFrontier, level, parents>>

(* A writer deletes a link; a concept goes after its links.                *)
Drop ==
    /\ phase # "done" /\ drops < MaxDrops
    /\ \/ \E e \in DOMAIN links : links' = Restrict(links, DOMAIN links \ {e}) /\ UNCHANGED nodes
       \/ \E n \in nodes : /\ \A e \in DOMAIN links : n \notin {links[e].src, links[e].tgt}
                           /\ nodes' = nodes \ {n} /\ UNCHANGED links
    /\ drops' = drops + 1
    /\ UNCHANGED walked

LNext == Level \/ Admit \/ Visit \/ Exhausted \/ Back \/ Drop

LSpec == LInit /\ [][LNext]_lvars

-----------------------------------------------------------------------------
(* The distance between concepts over the links of the types followed.     *)
Distance(a, b, types) ==
    LET next(S) == S \cup UNION {{LinkPool[e].src, LinkPool[e].tgt} :
                      e \in {x \in DOMAIN links : links[x].type \in types
                                                  /\ {links[x].src, links[x].tgt} \cap S # {}}}
        ball[k \in Nat] == IF k = 0 THEN {a} ELSE next(ball[k - 1]) IN
    IF \E k \in 0..Cardinality(Nodes) : b \in ball[k]
    THEN CHOOSE k \in 0..Cardinality(Nodes) : b \in ball[k] /\ \A j \in 0..(k - 1) : b \notin ball[j]
    ELSE Cardinality(Nodes) + 1

Ends(e) == {LinkPool[e].src, LinkPool[e].tgt}

(* What expand returns is a subgraph: a relation comes with both its ends  *)
(* whatever is deleted meanwhile, the caps hold (the seeds themselves      *)
(* aside), and with no deletion every concept hangs by a returned relation *)
(* on one a level nearer to a seed.                                        *)
Closed ==
    walk.do = "expand" =>
        /\ \A i \in 1..Len(emitted) : Ends(emitted[i]) \subseteq ToSet(kept)
        /\ Len(kept) <= Max({walk.maxNodes, Len(walk.seeds)})
        /\ walk.maxEdges > 0 => Len(emitted) <= walk.maxEdges
        /\ drops = 0 => \A n \in DOMAIN depths : depths[n] > 0 =>
              \E e \in ToSet(emitted) : n \in Ends(e) /\ \E m \in Ends(e) : depths[m] = depths[n] - 1

(* "The strongest come first, round-robin across types, so the cap keeps   *)
(* the links that matter": of one seed's links, one that the cap on        *)
(* relations left out is no stronger than one of its type that was kept,   *)
(* and no other type kept two more than its own.                           *)
CapFair ==
    LET at == {e \in DOMAIN links : walk.seeds[1] \in Ends(e) /\ links[e].type \in walk.types}
        in == at \cap ToSet(emitted)
        of(t) == Cardinality({e \in in : links[e].type = t}) IN
    (/\ walk.do = "expand" /\ phase = "done" /\ drops = 0 /\ Len(walk.seeds) = 1 /\ walk.depth > 0
     /\ walk.sides = {"out", "in"} /\ walk.maxNodes >= Cardinality(Nodes)
     /\ \A n \in Nodes : NodeType[n] \in walk.conceptTypes
     /\ \A e \in DOMAIN links : links[e].src # links[e].tgt) =>
        \A e \in at \ in :
            /\ \A f \in in : links[f].type = links[e].type => links[f].w >= links[e].w
            /\ \A f \in in : of(links[f].type) <= of(links[e].type) + 1

(* The path found has as many hops as the distance, each hop a link        *)
(* between the concepts on its sides; none is found only when the goal is  *)
(* farther than the bound; a closure is what its type reaches within the   *)
(* bound.                                                                  *)
Shortest ==
    (walk.do \in {"path", "closure"} /\ drops = 0 /\ phase = "done") =>
        LET dist(n) == Distance(walk.seeds[1], n, walk.types) IN
        /\ walk.do = "path" =>
              IF emitted = << >>
              THEN dist(walk.goal) \notin 1..walk.depth
              ELSE /\ Len(emitted) = dist(walk.goal)
                   /\ \A i \in 1..Len(emitted) : frontier[i] \in Ends(emitted[i])
                   /\ \A i \in 2..Len(emitted) : frontier[i - 1] \in Ends(emitted[i])
        /\ walk.do = "closure" =>
              ToSet(kept) = {n \in Nodes : dist(n) <= walk.depth}

ExpansionSound == Closed /\ CapFair /\ Shortest
=============================================================================
