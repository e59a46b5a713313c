------------------------------ MODULE Extract ------------------------------
(***************************************************************************)
(* extract_proposal (rag/src/extract.rs): a document is cut into pieces, a *)
(* language model answers for each, an answer cut off at its limit sends   *)
(* the two halves of the piece back to the front of the queue, and the     *)
(* answers are merged: one item per entity, the surest kept, relations     *)
(* told apart by a reference made of the piece's number and their place.   *)
(*                                                                         *)
(* A document is its lines; each describes one entity and one relation.    *)
(***************************************************************************)
EXTENDS Naturals, Sequences, SequencesExt

CONSTANTS Document,      \* what its lines say: [key, conf] of each
          Keys,          \* entities
          Budget,        \* lines of a piece (CHUNK_BUDGET_CHARS)
          MaxPieces,     \* calls for one document
          None

Lines == 1 .. Len(Document)

DocumentAssumption ==
    Document \in Seq([key : Keys, conf : Nat]) /\ Budget \in Nat \ {0}

VARIABLES
    queue,       \* pieces still to extract: <<first line, last line>>
    idx,         \* the number of the call
    concepts,    \* merged: [key, conf]
    relations,   \* merged: [line, ref]
    result       \* None, "ok" or "error"

xvars == <<queue, idx, concepts, relations, result>>

(* chunk_text: pieces of at most Budget lines, greedily packed, in order.  *)
Chunks ==
    [k \in 1 .. (Len(Document) + Budget - 1) \div Budget |->
        <<(k - 1) * Budget + 1,
          IF k * Budget > Len(Document) THEN Len(Document) ELSE k * Budget>>]

XInit ==
    /\ queue = Chunks /\ idx = 0 /\ concepts = << >> /\ relations = << >> /\ result = None

Running   == result = None /\ queue # << >>
Piece     == Head(queue)
LinesOf(p) == [i \in 1 .. p[2] - p[1] + 1 |-> p[1] + i - 1]

(* What an answer says of a line: its entity, and its relation, under a    *)
(* reference made of the item's place (into_proposal).                     *)
Item(line) == Document[line]
Ref_OfPlace(i) == <<0, i>>
Ref(i) == <<idx, i>>
Related(p) == [i \in DOMAIN LinesOf(p) |-> [line |-> LinesOf(p)[i], ref |-> Ref(i)]]

(* merge_into, for concepts: a new entity goes last; a surer item takes    *)
(* the place of the one known.                                             *)
AddConcept(acc, line) ==
    LET item  == Item(line)
        known == {i \in DOMAIN acc : acc[i].key = item.key}
    IN  IF known = {} THEN Append(acc, item)
        ELSE [i \in DOMAIN acc |-> IF i \in known /\ acc[i].conf < item.conf THEN item ELSE acc[i]]

AddConcepts(acc, lines) == FoldLeft(AddConcept, acc, lines)

(* ... and for relations: those whose reference was not known before.      *)
AddRelations(acc, items) ==
    LET known     == {acc[k].ref : k \in DOMAIN acc}
        Add(y, r) == IF r.ref \in known THEN y ELSE Append(y, r)
    IN  FoldLeft(Add, acc, items)

Calls == idx < MaxPieces

(* A whole answer, which the stop reason does not call cut off.            *)
Answer ==
    /\ Running /\ Calls
    /\ concepts' = AddConcepts(concepts, LinesOf(Piece))
    /\ relations' = AddRelations(relations, Related(Piece))
    /\ queue' = Tail(queue) /\ idx' = idx + 1
    /\ UNCHANGED result

(* Cut off, by the stop reason or by a JSON object that does not close:    *)
(* what it holds is not merged.  The cut is at the line break nearest the  *)
(* middle, wherever the lengths of the lines put it.                       *)
CutOff ==
    /\ Running /\ Calls /\ Piece[1] < Piece[2]
    /\ \E cut \in Piece[1] .. Piece[2] - 1 :
          queue' = <<<<Piece[1], cut>>, <<cut + 1, Piece[2]>>>> \o Tail(queue)
    /\ idx' = idx + 1
    /\ UNCHANGED <<concepts, relations, result>>

(* Too small to cut, not JSON, the client failed, or too many calls.       *)
Fail ==
    /\ Running /\ result' = "error"
    /\ UNCHANGED <<queue, idx, concepts, relations>>

Finish ==
    /\ result = None /\ queue = << >> /\ result' = "ok"
    /\ UNCHANGED <<queue, idx, concepts, relations>>

XNext == Answer \/ CutOff \/ Fail \/ Finish

XSpec == XInit /\ [][XNext]_xvars

---------------------------------------------------------------------------
(* A proposal that is returned has one item for every entity, with its     *)
(* surest description, and every relation of the document once, in order,  *)
(* each under a reference of its own: whatever answers were cut off.       *)
ProposalWhole ==
    result = "ok" =>
        /\ \A l \in Lines : \E c \in ToSet(concepts) : c.key = Document[l].key /\ c.conf >= Document[l].conf
        /\ \A i, j \in DOMAIN concepts : concepts[i].key = concepts[j].key => i = j
        /\ [i \in DOMAIN relations |-> relations[i].line] = [l \in Lines |-> l]
        /\ IsInjective([i \in DOMAIN relations |-> relations[i].ref])

==============================================================================
