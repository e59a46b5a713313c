------------------------------- MODULE Review -------------------------------
(***************************************************************************)
(* POST /ingest/apply (ingest_review.rs): the reviewed proposal of a       *)
(* language model is written item by item, each instance prepared, then    *)
(* journaled, then applied; the types are applied to the live schema       *)
(* first and journaled in one record before the first instance.            *)
(*                                                                         *)
(* The proposal has one concept type, one relation type, two concepts of   *)
(* the type, and a relation, a rule and an action about them.  The writer  *)
(* lock is held for the whole request and no request is cancelled here.    *)
(* An append that fails may yet have left its record in the file, for the  *)
(* next start to find; the store then takes no other record.               *)
(* An item can always be refused: its type and ends are looked at, every   *)
(* other check (an unknown parent, a bad property) may go either way.      *)
(***************************************************************************)
EXTENDS Naturals, Sequences, FiniteSets

CONSTANTS Requests      \* bound: how many proposals are applied

Items == <<"type", "rtype", "c1", "c2", "link", "rule", "act">>
Types == {"type", "rtype"}
Concepts == {"c1", "c2"}
(* The ends of an item, and whether they are given by client_ref, or by    *)
(* "type:name", which a concept of the live graph answers to as well.      *)
Ends(i)   == CASE i = "link" -> {"c1", "c2"} [] i \in {"rule", "act"} -> {"c1"} [] OTHER -> {}
ByRef(i)  == IF i = "link" THEN {"c1"} ELSE {}

VARIABLES
    live, disk,     \* the graph, and what a start would replay: sets of items
    broken,         \* a failed append has poisoned the store
    pos,            \* the item under way, 0 between two requests
    strict,         \* the request's flag
    refs,           \* concepts that relations can name
    baseline,       \* the schema when the request began
    report,         \* item |-> outcome
    served

rvars == <<live, disk, broken, pos, strict, refs, baseline, report, served>>

SchemaOf(g) == g \cap Types

RInit ==
    /\ live \in {{}, {"type"}, {"type", "c2"}} /\ disk = live
    /\ broken = FALSE /\ pos = 0 /\ strict = FALSE /\ refs = {} /\ baseline = {}
    /\ report = << >> /\ served = 0

Apply ==
    /\ pos = 0 /\ served < Requests
    /\ pos' = 1 /\ served' = served + 1
    /\ strict' \in BOOLEAN
    /\ refs' = {} /\ report' = << >> /\ baseline' = SchemaOf(live)
    /\ UNCHANGED <<live, disk, broken>>

Item == Items[pos]
(* The report, of which only what was written is kept here: an item that   *)
(* was skipped and one that failed are told apart by wording alone.        *)
Answer(outcome) ==
    report' = IF outcome \in {"created", "merged"}
              THEN [i \in DOMAIN report \cup {Item} |-> IF i = Item THEN outcome ELSE report[i]]
              ELSE report

(* After the relation types comes the schema's record: the item after them *)
(* is reached only through Journal.                                        *)
SchemaDue == pos = 3 /\ "schema" \notin DOMAIN report
Running   == pos \in 1 .. Len(Items) /\ ~SchemaDue
Finish    == pos' = 0
Advance   == pos' = pos + 1

(* Undo the types not journaled.                                           *)
RolledBack_Not == live
RolledBack == baseline \cup (live \ Types)

Skip ==
    /\ Running /\ Answer("skipped") /\ Advance
    /\ UNCHANGED <<live, disk, broken, strict, refs, baseline, served>>

(* An item is refused: the rest goes on, unless the request is strict; an  *)
(* abort among the types takes the schema back.                            *)
Refuse ==
    /\ Answer("failed")
    /\ IF strict THEN Finish ELSE Advance
    /\ live' = IF strict /\ Item \in Types THEN RolledBack ELSE live
    /\ UNCHANGED <<disk, broken, strict, refs, baseline, served>>

DeclareType ==
    /\ Running /\ Item \in Types
    /\ \/ /\ Item = "rtype" => "type" \in live
          /\ live' = live \cup {Item} /\ Answer("created") /\ Advance
          /\ UNCHANGED <<disk, broken, strict, refs, baseline, served>>
       \/ Refuse

(* The append fails, with the record in the file or without; a store that  *)
(* is poisoned writes nothing.                                             *)
AppendFails(landed) ==
    \/ UNCHANGED disk /\ broken' \in {broken, TRUE}
    \/ ~broken /\ broken' = TRUE /\ disk' = landed

(* One ontology record, if a type was accepted; a failure takes the types  *)
(* back and ends the request with an error in place of the report.         *)
Changed == \E i \in Types \cap DOMAIN report : report[i] = "created"

Journal ==
    /\ SchemaDue
    /\ LET written == SchemaOf(live) \cup (disk \ Types) IN
       \/ /\ Changed => ~broken
          /\ disk' = IF Changed THEN written ELSE disk
          /\ report' = [i \in DOMAIN report \cup {"schema"} |->
                           IF i = "schema" THEN "skipped" ELSE report[i]]
          /\ UNCHANGED <<live, broken, pos>>
       \/ /\ Changed /\ AppendFails(written)
          /\ live' = RolledBack /\ report' = << >> /\ Finish
    /\ UNCHANGED <<strict, refs, baseline, served>>

(* An entity of that name: by the request's own refs, or in the graph.     *)
Resolves(end) == end \in refs \/ (end \notin ByRef(Item) /\ end \in live)

Prepared(merge) ==
    IF Item \in Concepts
    THEN "type" \in live /\ (Item \in live => merge)
    ELSE /\ Item = "link" => "rtype" \in live
         \* an end of a rule that is not found is left out
         /\ Item # "rule" => \A end \in Ends(Item) : Resolves(end)

(* prepare, append, apply; the ref is known once all three are done.       *)
WriteInstance ==
    /\ Running /\ Item \notin Types
    /\ \E merge \in BOOLEAN :
          \/ /\ Prepared(merge) /\ ~broken
             /\ disk' = disk \cup {Item} /\ live' = live \cup {Item}
             /\ refs' = IF Item \in Concepts THEN refs \cup {Item} ELSE refs
             /\ Answer(IF merge /\ Item \in Concepts \cap live THEN "merged" ELSE "created")
             /\ Advance
             /\ UNCHANGED <<broken, strict, baseline, served>>
          \/ /\ Prepared(merge) /\ AppendFails(disk \cup {Item})
             /\ Answer("failed")
             /\ IF strict THEN Finish ELSE Advance
             /\ UNCHANGED <<live, strict, refs, baseline, served>>
          \/ Refuse

End ==
    /\ pos = Len(Items) + 1 /\ Finish
    /\ UNCHANGED <<live, disk, broken, strict, refs, baseline, report, served>>

(* The process dies, at any moment, and starts again from the journal.     *)
Restart ==
    /\ live' = disk /\ broken' = FALSE /\ Finish
    /\ refs' = {} /\ baseline' = {} /\ report' = << >>
    /\ UNCHANGED <<disk, strict, served>>

RNext == Apply \/ Skip \/ DeclareType \/ Journal \/ WriteInstance \/ End \/ Restart

RSpec == RInit /\ [][RNext]_rvars

---------------------------------------------------------------------------
(* The types of a request are served before they are journaled.            *)
Typing == pos \in {1, 2} \/ SchemaDue

(* What a replay needs of a set of items: the type of an instance and what *)
(* a relation or an action is about.                                       *)
Grounded(g) ==
    /\ \A i \in g : i \in Concepts \cup {"link", "act"} => "type" \in g
    /\ "link" \in g => "rtype" \in g /\ Concepts \subseteq g
    /\ "act" \in g => "c1" \in g

(* At every moment, whatever was refused, failed, aborted or cut off by a  *)
(* crash: a start can replay the journal; nothing but the types of a       *)
(* request that has not journaled them is served and would be lost; the    *)
(* journal holds nothing more than is served, unless an append failed; and *)
(* what the report of a request calls created or merged, types included,   *)
(* is served and on disk.  Left out is the report of a strict request that *)
(* stops among the types: it goes on calling created the types it has      *)
(* taken back, as coverage_ingest_review.rs expects of it.                 *)
ReviewDurable ==
    /\ Grounded(disk)
    /\ live \ disk \subseteq (IF Typing THEN Types ELSE {})
    /\ broken \/ disk \subseteq live
    /\ "schema" \in DOMAIN report => DOMAIN report \ {"schema"} \subseteq live \cap disk

==============================================================================
