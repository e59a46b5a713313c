--------------------------- MODULE MCCompaction ---------------------------
(***************************************************************************)
(* Small instances of Compaction for TLC: o is the ontology, in `meta',    *)
(* b and c are entities of the default domain.                             *)
(***************************************************************************)
EXTENDS Compaction

CONSTANTS o, b, c

TwoStreams == {0, 1}
TwoKeys    == {o, b}
HomeOfTwo  == [k \in {o, b} |-> IF k = o THEN 0 ELSE 1]
AllKeys    == {o, b, c}
HomeOfAll  == [k \in {o, b, c} |-> IF k = o THEN 0 ELSE 1]

===========================================================================
