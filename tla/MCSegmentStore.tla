-------------------------- MODULE MCSegmentStore --------------------------
(***************************************************************************)
(* Small instances of SegmentStore for TLC.  Key a is a schema entity (its *)
(* records go to `meta'), b one of the default domain, c one of a domain   *)
(* the manifest does not know yet.                                         *)
(***************************************************************************)
EXTENDS SegmentStore

CONSTANTS a, b, c

TwoStreams   == {0, 1}
ThreeStreams == {0, 1, 2}

TwoKeys    == {a, b}
HomeOfTwo  == [k \in {a, b} |-> IF k = a THEN 0 ELSE 1]
LateKeys   == {b, c}
HomeOfLate == [k \in {b, c} |-> IF k = b THEN 1 ELSE 2]

===========================================================================
