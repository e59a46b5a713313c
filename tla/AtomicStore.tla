---------------------------- MODULE AtomicStore ----------------------------
(***************************************************************************)
(* What a store is for a caller who never sees its files: a table from     *)
(* entities to their newest version (0: no such entity).  A write or a     *)
(* deletion that returns Ok changes one row; nothing else ever changes the *)
(* table -- not a compaction, not a crash, not a restart.                  *)
(***************************************************************************)
EXTENDS Naturals

CONSTANTS Keys, Versions

VARIABLE table

Init == table = [k \in Keys |-> 0]

Write(k, v) == table' = [table EXCEPT ![k] = v]

Next == \E k \in Keys, v \in Versions \cup {0} : v # table[k] /\ Write(k, v)

Spec == Init /\ [][Next]_table

===========================================================================
