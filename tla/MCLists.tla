------------------------------- MODULE MCLists -------------------------------
(***************************************************************************)
(* A small instance of ListPages: two entities, pages of one row.          *)
(***************************************************************************)
EXTENDS ListPages

ThreeIds == 1 .. 3
TwoIds   == 1 .. 2

==============================================================================
