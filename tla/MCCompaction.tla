----------------------------- MODULE MCCompaction -----------------------------
(***************************************************************************)
(* Values of Compaction's constants for TLC.                               *)
(***************************************************************************)
EXTENDS Compaction

FourFiles == 1 .. 4
ThreeFiles == 1 .. 3
NoFile == {}
ThirdFile == {3}
==============================================================================
