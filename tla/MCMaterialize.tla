---------------------------- MODULE MCMaterialize ----------------------------
(***************************************************************************)
(* Values of Materialize's constants for TLC.                              *)
(***************************************************************************)
EXTENDS Materialize

CONSTANTS m1, m2, t1, t2   \* model values

PoisonSecond == {<<t1, 1>>}
==============================================================================
