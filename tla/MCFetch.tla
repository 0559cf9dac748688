------------------------------- MODULE MCFetch -------------------------------
(***************************************************************************)
(* Values of Fetch's constants for TLC.                                    *)
(***************************************************************************)
EXTENDS Fetch

CONSTANTS f1, f2   \* model values

TwoRecords == {1, 2}
==============================================================================
