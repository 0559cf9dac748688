------------------------------ MODULE MCCdcPlan ------------------------------
(***************************************************************************)
(* Values of CdcPlan's constants for TLC.                                  *)
(***************************************************************************)
EXTENDS CdcPlan

ThreeSequences == 1 .. 3
==============================================================================
