----------------------------- MODULE MCFiledgeRun -----------------------------
(***************************************************************************)
(* Values of FiledgeRun's constants for TLC.                               *)
(***************************************************************************)
EXTENDS FiledgeRun, TLC

CONSTANTS w1, w2, o1, o2   \* model values

OneHash == {"h1"}
TwoHashes == {"h1", "h2"}

\* One file; two files; two files with the same content.
OnePath == {1}
TwoPaths == {1, 2}
OneFile == <<"h1">>
DistinctFiles == <<"h1", "h2">>
SameContent == <<"h1", "h1">>

\* Workers and operators are interchangeable.
WorkerSymmetry == Permutations(Worker)
ActorSymmetry == Permutations(Worker) \cup Permutations(Operator)
==============================================================================
