---------------------------- MODULE MCQuarantine ----------------------------
(***************************************************************************)
(* Values of Quarantine's constants for TLC.                               *)
(***************************************************************************)
EXTENDS Quarantine

FourRows == 1 .. 4
OldAndNew == {"old", "new"}

\* A file with a row both versions accept, one the new columns accept, and one
\* nothing accepts; a file whose only row the new columns refuse.
TwoOriginals == {<<OldAndNew, {"new"}, {}>>, [r \in {4} |-> {"old"}]}

\* A configuration of Strict Mode, of one bad row at most, of two thirds of the rows
\* at most; Strict Mode is for the new columns only.
Policy(version, strict, rows, fraction) ==
    [version |-> version, strict |-> strict,
     max_invalid_rows |-> rows, max_invalid_fraction |-> fraction]

Configs == {Policy("new", TRUE, None, None)}
           \cup {Policy(v, FALSE, 1, None) : v \in Version}
           \cup {Policy(v, FALSE, None, <<2, 3>>) : v \in Version}
==============================================================================
