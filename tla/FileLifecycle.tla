---------------------------- MODULE FileLifecycle ----------------------------
(***************************************************************************)
(* What filedge promises about a file (CONTEXT.md, "File States", and the  *)
(* state machine of src/filedge/db.py), with no workers, clocks, scans or  *)
(* transactions: a file moves through four states, its rows land only      *)
(* while it is PROCESSING, the destination holds them once or not at all,  *)
(* and COMMITTED, reached only after they landed, is final.                *)
(***************************************************************************)
EXTENDS Naturals

CONSTANT Hash

VARIABLES state,   \* hash -> the File State, "ABSENT" before registration
          copies   \* hash -> how often its rows are in the destination

lifecycle_vars == <<state, copies>>

LifecycleInit ==
    /\ state = [h \in Hash |-> "ABSENT"]
    /\ copies = [h \in Hash |-> 0]

Move(H, to) == state' = [h \in Hash |-> IF h \in H THEN to ELSE state[h]]

In(s) == {h \in Hash : state[h] = s}

\* A Run registers what it scanned for the first time.
Register(H) == H \subseteq In("ABSENT") /\ Move(H, "PENDING") /\ UNCHANGED copies

\* A worker takes a file, alone.
Take(h) == h \in In("PENDING") /\ Move({h}, "PROCESSING") /\ UNCHANGED copies

\* The destination commits the rows of a file; a retry replaces them.
Land(h) == h \in In("PROCESSING") /\ copies' = [copies EXCEPT ![h] = 1] /\ UNCHANGED state

Commit(h) ==
    /\ h \in In("PROCESSING") /\ copies[h] = 1
    /\ Move({h}, "COMMITTED") /\ UNCHANGED copies

Fail(h) == h \in In("PROCESSING") /\ Move({h}, "FAILED") /\ UNCHANGED copies

\* Files whose attempt failed, or whose worker is gone, wait again: at the start
\* of a Run or at an operator's request.
Release(H) ==
    /\ H \subseteq In("FAILED") \cup In("PROCESSING")
    /\ Move(H, "PENDING") /\ UNCHANGED copies

LifecycleNext ==
    \/ \E H \in SUBSET Hash : Register(H) \/ Release(H)
    \/ \E h \in Hash : Take(h) \/ Land(h) \/ Commit(h) \/ Fail(h)

Lifecycle == LifecycleInit /\ [][LifecycleNext]_lifecycle_vars
==============================================================================
