------------------------------- MODULE AuditDb -------------------------------
(***************************************************************************)
(* The Audit DB of filedge (src/filedge/db.py): the table etl_file_audit,  *)
(* one row per content hash, and one operator per SQL statement that reads *)
(* or writes the row's lifecycle.  A table is a function from hashes to    *)
(* rows; an operator returns the table after the statement.  Statements    *)
(* that the code runs before one db.commit() are composed by the callers.  *)
(*                                                                         *)
(* claimed_at is kept as the AGE of the claim, because the code only ever  *)
(* compares now - claimed_at with the stale timeout, and only while the    *)
(* row is PROCESSING.  The age stops at StaleTimeout + 1, "stale".         *)
(***************************************************************************)
EXTENDS Naturals

CONSTANTS Hash,          \* the content hashes a file may have
          RetryCap,      \* pipeline.yaml: retry_cap
          StaleTimeout   \* pipeline.yaml: stale_timeout_minutes, in ticks

\* load_config takes both settings as they stand; a cap of 0 or a timeout of 0
\* is legal.
ASSUME AuditDbAssumption ==
    /\ RetryCap \in Nat
    /\ StaleTimeout \in Nat

(***************************************************************************)
(* Rows.  "ABSENT" stands for a hash that has no row.                      *)
(***************************************************************************)
FileState == {"PENDING", "PROCESSING", "COMMITTED", "FAILED"}

Row == [state : FileState \cup {"ABSENT"},
        attempt_count : Nat,
        claim_age : 0 .. StaleTimeout + 1,
        metadata : {"none", "recorded"}]   \* the Source Manifest of the row

NoRow == [state |-> "ABSENT", attempt_count |-> 0, claim_age |-> 0,
          metadata |-> "none"]

EmptyTable == [h \in Hash |-> NoRow]

\* Variants (here and below): what a slip in the definition that follows would
\* make of it.  The runs must tell each from the code.
TerminalWhateverState(row, cap) == row.state # "PROCESSING" /\ row.attempt_count >= cap
RetryableAtCap(row, cap) == row.state = "FAILED" /\ row.attempt_count <= cap
StaleAtTimeout(row) == row.state = "PROCESSING" /\ row.claim_age >= StaleTimeout

IsTerminalFailed(row, cap) == row.state = "FAILED" /\ row.attempt_count >= cap
IsRetryableFailed(row, cap) == row.state = "FAILED" /\ row.attempt_count < cap
IsStale(row) == row.state = "PROCESSING" /\ row.claim_age > StaleTimeout

(***************************************************************************)
(* What each statement's SET clause does to a row.                         *)
(***************************************************************************)
NewRow(hasManifest) ==
    [state |-> "PENDING", attempt_count |-> 0, claim_age |-> 0,
     metadata |-> IF hasManifest THEN "recorded" ELSE "none"]

InState(row, state) == [row EXCEPT !.state = state, !.claim_age = 0]
CountAttempt(row) == [row EXCEPT !.attempt_count = @ + 1]
FreshBudget(row) == [row EXCEPT !.attempt_count = 0]
Older(row) == [row EXCEPT !.claim_age = @ + 1]

(***************************************************************************)
(* Statements.                                                             *)
(***************************************************************************)

\* insert_pending for every hash of `new`, with `withManifest` those whose
\* manifest parsed: a no-op on a hash that already has a row.
InsertPending(table, new, withManifest) ==
    [h \in Hash |-> IF h \in new /\ table[h].state = "ABSENT"
                    THEN NewRow(h \in withManifest) ELSE table[h]]

\* Variant: the WHERE clause only keeps two workers apart.
CanClaimUnlessProcessing(table, h) == table[h].state # "PROCESSING"

\* claim_processing reports success when it changed one row.
CanClaim(table, h) == table[h].state = "PENDING"

ClaimProcessing(table, h) ==
    IF CanClaim(table, h)
    THEN [table EXCEPT ![h] = InState(@, "PROCESSING")]
    ELSE table

\* mark_committed and mark_failed name the row by its hash alone.
MarkCommitted(table, h) == [table EXCEPT ![h] = InState(@, "COMMITTED")]

MarkFailed(table, h) ==
    [table EXCEPT ![h] = CountAttempt(InState(@, "FAILED"))]

\* Variants: the reset forgets the cap; the reclaim is never called.
ResetAllAndReclaim(table) ==
    [h \in Hash |->
        CASE table[h].state = "FAILED" -> InState(table[h], "PENDING")
          [] IsStale(table[h]) -> CountAttempt(InState(table[h], "PENDING"))
          [] OTHER -> table[h]]

ResetOnly(table) ==
    [h \in Hash |-> IF IsRetryableFailed(table[h], RetryCap)
                    THEN InState(table[h], "PENDING") ELSE table[h]]

\* reset_eligible_failed then reclaim_stale_processing, one transaction at the
\* start of every Run.  The two WHERE clauses exclude each other.
ResetAndReclaim(table) ==
    [h \in Hash |->
        CASE IsRetryableFailed(table[h], RetryCap) -> InState(table[h], "PENDING")
          [] IsStale(table[h]) -> CountAttempt(InState(table[h], "PENDING"))
          [] OTHER -> table[h]]

\* requeue_by_hash: no condition on the state it leaves.
RequeueByHash(table, h) ==
    [table EXCEPT ![h] = FreshBudget(InState(@, "PENDING"))]

\* requeue_all_terminal_failed: one conditional UPDATE.
RequeueAllTerminalFailed(table, cap) ==
    [h \in Hash |-> IF IsTerminalFailed(table[h], cap)
                    THEN FreshBudget(InState(table[h], "PENDING"))
                    ELSE table[h]]

\* Time passes: every claim that is not yet stale gets older.
AgeClaims(table) ==
    [h \in Hash |-> IF table[h].state = "PROCESSING" /\ ~IsStale(table[h])
                    THEN Older(table[h]) ELSE table[h]]
==============================================================================
