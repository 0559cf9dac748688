------------------------------ MODULE Quarantine ------------------------------
(***************************************************************************)
(* Dead-Letter Quarantine (src/filedge/quarantine/, loader.py,             *)
(* pipeline.py; ADR-0019): a Run loads the good rows of a file, sets the   *)
(* bad ones aside in a sidecar beside the destination, and refuses the     *)
(* file as a whole when too many are bad; an operator turns a sidecar into *)
(* a new file, corrects it and drops it (`filedge redrop-quarantine`).     *)
(*                                                                         *)
(* A file's rows are in three stores that no transaction spans: the        *)
(* destination, the sidecar and the Audit Record.  The steps of a Run are  *)
(* separated between them.  One worker; FiledgeRun is about several.       *)
(*                                                                         *)
(* A content is what its hash stands for: which rows it has, and, for      *)
(* each of them, the versions of pipeline.yaml's columns (and keys) under  *)
(* which transform_row and Field Encryption accept it.                     *)
(***************************************************************************)
EXTENDS Naturals, FiniteSets, Functions

CONSTANTS
    RowNumber,  \* the rows upstream tools produce, named by their order
    Version,    \* the versions of the columns that an operator has deployed
    Original,   \* the contents that arrive from upstream
    Config,     \* what a Run may load from pipeline.yaml: version and policy
    Kind,       \* destinations: "sql" replaces a hash, "databricks" keeps it
    Careful,    \* operators drop what the Audit Record lists, once
    Stable,     \* columns are not edited over a destination that keeps a hash
    MaxFaults,  \* bound: crashes, disk errors, errors after a commit
    None        \* no limit, no file

Content == UNION {[R -> SUBSET Version] : R \in (SUBSET RowNumber) \ {{}}}

\* _parse_quarantine_config: no quarantine block is Strict Mode; an enabled one
\* has a limit on the bad rows, on their fraction, or both.
ValidConfig(g) ==
    /\ g.version \in Version
    /\ g.strict \in BOOLEAN
    /\ g.max_invalid_rows \in Nat \cup {None}
    /\ g.max_invalid_fraction # None =>
           g.max_invalid_fraction[1] <= g.max_invalid_fraction[2]
    /\ ~g.strict => g.max_invalid_rows # None \/ g.max_invalid_fraction # None

ASSUME QuarantineAssumption ==
    /\ RowNumber \subseteq Nat /\ IsFiniteSet(RowNumber)
    /\ Original \subseteq Content
    /\ \A c, d \in Original : c # d => DOMAIN c \cap DOMAIN d = {}
    /\ \A g \in Config : ValidConfig(g)
    /\ Kind \subseteq {"sql", "databricks"}
    /\ Careful \in BOOLEAN /\ Stable \in BOOLEAN
    /\ MaxFaults \in Nat

VARIABLES
    kind,      \* the destination's kind
    config,    \* the configuration of the Run, or of the last one
    landing,   \* the contents in the Watched Directory
    audit,     \* etl_file_audit: content -> its Audit Record
    dest,      \* the committed rows, each with its _source_file_hash
    sidecars,  \* content -> the whole lines of its sidecar; a last, torn one
    outputs,   \* content -> the rows of the .redrop.ndjson made from it
    taken,     \* the contents whose output was dropped
    pc,        \* where the Run is
    todo,      \* registration.load_candidates not claimed yet
    cur,       \* the file being loaded
    faults,    \* crashes, disk errors and errors after a commit so far
    disturbed  \* history: the contents on which something failed that the file
               \* is not to blame for, after the destination's commit

run_vars == <<pc, todo, cur>>
operator_vars == <<landing, outputs, taken>>
fault_vars == <<faults, disturbed>>
vars == <<kind, config, landing, audit, dest, sidecars, outputs, taken, pc,
          todo, cur, fault_vars>>

-----------------------------------------------------------------------------
PC == {"idle",     \* between Runs
       "running",  \* between files
       "loading",  \* claimed; the destination's transaction is not committed
       "landed",   \* it is, and there are bad rows to set aside
       "open",     \* the sidecar is open for writing
       "loaded",   \* load_file returned without an error
       "errored"}  \* load_file returned an error

Loading == pc \in {"loading", "landed", "open", "loaded", "errored"}

Put(f, x, v) == [y \in DOMAIN f \cup {x} |-> IF y = x THEN v ELSE f[y]]
Remove(f, x) == Restrict(f, DOMAIN f \ {x})

\* quarantining_rows: the rows it yields and those it gives to the sink.
Good(c) == {r \in DOMAIN c : config.version \in c[r]}
Bad(c) == DOMAIN c \ Good(c)

\* QuarantineConfig.is_over_threshold.
IsOverThreshold(invalid, total) ==
    \/ config.max_invalid_rows # None /\ invalid > config.max_invalid_rows
    \/ /\ config.max_invalid_fraction # None /\ total > 0
       /\ invalid * config.max_invalid_fraction[2] > config.max_invalid_fraction[1] * total

\* In Strict Mode the first bad row raises; else the end of the file may.
Raises(c) ==
    IF config.strict THEN Bad(c) # {}
    ELSE IsOverThreshold(Cardinality(Bad(c)), Cardinality(DOMAIN c))

RowsOf(c) == {r \in RowNumber : <<c, r>> \in dest}

\* A row of the Audit DB, without what mark_committed adds to it.
Record(state) == [state |-> state, row_count |-> 0, quarantined_row_count |-> 0,
                  quarantine_path |-> FALSE]

-----------------------------------------------------------------------------
Init ==
    /\ kind \in Kind /\ config \in Config
    /\ landing = {} /\ audit = <<>> /\ dest = {}
    /\ sidecars = <<>> /\ outputs = <<>> /\ taken = {}
    /\ pc = "idle" /\ todo = {} /\ cur = None
    /\ faults = 0 /\ disturbed = {}

\* An upstream tool drops a file.
Arrive(c) ==
    /\ c \in Original \ landing
    /\ landing' = landing \cup {c}
    /\ UNCHANGED <<kind, config, audit, dest, sidecars, outputs, taken, run_vars, fault_vars>>

-----------------------------------------------------------------------------
(***************************************************************************)
(* One Run.                                                                *)
(***************************************************************************)

\* Variant: COMMITTED files are released as well.
ReleaseAll(c) == TRUE

\* reset_eligible_failed and reclaim_stale_processing; the retry cap and the
\* age of a claim are FiledgeRun's.
Released(c) == audit[c].state \in {"FAILED", "PROCESSING"}

\* load_config, release, scan and registration.
StartRun ==
    /\ pc = "idle"
    /\ config' \in Config
    /\ Stable /\ kind = "databricks" => config'.version = config.version
    /\ audit' = [c \in landing |-> IF c \notin DOMAIN audit \/ Released(c)
                                   THEN Record("PENDING") ELSE audit[c]]
    /\ todo' = {c \in landing : audit'[c].state = "PENDING"}
    /\ pc' = "running"
    /\ UNCHANGED <<kind, operator_vars, dest, sidecars, cur, fault_vars>>

Claim(c) ==
    /\ pc = "running" /\ c \in todo
    /\ audit' = [audit EXCEPT ![c] = Record("PROCESSING")]
    /\ todo' = todo \ {c} /\ cur' = c /\ pc' = "loading"
    /\ UNCHANGED <<kind, config, operator_vars, dest, sidecars, fault_vars>>

\* Variant: the threshold is looked at after the destination's commit.
RejectLate ==
    /\ pc = "loading" /\ Raises(cur)
    /\ dest' = dest \cup {<<cur, r>> : r \in Good(cur)}
    /\ pc' = "errored"
    /\ UNCHANGED <<kind, config, operator_vars, audit, sidecars, todo, cur, fault_vars>>

\* A TransformError, or QuarantineThresholdExceeded, comes out of the iterator
\* that the connector reads: its transaction is rolled back, the sink discarded.
Reject ==
    /\ pc = "loading" /\ Raises(cur)
    /\ pc' = "errored"
    /\ UNCHANGED <<kind, config, operator_vars, audit, dest, sidecars, todo, cur, fault_vars>>

\* The connector fails before its commit.
LoadFails ==
    /\ pc = "loading"
    /\ pc' = "errored"
    /\ UNCHANGED <<kind, config, operator_vars, audit, dest, sidecars, todo, cur, fault_vars>>

\* write_rows: DELETE by hash and INSERT; the MERGE of Databricks (like the job
\* id of BigQuery) does nothing when rows of the hash are there.
CommitRows ==
    IF kind = "databricks" /\ RowsOf(cur) # {}
    THEN UNCHANGED dest
    ELSE dest' = {cr \in dest : cr[1] # cur} \cup {<<cur, r>> : r \in Good(cur)}

LandRows ==
    /\ pc = "loading" /\ ~Raises(cur)
    /\ CommitRows
    /\ pc' = IF Bad(cur) = {} THEN "loaded" ELSE "landed"
    /\ UNCHANGED <<kind, config, operator_vars, audit, sidecars, todo, cur, fault_vars>>

\* write_rows raises although the destination has committed: the staging table or
\* file cannot be removed, or the answer to the commit is lost.
LandsAndFails ==
    /\ pc = "loading" /\ ~Raises(cur) /\ faults < MaxFaults
    /\ CommitRows
    /\ pc' = "errored"
    /\ faults' = faults + 1 /\ disturbed' = disturbed \cup {cur}
    /\ UNCHANGED <<kind, config, operator_vars, audit, sidecars, todo, cur>>

\* Variant: the sidecar is opened for appending.
OpenSidecarToAppend ==
    /\ pc = "landed"
    /\ sidecars' = IF cur \in DOMAIN sidecars THEN sidecars
                   ELSE Put(sidecars, cur, [rows |-> {}, torn |-> FALSE])
    /\ pc' = "open"
    /\ UNCHANGED <<kind, config, operator_vars, audit, dest, todo, cur, fault_vars>>

\* finalize: open(path, "w") empties what an earlier attempt left there.
OpenSidecar ==
    /\ pc = "landed"
    /\ sidecars' = Put(sidecars, cur, [rows |-> {}, torn |-> FALSE])
    /\ pc' = "open"
    /\ UNCHANGED <<kind, config, operator_vars, audit, dest, todo, cur, fault_vars>>

WriteSidecar ==
    /\ pc = "open"
    /\ sidecars' = [sidecars EXCEPT ![cur].rows = @ \cup Bad(cur)]
    /\ pc' = "loaded"
    /\ UNCHANGED <<kind, config, operator_vars, audit, dest, todo, cur, fault_vars>>

\* A write that stops has written its first lines, and perhaps part of one.
CutSidecar ==
    \E last \in RowNumber \cup {0}, torn \in BOOLEAN :
        LET written == {r \in Bad(cur) : r <= last}
        IN  /\ torn => written # Bad(cur)
            /\ sidecars' = [sidecars EXCEPT ![cur] = [rows |-> @.rows \cup written,
                                                      torn |-> @.torn \/ torn]]

\* The disk fails under finalize: load_file reports an error, although the
\* destination has committed.
FinalizeFails ==
    /\ faults < MaxFaults
    /\ \/ pc = "landed" /\ UNCHANGED sidecars
       \/ pc = "open" /\ CutSidecar
    /\ pc' = "errored"
    /\ faults' = faults + 1 /\ disturbed' = disturbed \cup {cur}
    /\ UNCHANGED <<kind, config, operator_vars, audit, dest, todo, cur>>

\* Variant: the claim is not let go.
RecordAndKeep ==
    /\ \/ /\ pc = "loaded"
          /\ audit' = [audit EXCEPT ![cur] = [Record("COMMITTED") EXCEPT
                 !.row_count = Cardinality(Good(cur))]]
       \/ /\ pc = "errored"
          /\ audit' = [audit EXCEPT ![cur] = Record("FAILED")]
    /\ pc' = "running"
    /\ UNCHANGED <<kind, config, operator_vars, dest, sidecars, todo, cur, fault_vars>>

\* run_pipeline: mark_committed with what load_file counted, or mark_failed.
RecordOutcome ==
    /\ \/ /\ pc = "loaded"
          /\ audit' = [audit EXCEPT ![cur] =
                 [state |-> "COMMITTED",
                  row_count |-> Cardinality(Good(cur)),
                  quarantined_row_count |-> Cardinality(Bad(cur)),
                  quarantine_path |-> Bad(cur) # {}]]
       \/ /\ pc = "errored"
          /\ audit' = [audit EXCEPT ![cur] = Record("FAILED")]
    /\ pc' = "running" /\ cur' = None
    /\ UNCHANGED <<kind, config, operator_vars, dest, sidecars, todo, fault_vars>>

EndRun ==
    /\ pc = "running" /\ todo = {}
    /\ pc' = "idle"
    /\ UNCHANGED <<kind, config, operator_vars, audit, dest, sidecars, todo, cur, fault_vars>>

\* The process is killed: an open transaction is rolled back, a sidecar that is
\* being written stays as it is.
Crash ==
    /\ pc # "idle" /\ faults < MaxFaults
    /\ IF pc = "open" THEN CutSidecar ELSE UNCHANGED sidecars
    /\ pc' = "idle" /\ todo' = {} /\ cur' = None
    /\ faults' = faults + 1
    /\ disturbed' = IF pc \in {"landed", "open", "loaded"} THEN disturbed \cup {cur}
                                                         ELSE disturbed
    /\ UNCHANGED <<kind, config, operator_vars, audit, dest>>

-----------------------------------------------------------------------------
(***************************************************************************)
(* The operator.                                                           *)
(***************************************************************************)

\* redrop-quarantine: write the rows out as NDJSON; a line that does not parse
\* removes the output.  The command looks at nothing but the sidecar.
Redrop(c) ==
    /\ c \in DOMAIN sidecars
    /\ outputs' = IF sidecars[c].torn THEN Remove(outputs, c)
                  ELSE Put(outputs, c, sidecars[c].rows)
    /\ UNCHANGED <<kind, config, landing, audit, dest, sidecars, taken, run_vars, fault_vars>>

\* An operator who takes the path from the Audit Record, after the Run has
\* recorded it, and who does not take it twice.
Due(c) ==
    /\ c \in DOMAIN audit \ taken
    /\ audit[c].state = "COMMITTED" /\ audit[c].quarantine_path
    /\ outputs[c] = sidecars[c].rows

\* The operator corrects some of the rows, for all versions of the columns, and
\* moves the file to the Watched Directory.
Drop(c, corrected) ==
    /\ c \in DOMAIN outputs /\ outputs[c] # {}
    /\ Careful => Due(c)
    /\ LET redropped == [r \in outputs[c] |-> IF r \in corrected THEN Version ELSE c[r]]
       IN  /\ redropped \notin landing
           /\ landing' = landing \cup {redropped}
    /\ outputs' = Remove(outputs, c)
    /\ taken' = taken \cup {c}
    /\ UNCHANGED <<kind, config, audit, dest, sidecars, run_vars, fault_vars>>

-----------------------------------------------------------------------------
Next ==
    \/ \E c \in Original : Arrive(c)
    \/ StartRun
    \/ \E c \in todo : Claim(c)
    \/ Reject \/ LoadFails \/ LandRows \/ LandsAndFails
    \/ OpenSidecar \/ WriteSidecar \/ FinalizeFails
    \/ RecordOutcome \/ EndRun \/ Crash
    \/ \E c \in DOMAIN sidecars : Redrop(c)
    \/ \E c \in DOMAIN outputs : \E corrected \in SUBSET outputs[c] : Drop(c, corrected)

Spec == Init /\ [][Next]_vars

-----------------------------------------------------------------------------
(***************************************************************************)
(* Properties.                                                             *)
(***************************************************************************)

AuditRecord == [state : {"PENDING", "PROCESSING", "COMMITTED", "FAILED"},
                row_count : Nat, quarantined_row_count : Nat,
                quarantine_path : BOOLEAN]

\* The variables have the shapes the code gives them; a Run has a file in hand
\* exactly while it loads one, and that file is PROCESSING.
TypeOK ==
    /\ kind \in Kind /\ config \in Config
    /\ landing \subseteq Content
    /\ DOMAIN audit \subseteq landing
    /\ \A c \in DOMAIN audit : audit[c] \in AuditRecord
    /\ dest \subseteq landing \X RowNumber
    /\ DOMAIN sidecars \subseteq DOMAIN audit
    /\ \A c \in DOMAIN sidecars : sidecars[c] \in [rows : SUBSET DOMAIN c, torn : BOOLEAN]
    /\ DOMAIN outputs \subseteq DOMAIN sidecars
    /\ \A c \in DOMAIN outputs : outputs[c] \subseteq DOMAIN c
    /\ taken \subseteq DOMAIN sidecars
    /\ pc \in PC
    /\ todo \subseteq DOMAIN audit
    /\ IF Loading THEN cur \in DOMAIN audit /\ audit[cur].state = "PROCESSING"
                  ELSE cur = None
    /\ faults \in 0 .. MaxFaults /\ disturbed \subseteq landing

\* ADR-0019's "committed + quarantined = total", in the three stores: the record
\* of a COMMITTED file counts the rows that are in the destination and those that
\* are not, and when there are any of these it names a sidecar that is whole and
\* holds exactly them, whatever attempts were cut short before.
CommittedIsAccounted ==
    \A c \in DOMAIN audit : audit[c].state = "COMMITTED" =>
        LET missing == DOMAIN c \ RowsOf(c)
        IN  /\ audit[c].row_count = Cardinality(RowsOf(c))
            /\ audit[c].quarantined_row_count = Cardinality(missing)
            /\ audit[c].quarantine_path <=> missing # {}
            /\ missing # {} => /\ c \in DOMAIN sidecars
                               /\ sidecars[c] = [rows |-> missing, torn |-> FALSE]

\* The files that answer for a row: those that hold it and are not COMMITTED,
\* the one that landed it, the one whose sidecar it waits in.
AnswersFor(c, r) ==
    IF c \in DOMAIN audit /\ audit[c].state = "COMMITTED"
    THEN r \in RowsOf(c) \/ (audit[c].quarantine_path /\ c \notin taken /\ r \in sidecars[c].rows)
    ELSE r \in DOMAIN c

\* No row is lost and none lands twice, through rejections, retries under edited
\* columns and other limits, half-written sidecars, and corrections that are
\* quarantined again: one file answers for each row that has arrived.
RowInOnePlace ==
    \A c \in Original \cap landing : \A r \in DOMAIN c :
        Cardinality({d \in landing : AnswersFor(d, r)}) = 1

\* What Strict Mode, the threshold or the connector refuses has landed nothing and
\* has left no sidecar, before its retry and after it has been released, whatever
\* happens to other files: rows of a file that is not COMMITTED are those of an
\* attempt at this very file that was killed, or failed on the disk or in its
\* connector, after the destination's commit.
CleanFailure ==
    \A c \in DOMAIN audit \ disturbed :
        audit[c].state \in {"FAILED", "PENDING"} =>
            RowsOf(c) = {} /\ c \notin DOMAIN sidecars

\* "FAILED means nothing landed" (ADR-0019) without the condition.
FailedMeansNothing ==
    \A c \in DOMAIN audit : audit[c].state = "FAILED" => RowsOf(c) = {}

\* A sidecar is there only if its file committed with quarantined rows (the
\* docstring of QuarantineSink), between Runs.
SidecarMeansQuarantine ==
    pc = "idle" => \A c \in DOMAIN sidecars : audit[c].quarantine_path
==============================================================================
