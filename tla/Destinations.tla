---------------------------- MODULE Destinations ----------------------------
(***************************************************************************)
(* What the Connectors do to the destination table (src/filedge/           *)
(* connectors), one level below FiledgeRun, where a load lands in one step.*)
(* One loader at a time takes the files in path order, as run_pipeline     *)
(* does; it can fail or crash between two statements, and a BigQuery job   *)
(* it started runs on without it.  A connector kind and a write mode are   *)
(* drawn in Init and kept.                                                 *)
(*                                                                         *)
(*   "sql"         sqlite, postgres, snowflake (sql_base.py) and duckdb:   *)
(*                 one transaction                                         *)
(*   "databricks"  statements that commit by themselves                    *)
(*   "bigquery"    load jobs and a script, run by the server               *)
(*                                                                         *)
(* Rows are abstracted to what tells files apart: in append and truncate   *)
(* mode, how many copies of a file's rows the table has; in cdc mode, for  *)
(* each business key, the file that wrote its current row.                 *)
(***************************************************************************)
EXTENDS Integers, Sequences, FiniteSets

CONSTANTS
    File,        \* the files, named by their sort order
    Key,         \* business keys
    Puts,        \* the keys a file inserts or updates, after cdc.py's planning
    Deletes,     \* the keys it deletes
    NoFile,      \* no row has the key; no file is being loaded
    Setups,      \* the pairs <<kind, writeMode>> to consider
    Foreign,     \* files whose job id another dataset of the project has used
    MaxFaults,   \* bound: errors, crashes and failed jobs together
    MaxJobs      \* bound: load jobs of one file

ASSUME DestinationsAssumption ==
    /\ File \subseteq Nat \ {0}
    /\ Puts \in [File -> SUBSET Key]
    /\ Deletes \in [File -> SUBSET Key]
    /\ \A f \in File : Puts[f] \cap Deletes[f] = {}
    /\ NoFile \notin File
    /\ Setups \subseteq {"sql", "databricks", "bigquery"}
                         \X {"append", "truncate", "cdc"}
    /\ Foreign \subseteq File
    /\ MaxFaults \in Nat /\ MaxJobs \in Nat \ {0}

VARIABLES
    kind,        \* connector.type
    writeMode,   \* write_mode
    arrived,     \* the files in the Watched Directory
    committed,   \* those that are COMMITTED in the Audit DB
    pc,          \* where the loader is
    todo,        \* the files of this Run that are not finished
    cur,         \* the file being loaded
    job,         \* the load job the loader waits for
    copies,      \* append, truncate: complete copies of the rows of a file
    row,         \* cdc: the file that wrote the row of a key
    applied,     \* cdc: the files that have an Applied File Marker
    jobs,        \* BigQuery: the load jobs of a file, by number
    scripts,     \* BigQuery: the files whose CDC script runs
    faults,      \* faults so far
    times,       \* history: how often the changes of a file were applied
    furthest,    \* history: the last file, in path order, begun so far
    disordered   \* history: a file was begun after a later one

setup_vars == <<kind, writeMode>>
table_vars == <<copies, row, applied, times>>
server_vars == <<jobs, scripts>>
order_vars == <<furthest, disordered>>
vars == <<setup_vars, arrived, committed, pc, todo, cur, job, table_vars,
          server_vars, faults, order_vars>>

-----------------------------------------------------------------------------
PC == {"idle", "next", "claimed",
       "staged",      \* rows are in a staging table (Databricks, BigQuery cdc)
       "truncated",   \* Databricks: TRUNCATE is done, INSERT is not
       "merged",      \* Databricks: MERGE is done, the marker is not written
       "waiting",     \* BigQuery: job.result() of a load job
       "scripted",    \* BigQuery: job.result() of the CDC script
       "landed"}      \* write_rows or write_cdc_rows returned

JobState == {"running", "done", "failed"}

\* The files that have rows.
Filled == {f \in File : Puts[f] \cup Deletes[f] # {}}

HasRows(f) == f \in Filled
Rows(f) == IF HasRows(f) THEN 1 ELSE 0

\* The table holds the rows of f alone, or no row.
Only(f) == [g \in File |-> IF g = f THEN Rows(f) ELSE 0]
Emptied == [g \in File |-> 0]

\* Variants (here and below): what a slip in the definition that follows would
\* make of it.  The runs must tell each from the code.
ChangedByUpsert(r, f) == [k \in Key |-> IF k \in Puts[f] THEN f ELSE r[k]]

\* The rows r after the changes of f: per key, delete and then insert, or MERGE.
Changed(r, f) == [k \in Key |-> CASE k \in Puts[f] -> f
                                  [] k \in Deletes[f] -> NoFile
                                  [] OTHER -> r[k]]

IsFirst(f, S) == f \in S /\ \A g \in S : f <= g

Init ==
    /\ \E s \in Setups : kind = s[1] /\ writeMode = s[2]
    /\ arrived = {} /\ committed = {}
    /\ pc = "idle" /\ todo = {} /\ cur = NoFile /\ job = 0
    /\ copies = Emptied
    /\ row = [k \in Key |-> NoFile]
    /\ applied = {}
    /\ jobs = [f \in File |-> IF kind = "bigquery" /\ f \in Foreign
                               THEN <<"done">> ELSE <<>>]
    /\ scripts = {}
    /\ faults = 0
    /\ times = [f \in File |-> 0]
    /\ furthest = 0 /\ disordered = FALSE

-----------------------------------------------------------------------------
(***************************************************************************)
(* The loader: a Run, its files, and how a load ends.                      *)
(***************************************************************************)
Arrive(f) ==
    /\ f \notin arrived
    /\ arrived' = arrived \cup {f}
    /\ UNCHANGED <<setup_vars, committed, pc, todo, cur, job, table_vars,
                   server_vars, faults, order_vars>>

StartRunOnAll ==
    /\ pc = "idle" /\ arrived \ committed # {}
    /\ todo' = File \ committed
    /\ pc' = "next"
    /\ UNCHANGED <<setup_vars, arrived, committed, cur, job, table_vars,
                   server_vars, faults, order_vars>>

\* A Run: what failed or was left PROCESSING is loaded again with what is new.
StartRun ==
    /\ pc = "idle" /\ arrived \ committed # {}
    /\ todo' = arrived \ committed
    /\ pc' = "next"
    /\ UNCHANGED <<setup_vars, arrived, committed, cur, job, table_vars,
                   server_vars, faults, order_vars>>

Begin ==
    /\ pc = "next"
    /\ \E f \in todo :
           /\ IsFirst(f, todo)
           /\ cur' = f
           /\ furthest' = IF f > furthest THEN f ELSE furthest
           /\ disordered' = (disordered \/ f < furthest)
    /\ pc' = "claimed"
    /\ UNCHANGED <<setup_vars, arrived, committed, todo, job, table_vars,
                   server_vars, faults>>

EndRun ==
    /\ pc = "next" /\ todo = {}
    /\ pc' = "idle"
    /\ UNCHANGED <<setup_vars, arrived, committed, todo, cur, job, table_vars,
                   server_vars, faults, order_vars>>

\* The loader has done with cur and turns to the next file.
NextFile ==
    /\ pc' = "next"
    /\ todo' = todo \ {cur}
    /\ cur' = NoFile /\ job' = 0

MarkCommitted ==
    /\ pc = "landed"
    /\ committed' = committed \cup {cur}
    /\ NextFile
    /\ UNCHANGED <<setup_vars, arrived, table_vars, server_vars, faults,
                   order_vars>>

\* Variant: the outcome is not looked at.
LoadErrorIgnored ==
    /\ committed' = committed \cup {cur}
    /\ NextFile
    /\ UNCHANGED <<setup_vars, arrived, table_vars, server_vars, order_vars>>

\* load_file turned an exception into an error; the file stays FAILED until a
\* later Run.  After "landed", it is an acknowledgement lost, or a clean-up
\* that raised.
LoadError ==
    /\ NextFile
    /\ UNCHANGED <<setup_vars, arrived, committed, table_vars, server_vars,
                   order_vars>>

Fault == faults < MaxFaults /\ faults' = faults + 1

LoadFails == pc \notin {"idle", "next"} /\ Fault /\ LoadError

Crash ==
    /\ pc # "idle" /\ Fault
    /\ pc' = "idle" /\ todo' = {} /\ cur' = NoFile /\ job' = 0
    /\ UNCHANGED <<setup_vars, arrived, committed, table_vars, server_vars,
                   order_vars>>

\* A step of a connector within the load of cur.
At(k, from, to) ==
    /\ kind = k /\ pc = from /\ pc' = to
    /\ UNCHANGED <<setup_vars, arrived, committed, todo, cur, faults, order_vars>>

Apply(f) ==
    /\ row' = Changed(row, f)
    /\ times' = [times EXCEPT ![f] = @ + 1]

-----------------------------------------------------------------------------
(***************************************************************************)
(* sql_base.py, duckdb.py: one transaction; an error rolls it back.        *)
(***************************************************************************)
SqlWriteRows ==
    /\ At("sql", "claimed", "landed")
    /\ writeMode # "cdc"
    /\ copies' = IF writeMode = "truncate" THEN Only(cur)
                 ELSE [copies EXCEPT ![cur] = Rows(cur)]
    /\ UNCHANGED <<job, row, applied, times, server_vars>>

SqlWriteCdcRows ==
    /\ At("sql", "claimed", "landed")
    /\ writeMode = "cdc"
    /\ Apply(cur)
    /\ UNCHANGED <<job, copies, applied, server_vars>>

-----------------------------------------------------------------------------
(***************************************************************************)
(* databricks.py: no transaction spans two statements.                     *)
(***************************************************************************)

DatabricksIgnoreEmpty ==
    /\ At("databricks", "claimed", "landed")
    /\ writeMode # "cdc" /\ ~HasRows(cur)
    /\ UNCHANGED <<job, table_vars, server_vars>>

\* write_rows of a file without rows: TRUNCATE at most.
DatabricksEmptyFile ==
    /\ At("databricks", "claimed", "landed")
    /\ writeMode # "cdc" /\ ~HasRows(cur)
    /\ copies' = IF writeMode = "truncate" THEN Emptied ELSE copies
    /\ UNCHANGED <<job, row, applied, times, server_vars>>

\* _cdc_file_already_applied
DatabricksAlreadyApplied ==
    /\ At("databricks", "claimed", "landed")
    /\ writeMode = "cdc" /\ cur \in applied
    /\ UNCHANGED <<job, table_vars, server_vars>>

DatabricksMarkEmpty ==
    /\ At("databricks", "claimed", "landed")
    /\ writeMode = "cdc" /\ cur \notin applied /\ ~HasRows(cur)
    /\ applied' = applied \cup {cur}
    /\ UNCHANGED <<job, copies, row, times, server_vars>>

\* Upload, CREATE TABLE staging, COPY INTO: names of a fresh uuid.
DatabricksStage ==
    /\ At("databricks", "claimed", "staged")
    /\ HasRows(cur) /\ cur \notin applied
    /\ UNCHANGED <<job, table_vars, server_vars>>

DatabricksAppend ==
    /\ At("databricks", "staged", "landed")
    /\ writeMode = "append"
    /\ copies' = [copies EXCEPT ![cur] = @ + 1]
    /\ UNCHANGED <<job, row, applied, times, server_vars>>

\* MERGE ... ON dest._source_file_hash = hash WHEN NOT MATCHED THEN INSERT
DatabricksMerge ==
    /\ At("databricks", "staged", "landed")
    /\ writeMode = "append"
    /\ copies' = IF copies[cur] = 0 THEN [copies EXCEPT ![cur] = 1] ELSE copies
    /\ UNCHANGED <<job, row, applied, times, server_vars>>

DatabricksTruncateOwn ==
    /\ At("databricks", "staged", "truncated")
    /\ writeMode = "truncate"
    /\ copies' = [copies EXCEPT ![cur] = 0]
    /\ UNCHANGED <<job, row, applied, times, server_vars>>

DatabricksTruncate ==
    /\ At("databricks", "staged", "truncated")
    /\ writeMode = "truncate"
    /\ copies' = Emptied
    /\ UNCHANGED <<job, row, applied, times, server_vars>>

DatabricksInsert ==
    /\ At("databricks", "truncated", "landed")
    /\ copies' = [copies EXCEPT ![cur] = @ + 1]
    /\ UNCHANGED <<job, row, applied, times, server_vars>>

DatabricksApply ==
    /\ At("databricks", "staged", "merged")
    /\ writeMode = "cdc"
    /\ Apply(cur)
    /\ UNCHANGED <<job, copies, applied, server_vars>>

\* _insert_applied_file_marker
DatabricksMark ==
    /\ At("databricks", "merged", "landed")
    /\ applied' = applied \cup {cur}
    /\ UNCHANGED <<job, copies, row, times, server_vars>>

-----------------------------------------------------------------------------
(***************************************************************************)
(* bigquery.py.  The first load job of a file is named after the table and *)
(* the content hash, and BigQuery takes an id only once (Conflict).  The   *)
(* jobs of write_rows after it have the time in their id.                  *)
(***************************************************************************)
Submit ==
    /\ Len(jobs[cur]) < MaxJobs
    /\ jobs' = [jobs EXCEPT ![cur] = Append(@, "running")]
    /\ job' = Len(jobs[cur]) + 1
    /\ UNCHANGED <<table_vars, scripts>>

\* A file without rows needs a load job in write_rows, none in write_cdc_rows.
NeedsJob(f) == writeMode # "cdc" \/ HasRows(f)

BigQuerySubmit ==
    /\ At("bigquery", "claimed", "waiting")
    /\ NeedsJob(cur) /\ jobs[cur] = <<>>
    /\ Submit

BigQueryTrustConflict ==
    /\ At("bigquery", "claimed", "landed")
    /\ writeMode # "cdc" /\ jobs[cur] # <<>>
    /\ UNCHANGED <<job, table_vars, server_vars>>

\* Conflict: the earlier job is DONE without errors.
BigQueryAlreadyDone ==
    /\ At("bigquery", "claimed", "landed")
    /\ writeMode # "cdc" /\ jobs[cur] # <<>> /\ jobs[cur][1] = "done"
    /\ UNCHANGED <<job, table_vars, server_vars>>

BigQueryRaiseConflict ==
    /\ kind = "bigquery" /\ pc = "claimed"
    /\ writeMode # "cdc" /\ jobs[cur] # <<>> /\ jobs[cur][1] # "done"
    /\ LoadError /\ UNCHANGED faults

\* Conflict: it failed, or it is still running.
BigQueryFallback ==
    /\ At("bigquery", "claimed", "waiting")
    /\ writeMode # "cdc" /\ jobs[cur] # <<>> /\ jobs[cur][1] # "done"
    /\ Submit

\* write_cdc_rows does not catch the Conflict of its staging job.
BigQueryStageConflict ==
    /\ kind = "bigquery" /\ pc = "claimed"
    /\ writeMode = "cdc" /\ HasRows(cur) /\ jobs[cur] # <<>>
    /\ LoadError /\ UNCHANGED faults

BigQueryNothingToStage ==
    /\ At("bigquery", "claimed", "staged")
    /\ ~NeedsJob(cur)
    /\ UNCHANGED <<job, table_vars, server_vars>>

\* job.result()
BigQueryAwait ==
    /\ At("bigquery", "waiting", IF writeMode = "cdc" THEN "staged" ELSE "landed")
    /\ jobs[cur][job] = "done"
    /\ UNCHANGED <<job, table_vars, server_vars>>

BigQueryScript ==
    /\ At("bigquery", "staged", "scripted")
    /\ scripts' = scripts \cup {cur}
    /\ UNCHANGED <<job, table_vars, jobs>>

BigQueryAwaitScript ==
    /\ At("bigquery", "scripted", "landed")
    /\ cur \notin scripts /\ cur \in applied
    /\ UNCHANGED <<job, table_vars, server_vars>>

\* job.result() raises: the load job, or the script, failed.
BigQueryJobError ==
    /\ kind = "bigquery"
    /\ \/ pc = "waiting" /\ jobs[cur][job] = "failed"
       \/ pc = "scripted" /\ cur \notin scripts \cup applied
    /\ LoadError /\ UNCHANGED faults

(***************************************************************************)
(* The BigQuery service: a job ends, whether or not its client still waits.*)
(***************************************************************************)
loader_vars == <<setup_vars, arrived, committed, pc, todo, cur, job, order_vars>>

JobSucceeds(f, n) ==
    /\ n \in DOMAIN jobs[f] /\ jobs[f][n] = "running"
    /\ jobs' = [jobs EXCEPT ![f][n] = "done"]
    /\ copies' = CASE writeMode = "append" ->
                          [copies EXCEPT ![f] = @ + Rows(f)]
                   [] writeMode = "truncate" -> Only(f)
                   [] writeMode = "cdc" -> copies
    /\ UNCHANGED <<loader_vars, row, applied, times, scripts, faults>>

JobFails(f, n) ==
    /\ n \in DOMAIN jobs[f] /\ jobs[f][n] = "running"
    /\ jobs' = [jobs EXCEPT ![f][n] = "failed"]
    /\ Fault
    /\ UNCHANGED <<loader_vars, table_vars, scripts>>

\* BEGIN TRANSACTION; IF NOT EXISTS marker THEN MERGE; INSERT marker; COMMIT
ScriptCommits(f) ==
    /\ f \in scripts
    /\ scripts' = scripts \ {f}
    /\ IF f \in applied THEN UNCHANGED <<row, times, applied>>
                        ELSE Apply(f) /\ applied' = applied \cup {f}
    /\ UNCHANGED <<loader_vars, copies, jobs, faults>>

ScriptFails(f) ==
    /\ f \in scripts
    /\ scripts' = scripts \ {f}
    /\ Fault
    /\ UNCHANGED <<loader_vars, table_vars, jobs>>

-----------------------------------------------------------------------------
Connector ==
    \/ SqlWriteRows \/ SqlWriteCdcRows
    \/ DatabricksEmptyFile \/ DatabricksAlreadyApplied \/ DatabricksMarkEmpty
    \/ DatabricksStage \/ DatabricksMerge \/ DatabricksTruncate
    \/ DatabricksInsert \/ DatabricksApply \/ DatabricksMark
    \/ BigQuerySubmit \/ BigQueryAlreadyDone \/ BigQueryFallback
    \/ BigQueryStageConflict \/ BigQueryNothingToStage \/ BigQueryAwait
    \/ BigQueryScript \/ BigQueryAwaitScript \/ BigQueryJobError

Loader == StartRun \/ Begin \/ EndRun \/ Connector \/ MarkCommitted

Service ==
    \E f \in File : ScriptCommits(f) \/ \E n \in 1..MaxJobs : JobSucceeds(f, n)

Next ==
    \/ \E f \in File : Arrive(f)
    \/ Loader
    \/ Service
    \/ LoadFails \/ Crash
    \/ \E f \in File : ScriptFails(f) \/ \E n \in 1..MaxJobs : JobFails(f, n)

\* The scheduler starts Runs again and again, and a Run goes on unless it is
\* killed; BigQuery finishes the jobs it accepted.
Fairness ==
    /\ WF_vars(Loader)
    /\ \A f \in File : /\ WF_vars(ScriptCommits(f))
                       /\ \A n \in 1..MaxJobs : WF_vars(JobSucceeds(f, n))

Spec == Init /\ [][Next]_vars /\ Fairness

-----------------------------------------------------------------------------
(***************************************************************************)
(* Properties.                                                             *)
(***************************************************************************)
TypeOK ==
    /\ <<kind, writeMode>> \in Setups
    /\ arrived \subseteq File /\ committed \subseteq arrived
    /\ pc \in PC /\ todo \subseteq arrived /\ cur \in File \cup {NoFile}
    /\ job \in 0..MaxJobs
    /\ copies \in [File -> Nat]
    /\ row \in [Key -> File \cup {NoFile}]
    /\ applied \subseteq File /\ scripts \subseteq File
    /\ jobs \in [File -> Seq(JobState)]
    /\ \A f \in File : Len(jobs[f]) <= MaxJobs
    /\ faults \in 0..MaxFaults
    /\ times \in [File -> Nat]
    /\ furthest \in File \cup {0} /\ disordered \in BOOLEAN

\* In append mode a file's rows are in the table at most once, whatever fails
\* and is retried between the statements of its load (ADR-0004).  BigQuery is
\* held to it only while no job but the first, whose id is the content hash,
\* was started for the file: a job under another id is not recognised.
RowsOnce ==
    writeMode = "append" =>
        \A f \in File : copies[f] <= 1 \/ (kind = "bigquery" /\ Len(jobs[f]) > 1)

\* A file is COMMITTED only after its effect is in the destination: its rows in
\* append mode, its changes in cdc mode; and an Applied File Marker is written
\* only after the changes it stands for (ADR-0009).
LandedBeforeCommit ==
    /\ writeMode = "append" => \A f \in committed : HasRows(f) => copies[f] >= 1
    /\ writeMode = "cdc" =>
           \A f \in committed \cup applied : HasRows(f) => times[f] >= 1

\* In truncate mode the table never shows rows of two files, or a file twice.
NeverMixed ==
    writeMode = "truncate" =>
        /\ \A f \in File : copies[f] <= 1
        /\ \A f, g \in File : copies[f] = 1 /\ copies[g] = 1 => f = g

\* In truncate mode the file that is marked COMMITTED is the one in the table.
\* Not so on BigQuery, where a retried file whose job was done lands nothing,
\* although another file has replaced its rows.
CommitShowsTable ==
    [][\A f \in committed' \ committed :
           writeMode = "truncate" /\ kind # "bigquery" => copies = Only(f)]_vars

\* The changes of the files so far, each applied once, in path order.
InPathOrder(S) ==
    [k \in Key |->
        LET touching == {f \in S : k \in Puts[f] \cup Deletes[f]}
        IN  IF \E f \in touching : k \in Puts[f] /\ \A g \in touching : g <= f
            THEN CHOOSE f \in touching : \A g \in touching : g <= f
            ELSE NoFile]

\* CDC files that were begun in path order leave the table that applying each
\* of them once leaves, whatever failed on the way and was applied again.  The
\* condition is needed even where files arrive in order: the one that fails is
\* loaded by a later Run, after the files that follow it.
CdcConverges ==
    writeMode = "cdc" /\ pc = "idle" /\ committed = arrived /\ ~disordered
        => row = InPathOrder(arrived)

\* The refinement: statement by statement, the SQL and Databricks connectors keep
\* the promise of FileLifecycle in append and cdc mode.  The rows of a file land
\* while the loader has it in hand, once, and before it is COMMITTED.  A BigQuery
\* job lands rows whoever has the file, and truncate mode empties other files.
LifecycleState(f) ==
    CASE f \in committed -> "COMMITTED"
      [] f \notin committed /\ cur = f -> "PROCESSING"
      [] f \in arrived \ committed /\ cur # f -> "PENDING"
      [] OTHER -> "ABSENT"

InDestination(f) ==
    IF writeMode = "cdc" THEN IF times[f] = 0 THEN 0 ELSE 1 ELSE copies[f]

Promise == INSTANCE FileLifecycle
           WITH Hash <- Filled,
                state <- [f \in Filled |-> LifecycleState(f)],
                copies <- [f \in Filled |-> InDestination(f)]

Promising == kind # "bigquery" /\ writeMode # "truncate"

ImplementsLifecycle ==
    /\ Promise!LifecycleInit
    /\ [][Promising => Promise!LifecycleNext]_(Promise!lifecycle_vars)

\* A file whose staging job has run for a load that did not commit it.
StageIdSpent(f) ==
    /\ kind = "bigquery" /\ writeMode = "cdc"
    /\ jobs[f] # <<>> /\ cur # f /\ f \notin committed

\* Every file is COMMITTED in the end, if Runs go on and faults stop: nothing a
\* failed load leaves behind stops the next one.  On BigQuery, what a failed
\* CDC load leaves behind does.
EventuallyLoaded ==
    \A f \in File : f \in arrived ~> (f \in committed \/ StageIdSpent(f))

\* Violated on BigQuery: a file that has its marker is COMMITTED in the end (the
\* retry treats it as already applied).
MarkedFilesCommit == \A f \in File : f \in applied ~> f \in committed
=============================================================================
