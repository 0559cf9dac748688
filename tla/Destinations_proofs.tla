-------------------------- MODULE Destinations_proofs --------------------------
(***************************************************************************)
(* A load is idempotent whatever fails: the theorems of Destinations, for  *)
(* any files, keys, setups, faults and jobs.                               *)
(***************************************************************************)
EXTENDS Destinations, TLAPS

\* What the loader's place says of the setup, of cur and of the job it waits for.
ModeInv ==
    /\ pc \notin {"idle", "next"} => cur \in arrived
    /\ pc = "truncated" => kind = "databricks" /\ writeMode = "truncate"
    /\ pc = "merged" => kind = "databricks" /\ writeMode = "cdc"
    /\ pc = "staged" => \/ kind = "databricks" /\ HasRows(cur)
                        \/ kind = "bigquery" /\ writeMode = "cdc"
    /\ pc = "scripted" => kind = "bigquery" /\ writeMode = "cdc"
    /\ pc = "waiting" => kind = "bigquery" /\ job \in 1..Len(jobs[cur])
    /\ kind # "bigquery" => jobs = [f \in File |-> <<>>] /\ scripts = {}
    /\ scripts # {} => writeMode = "cdc"

TypeInv == TypeOK /\ ModeInv

\* Append mode.  A file has at most one copy while BigQuery knows at most its
\* first job, and none before that job is done; from the moment a load has
\* landed, it has one.
AppendInv ==
    writeMode = "append" =>
        /\ \A f \in File : kind # "bigquery" => copies[f] <= 1
        /\ \A f \in File : kind = "bigquery" =>
               /\ jobs[f] = <<>> => copies[f] = 0
               /\ Len(jobs[f]) = 1 =>
                      copies[f] <= 1 /\ (jobs[f][1] # "done" => copies[f] = 0)
               /\ \A n \in 1..Len(jobs[f]) : jobs[f][n] = "done" => copies[f] >= Rows(f)
        /\ pc = "landed" => copies[cur] >= Rows(cur)
        /\ \A f \in committed : copies[f] >= Rows(f)

\* Truncate mode.  Between TRUNCATE and INSERT the table is empty.
TruncateInv ==
    writeMode = "truncate" =>
        /\ NeverMixed
        /\ pc = "truncated" => copies = Emptied

\* CDC mode.  A file that is about to be marked has been applied.
CdcInv ==
    writeMode = "cdc" =>
        /\ \A f \in committed \cup applied : HasRows(f) => times[f] >= 1
        /\ pc \in {"merged", "landed"} /\ HasRows(cur) => times[cur] >= 1

-----------------------------------------------------------------------------
LEMMA AtMostOne ==
    ASSUME NEW S, NEW q \in Seq(S), q # <<>>, Len(q) <= 1
    PROVE  Len(q) = 1
<1>1. Len(q) \in Nat
  OBVIOUS
<1>2. Len(q) # 0
  OBVIOUS
<1>3. \A m \in Nat : m <= 1 /\ m # 0 => m = 1
  OBVIOUS
<1> QED
  BY <1>1, <1>2, <1>3

\* What a job's start and a job's end change of the jobs q.
LEMMA JobStarts ==
    ASSUME NEW S, NEW s \in S, NEW q \in [File -> Seq(S)], NEW f \in File,
           NEW r, r = [q EXCEPT ![f] = Append(@, s)]
    PROVE  /\ r \in [File -> Seq(S)] /\ \A g \in File \ {f} : r[g] = q[g]
           /\ Len(q[f]) \in Nat /\ Len(r[f]) = Len(q[f]) + 1
           /\ \A k \in 1..Len(q[f]) : r[f][k] = q[f][k]
           /\ r[f][Len(q[f]) + 1] = s
<1>1. q[f] \in Seq(S) /\ r[f] = Append(q[f], s)
  OBVIOUS
<1>2. /\ Append(q[f], s) \in Seq(S) /\ Len(q[f]) \in Nat
      /\ Len(Append(q[f], s)) = Len(q[f]) + 1
      /\ \A k \in 1..Len(q[f]) : Append(q[f], s)[k] = q[f][k]
      /\ Append(q[f], s)[Len(q[f]) + 1] = s
  BY <1>1
<1> QED
  BY <1>1, <1>2

LEMMA JobEnds ==
    ASSUME NEW S, NEW s \in S, NEW q \in [File -> Seq(S)],
           NEW f \in File, NEW k \in DOMAIN q[f],
           NEW r, r = [q EXCEPT ![f][k] = s]
    PROVE  /\ r \in [File -> Seq(S)] /\ \A g \in File \ {f} : r[g] = q[g]
           /\ k \in 1..Len(q[f]) /\ Len(q[f]) \in Nat /\ Len(r[f]) = Len(q[f])
           /\ \A i \in 1..Len(q[f]) \ {k} : r[f][i] = q[f][i]
           /\ r[f][k] = s
<1>1. q[f] \in Seq(S) /\ k \in 1..Len(q[f]) /\ r[f] = [q[f] EXCEPT ![k] = s]
  OBVIOUS
<1>2. /\ [q[f] EXCEPT ![k] = s] \in Seq(S) /\ Len(q[f]) \in Nat
      /\ Len([q[f] EXCEPT ![k] = s]) = Len(q[f])
  BY <1>1
<1> QED
  BY <1>1, <1>2

\* What a step must show of the variables it changes.
LEMMA LoaderTypes ==
    ASSUME TypeOK,
           UNCHANGED <<setup_vars, arrived, table_vars, server_vars, order_vars>>,
           committed' \subseteq arrived, todo' \subseteq arrived, pc' \in PC,
           cur' \in File \cup {NoFile}, job' \in 0..MaxJobs,
           faults' \in 0..MaxFaults
    PROVE  TypeOK'
BY DEF TypeOK, setup_vars, table_vars, server_vars, order_vars

LEMMA TableTypes ==
    ASSUME TypeOK, UNCHANGED <<setup_vars, arrived, committed, todo, cur, job>>,
           UNCHANGED <<faults, server_vars, order_vars>>, pc' \in PC,
           copies' \in [File -> Nat], row' \in [Key -> File \cup {NoFile}],
           applied' \subseteq File, times' \in [File -> Nat]
    PROVE  TypeOK'
BY DEF TypeOK, setup_vars, server_vars, order_vars

LEMMA FaultsCounted ==
    ASSUME TypeOK, Fault \/ UNCHANGED faults
    PROVE  faults' \in 0..MaxFaults
<1>1. MaxFaults \in Nat
  BY DestinationsAssumption
<1>2. faults \in 0..MaxFaults
  BY DEF TypeOK
<1>3. CASE Fault
  BY <1>1, <1>2, <1>3 DEF Fault
<1> QED
  BY <1>2, <1>3

\* The types, and where the loader is, in every step.
LEMMA TypeStep == TypeInv /\ [Next]_vars => TypeInv'
<1> SUFFICES ASSUME TypeInv, [Next]_vars PROVE TypeInv'
  OBVIOUS
<1>1. File \subseteq Nat /\ MaxFaults \in Nat /\ MaxJobs \in Nat
  BY DestinationsAssumption
<1>2. CASE StartRun
  BY <1>2, <1>1
  DEF StartRun, setup_vars, table_vars, server_vars, order_vars, TypeInv,
        TypeOK, ModeInv, PC, JobState
<1>3. CASE Begin
  BY <1>3, <1>1
  DEF Begin, IsFirst, setup_vars, table_vars, server_vars, TypeInv, TypeOK,
        ModeInv, PC, JobState
<1>4. CASE EndRun
  BY <1>4, <1>1
  DEF EndRun, setup_vars, table_vars, server_vars, order_vars, TypeInv,
        TypeOK, ModeInv, PC, JobState
<1>5. CASE MarkCommitted
  <2>1. /\ UNCHANGED <<setup_vars, arrived, table_vars, server_vars, faults, order_vars>>
        /\ pc' = "next" /\ cur' = NoFile /\ job' = 0
    BY <1>5 DEF MarkCommitted, NextFile
  <2>2. committed' \subseteq arrived /\ todo' \subseteq arrived
    BY <1>5 DEF MarkCommitted, NextFile, TypeInv, TypeOK, ModeInv
  <2>3. pc' \in PC /\ job' \in 0..MaxJobs /\ faults' \in 0..MaxFaults
    BY <1>1, <2>1, FaultsCounted DEF PC, TypeInv
  <2>4. TypeOK'
    BY <2>1, <2>2, <2>3, LoaderTypes DEF TypeInv
  <2>5. ModeInv'
    BY <2>1 DEF setup_vars, server_vars, TypeInv, ModeInv
  <2> QED
    BY <2>4, <2>5 DEF TypeInv
<1>6. CASE LoadFails \/ Crash \/ BigQueryStageConflict \/ BigQueryJobError
  <2>1. /\ UNCHANGED <<setup_vars, arrived, committed, table_vars, server_vars>>
        /\ UNCHANGED order_vars /\ cur' = NoFile /\ job' = 0
        /\ pc' \in {"next", "idle"} /\ todo' \subseteq todo
        /\ Fault \/ UNCHANGED faults
    BY <1>6
    DEF LoadFails, Crash, BigQueryStageConflict, BigQueryJobError, LoadError, NextFile
  <2>2. committed' \subseteq arrived /\ todo' \subseteq arrived
    BY <2>1 DEF TypeInv, TypeOK
  <2>3. pc' \in PC /\ job' \in 0..MaxJobs /\ faults' \in 0..MaxFaults
    BY <1>1, <2>1, FaultsCounted DEF PC, TypeInv
  <2>4. TypeOK'
    BY <2>1, <2>2, <2>3, LoaderTypes DEF TypeInv
  <2>5. ModeInv'
    BY <2>1 DEF setup_vars, server_vars, TypeInv, ModeInv
  <2> QED
    BY <2>4, <2>5 DEF TypeInv
<1>7. CASE SqlWriteRows \/ SqlWriteCdcRows \/ DatabricksEmptyFile
            \/ DatabricksAlreadyApplied \/ DatabricksMarkEmpty
            \/ DatabricksStage \/ DatabricksMerge \/ DatabricksTruncate
            \/ DatabricksInsert \/ DatabricksApply \/ DatabricksMark
  <2>1. /\ UNCHANGED <<setup_vars, arrived, committed, todo, cur, job, faults>>
        /\ UNCHANGED <<server_vars, order_vars>> /\ pc \notin {"idle", "next"}
        /\ pc' \in {"landed", "staged", "truncated", "merged"}
        /\ pc' = "truncated" => kind = "databricks" /\ writeMode = "truncate"
        /\ pc' = "merged" => kind = "databricks" /\ writeMode = "cdc"
        /\ pc' = "staged" => kind = "databricks" /\ HasRows(cur)
    BY <1>7
    DEF SqlWriteRows, At, SqlWriteCdcRows, DatabricksEmptyFile,
          DatabricksAlreadyApplied, table_vars, DatabricksMarkEmpty,
          DatabricksStage, DatabricksMerge, DatabricksTruncate,
          DatabricksInsert, DatabricksApply, DatabricksMark, TypeInv, ModeInv
  <2>2. cur \in arrived /\ cur \in File
    BY <2>1 DEF TypeInv, TypeOK, ModeInv
  <2>3. copies' \in [File -> Nat]
    <3>1. /\ Only(cur) \in [File -> Nat] /\ Emptied \in [File -> Nat]
          /\ Rows(cur) \in Nat /\ copies \in [File -> Nat]
      BY DEF Only, Emptied, Rows, TypeInv, TypeOK
    <3>2. copies' \in {copies, Only(cur), Emptied, [copies EXCEPT ![cur] = Rows(cur)],
                      [copies EXCEPT ![cur] = 1], [copies EXCEPT ![cur] = copies[cur] + 1]}
      BY <1>7
      DEF SqlWriteRows, SqlWriteCdcRows, DatabricksEmptyFile,
            DatabricksAlreadyApplied, table_vars, DatabricksMarkEmpty,
            DatabricksStage, DatabricksMerge, DatabricksTruncate,
            DatabricksInsert, DatabricksApply, DatabricksMark
    <3> QED
      BY <2>2, <3>1, <3>2
  <2>4. row' \in [Key -> File \cup {NoFile}] /\ times' \in [File -> Nat]
    <3>1. /\ Changed(row, cur) \in [Key -> File \cup {NoFile}]
          /\ [times EXCEPT ![cur] = @ + 1] \in [File -> Nat]
      BY <2>2 DEF Changed, TypeInv, TypeOK
    <3>2. UNCHANGED <<row, times>> \/ Apply(cur)
      BY <1>7
      DEF SqlWriteRows, SqlWriteCdcRows, DatabricksEmptyFile,
            DatabricksAlreadyApplied, table_vars, DatabricksMarkEmpty,
            DatabricksStage, DatabricksMerge, DatabricksTruncate,
            DatabricksInsert, DatabricksApply, DatabricksMark
    <3> QED
      BY <3>1, <3>2 DEF Apply, TypeInv, TypeOK
  <2>5. applied' \subseteq File
    <3>1. applied' = applied \/ applied' = applied \cup {cur}
      BY <1>7
      DEF SqlWriteRows, SqlWriteCdcRows, DatabricksEmptyFile,
            DatabricksAlreadyApplied, table_vars, DatabricksMarkEmpty,
            DatabricksStage, DatabricksMerge, DatabricksTruncate,
            DatabricksInsert, DatabricksApply, DatabricksMark
    <3> QED
      BY <2>2, <3>1 DEF TypeInv, TypeOK
  <2>6. pc' \in PC
    BY <2>1 DEF PC
  <2>7. TypeOK'
    BY <2>1, <2>3, <2>4, <2>5, <2>6, TableTypes DEF TypeInv
  <2>8. ModeInv'
    BY <2>1, <2>2 DEF setup_vars, server_vars, TypeInv, ModeInv, HasRows
  <2> QED
    BY <2>7, <2>8 DEF TypeInv
<1>8. CASE BigQuerySubmit \/ BigQueryFallback
  <2>1. /\ UNCHANGED <<setup_vars, arrived, committed, todo, cur, faults, order_vars>>
        /\ UNCHANGED <<table_vars, scripts>>
        /\ kind = "bigquery" /\ pc' = "waiting" /\ cur \in File /\ cur \in arrived
    BY <1>8 DEF BigQuerySubmit, BigQueryFallback, At, Submit, TypeInv, TypeOK, ModeInv
  <2>2. /\ Len(jobs[cur]) < MaxJobs /\ job' = Len(jobs[cur]) + 1
        /\ jobs' = [jobs EXCEPT ![cur] = Append(@, "running")]
    BY <1>8 DEF BigQuerySubmit, BigQueryFallback, Submit
  <2>3. jobs \in [File -> Seq(JobState)] /\ "running" \in JobState
    BY DEF TypeInv, TypeOK, JobState
  <2>4. /\ jobs' \in [File -> Seq(JobState)]
        /\ \A g \in File \ {cur} : jobs'[g] = jobs[g]
        /\ Len(jobs[cur]) \in Nat /\ Len(jobs'[cur]) = Len(jobs[cur]) + 1
    BY <2>1, <2>2, <2>3, JobStarts
  <2>5. job' \in 0..MaxJobs /\ job' \in 1..Len(jobs'[cur])
    BY <1>1, <2>2, <2>4
  <2>6. \A g \in File : Len(jobs'[g]) <= MaxJobs
    BY <1>1, <2>2, <2>4 DEF TypeInv, TypeOK
  <2>7. TypeOK'
    BY <2>1, <2>4, <2>5, <2>6
    DEF setup_vars, table_vars, order_vars, TypeInv, TypeOK, PC
  <2>8. ModeInv'
    BY <2>1, <2>5 DEF setup_vars, TypeInv, ModeInv
  <2> QED
    BY <2>7, <2>8 DEF TypeInv
<1>9. CASE BigQueryAlreadyDone
  BY <1>9, <1>1
  DEF BigQueryAlreadyDone, At, setup_vars, order_vars, table_vars,
        server_vars, TypeInv, TypeOK, ModeInv, PC, JobState
<1>10. CASE BigQueryNothingToStage
  BY <1>10, <1>1
  DEF BigQueryNothingToStage, At, setup_vars, order_vars, NeedsJob, HasRows,
        table_vars, server_vars, TypeInv, TypeOK, ModeInv, PC, JobState
<1>11. CASE BigQueryAwait
  BY <1>11, <1>1
  DEF BigQueryAwait, At, setup_vars, order_vars, table_vars, server_vars,
        TypeInv, TypeOK, ModeInv, PC, JobState
<1>12. CASE BigQueryScript
  BY <1>12, <1>1
  DEF BigQueryScript, At, setup_vars, order_vars, table_vars, TypeInv, TypeOK,
        ModeInv, PC, JobState
<1>13. CASE BigQueryAwaitScript
  BY <1>13, <1>1
  DEF BigQueryAwaitScript, At, setup_vars, order_vars, table_vars,
        server_vars, TypeInv, TypeOK, ModeInv, PC, JobState
<1>14. ASSUME NEW f \in File, Arrive(f)
      PROVE  TypeInv'
  BY <1>14
  DEF Arrive, setup_vars, table_vars, server_vars, order_vars, TypeInv,
        TypeOK, ModeInv
<1>15. ASSUME NEW f \in File, NEW k \in 1..MaxJobs, JobSucceeds(f, k) \/ JobFails(f, k)
      PROVE  TypeInv'
  <2>1. UNCHANGED <<loader_vars, row, applied, times, scripts>>
    BY <1>15 DEF JobSucceeds, JobFails, table_vars
  <2>2. PICK s \in JobState : k \in DOMAIN jobs[f] /\ jobs' = [jobs EXCEPT ![f][k] = s]
    BY <1>15 DEF JobSucceeds, JobFails, JobState
  <2>3. jobs \in [File -> Seq(JobState)]
    BY DEF TypeInv, TypeOK
  <2>4. /\ jobs' \in [File -> Seq(JobState)]
        /\ \A g \in File \ {f} : jobs'[g] = jobs[g]
        /\ k \in 1..Len(jobs[f]) /\ Len(jobs[f]) \in Nat /\ Len(jobs'[f]) = Len(jobs[f])
    BY <2>2, <2>3, JobEnds
  <2>5. \A g \in File : Len(jobs'[g]) = Len(jobs[g])
    BY <2>4
  <2>6. copies' \in [File -> Nat]
    <3>1. writeMode \in {"append", "truncate", "cdc"}
      BY DestinationsAssumption DEF TypeInv, TypeOK
    <3>2. /\ Rows(f) \in Nat /\ Only(f) \in [File -> Nat] /\ copies \in [File -> Nat]
          /\ [copies EXCEPT ![f] = @ + Rows(f)] \in [File -> Nat]
      <4>1. copies \in [File -> Nat] /\ Rows(f) \in Nat
        BY DEF Rows, TypeInv, TypeOK
      <4>2. Only(f) \in [File -> Nat]
        BY DEF Rows, Only
      <4> QED
        BY <4>1, <4>2
    <3>3. CASE JobFails(f, k)
      BY <3>2, <3>3 DEF JobFails, table_vars
    <3>4. CASE JobSucceeds(f, k)
      BY <3>1, <3>2, <3>4 DEF JobSucceeds
    <3> QED
      BY <1>15, <3>3, <3>4
  <2>7. faults' \in 0..MaxFaults
    BY <1>15, FaultsCounted DEF JobSucceeds, JobFails, TypeInv
  <2>8. \A g \in File : Len(jobs'[g]) <= MaxJobs
    BY <2>5 DEF TypeInv, TypeOK
  <2>9. TypeOK'
    BY <2>1, <2>4, <2>6, <2>7, <2>8
    DEF loader_vars, setup_vars, order_vars, TypeInv, TypeOK
  <2>10. kind = "bigquery"
    <3>1. SUFFICES ASSUME kind # "bigquery" PROVE FALSE
      OBVIOUS
    <3>2. jobs[f] = <<>>
      BY <3>1 DEF TypeInv, ModeInv
    <3> QED
      BY <2>4, <3>2
  <2>11. pc = "waiting" => cur \in File
    BY DEF TypeInv, TypeOK, ModeInv
  <2>12. ModeInv'
    BY <2>1, <2>5, <2>10, <2>11 DEF loader_vars, setup_vars, TypeInv, ModeInv
  <2> QED
    BY <2>9, <2>12 DEF TypeInv
<1>16. ASSUME NEW f \in File, ScriptCommits(f) \/ ScriptFails(f)
      PROVE  TypeInv'
  <2>1. UNCHANGED <<loader_vars, copies, jobs>> /\ scripts' = scripts \ {f}
    BY <1>16 DEF ScriptCommits, ScriptFails, table_vars
  <2>2. /\ row' \in [Key -> File \cup {NoFile}] /\ times' \in [File -> Nat]
        /\ applied' \subseteq File
    <3>1. /\ Changed(row, f) \in [Key -> File \cup {NoFile}]
          /\ [times EXCEPT ![f] = @ + 1] \in [File -> Nat]
      BY DEF Changed, TypeInv, TypeOK
    <3>2. CASE UNCHANGED <<row, times, applied>>
      BY <3>2 DEF TypeInv, TypeOK
    <3>3. CASE Apply(f) /\ applied' = applied \cup {f}
      BY <3>1, <3>3 DEF Apply, TypeInv, TypeOK
    <3> QED
      BY <1>16, <3>2, <3>3 DEF ScriptCommits, ScriptFails, table_vars
  <2>3. faults' \in 0..MaxFaults
    BY <1>16, FaultsCounted DEF ScriptCommits, ScriptFails, TypeInv
  <2>4. TypeOK'
    BY <2>1, <2>2, <2>3 DEF loader_vars, setup_vars, order_vars, TypeInv, TypeOK
  <2>5. ModeInv'
    BY <2>1 DEF loader_vars, setup_vars, TypeInv, ModeInv
  <2> QED
    BY <2>4, <2>5 DEF TypeInv
<1>17. CASE UNCHANGED vars
  BY <1>17
  DEF vars, setup_vars, table_vars, server_vars, order_vars, TypeInv, TypeOK,
        ModeInv
<1> QED
  BY <1>2, <1>3, <1>4, <1>5, <1>6, <1>7, <1>8, <1>9, <1>10, <1>11,
     <1>12, <1>13, <1>14, <1>15, <1>16, <1>17
  DEF Next, Loader, Connector, Service

\* Append mode: only a landing, a commit and BigQuery's jobs are not quiet.
LEMMA AppendStep == TypeInv /\ AppendInv /\ [Next]_vars => AppendInv'
<1> SUFFICES ASSUME TypeInv, AppendInv, [Next]_vars PROVE AppendInv'
  OBVIOUS
<1> DEFINE Quiet == /\ UNCHANGED <<kind, writeMode, copies, jobs, committed>>
                    /\ pc' = "landed" => pc = "landed" /\ cur' = cur
<1>1. ASSUME Quiet PROVE AppendInv'
  BY <1>1 DEF AppendInv, Rows, HasRows
<1>2. CASE StartRun \/ Begin \/ EndRun \/ LoadFails \/ Crash
            \/ BigQueryStageConflict \/ BigQueryJobError
  BY <1>2, <1>1
  DEF StartRun, setup_vars, table_vars, server_vars, order_vars, Begin,
        IsFirst, EndRun, LoadFails, Fault, LoadError, NextFile, Crash,
        BigQueryStageConflict, BigQueryJobError
<1>3. CASE DatabricksStage \/ DatabricksApply \/ BigQueryNothingToStage
            \/ BigQueryScript
  BY <1>3, <1>1
  DEF DatabricksStage, At, setup_vars, order_vars, table_vars, server_vars,
        DatabricksApply, Apply, BigQueryNothingToStage, NeedsJob,
        BigQueryScript
<1>4. ASSUME NEW f \in File, Arrive(f) \/ ScriptCommits(f) \/ ScriptFails(f)
      PROVE  AppendInv'
  BY <1>4, <1>1
  DEF Arrive, setup_vars, table_vars, server_vars, order_vars, ScriptCommits,
        Apply, loader_vars, ScriptFails, Fault
<1>5. CASE MarkCommitted
  BY <1>5
  DEF MarkCommitted, NextFile, setup_vars, table_vars, server_vars,
        order_vars, AppendInv, Rows, HasRows, TypeInv, TypeOK, ModeInv
<1>6. CASE SqlWriteRows
  BY <1>6
  DEF SqlWriteRows, At, setup_vars, order_vars, Only, Rows, HasRows,
        server_vars, AppendInv, TypeInv, TypeOK, ModeInv
<1>7. CASE SqlWriteCdcRows
  BY <1>7
  DEF SqlWriteCdcRows, At, setup_vars, order_vars, Apply, Changed,
        server_vars, AppendInv, Rows, HasRows, TypeInv, TypeOK, ModeInv
<1>8. CASE DatabricksEmptyFile \/ DatabricksAlreadyApplied
            \/ DatabricksMarkEmpty
  BY <1>8
  DEF DatabricksEmptyFile, At, setup_vars, order_vars, HasRows, Emptied,
        server_vars, DatabricksAlreadyApplied, table_vars,
        DatabricksMarkEmpty, AppendInv, Rows, TypeInv, TypeOK, ModeInv
<1>9. CASE DatabricksMerge
  BY <1>9
  DEF DatabricksMerge, At, setup_vars, order_vars, server_vars, AppendInv,
        Rows, HasRows, TypeInv, TypeOK, ModeInv
<1>10. CASE DatabricksTruncate
  BY <1>10
  DEF DatabricksTruncate, At, setup_vars, order_vars, Emptied, server_vars,
        AppendInv, Rows, HasRows, TypeInv, TypeOK, ModeInv
<1>11. CASE DatabricksInsert
  BY <1>11
  DEF DatabricksInsert, At, setup_vars, order_vars, server_vars, AppendInv,
        Rows, HasRows, TypeInv, TypeOK, ModeInv
<1>12. CASE DatabricksMark
  BY <1>12
  DEF DatabricksMark, At, setup_vars, order_vars, server_vars, AppendInv,
        Rows, HasRows, TypeInv, TypeOK, ModeInv
<1>13. CASE BigQuerySubmit \/ BigQueryFallback
  <2>1. /\ UNCHANGED <<kind, writeMode, copies, committed>> /\ pc' = "waiting"
        /\ writeMode = "append" /\ jobs[cur] # <<>> => jobs[cur][1] # "done"
        /\ kind = "bigquery" /\ pc = "claimed"
        /\ jobs' = [jobs EXCEPT ![cur] = Append(jobs[cur], "running")]
    BY <1>13
    DEF BigQuerySubmit, BigQueryFallback, At, Submit, setup_vars, table_vars
  <2>2. /\ jobs \in [File -> Seq(JobState)] /\ "running" \in JobState
        /\ cur \in File
    BY <2>1 DEF TypeInv, TypeOK, ModeInv, JobState
  <2>3. /\ \A g \in File \ {cur} : jobs'[g] = jobs[g]
        /\ Len(jobs[cur]) \in Nat /\ Len(jobs'[cur]) = Len(jobs[cur]) + 1
        /\ \A k \in 1..Len(jobs[cur]) : jobs'[cur][k] = jobs[cur][k]
        /\ jobs'[cur][Len(jobs[cur]) + 1] = "running"
    <3>1. jobs' = [jobs EXCEPT ![cur] = Append(jobs[cur], "running")]
      BY <2>1
    <3> QED
      BY <2>2, <3>1, JobStarts
  <2>4. Len(jobs[cur]) = 0 => jobs[cur] = <<>>
    BY <2>1, <2>2
  <2> SUFFICES ASSUME writeMode = "append" PROVE AppendInv'
    BY <2>1 DEF AppendInv
  <2>5. /\ jobs'[cur] # <<>>
        /\ Len(jobs'[cur]) = 1 => copies[cur] = 0
        /\ \A k \in 1..Len(jobs'[cur]) : jobs'[cur][k] = "done" => copies[cur] >= Rows(cur)
    <3>1. jobs'[cur] # <<>>
      BY <2>3
    <3>2. Len(jobs'[cur]) = 1 => copies[cur] = 0
      BY <2>1, <2>2, <2>3, <2>4 DEF AppendInv
    <3>3. ASSUME NEW k \in 1..Len(jobs'[cur]), jobs'[cur][k] = "done"
          PROVE  copies[cur] >= Rows(cur)
      BY <2>1, <2>2, <2>3, <3>3 DEF AppendInv
    <3> QED
      BY <3>1, <3>2, <3>3
  <2>6. \A g \in File :
           /\ jobs'[g] = <<>> => copies[g] = 0
           /\ Len(jobs'[g]) = 1 =>
                  copies[g] <= 1 /\ (jobs'[g][1] # "done" => copies[g] = 0)
           /\ \A i \in 1..Len(jobs'[g]) : jobs'[g][i] = "done" => copies[g] >= Rows(g)
    BY <2>1, <2>2, <2>3, <2>5 DEF AppendInv
  <2> QED
    BY <2>1, <2>6 DEF AppendInv, Rows, HasRows
<1>14. CASE BigQueryAlreadyDone \/ BigQueryAwait \/ BigQueryAwaitScript
  BY <1>14
  DEF BigQueryAlreadyDone, At, setup_vars, order_vars, table_vars,
        server_vars, BigQueryAwait, BigQueryAwaitScript, AppendInv, Rows,
        HasRows, TypeInv, TypeOK, ModeInv
<1>15. ASSUME NEW f \in File, NEW k \in 1..MaxJobs, JobSucceeds(f, k)
      PROVE  AppendInv'
  <2> SUFFICES ASSUME writeMode' = "append" PROVE AppendInv'
    BY DEF AppendInv
  <2>1. /\ UNCHANGED <<kind, writeMode, pc, cur, committed>>
        /\ k \in DOMAIN jobs[f] /\ jobs[f][k] = "running"
        /\ jobs' = [jobs EXCEPT ![f][k] = "done"]
    BY <1>15 DEF JobSucceeds, loader_vars, setup_vars
  <2>2. copies' = [copies EXCEPT ![f] = copies[f] + Rows(f)]
    <3>1. writeMode = "append"
      BY <2>1
    <3> QED
      BY <1>15, <3>1 DEF JobSucceeds
  <2>3. /\ \A g \in File \ {f} : jobs'[g] = jobs[g]
        /\ k \in 1..Len(jobs[f]) /\ Len(jobs[f]) \in Nat /\ Len(jobs'[f]) = Len(jobs[f])
        /\ \A i \in 1..Len(jobs[f]) \ {k} : jobs'[f][i] = jobs[f][i]
        /\ jobs'[f][k] = "done" /\ jobs'[f] # <<>> /\ jobs[f] # <<>>
        /\ kind = "bigquery"
    <3>1. jobs \in [File -> Seq(JobState)] /\ "done" \in JobState
      BY DEF TypeInv, TypeOK, JobState
    <3>2. /\ \A g \in File \ {f} : jobs'[g] = jobs[g]
          /\ k \in 1..Len(jobs[f]) /\ Len(jobs[f]) \in Nat
          /\ Len(jobs'[f]) = Len(jobs[f])
          /\ \A i \in 1..Len(jobs[f]) \ {k} : jobs'[f][i] = jobs[f][i]
          /\ jobs'[f][k] = "done"
      BY <2>1, <3>1, JobEnds
    <3>3. jobs'[f] # <<>> /\ jobs[f] # <<>>
      BY <3>2
    <3>4. kind = "bigquery"
      BY <3>3 DEF TypeInv, ModeInv
    <3> QED
      BY <3>2, <3>3, <3>4
  <2>4. /\ Rows(f) \in 0..1 /\ copies \in [File -> Nat]
        /\ copies'[f] = copies[f] + Rows(f)
        /\ \A g \in File \ {f} : copies'[g] = copies[g]
    <3>1. Rows(f) \in 0..1 /\ copies \in [File -> Nat]
      BY DEF Rows, TypeInv, TypeOK
    <3> QED
      BY <2>2, <3>1
  <2>5. Len(jobs'[f]) = 1 => copies'[f] <= 1 /\ jobs'[f][1] = "done"
    BY <2>1, <2>2, <2>3, <2>4 DEF AppendInv
  <2>6. copies'[f] >= Rows(f) /\ \A g \in File : copies'[g] >= copies[g]
    BY <2>4
  <2>7. \A g \in File : Rows(g) \in 0..1
    BY DEF Rows
  <2>8. committed \subseteq File /\ (pc = "landed" => cur \in File)
    BY DEF TypeInv, TypeOK, ModeInv
  <2>9. \A g \in File :
           /\ jobs'[g] = <<>> => copies'[g] = 0
           /\ Len(jobs'[g]) = 1 =>
                  copies'[g] <= 1 /\ (jobs'[g][1] # "done" => copies'[g] = 0)
           /\ \A i \in 1..Len(jobs'[g]) : jobs'[g][i] = "done" => copies'[g] >= Rows(g)
    BY <2>1, <2>2, <2>3, <2>4, <2>5, <2>6 DEF AppendInv
  <2>10. /\ pc = "landed" => copies'[cur] >= Rows(cur)
         /\ \A g \in committed : copies'[g] >= Rows(g)
    BY <2>1, <2>4, <2>6, <2>7, <2>8 DEF AppendInv
  <2> QED
    BY <2>1, <2>3, <2>9, <2>10 DEF AppendInv, Rows, HasRows
<1>16. ASSUME NEW f \in File, NEW k \in 1..MaxJobs, JobFails(f, k)
      PROVE  AppendInv'
  <2>1. /\ UNCHANGED <<kind, writeMode, pc, cur, committed, copies>>
        /\ k \in DOMAIN jobs[f] /\ jobs[f][k] = "running"
        /\ jobs' = [jobs EXCEPT ![f][k] = "failed"]
    BY <1>16 DEF JobFails, loader_vars, setup_vars, table_vars
  <2>2. jobs \in [File -> Seq(JobState)] /\ "failed" \in JobState
    BY DEF TypeInv, TypeOK, JobState
  <2>3. /\ \A g \in File \ {f} : jobs'[g] = jobs[g]
        /\ k \in 1..Len(jobs[f]) /\ Len(jobs[f]) \in Nat
        /\ Len(jobs'[f]) = Len(jobs[f])
        /\ \A i \in 1..Len(jobs[f]) \ {k} : jobs'[f][i] = jobs[f][i]
        /\ jobs'[f][k] = "failed"
    BY <2>1, <2>2, JobEnds
  <2>4. jobs'[f] # <<>>
    BY <2>3
  <2> SUFFICES ASSUME writeMode = "append" PROVE AppendInv'
    BY <2>1 DEF AppendInv
  <2>5. \A g \in File : kind = "bigquery" =>
           /\ jobs'[g] = <<>> => copies[g] = 0
           /\ Len(jobs'[g]) = 1 =>
                  copies[g] <= 1 /\ (jobs'[g][1] # "done" => copies[g] = 0)
           /\ \A i \in 1..Len(jobs'[g]) : jobs'[g][i] = "done" => copies[g] >= Rows(g)
    BY <2>1, <2>3, <2>4 DEF AppendInv
  <2> QED
    BY <2>1, <2>5 DEF AppendInv, Rows, HasRows
<1>17. CASE UNCHANGED vars
  BY <1>17, <1>1
  DEF vars, setup_vars, table_vars, server_vars, order_vars
<1> QED
  BY <1>2, <1>3, <1>4, <1>5, <1>6, <1>7, <1>8, <1>9, <1>10, <1>11,
     <1>12, <1>13, <1>14, <1>15, <1>16, <1>17
  DEF Next, Loader, Connector, Service

\* Truncate mode: only the writes of a connector and BigQuery's jobs are not quiet.
LEMMA TruncateStep == TypeInv /\ TruncateInv /\ [Next]_vars => TruncateInv'
<1> SUFFICES ASSUME TypeInv, TruncateInv, [Next]_vars PROVE TruncateInv'
  OBVIOUS
<1> DEFINE Quiet == /\ UNCHANGED <<writeMode, copies>>
                    /\ pc' = "truncated" => pc = "truncated"
<1>1. ASSUME Quiet PROVE TruncateInv'
  BY <1>1 DEF TruncateInv, NeverMixed, Emptied
<1>2. CASE StartRun \/ Begin \/ EndRun \/ MarkCommitted \/ LoadFails
            \/ Crash
  BY <1>2, <1>1
  DEF StartRun, setup_vars, table_vars, server_vars, order_vars, Begin,
        IsFirst, EndRun, MarkCommitted, NextFile, LoadFails, Fault, LoadError,
        Crash
<1>3. CASE SqlWriteCdcRows \/ DatabricksAlreadyApplied
            \/ DatabricksMarkEmpty \/ DatabricksStage \/ DatabricksApply
            \/ DatabricksMark
  BY <1>3, <1>1
  DEF SqlWriteCdcRows, At, setup_vars, order_vars, Apply, server_vars,
        DatabricksAlreadyApplied, table_vars, DatabricksMarkEmpty,
        DatabricksStage, DatabricksApply, DatabricksMark
<1>4. CASE BigQuerySubmit \/ BigQueryAlreadyDone \/ BigQueryFallback
            \/ BigQueryStageConflict \/ BigQueryNothingToStage
            \/ BigQueryAwait \/ BigQueryScript \/ BigQueryAwaitScript
            \/ BigQueryJobError
  BY <1>4, <1>1
  DEF BigQuerySubmit, At, setup_vars, order_vars, NeedsJob, Submit,
        table_vars, BigQueryAlreadyDone, server_vars, BigQueryFallback,
        BigQueryStageConflict, LoadError, NextFile, BigQueryNothingToStage,
        BigQueryAwait, BigQueryScript, BigQueryAwaitScript, BigQueryJobError
<1>5. ASSUME NEW f \in File, Arrive(f) \/ ScriptCommits(f) \/ ScriptFails(f)
      PROVE  TruncateInv'
  BY <1>5, <1>1
  DEF Arrive, setup_vars, table_vars, server_vars, order_vars, ScriptCommits,
        Apply, loader_vars, ScriptFails, Fault
<1>6. ASSUME NEW f \in File, NEW k \in 1..MaxJobs, JobFails(f, k)
      PROVE  TruncateInv'
  BY <1>6, <1>1
  DEF JobFails, Fault, loader_vars, setup_vars, order_vars, table_vars
<1>7. CASE SqlWriteRows
  BY <1>7
  DEF SqlWriteRows, At, setup_vars, order_vars, Only, Rows, HasRows,
        server_vars, TruncateInv, NeverMixed, Emptied, TypeInv, TypeOK,
        ModeInv
<1>8. CASE DatabricksEmptyFile
  BY <1>8
  DEF DatabricksEmptyFile, At, setup_vars, order_vars, HasRows, Emptied,
        server_vars, TruncateInv, NeverMixed, TypeInv, TypeOK, ModeInv
<1>9. CASE DatabricksMerge
  BY <1>9
  DEF DatabricksMerge, At, setup_vars, order_vars, server_vars, TruncateInv,
        NeverMixed, Emptied, TypeInv, TypeOK, ModeInv
<1>10. CASE DatabricksTruncate
  BY <1>10
  DEF DatabricksTruncate, At, setup_vars, order_vars, Emptied, server_vars,
        TruncateInv, NeverMixed, TypeInv, TypeOK, ModeInv
<1>11. CASE DatabricksInsert
  BY <1>11
  DEF DatabricksInsert, At, setup_vars, order_vars, server_vars, TruncateInv,
        NeverMixed, Emptied, TypeInv, TypeOK, ModeInv
<1>12. ASSUME NEW f \in File, NEW k \in 1..MaxJobs, JobSucceeds(f, k)
      PROVE  TruncateInv'
  BY <1>12
  DEF JobSucceeds, Rows, HasRows, Only, loader_vars, setup_vars, order_vars,
        TruncateInv, NeverMixed, Emptied, TypeInv, TypeOK, ModeInv
<1>13. CASE UNCHANGED vars
  BY <1>13, <1>1
  DEF vars, setup_vars, table_vars, server_vars, order_vars
<1> QED
  BY <1>2, <1>3, <1>4, <1>5, <1>6, <1>7, <1>8, <1>9, <1>10, <1>11,
     <1>12, <1>13
  DEF Next, Loader, Connector, Service

\* CDC mode: only an application, a marker, a landing and a commit are not quiet.
LEMMA CdcStep == TypeInv /\ CdcInv /\ [Next]_vars => CdcInv'
<1> SUFFICES ASSUME TypeInv, CdcInv, [Next]_vars PROVE CdcInv'
  OBVIOUS
<1> DEFINE Quiet == /\ UNCHANGED <<writeMode, times, applied, committed>>
                    /\ pc' \in {"merged", "landed"} => pc' = pc /\ cur' = cur
<1>1. ASSUME Quiet PROVE CdcInv'
  BY <1>1 DEF CdcInv, HasRows
<1>2. CASE StartRun \/ Begin \/ EndRun \/ LoadFails \/ Crash
  BY <1>2, <1>1
  DEF StartRun, setup_vars, table_vars, server_vars, order_vars, Begin,
        IsFirst, EndRun, LoadFails, Fault, LoadError, NextFile, Crash
<1>3. CASE DatabricksStage \/ DatabricksTruncate \/ BigQuerySubmit
            \/ BigQueryFallback \/ BigQueryStageConflict
            \/ BigQueryNothingToStage \/ BigQueryScript \/ BigQueryJobError
  BY <1>3, <1>1
  DEF DatabricksStage, At, setup_vars, order_vars, table_vars, server_vars,
        DatabricksTruncate, BigQuerySubmit, NeedsJob, Submit,
        BigQueryFallback, BigQueryStageConflict, LoadError, NextFile,
        BigQueryNothingToStage, BigQueryScript, BigQueryJobError
<1>4. ASSUME NEW f \in File, Arrive(f) \/ ScriptFails(f)
      PROVE  CdcInv'
  BY <1>4, <1>1
  DEF Arrive, setup_vars, table_vars, server_vars, order_vars, ScriptFails,
        Fault, loader_vars
<1>5. ASSUME NEW f \in File, NEW k \in 1..MaxJobs, JobSucceeds(f, k) \/ JobFails(f, k)
      PROVE  CdcInv'
  BY <1>5, <1>1
  DEF JobSucceeds, loader_vars, setup_vars, order_vars, JobFails, Fault,
        table_vars
<1>6. CASE MarkCommitted
  BY <1>6
  DEF MarkCommitted, NextFile, setup_vars, table_vars, server_vars,
        order_vars, CdcInv, HasRows, TypeInv, TypeOK, ModeInv
<1>7. CASE SqlWriteRows
  BY <1>7
  DEF SqlWriteRows, At, setup_vars, order_vars, Only, Rows, HasRows,
        server_vars, CdcInv, TypeInv, TypeOK, ModeInv
<1>8. CASE SqlWriteCdcRows
  BY <1>8
  DEF SqlWriteCdcRows, At, setup_vars, order_vars, Apply, Changed,
        server_vars, CdcInv, HasRows, TypeInv, TypeOK, ModeInv
<1>9. CASE DatabricksEmptyFile \/ DatabricksAlreadyApplied
            \/ DatabricksMarkEmpty
  BY <1>9
  DEF DatabricksEmptyFile, At, setup_vars, order_vars, HasRows, Emptied,
        server_vars, DatabricksAlreadyApplied, table_vars,
        DatabricksMarkEmpty, CdcInv, TypeInv, TypeOK, ModeInv
<1>10. CASE DatabricksMerge \/ DatabricksInsert \/ DatabricksApply
            \/ DatabricksMark
  BY <1>10
  DEF DatabricksMerge, At, setup_vars, order_vars, server_vars,
        DatabricksInsert, DatabricksApply, Apply, Changed, DatabricksMark,
        CdcInv, HasRows, TypeInv, TypeOK, ModeInv
<1>11. CASE BigQueryAlreadyDone \/ BigQueryAwait \/ BigQueryAwaitScript
  BY <1>11
  DEF BigQueryAlreadyDone, At, setup_vars, order_vars, table_vars,
        server_vars, BigQueryAwait, BigQueryAwaitScript, CdcInv, HasRows,
        TypeInv, TypeOK, ModeInv
<1>12. ASSUME NEW f \in File, ScriptCommits(f)
      PROVE  CdcInv'
  <2>1. /\ UNCHANGED <<writeMode, committed, pc, cur>>
        /\ times \in [File -> Nat] /\ committed \subseteq File /\ applied \subseteq File
        /\ pc = "merged" \/ pc = "landed" => cur \in File
    BY <1>12 DEF ScriptCommits, loader_vars, setup_vars, TypeInv, TypeOK, ModeInv
  <2>2. /\ \A g \in File : times'[g] >= times[g] /\ times[g] \in Nat /\ times'[g] \in Nat
        /\ f \in applied \/ times'[f] >= 1
        /\ applied' = applied \cup {f}
    BY <1>12, <2>1 DEF ScriptCommits, Apply
  <2>3. \A g : HasRows(g)' <=> HasRows(g)
    BY DEF HasRows
  <2> QED
    BY <2>1, <2>2, <2>3 DEF CdcInv, HasRows
<1>13. CASE UNCHANGED vars
  BY <1>13, <1>1
  DEF vars, setup_vars, table_vars, server_vars, order_vars
<1> QED
  BY <1>2, <1>3, <1>4, <1>5, <1>6, <1>7, <1>8, <1>9, <1>10, <1>11,
     <1>12, <1>13
  DEF Next, Loader, Connector, Service

-----------------------------------------------------------------------------
LEMMA TypeInit == Init => TypeInv
<1> SUFFICES ASSUME Init PROVE TypeInv
  OBVIOUS
<1>1. <<kind, writeMode>> \in Setups
  <2>1. PICK s \in Setups : kind = s[1] /\ writeMode = s[2]
    BY DEF Init
  <2>2. s = <<s[1], s[2]>>
    BY DestinationsAssumption
  <2> QED
    BY <2>1, <2>2
<1>2. 0 \in 0..MaxJobs /\ 0 \in 0..MaxFaults /\ 1 <= MaxJobs
  BY DestinationsAssumption
<1>3. /\ <<>> \in Seq(JobState) /\ Len(<<>>) = 0
      /\ <<"done">> \in Seq(JobState) /\ Len(<<"done">>) = 1
  BY DEF JobState
<1>4. jobs \in [File -> {<<>>, <<"done">>}]
  BY DEF Init
<1>5. jobs \in [File -> Seq(JobState)] /\ \A f \in File : Len(jobs[f]) <= MaxJobs
  <2>1. \A f \in File : jobs[f] \in {<<>>, <<"done">>}
    BY <1>4
  <2>2. \A f \in File : jobs[f] \in Seq(JobState) /\ Len(jobs[f]) \in {0, 1}
    BY <1>3, <2>1
  <2>3. \A n \in {0, 1} : n <= MaxJobs
    BY <1>2, DestinationsAssumption
  <2> QED
    BY <1>4, <2>2, <2>3
<1>6. TypeOK
  BY <1>1, <1>2, <1>5 DEF Init, TypeOK, PC, Emptied
<1>7. ModeInv
  <2>1. kind # "bigquery" => jobs = [f \in File |-> <<>>] /\ scripts = {}
    BY DEF Init
  <2> QED
    BY <2>1 DEF Init, ModeInv
<1> QED
  BY <1>6, <1>7 DEF TypeInv

LEMMA TypeInvariant == Spec => []TypeInv
  BY TypeInit, TypeStep, PTL DEF Spec

LEMMA AppendInvariant ==
    ASSUME Foreign = {}
    PROVE  Spec => []AppendInv
<1>1. Init => AppendInv
  <2> SUFFICES ASSUME Init PROVE AppendInv
    OBVIOUS
  <2>1. \A f \in File : jobs[f] = <<>> /\ copies[f] = 0
    BY DEF Init, Emptied
  <2> QED
    BY <2>1 DEF Init, AppendInv
<1> QED
  BY <1>1, TypeInvariant, AppendStep, PTL DEF Spec

LEMMA TruncateInvariant == Spec => []TruncateInv
<1>1. Init => TruncateInv
  BY DEF Init, TruncateInv, NeverMixed, Emptied
<1> QED
  BY <1>1, TypeInvariant, TruncateStep, PTL DEF Spec

LEMMA CdcInvariant == Spec => []CdcInv
<1>1. Init => CdcInv
  BY DEF Init, CdcInv
<1> QED
  BY <1>1, TypeInvariant, CdcStep, PTL DEF Spec

\* The variables keep their types.
THEOREM DestinationTypes == Spec => []TypeOK
<1>1. TypeInv => TypeOK
  BY DEF TypeInv
<1> QED
  BY <1>1, TypeInvariant, PTL

\* ADR-0004: a load is idempotent per content hash, whatever statement of an
\* earlier attempt was its last; on BigQuery, as long as no second job was used.
THEOREM AppendIdempotent ==
    ASSUME Foreign = {}
    PROVE  Spec => []RowsOnce
<1>1. TypeInv /\ AppendInv => RowsOnce
  <2> SUFFICES ASSUME TypeInv, AppendInv, writeMode = "append", NEW f \in File
               PROVE  copies[f] <= 1 \/ (kind = "bigquery" /\ Len(jobs[f]) > 1)
    BY DEF RowsOnce
  <2>1. jobs[f] \in Seq(JobState) /\ Len(jobs[f]) \in Nat
    BY DEF TypeInv, TypeOK
  <2>2. copies[f] \in Nat
    BY DEF TypeInv, TypeOK
  <2>4. CASE kind # "bigquery"
    BY <2>4 DEF AppendInv
  <2>5. CASE kind = "bigquery" /\ Len(jobs[f]) <= 1
    <3>1. CASE jobs[f] = <<>>
      BY <2>2, <2>5, <3>1 DEF AppendInv
    <3>2. CASE jobs[f] # <<>>
      <4>1. Len(jobs[f]) = 1
        BY <2>1, <2>5, <3>2, AtMostOne
      <4> QED
        BY <2>5, <4>1 DEF AppendInv
    <3> QED
      BY <3>1, <3>2
  <2> QED
    BY <2>1, <2>4, <2>5
<1> QED
  BY <1>1, TypeInvariant, AppendInvariant, PTL

\* No file is COMMITTED, and no marker written, before its effect is there.
\* The job ids must be the pipeline's own.
THEOREM CommittedAfterLanding ==
    ASSUME Foreign = {}
    PROVE  Spec => []LandedBeforeCommit
<1>1. TypeInv /\ AppendInv /\ CdcInv => LandedBeforeCommit
  BY DEF AppendInv, CdcInv, LandedBeforeCommit, Rows
<1> QED
  BY <1>1, TypeInvariant, AppendInvariant, CdcInvariant, PTL

\* Truncate mode never mixes two files, nor doubles one.
THEOREM TruncateNeverMixes == Spec => []NeverMixed
<1>1. TruncateInv => NeverMixed
  BY DEF TruncateInv, NeverMixed
<1> QED
  BY <1>1, TruncateInvariant, PTL

-----------------------------------------------------------------------------
(***************************************************************************)
(* What a truncate load leaves: when it has landed, the table is its file. *)
(***************************************************************************)
ShownInv ==
    writeMode = "truncate" =>
        /\ pc = "truncated" => HasRows(cur)
        /\ pc = "landed" /\ kind # "bigquery" => copies = Only(cur)

LEMMA ShownStep == TypeInv /\ TruncateInv /\ ShownInv /\ [Next]_vars => ShownInv'
<1> SUFFICES ASSUME TypeInv, TruncateInv, ShownInv, [Next]_vars PROVE ShownInv'
  OBVIOUS
<1>1. ASSUME UNCHANGED <<kind, writeMode>>, pc' \notin {"truncated", "landed"} PROVE ShownInv'
  BY <1>1 DEF ShownInv
<1>2. CASE \/ StartRun \/ Begin \/ EndRun \/ MarkCommitted \/ LoadFails \/ Crash
           \/ BigQueryStageConflict \/ BigQueryJobError
  BY <1>1, <1>2
  DEF StartRun, Begin, EndRun, MarkCommitted, LoadFails, Crash, LoadError, NextFile,
        BigQueryStageConflict, BigQueryJobError, setup_vars
<1>3. CASE \/ DatabricksStage \/ DatabricksApply \/ BigQuerySubmit \/ BigQueryFallback
           \/ BigQueryNothingToStage \/ BigQueryScript
  BY <1>1, <1>3
  DEF DatabricksStage, DatabricksApply, BigQuerySubmit, BigQueryFallback,
        BigQueryNothingToStage, BigQueryScript, At, setup_vars
<1>4. CASE \/ SqlWriteCdcRows \/ DatabricksAlreadyApplied \/ DatabricksMarkEmpty
           \/ DatabricksMerge \/ DatabricksMark
           \/ BigQueryAlreadyDone \/ BigQueryAwait \/ BigQueryAwaitScript
  BY <1>4
  DEF SqlWriteCdcRows, DatabricksAlreadyApplied, DatabricksMarkEmpty, DatabricksMerge,
        DatabricksMark, BigQueryAlreadyDone, BigQueryAwait, BigQueryAwaitScript, At,
        setup_vars, ShownInv, TypeInv, ModeInv
<1>5. CASE SqlWriteRows
  <2>1. /\ UNCHANGED <<kind, writeMode, cur>> /\ pc' = "landed"
        /\ writeMode = "truncate" => copies' = Only(cur)
    BY <1>5 DEF SqlWriteRows, At, setup_vars
  <2> QED
    BY <2>1 DEF ShownInv, Only, Rows, HasRows
<1>6. CASE DatabricksEmptyFile
  <2>1. /\ UNCHANGED <<kind, writeMode, cur>> /\ pc' = "landed"
        /\ writeMode = "truncate" => copies' = Emptied
        /\ ~HasRows(cur)
    BY <1>6 DEF DatabricksEmptyFile, At, setup_vars
  <2>2. Emptied = Only(cur)
    BY <2>1 DEF Emptied, Only, Rows
  <2> QED
    BY <2>1, <2>2 DEF ShownInv, Only, Rows, HasRows
<1>7. CASE DatabricksTruncate
  BY <1>7 DEF DatabricksTruncate, At, setup_vars, ShownInv, TypeInv, ModeInv, HasRows
<1>8. CASE DatabricksInsert
  <2>1. /\ UNCHANGED <<kind, writeMode, cur>> /\ pc' = "landed" /\ pc = "truncated"
        /\ copies' = [copies EXCEPT ![cur] = copies[cur] + 1]
    BY <1>8 DEF DatabricksInsert, At, setup_vars
  <2>2. writeMode = "truncate" /\ cur \in File /\ copies = Emptied /\ HasRows(cur)
    BY <2>1 DEF ShownInv, TruncateInv, TypeInv, TypeOK, ModeInv
  <2>3. copies' = Only(cur)
    BY <2>1, <2>2 DEF Emptied, Only, Rows
  <2> QED
    BY <2>1, <2>3 DEF ShownInv, Only, Rows, HasRows
<1>9. ASSUME NEW f \in File,
             \/ Arrive(f) \/ ScriptCommits(f) \/ ScriptFails(f)
             \/ \E n \in 1..MaxJobs : JobFails(f, n)
      PROVE  ShownInv'
  BY <1>9
  DEF Arrive, ScriptCommits, ScriptFails, JobFails, loader_vars, setup_vars, table_vars,
        ShownInv, Only, Rows, HasRows
<1>10. ASSUME NEW f \in File, NEW n \in 1..MaxJobs, JobSucceeds(f, n) PROVE ShownInv'
  <2>1. UNCHANGED <<kind, writeMode, pc, cur>> /\ n \in DOMAIN jobs[f]
    BY <1>10 DEF JobSucceeds, loader_vars, setup_vars
  <2>2. kind = "bigquery"
    BY <2>1 DEF TypeInv, ModeInv
  <2> QED
    BY <2>1, <2>2 DEF ShownInv, HasRows
<1>11. CASE UNCHANGED vars
  BY <1>11 DEF vars, setup_vars, table_vars, ShownInv, Only, Rows, HasRows
<1> QED
  BY <1>2, <1>3, <1>4, <1>5, <1>6, <1>7, <1>8, <1>9, <1>10, <1>11
  DEF Next, Loader, Connector, Service

\* A file that a truncate pipeline marks COMMITTED is the one in the table, on
\* every connector but BigQuery.
THEOREM CommitsWhatItShows == Spec => CommitShowsTable
<1> DEFINE Shows == \A f \in committed' \ committed :
                        writeMode = "truncate" /\ kind # "bigquery" => copies = Only(f)
<1>1. Init => ShownInv
  BY DEF Init, ShownInv
<1>2. ShownInv /\ [Next]_vars => [Shows]_vars
  <2> SUFFICES ASSUME ShownInv, Next PROVE Shows
    OBVIOUS
  <2>1. ASSUME NEW f \in committed' \ committed PROVE MarkCommitted /\ f = cur
    <3>1. committed' # committed
      BY <2>1
    <3>2. MarkCommitted
      <4>1. CASE StartRun \/ Begin \/ EndRun \/ LoadFails \/ Crash
        BY <3>1, <4>1 DEF StartRun, Begin, EndRun, LoadFails, Crash, LoadError
      <4>2. CASE Connector
        BY <3>1, <4>2
        DEF Connector, At, SqlWriteRows, SqlWriteCdcRows, DatabricksEmptyFile,
              DatabricksAlreadyApplied, DatabricksMarkEmpty, DatabricksStage,
              DatabricksMerge, DatabricksTruncate, DatabricksInsert,
              DatabricksApply, DatabricksMark, BigQuerySubmit, BigQueryAlreadyDone,
              BigQueryFallback, BigQueryStageConflict, BigQueryNothingToStage,
              BigQueryAwait, BigQueryScript, BigQueryAwaitScript, BigQueryJobError,
              LoadError
      <4>3. ASSUME NEW g \in File,
                   \/ Arrive(g) \/ ScriptCommits(g) \/ ScriptFails(g)
                   \/ \E n \in 1..MaxJobs : JobSucceeds(g, n) \/ JobFails(g, n)
            PROVE  FALSE
        BY <3>1, <4>3
        DEF Arrive, ScriptCommits, ScriptFails, JobSucceeds, JobFails, loader_vars
      <4> QED
        BY <4>1, <4>2, <4>3 DEF Next, Loader, Service
    <3> QED
      BY <2>1, <3>2 DEF MarkCommitted
  <2> QED
    BY <2>1 DEF MarkCommitted, ShownInv
<1>3. TypeInv /\ TruncateInv /\ ShownInv /\ [Next]_vars => ShownInv'
  BY ShownStep
<1> QED
  BY <1>1, <1>2, <1>3, TypeInvariant, TruncateInvariant, PTL DEF Spec, CommitShowsTable

-----------------------------------------------------------------------------
(***************************************************************************)
(* CDC mode in path order.  While no file was begun after a later one, and *)
(* no file was left behind the last one begun, the table is the changes of *)
(* the committed files, with those of the last file or without them.       *)
(***************************************************************************)
WorkInv ==
    /\ todo \cap committed = {}
    /\ scripts \subseteq arrived \ committed
    /\ pc \notin {"idle", "next"} => cur \notin committed
    /\ pc = "landed" => cur \notin scripts
    /\ furthest \in arrived \cup {0}

Earlier == {f \in committed : f < furthest}

LeftBehind == \E f \in arrived \ committed : f < furthest

WithFurthest == furthest \in File /\ row = InPathOrder(Earlier \cup {furthest})

OrderInv ==
    writeMode = "cdc" /\ ~disordered =>
        /\ pc \notin {"idle", "next"} => cur = furthest
        /\ \A f \in committed \cup applied \cup scripts : f <= furthest
        /\ ~LeftBehind =>
            /\ WithFurthest \/ row = InPathOrder(Earlier)
            /\ furthest \in committed \cup applied => WithFurthest
            /\ pc \in {"merged", "landed"} => WithFurthest

\* Applying a file after those before it in path order, and applying it again.
LEMMA ChangesNext ==
    ASSUME NEW S \in SUBSET File, NEW f \in File, \A g \in S : g < f
    PROVE  Changed(InPathOrder(S), f) = InPathOrder(S \cup {f})
<1> DEFINE T(k) == {g \in S : k \in Puts[g] \cup Deletes[g]}
           U(k) == {g \in S \cup {f} : k \in Puts[g] \cup Deletes[g]}
           LastOf(V, k) == IF \E g \in V : k \in Puts[g] /\ \A h \in V : h <= g
                           THEN CHOOSE g \in V : \A h \in V : h <= g
                           ELSE NoFile
<1>1. /\ InPathOrder(S) = [k \in Key |-> LastOf(T(k), k)]
      /\ InPathOrder(S \cup {f}) = [k \in Key |-> LastOf(U(k), k)]
  BY DEF InPathOrder
<1>2. File \subseteq Nat /\ Puts[f] \cap Deletes[f] = {}
  BY DestinationsAssumption
<1>3. SUFFICES ASSUME NEW k \in Key PROVE Changed(InPathOrder(S), f)[k] = LastOf(U(k), k)
  BY <1>1 DEF Changed
<1>4. \A g \in U(k) : g <= f
  BY <1>2
<1>5. CASE k \in Puts[f]
  <2>1. f \in U(k) /\ \A h \in U(k) : h <= f
    BY <1>4, <1>5
  <2>2. \A g \in U(k) : (\A h \in U(k) : h <= g) => g = f
    BY <1>2, <2>1
  <2>3. LastOf(U(k), k) = f
    <3> HIDE DEF U
    <3>1. (CHOOSE g \in U(k) : \A h \in U(k) : h <= g) = f
      BY <2>1, <2>2
    <3> QED
      BY <1>5, <2>1, <3>1
  <2>4. Changed(InPathOrder(S), f)[k] = f
    BY <1>2, <1>5 DEF Changed
  <2> QED
    BY <2>3, <2>4
<1>6. CASE k \in Deletes[f]
  <2>1. f \in U(k) /\ k \notin Puts[f]
    BY <1>2, <1>6
  <2>2. \A g \in U(k) : (\A h \in U(k) : h <= g) => g = f
    BY <1>2, <1>4, <2>1
  <2>3. LastOf(U(k), k) = NoFile
    <3> HIDE DEF U
    <3> QED
      BY <2>1, <2>2
  <2> QED
    BY <1>6, <2>1, <2>3 DEF Changed
<1>7. CASE k \notin Puts[f] \cup Deletes[f]
  <2>1. T(k) = U(k)
    BY <1>7
  <2>2. LastOf(T(k), k) = LastOf(U(k), k)
    <3> HIDE DEF T, U
    <3> QED
      BY <2>1
  <2>3. InPathOrder(S)[k] = LastOf(T(k), k)
    <3> HIDE DEF LastOf
    <3> QED
      BY <1>1
  <2>4. Changed(InPathOrder(S), f)[k] = InPathOrder(S)[k]
    BY <1>7 DEF Changed
  <2> QED
    BY <2>2, <2>3, <2>4
<1> QED
  BY <1>5, <1>6, <1>7

LEMMA ChangesAgain ==
    ASSUME NEW r, NEW f
    PROVE  Changed(Changed(r, f), f) = Changed(r, f)
BY DEF Changed

LEMMA ChangesNothing ==
    ASSUME NEW r \in [Key -> File \cup {NoFile}], NEW f \in File, ~HasRows(f)
    PROVE  Changed(r, f) = r
<1>1. Puts[f] = {} /\ Deletes[f] = {}
  BY DEF HasRows, Filled
<1> QED
  BY <1>1 DEF Changed

LEMMA WorkStep == TypeInv /\ WorkInv /\ [Next]_vars => WorkInv'
<1> SUFFICES ASSUME TypeInv, WorkInv, [Next]_vars PROVE WorkInv'
  OBVIOUS
<1>1. ASSUME UNCHANGED <<committed, furthest>>, arrived \subseteq arrived',
             todo' \subseteq todo, scripts' \subseteq scripts,
             pc' \notin {"idle", "next"} => pc \notin {"idle", "next"} /\ cur' = cur,
             pc' = "landed" => pc = "landed" \/ cur \notin scripts
      PROVE  WorkInv'
  BY <1>1 DEF WorkInv
<1>2. CASE StartRun
  BY <1>2 DEF StartRun, server_vars, order_vars, WorkInv
<1>3. CASE \/ EndRun \/ LoadFails \/ Crash \/ BigQueryStageConflict \/ BigQueryJobError
  BY <1>3, <1>1
  DEF EndRun, LoadFails, Crash, BigQueryStageConflict, BigQueryJobError, LoadError,
        NextFile, server_vars, order_vars
<1>4. CASE Begin
  <2>1. PICK f \in todo : /\ cur' = f
                          /\ furthest' = IF f > furthest THEN f ELSE furthest
    BY <1>4 DEF Begin
  <2>2. UNCHANGED <<arrived, committed, todo, scripts>> /\ pc' = "claimed"
    BY <1>4 DEF Begin, server_vars
  <2>3. f \in arrived \ committed
    BY <2>1 DEF WorkInv, TypeInv, TypeOK
  <2> QED
    BY <2>1, <2>2, <2>3 DEF WorkInv
<1>5. CASE MarkCommitted
  BY <1>5 DEF MarkCommitted, NextFile, server_vars, order_vars, WorkInv
<1>6. CASE \/ SqlWriteRows \/ SqlWriteCdcRows \/ DatabricksEmptyFile
           \/ DatabricksAlreadyApplied \/ DatabricksMarkEmpty
           \/ DatabricksStage \/ DatabricksMerge \/ DatabricksTruncate
           \/ DatabricksInsert \/ DatabricksApply \/ DatabricksMark
  <2>1. scripts = {}
    BY <1>6
    DEF SqlWriteRows, At, SqlWriteCdcRows, DatabricksEmptyFile,
          DatabricksAlreadyApplied, DatabricksMarkEmpty, DatabricksStage,
          DatabricksMerge, DatabricksTruncate, DatabricksInsert, DatabricksApply,
          DatabricksMark, TypeInv, ModeInv
  <2>2. /\ UNCHANGED <<committed, furthest, arrived, todo, scripts, cur>>
        /\ pc \notin {"idle", "next"}
    BY <1>6
    DEF SqlWriteRows, At, SqlWriteCdcRows, DatabricksEmptyFile,
          DatabricksAlreadyApplied, DatabricksMarkEmpty, DatabricksStage,
          DatabricksMerge, DatabricksTruncate, DatabricksInsert, DatabricksApply,
          DatabricksMark, server_vars, order_vars
  <2> QED
    BY <1>1, <2>1, <2>2
<1>7. CASE BigQuerySubmit \/ BigQueryFallback \/ BigQueryNothingToStage
  BY <1>1, <1>7
  DEF BigQuerySubmit, BigQueryFallback, BigQueryNothingToStage, At, Submit, server_vars,
        order_vars
<1>8. CASE BigQueryAlreadyDone \/ BigQueryAwait \/ BigQueryAwaitScript
  BY <1>1, <1>8
  DEF BigQueryAlreadyDone, BigQueryAwait, BigQueryAwaitScript, At, server_vars,
        order_vars, TypeInv, ModeInv
<1>9. CASE BigQueryScript
  BY <1>9 DEF BigQueryScript, At, order_vars, WorkInv, TypeInv, ModeInv
<1>10. ASSUME NEW f \in File,
              \/ Arrive(f) \/ ScriptCommits(f) \/ ScriptFails(f)
              \/ \E n \in 1..MaxJobs : JobSucceeds(f, n) \/ JobFails(f, n)
       PROVE  WorkInv'
  BY <1>1, <1>10
  DEF Arrive, ScriptCommits, ScriptFails, JobSucceeds, JobFails, loader_vars,
        server_vars, order_vars
<1>11. CASE UNCHANGED vars
  BY <1>1, <1>11 DEF vars, server_vars, order_vars
<1> QED
  BY <1>2, <1>3, <1>4, <1>5, <1>6, <1>7, <1>8, <1>9, <1>10, <1>11
  DEF Next, Loader, Connector, Service

\* A step that leaves the rows as they are.
LEMMA RowsStay ==
    ASSUME OrderInv,
           UNCHANGED <<writeMode, row, furthest, disordered, committed, applied>>,
           arrived \subseteq arrived',
           furthest \in Nat,
           \/ scripts' \subseteq scripts
           \/ scripts' \subseteq scripts \cup {cur} /\ pc \notin {"idle", "next"},
           pc' \notin {"idle", "next"} => pc \notin {"idle", "next"} /\ cur' = cur,
           pc' \in {"merged", "landed"} =>
               pc \in {"merged", "landed"} \/ cur \in applied
    PROVE  OrderInv'
<1> SUFFICES ASSUME writeMode = "cdc", ~disordered PROVE OrderInv'
  BY DEF OrderInv
<1>1. /\ LeftBehind => LeftBehind'
      /\ WithFurthest => WithFurthest'
      /\ row = InPathOrder(Earlier) => (row = InPathOrder(Earlier))'
  BY DEF LeftBehind, WithFurthest, Earlier, InPathOrder
<1>2. pc' \notin {"idle", "next"} => cur' = furthest'
  BY DEF OrderInv
<1>3. \A f \in committed' \cup applied' \cup scripts' : f <= furthest'
  <2>1. scripts' \subseteq scripts \cup {furthest}
    BY DEF OrderInv
  <2> QED
    BY <2>1 DEF OrderInv
<1>4. ASSUME ~LeftBehind'
      PROVE  /\ (WithFurthest \/ row = InPathOrder(Earlier))'
             /\ (furthest \in committed \cup applied => WithFurthest)'
             /\ (pc \in {"merged", "landed"} => WithFurthest)'
  BY <1>1, <1>4 DEF OrderInv
<1> QED
  BY <1>2, <1>3, <1>4 DEF OrderInv

\* A step that applies the changes of the last file begun.
LEMMA RowsChange ==
    ASSUME TypeInv, OrderInv, WorkInv,
           UNCHANGED <<writeMode, furthest, disordered, committed, arrived>>,
           furthest \in File,
           row' = Changed(row, furthest),
           applied' \cup scripts' \subseteq applied \cup scripts \cup {furthest},
           pc' \notin {"idle", "next"} => pc \notin {"idle", "next"} /\ cur' = cur
    PROVE  OrderInv'
<1> SUFFICES ASSUME writeMode = "cdc", ~disordered PROVE OrderInv'
  BY DEF OrderInv
<1>1. File \subseteq Nat
  BY DestinationsAssumption
<1>2. pc' \notin {"idle", "next"} => cur' = furthest'
  BY DEF OrderInv
<1>3. \A f \in committed' \cup applied' \cup scripts' : f <= furthest'
  BY <1>1 DEF OrderInv
<1>4. Earlier \subseteq File /\ \A g \in Earlier : g < furthest
  BY DEF Earlier, TypeInv, TypeOK
<1>5. Changed(InPathOrder(Earlier), furthest) = InPathOrder(Earlier \cup {furthest})
  BY <1>4, ChangesNext
<1>6. ASSUME ~LeftBehind' PROVE WithFurthest'
  <2>1. ~LeftBehind
    BY <1>6 DEF LeftBehind
  <2>2. Changed(row, furthest) = InPathOrder(Earlier \cup {furthest})
    <3>1. row = InPathOrder(Earlier) \/ row = InPathOrder(Earlier \cup {furthest})
      BY <2>1 DEF OrderInv, WithFurthest
    <3>2. CASE row = InPathOrder(Earlier)
      BY <1>5, <3>2
    <3>3. CASE row = InPathOrder(Earlier \cup {furthest})
      <4>1. Changed(Changed(InPathOrder(Earlier), furthest), furthest)
                = Changed(InPathOrder(Earlier), furthest)
        BY ChangesAgain
      <4> QED
        BY <1>5, <3>3, <4>1
    <3> QED
      BY <3>1, <3>2, <3>3
  <2> QED
    BY <2>2 DEF WithFurthest, Earlier, InPathOrder
<1> QED
  BY <1>2, <1>3, <1>6 DEF OrderInv

LEMMA OrderStep == TypeInv /\ WorkInv /\ OrderInv /\ [Next]_vars => OrderInv'
<1> SUFFICES ASSUME TypeInv, WorkInv, OrderInv, [Next]_vars PROVE OrderInv'
  OBVIOUS
<1>1. File \subseteq Nat /\ furthest \in Nat
  BY DestinationsAssumption DEF TypeInv, TypeOK
<1>2. ASSUME writeMode' # "cdc" PROVE OrderInv'
  BY <1>2 DEF OrderInv
<1>3. CASE StartRun
  BY <1>1, <1>3, RowsStay
  DEF StartRun, setup_vars, table_vars, server_vars, order_vars
<1>4. CASE \/ EndRun \/ LoadFails \/ Crash \/ BigQueryStageConflict \/ BigQueryJobError
  BY <1>1, <1>4, RowsStay
  DEF EndRun, LoadFails, Crash, BigQueryStageConflict, BigQueryJobError, LoadError,
        NextFile, setup_vars, table_vars, server_vars, order_vars
<1>5. CASE Begin
  <2>1. PICK f \in todo : /\ cur' = f
                          /\ furthest' = IF f > furthest THEN f ELSE furthest
                          /\ disordered' = (disordered \/ f < furthest)
    BY <1>5 DEF Begin
  <2>2. /\ UNCHANGED <<writeMode, row, applied, arrived, committed, scripts>>
        /\ pc' = "claimed"
    BY <1>5 DEF Begin, setup_vars, table_vars, server_vars
  <2>3. f \in arrived \ committed /\ f \in File
    BY <2>1 DEF WorkInv, TypeInv, TypeOK
  <2> SUFFICES ASSUME writeMode = "cdc", ~disordered' PROVE OrderInv'
    BY <2>2 DEF OrderInv
  <2>4. ~disordered /\ f >= furthest /\ furthest' = f
    <3>1. ~disordered /\ ~(f < furthest)
      BY <2>1
    <3> QED
      BY <1>1, <2>1, <2>3, <3>1
  <2>5. \A g \in committed' \cup applied' \cup scripts' : g <= furthest'
    <3>1. committed \cup applied \cup scripts \subseteq Nat
      BY <1>1 DEF TypeInv, TypeOK
    <3> QED
      BY <1>1, <2>2, <2>3, <2>4, <3>1 DEF OrderInv
  <2>6. ASSUME ~LeftBehind'
        PROVE  /\ (WithFurthest \/ row = InPathOrder(Earlier))'
               /\ (furthest \in committed \cup applied => WithFurthest)'
    <3>1. ~LeftBehind
      BY <1>1, <2>2, <2>3, <2>4, <2>6 DEF LeftBehind
    <3>2. CASE f = furthest
      BY <2>2, <2>4, <3>1, <3>2 DEF OrderInv, WithFurthest, Earlier, InPathOrder
    <3>3. CASE f > furthest
      <4>1. furthest \in committed \cup {0}
        BY <2>2, <2>4, <2>6, <3>3 DEF LeftBehind, WorkInv
      <4>2. f \notin committed \cup applied
        BY <1>1, <2>3, <2>4, <3>3 DEF OrderInv
      <4>3. row = InPathOrder({g \in committed : g < f})
        <5>1. CASE furthest \in committed
          <6>1. {g \in committed : g < f} = Earlier \cup {furthest}
            <7>1. committed \subseteq Nat /\ \A g \in committed : g <= furthest
              BY <1>1, <2>4 DEF OrderInv, TypeInv, TypeOK
            <7>2. \A g \in committed : g < f /\ (g = furthest \/ g < furthest)
              BY <1>1, <2>3, <3>3, <7>1
            <7> QED
              BY <5>1, <7>2 DEF Earlier
          <6> QED
            BY <2>4, <3>1, <5>1, <6>1 DEF OrderInv, WithFurthest
        <5>2. CASE furthest \notin committed
          <6>1. furthest = 0 /\ 0 \notin File
            BY <4>1, <5>2, DestinationsAssumption
          <6>2. committed = {}
            <7>1. committed \subseteq File /\ \A g \in committed : g <= 0
              BY <2>4, <6>1 DEF OrderInv, TypeInv, TypeOK
            <7> QED
              BY <1>1, <6>1, <7>1
          <6>3. Earlier = {g \in committed : g < f}
            BY <6>2 DEF Earlier
          <6> QED
            BY <2>4, <3>1, <6>1, <6>3 DEF OrderInv, WithFurthest
        <5> QED
          BY <5>1, <5>2
      <4> QED
        BY <2>2, <2>4, <4>2, <4>3 DEF Earlier, InPathOrder
    <3> QED
      BY <1>1, <2>3, <2>4, <3>2, <3>3
  <2> QED
    BY <2>1, <2>2, <2>4, <2>5, <2>6 DEF OrderInv
<1>6. CASE MarkCommitted
  <2>1. /\ UNCHANGED <<writeMode, row, applied, arrived, scripts, furthest, disordered>>
        /\ pc = "landed" /\ pc' = "next" /\ committed' = committed \cup {cur}
    BY <1>6
    DEF MarkCommitted, NextFile, setup_vars, table_vars, server_vars, order_vars
  <2> SUFFICES ASSUME writeMode = "cdc", ~disordered PROVE OrderInv'
    BY <2>1 DEF OrderInv
  <2>2. cur = furthest /\ cur \in File
    BY <2>1 DEF OrderInv, TypeInv, TypeOK, ModeInv
  <2>3. \A f \in committed' \cup applied' \cup scripts' : f <= furthest'
    BY <1>1, <2>1, <2>2 DEF OrderInv
  <2>4. {f \in committed' : f < furthest} = Earlier
    BY <1>1, <2>1, <2>2 DEF Earlier
  <2>5. ASSUME ~LeftBehind' PROVE WithFurthest'
    <3>1. ~LeftBehind
      BY <1>1, <2>1, <2>2, <2>5 DEF LeftBehind
    <3>2. WithFurthest
      BY <2>1, <3>1 DEF OrderInv
    <3>3. Earlier' = Earlier
      BY <2>1, <2>4 DEF Earlier
    <3> QED
      BY <2>1, <3>2, <3>3 DEF WithFurthest, InPathOrder
  <2> QED
    BY <2>1, <2>3, <2>5 DEF OrderInv
<1>7. CASE SqlWriteRows \/ DatabricksEmptyFile
  BY <1>2, <1>7 DEF SqlWriteRows, DatabricksEmptyFile, At, setup_vars
<1>8. CASE DatabricksMerge \/ DatabricksTruncate \/ DatabricksInsert
  BY <1>2, <1>8
  DEF DatabricksMerge, DatabricksTruncate, DatabricksInsert, At, setup_vars,
        TypeInv, ModeInv
<1>9. CASE DatabricksStage \/ DatabricksAlreadyApplied
  BY <1>1, <1>9, RowsStay
  DEF DatabricksStage, DatabricksAlreadyApplied, At, setup_vars, table_vars,
        server_vars, order_vars
<1>10. CASE BigQuerySubmit \/ BigQueryFallback \/ BigQueryNothingToStage
  BY <1>1, <1>10, RowsStay
  DEF BigQuerySubmit, BigQueryFallback, BigQueryNothingToStage, At, Submit,
        setup_vars, table_vars, server_vars, order_vars
<1>11. CASE BigQueryAlreadyDone \/ (BigQueryAwait /\ writeMode # "cdc")
  BY <1>2, <1>11 DEF BigQueryAlreadyDone, BigQueryAwait, At, setup_vars
<1>12. CASE (BigQueryAwait /\ writeMode = "cdc") \/ BigQueryAwaitScript
  BY <1>1, <1>12, RowsStay
  DEF BigQueryAwait, BigQueryAwaitScript, At, setup_vars, table_vars, server_vars,
        order_vars
<1>13. CASE BigQueryScript
  BY <1>1, <1>13, RowsStay
  DEF BigQueryScript, At, setup_vars, table_vars, server_vars, order_vars
<1>14. CASE SqlWriteCdcRows \/ DatabricksApply
  <2>1. /\ UNCHANGED <<writeMode, furthest, disordered, committed, arrived>>
        /\ UNCHANGED <<applied, scripts, cur>>
        /\ pc \notin {"idle", "next"} /\ writeMode = "cdc"
        /\ row' = Changed(row, cur)
    BY <1>14
    DEF SqlWriteCdcRows, DatabricksApply, At, Apply, setup_vars, server_vars, order_vars
  <2>2. CASE ~disordered
    <3>1. cur = furthest /\ cur \in File
      BY <2>1, <2>2 DEF OrderInv, TypeInv, TypeOK, ModeInv
    <3> QED
      BY <2>1, <3>1, RowsChange
  <2>3. CASE disordered
    BY <2>1, <2>3 DEF OrderInv
  <2> QED
    BY <2>2, <2>3
<1>15. CASE DatabricksMarkEmpty \/ DatabricksMark
  <2>1. /\ UNCHANGED <<writeMode, furthest, disordered, committed, arrived>>
        /\ UNCHANGED <<row, scripts, cur>> /\ applied' = applied \cup {cur}
        /\ pc \notin {"idle", "next"} /\ pc' = "landed"
        /\ pc = "merged" \/ (DatabricksMarkEmpty /\ ~HasRows(cur))
    BY <1>15
    DEF DatabricksMarkEmpty, DatabricksMark, At, setup_vars, server_vars, order_vars
  <2>2. cur \in File
    BY <2>1 DEF TypeInv, TypeOK, ModeInv
  <2> SUFFICES ASSUME writeMode = "cdc", ~disordered PROVE OrderInv'
    BY <2>1 DEF OrderInv
  <2>3. cur = furthest
    BY <2>1 DEF OrderInv
  <2>4. CASE ~HasRows(cur)
    <3>1. row' = Changed(row, furthest)
      BY <2>1, <2>2, <2>3, <2>4, ChangesNothing DEF TypeInv, TypeOK
    <3> QED
      BY <2>1, <2>2, <2>3, <3>1, RowsChange
  <2>5. CASE pc = "merged"
    <3>1. \A f \in committed' \cup applied' \cup scripts' : f <= furthest'
      BY <1>1, <2>1, <2>3 DEF OrderInv
    <3>2. ASSUME ~LeftBehind' PROVE WithFurthest'
      BY <2>1, <2>5, <3>2 DEF OrderInv, LeftBehind, WithFurthest, Earlier, InPathOrder
    <3> QED
      BY <2>1, <2>3, <3>1, <3>2 DEF OrderInv
  <2> QED
    BY <2>1, <2>4, <2>5
<1>16. ASSUME NEW f \in File,
              \/ Arrive(f) \/ ScriptFails(f)
              \/ \E n \in 1..MaxJobs : JobSucceeds(f, n) \/ JobFails(f, n)
       PROVE  OrderInv'
  BY <1>1, <1>16, RowsStay
  DEF Arrive, ScriptFails, JobSucceeds, JobFails, loader_vars, setup_vars, table_vars,
        server_vars, order_vars
<1>17. ASSUME NEW f \in File, ScriptCommits(f) PROVE OrderInv'
  <2>1. /\ UNCHANGED <<writeMode, furthest, disordered, committed, arrived, cur, pc>>
        /\ f \in scripts /\ scripts' = scripts \ {f} /\ f \in arrived \ committed
        /\ \/ UNCHANGED <<row, applied>>
           \/ row' = Changed(row, f) /\ applied' = applied \cup {f}
    BY <1>17 DEF ScriptCommits, Apply, loader_vars, setup_vars, order_vars, WorkInv
  <2>2. CASE UNCHANGED <<row, applied>>
    BY <1>1, <2>1, <2>2, RowsStay
  <2>3. CASE row' = Changed(row, f) /\ applied' = applied \cup {f}
    <3> SUFFICES ASSUME writeMode = "cdc", ~disordered PROVE OrderInv'
      BY <2>1 DEF OrderInv
    <3>1. f <= furthest
      BY <2>1 DEF OrderInv
    <3>2. CASE f = furthest
      BY <2>1, <2>3, <3>2, RowsChange
    <3>3. CASE f < furthest
      <4>1. LeftBehind'
        BY <2>1, <3>3 DEF LeftBehind
      <4>2. \A g \in committed' \cup applied' \cup scripts' : g <= furthest'
        BY <2>1, <2>3 DEF OrderInv
      <4> QED
        BY <2>1, <4>1, <4>2 DEF OrderInv
    <3> QED
      BY <1>1, <3>1, <3>2, <3>3
  <2> QED
    BY <2>1, <2>2, <2>3
<1>18. CASE UNCHANGED vars
  BY <1>1, <1>18, RowsStay DEF vars, setup_vars, table_vars, server_vars, order_vars
<1> QED
  BY <1>3, <1>4, <1>5, <1>6, <1>7, <1>8, <1>9, <1>10, <1>11, <1>12, <1>13, <1>14,
     <1>15, <1>16, <1>17, <1>18
  DEF Next, Loader, Connector, Service

\* CDC files begun in path order leave the table that applying each once leaves,
\* whatever statement, job or marker an attempt ended at.
THEOREM OrderedFilesConverge == Spec => []CdcConverges
<1>1. Init => WorkInv /\ OrderInv
  <2> SUFFICES ASSUME Init PROVE WorkInv /\ OrderInv
    OBVIOUS
  <2>1. WorkInv
    BY DEF Init, WorkInv
  <2>2. row = InPathOrder(Earlier)
    BY DEF Init, Earlier, InPathOrder
  <2>3. committed \cup applied \cup scripts = {} /\ pc = "idle"
    BY DEF Init
  <2> QED
    BY <2>1, <2>2, <2>3 DEF OrderInv
<1>2. TypeInv /\ WorkInv /\ OrderInv => CdcConverges
  <2> SUFFICES ASSUME TypeInv, WorkInv, OrderInv, writeMode = "cdc", ~disordered,
                      committed = arrived
               PROVE  row = InPathOrder(arrived)
    BY DEF CdcConverges
  <2>1. File \subseteq Nat \ {0} /\ committed \subseteq File
    BY DestinationsAssumption DEF TypeInv, TypeOK
  <2>2. ~LeftBehind /\ \A f \in committed : f <= furthest
    BY DEF LeftBehind, OrderInv
  <2>3. CASE furthest = 0
    <3>1. committed = {} /\ furthest \notin File
      BY <2>1, <2>2, <2>3
    <3>2. row = InPathOrder(Earlier) /\ Earlier = committed
      BY <2>2, <3>1 DEF OrderInv, WithFurthest, Earlier
    <3> QED
      BY <3>2
  <2>4. CASE furthest \in committed
    <3>1. Earlier \cup {furthest} = committed
      <4>1. \A f \in committed : f = furthest \/ f < furthest
        BY <2>1, <2>2, <2>4
      <4> QED
        BY <2>4, <4>1 DEF Earlier
    <3> QED
      BY <2>2, <2>4, <3>1 DEF OrderInv, WithFurthest
  <2> QED
    BY <2>3, <2>4 DEF WorkInv
<1>3. TypeInv /\ WorkInv /\ [Next]_vars => WorkInv'
  BY WorkStep
<1>4. TypeInv /\ WorkInv /\ OrderInv /\ [Next]_vars => OrderInv'
  BY OrderStep
<1> QED
  BY <1>1, <1>2, <1>3, <1>4, TypeInvariant, PTL DEF Spec

-----------------------------------------------------------------------------
(***************************************************************************)
(* The refinement.  Between files the loader has none in hand, so that     *)
(* taking one moves one file only.                                         *)
(***************************************************************************)
HandInv == pc \in {"idle", "next"} => cur = NoFile

LEMMA HandInvariant == Spec => []HandInv
<1>1. Init => HandInv
  BY DEF Init, HandInv
<1>2. TypeInv /\ HandInv /\ [Next]_vars => HandInv'
  <2> SUFFICES ASSUME TypeInv, HandInv, [Next]_vars PROVE HandInv'
    OBVIOUS
  <2>1. CASE StartRun \/ EndRun
    BY <2>1 DEF StartRun, EndRun, HandInv
  <2>2. CASE Begin
    BY <2>2 DEF Begin, HandInv
  <2>3. CASE MarkCommitted \/ LoadFails \/ Crash \/ BigQueryStageConflict \/ BigQueryJobError
    BY <2>3
    DEF MarkCommitted, LoadFails, Crash, BigQueryStageConflict, BigQueryJobError,
          LoadError, NextFile, HandInv
  <2>4. CASE Connector /\ ~BigQueryStageConflict /\ ~BigQueryJobError
    <3>1. pc' \in {"landed", "staged", "truncated", "merged", "waiting", "scripted"}
      BY <2>4
      DEF Connector, At, SqlWriteRows, SqlWriteCdcRows, DatabricksEmptyFile,
            DatabricksAlreadyApplied, DatabricksMarkEmpty, DatabricksStage,
            DatabricksMerge, DatabricksTruncate, DatabricksInsert,
            DatabricksApply, DatabricksMark, BigQuerySubmit, BigQueryAlreadyDone,
            BigQueryFallback, BigQueryNothingToStage, BigQueryAwait,
            BigQueryScript, BigQueryAwaitScript
    <3> QED
      BY <3>1 DEF HandInv
  <2>5. ASSUME NEW f \in File,
               \/ Arrive(f) \/ ScriptCommits(f) \/ ScriptFails(f)
               \/ \E n \in 1..MaxJobs : JobSucceeds(f, n) \/ JobFails(f, n)
        PROVE  HandInv'
    BY <2>5
    DEF Arrive, ScriptCommits, ScriptFails, JobSucceeds, JobFails, loader_vars, HandInv
  <2>6. CASE UNCHANGED vars
    BY <2>6 DEF vars, HandInv
  <2> QED
    BY <2>1, <2>2, <2>3, <2>4, <2>5, <2>6 DEF Next, Loader, Service
<1> QED
  BY <1>1, <1>2, TypeInvariant, PTL DEF Spec

\* A step that moves the file f alone, and lands nothing, is a Move.
LEMMA MoveFile ==
    ASSUME NEW f \in Filled, NEW s,
           \A g \in Filled : LifecycleState(g)' = IF g = f THEN s ELSE LifecycleState(g),
           \A g \in Filled : InDestination(g)' = InDestination(g)
    PROVE  /\ Promise!Move({f}, s)
           /\ [g \in Filled |-> InDestination(g)]' = [g \in Filled |-> InDestination(g)]
  BY DEF Promise!Move, Filled

LEMMA StandStill ==
    ASSUME \A g \in Filled : LifecycleState(g)' = LifecycleState(g),
           \A g \in Filled : InDestination(g)' = InDestination(g)
    PROVE  UNCHANGED Promise!lifecycle_vars
  BY DEF Promise!lifecycle_vars, Filled

\* A step that leaves one copy of the rows of the file in hand is a Land.
LEMMA LandFile ==
    ASSUME NEW f \in Filled, LifecycleState(f) = "PROCESSING",
           \A g \in Filled : LifecycleState(g)' = LifecycleState(g),
           \A g \in Filled : InDestination(g)' = IF g = f THEN 1 ELSE InDestination(g)
    PROVE  Promise!LifecycleNext
<1>1. f \in Promise!In("PROCESSING")
  BY DEF Promise!In
<1>2. [g \in Filled |-> InDestination(g)]'
          = [[g \in Filled |-> InDestination(g)] EXCEPT ![f] = 1]
  BY DEF Filled
<1>3. Promise!Land(f)
  BY <1>1, <1>2 DEF Promise!Land, Filled
<1> QED
  BY <1>3 DEF Promise!LifecycleNext

LEMMA PromiseStep ==
    ASSUME TypeInv, HandInv, AppendInv, CdcInv, Promising, [Next]_vars
    PROVE  Promise!LifecycleNext \/ UNCHANGED Promise!lifecycle_vars
<1> DEFINE Goal == Promise!LifecycleNext \/ UNCHANGED Promise!lifecycle_vars
           Still == UNCHANGED <<writeMode, copies, times>>
<1> SUFFICES Goal
  OBVIOUS
<1> HIDE DEF Goal
<1>0. /\ NoFile \notin File /\ File \subseteq Nat \ {0} /\ Filled \subseteq File
      /\ writeMode \in {"append", "cdc"} /\ kind \in {"sql", "databricks"}
  <2>1. <<kind, writeMode>> \in {"sql", "databricks", "bigquery"} \X {"append", "truncate", "cdc"}
    BY DestinationsAssumption DEF TypeInv, TypeOK
  <2> QED
    BY <2>1, DestinationsAssumption DEF Promising, Filled
<1>1. ASSUME Still PROVE \A g \in Filled : InDestination(g)' = InDestination(g)
  BY <1>1 DEF InDestination
<1>2. ASSUME UNCHANGED <<arrived, committed, cur>>
      PROVE  \A g \in Filled : LifecycleState(g)' = LifecycleState(g)
  BY <1>2 DEF LifecycleState
<1>3. ASSUME Still, UNCHANGED <<arrived, committed, cur>> PROVE Goal
  BY <1>1, <1>2, <1>3, StandStill DEF Goal
<1>4. CASE StartRun \/ EndRun
  BY <1>4, <1>3 DEF StartRun, EndRun, setup_vars, table_vars
<1>5. ASSUME NEW f \in File, Arrive(f) PROVE Goal
  <2>1. Still /\ arrived' = arrived \cup {f} /\ f \notin arrived /\ UNCHANGED <<committed, cur>>
    BY <1>5 DEF Arrive, setup_vars, table_vars
  <2>2. f # cur /\ f \notin committed
    BY <1>0, <2>1 DEF TypeInv, TypeOK, ModeInv, HandInv
  <2>3. LifecycleState(f) = "ABSENT" /\ LifecycleState(f)' = "PENDING"
    BY <2>1, <2>2 DEF LifecycleState
  <2>4. \A g \in Filled \ {f} : LifecycleState(g)' = LifecycleState(g)
    BY <2>1 DEF LifecycleState
  <2>5. CASE f \in Filled
    <3>1. \A g \in Filled : LifecycleState(g)' = IF g = f THEN "PENDING" ELSE LifecycleState(g)
      BY <2>3, <2>4
    <3>2. {f} \subseteq Promise!In("ABSENT")
      BY <2>3, <2>5 DEF Promise!In
    <3>3. Promise!Register({f})
      BY <1>1, <2>1, <2>5, <3>1, <3>2, MoveFile DEF Promise!Register
    <3> QED
      BY <2>5, <3>3 DEF Promise!LifecycleNext, Goal
  <2>6. CASE f \notin Filled
    BY <1>1, <2>1, <2>4, <2>6, StandStill DEF Goal
  <2> QED
    BY <2>5, <2>6
<1>6. CASE Begin
  <2>1. PICK f \in todo : cur' = f
    BY <1>6 DEF Begin
  <2>2. Still /\ UNCHANGED <<arrived, committed>> /\ f \in arrived /\ cur = NoFile
    BY <1>6, <2>1 DEF Begin, HandInv, setup_vars, table_vars, TypeInv, TypeOK
  <2>3. \A g \in Filled \ {f} : LifecycleState(g)' = LifecycleState(g)
    BY <1>0, <2>1, <2>2 DEF LifecycleState
  <2>4. CASE f \in Filled \ committed
    <3>1. LifecycleState(f) = "PENDING" /\ LifecycleState(f)' = "PROCESSING"
      BY <1>0, <2>1, <2>2, <2>4 DEF LifecycleState
    <3>2. \A g \in Filled : LifecycleState(g)' = IF g = f THEN "PROCESSING" ELSE LifecycleState(g)
      BY <2>3, <3>1
    <3>3. f \in Promise!In("PENDING")
      BY <2>4, <3>1 DEF Promise!In
    <3>4. Promise!Take(f)
      BY <1>1, <2>2, <2>4, <3>2, <3>3, MoveFile DEF Promise!Take
    <3> QED
      BY <2>4, <3>4 DEF Promise!LifecycleNext, Goal
  <2>5. CASE f \notin Filled \ committed
    <3>1. f \in Filled => LifecycleState(f)' = LifecycleState(f)
      BY <2>2, <2>5 DEF LifecycleState
    <3> QED
      BY <1>1, <2>2, <2>3, <3>1, StandStill DEF Goal
  <2> QED
    BY <2>4, <2>5
<1>7. CASE MarkCommitted
  <2>1. /\ Still /\ UNCHANGED arrived /\ cur' = NoFile /\ committed' = committed \cup {cur}
        /\ pc = "landed" /\ cur \in arrived /\ cur \in File
    BY <1>7
    DEF MarkCommitted, NextFile, setup_vars, table_vars, TypeInv, TypeOK, ModeInv
  <2>2. \A g \in Filled \ {cur} : LifecycleState(g)' = LifecycleState(g)
    BY <1>0, <2>1 DEF LifecycleState
  <2>3. CASE cur \in Filled \ committed
    <3>1. LifecycleState(cur) = "PROCESSING"
      BY <2>3 DEF LifecycleState
    <3>2. \A g \in Filled : LifecycleState(g)' = IF g = cur THEN "COMMITTED" ELSE LifecycleState(g)
      BY <2>1, <2>2 DEF LifecycleState
    <3>3. InDestination(cur) = 1
      BY <1>0, <2>1, <2>3
      DEF InDestination, AppendInv, CdcInv, HasRows, Rows, TypeInv, TypeOK
    <3>4. cur \in Promise!In("PROCESSING")
      BY <2>3, <3>1 DEF Promise!In
    <3>5. Promise!Commit(cur)
      BY <1>1, <2>1, <2>3, <3>2, <3>3, <3>4, MoveFile DEF Promise!Commit
    <3> QED
      BY <2>3, <3>5 DEF Promise!LifecycleNext, Goal
  <2>4. CASE cur \notin Filled \ committed
    <3>1. \A g \in Filled : g = cur => LifecycleState(g)' = LifecycleState(g)
      BY <2>1, <2>4 DEF LifecycleState
    <3> QED
      BY <1>1, <2>1, <2>2, <3>1, StandStill DEF Goal
  <2> QED
    BY <2>3, <2>4
<1>8. CASE LoadFails \/ Crash
  <2>1. Still /\ UNCHANGED <<arrived, committed>> /\ cur' = NoFile
    BY <1>8 DEF LoadFails, Crash, LoadError, NextFile, setup_vars, table_vars
  <2>2. \A g \in Filled \ {cur} : LifecycleState(g)' = LifecycleState(g)
    BY <1>0, <2>1 DEF LifecycleState
  <2>3. CASE cur \in Filled \ committed
    <3>1. cur \in arrived
      BY <1>0, <2>3 DEF TypeInv, ModeInv, HandInv
    <3>2. LifecycleState(cur) = "PROCESSING"
      BY <2>3 DEF LifecycleState
    <3>3. \A g \in Filled : g = cur => LifecycleState(g)' = "PENDING"
      BY <1>0, <2>1, <2>3, <3>1 DEF LifecycleState
    <3>4. \A g \in Filled : LifecycleState(g)' = IF g = cur THEN "PENDING" ELSE LifecycleState(g)
      BY <2>2, <3>3
    <3>5. {cur} \subseteq Promise!In("FAILED") \cup Promise!In("PROCESSING")
      BY <2>3, <3>2 DEF Promise!In
    <3>6. Promise!Release({cur})
      BY <1>1, <2>1, <2>3, <3>4, <3>5, MoveFile DEF Promise!Release
    <3> QED
      BY <2>3, <3>6 DEF Promise!LifecycleNext, Goal
  <2>4. CASE cur \notin Filled \ committed
    <3>1. \A g \in Filled : g = cur => LifecycleState(g)' = LifecycleState(g)
      BY <2>1, <2>4 DEF LifecycleState
    <3> QED
      BY <1>1, <2>1, <2>2, <3>1, StandStill DEF Goal
  <2> QED
    BY <2>3, <2>4
<1>9. ASSUME UNCHANGED <<arrived, committed, cur, writeMode>>, pc \notin {"idle", "next"},
             \/ UNCHANGED <<copies, times>>
             \/ /\ writeMode = "append" /\ UNCHANGED times
                /\ copies' = [copies EXCEPT ![cur] = Rows(cur)] \/ copies' = [copies EXCEPT ![cur] = 1]
             \/ /\ writeMode = "cdc" /\ UNCHANGED copies
                /\ times' = [times EXCEPT ![cur] = @ + 1]
      PROVE  Goal
  <2>1. cur \in File /\ copies \in [File -> Nat] /\ times \in [File -> Nat]
    BY <1>9 DEF TypeInv, TypeOK, ModeInv
  <2>2. \A g \in Filled : g # cur => InDestination(g)' = InDestination(g)
    BY <1>0, <1>9, <2>1 DEF InDestination
  <2>3. CASE UNCHANGED <<copies, times>>
    BY <1>3, <1>9, <2>3
  <2>4. CASE ~UNCHANGED <<copies, times>> /\ cur \in Filled
    <3>1. \A g \in Filled : g = cur => InDestination(g)' = 1
      BY <1>0, <1>9, <2>1, <2>4 DEF InDestination, Rows, HasRows
    <3>2. CASE cur \in committed
      <4>1. InDestination(cur) = 1
        BY <1>0, <2>1, <2>4, <3>2
        DEF InDestination, AppendInv, CdcInv, HasRows, Rows
      <4> QED
        BY <1>2, <1>9, <2>2, <3>1, <4>1, StandStill DEF Goal
    <3>3. CASE cur \notin committed
      <4>1. LifecycleState(cur) = "PROCESSING"
        BY <3>3 DEF LifecycleState
      <4>2. \A g \in Filled : InDestination(g)' = IF g = cur THEN 1 ELSE InDestination(g)
        BY <2>2, <3>1
      <4> QED
        BY <1>2, <1>9, <2>4, <4>1, <4>2, LandFile DEF Goal
    <3> QED
      BY <3>2, <3>3
  <2>5. CASE cur \notin Filled
    BY <1>2, <1>9, <2>2, <2>5, StandStill DEF Goal
  <2> QED
    BY <2>3, <2>4, <2>5
<1>10. CASE Connector
  <2>1. CASE SqlWriteRows
    BY <1>0, <1>9, <2>1 DEF SqlWriteRows, At, setup_vars
  <2>2. CASE SqlWriteCdcRows \/ DatabricksApply
    BY <1>9, <2>2 DEF SqlWriteCdcRows, DatabricksApply, Apply, At, setup_vars
  <2>3. CASE DatabricksEmptyFile \/ DatabricksAlreadyApplied \/ DatabricksMarkEmpty
             \/ DatabricksStage \/ DatabricksMark
    BY <1>0, <1>3, <2>3
    DEF DatabricksEmptyFile, DatabricksAlreadyApplied, DatabricksMarkEmpty,
          DatabricksStage, DatabricksMark, At, setup_vars, table_vars
  <2>4. CASE DatabricksMerge
    BY <1>9, <2>4 DEF DatabricksMerge, At, setup_vars, TypeInv, ModeInv
  <2>5. CASE DatabricksTruncate \/ DatabricksInsert
    BY <1>0, <2>5 DEF DatabricksTruncate, DatabricksInsert, At, TypeInv, ModeInv
  <2>6. kind # "bigquery"
    BY <1>0
  <2> QED
    BY <1>10, <2>1, <2>2, <2>3, <2>4, <2>5, <2>6
    DEF Connector, At, BigQuerySubmit, BigQueryAlreadyDone, BigQueryFallback,
          BigQueryStageConflict, BigQueryNothingToStage, BigQueryAwait,
          BigQueryScript, BigQueryAwaitScript, BigQueryJobError
<1>11. ASSUME NEW f \in File, NEW n \in 1..MaxJobs, JobSucceeds(f, n) \/ JobFails(f, n)
       PROVE  Goal
  <2>1. jobs[f] = <<>>
    BY <1>0 DEF TypeInv, ModeInv
  <2>2. n \in DOMAIN jobs[f]
    BY <1>11 DEF JobSucceeds, JobFails
  <2> QED
    BY <2>1, <2>2
<1>12. ASSUME NEW f \in File, ScriptCommits(f) \/ ScriptFails(f) PROVE Goal
  BY <1>0, <1>12 DEF ScriptCommits, ScriptFails, TypeInv, ModeInv
<1>13. CASE UNCHANGED vars
  BY <1>3, <1>13 DEF vars, setup_vars, table_vars
<1> QED
  BY <1>4, <1>5, <1>6, <1>7, <1>8, <1>10, <1>11, <1>12, <1>13
  DEF Next, Loader, Service

\* The SQL and Databricks connectors keep the promise of FileLifecycle in append
\* and cdc mode, whatever statement an attempt ends after.
THEOREM ConnectorsImplementLifecycle ==
    ASSUME Foreign = {}
    PROVE  Spec => ImplementsLifecycle
<1>1. Init => Promise!LifecycleInit
  <2> SUFFICES ASSUME Init PROVE Promise!LifecycleInit
    OBVIOUS
  <2>1. \A f \in Filled : LifecycleState(f) = "ABSENT" /\ InDestination(f) = 0
    BY DestinationsAssumption DEF Init, LifecycleState, InDestination, Emptied, Filled
  <2> QED
    BY <2>1 DEF Promise!LifecycleInit
<1>2. TypeInv /\ HandInv /\ AppendInv /\ CdcInv /\ [Next]_vars
          => [Promising => Promise!LifecycleNext]_(Promise!lifecycle_vars)
  BY PromiseStep
<1> QED
  BY <1>1, <1>2, TypeInvariant, HandInvariant, AppendInvariant, CdcInvariant, PTL
  DEF Spec, ImplementsLifecycle
==============================================================================
