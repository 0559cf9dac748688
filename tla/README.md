# Filedge in TLA+

A verification project for Filedge (`src/filedge`): TLA+ modules of the parts of the
program whose correctness depends on what happens between steps (two scheduled Runs, an
operator and a Run, a crash between two commits), configurations that check them with TLC,
and proofs, checked by TLAPS, of what matters most.

Filedge loads the files of a *Watched Directory* into a destination table, once each. What
it knows about a file is one row of the *Audit DB*, keyed by the SHA-256 of the file's
bytes. There is no daemon: cron or an operator starts `filedge run`, and nothing stops two
Runs from overlapping. Companion programs (Fetcher, Queue Materializer, compactor) prepare
the files.

## 1. The system

| Component | State it keeps | Operations | Talks to |
|---|---|---|---|
| **Audit DB** `db.py` | a row per content hash: `state` (PENDING, PROCESSING, COMMITTED, FAILED), `attempt_count`, `claimed_at`, the manifest's metadata | `insert_pending`, `claim_processing`, `mark_committed`, `mark_failed`, `reset_eligible_failed`, `reclaim_stale_processing`, `requeue_by_hash`, `requeue_all_terminal_failed` | every Run and every requeue shares it |
| **Run** `pipeline.py`, `file_registration.py` | what one process holds: the scan, the states it read, the candidates, the claimed file | start (reset and reclaim), scan, register, fail for the manifest, claim, record the outcome, end | Audit DB, loader, Watched Directory |
| **Loader and SQL destination** `loader.py`, `connectors/sql_*.py` | the destination's rows, each with its file's hash | one transaction: delete the hash's rows, insert the file's, commit | destination; the sidecar of quarantined rows |
| **Requeue** `cli.py`, `audit_records.py` | nothing | one file (find, check, reset) or all terminal FAILED files | Audit DB |
| **Source Manifest** `source_manifest.py` | sidecar files | policy disabled, optional, required | Run's registration |
| **Companion** `companion/` | staging area, the Fetch Lock directory, the Watched Directory | stage, lock, move the sidecar, move the data file, unlock | Fetcher and Materializer; a Run reads what it promotes |
| **Fetcher** `fetch/` | Cursor State | read the cursor, page through an API, stage, promote, advance | an API that changes meanwhile |
| **Queue Materializer** `materialize/` | buffers; the broker keeps the offsets | snapshot, poll, cut, promote, commit the offset | Kafka |
| **Compactor** `compactor.py` | output files, manifest, `.tmp` files | list, write a batch, rename, delete or record | source and output prefix |
| **Warehouses** `bigquery.py`, `databricks.py` | tables, applied-file markers, BigQuery's memory of job ids | several statements or jobs per load that commit by themselves | loader |
| **CDC** `cdc.py` | what it has read of one file | latest change per key; apply | every destination |
| **Quarantine** `quarantine/` | sidecars of bad rows, the outputs of redrops | split, threshold, write the sidecar, redrop | loader; the Audit Record counts and names what it did; an operator drops the corrected rows again |
| **Authoring** `authoring_workflow.py`, `authoring_draft.py`, `authoring_ui.py` | a draft in memory, the report on it, acknowledgements of doubtful columns | start from a sample or a folder, edit, refresh, validate, generate | sample Files, the workspace |
| **Pipeline folders, registry** `pipeline_folder.py`, `pipeline_registry.py` | `pipeline.yaml`, `RUNBOOK.md`, `pipeline-registry.yaml` | write a folder, add an entry, load | every author of a workspace; a Run reads the folder |
| **Parsing, inference, encryption, health, export, logs** | none | pure functions, or only read | |

What makes each of the modelled parts correct, and hard:

* **Audit DB and Run.** The PROCESSING row must act as a lock on the file, although the
  lock has no owner that is checked: marks select the row by hash alone, and a row that
  is older than `stale_timeout_minutes` is taken back from whoever holds it. A
  COMMITTED file must have its rows in the destination, and stay COMMITTED. The retry
  budget must bound the attempts; a crashed file must not be lost. The hard part is that the Audit DB and the
  destination are two databases: a crash, or a late error, between their commits.
* **Destination.** The rows of a file are there once: a second load must replace what an
  earlier, unfinished one left, also when the two transactions overlap.
* **Warehouses.** A load is several statements, so a crash can fall between them; a
  BigQuery job goes on without the program that started it. Still a file's rows or changes
  must be there once, and before the file is COMMITTED.
* **Quarantine.** A file's rows are in the destination, in the sidecar and counted in the
  Audit Record, and no transaction spans the three: a COMMITTED file's record, table and
  sidecar must agree after any crash and retry, and a row must not be lost between them nor
  land twice when it is corrected and dropped again.
* **CDC.** The plan of a file is a matter of its sequence values, not of its row order.
* **Requeue.** It may only reopen what is finally FAILED, at the moment it writes.
* **Companion.** Nothing half-written, nothing without its sidecar is visible; one
  companion promotes at a time.
* **Fetcher.** The cursor passes nothing that has not landed, while the API shifts under
  the page counter and another Fetcher runs.
* **Materializer.** No offset is committed whose messages have not landed; no polled message
  is forgotten in a buffer.
* **Compactor.** No file is lost, and duplicates appear only by faults.
* **Authoring.** What generation relies on, the report and the acknowledgements, must be about
  the draft and the sample as they are at that moment, after any order of edits.
* **Pipeline folders, registry.** Three files are written one after the other, by authors who
  do not lock anything: what the registry names must be there, and saving one Pipeline must not
  touch another.

## 2. Modules

| Module | Models | Lines |
|---|---|---|
| `AuditDb` | rows and SQL statements of `db.py`, as operators on the table | constant-level, no state |
| `FiledgeRun` | Runs, operators, environment, destination, over `AuditDb` | the core state machine |
| `FileLifecycle` | the abstract promise: File States and landing, no workers | refined by `FiledgeRun` and by `Destinations` |
| `MCFiledgeRun` | values for TLC | |
| `FiledgeRun_proofs` | theorems of the core, its refinement of `FileLifecycle` included | |
| `Companion` | Fetch Lock and promotion, faults; extended by the next two | |
| `Fetch`, `MCFetch`, `Fetch_proofs` | the Fetcher over `Companion`, and a changing API | |
| `Materialize`, `MCMaterialize`, `Materialize_proofs` | the Queue Materializer over `Companion`, and a broker | |
| `Compaction`, `MCCompaction`, `Compaction_proofs` | the compactor | |
| `Destinations`, `MCDestinations`, `Destinations_proofs` | every connector in every write mode, statement by statement, under one loader | one level below `FiledgeRun`'s `CommitWrite`; refines `FileLifecycle` |
| `Quarantine`, `MCQuarantine`, `Quarantine_proofs` | the rows of a load under a threshold: destination, sidecar, Audit Record, redrop | one level below `FiledgeRun`'s `CommitWriteThenError` |
| `CdcPlan`, `MCCdcPlan`, `CdcPlan_proofs` | `plan_cdc_changes`, row by row | the reference definition is its property |
| `Draft` | the draft, schema inference, `pipeline.yaml` and back, Authoring Validation, the edits, as operators | constant-level, no state |
| `Authoring`, `MCAuthoring`, `Authoring_proofs` | authors with their workflows, over `Draft`, and the files of a workspace | |

Definitions that begin with "Variant:" in their comment are not part of a specification: each
is a definition as a plausible bug would have it, and substituting it makes TLC find the
property it is about violated. They stand next to what they vary.

### AuditDb and FiledgeRun

A row is a record with `state`, `attempt_count`, `claim_age` and `metadata`; `claimed_at` is
represented by the age of the claim, in ticks that stop at one past the stale timeout, the
first age that matters. `run_id`, timestamps and error texts do not influence what the code
decides, and are left out.

A worker's `pc` marks the points at which the code commits to one of the two databases:

```
idle -StartRun-> started -Scan-> scanned -Register-> registered -Claim-> claimed
   (a claim that loses the race stays registered; FailPreload, while manifest errors remain)
claimed -BeginWrite-> writing -CommitWrite-> landed -RecordOutcome-> registered
claimed, writing -FailLoad-> errored;  writing -CommitWriteThenError-> errored
errored -RecordOutcome-> registered -EndRun-> idle;   Crash: any pc -> idle
```

`StartRun` is `reset_eligible_failed` and `reclaim_stale_processing`, in one transaction.
`Scan` reads the directory and the known states; they are used later, stale by then.
`Register` inserts every new hash. `BeginWrite` opens the destination's transaction and
deletes what it can see of the hash (`doomed`); `LandRows` replaces just those copies. So
two overlapping transactions behave as READ COMMITTED makes them, unless `SerialWriter`
(SQLite, DuckDB) keeps the second one out. `CommitWriteThenError` is the load that
reports an error after the commit: the sidecar could not be written or the acknowledgement
was lost. `RequeueRead` and `RequeueWrite` are the two halves of `filedge requeue <file>`.

The destination is, for each hash, the set of committed *copies* of the file's rows.

### Fetch and Companion

A record is read with its stamp, the value of `cursor_field`. The API answers a page from
the records as they are at that moment, so records move between pages while a Fetcher
counts. `cursor_mode: client` is paging with a page that holds all records. What a
Fetcher stages is named by its writer and its rows; the watched directory is the set of
such files.

### Materialize

Buffers, the position of the client, the snapshot and the exhausted partitions are a
Materializer's own; end and committed offsets belong to the broker. `Poll` is one answer to
`poll`, `CutReady` the loop's head. That a buffer has timed out is nondeterministic.
Decoding happens as a batch is staged: a poison message ends the program before anything is
visible.

### Compaction

An output is the set of files that were merged into it; two outputs with equal content
are one to `filedge run`, which is what the code relies on when it repeats a batch. With
`--compress` the gzip header (time and name of the `.tmp` file) tells two runs apart.

### Destinations and CdcPlan

`kind` and `writeMode` are drawn from `Setups` in the initial state. The loader takes the
files of a Run in path order; `At(kind, from, to)` is a step of a connector. One transaction
(SQL, DuckDB) is one step from `claimed` to `landed`; each statement of Databricks and each
job of BigQuery is a step of its own:

```
databricks  claimed -Stage-> staged -Merge-> landed                      append
                             staged -Truncate-> truncated -Insert-> landed   truncate
                             staged -Apply-> merged -Mark-> landed       cdc
bigquery    claimed -Submit, Fallback-> waiting -Await-> landed          append, truncate
            claimed -Submit-> waiting -Await-> staged -Script-> scripted
                    -AwaitScript-> landed                                cdc
```

`LoadFails` and `Crash` may come at any of them; `LoadFails` in `landed` is an
acknowledgement that is lost or a clean-up that raises. `jobs[f]` are the load jobs of a
file; the first one has the id made of the content hash, which BigQuery accepts once. A job
ends by a step of the service, with its effect on the table, whether or not anyone
waits for it. `copies` counts complete copies of a file's rows, `row` names the file that
wrote a key's current row; that is all that idempotence is about. A file in `Foreign` is one
that another dataset of the project has loaded into a table of the same name: its job id is
taken from the start.

`Destinations` keeps the promise of `FileLifecycle` on its own level, in the modes where files
accumulate: the refinement mapping (`LifecycleState`, `InDestination`) reads PROCESSING as "the
loader has it in hand" and the abstract copies as the table's copies or, in cdc mode, as
whether the changes are applied. A job of BigQuery lands rows whoever has the file, and truncate
mode takes other files' rows away; there the abstract lifecycle is not claimed
(`Promising`).

`CdcPlan` reads a file one row at a time, and the file is whatever is read: every file up to
`MaxRows` is a behaviour. `LatestPerKey` is the definition over the whole file that the
loop has to compute.

### Quarantine

A content is a function from its rows to the versions of the columns that accept them; the
Content Hash is the content. A Run loads whatever configuration is there when it starts
(columns and keys as a version, Strict Mode or limits), so a retry can judge the same rows
differently. A file passes through

```
running -Claim-> loading -Reject, LoadFails-> errored
                 loading -LandRows-> loaded          (no bad row)
                 loading -LandRows-> landed -OpenSidecar-> open -WriteSidecar-> loaded
                 loading -LandsAndFails-> errored    (after the commit)
                 landed, open -FinalizeFails-> errored
loaded, errored -RecordOutcome-> running;   Crash: any -> idle
```

`LandRows` is the destination's commit, and `LandsAndFails` a commit after which `write_rows`
raises all the same: Databricks cannot drop its staging table or remove its staging file, or the
acknowledgement of a commit is lost. `load_file` reports that like any other error, so the file is
FAILED over rows that are there. `disturbed` is a history variable: the files of which an attempt
ended after its commit and before `load_file` could return, or before its outcome was recorded
(`LandsAndFails`, `FinalizeFails`, a `Crash` there). `OpenSidecar` empties what an earlier attempt left under
the same name, and a write that stops (`CutSidecar`) has written a prefix of the bad rows and perhaps
part of a line. `Redrop` is `filedge redrop-quarantine`, which refuses a torn sidecar; `Drop`
is the operator who corrects any of the rows and drops the output, which has
a content, and so a hash, of its own. `dest` is a set of pairs of content and row;
a kind `databricks` keeps the first landing of a hash, `sql` replaces it.

### Draft and Authoring

A sample File is what it shows of each column, of four kinds: integers, integers with holes,
text, or a mixture; they give every Confidence Tier and every way to pass or fail Strict Mode
that the workflow tells apart. A *layout* is a format and, for Excel, a sheet. `ToConfig` is
the mapping that a draft becomes and `FromConfig` the draft read back; what a draft has
no field for is `other` (retry cap, file pattern, and so on) and `encoding`.

Each method of `AuthoringWorkflow` that changes something is an action. Those that end in
`_mutated` share `Mutate`; `Reseed` and `SetFixedWidthLayout` do not. A method that
raises without having changed anything is no step; `set_fixed_width_layout` on a sample that cannot
be read raises after it has replaced the draft, and is a step that keeps the acknowledgements. `Edit` goes by the row at the
cursor, as the interface does, and then by that row's source name, as the workflow does. Saving
is a chain of steps, with a kill possible between any two:

```
editing -Generate-> target -EmptyConfig-> emptied -WriteConfig-> configured
configured -EmptyRunbook-> blanked
blanked -WriteRunbook-> editing                         the folder was there (re-author)
        -WriteRunbook-> registering -ReadRegistry-> read
                -EmptyRegistry-> torn -WriteRegistry-> editing
```

`open(..., "w")` empties a file before it is written, so the config and the registry have a
`Torn` state, and a runbook that is being written names no sample: a kill there loses the sample
of a Pipeline that is re-authored. The runbook is the sample that it names. `HandEdit` is a person who adds
settings to a `pipeline.yaml`. `opened` and `moved` are history variables that only properties
read.

## 3. Runs

Bounds are CONSTANTS named `Max...`. Two of a kind (workers, Fetchers, files) are enough
for every race listed: each is a race for one row, one lock or one cursor between the one
that acts on what it has read and the one that has changed it since. One crash puts every
point of the program before and after every step of the other; the compactor, which is
alone, gets two.

What an operator configures once (paging style, trigger, compaction mode) is a variable that
the initial state chooses from a set and no step changes, so that one run covers every
choice.

| Run | Checks | Instance | Shows |
|---|---|---|---|
| `Leases` | `TypeOK ExclusiveLoad AttemptsWithinBudget FailedLandedNothing CommittedIsFinal TerminalNeedsRequeue ImplementsLifecycle` | 2 workers, 2 files, 1 crash, overlapping transactions, cap 2 | the claim is a lock, COMMITTED is final, FAILED means nothing landed until a crash, retries are bounded; refinement of `FileLifecycle`, whose COMMITTED has landed |
| `Settles` | `CommittedHasLanded NoDuplicateRows EventuallySettled` | fair; 2 workers, an operator, one content under two names with required manifests, 1 overrun, 1 crash, errors after the commit, one writer at a time, caps 1, stale timeout 0 | what survives without the discipline; every dropped file settles |
| `FetchRecords` | `TypeOK NothingSkipped VisibleWithSidecar OnePromotes EventuallyLanded` | 2 Fetchers, both paging styles, 2 records updated until `MaxTime` 2, pages of one, promotion by copy, 1 fault outside the lock | nothing is skipped, every record lands |
| `QueueOffsets` | `TypeOK CommittedLanded NothingDropped EventuallyLanded` | 1 Materializer, drained or continuous, 2 partitions of 2 messages, batches of 2, one poison message, 1 fault | committed means landed, every message lands |
| `Destinations` | `TypeOK RowsOnce LandedBeforeCommit NeverMixed CdcConverges CommitShowsTable ImplementsLifecycle EventuallyLoaded` | 9 setups, 3 files (one writes both keys, one updates one key and deletes the other, one is empty) arriving in any order, 3 faults, 4 jobs | rows and changes are there once and before COMMITTED, CDC converges, every file loads; refinement of `FileLifecycle` |
| `PlanChanges` | `LatestPerKey` | all files of up to 4 rows over 2 keys, 3 sequence values, nulls | the plan is the latest change per key |
| `CompactFiles` | `NothingLost CopiesBounded EventuallyCompacted` | both modes, 4 files, one malformed, batches of 2, gzip, 2 faults | no file is lost, duplicates only by faults, every file is compacted |
| `Quarantine` | `TypeOK CommittedIsAccounted RowInOnePlace CleanFailure` | 2 destinations, 2 files of 3 rows and 1, 2 versions of the columns, Strict Mode (for the new one) and 2 limits, 2 faults (a crash, a disk error, an error after the commit), redrops with any correction | record, table and sidecar of a COMMITTED file agree row by row; every row is in one place; what is refused leaves nothing, but for an attempt that failed after its commit |
| `Authoring` | `TypeOK ReportIsFresh AcksAreOfThisSample RegisteredIsThere ReauthorInPlace` | 2 authors, 4 sample Files, an empty workspace or one with a Pipeline changed by hand, 2 starts, 2 edits, 1 kill | the report and the acknowledgements are about the draft as it is; registry and folders agree; re-authoring stays in its folder |

`MaxTime` 2 is enough for a record to be created or updated between two pages of a listing,
and for another one to be so after the first has been read; `MaxOffset` 2 lets one partition
be in the middle of a batch while the other is cut. Three faults in `Destinations` let the retry
of a failed load fail as well, and the retry of that; four jobs are all that three faults can
make a file need (`MaxJobs`), so the bound disables nothing. In `Settles` a stale timeout of 0
makes a claim stale one tick after it was taken, which is all that a reclaim needs, and caps
of 1 still give a first attempt, a failure, a requeue and a reclaim past the cap. In `Quarantine`
two faults let the retry of an attempt that was cut short be cut short too; of the first file one row is
accepted by both versions of the columns, one by the new version and one by none, the second
file has a row that only the old columns accept, so every limit is met from both sides, and an
uncorrected redrop is quarantined again. In `Authoring` two starts let two authors work on one
folder, or one author come back to what it generated; two edits are what it takes to change
something that was changed before, such as another sheet or a setting of a new
connector. Of the samples two differ in one column, one has two sheets whose tiers differ, and
one is in another encoding. Three sequence values and four rows give every order
of a latest row, an older one and a tie with either. `CHECK_DEADLOCK FALSE` is set where the
system stops: Authoring, when its sessions are used up, Compaction and Destinations, when every file has arrived and is done with, and
CdcPlan, when the file is planned or refused.

### What the code does and its documents do not say

Each of these runs checks one sentence of the documentation and finds it violated; the
quotations are in `PROJECT.json`.

| Run | Property | Counterexample |
|---|---|---|
| `ManifestBypass` | `RequiredManifestBeforeLoad` | under `required`, the *second* Run loads a file that failed for its missing manifest: the policy looks at new hashes only |
| `BigQueryRetry` | `MarkedFilesCommit` | a CDC load on BigQuery fails after its script has committed; each retry dies of the Conflict on its staging job's id, before it looks at the marker |
| `GreenNotLoadable` | `GreenMeansLoadable` | a File authored with `--encoding` is judged green; no draft holds the encoding, so the generated `pipeline.yaml` is read as UTF-8 |

Other limits that the modules show when one constant is changed; they have no run of their
own:

| Module, change | Property that fails | Why |
|---|---|---|
| `FiledgeRun`, `MaxCrashes = 3`, one worker | `CapMakesTerminal` | `reclaim_stale_processing` ignores the cap: a file that kills its worker is attempted for ever, although "after the cap is reached, the File enters terminal FAILED state" (CONTEXT.md) |
| `FiledgeRun`, one worker, two operators, both caps 1 | `RequeueOnlyTerminal` | two of them requeue one file, a worker claims it in between, and the second reset takes the claim away; CONTEXT.md lets only what is terminal FAILED return to PENDING |
| `FiledgeRun`, `MaxOverruns = 1` | `CommittedIsFinal` | `mark_failed` selects by hash alone: a worker slower than the stale timeout marks FAILED what its successor committed |
| `FiledgeRun`, `MaxOverruns = 1`, `SerialWriter = FALSE` | `NoDuplicateRows` | the same overlap where transactions run side by side: both delete nothing and both insert |
| `Compaction`, in any mode | `RowsOnce` | after a fault the batch is cut differently, so its bytes differ and the content hash does not recognise it |
| `Destinations`, `RowsOnce` without its exception | itself | BigQuery: a retry meets its first job still running or failed, loads under a fallback id, and a later retry does so again |
| `Destinations`, `CommitShowsTable` with BigQuery | itself | a retried file whose job was done lands nothing, although another file has replaced the table since |
| `Destinations`, `CdcConverges` without `~disordered` | itself | a CDC file that fails is applied by a later Run, over the rows of the files that follow it |
| `Destinations`, `Foreign = {1}` | `LandedBeforeCommit` | BigQuery's job id is made of table name and content hash: the job of another dataset answers for this one, and the file is COMMITTED with nothing landed |
| `Quarantine`, none | `FailedMeansNothing` | the connector raises after the destination's commit (a staging table that cannot be dropped, a lost acknowledgement), or the disk fails under the sidecar, and the file is FAILED over rows that are there, although "FAILED File means nothing landed" is to stay true (ADR-0019) |
| `Quarantine`, none | `SidecarMeansQuarantine` | a kill leaves a sidecar of which no record knows, although "a sidecar's presence always means a real, finalized quarantine" (`sink.py`) |
| `Quarantine`, `Careful = FALSE` | `RowInOnePlace` | `redrop-quarantine` looks at the sidecar alone: what was redropped before the retry of its file, or twice under different corrections, lands twice |
| `Quarantine`, `Stable = FALSE` | `CommittedIsAccounted` | Databricks and BigQuery keep the first landing of a hash: when the columns are edited between a killed attempt and its retry, record and sidecar are those of rows that were not written |
| `CdcPlan`, none | `TiesAreInvalid` | rows of one key with sequences 1, 3, 1 are planned, 1, 1, 3 are refused: a row is compared with the latest one only |
| `Fetch`, `MaxFaults = 0` | `HighWaterMark` | the cursor is read and advanced outside the lock: of two Fetchers, the slower one sets it back, and the window between is fetched again |
| `Fetch`, `MayCopy = TRUE` | `OnlyCompleteVisible` | across filesystems promotion copies to the visible name |
| `Fetch`, `CrashInLock = TRUE` | `EventuallyLanded` | a kill inside the Fetch Lock leaves its directory, and no later fetch gets in |
| `Fetch`, `NewestFirst = FALSE` | `NothingSkipped` | a record updated while the pages are counted moves to an earlier page |
| `Fetch`, `Ties = TRUE`, `Inclusive = FALSE` | `EventuallyLanded` | a later record with the cursor's own value is never newer than the cursor |
| `Compaction`, `LocalOutput = TRUE` | `EventuallyCompacted` | a torn manifest line makes every later run raise |
| `Compaction`, any kill | `TmpCleaned` | no later run removes a `.tmp` file that a kill left |
| `Authoring`, none | `SaveKeepsTheRest` | re-authoring writes the config anew: retry cap, file pattern, encoding and other settings are gone, although "the Folder diff shows exactly that change" (author.md) |
| `Authoring`, none | `FocusedIsEdited` | an edit goes by source name to the first column that has it: after a duplication or a renaming the row at the cursor is not the one that changes |
| `Authoring`, none | `RiskyWasReviewed` | acknowledgements go by source name: an old one counts for a renamed column, or for evidence of a fresh sample that nobody has seen |
| `Authoring`, `MaxEdits = 3`, `ReportIsFresh` also for fixed-width | itself | `set_fixed_width_layout` keeps the report on the layout it replaces |
| `Authoring`, none | `ReauthorOwnFolder` | a kill before `add_entry` leaves a folder without an entry; re-authoring it goes by the table's name, which may be another Pipeline's folder |
| `Authoring`, none | `RegistryGrows` | of two authors who add an entry at once, the second overwrites what the first one wrote |
| `FiledgeRun`, `FailedLandedNothing` without its condition | itself | crash after the destination's commit, then a failing retry: FAILED over landed rows |

A hazard of `PROJECT.json` names only properties that would catch it; where a run leaves its bad
case out, because the code does not prevent it, its note says so and the table above has the
case: equal cursor values, the torn line of a compactor's manifest, CDC files that are loaded out of order,
job ids shared between datasets and the careless redrop have no property for this reason.
Several others are covered in part. The overrun and the late mark are in `Settles`, where COMMITTED is
not final; the overlap of two transactions is in `Leases`, where claims prevent it; `RowsOnce`
and `CommitShowsTable` leave out BigQuery's second job and its truncate mode; `ReportIsFresh`
leaves out the Fixed-Width Layout, `AcksAreOfThisSample` renamed columns and fresh samples, and
`ReauthorInPlace` what is not registered.

### Fairness

* `FiledgeRun!Fairness`: weak fairness of each worker's next step and of the clock. Runs are
  scheduled, a started Run proceeds, and time passes; a crash is never forced. Files need
  not be dropped, and operators need not act.
* `Fetch!FairSpec`, `Compaction!FairSpec`: weak fairness of each program's steps, because
  they are scheduled again and again.
* `Destinations!Fairness`: weak fairness of the loader (Runs are scheduled again and again,
  and the operator requeues what reached the cap) and of BigQuery's jobs, each of which ends. Faults
  are bounded, so they stop; nothing forces one.
* `Materialize!FairSpec`: besides, strong fairness of a poll that answers. A drain ends at the first empty poll, so
  a broker that never answered in time would keep it empty-handed for ever.

## 4. Proofs

TLC looks at small instances; the theorems hold for any workers, operators, files, names,
caps, timeouts, and any number of crashes.

| Theorem | Under | Inductive invariant |
|---|---|---|
| `TypeCorrect` : `[]TypeOK` | nothing | `TypeOK` |
| `CommittedRowsLanded` : `[]CommittedHasLanded` | nothing | `LandedInv`: a worker about to mark COMMITTED has rows in the destination |
| `SerialWriterNoDuplicates` : `[]NoDuplicateRows` | `SerialWriter` | `SerialInv`: one open transaction, and it has seen every copy it must delete |
| `ClaimIsLock` : `[]ExclusiveLoad` | `Disciplined` | `LockInv` |
| `DisciplinedNoDuplicates` : `[]NoDuplicateRows` | `Disciplined` | `LockInv` |
| `CommittedStays` : `CommittedIsFinal` | `Disciplined` | `LockInv` |
| `TerminalStays` : `TerminalNeedsRequeue` | `Disciplined` | `LockInv` |
| `AttemptsBounded` : `[]AttemptsWithinBudget` | `Disciplined`, `RetryCap >= 1` | `BudgetInv` with `LockInv` |
| `RunImplementsLifecycle` : `ImplementsLifecycle` | `Disciplined` | `LockInv` |
| `FailedLeavesNothing` : `[]FailedLandedNothing` | `Disciplined` | `FreshInv` with `LockInv`: until the first crash a PROCESSING row has an owner, and rows are there only for a file that is COMMITTED or in its owner's hands |
| `CompactionLosesNothing` : `[]NothingLost` | nothing | `LostInv`: a batch that is being recorded is in an output |
| `CompactionTypes` : `[]TypeOK` of `Compaction` | nothing | `TmpInv`: `.tmp` files are those of kills and of the batch being written |
| `CompactionCopiesBounded` : `[]CopiesBounded` | nothing | `CopyInv`: a file that a batch may still take is in at most as many outputs as there were faults |
| `FetchTypes` : `[]TypeOK` of `Fetch` | nothing | `HandInv`: what a Fetcher has in memory and on disk at each `pc` |
| `PromotesAlone` : `[]OnePromotes`, `NeverWithoutSidecar` : `[]VisibleWithSidecar` | nothing | `PromotionInv`: a companion that has moved the sidecar finds it there |
| `CursorSkipsNothing` : `[]NothingSkipped` | `Ordered` | `PagedInv`, `PassedInv` |
| `MaterializeTypes` : `[]TypeOK` of `Materialize` | nothing | `HandInv` |
| `CommitsOnlyLanded` : `[]CommittedLanded` | nothing | `HandInv`: all before the last message of a batch has landed or is in the batch |
| `DropsNothing` : `[]NothingDropped` | nothing | `HandInv` |
| `PlanIsLatestPerKey` : `[]LatestPerKey` | nothing | `PlanInv`: of each key seen, the one row held is later than all its others |
| `PlannedLatestIsUnique` : `[]LatestIsUnique`, `PlanTypes` : `[]TypeOK` of `CdcPlan` | nothing | `PlanInv` |
| `DestinationTypes` : `[]TypeOK` of `Destinations` | nothing | `TypeInv`: with `ModeInv`, which setups a `pc` belongs to and what it says of `cur` and `job` |
| `AppendIdempotent` : `[]RowsOnce` | `Foreign = {}` | `AppendInv`: while BigQuery knows at most a file's first job there is at most one copy, none before that job is done |
| `CommittedAfterLanding` : `[]LandedBeforeCommit` | `Foreign = {}` | `AppendInv`, `CdcInv`: a file about to be marked or committed has been applied |
| `TruncateNeverMixes` : `[]NeverMixed` | nothing | `TruncateInv`: between TRUNCATE and INSERT the table is empty |
| `CommitsWhatItShows` : `CommitShowsTable` | nothing | `ShownInv` with `TruncateInv`: when a truncate load has landed, the table is its file |
| `OrderedFilesConverge` : `[]CdcConverges` | nothing | `OrderInv`, `WorkInv` |
| `ConnectorsImplementLifecycle` : `ImplementsLifecycle` of `Destinations` | `Foreign = {}` | the above with `HandInv`: between files the loader has none in hand |
| `QuarantineTypes` : `[]TypeOK` of `Quarantine` | nothing | `TypeOK` |
| `CommittedAccounted` : `[]CommittedIsAccounted` | `Stable` | `StoresInv`: what the file in hand has left in the table and the sidecar at each step, and that a destination that keeps a hash has what the columns make of it |
| `RowsInOnePlace` : `[]RowInOnePlace` | `Stable`, `Careful` | `StoresInv` with `PlaceInv`: every row of a file comes from one that arrived, some file answers for it, and no two do |
| `FailureIsClean` : `[]CleanFailure` | nothing | `FirstTryInv`: of the files that are not `disturbed`, only one that is COMMITTED or being loaded has rows or a sidecar; faults at other files do not matter |
| `AuthoringTypes` : `[]TypeOK` of `Authoring` | nothing | `DraftInv`: an author that writes has a draft, and a draft has the layout of its workflow |
| `ReportStaysFresh` : `[]ReportIsFresh` | nothing | `ReportInv` |
| `AcknowledgedAsSeen` : `[]AcksAreOfThisSample` | nothing | `AckInv`: columns of one source have one evidence |
| `RegisteredStaysThere` : `[]RegisteredIsThere` | nothing | `ThereInv` |
| `ReauthorsInPlace` : `ReauthorInPlace` | nothing | `EntryInv` |
| `CapIsTerminal` : `[](crashes = 0 => CapMakesTerminal)` | `Disciplined`, `RetryCap >= 1` | `BudgetInv` with `LockInv` |
| `OnlyWholeFiles` : `[]OnlyCompleteVisible` | `~MayCopy` | `WholeInv` |
| `LoneFetcherKeepsMark` : `HighWaterMark` | one Fetcher | `LoneInv`: it starts from the stored cursor |
| `SidecarIsNoted` : `[](disturbed = {} => SidecarMeansQuarantine)` | nothing | `SidecarInv` |
| `LoneAuthorKeepsRegistry` : `RegistryGrows` | one author | `ReaderInv` |
| `GreenIsLoadable` : `[](crashes = 0 => GreenMeansLoadable)` | one author, Files in UTF-8, a workspace that is sound to begin with | `JudgedInv`, `FolderInv` |

`Disciplined` says when a claim is a lock: no load outlives the stale timeout
(`MaxOverruns = 0`), nobody requeues a single file while Runs work (`Operator = {}`), and
manifests are not `required`, since a manifest failure marks a row outside a claim. The bulk requeue is allowed. Each of the
three is needed: an overrun, a racing requeue (both in section 3) and, for the manifests, the pre-load failure of a file
that another Run is loading are the counterexamples.

The argument. `ExclusiveLoad` alone is not inductive: a Run could reclaim the row of a
worker that is still loading, and two workers could be in a transaction for one hash.
`LockInv` adds that a live claim is young (so `IsStale` is false of it, by the
clock's discipline), that no manifest failure is pending, and what the open transaction will
delete is all there is. Each action is then a case: those that touch no claim (`StartRun`,
`Register`, `RequeueAll`) by lemmas about the statements they run, the claim itself by the
guard of the conditional UPDATE, the marks because the marking worker is the one that owns
the row. `BudgetInv` counts what is still to be spent: a file in flight keeps one attempt in
hand, and the row of a crashed worker two, the crash having raised the bound.
`RowStep` shows that every step moves each row along the lifecycle, whence the two action
properties; `RunImplementsLifecycle` that each step maps
to a step of `FileLifecycle` or a stutter. The strengthenings were checked with TLC on
the constants of the runs before they were proved.

`Destinations_proofs` has one inductive invariant, `TypeInv` and the three mode invariants;
each mode invariant is kept by itself, given `TypeInv`. `RowsOnce` says nothing of how many
copies a retried job may add, so it is not inductive: `AppendInv` relates the
number of copies to the state of the file's first job, in every state, also those
where the file is not COMMITTED yet. A retry that finds its id taken rests on it: the job
is done only if its rows are there. `ConnectorsImplementLifecycle` adds no invariant but
`HandInv`: a step either lets the loader take or release a file (`MoveFile`), lands a file
whose abstract copies were none (`LandFile`, by `AppendInv` or `CdcInv`), or changes nothing
the abstract level sees (`StandStill`).

`RowInOnePlace` counts the files that answer for a row of an original file. It is not inductive for
two reasons: it says nothing of rows of dropped files, which may be dropped again, and it does not
say why the file being recorded had its rows. `PlaceInv` speaks of every file, and says where rows
come from, so that a file that arrives cannot hold a row that somebody answers for. Each step is
either quiet for every file (`PlacesStay`), or a file arrives, or is recorded (`RecordPlaces`, which
needs the account that `StoresInv` gives), or is dropped (`DropPlaces`: the sidecar's rows
change hands).

`FailedLandedNothing` says nothing of files that are still loading. `FreshInv` does: until the
first crash, a PROCESSING row always has the worker that claimed it, so no reclaim starts from rows
that another attempt left, and whoever is about to mark FAILED has rolled back.

`CopiesBounded` needs to know which files may still be merged. A batch that is renamed and not yet
recorded is in one output more (`MayBeTaken` is false of its files); only a fault makes its files
available again, and the fault pays for the copy.

`Fetch`. A list endpoint is asked page by page while the source writes. `PagedInv` says of every record newer than
where the Fetcher started that it is fetched, or newer than all that is fetched, or still on a page that has not
been asked for. A write moves the other records back in the list, never forth, and what it
writes is newer than everything: that is where `Ordered` is used. Positions in a list are
cardinalities, and the lemma that a page of a list holds what its positions say is proved with bijections
(the library's `FiniteSetTheorems`), since no induction is available. `PassedInv` says of the stored cursor, and of
the cursor each Fetcher started from, that what it has passed has landed; that another Fetcher may set the cursor back does no
harm to it. `Ordered` is what the runs assume too: no two records with one cursor value, and newest first or
never updated. Section 3 shows what is lost without it.

`Materialize`. `Taken` is `NothingDropped` of one partition with what makes it inductive: nothing is
buffered that has not been read, and a partition is exhausted only past its snapshot. `Batch` says that
everything up to the last message of the File in hand has landed or is in the File: a flush takes the
buffer as a whole, so that the offset it commits afterwards is right, also when another Materializer has set
the committed offset back in between.

`CdcConverges` says what the table is only while the files came in order. `OrderInv` says it while a file is
in the middle of being applied: the table is the changes of the files before the last one begun, with
those of the last one or without (`WithFurthest`), and with them once they are applied, landed or committed. It speaks only of behaviours without a file that was
left behind (`LeftBehind`), and a new file can end that condition as well as a commit can restore it. Three lemmas carry it:
applying the changes of a file after all earlier ones gives the changes in path order
(`ChangesNext`), applying them again changes nothing (`ChangesAgain`), and a file without changes adds nothing. TLC checked `OrderInv` over every
setup of the `Destinations` run first.

`Authoring`. The types rest on lemmas about each edit of a draft, and on the fact that an edit finds the
column it looks for (`FirstIsThere`, a least element of a set of positions). `ReportIsFresh` survives
`RefreshSample`, which may leave the old report in place, since evidence is no part of the config
(`EvidenceKeepsConfig`): a draft that does not load had no report. `AckInv` adds that columns with one source have one
evidence, which Schema Inference guarantees (rows are read as mappings, `OneKindPerName`), duplication keeps, and
only a rename or another sample breaks. `ThereInv` follows an author from the emptied `pipeline.yaml` to the
registry it writes: the files of its entry, and of all entries it read, are there and stay there, since no
step deletes a file. `EntryInv` says that the entry a re-author found is of the folder that it opened, which is
still there: so `generate` finds it in its way, and never gets to the registry.

The last six theorems are about properties that section 3 shows violated: each gives a condition
under which the sentence of the documents does hold, so that together with the counterexample they say where the
limit is. `GreenIsLoadable` follows a report to the disk: a green draft was read from its sample in the
layout it has (`Judged`, kept by `set_fixed_width_layout` too), generation writes for a green draft only, and between
the writes of a folder (`Half`) the config is the draft's already (`OfDraft`) and the runbook is the old one or empty. So the lost encoding is
all that separates a green report from a config that loads, a second author in the same folder and a kill
between those writes aside. These properties are in no passing run: TLC refutes them without the condition, and checked
them under it before they were proved.

Only model-checked: liveness (`EventuallySettled`, `EventuallyLanded`, `EventuallyCompacted`,
`EventuallyLoaded`), because fairness and ENABLED are out of the prover's reach. Every safety property and action
property of the passing runs is the property of a theorem. The theorems under `Disciplined`, `Ordered`,
`Stable`, `Careful` or `Foreign = {}` say nothing of the configurations outside of them; the runs that expect a violation, and section
3, say what happens there.

## 5. Assumptions and limits

* One clock. Skew between workers acts like an overrun.
* A registration is one transaction; the UNIQUE violation of two Runs that insert one hash
  aborts a Run as a whole, which is a `Crash` here.
* Files do not change once visible, and a compactor's source names are used once.
* One pipeline per Audit DB. `FiledgeRun`'s destination is in append mode, with many
  workers; `Destinations` has every mode, with one loader and no retry cap.
* BigQuery remembers job ids for the whole behaviour; its dataset is not part of a load job's
  id, so two pipelines of one project with tables of one name share ids. The runs and the proofs that
  say so assume that no other one has loaded the same files (`Foreign = {}`). Staging tables and files have fresh names and are not tracked.
* A destination's `ensure_table` and column types are not modelled.
* `Quarantine` has one worker and no retry cap, which are `FiledgeRun`'s. Its operators redrop
  what an Audit Record lists, once (`Careful`), and do not edit the columns over a destination that keeps
  a hash (`Stable`); section 3 says what happens otherwise. No two rows are the same bytes: a
  content is a set of named rows, so two redrops that hold byte-identical rows, and would share one
  hash (the second is then skipped as known), are outside the model. `CommittedIsAccounted` is about append mode. Quarantine is not combined with CDC,
  as in the code. Values are rational, not floating-point, when a fraction is compared.
* An author's sample File does not change while it is being authored, the folders of a
  workspace are not removed, and `open_folder` reads a folder and the registry at one instant. Fixed-Width positions, `hash:` blocks and the CDC operation column
  constrain nothing the properties are about.
* The compactor is not run twice at the same time, as its guide demands.
* An API lists newest first, or is Stripe-like, and gives no two records one cursor value.
  Section 3 says what is lost otherwise; no document claims more.
* Not modelled because they hold no state or only read: parsers, encryption, formatting, health, export, logging and tracing.

## 6. Plan

Done: the core (Audit DB, Run, SQL append destination, requeue, manifest policy) with its
abstract specification and proofs; companions, Fetcher, Materializer, compactor; the
connectors of every kind and write mode, shown to implement the abstract lifecycle; the
planning of CDC files; Quarantine with redrops, and its proofs; Authoring with its folders and registry;
every safety and action property of the runs is proved.

Next, in this order:

1. `ConnectorsImplementLifecycle` for BigQuery and for truncate mode, as far as it holds.
2. `Destinations` under the several workers and the retry cap of `FiledgeRun`, as one
   composition.
