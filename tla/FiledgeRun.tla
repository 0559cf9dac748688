------------------------------ MODULE FiledgeRun ------------------------------
(***************************************************************************)
(* `filedge run` (src/filedge/pipeline.py, file_registration.py and        *)
(* loader.py): workers that share one Audit DB and one destination table   *)
(* in append mode.  A worker is a scheduled process; each time it starts,  *)
(* it makes one Run over the Watched Directory.  Its steps are separated   *)
(* where the code commits to the Audit DB or to the destination, because   *)
(* those are the points between which another process, or a crash, can be  *)
(* seen.  Operators run `filedge requeue` at the same time.                *)
(*                                                                         *)
(* The destination holds, for a hash, the set of COPIES of the file's rows *)
(* that are committed.  A copy is named by the worker that wrote it: a     *)
(* worker's older copy is always visible to, and deleted by, its next one. *)
(***************************************************************************)
EXTENDS AuditDb, FiniteSets

CONSTANTS
    Worker,          \* the scheduled `filedge run` processes
    Operator,        \* processes running `filedge requeue <file>`
    Path,            \* the files that may be dropped, named by their sort order
    HashOf,          \* the content hash of each of them
    NoHash,          \* no file: what a worker or an operator that has none holds
    ManifestPolicy,  \* pipeline.yaml: source_manifest
    RequeueCap,      \* --retry-cap of the requeue command
    SerialWriter,    \* the destination admits one write transaction at a time
    LateErrors,      \* load_file may report an error after rows are committed
    MaxCrashes,      \* bound: worker crashes
    MaxOverruns      \* bound: clock ticks that outlast a live worker's claim

ASSUME FiledgeRunAssumption ==
    /\ Path \subseteq Nat
    /\ HashOf \in [Path -> Hash]
    /\ NoHash \notin Hash
    /\ ManifestPolicy \in {"disabled", "optional", "required"}
    /\ RequeueCap \in Nat
    /\ SerialWriter \in BOOLEAN
    /\ LateErrors \in BOOLEAN
    /\ MaxCrashes \in Nat
    /\ MaxOverruns \in Nat

VARIABLES
    dir,        \* the files in the Watched Directory
    manifests,  \* those of them that have a valid Source Manifest beside them
    audit,      \* the table etl_file_audit
    dest,       \* hash -> the committed copies of its rows
    pc,         \* where a worker is in its Run
    listed,     \* register_files: the files the scan found
    known,      \* register_files: hash_states as get_hash_states returned it
    preload,    \* files whose manifest error is not recorded yet
    todo,       \* registration.load_candidates not claimed yet
    cur,        \* the hash the worker claimed
    doomed,     \* the copies the open write transaction has deleted
    target,     \* the hash an operator found eligible and will requeue
    crashes,    \* crashes so far
    overruns    \* overrunning ticks so far

worker_vars == <<listed, known, preload, todo, cur, doomed>>
env_vars == <<dir, manifests, target, crashes, overruns>>
vars == <<dir, manifests, audit, dest, pc, listed, known, preload, todo, cur,
          doomed, target, crashes, overruns>>

-----------------------------------------------------------------------------
(***************************************************************************)
(* State predicates.                                                       *)
(***************************************************************************)
PC == {"idle",        \* between Runs
       "started",     \* stale and retryable files were released
       "scanned",     \* the directory was hashed and the Audit DB queried
       "registered",  \* the loop over pre-load failures, then candidates
       "claimed",     \* claim committed, nothing sent to the destination
       "writing",     \* a destination write transaction is open
       "landed",      \* load_file returned without an error
       "errored"}     \* load_file returned an error

\* From the claim until the outcome is recorded, the worker owns a file.
Loading(w) == pc[w] \in {"claimed", "writing", "landed", "errored"}

IsFirst(p, S) == p \in S /\ \A q \in S : p <= q

\* The hash of p is that of an earlier file of S: p is a duplicate there.
IsFirstOfItsHash(p, S) == IsFirst(p, {q \in S : HashOf[q] = HashOf[p]})

-----------------------------------------------------------------------------
Init ==
    /\ dir = {} /\ manifests = {}
    /\ audit = EmptyTable
    /\ dest = [h \in Hash |-> {}]
    /\ pc = [w \in Worker |-> "idle"]
    /\ listed = [w \in Worker |-> {}]
    /\ known = [w \in Worker |-> [h \in Hash |-> "ABSENT"]]
    /\ preload = [w \in Worker |-> {}]
    /\ todo = [w \in Worker |-> {}]
    /\ cur = [w \in Worker |-> NoHash]
    /\ doomed = [w \in Worker |-> {}]
    /\ target = [o \in Operator |-> NoHash]
    /\ crashes = 0 /\ overruns = 0

-----------------------------------------------------------------------------
(***************************************************************************)
(* The environment: files and manifests arrive, time passes.               *)
(***************************************************************************)
DropFile(p, withManifest) ==
    /\ p \notin dir
    /\ dir' = dir \cup {p}
    /\ manifests' = IF withManifest THEN manifests \cup {p} ELSE manifests
    /\ UNCHANGED <<audit, dest, pc, worker_vars, target, crashes, overruns>>

\* The owner of the upstream tool repairs a missing or invalid manifest.
RepairManifest(p) ==
    /\ p \in dir \ manifests
    /\ manifests' = manifests \cup {p}
    /\ UNCHANGED <<dir, audit, dest, pc, worker_vars, target, crashes, overruns>>

\* A tick overruns when it makes the claim of a worker that still loads stale.
Overrunning ==
    \E w \in Worker : /\ Loading(w)
                      /\ audit[cur[w]].state = "PROCESSING"
                      /\ audit[cur[w]].claim_age = StaleTimeout

Tick ==
    /\ \E h \in Hash : audit[h].state = "PROCESSING" /\ ~IsStale(audit[h])
    /\ IF Overrunning THEN overruns < MaxOverruns /\ overruns' = overruns + 1
                      ELSE UNCHANGED overruns
    /\ audit' = AgeClaims(audit)
    /\ UNCHANGED <<dir, manifests, dest, pc, worker_vars, target, crashes>>

-----------------------------------------------------------------------------
(***************************************************************************)
(* One Run of worker w.                                                    *)
(***************************************************************************)

\* run_pipeline: reset_eligible_failed, reclaim_stale_processing, commit.
StartRun(w) ==
    /\ pc[w] = "idle"
    /\ audit' = ResetAndReclaim(audit)
    /\ pc' = [pc EXCEPT ![w] = "started"]
    /\ UNCHANGED <<dest, worker_vars, env_vars>>

\* register_files: list and hash the files, then ask for the states of their
\* hashes.  Everything the Run decides later rests on this one answer.
Scan(w) ==
    /\ pc[w] = "started"
    /\ listed' = [listed EXCEPT ![w] = dir]
    /\ known' = [known EXCEPT ![w] =
           [h \in Hash |-> IF \E p \in dir : HashOf[p] = h
                           THEN audit[h].state ELSE "ABSENT"]]
    /\ pc' = [pc EXCEPT ![w] = "scanned"]
    /\ UNCHANGED <<audit, dest, preload, todo, cur, doomed, env_vars>>

\* register_files: the new hashes of the scan; those whose first file has a
\* valid manifest; those that fail the manifest policy.
NewHashes(w) == {h \in {HashOf[p] : p \in listed[w]} : known[w][h] = "ABSENT"}

WithManifest(w) ==
    {HashOf[p] : p \in {q \in listed[w] : /\ IsFirstOfItsHash(q, listed[w])
                                          /\ q \in manifests
                                          /\ ManifestPolicy # "disabled"}}

ManifestErrors(w) ==
    IF ManifestPolicy = "required" THEN NewHashes(w) \ WithManifest(w) ELSE {}

\* register_files: insert the new rows, commit, and split the scan into files
\* to fail and files to load.
Register(w) ==
    /\ pc[w] = "scanned"
    /\ audit' = InsertPending(audit, NewHashes(w), WithManifest(w))
    /\ preload' = [preload EXCEPT ![w] =
           {p \in listed[w] : HashOf[p] \in ManifestErrors(w)}]
    /\ todo' = [todo EXCEPT ![w] =
           {p \in listed[w] : /\ HashOf[p] \notin ManifestErrors(w)
                              /\ \/ HashOf[p] \in NewHashes(w)
                                 \/ known[w][HashOf[p]] = "PENDING"}]
    /\ listed' = [listed EXCEPT ![w] = {}]
    /\ known' = [known EXCEPT ![w] = [h \in Hash |-> "ABSENT"]]
    /\ pc' = [pc EXCEPT ![w] = "registered"]
    /\ UNCHANGED <<dest, cur, doomed, env_vars>>

\* register_files: claim and fail the file in one commit, whatever the claim
\* answered, once for every path of the hash.
FailPreload(w) ==
    /\ pc[w] = "registered"
    /\ \E p \in preload[w] :
           /\ IsFirst(p, preload[w])
           /\ audit' = MarkFailed(ClaimProcessing(audit, HashOf[p]), HashOf[p])
           /\ preload' = [preload EXCEPT ![w] = @ \ {p}]
    /\ UNCHANGED <<dest, pc, listed, known, todo, cur, doomed, env_vars>>

\* run_pipeline: claim the next candidate and commit; skip it when it is no
\* longer PENDING.
Claim(w) ==
    /\ pc[w] = "registered" /\ preload[w] = {}
    /\ \E p \in todo[w] :
           /\ IsFirst(p, todo[w])
           /\ todo' = [todo EXCEPT ![w] = @ \ {p}]
           /\ audit' = ClaimProcessing(audit, HashOf[p])
           /\ IF CanClaim(audit, HashOf[p])
              THEN /\ pc' = [pc EXCEPT ![w] = "claimed"]
                   /\ cur' = [cur EXCEPT ![w] = HashOf[p]]
              ELSE UNCHANGED <<pc, cur>>
    /\ UNCHANGED <<dest, listed, known, preload, doomed, env_vars>>

\* Variant: only a retry deletes; a first attempt has nothing to replace.
BeginWriteTrustingCount(w) ==
    /\ pc[w] = "claimed"
    /\ SerialWriter => \A v \in Worker : pc[v] # "writing"
    /\ doomed' = [doomed EXCEPT ![w] =
           IF audit[cur[w]].attempt_count = 0 THEN {} ELSE dest[cur[w]]]
    /\ pc' = [pc EXCEPT ![w] = "writing"]
    /\ UNCHANGED <<audit, dest, listed, known, preload, todo, cur, env_vars>>

\* write_rows: DELETE the rows of this hash.  The transaction sees, and
\* deletes, the copies committed by now; a serial destination makes other
\* writers wait.
BeginWrite(w) ==
    /\ pc[w] = "claimed"
    /\ SerialWriter => \A v \in Worker : pc[v] # "writing"
    /\ doomed' = [doomed EXCEPT ![w] = dest[cur[w]]]
    /\ pc' = [pc EXCEPT ![w] = "writing"]
    /\ UNCHANGED <<audit, dest, listed, known, preload, todo, cur, env_vars>>

\* write_rows: the batched INSERTs and the destination commit.
LandRows(w) ==
    /\ dest' = [dest EXCEPT ![cur[w]] = (@ \ doomed[w]) \cup {w}]
    /\ doomed' = [doomed EXCEPT ![w] = {}]

CommitWrite(w) ==
    /\ pc[w] = "writing"
    /\ LandRows(w)
    /\ pc' = [pc EXCEPT ![w] = "landed"]
    /\ UNCHANGED <<audit, listed, known, preload, todo, cur, env_vars>>

\* load_file: the rows are committed, and then the quarantine sidecar cannot be
\* written or the acknowledgement of the commit is lost.
CommitWriteThenError(w) ==
    /\ LateErrors
    /\ pc[w] = "writing"
    /\ LandRows(w)
    /\ pc' = [pc EXCEPT ![w] = "errored"]
    /\ UNCHANGED <<audit, listed, known, preload, todo, cur, env_vars>>

\* Variants: a failed load is reported as a success; its transaction is
\* committed by the next statement instead of rolled back.
FailLoadSilently(w) ==
    /\ pc[w] \in {"claimed", "writing"}
    /\ doomed' = [doomed EXCEPT ![w] = {}]
    /\ pc' = [pc EXCEPT ![w] = "landed"]
    /\ UNCHANGED <<audit, dest, listed, known, preload, todo, cur, env_vars>>

FailLoadWithoutRollback(w) ==
    /\ pc[w] \in {"claimed", "writing"}
    /\ IF pc[w] = "writing" THEN LandRows(w) ELSE UNCHANGED <<dest, doomed>>
    /\ pc' = [pc EXCEPT ![w] = "errored"]
    /\ UNCHANGED <<audit, listed, known, preload, todo, cur, env_vars>>

\* load_file: a bad row, a key that cannot be resolved, a connector error; the
\* write transaction, if any, is rolled back.
FailLoad(w) ==
    /\ pc[w] \in {"claimed", "writing"}
    /\ doomed' = [doomed EXCEPT ![w] = {}]
    /\ pc' = [pc EXCEPT ![w] = "errored"]
    /\ UNCHANGED <<audit, dest, listed, known, preload, todo, cur, env_vars>>

\* Variant: the claim is not let go.
RecordAndKeep(w) ==
    /\ \/ pc[w] = "landed"  /\ audit' = MarkCommitted(audit, cur[w])
       \/ pc[w] = "errored" /\ audit' = MarkFailed(audit, cur[w])
    /\ pc' = [pc EXCEPT ![w] = "registered"]
    /\ UNCHANGED <<dest, listed, known, preload, todo, cur, doomed, env_vars>>

\* run_pipeline: mark_committed or mark_failed, then commit.
RecordOutcome(w) ==
    /\ \/ pc[w] = "landed"  /\ audit' = MarkCommitted(audit, cur[w])
       \/ pc[w] = "errored" /\ audit' = MarkFailed(audit, cur[w])
    /\ pc' = [pc EXCEPT ![w] = "registered"]
    /\ cur' = [cur EXCEPT ![w] = NoHash]
    /\ UNCHANGED <<dest, listed, known, preload, todo, doomed, env_vars>>

EndRun(w) ==
    /\ pc[w] = "registered" /\ preload[w] = {} /\ todo[w] = {}
    /\ pc' = [pc EXCEPT ![w] = "idle"]
    /\ UNCHANGED <<audit, dest, worker_vars, env_vars>>

\* The process dies, or an exception leaves run_pipeline (a lost connection, a
\* unique-key race in insert_pending): open transactions are rolled back and
\* everything it knew is gone.  What it committed stays.
Crash(w) ==
    /\ pc[w] # "idle" /\ crashes < MaxCrashes
    /\ crashes' = crashes + 1
    /\ pc' = [pc EXCEPT ![w] = "idle"]
    /\ listed' = [listed EXCEPT ![w] = {}]
    /\ known' = [known EXCEPT ![w] = [h \in Hash |-> "ABSENT"]]
    /\ preload' = [preload EXCEPT ![w] = {}]
    /\ todo' = [todo EXCEPT ![w] = {}]
    /\ cur' = [cur EXCEPT ![w] = NoHash]
    /\ doomed' = [doomed EXCEPT ![w] = {}]
    /\ UNCHANGED <<dir, manifests, audit, dest, target, overruns>>

-----------------------------------------------------------------------------
(***************************************************************************)
(* `filedge requeue`.                                                      *)
(***************************************************************************)

\* requeue_file: read the row and decide that it is terminal-FAILED...
RequeueRead(o, h) ==
    /\ target[o] = NoHash
    /\ IsTerminalFailed(audit[h], RequeueCap)
    /\ target' = [target EXCEPT ![o] = h]
    /\ UNCHANGED <<dir, manifests, audit, dest, pc, worker_vars, crashes, overruns>>

\* ... then reset it, in a statement that does not look at its state again.
RequeueWrite(o) ==
    /\ target[o] # NoHash
    /\ audit' = RequeueByHash(audit, target[o])
    /\ target' = [target EXCEPT ![o] = NoHash]
    /\ UNCHANGED <<dir, manifests, dest, pc, worker_vars, crashes, overruns>>

\* `--all-terminal-failed --yes`: one conditional statement.
RequeueAll ==
    /\ \E h \in Hash : IsTerminalFailed(audit[h], RequeueCap)
    /\ audit' = RequeueAllTerminalFailed(audit, RequeueCap)
    /\ UNCHANGED <<dest, pc, worker_vars, env_vars>>

-----------------------------------------------------------------------------
WorkerStep(w) ==
    \/ StartRun(w) \/ Scan(w) \/ Register(w) \/ FailPreload(w) \/ Claim(w)
    \/ BeginWrite(w) \/ CommitWrite(w) \/ CommitWriteThenError(w) \/ FailLoad(w)
    \/ RecordOutcome(w) \/ EndRun(w)

Next ==
    \/ \E w \in Worker : WorkerStep(w)
    \/ \E w \in Worker : Crash(w)
    \/ \E p \in Path, b \in BOOLEAN : DropFile(p, b)
    \/ \E p \in Path : RepairManifest(p)
    \/ Tick
    \/ \E o \in Operator, h \in Hash : RequeueRead(o, h)
    \/ \E o \in Operator : RequeueWrite(o)
    \/ RequeueAll

Spec == Init /\ [][Next]_vars

\* A scheduler starts Runs again and again, a live process keeps executing, and
\* time does not stop.  Nothing makes a file arrive, a worker crash or an
\* operator act.
Fairness == /\ \A w \in Worker : WF_vars(WorkerStep(w))
            /\ WF_vars(Tick)

FairSpec == Spec /\ Fairness

-----------------------------------------------------------------------------
(***************************************************************************)
(* Properties.                                                             *)
(***************************************************************************)

\* The variables have the shapes the code gives them.
TypeOK ==
    /\ dir \subseteq Path /\ manifests \subseteq dir
    /\ audit \in [Hash -> Row]
    /\ dest \in [Hash -> SUBSET Worker]
    /\ pc \in [Worker -> PC]
    /\ listed \in [Worker -> SUBSET Path]
    /\ known \in [Worker -> [Hash -> FileState \cup {"ABSENT"}]]
    /\ preload \in [Worker -> SUBSET Path]
    /\ todo \in [Worker -> SUBSET Path]
    /\ cur \in [Worker -> Hash \cup {NoHash}]
    /\ \A w \in Worker : Loading(w) <=> cur[w] # NoHash
    /\ doomed \in [Worker -> SUBSET Worker]
    /\ target \in [Operator -> Hash \cup {NoHash}]
    /\ crashes \in 0 .. MaxCrashes
    /\ overruns \in 0 .. MaxOverruns

\* COMMITTED is never a lie: a file that the Audit DB calls COMMITTED has its
\* rows in the destination (mark_committed only follows a destination commit),
\* through crashes, slow workers and operators.
CommittedHasLanded ==
    \A h \in Hash : audit[h].state = "COMMITTED" => dest[h] # {}

\* A destination never holds two copies of a file's rows, however often the
\* file was retried (write_rows deletes by hash in the transaction that
\* inserts): true of a destination with one writer at a time, and of any other
\* as long as no two workers load the file at once.
NoDuplicateRows ==
    \A h \in Hash : \A c, d \in dest[h] : c = d

\* The PROCESSING row is a lock: a worker that loads a file finds the row
\* PROCESSING until it records the outcome itself, and no other worker loads
\* the same hash.
ExclusiveLoad ==
    \A w \in Worker : Loading(w) =>
        /\ audit[cur[w]].state = "PROCESSING"
        /\ \A v \in Worker : Loading(v) /\ cur[v] = cur[w] => v = w

\* A COMMITTED file is never admitted again: no late mark, reclaim, reset or
\* requeue takes it out of COMMITTED.
CommittedIsFinal ==
    [][\A h \in Hash : audit[h].state = "COMMITTED" => audit'[h].state = "COMMITTED"]_vars

\* A terminal FAILED row changes in one way, a requeue that gives it back its
\* whole retry budget; no Run resets it and no late worker marks it.
TerminalNeedsRequeue ==
    [][\A h \in Hash : IsTerminalFailed(audit[h], RetryCap) =>
           \/ audit'[h] = audit[h]
           \/ audit'[h].state = "PENDING" /\ audit'[h].attempt_count = 0]_vars

\* The retry cap bounds the attempts of a file, but for one attempt per crash:
\* reclaim_stale_processing counts an attempt and does not look at the cap.
AttemptsWithinBudget ==
    \A h \in Hash : audit[h].attempt_count <= RetryCap + crashes

\* The cap as the documentation states it: at the cap, a file is FAILED.
CapMakesTerminal ==
    \A h \in Hash : audit[h].attempt_count >= RetryCap => audit[h].state = "FAILED"

\* FAILED means that nothing landed, retries and racing Runs included, as long as
\* no Run has crashed, outlived its claim or erred after the destination's commit
\* (and nobody requeues or fails a file that another Run loads: Disciplined).
\* The condition is needed: a file that landed before a crash is reclaimed, and
\* its next attempt may fail.
FailedLandedNothing ==
    crashes = 0 /\ overruns = 0 /\ ~LateErrors =>
        \A h \in Hash : audit[h].state = "FAILED" => dest[h] = {}

\* Under `source_manifest: required`, no file without a recorded manifest
\* reaches the destination.
RequiredManifestBeforeLoad ==
    ManifestPolicy = "required" =>
        \A h \in Hash : dest[h] # {} => audit[h].metadata = "recorded"

\* A requeue returns a row to PENDING only if it is terminal-FAILED at that
\* moment: it never takes the claim of a worker away nor reopens a file.
RequeueOnlyTerminal ==
    [][\A o \in Operator : target[o] # NoHash /\ target'[o] = NoHash
           => \/ audit[target[o]].state = "PENDING"
              \/ IsTerminalFailed(audit[target[o]], RequeueCap)]_vars

\* Every file that is dropped is settled, COMMITTED or terminal FAILED, and is so
\* again after a requeue: no candidate is lost between a scan and a claim, no
\* crashed claim stays PROCESSING.
Settled(h) == audit[h].state = "COMMITTED" \/ IsTerminalFailed(audit[h], RetryCap)

EventuallySettled == \A p \in Path : p \in dir ~> Settled(HashOf[p])

\* The refinement: Audit DB, workers and destination together keep the promise
\* of FileLifecycle, provided claims outlive loads, no requeue of a single file
\* races, and no manifest policy fails files from outside a claim.
Promise == INSTANCE FileLifecycle
           WITH state <- [h \in Hash |-> audit[h].state],
                copies <- [h \in Hash |-> Cardinality(dest[h])]

ImplementsLifecycle == Promise!Lifecycle

\* The conditions under which a claim is a lock.
Disciplined == MaxOverruns = 0 /\ Operator = {} /\ ManifestPolicy # "required"

-----------------------------------------------------------------------------
(***************************************************************************)
(* Strengthenings of the invariants, inductive with TypeOK.                *)
(***************************************************************************)

\* Rows that a worker is about to mark COMMITTED are there.
LandedInv ==
    /\ CommittedHasLanded
    /\ \A w \in Worker : pc[w] = "landed" => dest[cur[w]] # {}

\* A serial destination has one open transaction, which will delete every copy.
SerialInv ==
    /\ NoDuplicateRows
    /\ \A v, w \in Worker : pc[v] = "writing" /\ pc[w] = "writing" => v = w
    /\ \A w \in Worker : pc[w] = "writing" => doomed[w] = dest[cur[w]]

\* A live worker's claim is young, so no Run reclaims it; what its transaction
\* will delete is all there is, and what it landed is all there is.
LockInv ==
    /\ ExclusiveLoad
    /\ NoDuplicateRows
    /\ \A w \in Worker :
          /\ preload[w] = {}
          /\ Loading(w) => audit[cur[w]].claim_age <= StaleTimeout
          /\ pc[w] = "writing" => doomed[w] = dest[cur[w]]
          /\ pc[w] = "landed" => dest[cur[w]] = {w}

\* Until the first crash rows are in the destination only for a file that is
\* COMMITTED, or that its owner has landed and is about to mark.
Owned(h) == \E w \in Worker : Loading(w) /\ cur[w] = h

FreshInv ==
    crashes = 0 =>
        /\ \A h \in Hash : dest[h] # {} => audit[h].state \in {"PROCESSING", "COMMITTED"}
        /\ \A h \in Hash : audit[h].state = "PROCESSING" => Owned(h)
        /\ \A w \in Worker : pc[w] \in {"claimed", "writing", "errored"} => dest[cur[w]] = {}

\* An attempt is spent when a load fails and when a crash is reclaimed: until
\* then the row of a file in flight keeps one attempt in hand, and two when its
\* worker crashed (the crash has raised the bound already).
WithinBudget(row, owned, budget) ==
    /\ row.state = "ABSENT" => row.attempt_count = 0
    /\ row.state = "FAILED" => row.attempt_count <= budget
    /\ row.state \in {"PENDING", "PROCESSING", "COMMITTED"} => row.attempt_count + 1 <= budget
    /\ row.state = "PROCESSING" /\ ~owned => row.attempt_count + 2 <= budget

BudgetInv == \A h \in Hash : WithinBudget(audit[h], Owned(h), RetryCap + crashes)
==============================================================================
