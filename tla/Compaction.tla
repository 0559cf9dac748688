------------------------------ MODULE Compaction ------------------------------
(***************************************************************************)
(* filedge compact (src/filedge/compactor.py): one compactor at a time     *)
(* merges the small files of a source prefix, in batches, into an output   *)
(* prefix that `filedge run` reads afterwards.                             *)
(*                                                                         *)
(* A file is the number of its place in the sorted listing.  What an       *)
(* output holds is the set of files merged into it: rows are copied in the *)
(* order of the listing, so equal sets make equal bytes, unless the output *)
(* is compressed, when the gzip header tells every run from the next.      *)
(***************************************************************************)
EXTENDS Naturals, FiniteSets

CONSTANTS
    File,          \* the files that may arrive, numbered in listing order
    Malformed,     \* those with a line that is not JSON
    MaxFiles,      \* --max-files
    Mode,          \* the modes: "delete" (--delete-source), "manifest"
    Compress,      \* --compress
    LocalOutput,   \* the manifest is appended to in place; else rewritten whole
    MaxFaults      \* bound: failures and kills

ASSUME CompactionAssumption ==
    /\ File \subseteq Nat /\ IsFiniteSet(File)
    /\ Malformed \subseteq File
    /\ MaxFiles \in Nat \ {0}
    /\ Mode \subseteq {"delete", "manifest"} /\ Compress \in BOOLEAN /\ LocalOutput \in BOOLEAN
    /\ MaxFaults \in Nat

VARIABLES
    mode,      \* the mode the operator runs it in
    arrived,   \* the files that were ever put into the source prefix
    source,    \* those that are there
    manifest,  \* the files that compact_manifest.ndjson names
    torn,      \* the last line of the manifest is cut short
    outputs,   \* the merged files, by content
    tmps,      \* how many .tmp files there are
    pc,        \* where the compactor is
    work,      \* the files of the listing that it has not dealt with
    batch,     \* the files of the batch that it is at
    faults     \* failures and kills so far

compactor_vars == <<pc, work, batch>>
vars == <<mode, arrived, source, manifest, torn, outputs, tmps, compactor_vars, faults>>

DeleteSource == mode = "delete"

Content(files) == [files |-> files, stamp |-> IF Compress THEN faults ELSE 0]

Compacted == UNION {c.files : c \in outputs}

Init ==
    /\ mode \in Mode
    /\ arrived = {} /\ source = {}
    /\ manifest = {} /\ torn = FALSE
    /\ outputs = {} /\ tmps = 0
    /\ pc = "idle" /\ work = {} /\ batch = {}
    /\ faults = 0

\* A name is used once.
Arrive(f) ==
    /\ f \notin arrived
    /\ arrived' = arrived \cup {f}
    /\ source' = source \cup {f}
    /\ UNCHANGED <<mode, manifest, torn, outputs, tmps, compactor_vars, faults>>

-----------------------------------------------------------------------------
(***************************************************************************)
(* compact.                                                                *)
(***************************************************************************)

\* Variant: the listing is not compared with the manifest.
ListAll == source

\* What a run finds to do.
Listed == IF DeleteSource THEN source ELSE source \ manifest

\* json.loads raises on a torn line of the manifest, and the run ends there.
Start ==
    /\ pc = "idle" /\ Listed # {}
    /\ DeleteSource \/ ~torn
    /\ pc' = "batching" /\ work' = Listed
    /\ UNCHANGED <<mode, arrived, source, manifest, torn, outputs, tmps, batch, faults>>

FirstFiles(S) == {f \in S : Cardinality({g \in S : g < f}) < MaxFiles}

WriteTmp ==
    /\ pc = "batching" /\ work # {}
    /\ batch' = FirstFiles(work)
    /\ tmps' = tmps + 1
    /\ pc' = "writing"
    /\ UNCHANGED <<mode, arrived, source, manifest, torn, outputs, work, faults>>

\* Variant: a batch that cannot be written is recorded as if it were.
AbortAndRecord ==
    /\ pc = "writing" /\ batch \cap Malformed # {}
    /\ tmps' = tmps - 1
    /\ pc' = "recording"
    /\ UNCHANGED <<mode, arrived, source, manifest, torn, outputs, work, batch, faults>>

\* A malformed file ends the run; the .tmp file is removed.
AbortBatch ==
    /\ pc = "writing" /\ batch \cap Malformed # {}
    /\ tmps' = tmps - 1
    /\ pc' = "idle" /\ work' = {} /\ batch' = {}
    /\ UNCHANGED <<mode, arrived, source, manifest, torn, outputs, faults>>

RenameTmp ==
    /\ pc = "writing" /\ batch \cap Malformed = {}
    /\ outputs' = outputs \cup {Content(batch)}
    /\ tmps' = tmps - 1
    /\ pc' = "recording"
    /\ UNCHANGED <<mode, arrived, source, manifest, torn, work, batch, faults>>

\* The batch is dealt with when none of it is left to record.
Recorded(files) ==
    /\ batch' = batch \ files
    /\ work' = work \ files
    /\ pc' = IF batch' = {} THEN "batching" ELSE "recording"

\* Variant: the first file of a batch stays in the source prefix.
DeleteRest ==
    /\ pc = "recording" /\ DeleteSource
    /\ \E f \in batch :
           /\ \A g \in batch : f <= g
           /\ source' = source \ (batch \ {f})
    /\ Recorded(batch)
    /\ UNCHANGED <<mode, arrived, manifest, torn, outputs, tmps, faults>>

\* _delete_file, one file after the other in listing order.
DeleteOne ==
    /\ pc = "recording" /\ DeleteSource
    /\ \E f \in batch :
           /\ \A g \in batch : f <= g
           /\ source' = source \ {f}
           /\ Recorded({f})
    /\ UNCHANGED <<mode, arrived, manifest, torn, outputs, tmps, faults>>

\* Variant: what is recorded is the listing, not the batch.
AppendListing ==
    /\ pc = "recording" /\ ~DeleteSource
    /\ manifest' = manifest \cup work
    /\ Recorded(batch)
    /\ UNCHANGED <<mode, arrived, source, torn, outputs, tmps, faults>>

AppendManifest ==
    /\ pc = "recording" /\ ~DeleteSource
    /\ manifest' = manifest \cup batch
    /\ Recorded(batch)
    /\ UNCHANGED <<mode, arrived, source, torn, outputs, tmps, faults>>

Finish ==
    /\ pc = "batching" /\ work = {}
    /\ pc' = "idle"
    /\ UNCHANGED <<mode, arrived, source, manifest, torn, outputs, tmps, work, batch, faults>>

EndRun ==
    /\ pc # "idle"
    /\ faults < MaxFaults /\ faults' = faults + 1
    /\ pc' = "idle" /\ work' = {} /\ batch' = {}
    /\ UNCHANGED <<mode, arrived, source, manifest, outputs>>

\* A full disk, a denied delete...: the exception passes through _write_batch's finally.
Fail ==
    /\ EndRun
    /\ tmps' = IF pc = "writing" THEN tmps - 1 ELSE tmps
    /\ UNCHANGED torn

\* A kill runs no finally, and may cut an append to the manifest short.
Kill ==
    /\ EndRun
    /\ torn' \in {torn, torn \/ (pc = "recording" /\ ~DeleteSource /\ LocalOutput)}
    /\ UNCHANGED tmps

-----------------------------------------------------------------------------
Step == \/ Start \/ WriteTmp \/ AbortBatch \/ RenameTmp
        \/ DeleteOne \/ AppendManifest \/ Finish

Next == Step \/ Fail \/ Kill \/ \E f \in File : Arrive(f)

Spec == Init /\ [][Next]_vars

\* The compactor is scheduled again and again and keeps running.
FairSpec == Spec /\ WF_vars(Step)

-----------------------------------------------------------------------------
(***************************************************************************)
(* Properties.                                                             *)
(***************************************************************************)

\* The variables have the shapes the code gives them.
TypeOK ==
    /\ mode \in Mode
    /\ source \subseteq arrived /\ arrived \subseteq File
    /\ manifest \subseteq arrived /\ torn \in BOOLEAN
    /\ outputs \subseteq [files : SUBSET File, stamp : 0 .. MaxFaults]
    /\ tmps \in 0 .. MaxFaults + 1
    /\ pc \in {"idle", "batching", "writing", "recording"}
    /\ batch \subseteq work /\ work \subseteq source
    /\ faults \in 0 .. MaxFaults

\* A file that no later run will look at has been merged into an output, whatever
\* failed or was killed in between.
NothingLost == arrived \subseteq Listed \cup Compacted

\* The rows of a file come to be in more than one output only by a fault, and by
\* each fault in one more.
CopiesBounded ==
    \A f \in File : Cardinality({c \in outputs : f \in c.files}) <= 1 + faults

\* Duplicate batches are harmless, since run skips content it has loaded: no two
\* outputs that differ hold the rows of one file.
RowsOnce == \A f \in File : Cardinality({c \in outputs : f \in c.files}) <= 1

\* A .tmp file that a kill left behind is cleaned up on the next run.  Not so.
TmpCleaned == pc = "batching" /\ work = {} => tmps = 0

\* A batch is retried on the next run until every file is compacted, unless a
\* malformed file ends the runs before.  Not so when a local manifest is torn.
EventuallyCompacted ==
    \A f \in File : f \in arrived ~> f \in Compacted \/ source \cap Malformed # {}
==============================================================================
