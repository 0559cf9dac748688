------------------------------ MODULE Companion ------------------------------
(***************************************************************************)
(* What the external companions (filedge-fetch, filedge-materialize) share *)
(* (src/filedge/companion): a staged file is promoted into the Watched     *)
(* Directory under the Fetch Lock of its source, the sidecar before the    *)
(* data.  The lock is a directory, so it does not know who made it.        *)
(*                                                                         *)
(* Fetch and Materialize extend this module; the actions here only say     *)
(* what happens to its own variables.                                      *)
(***************************************************************************)
EXTENDS Integers, FiniteSets

CONSTANTS
    Process,      \* the scheduled companions of one source
    NoFile,       \* what a companion holds that has staged nothing
    MayCopy,      \* os.replace may fail, as it does between two filesystems
    CrashInLock,  \* a companion may be killed while it holds the Fetch Lock
    MaxFaults     \* bound: failures and crashes of companions

ASSUME CompanionAssumption ==
    /\ MayCopy \in BOOLEAN
    /\ CrashInLock \in BOOLEAN
    /\ MaxFaults \in Nat

VARIABLES
    pc,        \* where a companion is
    file,      \* the file it has staged
    locked,    \* the lock directory exists
    sidecars,  \* the files whose Source Manifest is in the Watched Directory
    partial,   \* the data files that are visible there but not whole
    watched,   \* the data files that are there, whole
    faults     \* failures and crashes so far

companion_vars == <<pc, file, locked, sidecars, partial, watched, faults>>

\* A data file is named by who staged it and by the rows it holds.
File(p, rows) == [by |-> p, rows |-> rows]

Landed == UNION {f.rows : f \in watched}

Promoting == {"locked", "sidecar", "copying", "moved"}
PromotionPC == {"idle", "staged", "promoted"} \cup Promoting

CompanionInit ==
    /\ pc = [p \in Process |-> "idle"]
    /\ file = [p \in Process |-> NoFile]
    /\ locked = FALSE
    /\ sidecars = {} /\ partial = {} /\ watched = {}
    /\ faults = 0

GoTo(p, label) == pc' = [pc EXCEPT ![p] = label]

\* write_staged_ndjson and emit_manifest: both are complete before they are used.
StageFile(p, rows) ==
    /\ file' = [file EXCEPT ![p] = File(p, rows)]
    /\ GoTo(p, "staged")
    /\ UNCHANGED <<locked, sidecars, partial, watched, faults>>

-----------------------------------------------------------------------------
(***************************************************************************)
(* FetchLock and promote.                                                  *)
(***************************************************************************)

\* Variant: the lock is taken without looking whether it is there.
AcquireAnyway(p) ==
    /\ pc[p] = "staged"
    /\ locked' = TRUE
    /\ GoTo(p, "locked")
    /\ UNCHANGED <<file, sidecars, partial, watched, faults>>

\* os.mkdir.
AcquireLock(p) ==
    /\ pc[p] = "staged" /\ ~locked
    /\ locked' = TRUE
    /\ GoTo(p, "locked")
    /\ UNCHANGED <<file, sidecars, partial, watched, faults>>

\* FetchLockHeld ends the program; what it staged stays in the staging area.
FindLockHeld(p) ==
    /\ pc[p] = "staged" /\ locked
    /\ file' = [file EXCEPT ![p] = NoFile]
    /\ GoTo(p, "idle")
    /\ UNCHANGED <<locked, sidecars, partial, watched, faults>>

\* Variant: promote moves the data file in the place of the sidecar.
MoveSidecarLast(p) ==
    /\ pc[p] = "locked"
    /\ watched' = watched \cup {file[p]}
    /\ GoTo(p, "sidecar")
    /\ UNCHANGED <<file, locked, sidecars, partial, faults>>

MoveSidecar(p) ==
    /\ pc[p] = "locked"
    /\ sidecars' = sidecars \cup {file[p]}
    /\ GoTo(p, "sidecar")
    /\ UNCHANGED <<file, locked, partial, watched, faults>>

\* os.replace...
MoveData(p) ==
    /\ pc[p] = "sidecar"
    /\ watched' = watched \cup {file[p]}
    /\ GoTo(p, "moved")
    /\ UNCHANGED <<file, locked, sidecars, partial, faults>>

\* ... and when it fails, shutil.copy2 to the visible name.
CopyData(p) ==
    /\ pc[p] = "sidecar" /\ MayCopy
    /\ partial' = partial \cup {file[p]}
    /\ GoTo(p, "copying")
    /\ UNCHANGED <<file, locked, sidecars, watched, faults>>

FinishCopy(p) ==
    /\ pc[p] = "copying"
    /\ partial' = partial \ {file[p]}
    /\ watched' = watched \cup {file[p]}
    /\ GoTo(p, "moved")
    /\ UNCHANGED <<file, locked, sidecars, faults>>

ReleaseLock(p) ==
    /\ pc[p] = "moved"
    /\ locked' = FALSE
    /\ GoTo(p, "promoted")
    /\ UNCHANGED <<file, sidecars, partial, watched, faults>>

Promote(p) ==
    \/ AcquireLock(p) \/ FindLockHeld(p) \/ MoveSidecar(p) \/ MoveData(p)
    \/ CopyData(p) \/ FinishCopy(p) \/ ReleaseLock(p)

-----------------------------------------------------------------------------
(***************************************************************************)
(* Faults.  Each one ends the program; the scheduler starts it again.      *)
(***************************************************************************)
EndProgram(p) ==
    /\ faults < MaxFaults /\ faults' = faults + 1
    /\ file' = [file EXCEPT ![p] = NoFile]
    /\ GoTo(p, "idle")
    /\ UNCHANGED <<sidecars, partial, watched>>

\* An exception passes through FetchLock.__exit__, which removes the lock of the
\* process that raised it.
Fail(p) ==
    /\ pc[p] # "idle"
    /\ EndProgram(p)
    /\ locked' = (locked /\ pc[p] \notin Promoting)

\* A killed process runs no __exit__.
Crash(p) ==
    /\ pc[p] # "idle"
    /\ pc[p] \in Promoting => CrashInLock
    /\ EndProgram(p)
    /\ UNCHANGED locked

-----------------------------------------------------------------------------
(***************************************************************************)
(* Properties of every companion.                                          *)
(***************************************************************************)
CompanionTypeOK(Rows) ==
    LET StagedFile == [by : Process, rows : SUBSET Rows]
    IN  /\ file \in [Process -> StagedFile \cup {NoFile}]
        /\ \A p \in Process : pc[p] \in {"staged", "promoted"} \cup Promoting => file[p] # NoFile
        /\ locked \in BOOLEAN
        /\ sidecars \subseteq StagedFile /\ partial \subseteq StagedFile /\ watched \subseteq StagedFile
        /\ faults \in 0 .. MaxFaults

\* A data file is never visible without its provenance: its sidecar is moved
\* first, whatever fails in between.
VisibleWithSidecar == partial \cup watched \subseteq sidecars

\* The Fetch Lock is a mutex: two companions of one source never promote at once.
OnePromotes ==
    /\ \A p, q \in Process : pc[p] \in Promoting /\ pc[q] \in Promoting => p = q
    /\ \A p \in Process : pc[p] \in Promoting => locked

\* Only complete files become visible (ADR-0018).  Not so when MayCopy.
OnlyCompleteVisible == partial = {}
==============================================================================
