-------------------------------- MODULE Fetch --------------------------------
(***************************************************************************)
(* filedge-fetch (src/filedge/fetch): scheduled Fetchers of one API Source *)
(* read the cursor, page through the records that are newer, stage and     *)
(* promote them as one file, and advance the cursor.  The API changes      *)
(* while they page.                                                        *)
(*                                                                         *)
(* A record carries a stamp, the value of cursor_field, drawn from the     *)
(* source's clock; 0 stands for "not there" and for "no cursor".  Stamps   *)
(* compare as numbers: the string comparison of the code agrees with it    *)
(* on stamps of one format and width.                                      *)
(***************************************************************************)
EXTENDS Companion

CONSTANTS
    Record,       \* the records the API may hold, numbered
    Paging,       \* how the source may page: "number" (cursor_mode server),
                  \* "after" (cursor_mode stripe)
    PageSize,     \* page_size; large enough for all records in cursor_mode client,
                  \* where the API answers with a single document
    Inclusive,    \* the API's filter lets the cursor itself through (`since`)
    NewestFirst,  \* the order in which the API lists
    Mutable,      \* a record gets a new stamp when it is updated
    Ties,         \* two records may carry one stamp
    MaxTime       \* bound: the last stamp

ASSUME FetchAssumption ==
    /\ Record \subseteq Nat /\ IsFiniteSet(Record)
    /\ Paging \subseteq {"number", "after"}
    /\ PageSize \in Nat \ {0}
    /\ Inclusive \in BOOLEAN /\ NewestFirst \in BOOLEAN /\ Mutable \in BOOLEAN /\ Ties \in BOOLEAN
    /\ "after" \in Paging => NewestFirst /\ ~Inclusive   \* Stripe's list contract
    /\ MaxTime \in Nat

VARIABLES
    paging,   \* how the source pages
    stamp,    \* the cursor field of each record
    now,      \* the clock of the source
    cursor,   \* Cursor State: the last cursor advanced
    from,     \* run_fetch: from_cursor
    page,     \* _fetch_server: the next page, counted from 0
    got       \* the records fetched, each with the stamp it was read with

source_vars == <<paging, stamp, now>>
fetch_vars == <<from, page, got>>
vars == <<companion_vars, source_vars, cursor, fetch_vars>>

Version == Record \X (1 .. MaxTime)

ASSUME NoFileAssumption == NoFile \notin [by : Process, rows : SUBSET Version]

-----------------------------------------------------------------------------
Init ==
    /\ CompanionInit
    /\ paging \in Paging
    /\ stamp = [r \in Record |-> 0] /\ now = 0
    /\ cursor = 0
    /\ from = [p \in Process |-> 0]
    /\ page = [p \in Process |-> 0]
    /\ got = [p \in Process |-> {}]

\* The source creates or updates a record; Stripe's cursor is the time of creation.
Write(r) ==
    /\ \/ stamp[r] = 0
       \/ Mutable /\ paging = "number"
    /\ \E t \in {now, now + 1} :
           /\ t > stamp[r] /\ t <= MaxTime
           /\ ~Ties => t = now + 1
           /\ now' = t
           /\ stamp' = [stamp EXCEPT ![r] = t]
    /\ UNCHANGED <<companion_vars, paging, cursor, fetch_vars>>

-----------------------------------------------------------------------------
(***************************************************************************)
(* What the API answers.                                                   *)
(***************************************************************************)
Before(q, r) ==
    \/ stamp[q] = stamp[r] /\ q < r
    \/ stamp[q] # stamp[r] /\ (NewestFirst <=> stamp[q] > stamp[r])

Newer(p) ==
    {r \in Record : \/ stamp[r] > from[p]
                    \/ Inclusive /\ stamp[r] = from[p] /\ stamp[r] > 0}

\* The members of S that have `lo` to `hi` - 1 members of S before them.
Slice(S, lo, hi) == {r \in S : Cardinality({q \in S : Before(q, r)}) \in lo .. hi - 1}

\* starting_after: what is listed after every record that was fetched.
Rest(p) == {r \in Newer(p) : \A v \in got[p] : Before(v[1], r)}

NextPage(p) == IF paging = "number"
               THEN Slice(Newer(p), page[p] * PageSize, (page[p] + 1) * PageSize)
               ELSE Slice(Rest(p), 0, PageSize)

\* Variant: a full page is taken for the last one.
LastWhenFull(p) == Cardinality(NextPage(p)) <= PageSize

\* A short page, or has_more = false.
LastPage(p) == IF paging = "number" THEN Cardinality(NextPage(p)) < PageSize
                                    ELSE NextPage(p) = Rest(p)

\* Variant: the cursor is the time at which the fetch finished.
CursorAtFinish(p) == now

\* Variant: the next window opens after the largest stamp.
CursorAfterLargest(p) == 1 + CHOOSE c \in {v[2] : v \in got[p]} : \A v \in got[p] : v[2] <= c

\* _max_cursor: the largest stamp fetched, the cursor when there is none.
NewCursor(p) ==
    CHOOSE c \in {v[2] : v \in got[p]} \cup {from[p]} :
        \A v \in got[p] : v[2] <= c /\ from[p] <= c

-----------------------------------------------------------------------------
(***************************************************************************)
(* run_fetch.                                                              *)
(***************************************************************************)
ReadCursor(p) ==
    /\ pc[p] = "idle"
    /\ from' = [from EXCEPT ![p] = cursor]
    /\ GoTo(p, "paging")
    /\ UNCHANGED <<file, locked, sidecars, partial, watched, faults, source_vars,
                   cursor, page, got>>

GetPage(p) ==
    /\ pc[p] = "paging"
    /\ got' = [got EXCEPT ![p] = @ \cup {<<r, stamp[r]>> : r \in NextPage(p)}]
    /\ IF LastPage(p)
       THEN GoTo(p, "fetched") /\ page' = [page EXCEPT ![p] = 0]
       ELSE page' = [page EXCEPT ![p] = @ + 1] /\ UNCHANGED pc
    /\ UNCHANGED <<file, locked, sidecars, partial, watched, faults, source_vars,
                   cursor, from>>

\* A run that fetched no record changes nothing.
FindNothingNew(p) ==
    /\ pc[p] = "fetched" /\ got[p] = {}
    /\ GoTo(p, "idle")
    /\ from' = [from EXCEPT ![p] = 0]
    /\ UNCHANGED <<file, locked, sidecars, partial, watched, faults, source_vars,
                   cursor, page, got>>

Stage(p) ==
    /\ pc[p] = "fetched" /\ got[p] # {}
    /\ StageFile(p, got[p])
    /\ UNCHANGED <<source_vars, cursor, fetch_vars>>

\* What the program holds in memory goes with it.
Forget(p) ==
    /\ from' = [from EXCEPT ![p] = 0]
    /\ page' = [page EXCEPT ![p] = 0]
    /\ got' = [got EXCEPT ![p] = {}]

\* Variant: the cursor is advanced although the lock was held by another fetch.
PromoteOrAdvance(p) ==
    /\ Promote(p)
    /\ IF pc'[p] = "idle" THEN cursor' = NewCursor(p) /\ Forget(p)
                          ELSE UNCHANGED <<cursor, fetch_vars>>
    /\ UNCHANGED source_vars

PromoteStep(p) ==
    /\ Promote(p)
    /\ IF pc'[p] = "idle" THEN Forget(p) ELSE UNCHANGED fetch_vars
    /\ UNCHANGED <<source_vars, cursor>>

\* CursorStore.advance, after the lock is released.
Advance(p) ==
    /\ pc[p] = "promoted"
    /\ cursor' = NewCursor(p)
    /\ file' = [file EXCEPT ![p] = NoFile]
    /\ GoTo(p, "idle")
    /\ Forget(p)
    /\ UNCHANGED <<locked, sidecars, partial, watched, faults, source_vars>>

\* SourceClientError, a full disk, a failed rename...; and the kill.
FetchFault(p) ==
    /\ Fail(p) \/ Crash(p)
    /\ Forget(p)
    /\ UNCHANGED <<source_vars, cursor>>

-----------------------------------------------------------------------------
FetchStep(p) ==
    \/ ReadCursor(p) \/ GetPage(p) \/ FindNothingNew(p) \/ Stage(p)
    \/ PromoteStep(p) \/ Advance(p)

Next ==
    \/ \E p \in Process : FetchStep(p)
    \/ \E p \in Process : FetchFault(p)
    \/ \E r \in Record : Write(r)

Spec == Init /\ [][Next]_vars

\* Every Fetcher is scheduled again and again and keeps running.
FairSpec == Spec /\ \A p \in Process : WF_vars(FetchStep(p))

-----------------------------------------------------------------------------
(***************************************************************************)
(* Properties.                                                             *)
(***************************************************************************)

\* The variables have the shapes the code gives them.
TypeOK ==
    /\ CompanionTypeOK(Version)
    /\ pc \in [Process -> PromotionPC \cup {"paging", "fetched"}]
    /\ paging \in Paging /\ stamp \in [Record -> 0 .. now] /\ now \in 0 .. MaxTime
    /\ cursor \in 0 .. now
    /\ from \in [Process -> 0 .. now]
    /\ page \in [Process -> Nat]
    /\ got \in [Process -> SUBSET Version]

\* Nothing is skipped: what the cursor has passed is in the Watched Directory,
\* in the version that the source has now, through failures, crashes and
\* Fetchers that run at the same time.
NothingSkipped ==
    \A r \in Record : stamp[r] \in 1 .. cursor => <<r, stamp[r]>> \in Landed

\* The cursor is a high-water mark: it never goes back.  Not so with two Fetchers.
HighWaterMark == [][cursor' >= cursor]_vars

\* Every version of a record that is not superseded lands.
EventuallyLanded ==
    \A r \in Record, t \in 1 .. MaxTime :
        stamp[r] = t ~> stamp[r] # t \/ <<r, t>> \in Landed
==============================================================================
