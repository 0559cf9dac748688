----------------------------- MODULE Fetch_proofs -----------------------------
(***************************************************************************)
(* Proofs about Fetch, for any number of Fetchers, records, page sizes,    *)
(* faults and kills: what Fetchers promote is whole in its provenance, and *)
(* the cursor passes nothing that has not landed.                          *)
(***************************************************************************)
EXTENDS Fetch, FiniteSetTheorems, WellFoundedInduction, TLAPS

-----------------------------------------------------------------------------
(***************************************************************************)
(* Promotion, as Companion describes it.                                   *)
(***************************************************************************)

\* What the lock is for, and the order in which promote moves: a companion that has
\* moved the sidecar has not moved anything else before it.
PromotionInv ==
    /\ OnePromotes
    /\ VisibleWithSidecar
    /\ \A p \in Process : pc[p] \in {"sidecar", "copying", "moved"} => file[p] \in sidecars

\* The variables of Companion that a promotion reads and writes.
PromotionTypes ==
    /\ DOMAIN pc = Process /\ DOMAIN file = Process
    /\ locked \in BOOLEAN

LEMMA PromoteKeeps ==
    ASSUME PromotionTypes, PromotionInv, NEW p \in Process, Promote(p)
    PROVE  PromotionInv'
<1> USE DEF PromotionTypes, PromotionInv, OnePromotes, VisibleWithSidecar, Promoting, GoTo
<1>1. CASE AcquireLock(p)
  BY <1>1 DEF AcquireLock
<1>2. CASE FindLockHeld(p)
  BY <1>2 DEF FindLockHeld
<1>3. CASE MoveSidecar(p)
  BY <1>3 DEF MoveSidecar
<1>4. CASE MoveData(p)
  BY <1>4 DEF MoveData
<1>5. CASE CopyData(p)
  BY <1>5 DEF CopyData
<1>6. CASE FinishCopy(p)
  BY <1>6 DEF FinishCopy
<1>7. CASE ReleaseLock(p)
  BY <1>7 DEF ReleaseLock
<1> QED BY <1>1, <1>2, <1>3, <1>4, <1>5, <1>6, <1>7 DEF Promote

\* A failure gives back the lock of a companion that has it, and no other.
LEMMA FaultKeeps ==
    ASSUME PromotionTypes, PromotionInv, NEW p \in Process, Fail(p) \/ Crash(p)
    PROVE  PromotionInv'
BY DEF PromotionTypes, PromotionInv, OnePromotes, VisibleWithSidecar, Promoting, GoTo,
       Fail, Crash, EndProgram

\* The rest of what a companion does is outside the lock.
LEMMA OutsideKeeps ==
    ASSUME PromotionTypes, PromotionInv, NEW p \in Process, NEW label, label \notin Promoting,
           pc' = [pc EXCEPT ![p] = label], pc[p] \notin Promoting,
           \A q \in Process \ {p} : file'[q] = file[q],
           UNCHANGED <<locked, sidecars, partial, watched>>
    PROVE  PromotionInv'
BY DEF PromotionTypes, PromotionInv, OnePromotes, VisibleWithSidecar, Promoting

LEMMA PromotionStep ==
    ASSUME PromotionTypes, PromotionInv, [Next]_vars
    PROVE  PromotionInv'
<1>1. ASSUME UNCHANGED companion_vars PROVE PromotionInv'
  BY <1>1 DEF companion_vars, PromotionInv, OnePromotes, VisibleWithSidecar
<1>2. ASSUME NEW p \in Process, ReadCursor(p) PROVE PromotionInv'
  BY <1>2, OutsideKeeps DEF ReadCursor, GoTo, Promoting
<1>3. ASSUME NEW p \in Process, GetPage(p) PROVE PromotionInv'
  <2>1. CASE LastPage(p)
    BY <1>3, <2>1, OutsideKeeps DEF GetPage, GoTo, Promoting
  <2>2. CASE ~LastPage(p)
    BY <1>1, <1>3, <2>2 DEF GetPage, companion_vars
  <2> QED BY <2>1, <2>2
<1>4. ASSUME NEW p \in Process, FindNothingNew(p) PROVE PromotionInv'
  BY <1>4, OutsideKeeps DEF FindNothingNew, GoTo, Promoting
<1>5. ASSUME NEW p \in Process, Stage(p) PROVE PromotionInv'
  BY <1>5, OutsideKeeps DEF Stage, StageFile, GoTo, Promoting, PromotionTypes
<1>6. ASSUME NEW p \in Process, PromoteStep(p) PROVE PromotionInv'
  BY <1>6, PromoteKeeps DEF PromoteStep
<1>7. ASSUME NEW p \in Process, Advance(p) PROVE PromotionInv'
  BY <1>7, OutsideKeeps DEF Advance, GoTo, Promoting, PromotionTypes
<1>8. ASSUME NEW p \in Process, FetchFault(p) PROVE PromotionInv'
  BY <1>8, FaultKeeps DEF FetchFault
<1>9. ASSUME NEW r \in Record, Write(r) PROVE PromotionInv'
  BY <1>1, <1>9 DEF Write
<1> QED BY <1>1, <1>2, <1>3, <1>4, <1>5, <1>6, <1>7, <1>8, <1>9 DEF Next, FetchStep, vars
-----------------------------------------------------------------------------
(***************************************************************************)
(* Numbers: what takes the place of induction.                             *)
(***************************************************************************)
LEMMA LeastNatural ==
    ASSUME NEW S \in SUBSET Nat, S # {}
    PROVE  \E n \in S : \A m \in S : n <= m
<1> DEFINE R == OpToRel(<, Nat)
<1>1. IsWellFoundedOn(R, Nat)
  BY NatLessThanWellFounded
<1> HIDE DEF R
<1>2. PICK n \in S : \A m \in S : <<m, n>> \notin R
  BY <1>1, WFMin
<1>3. \A m \in S : ~(m < n)
  BY <1>2 DEF R, OpToRel
<1> QED BY <1>3

LEMMA GreatestNatural ==
    ASSUME NEW S \in SUBSET Nat, S # {}, NEW b \in Nat, \A m \in S : m <= b
    PROVE  \E n \in S : \A m \in S : m <= n
<1> DEFINE Bound == {k \in Nat : \A m \in S : m <= k}
<1>1. PICK n \in Bound : \A k \in Bound : n <= k
  BY LeastNatural
<1>2. CASE n \in S
  BY <1>2
<1>3. CASE n \notin S
  <2>1. PICK m \in S : TRUE
    OBVIOUS
  <2>2. n # 0
    BY <1>3, <2>1
  <2>3. n - 1 \in Bound
    BY <1>3, <2>2
  <2> QED BY <1>1, <2>3
<1> QED BY <1>2, <1>3

-----------------------------------------------------------------------------
(***************************************************************************)
(* Types.                                                                  *)
(***************************************************************************)
Staged == {"staged", "promoted"} \cup Promoting

\* What a Fetcher holds in memory belongs to where it is: the file it staged holds
\* what it has fetched, and is there once it is moved.
HandInv ==
    \A p \in Process :
        /\ pc[p] = "idle" => got[p] = {}
        /\ pc[p] # "paging" => page[p] = 0
        /\ \A v \in got[p] : v[2] <= now
        /\ pc[p] \in Staged => file[p] = File(p, got[p])
        /\ pc[p] \in {"moved", "promoted"} => file[p] \in watched

\* The cursor advances to a stamp that was fetched, or stays.
LEMMA NewCursorIsGreatest ==
    ASSUME TypeOK, HandInv, NEW p \in Process
    PROVE  /\ NewCursor(p) \in {v[2] : v \in got[p]} \cup {from[p]}
           /\ \A v \in got[p] : v[2] <= NewCursor(p)
           /\ NewCursor(p) \in 0 .. now /\ from[p] <= NewCursor(p)
<1> DEFINE S == {v[2] : v \in got[p]} \cup {from[p]}
<1>1. now \in Nat /\ from[p] \in 0 .. now /\ \A v \in got[p] : v[2] \in 0 .. now
  BY FetchAssumption DEF TypeOK, HandInv, Version
<1>2. S \subseteq 0 .. now
  BY <1>1
<1>3. PICK c \in S : \A m \in S : m <= c
  <2>1. S \in SUBSET Nat /\ S # {} /\ \A m \in S : m <= now
    BY <1>1, <1>2
  <2> HIDE DEF S
  <2> QED BY <1>1, <2>1, GreatestNatural
<1>4. \A v \in got[p] : v[2] <= c /\ from[p] <= c
  BY <1>3
<1>5. NewCursor(p) \in S /\ \A v \in got[p] : v[2] <= NewCursor(p) /\ from[p] <= NewCursor(p)
  BY <1>4 DEF NewCursor
<1>6. from[p] <= NewCursor(p)
  <2>1. CASE got[p] = {}
    BY <1>1, <1>5, <2>1
  <2>2. CASE got[p] # {}
    BY <1>5, <2>2
  <2> QED BY <2>1, <2>2
<1> QED BY <1>2, <1>5, <1>6

\* An API answers with records that have a stamp.
LEMMA PageIsStamped ==
    ASSUME TypeOK, NEW p \in Process
    PROVE  /\ NextPage(p) \subseteq Newer(p)
           /\ \A r \in Newer(p) : /\ r \in Record /\ stamp[r] \in 1 .. now
                                  /\ <<r, stamp[r]>> \in Version
<1>1. NextPage(p) \subseteq Newer(p)
  BY DEF NextPage, Slice, Rest
<1>2. \A r \in Newer(p) : r \in Record /\ stamp[r] \in 1 .. now
  BY FetchAssumption DEF Newer, TypeOK
<1>3. now \in 0 .. MaxTime
  BY DEF TypeOK
<1> QED BY <1>1, <1>2, <1>3, FetchAssumption DEF Version

\* What the steps of a promotion do to the types.
LEMMA PromoteTypes ==
    ASSUME TypeOK, HandInv, NEW p \in Process, Promote(p)
    PROVE  /\ CompanionTypeOK(Version)'
           /\ pc' \in [Process -> PromotionPC \cup {"paging", "fetched"}]
           /\ \A q \in Process \ {p} : pc'[q] = pc[q] /\ file'[q] = file[q]
           /\ watched \subseteq watched'
           /\ \/ pc'[p] = "idle"
              \/ /\ pc[p] \in Staged /\ pc'[p] \in Staged /\ file'[p] = file[p]
                 /\ pc'[p] \in {"moved", "promoted"} => file[p] \in watched'
<1> USE DEF TypeOK, CompanionTypeOK, Promoting, PromotionPC, Staged, GoTo, HandInv
<1>0. pc[p] \in Staged => file[p] \in [by : Process, rows : SUBSET Version]
  OBVIOUS
<1>1. CASE AcquireLock(p)
  BY <1>1 DEF AcquireLock
<1>2. CASE FindLockHeld(p)
  BY <1>2 DEF FindLockHeld
<1>3. CASE MoveSidecar(p)
  BY <1>0, <1>3 DEF MoveSidecar
<1>4. CASE MoveData(p)
  BY <1>0, <1>4 DEF MoveData
<1>5. CASE CopyData(p)
  BY <1>0, <1>5 DEF CopyData
<1>6. CASE FinishCopy(p)
  BY <1>0, <1>6 DEF FinishCopy
<1>7. CASE ReleaseLock(p)
  BY <1>7 DEF ReleaseLock
<1> QED BY <1>1, <1>2, <1>3, <1>4, <1>5, <1>6, <1>7 DEF Promote

LEMMA TypeStep ==
    ASSUME TypeOK, HandInv, [Next]_vars
    PROVE  TypeOK' /\ HandInv'
<1> USE FetchAssumption DEF TypeOK, CompanionTypeOK, Promoting, PromotionPC, Staged, GoTo, HandInv
<1>1. CASE UNCHANGED vars
  BY <1>1 DEF vars, companion_vars, source_vars, fetch_vars, File
<1>2. ASSUME NEW p \in Process, ReadCursor(p) PROVE TypeOK' /\ HandInv'
  BY <1>2 DEF ReadCursor, source_vars
<1>3. ASSUME NEW p \in Process, GetPage(p) PROVE TypeOK' /\ HandInv'
  <2> DEFINE Page == {<<r, stamp[r]>> : r \in NextPage(p)}
  <2>1. Page \subseteq Version /\ \A v \in Page : v[2] <= now
    BY PageIsStamped
  <2>2. got' = [got EXCEPT ![p] = got[p] \cup Page]
    BY <1>3 DEF GetPage
  <2> HIDE DEF Page
  <2>3. got' \in [Process -> SUBSET Version] /\ \A q \in Process : \A v \in got'[q] : v[2] <= now
    BY <2>1, <2>2
  <2>4. UNCHANGED <<file, locked, sidecars, partial, watched, faults, source_vars, cursor, from>>
    BY <1>3 DEF GetPage
  <2>5. CASE LastPage(p)
    BY <1>3, <2>2, <2>3, <2>4, <2>5 DEF GetPage, source_vars
  <2>6. CASE ~LastPage(p)
    BY <1>3, <2>2, <2>3, <2>4, <2>6 DEF GetPage, source_vars
  <2> QED BY <2>5, <2>6
<1>4. ASSUME NEW p \in Process, FindNothingNew(p) PROVE TypeOK' /\ HandInv'
  BY <1>4 DEF FindNothingNew, source_vars
<1>5. ASSUME NEW p \in Process, Stage(p) PROVE TypeOK' /\ HandInv'
  <2>1. File(p, got[p]) \in [by : Process, rows : SUBSET Version]
    BY DEF File
  <2>2. File(p, got[p]) # NoFile
    BY <2>1, NoFileAssumption
  <2> QED BY <1>5, <2>1, <2>2 DEF Stage, StageFile, source_vars, fetch_vars
<1>6. ASSUME NEW p \in Process, PromoteStep(p) PROVE TypeOK' /\ HandInv'
  <2>1. /\ CompanionTypeOK(Version)'
        /\ pc' \in [Process -> PromotionPC \cup {"paging", "fetched"}]
        /\ \A q \in Process \ {p} : pc'[q] = pc[q] /\ file'[q] = file[q]
        /\ watched \subseteq watched'
        /\ \/ pc'[p] = "idle"
           \/ /\ pc[p] \in Staged /\ pc'[p] \in Staged /\ file'[p] = file[p]
              /\ pc'[p] \in {"moved", "promoted"} => file[p] \in watched'
    BY <1>6, PromoteTypes DEF PromoteStep
  <2>2. UNCHANGED <<paging, stamp, now, cursor>>
    BY <1>6 DEF PromoteStep, source_vars
  <2>3. CASE pc'[p] = "idle"
    <3>1. Forget(p)
      BY <1>6, <2>3 DEF PromoteStep
    <3>2. TypeOK'
      BY <2>1, <2>2, <3>1 DEF Forget
    <3>3. HandInv'
      BY <2>1, <2>2, <2>3, <3>1 DEF Forget
    <3> QED BY <3>2, <3>3
  <2>4. CASE pc'[p] # "idle"
    <3>1. UNCHANGED <<from, page, got>>
      BY <1>6, <2>4 DEF PromoteStep, fetch_vars
    <3>2. TypeOK'
      BY <2>1, <2>2, <3>1
    <3>3. HandInv'
      BY <2>1, <2>2, <2>4, <3>1
    <3> QED BY <3>2, <3>3
  <2> QED BY <2>3, <2>4
<1>7. ASSUME NEW p \in Process, Advance(p) PROVE TypeOK' /\ HandInv'
  <2>1. NewCursor(p) \in 0 .. now
    BY NewCursorIsGreatest
  <2> QED BY <1>7, <2>1 DEF Advance, Forget, source_vars
<1>8. ASSUME NEW p \in Process, FetchFault(p) PROVE TypeOK' /\ HandInv'
  <2>1. /\ faults < MaxFaults /\ faults' = faults + 1
        /\ file' = [file EXCEPT ![p] = NoFile] /\ pc' = [pc EXCEPT ![p] = "idle"]
        /\ locked' \in BOOLEAN
        /\ UNCHANGED <<sidecars, partial, watched, source_vars, cursor>>
        /\ Forget(p)
    BY <1>8 DEF FetchFault, Fail, Crash, EndProgram
  <2>2. faults' \in 0 .. MaxFaults
    BY <2>1, CompanionAssumption
  <2> QED BY <2>1, <2>2 DEF Forget, source_vars
<1>9. ASSUME NEW r \in Record, Write(r) PROVE TypeOK' /\ HandInv'
  <2>1. PICK t \in {now, now + 1} : /\ t > stamp[r] /\ t <= MaxTime
                                    /\ now' = t /\ stamp' = [stamp EXCEPT ![r] = t]
    BY <1>9 DEF Write
  <2>2. UNCHANGED <<companion_vars, paging, cursor, fetch_vars>>
    BY <1>9 DEF Write
  <2>3. now \in Nat /\ now' \in 0 .. MaxTime /\ now <= now'
    BY <2>1
  <2>4. stamp' \in [Record -> 0 .. now']
    BY <2>1, <2>3
  <2>5. TypeOK'
    BY <2>2, <2>3, <2>4 DEF companion_vars, fetch_vars
  <2>6. \A p \in Process : \A v \in got[p] : v[2] <= now'
    BY <2>3 DEF Version
  <2>7. HandInv'
    BY <2>2, <2>6 DEF companion_vars, fetch_vars
  <2> QED BY <2>5, <2>7
<1> QED
  <2> HIDE DEF TypeOK, HandInv
  <2> QED BY <1>1, <1>2, <1>3, <1>4, <1>5, <1>6, <1>7, <1>8, <1>9 DEF Next, FetchStep

LEMMA TypeInit == Init => TypeOK /\ HandInv
<1>1. 0 \in 0 .. MaxTime /\ 0 \in 0 .. MaxFaults
  BY FetchAssumption, CompanionAssumption
<1> SUFFICES ASSUME Init PROVE TypeOK /\ HandInv
  OBVIOUS
<1>2. CompanionTypeOK(Version)
  BY <1>1 DEF Init, CompanionInit, CompanionTypeOK, Promoting
<1>3. TypeOK
  <2>1. pc \in [Process -> PromotionPC \cup {"paging", "fetched"}]
    BY DEF Init, CompanionInit, PromotionPC
  <2>2. stamp \in [Record -> 0 .. now] /\ from \in [Process -> 0 .. now] /\ cursor \in 0 .. now
    BY DEF Init
  <2> QED BY <1>1, <1>2, <2>1, <2>2 DEF Init, TypeOK
<1>4. HandInv
  BY DEF Init, CompanionInit, HandInv, Staged, Promoting
<1> QED BY <1>3, <1>4

\* The variables have the shapes the code gives them.
THEOREM FetchTypes == Spec => []TypeOK
BY TypeInit, TypeStep, PTL DEF Spec

\* The Fetch Lock is a mutex: two Fetchers of one source never promote at once, as
\* long as they look at the lock; the lock that a killed Fetcher leaves keeps all
\* others out.
THEOREM PromotesAlone == Spec => []OnePromotes
<1>1. Init => PromotionInv
  BY DEF Init, CompanionInit, PromotionInv, OnePromotes, VisibleWithSidecar, Promoting
<1>2. TypeOK => PromotionTypes
  BY DEF TypeOK, CompanionTypeOK, PromotionTypes
<1>3. PromotionInv => OnePromotes
  BY DEF PromotionInv
<1> QED BY <1>1, <1>2, <1>3, PromotionStep, FetchTypes, PTL DEF Spec

\* No data file is visible in the Watched Directory without its sidecar, whole or
\* half copied, whatever fails or is killed during a promotion.
THEOREM NeverWithoutSidecar == Spec => []VisibleWithSidecar
<1>1. Init => PromotionInv
  BY DEF Init, CompanionInit, PromotionInv, OnePromotes, VisibleWithSidecar, Promoting
<1>2. TypeOK => PromotionTypes
  BY DEF TypeOK, CompanionTypeOK, PromotionTypes
<1>3. PromotionInv => VisibleWithSidecar
  BY DEF PromotionInv
<1> QED BY <1>1, <1>2, <1>3, PromotionStep, FetchTypes, PTL DEF Spec
-----------------------------------------------------------------------------
(***************************************************************************)
(* The order in which the API lists, and the pages it cuts.                *)
(***************************************************************************)
Stamped == stamp \in [Record -> Nat]

Position(S, r) == Cardinality({q \in S : Before(q, r)})

\* A list has one order.
LEMMA ListOrder ==
    ASSUME Stamped, NEW q \in Record, NEW r \in Record, NEW s \in Record
    PROVE  /\ ~Before(r, r)
           /\ Before(q, r) /\ Before(r, s) => Before(q, s)
           /\ q = r \/ Before(q, r) \/ Before(r, q)
BY FetchAssumption DEF Stamped, Before

\* What is listed before a record is counted.
LEMMA PositionCounts ==
    ASSUME NEW S \in SUBSET Record, NEW r
    PROVE  IsFiniteSet({q \in S : Before(q, r)}) /\ Position(S, r) \in Nat
<1>1. IsFiniteSet(S)
  BY FetchAssumption, FS_Subset
<1>2. IsFiniteSet({q \in S : Before(q, r)})
  BY <1>1, FS_Subset
<1> QED BY <1>2, FS_CardinalityType DEF Position

\* Positions go with the order.
LEMMA PositionOrders ==
    ASSUME Stamped, NEW S \in SUBSET Record, NEW q \in S, NEW r \in S, Before(q, r)
    PROVE  Position(S, q) < Position(S, r)
<1> DEFINE Q == {x \in S : Before(x, q)}
           R == {x \in S : Before(x, r)}
<1>1. IsFiniteSet(R) /\ Position(S, q) \in Nat /\ Position(S, r) \in Nat
  BY PositionCounts
<1>2. Q \subseteq R /\ q \in R /\ q \notin Q
  BY ListOrder
<1>3. Cardinality(Q) <= Cardinality(R) /\ (Cardinality(R) = Cardinality(Q) => R = Q)
  BY <1>1, <1>2, FS_Subset
<1> QED BY <1>1, <1>2, <1>3 DEF Position

LEMMA OnePerPosition ==
    ASSUME Stamped, NEW S \in SUBSET Record, NEW q \in S, NEW r \in S
    PROVE  /\ Position(S, q) = Position(S, r) => q = r
           /\ Position(S, q) < Position(S, r) => Before(q, r)
<1>1. Position(S, q) \in Nat /\ Position(S, r) \in Nat
  BY PositionCounts
<1>2. q = r \/ Before(q, r) \/ Before(r, q)
  BY ListOrder
<1>3. /\ Before(q, r) => Position(S, q) < Position(S, r)
      /\ Before(r, q) => Position(S, r) < Position(S, q)
  BY PositionOrders
<1> QED BY <1>1, <1>2, <1>3

\* The record before another one has the position before it...
LEMMA PositionBefore ==
    ASSUME Stamped, NEW S \in SUBSET Record, NEW r \in S, Position(S, r) > 0
    PROVE  \E q \in S : Position(S, q) = Position(S, r) - 1
<1> DEFINE R == {x \in S : Before(x, r)}
           P == {Position(S, x) : x \in R}
<1>1. IsFiniteSet(R) /\ Position(S, r) \in Nat /\ R # {}
  BY PositionCounts, FS_EmptySet DEF Position
<1>2. \A x \in R : Position(S, x) \in Nat /\ Position(S, x) <= Position(S, r)
  <2> TAKE x \in R
  <2>1. Position(S, x) \in Nat /\ Position(S, x) < Position(S, r)
    BY PositionCounts, PositionOrders
  <2> QED BY <1>1, <2>1
<1>3. P \in SUBSET Nat /\ P # {} /\ \A m \in P : m <= Position(S, r)
  BY <1>1, <1>2
<1>4. PICK n \in P : \A m \in P : m <= n
  <2> HIDE DEF P
  <2> QED BY <1>1, <1>3, GreatestNatural
<1>5. PICK q \in R : Position(S, q) = n
  BY <1>4
<1>6. \A x \in R : x = q \/ Before(x, q)
  <2> TAKE x \in R
  <2>1. Position(S, x) <= Position(S, q)
    BY <1>4, <1>5
  <2>2. x = q \/ Before(x, q) \/ Before(q, x)
    BY ListOrder
  <2>3. Before(q, x) => Position(S, q) < Position(S, x)
    BY PositionOrders
  <2> QED BY <1>2, <2>1, <2>2, <2>3
<1>7. R \ {q} = {x \in S : Before(x, q)}
  <2>1. \A x \in S : Before(x, q) => Before(x, r) /\ x # q
    BY ListOrder
  <2> QED BY <1>6, <2>1
<1>8. Cardinality(R \ {q}) = Cardinality(R) - 1
  BY <1>1, <1>5, FS_RemoveElement
<1> QED BY <1>5, <1>7, <1>8 DEF Position

\* ... so that no position below that of a record is empty.
LEMMA PositionsFill ==
    ASSUME Stamped, NEW S \in SUBSET Record, NEW r \in S, NEW i \in Nat, i <= Position(S, r)
    PROVE  \E q \in S : Position(S, q) = i
<1> DEFINE T == {m \in Nat : m >= i /\ \E q \in S : Position(S, q) = m}
<1>1. T \in SUBSET Nat /\ T # {}
  BY PositionCounts
<1>2. PICK m \in T : \A k \in T : m <= k
  <2> HIDE DEF T
  <2> QED BY <1>1, LeastNatural
<1>3. PICK q \in S : Position(S, q) = m
  BY <1>2
<1>4. CASE m > i
  <2>1. PICK x \in S : Position(S, x) = m - 1
    BY <1>2, <1>3, <1>4, PositionBefore
  <2>2. m - 1 \in T
    BY <1>2, <1>4, <2>1
  <2> QED BY <1>2, <2>2
<1> QED BY <1>2, <1>3, <1>4

\* A page after which more is listed is full, and a full page ends with the record
\* of its last position.
LEMMA FullPage ==
    ASSUME Stamped, NEW S \in SUBSET Record, NEW lo \in Nat, NEW n \in Nat \ {0}
    PROVE  /\ (\E r \in S : Position(S, r) >= lo + n) => Cardinality(Slice(S, lo, lo + n)) >= n
           /\ Cardinality(Slice(S, lo, lo + n)) >= n =>
                  \E r \in S : Position(S, r) = lo + n - 1
<1> DEFINE I == lo .. lo + n - 1
           Page == Slice(S, lo, lo + n)
<1>1. IsFiniteSet(S)
  BY FetchAssumption, FS_Subset
<1>2. IsFiniteSet(I) /\ Cardinality(I) = n
  BY FS_Interval
<1>3. Page = {r \in S : Position(S, r) \in I}
  BY DEF Slice, Position
<1>4. IsFiniteSet(Page) /\ Cardinality(Page) \in Nat
  BY <1>1, <1>3, FS_Subset, FS_CardinalityType
<1>5. ASSUME NEW r \in S, Position(S, r) >= lo + n
      PROVE  Cardinality(Page) >= n
  <2> DEFINE f == [i \in I |-> CHOOSE q \in S : Position(S, q) = i]
  <2>1. \A i \in I : \E q \in S : Position(S, q) = i
    BY <1>5, PositionsFill, PositionCounts
  <2>2. \A i \in I : f[i] \in S /\ Position(S, f[i]) = i
    BY <2>1
  <2>3. f \in Injection(I, Page)
    <3>1. f \in [I -> Page]
      BY <1>3, <2>2
    <3>2. \A i, j \in I : f[i] = f[j] => i = j
      BY <2>2
    <3> HIDE DEF f
    <3> QED BY <3>1, <3>2 DEF Injection, IsInjective
  <2> HIDE DEF f, I, Page
  <2> QED BY <1>2, <1>4, <2>3, FS_Injection
<1>6. ASSUME Cardinality(Page) >= n
      PROVE  \E r \in S : Position(S, r) = lo + n - 1
  <2> DEFINE g == [r \in Page |-> Position(S, r)]
  <2>1. g \in Injection(Page, I)
    <3>1. g \in [Page -> I] /\ \A r \in Page : g[r] = Position(S, r)
      BY <1>3
    <3>2. \A q, r \in Page : g[q] = g[r] => q = r
      BY <1>3, <3>1, OnePerPosition
    <3> HIDE DEF g
    <3> QED BY <3>1, <3>2 DEF Injection, IsInjective
  <2>2. Cardinality(Page) <= Cardinality(I)
    <3> HIDE DEF g, I, Page
    <3> QED BY <1>2, <2>1, FS_Injection
  <2>3. g \in Surjection(Page, I)
    <3> HIDE DEF g, I, Page
    <3> QED BY <1>2, <1>4, <1>6, <2>1, <2>2, FS_Injection
  <2>4. PICK r \in Page : g[r] = lo + n - 1
    <3> HIDE DEF g
    <3> QED BY <2>3 DEF Surjection
  <2> QED BY <1>3, <2>4
<1> QED BY <1>5, <1>6
-----------------------------------------------------------------------------
(***************************************************************************)
(* Nothing is skipped.                                                     *)
(***************************************************************************)

\* What is known of the API: no two records share a stamp, and it lists newest
\* first or never updates a record.
Ordered == ~Ties /\ (NewestFirst \/ ~Mutable)

Passed(c) == \A r \in Record : stamp[r] \in 1 .. c => <<r, stamp[r]>> \in Landed

\* Everything up to the cursor has landed, and up to where each Fetcher started from.
PassedInv ==
    /\ \A q, r \in Record : stamp[q] = stamp[r] /\ stamp[q] > 0 => q = r
    /\ Passed(cursor)
    /\ \A p \in Process : Passed(from[p])

IsFetched(p, r) == <<r, stamp[r]>> \in got[p]

Ahead(p, r) == \A v \in got[p] : v[2] < stamp[r]

StillListed(p, r) == IF paging = "number" THEN Position(Newer(p), r) >= page[p] * PageSize
                                          ELSE r \in Rest(p)

\* A record that is newer than where a Fetcher started is fetched, or is newer than
\* all it fetched, or is on a page that it has not asked for: what is written while
\* it pages moves the others back, never forth.
PagedFor(p) ==
    /\ paging = "after" => \A v \in got[p] : stamp[v[1]] = v[2]
    /\ pc[p] = "paging" =>
          \A r \in Newer(p) : \/ IsFetched(p, r)
                              \/ NewestFirst /\ Ahead(p, r)
                              \/ StillListed(p, r)
    /\ pc[p] = "paging" /\ ~NewestFirst => Cardinality(Newer(p)) >= page[p] * PageSize
    /\ pc[p] \in {"fetched"} \cup Staged => \A r \in Newer(p) : IsFetched(p, r) \/ Ahead(p, r)

PagedInv == \A p \in Process : PagedFor(p)

LEMMA TypesOfStamps ==
    ASSUME TypeOK
    PROVE  /\ Stamped /\ now \in Nat /\ now \in 0 .. MaxTime
           /\ \A r \in Record : stamp[r] \in Nat /\ stamp[r] <= now
           /\ \A p \in Process : from[p] \in Nat /\ page[p] \in Nat /\ from[p] <= now
           /\ cursor \in Nat /\ cursor <= now
           /\ paging \in {"number", "after"}
BY FetchAssumption DEF TypeOK, Stamped

\* A step of one Fetcher is nothing to the others.
LEMMA PagedStays ==
    ASSUME PagedInv, UNCHANGED <<stamp, paging>>, NEW q \in Process,
           pc'[q] = pc[q], got'[q] = got[q], from'[q] = from[q], page'[q] = page[q]
    PROVE  PagedFor(q)'
<1>1. Newer(q)' = Newer(q)
  BY DEF Newer
<1>2. Rest(q)' = Rest(q)
  BY <1>1 DEF Rest, Before
<1>3. \A r : Position(Newer(q), r)' = Position(Newer(q), r)
  BY <1>1 DEF Position, Before
<1>4. \A r : StillListed(q, r)' = StillListed(q, r)
  BY <1>2, <1>3 DEF StillListed
<1>5. PagedFor(q)
  BY DEF PagedInv
<1> QED BY <1>1, <1>4, <1>5 DEF PagedFor, IsFetched, Ahead

\* What is written moves no other record to an earlier place.
LEMMA WriteMovesBack ==
    ASSUME Ordered, TypeOK, HandInv, PagedInv, NEW w \in Record, Write(w), NEW p \in Process
    PROVE  PagedFor(p)'
<1> USE FetchAssumption DEF Ordered
<1>0. PagedFor(p)
  BY DEF PagedInv
<1>1. /\ stamp' = [stamp EXCEPT ![w] = now + 1]
      /\ stamp[w] = 0 \/ (Mutable /\ paging = "number")
      /\ UNCHANGED <<paging, pc, file, from, page, got>>
  <2>1. PICK t \in {now, now + 1} : /\ t > stamp[w] /\ t <= MaxTime
                                    /\ ~Ties => t = now + 1
                                    /\ now' = t
                                    /\ stamp' = [stamp EXCEPT ![w] = t]
    BY DEF Write
  <2>2. t = now + 1
    BY <2>1
  <2>3. stamp[w] = 0 \/ (Mutable /\ paging = "number")
    BY DEF Write
  <2>4. UNCHANGED <<paging, pc, file, from, page, got>>
    BY DEF Write, companion_vars, fetch_vars
  <2> QED BY <2>1, <2>2, <2>3, <2>4
<1>2. /\ stamp \in [Record -> Nat] /\ now \in Nat /\ from[p] \in Nat /\ from[p] <= now
      /\ \A r \in Record : stamp[r] <= now
      /\ page[p] \in Nat /\ paging \in {"number", "after"}
  BY TypesOfStamps DEF Stamped
<1>3. stamp'[w] = now + 1 /\ \A r \in Record \ {w} : stamp'[r] = stamp[r]
  BY <1>1, <1>2
<1>4. \A v \in got[p] : v[1] \in Record /\ v[2] \in 1 .. MaxTime /\ v[2] <= now
  BY DEF TypeOK, HandInv, Version
<1>5. Ahead(p, w)'
  BY <1>1, <1>2, <1>3, <1>4 DEF Ahead
<1>6. Newer(p)' = Newer(p) \cup {w}
  BY <1>1, <1>2, <1>3 DEF Newer
<1>7. ASSUME NEW r \in Record \ {w}
      PROVE  (IsFetched(p, r) => IsFetched(p, r)') /\ (Ahead(p, r) => Ahead(p, r)')
  BY <1>1, <1>3, <1>7 DEF IsFetched, Ahead
<1>8. paging = "after" => \A v \in got[p] : v[1] # w /\ stamp'[v[1]] = v[2]
  BY <1>0, <1>1, <1>3, <1>4 DEF PagedFor
<1>9. ASSUME NEW r \in Newer(p), r # w, StillListed(p, r)
      PROVE  StillListed(p, r)'
  <2>1. r \in Record
    BY DEF Newer
  <2>2. CASE paging = "after"
    <3>1. \A v \in got[p] : Before(v[1], r)' <=> Before(v[1], r)
      BY <1>3, <1>4, <1>8, <1>9, <2>1, <2>2 DEF Before
    <3> QED BY <1>1, <1>6, <1>9, <2>2, <3>1 DEF StillListed, Rest
  <2>3. CASE paging = "number"
    <3> DEFINE Old == {q \in Newer(p) : Before(q, r)}
               New == {q \in Newer(p)' : Before(q, r)'}
    <3>1. \A q \in Record \ {w} : Before(q, r)' <=> Before(q, r)
      BY <1>3, <1>9, <2>1 DEF Before
    <3>2. w \in Newer(p) => Before(w, r)'
      <4>1. w \in Newer(p) => stamp[w] > 0
        BY <1>2 DEF Newer
      <4>2. w \in Newer(p) => NewestFirst
        BY <1>1, <4>1
      <4>3. stamp'[w] > stamp'[r] /\ stamp'[w] # stamp'[r]
        <5>1. stamp'[r] = stamp[r] /\ stamp[r] \in Nat /\ stamp[r] <= now
          BY <1>2, <1>3, <1>9, <2>1
        <5> QED BY <1>2, <1>3, <5>1
      <4> QED BY <4>2, <4>3 DEF Before
    <3>3. Old \subseteq New
      BY <1>6, <3>1, <3>2 DEF Newer
    <3>4. IsFiniteSet(New)
      <4>1. New \subseteq Record
        BY DEF Newer
      <4> QED BY <4>1, FS_Subset
    <3>5. Cardinality(Old) <= Cardinality(New) /\ Cardinality(Old) \in Nat
          /\ Cardinality(New) \in Nat
      BY <3>3, <3>4, FS_Subset, FS_CardinalityType
    <3>6. Position(Newer(p), r) = Cardinality(Old) /\ Position(Newer(p), r)' = Cardinality(New)
      BY DEF Position
    <3> HIDE DEF Old, New
    <3> QED BY <1>1, <1>2, <1>9, <2>3, <3>5, <3>6 DEF StillListed
  <2> QED BY <1>2, <2>2, <2>3
\* Where the oldest comes first, the record is new and comes last.
<1>10. ASSUME ~NewestFirst, pc[p] = "paging"
       PROVE  StillListed(p, w)' /\ Cardinality(Newer(p)') >= page'[p] * PageSize
  <2>1. stamp[w] = 0 /\ w \notin Newer(p)
    BY <1>1, <1>2, <1>10 DEF Newer
  <2>2. paging = "number"
    BY <1>2, <1>10 DEF TypeOK
  <2>3. \A q \in Newer(p) : Before(q, w)'
    BY <1>2, <1>3, <1>10, <2>1 DEF Before, Newer
  <2> DEFINE New == {q \in Newer(p)' : Before(q, w)'}
  <2>4. Newer(p) \subseteq New /\ New \subseteq Newer(p)' /\ Newer(p)' \subseteq Record
    BY <1>6, <2>3 DEF Newer
  <2>5. IsFiniteSet(Newer(p)') /\ IsFiniteSet(New)
    BY <2>4, FS_Subset
  <2>6. /\ Cardinality(Newer(p)) <= Cardinality(New)
        /\ Cardinality(New) <= Cardinality(Newer(p)')
        /\ Cardinality(New) \in Nat /\ Cardinality(Newer(p)') \in Nat
        /\ Cardinality(Newer(p)) \in Nat
    BY <2>4, <2>5, FS_Subset, FS_CardinalityType
  <2>7. Position(Newer(p), w)' = Cardinality(New)
    BY DEF Position
  <2>8. Cardinality(Newer(p)) >= page[p] * PageSize /\ page[p] * PageSize \in Nat
    BY <1>0, <1>2, <1>10 DEF PagedFor
  <2> HIDE DEF New
  <2>9. Cardinality(New) >= page[p] * PageSize /\ Cardinality(Newer(p)') >= page[p] * PageSize
    BY <2>6, <2>8
  <2> QED BY <1>1, <2>2, <2>7, <2>9 DEF StillListed
<1>11. pc[p] = "paging" => \A r \in Newer(p)' : \/ IsFetched(p, r)'
                                                \/ NewestFirst /\ Ahead(p, r)'
                                                \/ StillListed(p, r)'
  <2> SUFFICES ASSUME pc[p] = "paging", NEW r \in Newer(p)', r # w
               PROVE  IsFetched(p, r)' \/ (NewestFirst /\ Ahead(p, r)') \/ StillListed(p, r)'
    BY <1>5, <1>10
  <2>1. r \in Newer(p) /\ r \in Record \ {w}
    BY <1>6 DEF Newer
  <2>2. IsFetched(p, r) \/ (NewestFirst /\ Ahead(p, r)) \/ StillListed(p, r)
    BY <1>0, <2>1 DEF PagedFor
  <2>3. CASE IsFetched(p, r)
    BY <1>7, <2>1, <2>3
  <2>4. CASE NewestFirst /\ Ahead(p, r)
    BY <1>7, <2>1, <2>4
  <2>5. CASE StillListed(p, r)
    BY <1>9, <2>1, <2>5
  <2> QED BY <2>2, <2>3, <2>4, <2>5
<1>12. pc[p] \in {"fetched"} \cup Staged => \A r \in Newer(p)' : IsFetched(p, r)' \/ Ahead(p, r)'
  <2> SUFFICES ASSUME pc[p] \in {"fetched"} \cup Staged, NEW r \in Newer(p)', r # w
               PROVE  IsFetched(p, r)' \/ Ahead(p, r)'
    BY <1>5
  <2>1. r \in Newer(p) /\ r \in Record \ {w}
    BY <1>6 DEF Newer
  <2> QED BY <1>0, <1>7, <2>1 DEF PagedFor
<1> QED BY <1>1, <1>8, <1>10, <1>11, <1>12 DEF PagedFor
\* A page takes what is listed next, and leaves nothing listed when it is the last.
LEMMA PageTakesNext ==
    ASSUME Ordered, TypeOK, HandInv, PassedInv, PagedInv, NEW p \in Process, GetPage(p)
    PROVE  PagedFor(p)'
<1> USE FetchAssumption DEF Ordered
<1>0. PagedFor(p)
  BY DEF PagedInv
<1> DEFINE Page == {<<r, stamp[r]>> : r \in NextPage(p)}
<1>1. /\ pc[p] = "paging" /\ got' = [got EXCEPT ![p] = got[p] \cup Page]
      /\ UNCHANGED <<stamp, paging, from>>
      /\ IF LastPage(p) THEN pc' = [pc EXCEPT ![p] = "fetched"]
                        ELSE page' = [page EXCEPT ![p] = page[p] + 1] /\ UNCHANGED pc
  BY DEF GetPage, GoTo, source_vars
<1>2. /\ Stamped /\ now \in Nat /\ from[p] \in Nat /\ page[p] \in Nat
      /\ paging \in {"number", "after"}
      /\ \A r \in Record : stamp[r] \in Nat
  BY TypesOfStamps
<1>3. \A r \in Newer(p) : r \in Record /\ stamp[r] > 0
  <2> TAKE r \in Newer(p)
  <2>1. r \in Record /\ stamp[r] \in 1 .. now
    BY PageIsStamped
  <2> QED BY <1>2, <2>1
<1>4. NextPage(p) \subseteq Newer(p) /\ Newer(p) \in SUBSET Record
  BY <1>3, PageIsStamped
<1>5. got'[p] = got[p] \cup Page /\ Newer(p)' = Newer(p)
  BY <1>1 DEF TypeOK, Newer
<1>6. \A r \in NextPage(p) : IsFetched(p, r)'
  BY <1>1, <1>5 DEF IsFetched
<1>7. \A r : IsFetched(p, r) => IsFetched(p, r)'
  BY <1>1, <1>5 DEF IsFetched
<1>8. \A v \in got[p] : v[1] \in Record /\ v[2] \in Nat
  BY DEF TypeOK, Version
<1>9. ASSUME NEW r \in Newer(p), Ahead(p, r), \A s \in NextPage(p) : stamp[s] < stamp[r]
      PROVE  Ahead(p, r)'
  BY <1>1, <1>5, <1>9 DEF Ahead
\* Pages by number.
<1>10. CASE paging = "number"
  <2> DEFINE k == page[p]
             lo == k * PageSize
             Pos(r) == Position(Newer(p), r)
  <2>1. lo \in Nat /\ PageSize \in Nat \ {0} /\ (k + 1) * PageSize = lo + PageSize
    BY <1>2
  <2>2. /\ NextPage(p) = Slice(Newer(p), lo, lo + PageSize)
        /\ NextPage(p) = {r \in Newer(p) : Pos(r) \in lo .. (lo + PageSize) - 1}
    <3>1. NextPage(p) = Slice(Newer(p), lo, lo + PageSize)
      BY <1>10, <2>1 DEF NextPage
    <3>2. Slice(Newer(p), lo, lo + PageSize) =
              {r \in Newer(p) : Pos(r) \in lo .. (lo + PageSize) - 1}
      BY DEF Slice, Position
    <3> QED BY <3>1, <3>2
  <2>3. \A r \in Newer(p) : Pos(r) \in Nat
    BY <1>4, PositionCounts
  <2> HIDE DEF lo
  <2>4. NextPage(p) = {r \in Newer(p) : Pos(r) \in lo .. (lo + PageSize) - 1}
    BY <2>2
  <2>5. \A r \in Newer(p) : Pos(r)' = Pos(r)
    BY <1>1, <1>5 DEF Position, Before
  <2> HIDE DEF Pos
  <2>6. ASSUME NEW r \in Newer(p), Pos(r) < lo + PageSize
        PROVE  IsFetched(p, r)' \/ (NewestFirst /\ Ahead(p, r)')
    <3>1. CASE Pos(r) >= lo
      BY <1>6, <2>1, <2>3, <2>4, <2>6, <3>1
    <3>2. CASE Pos(r) < lo
      <4>1. IsFetched(p, r) \/ (NewestFirst /\ Ahead(p, r))
        BY <1>0, <1>1, <1>10, <2>1, <2>3, <3>2 DEF PagedFor, StillListed, lo, Pos
      <4>2. ASSUME NewestFirst, NEW s \in NextPage(p)
            PROVE  stamp[s] < stamp[r]
        <5>1. s \in Newer(p) /\ Pos(r) < Pos(s)
          BY <2>1, <2>3, <2>4, <3>2
        <5>2. Before(r, s)
          BY <1>2, <1>4, <5>1, OnePerPosition DEF Pos
        <5>3. stamp[r] # stamp[s]
          <6>1. r # s
            BY <2>3, <5>1
          <6>2. r \in Record /\ s \in Record /\ stamp[r] > 0
            BY <1>3, <5>1
          <6> QED BY <6>1, <6>2 DEF PassedInv
        <5> QED BY <1>2, <1>3, <4>2, <5>1, <5>2, <5>3 DEF Before
      <4> QED BY <1>7, <1>9, <4>1, <4>2
    <3> QED BY <2>1, <2>3, <3>1, <3>2
  <2>7. CASE LastPage(p)
    <3>1. ~(Cardinality(Slice(Newer(p), lo, lo + PageSize)) >= PageSize)
      <4>1. NextPage(p) \subseteq Record
        BY <1>4
      <4>2. Cardinality(NextPage(p)) \in Nat
        BY <4>1, FS_Subset, FS_CardinalityType
      <4> QED BY <1>10, <2>2, <2>7, <4>2 DEF LastPage
    <3>2. \A r \in Newer(p) : ~(Position(Newer(p), r) >= lo + PageSize)
      BY <1>2, <1>4, <2>1, <3>1, FullPage
    <3>3. \A r \in Newer(p) : Pos(r) < lo + PageSize
      BY <2>1, <2>3, <3>2 DEF Pos
    <3>4. pc'[p] = "fetched" /\ paging' # "after"
      BY <1>1, <1>10, <2>7 DEF TypeOK
    <3> QED BY <1>5, <2>6, <3>3, <3>4 DEF PagedFor
  <2>8. CASE ~LastPage(p)
    <3>1. pc'[p] = "paging" /\ paging' = "number" /\ page'[p] * PageSize = lo + PageSize
      BY <1>1, <1>10, <2>1, <2>8 DEF TypeOK
    <3>2. \A r \in Newer(p) : \/ IsFetched(p, r)'
                              \/ NewestFirst /\ Ahead(p, r)'
                              \/ StillListed(p, r)'
      <4> TAKE r \in Newer(p)
      <4>1. CASE Pos(r) < lo + PageSize
        BY <2>6, <4>1
      <4>2. CASE Pos(r) >= lo + PageSize
        BY <2>5, <3>1, <4>2 DEF StillListed, Pos
      <4> QED BY <2>1, <2>3, <4>1, <4>2
    <3>3. Cardinality(Newer(p)) >= lo + PageSize
      <4>1. Cardinality(NextPage(p)) >= PageSize
        <5>1. NextPage(p) \subseteq Record
          BY <1>4
        <5>2. Cardinality(NextPage(p)) \in Nat
          BY <5>1, FS_Subset, FS_CardinalityType
        <5> QED BY <1>10, <2>8, <5>2 DEF LastPage
      <4>2. PICK r \in Newer(p) : Position(Newer(p), r) = lo + PageSize - 1
        BY <1>2, <1>4, <2>1, <2>2, <4>1, FullPage
      <4> DEFINE R == {q \in Newer(p) : Before(q, r)}
      <4>3. IsFiniteSet(R) /\ Cardinality(R) = lo + PageSize - 1 /\ r \notin R
        BY <1>2, <1>4, <4>2, PositionCounts, ListOrder DEF Position
      <4>4. IsFiniteSet(Newer(p)) /\ R \cup {r} \subseteq Newer(p)
        BY <1>4, FS_Subset
      <4> HIDE DEF R
      <4>5. Cardinality(R \cup {r}) = lo + PageSize
        <5>1. Cardinality(R \cup {r}) = Cardinality(R) + 1
          BY <4>3, FS_AddElement
        <5> QED BY <2>1, <4>3, <5>1
      <4>6. Cardinality(R \cup {r}) <= Cardinality(Newer(p))
        BY <4>4, FS_Subset
      <4>7. Cardinality(Newer(p)) \in Nat
        BY <4>4, FS_CardinalityType
      <4> QED BY <2>1, <4>5, <4>6, <4>7
    <3> QED BY <1>5, <3>1, <3>2, <3>3 DEF PagedFor, Staged, Promoting
  <2> QED BY <2>7, <2>8
\* Pages after the last record.
<1>11. CASE paging = "after"
  <2> DEFINE Pos(r) == Position(Rest(p), r)
  <2>1. NewestFirst
    BY <1>11 DEF TypeOK
  <2>2. Rest(p) \in SUBSET Record /\ Rest(p) \subseteq Newer(p)
    BY <1>4 DEF Rest
  <2>3. NextPage(p) = {r \in Rest(p) : Pos(r) \in 0 .. PageSize - 1}
    BY <1>11 DEF NextPage, Slice, Position
  <2>4. \A r \in Rest(p) : Pos(r) \in Nat
    BY <2>2, PositionCounts
  <2>5. \A v \in got'[p] : stamp'[v[1]] = v[2]
    BY <1>0, <1>1, <1>5, <1>11 DEF PagedFor
  <2> HIDE DEF Pos
  \* What is listed and not on this page comes after all of it.
  <2>6. ASSUME NEW r \in Rest(p), r \notin NextPage(p)
        PROVE  r \in Rest(p)'
    <3>1. ASSUME NEW s \in NextPage(p) PROVE Before(s, r)
      <4>1. s \in Rest(p) /\ Pos(s) < Pos(r)
        BY <2>3, <2>4, <2>6
      <4> QED BY <1>2, <2>2, <4>1, OnePerPosition DEF Pos
    <3>2. \A v \in got'[p] : Before(v[1], r)
      BY <1>5, <2>6, <3>1 DEF Rest
    <3> QED BY <1>1, <1>5, <2>2, <2>6, <3>2 DEF Rest, Before
  <2>7. ASSUME NEW r \in Newer(p)
        PROVE  IsFetched(p, r)' \/ Ahead(p, r)' \/ r \in Rest(p) \ NextPage(p)
    <3>1. CASE IsFetched(p, r) \/ r \in NextPage(p)
      BY <1>6, <1>7, <3>1
    <3>2. CASE got[p] = {}
      BY <1>6, <2>7, <3>2 DEF Rest
    <3>3. CASE got[p] # {} /\ Ahead(p, r)
      <4>1. PICK v \in got[p] : TRUE
        BY <3>3
      <4>2. v[2] < stamp[r] /\ stamp[v[1]] = v[2] /\ v[1] \in Record
        BY <1>0, <1>8, <1>11, <3>3 DEF Ahead, PagedFor
      <4>3. ASSUME NEW s \in NextPage(p) PROVE stamp[s] < stamp[r]
        <5>1. s \in Record /\ Before(v[1], s)
          BY <2>2, <2>3 DEF Rest
        <5>2. stamp[s] <= stamp[v[1]]
          <6>1. stamp[s] \in Nat /\ stamp[v[1]] \in Nat
            BY <1>2, <4>2, <5>1
          <6> QED BY <2>1, <5>1, <6>1 DEF Before
        <5> QED BY <1>2, <1>3, <4>2, <5>1, <5>2
      <4> QED BY <1>9, <3>3, <4>3
    <3>4. CASE r \in Rest(p)
      BY <1>6, <3>4
    <3> QED BY <1>0, <1>1, <1>11, <2>7, <3>1, <3>2, <3>3, <3>4 DEF PagedFor, StillListed
  <2>8. CASE LastPage(p)
    <3>1. NextPage(p) = Rest(p) /\ pc'[p] = "fetched" /\ paging' = paging
      BY <1>1, <1>11, <2>8 DEF LastPage, TypeOK
    <3> QED BY <1>5, <2>5, <2>7, <3>1 DEF PagedFor
  <2>9. CASE ~LastPage(p)
    <3>1. pc'[p] = "paging" /\ paging' = "after"
      BY <1>1, <1>11, <2>9 DEF TypeOK
    <3>2. \A r \in Newer(p) : IsFetched(p, r)' \/ Ahead(p, r)' \/ StillListed(p, r)'
      BY <2>6, <2>7, <3>1 DEF StillListed
    <3> QED BY <1>5, <2>1, <2>5, <3>1, <3>2 DEF PagedFor, Staged, Promoting
  <2> QED BY <2>8, <2>9
<1> QED BY <1>2, <1>10, <1>11
\* From the last page on a Fetcher keeps what it knows, until it starts again.
LEMMA PagedEnds ==
    ASSUME PagedInv, UNCHANGED <<stamp, paging>>, NEW p \in Process,
           \/ pc'[p] = "idle" /\ got'[p] \subseteq got[p]
           \/ /\ pc[p] \in {"fetched"} \cup Staged /\ pc'[p] \in Staged
              /\ got'[p] = got[p] /\ from'[p] = from[p]
    PROVE  PagedFor(p)'
<1>0. PagedFor(p)
  BY DEF PagedInv
<1>1. CASE pc'[p] = "idle" /\ got'[p] \subseteq got[p]
  BY <1>0, <1>1 DEF PagedFor, Staged, Promoting
<1>2. CASE /\ pc[p] \in {"fetched"} \cup Staged /\ pc'[p] \in Staged
           /\ got'[p] = got[p] /\ from'[p] = from[p]
  <2>1. Newer(p)' = Newer(p) /\ pc'[p] # "paging"
    BY <1>2 DEF Newer, Staged, Promoting
  <2>2. \A r : (IsFetched(p, r) => IsFetched(p, r)') /\ (Ahead(p, r) => Ahead(p, r)')
    BY <1>2 DEF IsFetched, Ahead
  <2>3. \A r \in Newer(p)' : IsFetched(p, r)' \/ Ahead(p, r)'
    <3> TAKE r \in Newer(p)'
    <3>1. IsFetched(p, r) \/ Ahead(p, r)
      BY <1>0, <1>2, <2>1 DEF PagedFor
    <3> QED BY <2>2, <3>1
  <2>4. paging' = "after" => \A v \in got'[p] : stamp'[v[1]] = v[2]
    BY <1>0, <1>2 DEF PagedFor
  <2> QED BY <2>1, <2>3, <2>4 DEF PagedFor
<1> QED BY <1>1, <1>2

\* When a Fetcher starts, all that is newer is listed.
LEMMA PagingStarts ==
    ASSUME TypeOK, HandInv, NEW p \in Process, ReadCursor(p)
    PROVE  PagedFor(p)'
<1>1. /\ pc'[p] = "paging" /\ got'[p] = {} /\ page'[p] = 0 /\ paging' \in {"number", "after"}
      /\ Newer(p)' \in SUBSET Record
  <2>1. UNCHANGED <<paging, got, page>> /\ pc[p] = "idle" /\ pc' = [pc EXCEPT ![p] = "paging"]
    BY DEF ReadCursor, source_vars, GoTo
  <2>2. got[p] = {} /\ page[p] = 0
    BY <2>1 DEF HandInv
  <2> QED BY <2>1, <2>2, TypesOfStamps DEF TypeOK, Newer
<1>2. page'[p] * PageSize = 0
  BY <1>1, FetchAssumption
<1>3. \A r \in Newer(p)' : StillListed(p, r)'
  <2> TAKE r \in Newer(p)'
  <2>1. Position(Newer(p), r)' \in Nat
    <3> DEFINE R == {q \in Newer(p)' : Before(q, r)'}
    <3>1. IsFiniteSet(R)
      BY <1>1, FetchAssumption, FS_Subset
    <3>2. Position(Newer(p), r)' = Cardinality(R)
      BY DEF Position
    <3> QED BY <3>1, <3>2, FS_CardinalityType
  <2> QED BY <1>1, <1>2, <2>1 DEF StillListed, Rest
<1>4. Cardinality(Newer(p)') >= page'[p] * PageSize
  <2>1. Cardinality(Newer(p)') \in Nat
    BY <1>1, FetchAssumption, FS_Subset, FS_CardinalityType
  <2> QED BY <1>2, <2>1
<1> QED BY <1>1, <1>3, <1>4 DEF PagedFor, Staged, Promoting

LEMMA PagedStep ==
    ASSUME Ordered, TypeOK, HandInv, PassedInv, PagedInv, [Next]_vars
    PROVE  PagedInv'
<1> USE DEF GoTo, source_vars, fetch_vars
<1>0. pc \in [Process -> PromotionPC \cup {"paging", "fetched"}] /\ got \in [Process -> SUBSET Version]
      /\ from \in [Process -> 0 .. now] /\ page \in [Process -> Nat]
  BY DEF TypeOK
<1>1. CASE UNCHANGED vars
  <2> SUFFICES ASSUME NEW p \in Process PROVE PagedFor(p)'
    BY DEF PagedInv
  <2>1. /\ UNCHANGED <<stamp, paging>>
        /\ pc'[p] = pc[p] /\ got'[p] = got[p] /\ from'[p] = from[p] /\ page'[p] = page[p]
    BY <1>1 DEF vars, companion_vars
  <2> QED BY <2>1, PagedStays
<1>2. ASSUME NEW p \in Process, FetchStep(p) \/ FetchFault(p), PagedFor(p)'
      PROVE  PagedInv'
  <2>1. ASSUME NEW q \in Process \ {p}
        PROVE  /\ UNCHANGED <<stamp, paging>>
               /\ pc'[q] = pc[q] /\ got'[q] = got[q]
               /\ from'[q] = from[q] /\ page'[q] = page[q]
    <3>1. CASE ReadCursor(p)
      BY <1>0, <3>1 DEF ReadCursor
    <3>2. CASE GetPage(p)
      BY <1>0, <3>2 DEF GetPage
    <3>3. CASE FindNothingNew(p)
      BY <1>0, <3>3 DEF FindNothingNew
    <3>4. CASE Stage(p)
      BY <1>0, <3>4 DEF Stage, StageFile
    <3>5. CASE PromoteStep(p)
      BY <1>0, <3>5, PromoteTypes DEF PromoteStep, Forget
    <3>6. CASE Advance(p)
      BY <1>0, <3>6 DEF Advance, Forget
    <3>7. CASE FetchFault(p)
      BY <1>0, <3>7 DEF FetchFault, Fail, Crash, EndProgram, Forget
    <3> QED BY <1>2, <3>1, <3>2, <3>3, <3>4, <3>5, <3>6, <3>7 DEF FetchStep
  <2>2. \A q \in Process \ {p} : PagedFor(q)'
    BY <2>1, PagedStays
  <2> QED BY <1>2, <2>2 DEF PagedInv
<1>3. ASSUME NEW p \in Process, ReadCursor(p) PROVE PagedFor(p)'
  BY <1>3, PagingStarts
<1>4. ASSUME NEW p \in Process, GetPage(p) PROVE PagedFor(p)'
  BY <1>4, PageTakesNext
<1>5. ASSUME NEW p \in Process, FindNothingNew(p) PROVE PagedFor(p)'
  BY <1>0, <1>5, PagedEnds DEF FindNothingNew
<1>6. ASSUME NEW p \in Process, Stage(p) PROVE PagedFor(p)'
  BY <1>0, <1>6, PagedEnds DEF Stage, StageFile, Staged
<1>7. ASSUME NEW p \in Process, PromoteStep(p) PROVE PagedFor(p)'
  <2>1. CASE pc'[p] = "idle"
    BY <1>0, <1>7, <2>1, PagedEnds DEF PromoteStep, Forget
  <2>2. CASE pc'[p] # "idle"
    BY <1>0, <1>7, <2>2, PagedEnds, PromoteTypes DEF PromoteStep
  <2> QED BY <2>1, <2>2
<1>8. ASSUME NEW p \in Process, Advance(p) PROVE PagedFor(p)'
  BY <1>0, <1>8, PagedEnds DEF Advance, Forget
<1>9. ASSUME NEW p \in Process, FetchFault(p) PROVE PagedFor(p)'
  BY <1>0, <1>9, PagedEnds DEF FetchFault, Fail, Crash, EndProgram, Forget
<1>10. ASSUME NEW w \in Record, Write(w) PROVE PagedInv'
  BY <1>10, WriteMovesBack DEF PagedInv
<1> QED BY <1>1, <1>2, <1>3, <1>4, <1>5, <1>6, <1>7, <1>8, <1>9, <1>10 DEF Next, FetchStep

\* What has landed stays there.
LEMMA PassedKeeps ==
    ASSUME PassedInv, UNCHANGED <<stamp, cursor>>, watched \subseteq watched',
           \A p \in Process : from'[p] \in {from[p], cursor, 0}
    PROVE  PassedInv'
<1>1. Landed \subseteq Landed'
  BY DEF Landed
<1>2. ASSUME NEW c, Passed(c) PROVE Passed(c)'
  BY <1>1, <1>2 DEF Passed
<1>3. Passed(cursor)'
  BY <1>1 DEF PassedInv, Passed
<1>4. ASSUME NEW p \in Process PROVE Passed(from[p])'
  <2>1. Passed(0)
    BY DEF Passed
  <2>2. PICK c \in {from[p], cursor, 0} : from'[p] = c
    OBVIOUS
  <2>3. Passed(c)'
    BY <1>2, <2>1, <2>2 DEF PassedInv
  <2> QED BY <2>2, <2>3 DEF Passed
<1>5. \A q, r \in Record : stamp'[q] = stamp'[r] /\ stamp'[q] > 0 => q = r
  BY DEF PassedInv
<1> QED BY <1>3, <1>4, <1>5 DEF PassedInv

\* The cursor advances over what has been promoted.
LEMMA AdvancePasses ==
    ASSUME TypeOK, HandInv, PassedInv, PagedInv, NEW p \in Process, pc[p] = "promoted"
    PROVE  Passed(NewCursor(p))
<1> SUFFICES ASSUME NEW r \in Record, stamp[r] \in 1 .. NewCursor(p)
             PROVE  <<r, stamp[r]>> \in Landed
  BY DEF Passed
<1>1. stamp[r] \in Nat /\ stamp[r] > 0 /\ from[p] \in Nat /\ stamp[r] <= NewCursor(p)
      /\ NewCursor(p) \in Nat
  BY TypesOfStamps, NewCursorIsGreatest
<1>2. CASE stamp[r] <= from[p]
  BY <1>1, <1>2 DEF PassedInv, Passed
<1>3. CASE stamp[r] > from[p]
  <2>1. r \in Newer(p)
    BY <1>3 DEF Newer
  <2>2. IsFetched(p, r) \/ Ahead(p, r)
    BY <2>1 DEF PagedInv, PagedFor, Staged
  <2>3. CASE IsFetched(p, r)
    <3>1. file[p] = File(p, got[p]) /\ file[p] \in watched
      BY DEF HandInv, Staged
    <3> QED BY <2>3, <3>1 DEF IsFetched, Landed, File
  <2>4. CASE Ahead(p, r)
    <3>1. NewCursor(p) \in {v[2] : v \in got[p]} \cup {from[p]}
      BY NewCursorIsGreatest
    <3>2. NewCursor(p) < stamp[r]
      BY <1>3, <2>4, <3>1 DEF Ahead
    <3> QED BY <1>1, <3>2
  <2> QED BY <2>2, <2>3, <2>4
<1> QED BY <1>1, <1>2, <1>3

LEMMA PassedStep ==
    ASSUME Ordered, TypeOK, HandInv, PassedInv, PagedInv, [Next]_vars
    PROVE  PassedInv'
<1> USE DEF source_vars, fetch_vars
<1>0. from \in [Process -> 0 .. now]
  BY DEF TypeOK
<1>1. CASE UNCHANGED vars
  BY <1>1, PassedKeeps DEF vars, companion_vars
<1>2. ASSUME NEW p \in Process, ReadCursor(p) PROVE PassedInv'
  BY <1>0, <1>2, PassedKeeps DEF ReadCursor
<1>3. ASSUME NEW p \in Process, GetPage(p) PROVE PassedInv'
  BY <1>3, PassedKeeps DEF GetPage
<1>4. ASSUME NEW p \in Process, FindNothingNew(p) PROVE PassedInv'
  BY <1>0, <1>4, PassedKeeps DEF FindNothingNew
<1>5. ASSUME NEW p \in Process, Stage(p) PROVE PassedInv'
  BY <1>5, PassedKeeps DEF Stage, StageFile
<1>6. ASSUME NEW p \in Process, PromoteStep(p) PROVE PassedInv'
  <2>1. watched \subseteq watched'
    BY <1>6, PromoteTypes DEF PromoteStep
  <2> QED BY <1>0, <1>6, <2>1, PassedKeeps DEF PromoteStep, Forget
<1>7. ASSUME NEW p \in Process, Advance(p) PROVE PassedInv'
  <2>1. UNCHANGED <<stamp, watched>> /\ cursor' = NewCursor(p) /\ from' = [from EXCEPT ![p] = 0]
        /\ pc[p] = "promoted"
    BY <1>7 DEF Advance, Forget
  <2>2. Landed' = Landed
    BY <2>1 DEF Landed
  <2>3. PICK c : c = NewCursor(p)
    OBVIOUS
  <2>4. Passed(c)
    BY <2>1, <2>3, AdvancePasses
  <2>5. Passed(cursor)'
    BY <2>1, <2>2, <2>3, <2>4 DEF Passed
  <2>6. ASSUME NEW q \in Process PROVE Passed(from[q])'
    <3>1. Passed(from[q])
      BY DEF PassedInv
    <3>2. from'[q] = from[q] \/ from'[q] = 0
      BY <1>0, <2>1
    <3> QED BY <2>1, <2>2, <3>1, <3>2 DEF Passed
  <2>7. \A q, r \in Record : stamp'[q] = stamp'[r] /\ stamp'[q] > 0 => q = r
    BY <2>1 DEF PassedInv
  <2> QED BY <2>5, <2>6, <2>7 DEF PassedInv
<1>8. ASSUME NEW p \in Process, FetchFault(p) PROVE PassedInv'
  BY <1>0, <1>8, PassedKeeps DEF FetchFault, Fail, Crash, EndProgram, Forget
<1>9. ASSUME NEW w \in Record, Write(w) PROVE PassedInv'
  <2>1. /\ stamp' = [stamp EXCEPT ![w] = now + 1]
        /\ UNCHANGED <<watched, cursor, from>>
    <3>1. PICK t \in {now, now + 1} : /\ t > stamp[w] /\ t <= MaxTime
                                      /\ ~Ties => t = now + 1
                                      /\ now' = t
                                      /\ stamp' = [stamp EXCEPT ![w] = t]
      BY <1>9 DEF Write
    <3>2. UNCHANGED <<watched, cursor, from>>
      BY <1>9 DEF Write, companion_vars
    <3> QED BY <3>1, <3>2 DEF Ordered
  <2>2. /\ stamp \in [Record -> Nat] /\ now \in Nat
        /\ \A r \in Record : stamp[r] <= now
        /\ \A p \in Process : from[p] \in Nat /\ from[p] <= now
        /\ cursor \in Nat /\ cursor <= now
    BY TypesOfStamps DEF Stamped
  <2>3. stamp'[w] = now + 1 /\ \A r \in Record \ {w} : stamp'[r] = stamp[r]
    BY <2>1, <2>2
  <2>4. ASSUME NEW c \in Nat, c <= now, Passed(c)
        PROVE  \A r \in Record : stamp'[r] \in 1 .. c => <<r, stamp'[r]>> \in Landed
    <3> TAKE r \in Record
    <3>1. CASE r = w
      BY <2>2, <2>3, <2>4, <3>1
    <3>2. CASE r # w
      BY <2>3, <2>4, <3>2 DEF Passed
    <3> QED BY <3>1, <3>2
  <2>5. Landed' = Landed
    BY <2>1 DEF Landed
  <2>6. Passed(cursor)'
    BY <2>1, <2>2, <2>4, <2>5 DEF PassedInv, Passed
  <2>7. ASSUME NEW p \in Process PROVE Passed(from[p])'
    BY <2>1, <2>2, <2>4, <2>5 DEF PassedInv, Passed
  <2>8. \A q, r \in Record : stamp'[q] = stamp'[r] /\ stamp'[q] > 0 => q = r
    <3> TAKE q, r \in Record
    <3>1. CASE q = w /\ r # w
      BY <2>2, <2>3, <3>1
    <3>2. CASE q # w /\ r = w
      BY <2>2, <2>3, <3>2
    <3>3. CASE q # w /\ r # w
      BY <2>3, <3>3 DEF PassedInv
    <3> QED BY <3>1, <3>2, <3>3
  <2> QED BY <2>6, <2>7, <2>8 DEF PassedInv
<1> QED BY <1>1, <1>2, <1>3, <1>4, <1>5, <1>6, <1>7, <1>8, <1>9 DEF Next, FetchStep

\* What the cursor has passed is in the Watched Directory in its present version, for
\* any number of records and of Fetchers, whatever fails and whatever the API's pages
\* hold: where no two records share a stamp, and an API that updates its records lists
\* the newest first.
THEOREM CursorSkipsNothing ==
    ASSUME Ordered
    PROVE  Spec => []NothingSkipped
<1>1. Init => PassedInv /\ PagedInv
  <2> SUFFICES ASSUME Init PROVE PassedInv /\ PagedInv
    OBVIOUS
  <2>1. PassedInv
    BY DEF Init, PassedInv, Passed
  <2>2. PagedInv
    BY DEF Init, CompanionInit, PagedInv, PagedFor, Staged, Promoting
  <2> QED BY <2>1, <2>2
<1>2. PassedInv => NothingSkipped
  BY DEF PassedInv, Passed, NothingSkipped
<1> QED BY <1>1, <1>2, TypeInit, TypeStep, PagedStep, PassedStep, PTL DEF Spec
-----------------------------------------------------------------------------
(***************************************************************************)
(* What the documents say without a condition holds under one.             *)
(***************************************************************************)
WholeInv == partial = {} /\ \A p \in Process : pc[p] # "copying"

\* Only complete files become visible (ADR-0018), where the staging area and the
\* Watched Directory are on one filesystem: promotion then never copies.
THEOREM OnlyWholeFiles ==
    ASSUME ~MayCopy
    PROVE  Spec => []OnlyCompleteVisible
<1>1. Init => WholeInv
  BY DEF Init, CompanionInit, WholeInv
<1>2. TypeOK /\ WholeInv /\ [Next]_vars => WholeInv'
  <2> SUFFICES ASSUME TypeOK, WholeInv, [Next]_vars PROVE WholeInv'
    OBVIOUS
  <2>1. ASSUME NEW p \in Process, NEW label, label # "copying",
               pc' = [pc EXCEPT ![p] = label], UNCHANGED partial
        PROVE  WholeInv'
    BY <2>1 DEF WholeInv, TypeOK
  <2>2. ASSUME UNCHANGED <<pc, partial>> PROVE WholeInv'
    BY <2>2 DEF WholeInv
  <2>3. ASSUME NEW p \in Process,
               \/ ReadCursor(p) \/ FindNothingNew(p) \/ Stage(p) \/ Advance(p)
               \/ FetchFault(p)
        PROVE  WholeInv'
    BY <2>1, <2>3
    DEF ReadCursor, FindNothingNew, Stage, StageFile, Advance, FetchFault, Fail, Crash,
          EndProgram, GoTo
  <2>4. ASSUME NEW p \in Process, GetPage(p) PROVE WholeInv'
    BY <2>1, <2>2, <2>4 DEF GetPage, GoTo
  <2>5. ASSUME NEW p \in Process, PromoteStep(p) PROVE WholeInv'
    <3>1. pc[p] # "copying"
      BY DEF WholeInv
    <3>2. \/ AcquireLock(p) \/ FindLockHeld(p) \/ MoveSidecar(p) \/ MoveData(p)
          \/ ReleaseLock(p)
      BY <2>5, <3>1 DEF PromoteStep, Promote, CopyData, FinishCopy
    <3> QED
      BY <2>1, <3>2 DEF AcquireLock, FindLockHeld, MoveSidecar, MoveData, ReleaseLock, GoTo
  <2>6. ASSUME NEW r \in Record, Write(r) PROVE WholeInv'
    BY <2>2, <2>6 DEF Write, companion_vars
  <2>7. CASE UNCHANGED vars
    BY <2>2, <2>7 DEF vars, companion_vars
  <2> QED
    BY <2>3, <2>4, <2>5, <2>6, <2>7 DEF Next, FetchStep
<1>3. WholeInv => OnlyCompleteVisible
  BY DEF WholeInv, OnlyCompleteVisible
<1> QED BY <1>1, <1>2, <1>3, FetchTypes, PTL DEF Spec

\* A Fetcher starts from the stored cursor, which nobody else moves.
LoneInv == \A p \in Process : pc[p] # "idle" => from[p] = cursor

\* The cursor is a high-water mark as long as a source has one Fetcher: it
\* never goes back, although it is read and advanced outside the Fetch Lock.
THEOREM LoneFetcherKeepsMark ==
    ASSUME \A p, q \in Process : p = q
    PROVE  Spec => HighWaterMark
<1>1. Init => LoneInv
  BY DEF Init, CompanionInit, LoneInv
<1>2. TypeOK /\ HandInv /\ LoneInv /\ [Next]_vars => LoneInv'
  <2> SUFFICES ASSUME TypeOK, LoneInv, [Next]_vars PROVE LoneInv'
    OBVIOUS
  <2>1. ASSUME NEW p \in Process, pc'[p] # "idle" => from'[p] = cursor' PROVE LoneInv'
    BY <2>1 DEF LoneInv
  <2>2. ASSUME NEW p \in Process, pc[p] # "idle", UNCHANGED <<from, cursor>> PROVE LoneInv'
    BY <2>1, <2>2 DEF LoneInv
  <2>3. ASSUME NEW p \in Process, pc' = [pc EXCEPT ![p] = "idle"] PROVE LoneInv'
    BY <2>1, <2>3 DEF TypeOK
  <2>4. ASSUME NEW p \in Process, ReadCursor(p) PROVE LoneInv'
    BY <2>1, <2>4 DEF ReadCursor, TypeOK
  <2>5. ASSUME NEW p \in Process, GetPage(p) \/ Stage(p) PROVE LoneInv'
    BY <2>2, <2>5 DEF GetPage, Stage, fetch_vars
  <2>6. ASSUME NEW p \in Process, FindNothingNew(p) \/ Advance(p) \/ FetchFault(p) PROVE LoneInv'
    BY <2>3, <2>6 DEF FindNothingNew, Advance, FetchFault, Fail, Crash, EndProgram, GoTo
  <2>7. ASSUME NEW p \in Process, PromoteStep(p) PROVE LoneInv'
    <3>1. CASE pc'[p] = "idle"
      BY <2>1, <3>1
    <3>2. CASE pc'[p] # "idle"
      <4>1. UNCHANGED <<from, cursor>>
        BY <2>7, <3>2 DEF PromoteStep, fetch_vars
      <4>2. pc[p] # "idle"
        BY <2>7 DEF PromoteStep, Promote, AcquireLock, FindLockHeld, MoveSidecar, MoveData,
                    CopyData, FinishCopy, ReleaseLock
      <4> QED
        BY <2>2, <4>1, <4>2
    <3> QED
      BY <3>1, <3>2
  <2>8. ASSUME UNCHANGED <<pc, from, cursor>> PROVE LoneInv'
    BY <2>8 DEF LoneInv
  <2>9. ASSUME NEW r \in Record, Write(r) PROVE LoneInv'
    BY <2>8, <2>9 DEF Write, companion_vars, fetch_vars
  <2>10. CASE UNCHANGED vars
    BY <2>8, <2>10 DEF vars, companion_vars, fetch_vars
  <2> QED
    BY <2>4, <2>5, <2>6, <2>7, <2>9, <2>10 DEF Next, FetchStep
<1>3. TypeOK /\ HandInv /\ LoneInv /\ [Next]_vars => [cursor' >= cursor]_vars
  <2> SUFFICES ASSUME TypeOK, HandInv, LoneInv, Next PROVE cursor' >= cursor
    OBVIOUS
  <2>1. cursor \in Nat
    BY FetchAssumption DEF TypeOK
  <2>2. UNCHANGED cursor \/ \E p \in Process : Advance(p)
    BY DEF Next, FetchStep, ReadCursor, GetPage, FindNothingNew, Stage, PromoteStep,
           FetchFault, Write
  <2>3. ASSUME NEW p \in Process, Advance(p) PROVE cursor' >= cursor
    <3>1. cursor' = NewCursor(p) /\ from[p] = cursor
      BY <2>3 DEF Advance, LoneInv
    <3>2. from[p] <= NewCursor(p) /\ NewCursor(p) \in 0 .. now
      BY NewCursorIsGreatest
    <3> QED
      BY <2>1, <3>1, <3>2
  <2> QED
    BY <2>1, <2>2, <2>3
<1> QED BY <1>1, <1>2, <1>3, TypeInit, TypeStep, PTL DEF Spec, HighWaterMark
==============================================================================
