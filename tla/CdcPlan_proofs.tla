---------------------------- MODULE CdcPlan_proofs ----------------------------
(***************************************************************************)
(* The plan of a CDC File, for every file: no bound on its rows, keys or   *)
(* sequences is used.                                                      *)
(***************************************************************************)
EXTENDS CdcPlan, TLAPS

\* What the loop keeps until it ends or meets an error: the keys seen are those
\* of the rows read, and of each key it holds the one row that all its other
\* rows precede.
Collapsed ==
    /\ Seen = {read[i].key : i \in 1..Len(read)}
    /\ \A i \in 1..Len(read) : read[i].sequence \in Sequence
    /\ \A k \in Seen : \E i \in RowsOf(k) :
           /\ latest_by_key[k] = read[i]
           /\ \A j \in RowsOf(k) \ {i} : read[j].sequence < read[i].sequence

PlanInv == TypeOK /\ (outcome # "error" => Collapsed)

-----------------------------------------------------------------------------
\* A row that the loop does not refuse keeps the invariant.
LEMMA GoodRow ==
    ASSUME PlanInv, outcome = "reading",
           NEW r \in Row, ~IsInvalid(r),
           read' = Append(read, r),
           latest_by_key' = IF IsLatest(r) THEN WithLatest(r) ELSE latest_by_key,
           outcome' = outcome
    PROVE  PlanInv'
<1> DEFINE n == Len(read)
<1>1. /\ read \in Seq(Row) /\ n \in Nat
      /\ read' \in Seq(Row) /\ Len(read') = n + 1
      /\ \A i \in 1..n : read'[i] = read[i]
      /\ read'[n + 1] = r
  BY DEF PlanInv, TypeOK
<1>2. r.key \in Key /\ r.sequence \in Sequence
  BY DEF IsInvalid, Row
<1>3. Collapsed
  BY DEF PlanInv
<1>4. /\ Seen' = Seen \cup {r.key}
      /\ \A k \in Seen' \ {r.key} : latest_by_key'[k] = latest_by_key[k]
      /\ IsLatest(r) => latest_by_key'[r.key] = r
      /\ ~IsLatest(r) => r.key \in Seen /\ latest_by_key' = latest_by_key
  BY DEF Seen, IsLatest, WithLatest
<1>5. TypeOK'
  <2>1. \A k \in Seen' : latest_by_key'[k] \in Row /\ latest_by_key'[k].key = k
    BY <1>4 DEF PlanInv, TypeOK
  <2> QED
    BY <1>1, <1>2, <1>4, <2>1 DEF PlanInv, TypeOK
<1>6. Collapsed'
  <2>1. Seen' = {read'[i].key : i \in 1..Len(read')}
    BY <1>1, <1>3, <1>4 DEF Collapsed
  <2>2. \A i \in 1..Len(read') : read'[i].sequence \in Sequence
    BY <1>1, <1>2, <1>3 DEF Collapsed
  <2>3. ASSUME NEW k \in Seen'
        PROVE  \E i \in RowsOf(k)' :
                  /\ latest_by_key'[k] = read'[i]
                  /\ \A j \in RowsOf(k)' \ {i} : read'[j].sequence < read'[i].sequence
    <3>1. CASE k # r.key
      <4>1. RowsOf(k)' = RowsOf(k)
        BY <1>1, <3>1 DEF RowsOf
      <4>2. k \in Seen /\ latest_by_key'[k] = latest_by_key[k]
        BY <1>4, <3>1
      <4>3. \A j \in RowsOf(k) : read'[j] = read[j]
        BY <1>1 DEF RowsOf
      <4>4. PICK i \in RowsOf(k) :
               /\ latest_by_key[k] = read[i]
               /\ \A j \in RowsOf(k) \ {i} : read[j].sequence < read[i].sequence
        BY <1>3, <4>2 DEF Collapsed
      <4>5. /\ latest_by_key'[k] = read'[i]
            /\ \A j \in RowsOf(k)' \ {i} : read'[j].sequence < read'[i].sequence
        BY <4>1, <4>2, <4>3, <4>4
      <4> QED
        BY <4>1, <4>5
    <3>2. CASE k = r.key
      <4>1. RowsOf(k)' = RowsOf(k) \cup {n + 1}
        BY <1>1, <3>2 DEF RowsOf
      <4>2. CASE k \notin Seen
        <5>1. RowsOf(k) = {}
          BY <1>3, <4>2 DEF Collapsed, RowsOf
        <5>2. RowsOf(k)' = {n + 1} /\ IsLatest(r)
          BY <3>2, <4>1, <4>2, <5>1 DEF IsLatest
        <5>3. latest_by_key'[k] = read'[n + 1]
          BY <1>1, <1>4, <3>2, <5>2
        <5> QED
          BY <5>2, <5>3
      <4>3. CASE k \in Seen
        <5>1. PICK i \in RowsOf(k) :
                 /\ latest_by_key[k] = read[i]
                 /\ \A j \in RowsOf(k) \ {i} : read[j].sequence < read[i].sequence
          BY <1>3, <4>3 DEF Collapsed
        <5>2. /\ \A j \in RowsOf(k) : read'[j] = read[j] /\ read[j].sequence \in Int
              /\ r.sequence \in Int
              /\ n + 1 \notin RowsOf(k)
          <6>1. RowsOf(k) \subseteq 1..n
            BY DEF RowsOf
          <6>2. \A j \in RowsOf(k) : read[j].sequence \in Sequence
            BY <1>3, <6>1 DEF Collapsed
          <6>3. n + 1 \notin 1..n
            BY <1>1
          <6> QED
            BY <1>1, <1>2, <6>1, <6>2, <6>3, CdcPlanAssumption
        <5>3. r.sequence # read[i].sequence
          BY <3>2, <4>3, <5>1 DEF IsInvalid, IsTie
        <5>4. CASE IsLatest(r)
          <6>1. read[i].sequence < r.sequence
            BY <3>2, <4>3, <5>1, <5>2, <5>4 DEF IsLatest
          <6>2. \A j \in RowsOf(k) : read[j].sequence < r.sequence
            BY <5>1, <5>2, <6>1
          <6> QED
            BY <1>1, <1>4, <3>2, <4>1, <5>2, <5>4, <6>2
        <5>5. CASE ~IsLatest(r)
          <6>1. r.sequence < read[i].sequence
            BY <3>2, <4>3, <5>1, <5>2, <5>3, <5>5 DEF IsLatest
          <6>2. latest_by_key'[k] = read'[i]
            BY <1>4, <5>1, <5>2, <5>5
          <6>3. \A j \in RowsOf(k)' \ {i} : read'[j].sequence < read'[i].sequence
            BY <1>1, <4>1, <5>1, <5>2, <6>1
          <6> QED
            BY <4>1, <6>2, <6>3
        <5> QED
          BY <5>4, <5>5
      <4> QED
        BY <4>2, <4>3
    <3> QED
      BY <3>1, <3>2
  <2> QED
    BY <2>1, <2>2, <2>3 DEF Collapsed
<1> QED
  BY <1>5, <1>6 DEF PlanInv

\* PlanInv is inductive.
LEMMA PlanInvariant == Spec => []PlanInv
<1>1. Init => PlanInv
  <2> SUFFICES ASSUME Init PROVE PlanInv
    OBVIOUS
  <2>1. Seen = {} /\ Len(read) = 0 /\ read \in Seq(Row)
    BY DEF Init, Seen
  <2> QED
    BY <2>1 DEF Init, PlanInv, TypeOK, Collapsed, RowsOf
<1>2. PlanInv /\ [Next]_vars => PlanInv'
  <2> SUFFICES ASSUME PlanInv, [Next]_vars PROVE PlanInv'
    OBVIOUS
  <2>1. ASSUME NEW r \in Row, ReadRow(r) PROVE PlanInv'
    <3>1. CASE IsInvalid(r)
      <4>1. read' \in Seq(Row)
        BY <2>1 DEF ReadRow, PlanInv, TypeOK
      <4> QED
        BY <2>1, <3>1, <4>1 DEF ReadRow, PlanInv, TypeOK, Seen
    <3>2. CASE ~IsInvalid(r)
      BY <2>1, <3>2, GoodRow DEF ReadRow
    <3> QED
      BY <3>1, <3>2
  <2>2. CASE Plan
    BY <2>2 DEF Plan, PlanInv, TypeOK, Collapsed, Seen, RowsOf
  <2>3. CASE UNCHANGED vars
    BY <2>3 DEF vars, PlanInv, TypeOK, Collapsed, Seen, RowsOf
  <2> QED
    BY <2>1, <2>2, <2>3 DEF Next
<1> QED
  BY <1>1, <1>2, PTL DEF Spec

-----------------------------------------------------------------------------
\* The plan of a File is its rows' latest change per key: plan_cdc_changes gives
\* what the reference definition over the whole file gives, in every row order.
THEOREM PlanIsLatestPerKey == Spec => []LatestPerKey
<1>1. PlanInv => LatestPerKey
  <2> SUFFICES ASSUME PlanInv, outcome = "planned"
               PROVE  LatestPerKey
    BY DEF LatestPerKey
  <2>1. Collapsed
    BY DEF PlanInv
  <2>2. \A k : \A j \in RowsOf(k) : read[j].sequence \in Int
    BY <2>1, CdcPlanAssumption DEF Collapsed, RowsOf
  <2>3. ASSUME NEW k \in Seen
        PROVE  \E i \in RowsOf(k) :
                  /\ latest_by_key[k] = read[i]
                  /\ \A j \in RowsOf(k) : read[j].sequence <= read[i].sequence
    <3>1. PICK i \in RowsOf(k) :
             /\ latest_by_key[k] = read[i]
             /\ \A j \in RowsOf(k) \ {i} : read[j].sequence < read[i].sequence
      BY <2>1 DEF Collapsed
    <3>2. \A j \in RowsOf(k) : read[j].sequence <= read[i].sequence
      BY <2>2, <3>1
    <3> QED
      BY <3>1, <3>2
  <2> QED
    BY <2>1, <2>3 DEF LatestPerKey, Collapsed
<1> QED
  BY <1>1, PlanInvariant, PTL

\* In a File that is planned, no other row of a key ties with its latest one.
THEOREM PlannedLatestIsUnique == Spec => []LatestIsUnique
<1>1. PlanInv => LatestIsUnique
  BY DEF PlanInv, Collapsed, LatestIsUnique
<1> QED
  BY <1>1, PlanInvariant, PTL

\* The variables keep their types: of each key the loop holds a row of that key.
THEOREM PlanTypes == Spec => []TypeOK
<1>1. PlanInv => TypeOK
  BY DEF PlanInv
<1> QED
  BY <1>1, PlanInvariant, PTL
==============================================================================
