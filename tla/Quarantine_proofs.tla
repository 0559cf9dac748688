--------------------------- MODULE Quarantine_proofs ---------------------------
(***************************************************************************)
(* The three stores of a quarantined file agree, and each row is in one    *)
(* place, for any files, rows, columns, limits and number of crashes:      *)
(* proofs.                                                                 *)
(***************************************************************************)
EXTENDS Quarantine, FiniteSetTheorems, TLAPS

\* What a Run may claim is PENDING.
TodoInv == \A c \in todo : audit[c].state = "PENDING"

\* What the file in hand has left in the destination and in its sidecar.
Split(c) == RowsOf(c) = Good(c)

HandInv ==
    /\ pc \in {"landed", "open", "loaded"} => Split(cur)
    /\ pc \in {"landed", "open"} => Bad(cur) # {}
    /\ pc = "open" => cur \in DOMAIN sidecars /\ sidecars[cur] = [rows |-> {}, torn |-> FALSE]
    /\ pc = "loaded" /\ Bad(cur) # {} =>
           cur \in DOMAIN sidecars /\ sidecars[cur] = [rows |-> Bad(cur), torn |-> FALSE]

\* A destination that keeps what it has of a hash has what the columns, which are
\* not edited meanwhile, make of it.
KeepInv ==
    Stable /\ kind = "databricks" => \A c \in landing : RowsOf(c) # {} => Split(c)

\* Of the files that nothing has disturbed after the destination's commit, only one
\* that is COMMITTED, or is being brought there, has rows or a sidecar.
Untouched(c) == RowsOf(c) = {} /\ c \notin DOMAIN sidecars

FirstTryInv ==
    \A c \in landing \ disturbed :
        \/ c \in DOMAIN audit /\ audit[c].state = "COMMITTED"
        \/ c = cur /\ pc \in {"landed", "open", "loaded"}
        \/ Untouched(c)

StoresInv == TypeOK /\ TodoInv /\ HandInv /\ KeepInv /\ CommittedIsAccounted

-----------------------------------------------------------------------------
\* Contents and what a Run splits them into are finite sets of rows.
LEMMA ContentFacts ==
    ASSUME NEW c \in Content
    PROVE  /\ c \in [DOMAIN c -> SUBSET Version]
           /\ DOMAIN c \subseteq RowNumber
           /\ \A S \in SUBSET DOMAIN c : Cardinality(S) \in Nat /\ IsFiniteSet(S)
<1>1. c \in [DOMAIN c -> SUBSET Version] /\ DOMAIN c \subseteq RowNumber
  BY DEF Content
<1>2. \A S \in SUBSET DOMAIN c : IsFiniteSet(S)
  BY <1>1, FS_Subset, QuarantineAssumption
<1> QED BY <1>1, <1>2, FS_CardinalityType

LEMMA SplitFacts ==
    ASSUME TypeOK, NEW c \in landing
    PROVE  /\ Good(c) \subseteq DOMAIN c /\ Bad(c) \subseteq DOMAIN c
           /\ Good(c) \subseteq RowNumber
           /\ Cardinality(Good(c)) \in Nat /\ Cardinality(Bad(c)) \in Nat
           /\ c \in Content
<1>1. c \in Content
  BY DEF TypeOK
<1>2. Good(c) \in SUBSET DOMAIN c /\ Bad(c) \in SUBSET DOMAIN c
  BY DEF Good, Bad
<1> QED BY <1>1, <1>2, ContentFacts

\* A record that mark_committed, mark_failed or a release writes is a record.
LEMMA RecordType ==
    /\ \A s \in {"PENDING", "PROCESSING", "COMMITTED", "FAILED"} :
           Record(s) \in AuditRecord /\ Record(s).state = s
BY DEF Record, AuditRecord

-----------------------------------------------------------------------------
LEMMA TypeStep ==
    ASSUME TypeOK, [Next]_vars
    PROVE  TypeOK'
<1> USE DEF TypeOK, Loading, PC, fault_vars
<1>0. QuarantineAssumption
  BY QuarantineAssumption
<1>1. CASE UNCHANGED vars
  BY <1>1 DEF vars, run_vars, operator_vars
<1>2. CASE \E c \in Original : Arrive(c)
  <2>1. PICK c \in Original : Arrive(c)
    BY <1>2
  <2>2. c \in Content /\ landing \subseteq landing' /\ landing' = landing \cup {c}
    BY <1>0, <2>1 DEF Arrive, QuarantineAssumption
  <2> QED BY <2>1, <2>2 DEF Arrive, run_vars
<1>3. CASE StartRun
  <2>1. DOMAIN audit' = landing
    BY <1>3 DEF StartRun
  <2>2. \A c \in DOMAIN audit' : audit'[c] \in AuditRecord
    BY <1>3, RecordType DEF StartRun
  <2>3. todo' \subseteq DOMAIN audit'
    BY <1>3, <2>1 DEF StartRun
  <2> QED BY <1>3, <2>1, <2>2, <2>3 DEF StartRun, operator_vars
<1>4. CASE \E c \in todo : Claim(c)
  <2>1. PICK c \in todo : Claim(c)
    BY <1>4
  <2>2. /\ DOMAIN audit' = DOMAIN audit /\ c \in DOMAIN audit
        /\ audit'[c].state = "PROCESSING"
        /\ \A d \in DOMAIN audit' : audit'[d] \in AuditRecord
    BY <2>1, RecordType DEF Claim
  <2> QED BY <2>1, <2>2 DEF Claim, operator_vars
<1>5. CASE Reject \/ LoadFails
  BY <1>5 DEF Reject, LoadFails, operator_vars
<1>6. CASE LandRows
  <2>1. cur \in landing /\ Good(cur) \subseteq RowNumber
    BY <1>6, SplitFacts DEF LandRows
  <2>2. dest' \subseteq landing \X RowNumber
    BY <1>6, <2>1 DEF LandRows, CommitRows, operator_vars
  <2> QED BY <1>6, <2>2 DEF LandRows, operator_vars
<1>16. CASE LandsAndFails
  <2>1. cur \in landing /\ Good(cur) \subseteq RowNumber
    BY <1>16, SplitFacts DEF LandsAndFails
  <2>2. dest' \subseteq landing \X RowNumber
    BY <1>16, <2>1 DEF LandsAndFails, CommitRows, operator_vars
  <2> QED BY <1>0, <1>16, <2>1, <2>2 DEF LandsAndFails, operator_vars, QuarantineAssumption
<1>7. CASE OpenSidecar
  BY <1>7 DEF OpenSidecar, Put, operator_vars
<1>8. CASE WriteSidecar
  <2>1. cur \in landing /\ Bad(cur) \subseteq DOMAIN cur
    BY <1>8, SplitFacts DEF WriteSidecar
  <2>2. /\ DOMAIN sidecars' = DOMAIN sidecars
        /\ \A c \in DOMAIN sidecars' : sidecars'[c] \in [rows : SUBSET DOMAIN c, torn : BOOLEAN]
    BY <1>8, <2>1 DEF WriteSidecar
  <2> QED BY <1>8, <2>2 DEF WriteSidecar, operator_vars
<1>9. ASSUME CutSidecar, Loading
      PROVE  /\ DOMAIN sidecars' = DOMAIN sidecars
             /\ \A c \in DOMAIN sidecars' : sidecars'[c] \in [rows : SUBSET DOMAIN c, torn : BOOLEAN]
  <2>1. PICK last \in RowNumber \cup {0}, torn \in BOOLEAN :
            sidecars' = [sidecars EXCEPT ![cur] =
                [rows |-> @.rows \cup {r \in Bad(cur) : r <= last}, torn |-> @.torn \/ torn]]
    BY <1>9 DEF CutSidecar
  <2>2. cur \in landing /\ Bad(cur) \subseteq DOMAIN cur
    BY <1>9, SplitFacts
  <2> QED BY <2>1, <2>2
<1>10. CASE FinalizeFails
  <2>1. /\ DOMAIN sidecars' = DOMAIN sidecars
        /\ \A c \in DOMAIN sidecars' : sidecars'[c] \in [rows : SUBSET DOMAIN c, torn : BOOLEAN]
    BY <1>9, <1>10 DEF FinalizeFails
  <2> QED BY <1>0, <1>10, <2>1 DEF FinalizeFails, operator_vars, QuarantineAssumption
<1>11. CASE RecordOutcome
  <2>1. cur \in DOMAIN audit /\ cur \in landing
    BY <1>11 DEF RecordOutcome
  <2>2. DOMAIN audit' = DOMAIN audit /\ \A c \in DOMAIN audit' : audit'[c] \in AuditRecord
    <3>1. Cardinality(Good(cur)) \in Nat /\ Cardinality(Bad(cur)) \in Nat
      BY <2>1, SplitFacts
    <3>2. PICK record : audit' = [audit EXCEPT ![cur] = record] /\ record \in AuditRecord
      <4>1. CASE pc = "loaded"
        <5> DEFINE record == [state |-> "COMMITTED", row_count |-> Cardinality(Good(cur)),
                              quarantined_row_count |-> Cardinality(Bad(cur)),
                              quarantine_path |-> Bad(cur) # {}]
        <5>1. audit' = [audit EXCEPT ![cur] = record]
          BY <1>11, <4>1 DEF RecordOutcome
        <5>2. record \in AuditRecord
          BY <3>1 DEF AuditRecord
        <5> QED BY <5>1, <5>2
      <4>2. CASE pc = "errored"
        BY <1>11, <4>2, RecordType DEF RecordOutcome
      <4> QED BY <1>11, <4>1, <4>2 DEF RecordOutcome
    <3> QED BY <2>1, <3>2
  <2> QED BY <1>11, <2>2 DEF RecordOutcome, operator_vars
<1>12. CASE EndRun
  BY <1>12 DEF EndRun, operator_vars
<1>13. CASE Crash
  <2>1. /\ DOMAIN sidecars' = DOMAIN sidecars
        /\ \A c \in DOMAIN sidecars' : sidecars'[c] \in [rows : SUBSET DOMAIN c, torn : BOOLEAN]
    BY <1>9, <1>13 DEF Crash
  <2> QED BY <1>0, <1>13, <2>1 DEF Crash, operator_vars, QuarantineAssumption
<1>14. CASE \E c \in DOMAIN sidecars : Redrop(c)
  <2>1. PICK c \in DOMAIN sidecars : Redrop(c)
    BY <1>14
  <2>2. DOMAIN outputs' \subseteq DOMAIN sidecars /\ \A d \in DOMAIN outputs' : outputs'[d] \subseteq DOMAIN d
    <3>1. sidecars[c].rows \subseteq DOMAIN c
      OBVIOUS
    <3> QED BY <2>1, <3>1 DEF Redrop, Put, Remove, Restrict
  <2> QED BY <2>1, <2>2 DEF Redrop, run_vars
<1>15. CASE \E c \in DOMAIN outputs : \E corrected \in SUBSET outputs[c] : Drop(c, corrected)
  <2>0. PICK c \in DOMAIN outputs : \E corrected \in SUBSET outputs[c] : Drop(c, corrected)
    BY <1>15
  <2>1. PICK corrected \in SUBSET outputs[c] : Drop(c, corrected)
    BY <2>0
  <2> DEFINE new == [r \in outputs[c] |-> IF r \in corrected THEN Version ELSE c[r]]
  <2>2. new \in Content
    <3>1. c \in Content /\ outputs[c] \subseteq DOMAIN c /\ outputs[c] # {}
      BY <2>1 DEF Drop
    <3>2. c \in [DOMAIN c -> SUBSET Version] /\ DOMAIN c \subseteq RowNumber
      BY <3>1, ContentFacts
    <3>3. new \in [outputs[c] -> SUBSET Version]
      BY <3>1, <3>2
    <3>4. outputs[c] \in (SUBSET RowNumber) \ {{}}
      BY <3>1, <3>2
    <3> HIDE DEF new
    <3> QED BY <3>3, <3>4 DEF Content
  <2>3. landing' = landing \cup {new}
    BY <2>1 DEF Drop
  <2>4. DOMAIN outputs' \subseteq DOMAIN sidecars /\ \A d \in DOMAIN outputs' : outputs'[d] \subseteq DOMAIN d
    BY <2>1 DEF Drop, Remove, Restrict
  <2> HIDE DEF new
  <2> QED BY <2>1, <2>2, <2>3, <2>4 DEF Drop, run_vars
<1> QED BY <1>1, <1>2, <1>3, <1>4, <1>5, <1>6, <1>7, <1>8, <1>10, <1>11, <1>12, <1>13,
           <1>14, <1>15, <1>16 DEF Next

\* The variables keep their types: a Run has a file in hand exactly while it loads
\* one, sidecars are of files that have a record, and hold rows of theirs.
THEOREM QuarantineTypes == Spec => []TypeOK
<1>1. Init => TypeOK
  BY QuarantineAssumption DEF Init, TypeOK, Loading, PC, QuarantineAssumption
<1>2. TypeOK /\ [Next]_vars => TypeOK'
  BY TypeStep
<1> QED BY <1>1, <1>2, PTL DEF Spec

-----------------------------------------------------------------------------
\* What CommittedIsAccounted says of one file.
AccountedFor(c) ==
    LET missing == DOMAIN c \ RowsOf(c)
    IN  /\ audit[c].row_count = Cardinality(RowsOf(c))
        /\ audit[c].quarantined_row_count = Cardinality(missing)
        /\ audit[c].quarantine_path <=> missing # {}
        /\ missing # {} => /\ c \in DOMAIN sidecars
                           /\ sidecars[c] = [rows |-> missing, torn |-> FALSE]

LEMMA AccountedParts ==
    CommittedIsAccounted <=>
        \A c \in DOMAIN audit : audit[c].state = "COMMITTED" => AccountedFor(c)
BY DEF CommittedIsAccounted, AccountedFor

\* The sidecar that a record names is there and holds what is missing.
LEMMA SidecarIsWhole ==
    ASSUME NEW c, AccountedFor(c), audit[c].quarantine_path
    PROVE  sidecars[c].rows = DOMAIN c \ RowsOf(c)
<1>1. DOMAIN c \ RowsOf(c) # {}
  BY DEF AccountedFor
<1>2. sidecars[c] = [rows |-> DOMAIN c \ RowsOf(c), torn |-> FALSE]
  BY <1>1 DEF AccountedFor
<1> QED BY <1>2

\* A step keeps the account of a file whose record, rows and sidecar it leaves alone.
LEMMA AccountStays ==
    ASSUME NEW c, AccountedFor(c), audit'[c] = audit[c], RowsOf(c)' = RowsOf(c),
           c \in DOMAIN sidecars => c \in DOMAIN sidecars' /\ sidecars'[c] = sidecars[c]
    PROVE  AccountedFor(c)'
BY DEF AccountedFor

LEMMA AccountsStay ==
    ASSUME CommittedIsAccounted,
           \A c \in DOMAIN audit' : audit'[c].state = "COMMITTED" =>
               /\ c \in DOMAIN audit /\ audit'[c] = audit[c]
               /\ RowsOf(c)' = RowsOf(c)
               /\ c \in DOMAIN sidecars => c \in DOMAIN sidecars' /\ sidecars'[c] = sidecars[c]
    PROVE  CommittedIsAccounted'
<1>1. \A c \in DOMAIN audit' : audit'[c].state = "COMMITTED" => AccountedFor(c)'
  BY AccountStays, AccountedParts
<1> QED BY <1>1 DEF CommittedIsAccounted, AccountedFor

\* What the destination holds of each file after its commit.
LEMMA LandedRows ==
    ASSUME TypeOK, Loading, CommitRows, cur' = cur
    PROVE  /\ \A c : c # cur => RowsOf(c)' = RowsOf(c)
           /\ RowsOf(cur)' = Good(cur) \/ (kind = "databricks" /\ RowsOf(cur) # {} /\ dest' = dest)
<1>1. cur \in landing /\ Good(cur) \subseteq RowNumber
  BY SplitFacts DEF TypeOK
<1>2. CASE kind = "databricks" /\ RowsOf(cur) # {}
  BY <1>2 DEF CommitRows, RowsOf
<1>3. CASE ~(kind = "databricks" /\ RowsOf(cur) # {})
  <2>1. dest' = {cr \in dest : cr[1] # cur} \cup {<<cur, r>> : r \in Good(cur)}
    BY <1>3 DEF CommitRows
  <2>2. \A c, r : <<c, r>> \in dest' <=> IF c = cur THEN r \in Good(cur) ELSE <<c, r>> \in dest
    BY <2>1
  <2> QED BY <1>1, <2>2 DEF RowsOf
<1> QED BY <1>2, <1>3

\* A new content has no rows.
LEMMA NewIsUntouched ==
    ASSUME TypeOK, NEW c, c \notin landing
    PROVE  RowsOf(c) = {} /\ c \notin DOMAIN sidecars
BY DEF TypeOK, RowsOf

\* Every step keeps the account, whatever is in hand and wherever it stops.
LEMMA StoresStep ==
    ASSUME StoresInv, Stable, [Next]_vars
    PROVE  StoresInv'
<1> USE DEF StoresInv
<1>0. TypeOK'
  BY TypeStep
<1>a. ASSUME UNCHANGED dest
      PROVE  \A c : RowsOf(c)' = RowsOf(c)
  BY <1>a DEF RowsOf
<1>b. ASSUME config'.version = config.version
      PROVE  \A c : Good(c)' = Good(c) /\ Bad(c)' = Bad(c)
  BY <1>b DEF Good, Bad
<1>1. CASE UNCHANGED vars
  BY <1>0, <1>1, <1>a, <1>b, AccountsStay
  DEF vars, run_vars, operator_vars, TodoInv, HandInv, KeepInv, Split
<1>2. ASSUME UNCHANGED <<kind, config, audit, dest, sidecars, run_vars>>,
             \A c \in landing' \ landing : RowsOf(c) = {}
      PROVE  StoresInv'
  <2>1. CommittedIsAccounted'
    BY <1>2, <1>a, AccountsStay
  <2> QED BY <1>0, <1>2, <1>a, <1>b, <2>1 DEF run_vars, TodoInv, HandInv, KeepInv, Split
<1>3. CASE \E c \in Original : Arrive(c)
  <2>1. PICK c \in Original : Arrive(c)
    BY <1>3
  <2> QED BY <1>2, <2>1, NewIsUntouched DEF Arrive
<1>4. CASE \E c \in DOMAIN sidecars : Redrop(c)
  BY <1>2, <1>4 DEF Redrop
<1>5. CASE \E c \in DOMAIN outputs : \E corrected \in SUBSET outputs[c] : Drop(c, corrected)
  <2>1. PICK new : new \notin landing /\ landing' = landing \cup {new}
    BY <1>5 DEF Drop
  <2>2. UNCHANGED <<kind, config, audit, dest, sidecars, run_vars>>
    BY <1>5 DEF Drop
  <2> QED BY <1>2, <2>1, <2>2, NewIsUntouched
<1>6. CASE StartRun
  <2>1. CommittedIsAccounted'
    BY <1>6, <1>a, AccountsStay, RecordType DEF StartRun
  <2>2. KeepInv'
    BY <1>6, <1>a, <1>b DEF StartRun, KeepInv, Split, operator_vars
  <2>3. TodoInv' /\ HandInv'
    BY <1>6 DEF StartRun, TodoInv, HandInv
  <2> QED BY <1>0, <2>1, <2>2, <2>3
<1>7. CASE \E c \in todo : Claim(c)
  <2>1. PICK c \in todo : Claim(c)
    BY <1>7
  <2>2. c \in DOMAIN audit /\ audit' = [audit EXCEPT ![c] = Record("PROCESSING")]
    BY <2>1 DEF Claim, TypeOK
  <2>3. CommittedIsAccounted'
    BY <2>1, <2>2, <1>a, AccountsStay, RecordType DEF Claim
  <2>4. TodoInv' /\ HandInv'
    BY <2>1, <2>2 DEF Claim, TodoInv, HandInv
  <2>5. KeepInv'
    BY <2>1, <1>a, <1>b DEF Claim, KeepInv, Split, operator_vars
  <2> QED BY <1>0, <2>3, <2>4, <2>5
<1>8. CASE Reject \/ LoadFails \/ EndRun
  <2>1. CommittedIsAccounted'
    BY <1>8, <1>a, AccountsStay DEF Reject, LoadFails, EndRun
  <2> QED BY <1>0, <1>8, <1>a, <1>b, <2>1
          DEF Reject, LoadFails, EndRun, operator_vars, TodoInv, HandInv, KeepInv, Split
<1>9. CASE LandRows \/ LandsAndFails
  <2>0. /\ CommitRows /\ Loading /\ cur' = cur
        /\ UNCHANGED <<kind, config, landing, audit, sidecars, todo>>
    BY <1>9 DEF LandRows, LandsAndFails, Loading, operator_vars
  <2>1. cur \in landing /\ cur \in DOMAIN audit /\ audit[cur].state = "PROCESSING"
    BY <2>0 DEF TypeOK
  <2>2. \A c : Good(c)' = Good(c) /\ Bad(c)' = Bad(c)
    BY <2>0, <1>b
  <2>3. RowsOf(cur)' = Good(cur) /\ \A c : c # cur => RowsOf(c)' = RowsOf(c)
    <3>2. CASE kind = "databricks" /\ RowsOf(cur) # {} /\ dest' = dest
      <4>1. RowsOf(cur) = Good(cur)
        BY <2>1, <3>2 DEF KeepInv, Split
      <4> QED BY <1>a, <2>0, <3>2, <4>1
    <3> QED BY <2>0, <3>2, LandedRows
  <2>4. CommittedIsAccounted'
    BY <2>0, <2>1, <2>3, AccountsStay
  <2>5. KeepInv'
    BY <2>0, <2>2, <2>3 DEF KeepInv, Split
  <2>6. TodoInv' /\ HandInv'
    BY <1>9, <2>0, <2>2, <2>3 DEF LandRows, LandsAndFails, TodoInv, HandInv, Split
  <2> QED BY <1>0, <2>4, <2>5, <2>6
<1>10. ASSUME Loading, UNCHANGED <<kind, config, dest, audit, landing, todo>>,
              \A c \in DOMAIN sidecars \ {cur} : c \in DOMAIN sidecars' /\ sidecars'[c] = sidecars[c]
       PROVE  CommittedIsAccounted' /\ KeepInv' /\ TodoInv'
  <2>1. audit[cur].state = "PROCESSING"
    BY <1>10 DEF TypeOK
  <2>2. CommittedIsAccounted'
    BY <1>10, <1>a, <2>1, AccountsStay
  <2> QED BY <1>10, <1>a, <1>b, <2>2 DEF KeepInv, TodoInv, Split
<1>11. CASE OpenSidecar
  <2>1. CommittedIsAccounted' /\ KeepInv' /\ TodoInv'
    BY <1>10, <1>11 DEF OpenSidecar, Put, Loading, operator_vars
  <2>2. HandInv'
    BY <1>11, <1>a, <1>b DEF OpenSidecar, Put, HandInv, Split
  <2> QED BY <1>0, <2>1, <2>2
<1>12. CASE WriteSidecar
  <2>1. CommittedIsAccounted' /\ KeepInv' /\ TodoInv'
    BY <1>10, <1>12 DEF WriteSidecar, Loading, operator_vars
  <2>2. HandInv'
    <3>1. cur \in DOMAIN sidecars' /\ sidecars'[cur] = [rows |-> Bad(cur), torn |-> FALSE]
      <4>1. cur \in DOMAIN sidecars /\ sidecars[cur] = [rows |-> {}, torn |-> FALSE]
        BY <1>12 DEF WriteSidecar, HandInv
      <4>2. /\ cur \in DOMAIN sidecars'
            /\ sidecars'[cur].rows = Bad(cur) /\ sidecars'[cur].torn = FALSE
        BY <1>12, <4>1 DEF WriteSidecar
      <4>3. cur \in DOMAIN sidecars' /\ sidecars'[cur] \in [rows : SUBSET DOMAIN cur, torn : BOOLEAN]
        BY <1>0, <4>2 DEF TypeOK
      <4> QED BY <4>2, <4>3
    <3>2. UNCHANGED <<dest, config, cur>> /\ pc = "open" /\ pc' = "loaded"
      BY <1>12 DEF WriteSidecar
    <3> QED BY <1>a, <1>b, <3>1, <3>2 DEF HandInv, Split
  <2> QED BY <1>0, <2>1, <2>2
<1>13. CASE FinalizeFails
  <2>1. \A c \in DOMAIN sidecars \ {cur} : c \in DOMAIN sidecars' /\ sidecars'[c] = sidecars[c]
    BY <1>13 DEF FinalizeFails, CutSidecar
  <2>2. CommittedIsAccounted' /\ KeepInv' /\ TodoInv'
    BY <1>10, <1>13, <2>1 DEF FinalizeFails, Loading, operator_vars
  <2>3. HandInv'
    BY <1>13 DEF FinalizeFails, HandInv
  <2> QED BY <1>0, <2>2, <2>3
<1>14. CASE RecordOutcome
  <2>1. PICK f : f = cur
    OBVIOUS
  <2>2. f \in DOMAIN audit /\ f \notin todo
    BY <1>14, <2>1 DEF RecordOutcome, TypeOK, Loading, TodoInv
  <2>3. /\ pc' = "running" /\ UNCHANGED <<kind, config, landing, dest, sidecars, todo>>
        /\ DOMAIN audit' = DOMAIN audit
        /\ \A c \in DOMAIN audit \ {f} : audit'[c] = audit[c]
    BY <1>14, <2>1 DEF RecordOutcome, operator_vars
  <2>4. TodoInv' /\ HandInv'
    BY <2>2, <2>3 DEF TypeOK, TodoInv, HandInv
  <2>5. KeepInv'
    BY <2>3, <1>a, <1>b DEF KeepInv, Split
  <2>6. CASE pc = "errored"
    <3>1. audit'[f].state = "FAILED"
      BY <1>14, <2>1, <2>2, <2>6, RecordType DEF RecordOutcome
    <3> QED BY <1>0, <1>a, <2>3, <2>4, <2>5, <3>1, AccountsStay
  <2>7. CASE pc = "loaded"
    <3>1. AccountedFor(f)'
      <4>1. RowsOf(f)' = Good(f) /\ DOMAIN f \ RowsOf(f)' = Bad(f)
        BY <1>a, <2>1, <2>3, <2>7 DEF HandInv, Split, Bad
      <4>2. /\ audit'[f].row_count = Cardinality(Good(f))
            /\ audit'[f].quarantined_row_count = Cardinality(Bad(f))
            /\ audit'[f].quarantine_path = (Bad(f) # {})
        BY <1>14, <2>1, <2>2, <2>7 DEF RecordOutcome
      <4>3. Bad(f) # {} => f \in DOMAIN sidecars' /\ sidecars'[f] = [rows |-> Bad(f), torn |-> FALSE]
        BY <2>1, <2>3, <2>7 DEF HandInv
      <4> QED BY <4>1, <4>2, <4>3 DEF AccountedFor
    <3>2. \A c \in DOMAIN audit' \ {f} : audit'[c].state = "COMMITTED" => AccountedFor(c)'
      BY <1>a, <2>3, AccountStays, AccountedParts
    <3>3. \A c \in DOMAIN audit' : audit'[c].state = "COMMITTED" => AccountedFor(c)'
      BY <3>1, <3>2
    <3>4. CommittedIsAccounted'
      BY <3>3 DEF CommittedIsAccounted, AccountedFor
    <3> QED BY <1>0, <2>4, <2>5, <3>4
  <2> QED BY <1>14, <2>6, <2>7 DEF RecordOutcome
<1>15. CASE Crash
  <2>1. CASE Loading
    <3>1. \A c \in DOMAIN sidecars \ {cur} : c \in DOMAIN sidecars' /\ sidecars'[c] = sidecars[c]
      BY <1>15 DEF Crash, CutSidecar
    <3>2. UNCHANGED <<kind, config, dest, audit, landing>>
      BY <1>15 DEF Crash, operator_vars
    <3>3. CommittedIsAccounted'
      BY <2>1, <3>1, <3>2, <1>a, AccountsStay DEF TypeOK
    <3> QED BY <1>0, <1>15, <1>a, <1>b, <3>2, <3>3 DEF Crash, TodoInv, HandInv, KeepInv, Split
  <2>2. CASE ~Loading
    <3>1. UNCHANGED <<kind, config, dest, audit, landing, sidecars>>
      BY <1>15, <2>2 DEF Crash, operator_vars, Loading
    <3>2. CommittedIsAccounted'
      BY <3>1, <1>a, AccountsStay
    <3> QED BY <1>0, <1>15, <1>a, <1>b, <3>1, <3>2 DEF Crash, TodoInv, HandInv, KeepInv, Split
  <2> QED BY <2>1, <2>2
<1> QED BY <1>1, <1>3, <1>4, <1>5, <1>6, <1>7, <1>8, <1>9, <1>11, <1>12, <1>13, <1>14, <1>15
        DEF Next

\* The record, the rows and the sidecar of a COMMITTED file agree, whatever was cut
\* short before, as long as columns are not edited over a destination that keeps
\* what it has of a hash.
THEOREM CommittedAccounted ==
    ASSUME Stable
    PROVE  Spec => []CommittedIsAccounted
<1>1. Init => StoresInv
  <2>1. Init => TypeOK
    BY QuarantineAssumption DEF Init, TypeOK, Loading, PC, QuarantineAssumption
  <2> QED BY <2>1 DEF Init, StoresInv, TodoInv, HandInv, KeepInv, CommittedIsAccounted
<1>2. StoresInv /\ [Next]_vars => StoresInv'
  BY StoresStep
<1>3. StoresInv => CommittedIsAccounted
  BY DEF StoresInv
<1> QED BY <1>1, <1>2, <1>3, PTL DEF Spec

-----------------------------------------------------------------------------
\* What is not loaded has left nothing, if nothing has failed after its commit.
LEMMA FirstTryStep ==
    ASSUME TypeOK, TodoInv, FirstTryInv, [Next]_vars
    PROVE  FirstTryInv'
<1> SUFFICES ASSUME NEW c \in landing', c \notin disturbed'
             PROVE  \/ c \in DOMAIN audit' /\ audit'[c].state = "COMMITTED"
                    \/ c = cur' /\ pc' \in {"landed", "open", "loaded"}
                    \/ Untouched(c)'
  BY DEF FirstTryInv
<1>0. c \notin disturbed
  BY DEF Next, vars, fault_vars, Arrive, StartRun, Claim, Reject, LoadFails, LandRows,
         LandsAndFails, OpenSidecar, WriteSidecar, FinalizeFails, RecordOutcome, EndRun, Crash,
         Redrop, Drop
<1>1. ASSUME c \in landing
      PROVE  \/ c \in DOMAIN audit /\ audit[c].state = "COMMITTED"
             \/ c = cur /\ pc \in {"landed", "open", "loaded"}
             \/ Untouched(c)
  BY <1>0, <1>1 DEF FirstTryInv
<1>2. ASSUME UNCHANGED <<dest, sidecars>>, Untouched(c)
      PROVE  Untouched(c)'
  BY <1>2 DEF Untouched, RowsOf
<1>3. CASE c \notin landing
  <2>1. UNCHANGED <<dest, sidecars>>
    BY <1>3 DEF Next, vars, run_vars, operator_vars, Arrive, StartRun, Claim, Reject, LoadFails,
       LandRows, LandsAndFails, OpenSidecar, WriteSidecar, FinalizeFails, RecordOutcome, EndRun, Crash,
       Redrop, Drop
  <2> QED BY <1>2, <1>3, <2>1, NewIsUntouched DEF Untouched
<1>4. CASE c \in landing
  <2>1. CASE UNCHANGED vars \/ (\E d \in Original : Arrive(d)) \/ (\E d \in DOMAIN sidecars : Redrop(d))
             \/ (\E d \in DOMAIN outputs : \E corrected \in SUBSET outputs[d] : Drop(d, corrected))
    <3>1. UNCHANGED <<audit, dest, sidecars, pc, cur>>
      BY <2>1 DEF vars, run_vars, operator_vars, Arrive, Redrop, Drop
    <3> QED BY <1>1, <1>2, <1>4, <3>1
  <2>2. CASE StartRun
    <3>1. c \in DOMAIN audit /\ audit[c].state = "COMMITTED" =>
              c \in DOMAIN audit' /\ audit'[c].state = "COMMITTED"
      BY <1>4, <2>2 DEF StartRun, Released
    <3> QED BY <1>1, <1>2, <1>4, <2>2, <3>1 DEF StartRun
  <2>3. CASE \E d \in todo : Claim(d)
    <3>1. PICK d \in todo : Claim(d)
      BY <2>3
    <3>2. d \in DOMAIN audit /\ audit[d].state = "PENDING"
      BY DEF TypeOK, TodoInv
    <3> QED BY <1>1, <1>2, <1>4, <3>1, <3>2 DEF Claim
  <2>4. CASE Reject \/ LoadFails \/ EndRun
    BY <1>1, <1>2, <1>4, <2>4 DEF Reject, LoadFails, EndRun
  <2>5. CASE LandRows \/ LandsAndFails
    <3>1. c # cur => RowsOf(c)' = RowsOf(c)
      BY <2>5, LandedRows DEF LandRows, LandsAndFails, Loading
    <3>2. c = cur => pc' \in {"landed", "loaded"}
      BY <2>5 DEF LandRows, LandsAndFails
    <3> QED BY <1>1, <1>4, <2>5, <3>1, <3>2 DEF LandRows, LandsAndFails, Untouched
  <2>6. CASE OpenSidecar \/ WriteSidecar
    <3>1. UNCHANGED <<audit, dest, cur>> /\ pc' \in {"open", "loaded"} /\ pc \in {"landed", "open"}
      BY <2>6 DEF OpenSidecar, WriteSidecar
    <3>2. c # cur /\ c \notin DOMAIN sidecars => c \notin DOMAIN sidecars'
      BY <2>6 DEF OpenSidecar, WriteSidecar, Put
    <3> QED BY <1>1, <1>4, <3>1, <3>2 DEF Untouched, RowsOf
  <2>7. CASE FinalizeFails \/ Crash
    <3>1. UNCHANGED <<audit, dest>>
      BY <2>7 DEF FinalizeFails, Crash
    <3>2. ~(c = cur /\ pc \in {"landed", "open", "loaded"})
      BY <2>7 DEF FinalizeFails, Crash
    <3>3. c \notin DOMAIN sidecars => c \notin DOMAIN sidecars'
      BY <2>7 DEF FinalizeFails, Crash, CutSidecar
    <3> QED BY <1>1, <1>4, <3>1, <3>2, <3>3 DEF Untouched, RowsOf
  <2>8. CASE RecordOutcome
    <3>1. cur \in DOMAIN audit /\ UNCHANGED <<dest, sidecars>> /\ DOMAIN audit' = DOMAIN audit
      BY <2>8 DEF RecordOutcome, TypeOK, Loading
    <3>2. CASE c # cur
      BY <1>1, <1>2, <1>4, <2>8, <3>1, <3>2 DEF RecordOutcome
    <3>3. CASE c = cur /\ pc = "loaded"
      BY <2>8, <3>1, <3>3 DEF RecordOutcome
    <3>4. CASE c = cur /\ pc = "errored"
      BY <1>1, <1>2, <1>4, <3>1, <3>4 DEF TypeOK, Loading
    <3> QED BY <2>8, <3>2, <3>3, <3>4 DEF RecordOutcome
  <2> QED BY <2>1, <2>2, <2>3, <2>4, <2>5, <2>6, <2>7, <2>8 DEF Next
<1> QED BY <1>3, <1>4

LEMMA TodoStep ==
    ASSUME TypeOK, TodoInv, [Next]_vars
    PROVE  TodoInv'
<1>1. CASE StartRun
  BY <1>1 DEF StartRun, TodoInv
<1>2. CASE \E c \in todo : Claim(c)
  BY <1>2 DEF Claim, TodoInv, TypeOK
<1>3. CASE RecordOutcome
  <2>1. cur \notin todo
    BY <1>3 DEF RecordOutcome, TypeOK, Loading, TodoInv
  <2> QED BY <1>3, <2>1 DEF RecordOutcome, TodoInv, TypeOK
<1>4. CASE Crash
  BY <1>4 DEF Crash, TodoInv
<1>5. CASE UNCHANGED <<audit, todo>>
  BY <1>5 DEF TodoInv
<1> QED BY <1>1, <1>2, <1>3, <1>4, <1>5
        DEF Next, vars, run_vars, Arrive, Reject, LoadFails, LandRows, LandsAndFails, OpenSidecar, WriteSidecar,
            FinalizeFails, EndRun, Redrop, Drop

\* What Strict Mode, the threshold or a connector refuses leaves no row and no sidecar,
\* unless an attempt at the same file was killed or failed after the destination's
\* commit.
THEOREM FailureIsClean == Spec => []CleanFailure
<1> DEFINE Inv == TypeOK /\ TodoInv /\ FirstTryInv
<1>1. Init => Inv
  <2>1. Init => TypeOK
    BY QuarantineAssumption DEF Init, TypeOK, Loading, PC, QuarantineAssumption
  <2> QED BY <2>1 DEF Init, TodoInv, FirstTryInv
<1>2. Inv /\ [Next]_vars => Inv'
  BY TypeStep, TodoStep, FirstTryStep
<1>3. Inv => CleanFailure
  <2> SUFFICES ASSUME Inv, NEW c \in DOMAIN audit \ disturbed,
                      audit[c].state \in {"FAILED", "PENDING"}
               PROVE  Untouched(c)
    BY DEF CleanFailure, Untouched
  <2>1. c \in landing \ disturbed
    BY DEF TypeOK
  <2> QED BY <2>1 DEF FirstTryInv, TypeOK, Loading
<1> QED BY <1>1, <1>2, <1>3, PTL DEF Spec

\* Until something first fails after a commit, a sidecar is of a file that has
\* committed with quarantined rows, or that is on its way there.
Noted(c) == audit[c].state = "COMMITTED" /\ audit[c].quarantine_path

SidecarInv ==
    disturbed = {} =>
        /\ pc \in {"landed", "open"} => Bad(cur) # {}
        /\ \A c \in DOMAIN sidecars :
               \/ Noted(c)
               \/ c = cur /\ pc \in {"open", "loaded"} /\ Bad(c) # {}

LEMMA SidecarStep ==
    ASSUME TypeOK, TodoInv, SidecarInv, [Next]_vars
    PROVE  SidecarInv'
<1> SUFFICES ASSUME disturbed' = {} PROVE SidecarInv'
  BY DEF SidecarInv
<1> USE DEF fault_vars
<1>1. ASSUME UNCHANGED <<config, audit, sidecars, pc, cur, disturbed>> PROVE SidecarInv'
  BY <1>1 DEF SidecarInv, Noted, Bad, Good
<1>2. CASE UNCHANGED vars \/ (\E d \in Original : Arrive(d)) \/ (\E d \in DOMAIN sidecars : Redrop(d))
           \/ (\E d \in DOMAIN outputs : \E corrected \in SUBSET outputs[d] : Drop(d, corrected))
  BY <1>1, <1>2 DEF vars, run_vars, Arrive, Redrop, Drop
<1>3. CASE StartRun
  <2>1. \A c \in DOMAIN sidecars : Noted(c)
    BY <1>3 DEF StartRun, SidecarInv
  <2>2. \A c \in DOMAIN sidecars : audit'[c] = audit[c]
    BY <1>3, <2>1 DEF StartRun, Released, Noted, TypeOK
  <2> QED BY <1>3, <2>1, <2>2 DEF StartRun, SidecarInv, Noted
<1>4. ASSUME NEW d \in todo, Claim(d) PROVE SidecarInv'
  <2>1. \A c \in DOMAIN sidecars : Noted(c)
    BY <1>4 DEF Claim, SidecarInv
  <2>2. d \in DOMAIN audit /\ audit[d].state = "PENDING"
    BY DEF TypeOK, TodoInv
  <2>3. \A c \in DOMAIN sidecars : c \in DOMAIN audit /\ c # d
    BY <2>1, <2>2 DEF Noted, TypeOK
  <2>4. \A c \in DOMAIN sidecars : audit'[c] = audit[c]
    BY <1>4, <2>3 DEF Claim
  <2> QED BY <1>4, <2>1, <2>4 DEF Claim, SidecarInv, Noted
<1>5. CASE Reject \/ LoadFails \/ EndRun
  BY <1>5 DEF Reject, LoadFails, EndRun, SidecarInv, Noted
<1>6. CASE LandRows
  <2>1. Bad(cur)' = Bad(cur)
    BY <1>6 DEF LandRows, Bad, Good
  <2> QED BY <1>6, <2>1 DEF LandRows, SidecarInv, Noted
<1>7. CASE OpenSidecar \/ WriteSidecar
  <2>1. /\ UNCHANGED <<config, audit, cur, disturbed>>
        /\ pc \in {"landed", "open"} /\ pc' \in {"open", "loaded"}
        /\ DOMAIN sidecars' \subseteq DOMAIN sidecars \cup {cur}
    BY <1>7 DEF OpenSidecar, WriteSidecar, Put
  <2>2. Bad(cur) # {}
    BY <2>1 DEF SidecarInv
  <2>3. \A c \in DOMAIN sidecars : Noted(c) \/ c = cur
    BY <2>1 DEF SidecarInv
  <2> QED BY <2>1, <2>2, <2>3 DEF SidecarInv, Noted, Bad, Good
<1>8. CASE FinalizeFails \/ LandsAndFails
  BY <1>8 DEF FinalizeFails, LandsAndFails
<1>10. CASE Crash
  <2>1. pc \notin {"landed", "open", "loaded"} /\ disturbed = {}
    BY <1>10 DEF Crash
  <2>2. \A c \in DOMAIN sidecars : Noted(c)
    BY <2>1 DEF SidecarInv
  <2> QED BY <1>10, <2>1, <2>2 DEF Crash, SidecarInv, Noted
<1>9. CASE RecordOutcome
  <2>1. /\ cur \in DOMAIN audit /\ audit[cur].state = "PROCESSING"
        /\ pc \in {"loaded", "errored"} /\ pc' = "running"
        /\ UNCHANGED <<config, sidecars, disturbed>>
    BY <1>9 DEF RecordOutcome, TypeOK, Loading
  <2>2. \A c \in DOMAIN sidecars : c # cur => audit'[c] = audit[c] /\ Noted(c)
    BY <1>9, <2>1 DEF RecordOutcome, SidecarInv, TypeOK
  <2>3. cur \in DOMAIN sidecars => pc = "loaded" /\ Bad(cur) # {}
    BY <2>1 DEF SidecarInv, Noted
  <2>4. ASSUME cur \in DOMAIN sidecars
        PROVE  audit'[cur].state = "COMMITTED" /\ audit'[cur].quarantine_path
    <3> DEFINE path == Bad(cur) # {}
    <3>1. audit'[cur].state = "COMMITTED" /\ audit'[cur].quarantine_path = path
      BY <1>9, <2>1, <2>3, <2>4 DEF RecordOutcome
    <3>2. path
      BY <2>3, <2>4
    <3> HIDE DEF path
    <3> QED BY <3>1, <3>2
  <2>5. \A c \in DOMAIN sidecars : audit'[c].state = "COMMITTED" /\ audit'[c].quarantine_path
    <3>1. \A c \in DOMAIN sidecars : c # cur => audit'[c].state = "COMMITTED" /\ audit'[c].quarantine_path
      BY <2>2, Zenon DEF Noted
    <3> QED BY <2>4, <3>1, Zenon
  <2>6. \A c \in DOMAIN sidecars' : Noted(c)'
    <3> SUFFICES ASSUME NEW c \in DOMAIN sidecars'
                 PROVE  audit'[c].state = "COMMITTED" /\ audit'[c].quarantine_path
      BY DEF Noted
    <3>1. c \in DOMAIN sidecars
      BY <2>1
    <3> QED BY <2>5, <3>1, Zenon
  <2>7. pc' \notin {"landed", "open"}
    BY <2>1
  <2> QED BY <2>6, <2>7 DEF SidecarInv
<1> QED BY <1>2, <1>3, <1>4, <1>5, <1>6, <1>7, <1>8, <1>9, <1>10 DEF Next

\* Between Runs a sidecar's presence always means a real quarantine (the docstring
\* of QuarantineSink) as long as nothing was killed or failed after a destination's
\* commit.
THEOREM SidecarIsNoted == Spec => [](disturbed = {} => SidecarMeansQuarantine)
<1> DEFINE Inv == TypeOK /\ TodoInv /\ SidecarInv
<1>1. Init => Inv
  <2>1. Init => TypeOK
    BY QuarantineAssumption DEF Init, TypeOK, Loading, PC, QuarantineAssumption
  <2> QED BY <2>1 DEF Init, TodoInv, SidecarInv
<1>2. Inv /\ [Next]_vars => Inv'
  BY TypeStep, TodoStep, SidecarStep
<1>3. Inv => (disturbed = {} => SidecarMeansQuarantine)
  BY DEF SidecarInv, Noted, SidecarMeansQuarantine
<1> QED BY <1>1, <1>2, <1>3, PTL DEF Spec

-----------------------------------------------------------------------------
(***************************************************************************)
(* A row is in one place.  The rows of a file that was dropped are those   *)
(* of a file that arrived before; the file that answers for one of them    *)
(* hands it on when its sidecar is redropped, and only then.               *)
(***************************************************************************)
Committed(c) == c \in DOMAIN audit /\ audit[c].state = "COMMITTED"

RowsArrived ==
    \A d \in landing : \A r \in DOMAIN d : \E e \in Original \cap landing : r \in DOMAIN e

RowsOfItsFile == \A d \in landing : RowsOf(d) \subseteq DOMAIN d

TakenCommitted == \A c \in taken : Committed(c)

OneAnswers == \A r : \A d, e \in landing : AnswersFor(d, r) /\ AnswersFor(e, r) => d = e

SomeAnswers == \A d \in landing : \A r \in DOMAIN d : \E e \in landing : AnswersFor(e, r)

PlaceInv == RowsArrived /\ RowsOfItsFile /\ TakenCommitted /\ OneAnswers /\ SomeAnswers

\* A step that does not change what d answers for.
Quiet(d) ==
    \/ ~Committed(d) /\ ~Committed(d)'
    \/ /\ Committed(d) /\ Committed(d)' /\ audit'[d] = audit[d]
       /\ RowsOf(d)' = RowsOf(d)
       /\ audit[d].quarantine_path => sidecars'[d] = sidecars[d]

LEMMA AnswerStays ==
    ASSUME NEW d, Quiet(d), taken' = taken
    PROVE  \A r : AnswersFor(d, r)' <=> AnswersFor(d, r)
<1>1. CASE ~Committed(d) /\ ~Committed(d)'
  BY <1>1 DEF Committed, AnswersFor
<1>2. CASE Committed(d)
  <2>1. /\ Committed(d) /\ Committed(d)' /\ audit'[d] = audit[d]
        /\ RowsOf(d)' = RowsOf(d)
        /\ audit[d].quarantine_path => sidecars'[d] = sidecars[d]
    BY <1>2 DEF Quiet
  <2> QED BY <2>1 DEF Committed, AnswersFor
<1> QED BY <1>1, <1>2 DEF Quiet

\* So all is as it was when no file is dropped and every file is quiet.
LEMMA PlacesStay ==
    ASSUME TypeOK, PlaceInv, landing' = landing, taken' = taken,
           \A d \in landing : Quiet(d),
           RowsOfItsFile'
    PROVE  PlaceInv'
<1>1. \A d \in landing : \A r : AnswersFor(d, r)' <=> AnswersFor(d, r)
  BY AnswerStays
<1>2. RowsArrived'
  BY DEF PlaceInv, RowsArrived
<1>3. TakenCommitted'
  <2> SUFFICES ASSUME NEW c \in taken PROVE Committed(c)'
    BY DEF TakenCommitted
  <2>1. Committed(c) /\ c \in landing
    BY DEF PlaceInv, TakenCommitted, Committed, TypeOK
  <2> QED BY <2>1 DEF Quiet
<1>4. OneAnswers' /\ SomeAnswers'
  BY <1>1 DEF PlaceInv, OneAnswers, SomeAnswers
<1> QED BY <1>2, <1>3, <1>4 DEF PlaceInv

\* A file answers for rows of its own only.
LEMMA AnswersForItsOwn ==
    ASSUME TypeOK, CommittedIsAccounted, RowsOfItsFile, NEW d \in landing, NEW r, AnswersFor(d, r)
    PROVE  r \in DOMAIN d
<1>1. CASE Committed(d)
  <2>1. RowsOf(d) \subseteq DOMAIN d
    BY DEF RowsOfItsFile
  <2>2. audit[d].quarantine_path => sidecars[d].rows = DOMAIN d \ RowsOf(d)
    BY <1>1, AccountedParts, SidecarIsWhole DEF Committed
  <2> QED BY <1>1, <2>1, <2>2 DEF AnswersFor, Committed
<1>2. CASE ~Committed(d)
  BY <1>2 DEF AnswersFor, Committed
<1> QED BY <1>1, <1>2

\* A file with new rows arrives: nothing answers for one of them but itself.
LEMMA ArrivePlaces ==
    ASSUME StoresInv, PlaceInv, NEW c \in Original, Arrive(c)
    PROVE  PlaceInv'
<1>1. /\ c \notin landing /\ landing' = landing \cup {c} /\ taken' = taken
      /\ UNCHANGED <<audit, dest, sidecars>>
  BY DEF Arrive
<1>2. \A d, r : AnswersFor(d, r)' <=> AnswersFor(d, r)
  BY <1>1 DEF AnswersFor, RowsOf
<1>3. c \notin DOMAIN audit
  BY <1>1 DEF StoresInv, TypeOK
<1>4. \A r : AnswersFor(c, r) <=> r \in DOMAIN c
  BY <1>3 DEF AnswersFor
<1>5. \A d \in landing : \A r : ~(AnswersFor(d, r) /\ AnswersFor(c, r))
  <2> SUFFICES ASSUME NEW d \in landing, NEW r, AnswersFor(d, r), r \in DOMAIN c
               PROVE  FALSE
    BY <1>4
  <2>1. r \in DOMAIN d
    BY AnswersForItsOwn DEF StoresInv, PlaceInv
  <2>2. PICK e \in Original \cap landing : r \in DOMAIN e
    BY <2>1 DEF PlaceInv, RowsArrived
  <2>3. e # c
    BY <1>1
  <2> QED BY <2>2, <2>3, QuarantineAssumption DEF QuarantineAssumption
<1>6. RowsArrived'
  BY <1>1 DEF PlaceInv, RowsArrived
<1>7. RowsOfItsFile'
  BY <1>1, NewIsUntouched DEF PlaceInv, RowsOfItsFile, RowsOf, StoresInv
<1>8. TakenCommitted'
  BY <1>1 DEF PlaceInv, TakenCommitted, Committed
<1>9. OneAnswers'
  BY <1>1, <1>2, <1>5 DEF PlaceInv, OneAnswers
<1>10. SomeAnswers'
  BY <1>1, <1>2, <1>4 DEF PlaceInv, SomeAnswers
<1> QED BY <1>6, <1>7, <1>8, <1>9, <1>10 DEF PlaceInv

\* The rows of a sidecar pass from the file that quarantined them to the one that
\* is dropped.
LEMMA DropPlaces ==
    ASSUME StoresInv, PlaceInv, Careful,
           NEW c \in DOMAIN outputs, NEW corrected \in SUBSET outputs[c], Drop(c, corrected)
    PROVE  PlaceInv'
<1>1. PICK new : /\ new = [r \in outputs[c] |-> IF r \in corrected THEN Version ELSE c[r]]
                 /\ new \notin landing /\ landing' = landing \cup {new}
  BY DEF Drop
<1>2. /\ DOMAIN new = outputs[c] /\ outputs[c] = sidecars[c].rows
      /\ c \notin taken /\ taken' = taken \cup {c}
      /\ UNCHANGED <<audit, dest, sidecars>>
      /\ Committed(c) /\ audit[c].quarantine_path
  BY <1>1 DEF Drop, Due, Committed
<1>3. c \in landing /\ new \notin DOMAIN audit /\ new # c
  BY <1>1, <1>2 DEF StoresInv, TypeOK, Committed
<1>4. sidecars[c].rows = DOMAIN c \ RowsOf(c)
  BY <1>2, AccountedParts, SidecarIsWhole DEF StoresInv, Committed
<1>5. \A d \in landing \ {c} : \A r : AnswersFor(d, r)' <=> AnswersFor(d, r)
  BY <1>2 DEF AnswersFor, RowsOf
<1>6. \A r : /\ AnswersFor(c, r) <=> r \in RowsOf(c) \/ r \in DOMAIN new
             /\ AnswersFor(c, r)' <=> r \in RowsOf(c)
             /\ AnswersFor(new, r)' <=> r \in DOMAIN new
  BY <1>2, <1>3 DEF AnswersFor, Committed, RowsOf
<1>7. \A r : ~(r \in RowsOf(c) /\ r \in DOMAIN new)
  BY <1>2, <1>4
<1>8. DOMAIN new \subseteq DOMAIN c
  BY <1>2, <1>4
<1>9. RowsArrived'
  BY <1>1, <1>3, <1>8 DEF PlaceInv, RowsArrived
<1>10. RowsOfItsFile'
  BY <1>1, <1>2, NewIsUntouched DEF PlaceInv, RowsOfItsFile, RowsOf, StoresInv
<1>11. TakenCommitted'
  BY <1>2 DEF PlaceInv, TakenCommitted, Committed
<1>12. OneAnswers'
  <2> SUFFICES ASSUME NEW r, NEW d \in landing', NEW e \in landing',
                      AnswersFor(d, r)', AnswersFor(e, r)'
               PROVE  d = e
    BY DEF OneAnswers
  <2>1. ASSUME NEW a \in landing, AnswersFor(a, r)' PROVE AnswersFor(a, r)
    BY <1>5, <1>6, <2>1
  <2>2. ASSUME NEW a \in landing, AnswersFor(a, r)', AnswersFor(new, r)' PROVE FALSE
    <3>1. AnswersFor(a, r) /\ AnswersFor(c, r)
      BY <1>6, <2>1, <2>2
    <3>2. a = c
      BY <1>3, <3>1 DEF PlaceInv, OneAnswers
    <3> QED BY <1>6, <1>7, <2>2, <3>2
  <2>3. CASE d \in landing /\ e \in landing
    BY <2>1, <2>3 DEF PlaceInv, OneAnswers
  <2> QED BY <1>1, <2>2, <2>3
<1>13. SomeAnswers'
  <2> SUFFICES ASSUME NEW d \in landing', NEW r \in DOMAIN d
               PROVE  \E e \in landing' : AnswersFor(e, r)'
    BY DEF SomeAnswers
  <2>1. CASE r \in DOMAIN new
    BY <1>1, <1>6, <2>1
  <2>2. CASE r \notin DOMAIN new
    <3>1. PICK e \in landing : AnswersFor(e, r)
      BY <1>1, <2>2 DEF PlaceInv, SomeAnswers
    <3> QED BY <1>1, <1>5, <1>6, <2>2, <3>1
  <2> QED BY <2>1, <2>2
<1> QED BY <1>9, <1>10, <1>11, <1>12, <1>13 DEF PlaceInv

\* A file is COMMITTED: the rows it had to answer for are in the destination or in
\* its sidecar.
LEMMA RecordPlaces ==
    ASSUME StoresInv, StoresInv', PlaceInv, RecordOutcome
    PROVE  PlaceInv'
<1>1. PICK f : f = cur
  OBVIOUS
<1>2. /\ f \in DOMAIN audit /\ f \in landing /\ ~Committed(f)
      /\ UNCHANGED <<landing, taken, dest, sidecars>>
      /\ DOMAIN audit' = DOMAIN audit
      /\ \A c \in DOMAIN audit \ {f} : audit'[c] = audit[c]
  BY <1>1 DEF StoresInv, TypeOK, Loading, RecordOutcome, operator_vars, Committed
<1>3. f \notin taken
  BY <1>2 DEF PlaceInv, TakenCommitted
<1>4. \A d \in landing \ {f} : Quiet(d)
  BY <1>2 DEF Quiet, Committed, RowsOf
<1>5. \A d \in landing \ {f} : \A r : AnswersFor(d, r)' <=> AnswersFor(d, r)
  BY <1>2, <1>4, AnswerStays
<1>6. \A r : AnswersFor(f, r)' <=> AnswersFor(f, r)
  <2>1. \A r : AnswersFor(f, r) <=> r \in DOMAIN f
    BY <1>2 DEF AnswersFor, Committed
  <2>2. CASE ~Committed(f)'
    BY <2>1, <2>2 DEF AnswersFor, Committed
  <2>3. CASE Committed(f)'
    <3>1. RowsOf(f)' = RowsOf(f) /\ RowsOf(f) \subseteq DOMAIN f
      BY <1>2 DEF RowsOf, PlaceInv, RowsOfItsFile
    <3>2. AccountedFor(f)'
      BY <2>3 DEF StoresInv, CommittedIsAccounted, AccountedFor, Committed
    <3>3. /\ audit'[f].quarantine_path <=> DOMAIN f \ RowsOf(f) # {}
          /\ DOMAIN f \ RowsOf(f) # {} => sidecars'[f].rows = DOMAIN f \ RowsOf(f)
      BY <3>1, <3>2 DEF AccountedFor
    <3>4. \A r : AnswersFor(f, r)' <=> r \in RowsOf(f) \/ (audit'[f].quarantine_path /\ r \in sidecars'[f].rows)
      BY <1>2, <1>3, <2>3, <3>1 DEF AnswersFor, Committed
    <3>5. \A r : AnswersFor(f, r)' <=> r \in DOMAIN f
      BY <3>1, <3>3, <3>4
    <3> QED BY <2>1, <3>5
  <2> QED BY <2>2, <2>3
<1>7. \A d \in landing : \A r : AnswersFor(d, r)' <=> AnswersFor(d, r)
  BY <1>5, <1>6
<1>8. RowsArrived' /\ RowsOfItsFile'
  BY <1>2 DEF PlaceInv, RowsArrived, RowsOfItsFile, RowsOf
<1>9. TakenCommitted'
  BY <1>2, <1>3 DEF PlaceInv, TakenCommitted, Committed
<1>10. OneAnswers' /\ SomeAnswers'
  BY <1>2, <1>7 DEF PlaceInv, OneAnswers, SomeAnswers
<1> QED BY <1>8, <1>9, <1>10 DEF PlaceInv

LEMMA SidecarIsThere ==
    ASSUME NEW c, AccountedFor(c), audit[c].quarantine_path
    PROVE  c \in DOMAIN sidecars
<1>1. DOMAIN c \ RowsOf(c) # {}
  BY DEF AccountedFor
<1> QED BY <1>1 DEF AccountedFor

\* Every step keeps each row in its place.
LEMMA PlaceStep ==
    ASSUME StoresInv, PlaceInv, Stable, Careful, [Next]_vars
    PROVE  PlaceInv'
<1>0. StoresInv' /\ TypeOK
  BY StoresStep DEF StoresInv
<1>a. ASSUME UNCHANGED dest PROVE \A d : RowsOf(d)' = RowsOf(d)
  BY <1>a DEF RowsOf
<1>b. ASSUME UNCHANGED <<landing, dest>> PROVE RowsOfItsFile'
  BY <1>b, <1>a DEF PlaceInv, RowsOfItsFile
<1>c. ASSUME Loading PROVE cur \in landing /\ ~Committed(cur)
  BY <1>0, <1>c DEF TypeOK, Committed
<1>d. ASSUME UNCHANGED <<landing, taken, dest, audit>>,
             \A d \in landing : Committed(d) /\ audit[d].quarantine_path
                                    => sidecars'[d] = sidecars[d]
      PROVE  PlaceInv'
  <2>1. \A d \in landing : Quiet(d)
    BY <1>a, <1>d DEF Quiet, Committed
  <2> QED BY <1>0, <1>b, <1>d, <2>1, PlacesStay
<1>e. ASSUME NEW d, Committed(d), audit[d].quarantine_path PROVE d \in DOMAIN sidecars
  <2>1. AccountedFor(d)
    BY <1>e, AccountedParts DEF StoresInv, Committed
  <2> QED BY <1>e, <2>1, SidecarIsThere
<1>1. CASE UNCHANGED vars
  BY <1>1, <1>d DEF vars, operator_vars
<1>2. CASE \E c \in Original : Arrive(c)
  BY <1>2, ArrivePlaces
<1>3. CASE \E c \in DOMAIN sidecars : Redrop(c)
  BY <1>3, <1>d DEF Redrop
<1>4. CASE \E c \in DOMAIN outputs : \E corrected \in SUBSET outputs[c] : Drop(c, corrected)
  BY <1>4, DropPlaces
<1>5. CASE StartRun
  <2>1. \A d \in landing : Quiet(d)
    <3> SUFFICES ASSUME NEW d \in landing PROVE Quiet(d)
      OBVIOUS
    <3>1. CASE Committed(d)
      BY <1>5, <1>a, <3>1 DEF StartRun, Released, Quiet, Committed
    <3>2. CASE ~Committed(d)
      BY <1>5, <3>2, RecordType DEF StartRun, Quiet, Committed
    <3> QED BY <3>1, <3>2
  <2> QED BY <1>0, <1>5, <1>b, <2>1, PlacesStay DEF StartRun, operator_vars
<1>6. CASE \E c \in todo : Claim(c)
  <2>1. PICK c \in todo : Claim(c)
    BY <1>6
  <2>2. c \in DOMAIN audit /\ ~Committed(c)
    BY DEF StoresInv, TypeOK, TodoInv, Committed
  <2>3. \A d \in landing : Quiet(d)
    BY <2>1, <2>2, <1>a, RecordType DEF Claim, Quiet, Committed
  <2> QED BY <1>0, <1>b, <2>1, <2>3, PlacesStay DEF Claim, operator_vars
<1>7. CASE Reject \/ LoadFails \/ EndRun
  BY <1>7, <1>d DEF Reject, LoadFails, EndRun, operator_vars
<1>8. CASE LandRows \/ LandsAndFails
  <2>1. /\ cur \in landing /\ ~Committed(cur) /\ UNCHANGED <<landing, taken, audit, sidecars>>
        /\ CommitRows /\ Loading /\ cur' = cur
    BY <1>8, <1>c DEF LandRows, LandsAndFails, Loading, operator_vars
  <2>2. PICK f : f = cur /\ cur' = f
    BY <2>1
  <2>3. /\ \A d : d # f => RowsOf(d)' = RowsOf(d)
        /\ RowsOf(f)' = Good(f) \/ dest' = dest
    BY <1>0, <2>1, <2>2, LandedRows
  <2>4. \A d \in landing : Quiet(d)
    BY <2>1, <2>2, <2>3 DEF Quiet, Committed
  <2>5. RowsOf(f)' \subseteq DOMAIN f
    <3>1. Good(f) \subseteq DOMAIN f
      BY DEF Good
    <3>2. RowsOf(f) \subseteq DOMAIN f
      BY <2>1, <2>2 DEF PlaceInv, RowsOfItsFile
    <3> QED BY <1>a, <2>3, <3>1, <3>2
  <2>6. RowsOfItsFile'
    BY <2>1, <2>3, <2>5 DEF PlaceInv, RowsOfItsFile
  <2> QED BY <1>0, <2>1, <2>4, <2>6, PlacesStay
<1>9. CASE OpenSidecar \/ WriteSidecar
  <2>1. UNCHANGED <<landing, taken, dest, audit>> /\ Loading
    BY <1>9 DEF OpenSidecar, WriteSidecar, operator_vars, Loading
  <2>2. \A d \in DOMAIN sidecars \ {cur} : sidecars'[d] = sidecars[d]
    BY <1>9 DEF OpenSidecar, WriteSidecar, Put
  <2> QED BY <1>c, <1>d, <1>e, <2>1, <2>2
<1>10. CASE FinalizeFails \/ Crash
  <2>1. UNCHANGED <<landing, taken, dest, audit>>
    BY <1>10 DEF FinalizeFails, Crash, operator_vars
  <2>2. CASE UNCHANGED sidecars
    BY <1>d, <2>1, <2>2
  <2>3. CASE CutSidecar /\ Loading
    <3>1. \A d : d # cur /\ d \in DOMAIN sidecars => sidecars'[d] = sidecars[d]
      BY <2>3 DEF CutSidecar
    <3> QED BY <1>c, <1>d, <1>e, <2>1, <2>3, <3>1
  <2> QED BY <1>10, <2>2, <2>3 DEF FinalizeFails, Crash, Loading
<1>11. CASE RecordOutcome
  BY <1>0, <1>11, RecordPlaces
<1> QED BY <1>1, <1>2, <1>3, <1>4, <1>5, <1>6, <1>7, <1>8, <1>9, <1>10, <1>11 DEF Next

\* Every row that has arrived is answered for by exactly one file, through rejections,
\* retries, half-written sidecars, and corrections that are quarantined again, as
\* long as operators redrop what a record lists, once.
THEOREM RowsInOnePlace ==
    ASSUME Stable, Careful
    PROVE  Spec => []RowInOnePlace
<1> DEFINE Inv == StoresInv /\ PlaceInv
<1>1. Init => Inv
  <2>1. Init => TypeOK
    BY QuarantineAssumption DEF Init, TypeOK, Loading, PC, QuarantineAssumption
  <2>2. Init => StoresInv
    BY <2>1 DEF Init, StoresInv, TodoInv, HandInv, KeepInv, CommittedIsAccounted
  <2>3. Init => PlaceInv
    BY DEF Init, PlaceInv, RowsArrived, RowsOfItsFile, TakenCommitted, OneAnswers, SomeAnswers
  <2> QED BY <2>2, <2>3
<1>2. Inv /\ [Next]_vars => Inv'
  BY StoresStep, PlaceStep
<1>3. Inv => RowInOnePlace
  <2> SUFFICES ASSUME PlaceInv, NEW c \in landing, NEW r \in DOMAIN c
               PROVE  Cardinality({d \in landing : AnswersFor(d, r)}) = 1
    BY DEF RowInOnePlace
  <2>1. PICK e \in landing : AnswersFor(e, r)
    BY DEF PlaceInv, SomeAnswers
  <2>2. {d \in landing : AnswersFor(d, r)} = {e}
    BY <2>1 DEF PlaceInv, OneAnswers
  <2> QED BY <2>2, FS_Singleton
<1> QED BY <1>1, <1>2, <1>3, PTL DEF Spec
==============================================================================
