-------------------------- MODULE FiledgeRun_proofs --------------------------
(***************************************************************************)
(* Proofs about FiledgeRun, for every set of workers, operators, files and *)
(* hashes, every cap, timeout and number of crashes.                       *)
(***************************************************************************)
EXTENDS FiledgeRun, FiniteSetTheorems, TLAPS

-----------------------------------------------------------------------------
(***************************************************************************)
(* The statements of the Audit DB.                                         *)
(***************************************************************************)

\* Every SET clause returns a row.
LEMMA RowTypes ==
    ASSUME NEW row \in Row
    PROVE  /\ \A state \in FileState : InState(row, state) \in Row
           /\ CountAttempt(row) \in Row
           /\ FreshBudget(row) \in Row
           /\ row.state = "PROCESSING" /\ ~IsStale(row) => Older(row) \in Row
  <1>1. ASSUME NEW state \in FileState PROVE InState(row, state) \in Row
    <2>1. [row EXCEPT !.state = state] \in Row
      BY DEF Row, FileState
    <2>2. ASSUME NEW r \in Row PROVE [r EXCEPT !.claim_age = 0] \in Row
      BY AuditDbAssumption DEF Row
    <2>3. QED
      BY <2>1, <2>2 DEF InState
  <1>2. CountAttempt(row) \in Row
    BY DEF CountAttempt, Row
  <1>3. FreshBudget(row) \in Row
    BY DEF FreshBudget, Row
  <1>4. row.state = "PROCESSING" /\ ~IsStale(row) => Older(row) \in Row
    BY AuditDbAssumption DEF Older, IsStale, Row
  <1>5. QED
    BY <1>1, <1>2, <1>3, <1>4

\* Every statement returns a table: those that name one hash ...
LEMMA StatementTypes ==
    ASSUME NEW table \in [Hash -> Row], NEW h \in Hash
    PROVE  /\ ClaimProcessing(table, h) \in [Hash -> Row]
           /\ MarkCommitted(table, h) \in [Hash -> Row]
           /\ MarkFailed(table, h) \in [Hash -> Row]
           /\ RequeueByHash(table, h) \in [Hash -> Row]
  <1>1. ClaimProcessing(table, h) \in [Hash -> Row]
    BY RowTypes DEF ClaimProcessing, FileState
  <1>2. MarkCommitted(table, h) \in [Hash -> Row]
    BY RowTypes DEF MarkCommitted, FileState
  <1>3. MarkFailed(table, h) \in [Hash -> Row]
    BY RowTypes DEF MarkFailed, FileState
  <1>4. RequeueByHash(table, h) \in [Hash -> Row]
    BY RowTypes DEF RequeueByHash, FileState
  <1>5. QED
    BY <1>1, <1>2, <1>3, <1>4

\* ... and those that select rows by a condition.
LEMMA BulkStatementTypes ==
    ASSUME NEW table \in [Hash -> Row]
    PROVE  /\ \A new, withManifest :
                 InsertPending(table, new, withManifest) \in [Hash -> Row]
           /\ ResetAndReclaim(table) \in [Hash -> Row]
           /\ \A cap : RequeueAllTerminalFailed(table, cap) \in [Hash -> Row]
           /\ AgeClaims(table) \in [Hash -> Row]
  <1>1. ASSUME NEW new, NEW withManifest
        PROVE  InsertPending(table, new, withManifest) \in [Hash -> Row]
    BY AuditDbAssumption DEF InsertPending, NewRow, Row, FileState
  <1>2. ResetAndReclaim(table) \in [Hash -> Row]
    BY RowTypes DEF ResetAndReclaim, FileState
  <1>3. ASSUME NEW cap PROVE RequeueAllTerminalFailed(table, cap) \in [Hash -> Row]
    BY RowTypes DEF RequeueAllTerminalFailed, FileState
  <1>4. AgeClaims(table) \in [Hash -> Row]
    BY RowTypes DEF AgeClaims
  <1>5. QED
    BY <1>1, <1>2, <1>3, <1>4

-----------------------------------------------------------------------------
(***************************************************************************)
(* Type correctness.                                                       *)
(***************************************************************************)
LEMMA InitType == Init => TypeOK
  BY AuditDbAssumption, FiledgeRunAssumption
  DEF Init, TypeOK, EmptyTable, NoRow, Row, FileState, PC, Loading

LEMMA TypeStep == TypeOK /\ [Next]_vars => TypeOK'
  <1> SUFFICES ASSUME TypeOK, [Next]_vars PROVE TypeOK'
    OBVIOUS
  <1> USE FiledgeRunAssumption DEF TypeOK, worker_vars, env_vars, Loading, PC
  <1>1. ASSUME NEW p \in Path, NEW b \in BOOLEAN, DropFile(p, b) PROVE TypeOK'
    BY <1>1 DEF DropFile
  <1>2. ASSUME NEW p \in Path, RepairManifest(p) PROVE TypeOK'
    BY <1>2 DEF RepairManifest
  <1>3. CASE Tick
    <2>1. audit' \in [Hash -> Row]
      BY <1>3, BulkStatementTypes DEF Tick
    <2>2. QED
      BY <1>3, <2>1 DEF Tick
  <1>4. ASSUME NEW w \in Worker, StartRun(w) PROVE TypeOK'
    BY <1>4, BulkStatementTypes DEF StartRun
  <1>5. ASSUME NEW w \in Worker, Scan(w) PROVE TypeOK'
    BY <1>5 DEF Scan, Row
  <1>6. ASSUME NEW w \in Worker, Register(w) PROVE TypeOK'
    <2>1. audit' \in [Hash -> Row]
      BY <1>6, BulkStatementTypes DEF Register
    <2>2. QED
      BY <1>6, <2>1 DEF Register
  <1>7. ASSUME NEW w \in Worker, FailPreload(w) PROVE TypeOK'
    <2>1. PICK p \in preload[w] :
              /\ audit' = MarkFailed(ClaimProcessing(audit, HashOf[p]), HashOf[p])
              /\ preload' = [preload EXCEPT ![w] = @ \ {p}]
      BY <1>7 DEF FailPreload
    <2>2. HashOf[p] \in Hash
      OBVIOUS
    <2>3. audit' \in [Hash -> Row]
      BY <2>1, <2>2, StatementTypes
    <2>4. QED
      BY <1>7, <2>1, <2>3 DEF FailPreload
  <1>8. ASSUME NEW w \in Worker, Claim(w) PROVE TypeOK'
    <2>1. PICK p \in todo[w] :
              /\ todo' = [todo EXCEPT ![w] = @ \ {p}]
              /\ audit' = ClaimProcessing(audit, HashOf[p])
              /\ IF CanClaim(audit, HashOf[p])
                 THEN /\ pc' = [pc EXCEPT ![w] = "claimed"]
                      /\ cur' = [cur EXCEPT ![w] = HashOf[p]]
                 ELSE UNCHANGED <<pc, cur>>
      BY <1>8 DEF Claim
    <2>2. HashOf[p] \in Hash
      OBVIOUS
    <2>3. audit' \in [Hash -> Row]
      BY <2>1, <2>2, StatementTypes
    <2>4. todo' \in [Worker -> SUBSET Path]
      BY <2>1
    <2>5. /\ pc' \in [Worker -> PC]
          /\ cur' \in [Worker -> Hash \cup {NoHash}]
          /\ \A v \in Worker : Loading(v)' <=> cur'[v] # NoHash
      <3>1. CASE CanClaim(audit, HashOf[p])
        BY <2>1, <2>2, <3>1
      <3>2. CASE ~CanClaim(audit, HashOf[p])
        BY <2>1, <3>2
      <3>3. QED
        BY <3>1, <3>2
    <2>6. QED
      BY <1>8, <2>3, <2>4, <2>5 DEF Claim
  <1>9. ASSUME NEW w \in Worker, BeginWrite(w) PROVE TypeOK'
    BY <1>9 DEF BeginWrite
  <1>10. ASSUME NEW w \in Worker, CommitWrite(w) PROVE TypeOK'
    BY <1>10 DEF CommitWrite, LandRows
  <1>11. ASSUME NEW w \in Worker, CommitWriteThenError(w) PROVE TypeOK'
    BY <1>11 DEF CommitWriteThenError, LandRows
  <1>12. ASSUME NEW w \in Worker, FailLoad(w) PROVE TypeOK'
    BY <1>12 DEF FailLoad
  <1>13. ASSUME NEW w \in Worker, RecordOutcome(w) PROVE TypeOK'
    <2>1. cur[w] \in Hash
      BY <1>13 DEF RecordOutcome
    <2>a. audit' = MarkCommitted(audit, cur[w]) \/ audit' = MarkFailed(audit, cur[w])
      BY <1>13 DEF RecordOutcome
    <2>2. audit' \in [Hash -> Row]
      BY <2>1, <2>a, StatementTypes
    <2>3. QED
      BY <1>13, <2>2 DEF RecordOutcome
  <1>14. ASSUME NEW w \in Worker, EndRun(w) PROVE TypeOK'
    BY <1>14 DEF EndRun
  <1>15. ASSUME NEW w \in Worker, Crash(w) PROVE TypeOK'
    BY <1>15 DEF Crash
  <1>16. ASSUME NEW o \in Operator, NEW h \in Hash, RequeueRead(o, h) PROVE TypeOK'
    BY <1>16 DEF RequeueRead
  <1>17. ASSUME NEW o \in Operator, RequeueWrite(o) PROVE TypeOK'
    <2>1. audit' \in [Hash -> Row]
      BY <1>17, StatementTypes DEF RequeueWrite
    <2>2. QED
      BY <1>17, <2>1 DEF RequeueWrite
  <1>18. CASE RequeueAll
    BY <1>18, BulkStatementTypes DEF RequeueAll
  <1>19. CASE UNCHANGED vars
    BY <1>19 DEF vars
  <1>20. QED
    <2> HIDE DEF TypeOK, Loading, PC
    <2>1. ASSUME NEW w \in Worker, WorkerStep(w) PROVE TypeOK'
      BY <2>1, <1>4, <1>5, <1>6, <1>7, <1>8, <1>9, <1>10, <1>11, <1>12, <1>13, <1>14 DEF WorkerStep
    <2>2. QED
      BY <2>1, <1>1, <1>2, <1>3, <1>15, <1>16, <1>17, <1>18, <1>19 DEF Next

\* The variables of FiledgeRun keep their types in every Run, crash and requeue.
THEOREM TypeCorrect == Spec => []TypeOK
  BY InitType, TypeStep, PTL DEF Spec

-----------------------------------------------------------------------------
(***************************************************************************)
(* COMMITTED is never a lie.                                               *)
(***************************************************************************)

\* The fields a SET clause leaves behind.
LEMMA RowFields ==
    ASSUME NEW row \in Row, NEW s \in FileState
    PROVE  /\ InState(row, s).state = s
           /\ InState(row, s).claim_age = 0
           /\ InState(row, s).attempt_count = row.attempt_count
           /\ CountAttempt(row).state = row.state
           /\ CountAttempt(row).claim_age = row.claim_age
           /\ CountAttempt(row).attempt_count = row.attempt_count + 1
           /\ FreshBudget(row).state = row.state
           /\ FreshBudget(row).claim_age = row.claim_age
           /\ FreshBudget(row).attempt_count = 0
           /\ Older(row).state = row.state
           /\ Older(row).claim_age = row.claim_age + 1
           /\ Older(row).attempt_count = row.attempt_count
  BY DEF InState, CountAttempt, FreshBudget, Older, Row

\* Only mark_committed makes a row COMMITTED.
LEMMA NobodyElseCommits ==
    ASSUME NEW table \in [Hash -> Row], NEW h \in Hash
    PROVE  /\ \A new, withManifest :
                 InsertPending(table, new, withManifest)[h].state = "COMMITTED"
                     => table[h].state = "COMMITTED"
           /\ ResetAndReclaim(table)[h].state = "COMMITTED" => table[h].state = "COMMITTED"
           /\ AgeClaims(table)[h].state = "COMMITTED" => table[h].state = "COMMITTED"
           /\ \A cap : RequeueAllTerminalFailed(table, cap)[h].state = "COMMITTED"
                     => table[h].state = "COMMITTED"
           /\ \A g \in Hash :
                 /\ ClaimProcessing(table, g)[h].state = "COMMITTED" => table[h].state = "COMMITTED"
                 /\ MarkFailed(table, g)[h].state = "COMMITTED" => table[h].state = "COMMITTED"
                 /\ RequeueByHash(table, g)[h].state = "COMMITTED" => table[h].state = "COMMITTED"
                 /\ MarkCommitted(table, g)[h].state = "COMMITTED" => h = g \/ table[h].state = "COMMITTED"
  <1> table[h] \in Row
    OBVIOUS
  <1>1. \A new, withManifest :
            InsertPending(table, new, withManifest)[h].state = "COMMITTED"
                => table[h].state = "COMMITTED"
    BY DEF InsertPending, NewRow
  <1>2. \A r \in Row : /\ InState(r, "PENDING").state = "PENDING"
                       /\ CountAttempt(InState(r, "PENDING")).state = "PENDING"
                       /\ FreshBudget(InState(r, "PENDING")).state = "PENDING"
                       /\ InState(r, "PROCESSING").state = "PROCESSING"
                       /\ CountAttempt(InState(r, "FAILED")).state = "FAILED"
                       /\ Older(r).state = r.state
    <2> TAKE r \in Row
    <2>1. /\ InState(r, "PENDING") \in Row
          /\ InState(r, "FAILED") \in Row
      BY RowTypes DEF FileState
    <2>2. /\ InState(r, "PENDING").state = "PENDING"
          /\ InState(r, "FAILED").state = "FAILED"
          /\ InState(r, "PROCESSING").state = "PROCESSING"
      BY RowFields DEF FileState
    <2>3. \A q \in Row : /\ CountAttempt(q).state = q.state
                         /\ FreshBudget(q).state = q.state
                         /\ Older(q).state = q.state
      BY RowFields DEF FileState
    <2>4. QED
      BY <2>1, <2>2, <2>3
  <1>3. ResetAndReclaim(table)[h].state = "COMMITTED" => table[h].state = "COMMITTED"
    BY <1>2 DEF ResetAndReclaim
  <1>4. AgeClaims(table)[h].state = "COMMITTED" => table[h].state = "COMMITTED"
    BY <1>2 DEF AgeClaims
  <1>5. \A cap : RequeueAllTerminalFailed(table, cap)[h].state = "COMMITTED"
                     => table[h].state = "COMMITTED"
    BY <1>2 DEF RequeueAllTerminalFailed
  <1>6. ASSUME NEW g \in Hash
        PROVE  /\ ClaimProcessing(table, g)[h].state = "COMMITTED" => table[h].state = "COMMITTED"
               /\ MarkFailed(table, g)[h].state = "COMMITTED" => table[h].state = "COMMITTED"
               /\ RequeueByHash(table, g)[h].state = "COMMITTED" => table[h].state = "COMMITTED"
               /\ MarkCommitted(table, g)[h].state = "COMMITTED" => h = g \/ table[h].state = "COMMITTED"
    BY <1>2 DEF ClaimProcessing, MarkFailed, RequeueByHash, MarkCommitted
  <1>7. QED
    BY <1>1, <1>3, <1>4, <1>5, <1>6

LEMMA LandedStep == TypeOK /\ LandedInv /\ [Next]_vars => LandedInv'
  <1> SUFFICES ASSUME TypeOK, LandedInv, [Next]_vars PROVE LandedInv'
    OBVIOUS
  <1> USE FiledgeRunAssumption
      DEF TypeOK, LandedInv, CommittedHasLanded, Loading, worker_vars, env_vars
  \* Steps that neither touch the destination nor mark a row, nor let a worker
  \* reach "landed" or change its file there.
  <1>1. ASSUME /\ \A h \in Hash : audit'[h].state = "COMMITTED"
                                     => audit[h].state = "COMMITTED",
               /\ dest' = dest,
               /\ \A w \in Worker : pc'[w] = "landed"
                      => pc[w] = "landed" /\ cur'[w] = cur[w]
        PROVE  LandedInv'
    BY <1>1
  <1>2. ASSUME NEW p \in Path, NEW b \in BOOLEAN, DropFile(p, b) PROVE LandedInv'
    BY <1>2 DEF DropFile
  <1>3. ASSUME NEW p \in Path, RepairManifest(p) PROVE LandedInv'
    BY <1>3 DEF RepairManifest
  <1>4. CASE Tick
    BY <1>1, <1>4, NobodyElseCommits DEF Tick
  <1>5. ASSUME NEW w \in Worker, StartRun(w) PROVE LandedInv'
    BY <1>1, <1>5, NobodyElseCommits DEF StartRun
  <1>6. ASSUME NEW w \in Worker, Scan(w) PROVE LandedInv'
    BY <1>1, <1>6 DEF Scan
  <1>7. ASSUME NEW w \in Worker, Register(w) PROVE LandedInv'
    <2>a. audit \in [Hash -> Row]
      OBVIOUS
    <2>b. audit' = InsertPending(audit, NewHashes(w), WithManifest(w))
      BY <1>7 DEF Register
    <2>1. \A h \in Hash : audit'[h].state = "COMMITTED" => audit[h].state = "COMMITTED"
      BY ONLY <2>a, <2>b, NobodyElseCommits
    <2>2. \A v \in Worker : pc'[v] = "landed" => pc[v] = "landed" /\ cur'[v] = cur[v]
      BY <1>7 DEF Register
    <2>3. QED
      BY <1>1, <1>7, <2>1, <2>2 DEF Register
  <1>8. ASSUME NEW w \in Worker, FailPreload(w) PROVE LandedInv'
    <2>1. PICK p \in preload[w] :
              audit' = MarkFailed(ClaimProcessing(audit, HashOf[p]), HashOf[p])
      BY <1>8 DEF FailPreload
    <2>2. HashOf[p] \in Hash
      BY ONLY p \in preload[w], w \in Worker, preload \in [Worker -> SUBSET Path],
              FiledgeRunAssumption
    <2> DEFINE claimed == ClaimProcessing(audit, HashOf[p])
    <2>a. claimed \in [Hash -> Row]
      BY <2>2, StatementTypes
    <2>b. \A h \in Hash : claimed[h].state = "COMMITTED" => audit[h].state = "COMMITTED"
      BY <2>2, NobodyElseCommits
    <2> HIDE DEF claimed
    <2>c. \A h \in Hash : MarkFailed(claimed, HashOf[p])[h].state = "COMMITTED"
                            => claimed[h].state = "COMMITTED"
      BY <2>2, <2>a, NobodyElseCommits
    <2>3. \A h \in Hash : audit'[h].state = "COMMITTED" => audit[h].state = "COMMITTED"
      BY <2>1, <2>b, <2>c DEF claimed
    <2>4. QED
      BY <1>1, <1>8, <2>3 DEF FailPreload
  <1>9. ASSUME NEW w \in Worker, Claim(w) PROVE LandedInv'
    <2>1. PICK p \in todo[w] :
              /\ audit' = ClaimProcessing(audit, HashOf[p])
              /\ IF CanClaim(audit, HashOf[p])
                 THEN /\ pc' = [pc EXCEPT ![w] = "claimed"]
                      /\ cur' = [cur EXCEPT ![w] = HashOf[p]]
                 ELSE UNCHANGED <<pc, cur>>
      BY <1>9 DEF Claim
    <2>2. HashOf[p] \in Hash
      OBVIOUS
    <2>3. \A h \in Hash : audit'[h].state = "COMMITTED" => audit[h].state = "COMMITTED"
      BY <2>1, <2>2, NobodyElseCommits
    <2>4. \A v \in Worker : pc'[v] = "landed" => pc[v] = "landed" /\ cur'[v] = cur[v]
      BY <2>1
    <2>5. QED
      BY <1>1, <1>9, <2>3, <2>4 DEF Claim
  <1>10. ASSUME NEW w \in Worker, BeginWrite(w) PROVE LandedInv'
    BY <1>1, <1>10 DEF BeginWrite
  <1>11. ASSUME NEW w \in Worker, CommitWrite(w) PROVE LandedInv'
    BY <1>11 DEF CommitWrite, LandRows
  <1>12. ASSUME NEW w \in Worker, CommitWriteThenError(w) PROVE LandedInv'
    BY <1>12 DEF CommitWriteThenError, LandRows
  <1>13. ASSUME NEW w \in Worker, FailLoad(w) PROVE LandedInv'
    BY <1>1, <1>13 DEF FailLoad
  <1>14. ASSUME NEW w \in Worker, RecordOutcome(w) PROVE LandedInv'
    <2>1. cur[w] \in Hash
      BY <1>14 DEF RecordOutcome
    <2>2. ASSUME NEW h \in Hash, audit'[h].state = "COMMITTED" PROVE dest[h] # {}
      <3>1. CASE pc[w] = "landed" /\ audit' = MarkCommitted(audit, cur[w])
        <4>1. h = cur[w] \/ audit[h].state = "COMMITTED"
          BY <2>1, <2>2, <3>1, NobodyElseCommits
        <4>2. QED
          BY <3>1, <4>1
      <3>2. CASE pc[w] = "errored" /\ audit' = MarkFailed(audit, cur[w])
        <4>1. audit[h].state = "COMMITTED"
          BY <2>1, <2>2, <3>2, NobodyElseCommits
        <4>2. QED
          BY <4>1
      <3>3. QED
        BY <1>14, <3>1, <3>2 DEF RecordOutcome
    <2>3. QED
      BY <1>14, <2>2 DEF RecordOutcome
  <1>15. ASSUME NEW w \in Worker, EndRun(w) PROVE LandedInv'
    BY <1>1, <1>15 DEF EndRun
  <1>16. ASSUME NEW w \in Worker, Crash(w) PROVE LandedInv'
    BY <1>1, <1>16 DEF Crash
  <1>17. ASSUME NEW o \in Operator, NEW h \in Hash, RequeueRead(o, h) PROVE LandedInv'
    BY <1>1, <1>17 DEF RequeueRead
  <1>18. ASSUME NEW o \in Operator, RequeueWrite(o) PROVE LandedInv'
    BY <1>1, <1>18, NobodyElseCommits DEF RequeueWrite
  <1>19. CASE RequeueAll
    BY <1>1, <1>19, NobodyElseCommits DEF RequeueAll
  <1>20. CASE UNCHANGED vars
    BY <1>1, <1>20 DEF vars
  <1>21. QED
    <2> HIDE DEF TypeOK, LandedInv, CommittedHasLanded, Loading
    <2>1. ASSUME NEW w \in Worker, WorkerStep(w) PROVE LandedInv'
      BY <2>1, <1>5, <1>6, <1>7, <1>8, <1>9, <1>10, <1>11, <1>12, <1>13, <1>14,
         <1>15 DEF WorkerStep
    <2>2. QED
      BY <2>1, <1>2, <1>3, <1>4, <1>16, <1>17, <1>18, <1>19, <1>20 DEF Next

\* Whatever crashes, overruns and races, a COMMITTED row has its rows in the
\* destination: mark_committed comes after the destination commit, and a write
\* transaction never leaves fewer than one copy of what it replaces.
THEOREM CommittedRowsLanded == Spec => []CommittedHasLanded
  <1>1. Init => LandedInv
    BY DEF Init, EmptyTable, NoRow, LandedInv, CommittedHasLanded
  <1>2. LandedInv => CommittedHasLanded
    BY DEF LandedInv
  <1>3. QED
    BY <1>1, <1>2, LandedStep, TypeCorrect, PTL DEF Spec

-----------------------------------------------------------------------------
(***************************************************************************)
(* A destination with one writer at a time needs no lock.                  *)
(***************************************************************************)
LEMMA SerialStep ==
    ASSUME SerialWriter
    PROVE  TypeOK /\ SerialInv /\ [Next]_vars => SerialInv'
  <1> SUFFICES ASSUME TypeOK, SerialInv, [Next]_vars PROVE SerialInv'
    OBVIOUS
  <1> USE DEF TypeOK, SerialInv, NoDuplicateRows, Loading, worker_vars, env_vars
  \* Steps that leave the destination alone and open no write transaction.
  <1>1. ASSUME dest' = dest,
               \A w \in Worker : pc'[w] = "writing" =>
                   pc[w] = "writing" /\ cur'[w] = cur[w] /\ doomed'[w] = doomed[w]
        PROVE  SerialInv'
    BY <1>1
  <1>2. ASSUME NEW p \in Path, NEW b \in BOOLEAN, DropFile(p, b) PROVE SerialInv'
    BY <1>1, <1>2 DEF DropFile
  <1>3. ASSUME NEW p \in Path, RepairManifest(p) PROVE SerialInv'
    BY <1>1, <1>3 DEF RepairManifest
  <1>4. CASE Tick
    BY <1>1, <1>4 DEF Tick
  <1>5. ASSUME NEW w \in Worker, StartRun(w) PROVE SerialInv'
    BY <1>1, <1>5 DEF StartRun
  <1>6. ASSUME NEW w \in Worker, Scan(w) PROVE SerialInv'
    BY <1>1, <1>6 DEF Scan
  <1>7. ASSUME NEW w \in Worker, Register(w) PROVE SerialInv'
    BY <1>1, <1>7 DEF Register
  <1>8. ASSUME NEW w \in Worker, FailPreload(w) PROVE SerialInv'
    BY <1>1, <1>8 DEF FailPreload
  <1>9. ASSUME NEW w \in Worker, Claim(w) PROVE SerialInv'
    <2>1. CASE UNCHANGED <<pc, cur>>
      BY <1>1, <1>9, <2>1 DEF Claim
    <2>2. ASSUME NEW p \in todo[w],
                 pc' = [pc EXCEPT ![w] = "claimed"],
                 cur' = [cur EXCEPT ![w] = HashOf[p]]
          PROVE  SerialInv'
      BY <1>1, <1>9, <2>2 DEF Claim
    <2>3. QED
      BY <1>9, <2>1, <2>2 DEF Claim
  \* The new transaction is the only one.
  <1>10. ASSUME NEW w \in Worker, BeginWrite(w) PROVE SerialInv'
    BY <1>10 DEF BeginWrite
  \* It deletes every copy and adds its own; nobody else has one open.
  <1>11. ASSUME NEW w \in Worker, pc[w] = "writing", LandRows(w), cur' = cur,
                pc' = [pc EXCEPT ![w] = "landed"] \/ pc' = [pc EXCEPT ![w] = "errored"]
         PROVE  SerialInv'
    <2>1. dest[cur[w]] \ doomed[w] = {}
      BY <1>11
    <2>2. \A h \in Hash : dest'[h] = dest[h] \/ dest'[h] = {w}
      BY <1>11, <2>1 DEF LandRows
    <2>3. \A v \in Worker : pc'[v] # "writing"
      BY <1>11
    <2>4. QED
      BY <2>2, <2>3
  <1>12. ASSUME NEW w \in Worker, CommitWrite(w) PROVE SerialInv'
    BY <1>11, <1>12 DEF CommitWrite
  <1>13. ASSUME NEW w \in Worker, CommitWriteThenError(w) PROVE SerialInv'
    BY <1>11, <1>13 DEF CommitWriteThenError
  <1>14. ASSUME NEW w \in Worker, FailLoad(w) PROVE SerialInv'
    BY <1>1, <1>14 DEF FailLoad
  <1>15. ASSUME NEW w \in Worker, RecordOutcome(w) PROVE SerialInv'
    BY <1>1, <1>15 DEF RecordOutcome
  <1>16. ASSUME NEW w \in Worker, EndRun(w) PROVE SerialInv'
    BY <1>1, <1>16 DEF EndRun
  <1>17. ASSUME NEW w \in Worker, Crash(w) PROVE SerialInv'
    BY <1>1, <1>17 DEF Crash
  <1>18. ASSUME NEW o \in Operator, NEW h \in Hash, RequeueRead(o, h) PROVE SerialInv'
    BY <1>1, <1>18 DEF RequeueRead
  <1>19. ASSUME NEW o \in Operator, RequeueWrite(o) PROVE SerialInv'
    BY <1>1, <1>19 DEF RequeueWrite
  <1>20. CASE RequeueAll
    BY <1>1, <1>20 DEF RequeueAll
  <1>21. CASE UNCHANGED vars
    BY <1>1, <1>21 DEF vars
  <1>22. QED
    <2> HIDE DEF TypeOK, SerialInv, NoDuplicateRows, Loading
    <2>1. ASSUME NEW w \in Worker, WorkerStep(w) PROVE SerialInv'
      BY <2>1, <1>5, <1>6, <1>7, <1>8, <1>9, <1>10, <1>12, <1>13, <1>14, <1>15,
         <1>16 DEF WorkerStep
    <2>2. QED
      BY <2>1, <1>2, <1>3, <1>4, <1>17, <1>18, <1>19, <1>20, <1>21 DEF Next

\* A serial destination (SQLite, DuckDB) never holds a file's rows twice, even
\* when claims are reclaimed under a live worker and requeues race: the DELETE by
\* hash and the INSERTs are one transaction.
THEOREM SerialWriterNoDuplicates ==
    ASSUME SerialWriter
    PROVE  Spec => []NoDuplicateRows
  <1>1. Init => SerialInv
    BY DEF Init, SerialInv, NoDuplicateRows
  <1>2. SerialInv => NoDuplicateRows
    BY DEF SerialInv
  <1>3. QED
    BY <1>1, <1>2, SerialStep, TypeCorrect, PTL DEF Spec

-----------------------------------------------------------------------------
(***************************************************************************)
(* With discipline, the PROCESSING row is a lock on any destination.       *)
(***************************************************************************)

\* No statement that selects rows by a condition touches a young claim.
LEMMA YoungClaimKept ==
    ASSUME NEW table \in [Hash -> Row], NEW h \in Hash,
           table[h].state = "PROCESSING", table[h].claim_age <= StaleTimeout
    PROVE  /\ ResetAndReclaim(table)[h] = table[h]
           /\ \A new, withManifest :
                 InsertPending(table, new, withManifest)[h] = table[h]
           /\ \A cap : RequeueAllTerminalFailed(table, cap)[h] = table[h]
           /\ \A g \in Hash : ClaimProcessing(table, g)[h] = table[h]
  <1>1. table[h].claim_age \in Nat
    BY AuditDbAssumption DEF Row
  <1>2. ~IsRetryableFailed(table[h], RetryCap) /\ ~IsStale(table[h])
    BY <1>1, AuditDbAssumption DEF IsRetryableFailed, IsStale
  <1>3. \A cap : ~IsTerminalFailed(table[h], cap)
    BY DEF IsTerminalFailed
  <1>4. ResetAndReclaim(table)[h] = table[h]
    BY <1>2 DEF ResetAndReclaim
  <1>5. \A new, withManifest : InsertPending(table, new, withManifest)[h] = table[h]
    BY DEF InsertPending
  <1>6. \A cap : RequeueAllTerminalFailed(table, cap)[h] = table[h]
    BY <1>3 DEF RequeueAllTerminalFailed
  <1>7. \A g \in Hash : ClaimProcessing(table, g)[h] = table[h]
    BY DEF ClaimProcessing, CanClaim
  <1>8. QED
    BY <1>4, <1>5, <1>6, <1>7

LEMMA LockStep ==
    ASSUME Disciplined
    PROVE  TypeOK /\ LockInv /\ [Next]_vars => LockInv'
  <1> SUFFICES ASSUME TypeOK, LockInv, [Next]_vars PROVE LockInv'
    OBVIOUS
  <1> USE AuditDbAssumption, FiledgeRunAssumption
      DEF TypeOK, LockInv, ExclusiveLoad, NoDuplicateRows, Loading, PC,
          worker_vars, env_vars
  <1>0. \A w \in Worker : Loading(w) =>
            /\ cur[w] \in Hash
            /\ audit[cur[w]].state = "PROCESSING"
            /\ audit[cur[w]].claim_age <= StaleTimeout
    OBVIOUS
  \* Steps that leave the workers and the destination alone, and the rows of
  \* the files that are loading.
  <1>1. ASSUME /\ dest' = dest /\ doomed' = doomed /\ cur' = cur,
               /\ preload' = preload,
               /\ \A w \in Worker : Loading(w)' <=> Loading(w),
               /\ \A w \in Worker : pc'[w] \in {"writing", "landed"} => pc'[w] = pc[w],
               /\ \A w \in Worker : Loading(w) => audit'[cur[w]] = audit[cur[w]]
        PROVE  LockInv'
    BY <1>1
  <1>2. ASSUME NEW p \in Path, NEW b \in BOOLEAN, DropFile(p, b) PROVE LockInv'
    BY <1>1, <1>2 DEF DropFile
  <1>3. ASSUME NEW p \in Path, RepairManifest(p) PROVE LockInv'
    BY <1>1, <1>3 DEF RepairManifest
  \* No tick overruns: the claims of live workers stay young.
  <1>4. CASE Tick
    <2>1. ~Overrunning
      BY <1>4 DEF Tick, Disciplined
    <2>2. ASSUME NEW w \in Worker, Loading(w)
          PROVE  /\ audit'[cur[w]].state = "PROCESSING"
                 /\ audit'[cur[w]].claim_age <= StaleTimeout
      <3>1. audit[cur[w]] \in Row /\ audit[cur[w]].state = "PROCESSING"
        BY <1>0, <2>2
      <3>a. audit[cur[w]].claim_age \in Nat
        BY <3>1 DEF Row
      <3>b. audit[cur[w]].claim_age # StaleTimeout
        BY <2>1, <2>2, <3>1 DEF Overrunning
      <3>2. audit[cur[w]].claim_age \in Nat /\ audit[cur[w]].claim_age < StaleTimeout
        <4>1. \A n \in Nat : n <= StaleTimeout /\ n # StaleTimeout => n < StaleTimeout
          OBVIOUS
        <4>2. audit[cur[w]].claim_age <= StaleTimeout
          BY <1>0, <2>2
        <4>3. QED
          BY ONLY <3>a, <3>b, <4>1, <4>2
      <3>3. audit'[cur[w]] = Older(audit[cur[w]])
        BY <1>0, <1>4, <2>2, <3>1, <3>2 DEF Tick, AgeClaims, IsStale
      <3>4. QED
        BY <3>1, <3>2, <3>3, RowFields DEF FileState
    <2>3. QED
      BY <1>4, <2>2 DEF Tick
  <1>5. ASSUME NEW w \in Worker, StartRun(w) PROVE LockInv'
    <2>1. \A v \in Worker : Loading(v) => audit'[cur[v]] = audit[cur[v]]
      BY <1>0, <1>5, YoungClaimKept DEF StartRun
    <2>2. QED
      BY <1>1, <1>5, <2>1 DEF StartRun
  <1>6. ASSUME NEW w \in Worker, Scan(w) PROVE LockInv'
    BY <1>1, <1>6 DEF Scan
  <1>7. ASSUME NEW w \in Worker, Register(w) PROVE LockInv'
    <2>1. ManifestErrors(w) = {}
      BY DEF ManifestErrors, Disciplined
    <2>2. preload' = preload
      BY <1>7, <2>1 DEF Register
    <2>3. \A v \in Worker : Loading(v) => audit'[cur[v]] = audit[cur[v]]
      BY <1>0, <1>7, YoungClaimKept DEF Register
    <2>4. \A v \in Worker : /\ Loading(v)' <=> Loading(v)
                            /\ pc'[v] \in {"writing", "landed"} => pc'[v] = pc[v]
      BY <1>7 DEF Register
    <2>5. dest' = dest /\ doomed' = doomed /\ cur' = cur
      BY <1>7 DEF Register
    <2>6. QED
      BY <1>1, <2>2, <2>3, <2>4, <2>5
  <1>8. ASSUME NEW w \in Worker, FailPreload(w) PROVE LockInv'
    BY <1>8 DEF FailPreload
  \* The claim finds a PENDING row, so no worker is loading that file.
  <1>9. ASSUME NEW w \in Worker, Claim(w) PROVE LockInv'
    <2>1. PICK p \in todo[w] :
              /\ audit' = ClaimProcessing(audit, HashOf[p])
              /\ IF CanClaim(audit, HashOf[p])
                 THEN /\ pc' = [pc EXCEPT ![w] = "claimed"]
                      /\ cur' = [cur EXCEPT ![w] = HashOf[p]]
                 ELSE UNCHANGED <<pc, cur>>
      BY <1>9 DEF Claim
    <2> DEFINE h == HashOf[p]
    <2>2. h \in Hash
      OBVIOUS
    <2> HIDE DEF h
    <2>3. CASE CanClaim(audit, h)
      <3>1. \A v \in Worker : Loading(v) => cur[v] # h /\ v # w
        BY <1>9, <2>3 DEF CanClaim, Claim
      <3>2. \A v \in Worker : Loading(v) => audit'[cur[v]] = audit[cur[v]]
        BY <1>0, <2>1, <2>2, YoungClaimKept DEF h
      <3>3. audit'[h].state = "PROCESSING" /\ audit'[h].claim_age = 0
        BY <2>1, <2>2, <2>3, RowFields DEF h, ClaimProcessing, FileState
      <3>4. pc' = [pc EXCEPT ![w] = "claimed"] /\ cur' = [cur EXCEPT ![w] = h]
        BY <2>1, <2>3 DEF h
      <3>5. /\ dest' = dest /\ doomed' = doomed /\ preload' = preload
        BY <1>9 DEF Claim
      <3>6. QED
        BY <1>0, <3>1, <3>2, <3>3, <3>4, <3>5
    <2>4. CASE ~CanClaim(audit, h)
      <3>1. audit' = audit
        BY <2>1, <2>4 DEF h, ClaimProcessing
      <3>2. QED
        BY <1>1, <1>9, <2>1, <2>4, <3>1 DEF Claim, h
    <2>5. QED
      BY <2>3, <2>4
  <1>10. ASSUME NEW w \in Worker, BeginWrite(w) PROVE LockInv'
    BY <1>10 DEF BeginWrite
  \* The transaction replaces every copy by its own.
  <1>11. ASSUME NEW w \in Worker, pc[w] = "writing", LandRows(w),
                audit' = audit, cur' = cur, preload' = preload,
                pc' = [pc EXCEPT ![w] = "landed"] \/ pc' = [pc EXCEPT ![w] = "errored"]
         PROVE  LockInv'
    <2>1. cur[w] \in Hash /\ dest[cur[w]] \ doomed[w] = {}
      BY <1>0, <1>11
    <2>2. dest' = [dest EXCEPT ![cur[w]] = (@ \ doomed[w]) \cup {w}]
      BY <1>11 DEF LandRows
    <2>3. (dest[cur[w]] \ doomed[w]) \cup {w} = {w}
      BY ONLY <2>1
    <2>4. dest' = [dest EXCEPT ![cur[w]] = {w}]
      BY ONLY <2>2, <2>3
    <2>5. Loading(w)
      BY <1>11
    <2>6. \A v \in Worker : Loading(v) /\ v # w => cur[v] \in Hash /\ cur[v] # cur[w]
      BY <1>0, <2>5
    <2>7. \A v \in Worker : Loading(v) /\ v # w => dest'[cur[v]] = dest[cur[v]]
      BY <2>4, <2>6
    <2>8. QED
      BY <1>11, <2>1, <2>4, <2>7 DEF LandRows
  <1>12. ASSUME NEW w \in Worker, CommitWrite(w) PROVE LockInv'
    BY <1>11, <1>12 DEF CommitWrite
  <1>13. ASSUME NEW w \in Worker, CommitWriteThenError(w) PROVE LockInv'
    BY <1>11, <1>13 DEF CommitWriteThenError
  <1>14. ASSUME NEW w \in Worker, FailLoad(w) PROVE LockInv'
    BY <1>14 DEF FailLoad
  \* The owner alone marks its row.
  <1>15. ASSUME NEW w \in Worker, RecordOutcome(w) PROVE LockInv'
    <2>1. \A v \in Worker : Loading(v)' => Loading(v) /\ v # w /\ cur'[v] = cur[v]
      BY <1>15 DEF RecordOutcome
    <2>2. \A v \in Worker : Loading(v) /\ v # w => cur[v] # cur[w]
      BY <1>15 DEF RecordOutcome
    <2>3. \A v \in Worker : Loading(v) /\ v # w => audit'[cur[v]] = audit[cur[v]]
      BY <1>0, <1>15, <2>2 DEF RecordOutcome, MarkCommitted, MarkFailed
    <2>4. QED
      BY <1>15, <2>1, <2>3 DEF RecordOutcome
  <1>16. ASSUME NEW w \in Worker, EndRun(w) PROVE LockInv'
    BY <1>1, <1>16 DEF EndRun
  <1>17. ASSUME NEW w \in Worker, Crash(w) PROVE LockInv'
    BY <1>17 DEF Crash
  <1>18. ASSUME NEW o \in Operator, NEW h \in Hash, RequeueRead(o, h) PROVE LockInv'
    BY <1>1, <1>18 DEF RequeueRead
  <1>19. ASSUME NEW o \in Operator, RequeueWrite(o) PROVE LockInv'
    BY <1>19 DEF Disciplined
  <1>20. CASE RequeueAll
    <2>1. \A v \in Worker : Loading(v) => audit'[cur[v]] = audit[cur[v]]
      BY <1>0, <1>20, YoungClaimKept DEF RequeueAll
    <2>2. QED
      BY <1>1, <1>20, <2>1 DEF RequeueAll
  <1>21. CASE UNCHANGED vars
    BY <1>1, <1>21 DEF vars
  <1>22. QED
    <2> HIDE DEF TypeOK, LockInv, ExclusiveLoad, NoDuplicateRows, Loading, PC
    <2>1. ASSUME NEW w \in Worker, WorkerStep(w) PROVE LockInv'
      BY <2>1, <1>5, <1>6, <1>7, <1>8, <1>9, <1>10, <1>12, <1>13, <1>14, <1>15,
         <1>16 DEF WorkerStep
    <2>2. QED
      BY <2>1, <1>2, <1>3, <1>4, <1>17, <1>18, <1>19, <1>20, <1>21 DEF Next

LEMMA LockInvariant ==
    ASSUME Disciplined
    PROVE  Spec => []LockInv
  <1>1. Init => LockInv
    BY DEF Init, LockInv, ExclusiveLoad, NoDuplicateRows, Loading
  <1>2. QED
    BY <1>1, LockStep, TypeCorrect, PTL DEF Spec

\* When claims outlive loads, nobody races a requeue and no manifest policy fails
\* files from outside a claim, at most one worker loads a file, and its row stays
\* PROCESSING until that worker marks it, through any number of crashes.
THEOREM ClaimIsLock ==
    ASSUME Disciplined
    PROVE  Spec => []ExclusiveLoad
  <1>1. LockInv => ExclusiveLoad
    BY DEF LockInv
  <1>2. QED
    BY <1>1, LockInvariant, PTL

\* The lock gives what a serial destination gives by itself: retries never
\* leave two copies, whatever the isolation between write transactions.
THEOREM DisciplinedNoDuplicates ==
    ASSUME Disciplined
    PROVE  Spec => []NoDuplicateRows
  <1>1. LockInv => NoDuplicateRows
    BY DEF LockInv
  <1>2. QED
    BY <1>1, LockInvariant, PTL

-----------------------------------------------------------------------------
(***************************************************************************)
(* Until the first crash, a file that is not COMMITTED has no rows.        *)
(***************************************************************************)
LEMMA FreshStep ==
    ASSUME Disciplined, ~LateErrors
    PROVE  TypeOK /\ LockInv /\ FreshInv /\ [Next]_vars => FreshInv'
  <1> SUFFICES ASSUME TypeOK, LockInv, FreshInv, [Next]_vars, crashes' = 0
               PROVE  FreshInv'
    BY DEF FreshInv
  <1> USE AuditDbAssumption, FiledgeRunAssumption
      DEF TypeOK, LockInv, ExclusiveLoad, FreshInv, Owned, Loading, PC,
          worker_vars, env_vars
  <1>0. crashes = 0
    <2>1. ASSUME NEW w \in Worker, Crash(w) PROVE FALSE
      BY <2>1 DEF Crash
    <2>2. crashes' = crashes
      BY <2>1 DEF Next, WorkerStep, DropFile, RepairManifest, Tick, StartRun, Scan,
         Register, FailPreload, Claim, BeginWrite, CommitWrite, CommitWriteThenError,
         FailLoad, RecordOutcome, EndRun, RequeueRead, RequeueWrite, RequeueAll, vars
    <2>3. QED
      BY <2>2
  \* Steps that leave alone who owns what and what landed, and take no row but
  \* those of nobody from one state to another.
  <1>1. ASSUME /\ dest' = dest /\ cur' = cur,
               \A w \in Worker : Loading(w)' <=> Loading(w),
               \A w \in Worker : pc'[w] \in {"claimed", "writing", "errored"} =>
                                     pc[w] \in {"claimed", "writing", "errored"},
               \A h \in Hash : \/ audit'[h].state = audit[h].state
                               \/ /\ audit[h].state \in {"ABSENT", "PENDING", "FAILED"}
                                  /\ audit'[h].state \in {"PENDING", "FAILED"}
        PROVE  FreshInv'
    <2>1. \A h \in Hash : dest'[h] # {} => audit'[h].state \in {"PROCESSING", "COMMITTED"}
      BY <1>0, <1>1
    <2>2. ASSUME NEW h \in Hash, audit'[h].state = "PROCESSING" PROVE Owned(h)'
      <3>1. PICK w \in Worker : Loading(w) /\ cur[w] = h
        BY <1>0, <1>1, <2>2
      <3>2. Loading(w)' /\ cur'[w] = h
        BY <1>1, <3>1
      <3>3. QED
        BY <3>2
    <2>3. \A w \in Worker : pc'[w] \in {"claimed", "writing", "errored"} => dest'[cur'[w]] = {}
      BY <1>0, <1>1
    <2>4. QED
      BY <2>1, <2>2, <2>3
  <1>2. ASSUME NEW p \in Path, NEW b \in BOOLEAN, DropFile(p, b) PROVE FreshInv'
    BY <1>1, <1>2 DEF DropFile
  <1>3. ASSUME NEW p \in Path, RepairManifest(p) PROVE FreshInv'
    BY <1>1, <1>3 DEF RepairManifest
  <1>4. CASE Tick
    <2>1. \A h \in Hash : audit'[h].state = audit[h].state
      BY <1>4 DEF Tick, AgeClaims, Older, Row
    <2>2. QED
      BY <1>1, <1>4, <2>1 DEF Tick
  \* No claim is stale: each has its owner, and is young.
  <1>5. ASSUME NEW w \in Worker, StartRun(w) PROVE FreshInv'
    <2>1. ASSUME NEW h \in Hash, audit[h].state = "PROCESSING" PROVE audit'[h] = audit[h]
      <3>1. audit[h].claim_age <= StaleTimeout
        BY <1>0, <2>1
      <3>2. QED
        BY <1>5, <2>1, <3>1, YoungClaimKept DEF StartRun
    <2>2. \A h \in Hash : \/ audit'[h].state = audit[h].state
                          \/ audit[h].state = "FAILED" /\ audit'[h].state = "PENDING"
      BY <1>5, <2>1, RowFields DEF StartRun, ResetAndReclaim, IsRetryableFailed, IsStale, FileState
    <2>3. QED
      BY <1>1, <1>5, <2>2 DEF StartRun
  <1>6. ASSUME NEW w \in Worker, Scan(w) PROVE FreshInv'
    BY <1>1, <1>6 DEF Scan
  <1>7. ASSUME NEW w \in Worker, Register(w) PROVE FreshInv'
    <2>1. \A h \in Hash : \/ audit'[h].state = audit[h].state
                          \/ audit[h].state = "ABSENT" /\ audit'[h].state = "PENDING"
      BY <1>7 DEF Register, InsertPending, NewRow
    <2>2. QED
      BY <1>1, <1>7, <2>1 DEF Register
  <1>8. ASSUME NEW w \in Worker, FailPreload(w) PROVE FreshInv'
    BY <1>8 DEF FailPreload
  \* A PENDING row has nothing in the destination, and gets its owner.
  <1>9. ASSUME NEW w \in Worker, Claim(w) PROVE FreshInv'
    <2>1. PICK p \in todo[w] :
              /\ audit' = ClaimProcessing(audit, HashOf[p])
              /\ IF CanClaim(audit, HashOf[p])
                 THEN /\ pc' = [pc EXCEPT ![w] = "claimed"]
                      /\ cur' = [cur EXCEPT ![w] = HashOf[p]]
                 ELSE UNCHANGED <<pc, cur>>
      BY <1>9 DEF Claim
    <2> DEFINE h == HashOf[p]
    <2>2. h \in Hash
      OBVIOUS
    <2> HIDE DEF h
    <2>3. CASE CanClaim(audit, h)
      <3>1. pc' = [pc EXCEPT ![w] = "claimed"] /\ cur' = [cur EXCEPT ![w] = h]
        BY <2>1, <2>3 DEF h
      <3>2. dest' = dest /\ dest[h] = {} /\ audit[h].state = "PENDING"
        BY <1>0, <1>9, <2>2, <2>3 DEF Claim, CanClaim
      <3>3. /\ audit'[h].state = "PROCESSING"
            /\ \A g \in Hash \ {h} : audit'[g] = audit[g]
        BY <2>1, <2>2, <2>3, RowFields DEF h, ClaimProcessing, FileState
      <3>4. ~Loading(w)
        BY <1>9 DEF Claim
      <3>5. \A v \in Worker : Loading(v) => Loading(v)' /\ cur'[v] = cur[v]
        BY <3>1, <3>4
      <3>6. Loading(w)' /\ cur'[w] = h
        BY <3>1
      <3>7. QED
        BY <1>0, <3>1, <3>2, <3>3, <3>5, <3>6
    <2>4. CASE ~CanClaim(audit, h)
      <3>1. audit' = audit
        BY <2>1, <2>4 DEF h, ClaimProcessing
      <3>2. QED
        BY <1>1, <1>9, <2>1, <2>4, <3>1 DEF Claim, h
    <2>5. QED
      BY <2>3, <2>4
  <1>10. ASSUME NEW w \in Worker, BeginWrite(w) PROVE FreshInv'
    BY <1>1, <1>10 DEF BeginWrite
  \* The rows land under the claim of the worker, the only one of the file.
  <1>11. ASSUME NEW w \in Worker, CommitWrite(w) PROVE FreshInv'
    <2>1. cur[w] \in Hash /\ audit[cur[w]].state = "PROCESSING"
      BY <1>11 DEF CommitWrite
    <2>2. \A h \in Hash \ {cur[w]} : dest'[h] = dest[h]
      BY <1>11 DEF CommitWrite, LandRows
    <2>3. \A v \in Worker : pc'[v] \in {"claimed", "writing", "errored"} =>
                                pc'[v] = pc[v] /\ cur[v] \in Hash \ {cur[w]}
      BY <1>11 DEF CommitWrite
    <2>4. audit' = audit /\ cur' = cur /\ \A v \in Worker : Loading(v)' <=> Loading(v)
      BY <1>11 DEF CommitWrite
    <2>5. QED
      BY <1>0, <2>1, <2>2, <2>3, <2>4
  <1>12. ASSUME NEW w \in Worker, CommitWriteThenError(w) PROVE FreshInv'
    BY <1>12 DEF CommitWriteThenError
  <1>13. ASSUME NEW w \in Worker, FailLoad(w) PROVE FreshInv'
    BY <1>1, <1>13 DEF FailLoad
  \* A file is marked FAILED after an attempt that landed nothing.
  <1>14. ASSUME NEW w \in Worker, RecordOutcome(w) PROVE FreshInv'
    <2>1. cur[w] \in Hash /\ Loading(w) /\ audit[cur[w]].state = "PROCESSING"
      BY <1>14 DEF RecordOutcome
    <2>2. \A v \in Worker : Loading(v)' => /\ Loading(v) /\ v # w
                                           /\ cur'[v] = cur[v] /\ pc'[v] = pc[v]
      BY <1>14 DEF RecordOutcome
    <2>3. \A v \in Worker : Loading(v) /\ v # w => Loading(v)' /\ cur'[v] = cur[v]
      BY <1>14 DEF RecordOutcome
    <2>4. \A h \in Hash \ {cur[w]} : audit'[h] = audit[h]
      BY <1>14, <2>1 DEF RecordOutcome, MarkCommitted, MarkFailed
    <2>5. \/ pc[w] = "landed" /\ audit'[cur[w]].state = "COMMITTED"
          \/ pc[w] = "errored" /\ audit'[cur[w]].state = "FAILED"
      <3>1. audit[cur[w]] \in Row
        BY <2>1
      <3>2. \/ pc[w] = "landed" /\ audit'[cur[w]] = InState(audit[cur[w]], "COMMITTED")
            \/ pc[w] = "errored" /\ audit'[cur[w]] = CountAttempt(InState(audit[cur[w]], "FAILED"))
        BY <1>14, <2>1 DEF RecordOutcome, MarkCommitted, MarkFailed
      <3>3. InState(audit[cur[w]], "FAILED") \in Row
        BY <3>1, RowTypes DEF FileState
      <3>4. QED
        BY <3>1, <3>2, <3>3, RowFields DEF FileState
    <2>6. dest' = dest /\ (pc[w] = "errored" => dest[cur[w]] = {})
      BY <1>0, <1>14 DEF RecordOutcome
    <2>7. \A h \in Hash : dest'[h] # {} => audit'[h].state \in {"PROCESSING", "COMMITTED"}
      BY <1>0, <2>4, <2>5, <2>6
    <2>8. ASSUME NEW h \in Hash, audit'[h].state = "PROCESSING" PROVE Owned(h)'
      <3>1. h # cur[w] /\ audit[h].state = "PROCESSING"
        BY <2>4, <2>5, <2>8
      <3>2. PICK v \in Worker : Loading(v) /\ cur[v] = h
        BY <1>0, <3>1
      <3>3. Loading(v)' /\ cur'[v] = h
        BY <2>3, <3>1, <3>2
      <3>4. QED
        BY <3>3
    <2>9. \A v \in Worker : pc'[v] \in {"claimed", "writing", "errored"} => dest'[cur'[v]] = {}
      BY <1>0, <2>2, <2>6
    <2>10. QED
      BY <2>7, <2>8, <2>9
  <1>15. ASSUME NEW w \in Worker, EndRun(w) PROVE FreshInv'
    BY <1>1, <1>15 DEF EndRun
  <1>16. ASSUME NEW w \in Worker, Crash(w) PROVE FreshInv'
    BY <1>0, <1>16 DEF Crash
  <1>17. ASSUME NEW o \in Operator, NEW h \in Hash, RequeueRead(o, h) PROVE FreshInv'
    BY <1>1, <1>17 DEF RequeueRead
  <1>18. ASSUME NEW o \in Operator, RequeueWrite(o) PROVE FreshInv'
    BY <1>18 DEF Disciplined
  <1>19. CASE RequeueAll
    <2>1. \A h \in Hash : \/ audit'[h].state = audit[h].state
                          \/ audit[h].state = "FAILED" /\ audit'[h].state = "PENDING"
      <3>1. \A h \in Hash : \/ audit'[h] = audit[h]
                            \/ /\ audit[h].state = "FAILED"
                               /\ audit'[h] = FreshBudget(InState(audit[h], "PENDING"))
        BY <1>19 DEF RequeueAll, RequeueAllTerminalFailed, IsTerminalFailed
      <3>2. \A h \in Hash : InState(audit[h], "PENDING") \in Row
        BY RowTypes DEF FileState
      <3>3. \A h \in Hash : FreshBudget(InState(audit[h], "PENDING")).state = "PENDING"
        BY <3>2, RowFields DEF FileState
      <3>4. QED
        BY <3>1, <3>3
    <2>2. QED
      BY <1>1, <1>19, <2>1 DEF RequeueAll
  <1>20. CASE UNCHANGED vars
    BY <1>1, <1>20 DEF vars
  <1>21. QED
    <2> HIDE DEF TypeOK, LockInv, ExclusiveLoad, FreshInv, Owned, Loading, PC
    <2>1. ASSUME NEW w \in Worker, WorkerStep(w) PROVE FreshInv'
      BY <2>1, <1>5, <1>6, <1>7, <1>8, <1>9, <1>10, <1>11, <1>12, <1>13, <1>14, <1>15
         DEF WorkerStep
    <2>2. QED
      BY <2>1, <1>2, <1>3, <1>4, <1>16, <1>17, <1>18, <1>19, <1>20 DEF Next

\* A file that is marked FAILED has left no row in the destination, after any
\* number of retries and bulk requeues and beside any number of Runs, as long as
\* no Run has crashed, no error follows the destination's commit, and claims are
\* locks (then none is overrun).
THEOREM FailedLeavesNothing ==
    ASSUME Disciplined
    PROVE  Spec => []FailedLandedNothing
  <1>1. CASE LateErrors
    <2>1. FailedLandedNothing
      BY <1>1 DEF FailedLandedNothing
    <2>2. QED
      BY <2>1, PTL
  <1>2. CASE ~LateErrors
    <2>1. Init => FreshInv
      BY DEF Init, FreshInv, EmptyTable, NoRow
    <2>2. FreshInv => FailedLandedNothing
      BY DEF FreshInv, FailedLandedNothing
    <2>3. QED
      BY <1>2, <2>1, <2>2, FreshStep, TypeCorrect, LockInvariant, PTL DEF Spec
  <1>3. QED
    BY <1>1, <1>2

-----------------------------------------------------------------------------
(***************************************************************************)
(* The moves of a row: the state machine of db.py, one disjunct per SET    *)
(* clause, with the WHERE clause that the lock makes true of the marks.    *)
(***************************************************************************)
RowMove(row, next) ==
    \/ next = row
    \/ row.state = "ABSENT" /\ \E b \in BOOLEAN : next = NewRow(b)
    \/ row.state = "PENDING" /\ next = InState(row, "PROCESSING")
    \/ row.state = "PROCESSING" /\ next = Older(row)
    \/ row.state = "PROCESSING" /\ next = InState(row, "COMMITTED")
    \/ row.state = "PROCESSING" /\ next = CountAttempt(InState(row, "FAILED"))
    \/ IsRetryableFailed(row, RetryCap) /\ next = InState(row, "PENDING")
    \/ IsStale(row) /\ next = CountAttempt(InState(row, "PENDING"))
    \/ row.state = "FAILED" /\ next = FreshBudget(InState(row, "PENDING"))

LEMMA RowStep ==
    ASSUME Disciplined, TypeOK, LockInv, [Next]_vars
    PROVE  \A h \in Hash : RowMove(audit[h], audit'[h])
  <1> USE FiledgeRunAssumption DEF TypeOK, worker_vars, env_vars
  <1> DEFINE Goal == \A h \in Hash : RowMove(audit[h], audit'[h])
  <1> SUFFICES Goal
    OBVIOUS
  <1>1. ASSUME audit' = audit PROVE Goal
    BY <1>1 DEF RowMove
  <1>2. ASSUME NEW p \in Path, NEW b \in BOOLEAN, DropFile(p, b) PROVE Goal
    BY <1>1, <1>2 DEF DropFile
  <1>3. ASSUME NEW p \in Path, RepairManifest(p) PROVE Goal
    BY <1>1, <1>3 DEF RepairManifest
  <1>4. CASE Tick
    BY <1>4 DEF Tick, AgeClaims, RowMove
  <1>5. ASSUME NEW w \in Worker, StartRun(w) PROVE Goal
    BY <1>5 DEF StartRun, ResetAndReclaim, RowMove
  <1>6. ASSUME NEW w \in Worker, Scan(w) PROVE Goal
    BY <1>1, <1>6 DEF Scan
  <1>7. ASSUME NEW w \in Worker, Register(w) PROVE Goal
    <2>1. ASSUME NEW h \in Hash PROVE RowMove(audit[h], audit'[h])
      <3>1. \/ audit'[h] = audit[h]
            \/ audit[h].state = "ABSENT" /\ audit'[h] = NewRow(h \in WithManifest(w))
        BY <1>7 DEF Register, InsertPending
      <3>2. NewRow(h \in WithManifest(w)) = NewRow(TRUE)
            \/ NewRow(h \in WithManifest(w)) = NewRow(FALSE)
        BY DEF NewRow
      <3>3. QED
        BY <3>1, <3>2 DEF RowMove
    <2>2. QED
      BY <2>1
  <1>8. ASSUME NEW w \in Worker, FailPreload(w) PROVE Goal
    BY <1>8 DEF FailPreload, LockInv
  <1>9. ASSUME NEW w \in Worker, Claim(w) PROVE Goal
    <2>1. PICK p \in todo[w] : audit' = ClaimProcessing(audit, HashOf[p])
      BY <1>9 DEF Claim
    <2>2. QED
      BY <2>1 DEF ClaimProcessing, CanClaim, RowMove
  <1>10. ASSUME NEW w \in Worker, BeginWrite(w) PROVE Goal
    BY <1>1, <1>10 DEF BeginWrite
  <1>11. ASSUME NEW w \in Worker, CommitWrite(w) PROVE Goal
    BY <1>1, <1>11 DEF CommitWrite
  <1>12. ASSUME NEW w \in Worker, CommitWriteThenError(w) PROVE Goal
    BY <1>1, <1>12 DEF CommitWriteThenError
  <1>13. ASSUME NEW w \in Worker, FailLoad(w) PROVE Goal
    BY <1>1, <1>13 DEF FailLoad
  \* The mark finds the row PROCESSING, because its worker holds the lock.
  <1>14. ASSUME NEW w \in Worker, RecordOutcome(w) PROVE Goal
    <2>1. cur[w] \in Hash /\ audit[cur[w]].state = "PROCESSING"
      BY <1>14 DEF RecordOutcome, LockInv, ExclusiveLoad, Loading
    <2>2. QED
      BY <1>14, <2>1 DEF RecordOutcome, MarkCommitted, MarkFailed, RowMove
  <1>15. ASSUME NEW w \in Worker, EndRun(w) PROVE Goal
    BY <1>1, <1>15 DEF EndRun
  <1>16. ASSUME NEW w \in Worker, Crash(w) PROVE Goal
    BY <1>1, <1>16 DEF Crash
  <1>17. ASSUME NEW o \in Operator, NEW h \in Hash, RequeueRead(o, h) PROVE Goal
    BY <1>1, <1>17 DEF RequeueRead
  <1>18. ASSUME NEW o \in Operator, RequeueWrite(o) PROVE Goal
    BY <1>18 DEF Disciplined
  <1>19. CASE RequeueAll
    BY <1>19 DEF RequeueAll, RequeueAllTerminalFailed, IsTerminalFailed, RowMove
  <1>20. CASE UNCHANGED vars
    BY <1>1, <1>20 DEF vars
  <1>21. QED
    <2> HIDE DEF TypeOK, Goal
    <2>1. ASSUME NEW w \in Worker, WorkerStep(w) PROVE Goal
      BY <2>1, <1>5, <1>6, <1>7, <1>8, <1>9, <1>10, <1>11, <1>12, <1>13, <1>14,
         <1>15 DEF WorkerStep
    <2>2. QED
      BY <2>1, <1>2, <1>3, <1>4, <1>16, <1>17, <1>18, <1>19, <1>20 DEF Next

\* The reach of a move: the states it joins, and the attempts it counts.
LEMMA RowMoveReach ==
    ASSUME NEW row \in Row, NEW next \in Row, RowMove(row, next)
    PROVE  /\ row.state = "COMMITTED" => next.state = "COMMITTED"
           /\ IsTerminalFailed(row, RetryCap) =>
                  \/ next = row
                  \/ next.state = "PENDING" /\ next.attempt_count = 0
  <1>1. /\ InState(row, "PENDING") \in Row
        /\ FreshBudget(InState(row, "PENDING")).state = "PENDING"
        /\ FreshBudget(InState(row, "PENDING")).attempt_count = 0
    <2>1. InState(row, "PENDING") \in Row
      BY RowTypes DEF FileState
    <2>2. QED
      BY <2>1, RowFields DEF FileState
  <1>2. IsTerminalFailed(row, RetryCap) => ~IsRetryableFailed(row, RetryCap)
    BY AuditDbAssumption DEF IsTerminalFailed, IsRetryableFailed, Row
  <1>3. QED
    BY <1>1, <1>2 DEF RowMove, IsTerminalFailed, IsRetryableFailed, IsStale

\* With discipline, no mark, reclaim, reset or requeue takes a file out of
\* COMMITTED, although mark_failed and mark_committed name rows by hash alone.
THEOREM CommittedStays ==
    ASSUME Disciplined
    PROVE  Spec => CommittedIsFinal
  <1>1. TypeOK /\ TypeOK' /\ LockInv /\ [Next]_vars =>
            [\A h \in Hash : audit[h].state = "COMMITTED" => audit'[h].state = "COMMITTED"]_vars
    BY RowStep, RowMoveReach DEF TypeOK
  <1>2. QED
    BY <1>1, LockInvariant, TypeCorrect, PTL DEF Spec, CommittedIsFinal

\* With discipline, a terminal FAILED row waits for a requeue: no Run resets it
\* and no worker marks it.
THEOREM TerminalStays ==
    ASSUME Disciplined
    PROVE  Spec => TerminalNeedsRequeue
  <1>1. TypeOK /\ TypeOK' /\ LockInv /\ [Next]_vars =>
            [\A h \in Hash : IsTerminalFailed(audit[h], RetryCap) =>
                \/ audit'[h] = audit[h]
                \/ audit'[h].state = "PENDING" /\ audit'[h].attempt_count = 0]_vars
    BY RowStep, RowMoveReach DEF TypeOK
  <1>2. QED
    BY <1>1, LockInvariant, TypeCorrect, PTL DEF Spec, TerminalNeedsRequeue

-----------------------------------------------------------------------------
(***************************************************************************)
(* The retry budget.                                                       *)
(***************************************************************************)

\* The rows that two SET clauses in one statement leave.
LEMMA RowComposites ==
    ASSUME NEW row \in Row, NEW s \in FileState
    PROVE  /\ CountAttempt(InState(row, s)).state = s
           /\ CountAttempt(InState(row, s)).attempt_count = row.attempt_count + 1
           /\ FreshBudget(InState(row, s)).state = s
           /\ FreshBudget(InState(row, s)).attempt_count = 0
  <1>1. InState(row, s) \in Row
    BY RowTypes
  <1>2. /\ CountAttempt(InState(row, s)).state = InState(row, s).state
        /\ CountAttempt(InState(row, s)).attempt_count = InState(row, s).attempt_count + 1
        /\ FreshBudget(InState(row, s)).state = InState(row, s).state
        /\ FreshBudget(InState(row, s)).attempt_count = 0
    BY <1>1, RowFields
  <1>3. QED
    BY <1>2, RowFields

\* Who is loading a file changes with its row, or in a crash.
LEMMA OwnerStep ==
    ASSUME TypeOK, LockInv, [Next]_vars, NEW h \in Hash
    PROVE  /\ crashes' = crashes \/ crashes' = crashes + 1
           /\ Owned(h) /\ audit'[h].state = "PROCESSING" =>
                  Owned(h)' \/ crashes' = crashes + 1
           /\ audit[h].state = "PENDING" /\ audit'[h].state = "PROCESSING" => Owned(h)'
           /\ Owned(h) => audit[h].claim_age <= StaleTimeout
  <1> USE FiledgeRunAssumption DEF TypeOK, worker_vars, env_vars, Owned, Loading
  <1> DEFINE Goal == /\ crashes' = crashes \/ crashes' = crashes + 1
                     /\ Owned(h) /\ audit'[h].state = "PROCESSING" =>
                            Owned(h)' \/ crashes' = crashes + 1
                     /\ audit[h].state = "PENDING" /\ audit'[h].state = "PROCESSING"
                            => Owned(h)'
  <1>1. ASSUME UNCHANGED <<pc, cur, crashes>>,
               audit[h].state = "PENDING" => audit'[h].state # "PROCESSING"
        PROVE Goal
    BY <1>1
  <1>2. ASSUME UNCHANGED <<audit, cur, crashes>>,
               \A v \in Worker : Loading(v) <=> Loading(v)'
        PROVE Goal
    BY <1>2
  <1>3. ASSUME NEW p \in Path, NEW b \in BOOLEAN, DropFile(p, b) PROVE Goal
    BY <1>1, <1>3 DEF DropFile
  <1>4. ASSUME NEW p \in Path, RepairManifest(p) PROVE Goal
    BY <1>1, <1>4 DEF RepairManifest
  <1>5. ASSUME Tick PROVE Goal
    BY <1>1, <1>5 DEF Tick, AgeClaims
  <1>6. ASSUME NEW w \in Worker, StartRun(w) PROVE Goal
    BY <1>6, RowTypes DEF StartRun, ResetAndReclaim, IsRetryableFailed, IsStale
  <1>7. ASSUME NEW w \in Worker, Scan(w) PROVE Goal
    BY <1>2, <1>7 DEF Scan
  <1>8. ASSUME NEW w \in Worker, Register(w) PROVE Goal
    BY <1>8 DEF Register, InsertPending
  <1>9. ASSUME NEW w \in Worker, FailPreload(w) PROVE Goal
    BY <1>9 DEF FailPreload, LockInv
  <1>10. ASSUME NEW w \in Worker, Claim(w) PROVE Goal
    BY <1>10 DEF Claim, ClaimProcessing, CanClaim
  <1>11. ASSUME NEW w \in Worker, BeginWrite(w) PROVE Goal
    BY <1>2, <1>11 DEF BeginWrite
  <1>12. ASSUME NEW w \in Worker, CommitWrite(w) PROVE Goal
    BY <1>2, <1>12 DEF CommitWrite
  <1>13. ASSUME NEW w \in Worker, CommitWriteThenError(w) PROVE Goal
    BY <1>2, <1>13 DEF CommitWriteThenError
  <1>14. ASSUME NEW w \in Worker, FailLoad(w) PROVE Goal
    BY <1>2, <1>14 DEF FailLoad
  <1>15. ASSUME NEW w \in Worker, RecordOutcome(w) PROVE Goal
    <2>1. audit'[cur[w]].state # "PROCESSING"
      <3>1. cur[w] \in Hash
        BY <1>15 DEF RecordOutcome
      <3>2. /\ InState(audit[cur[w]], "COMMITTED").state = "COMMITTED"
            /\ CountAttempt(InState(audit[cur[w]], "FAILED")).state = "FAILED"
        BY <3>1, RowComposites, RowFields DEF FileState
      <3>3. QED
        BY <1>15, <3>1, <3>2 DEF RecordOutcome, MarkCommitted, MarkFailed
    <2>2. audit[h].state = "PENDING" /\ h # cur[w] => audit'[h].state = "PENDING"
      BY <1>15 DEF RecordOutcome, MarkCommitted, MarkFailed
    <2>3. QED
      BY <1>15, <2>1, <2>2 DEF RecordOutcome
  <1>16. ASSUME NEW w \in Worker, EndRun(w) PROVE Goal
    BY <1>2, <1>16 DEF EndRun
  <1>17. ASSUME NEW w \in Worker, Crash(w) PROVE Goal
    BY <1>17 DEF Crash
  <1>18. ASSUME NEW o \in Operator, NEW g \in Hash, RequeueRead(o, g) PROVE Goal
    BY <1>1, <1>18 DEF RequeueRead
  <1>19. ASSUME NEW o \in Operator, RequeueWrite(o) PROVE Goal
    <2>1. target[o] \in Hash
      BY <1>19 DEF RequeueWrite
    <2>2. FreshBudget(InState(audit[target[o]], "PENDING")).state = "PENDING"
      BY <2>1, RowComposites DEF FileState
    <2>3. QED
      BY <1>1, <1>19, <2>1, <2>2 DEF RequeueWrite, RequeueByHash
  <1>20. ASSUME RequeueAll PROVE Goal
    BY <1>1, <1>20, RowFields DEF RequeueAll, RequeueAllTerminalFailed, IsTerminalFailed
  <1>21. ASSUME UNCHANGED vars PROVE Goal
    BY <1>1, <1>21 DEF vars
  <1>22. Goal
    <2> HIDE DEF TypeOK, Owned, Loading, Goal
    <2>1. ASSUME NEW w \in Worker, WorkerStep(w) PROVE Goal
      BY <2>1, <1>6, <1>7, <1>8, <1>9, <1>10, <1>11, <1>12, <1>13, <1>14, <1>15,
         <1>16 DEF WorkerStep
    <2>2. QED
      BY <2>1, <1>3, <1>4, <1>5, <1>17, <1>18, <1>19, <1>20, <1>21 DEF Next
  <1>23. Owned(h) => audit[h].claim_age <= StaleTimeout
    BY DEF LockInv
  <1>24. QED
    BY <1>22, <1>23

\* Every step keeps the budget: a failed load spends the attempt its claim kept
\* in hand, a crash raises the bound before the reclaim spends that attempt.
LEMMA BudgetStep ==
    ASSUME Disciplined, RetryCap >= 1, TypeOK, TypeOK', LockInv, BudgetInv, [Next]_vars
    PROVE  BudgetInv'
  <1> SUFFICES ASSUME NEW h \in Hash
               PROVE  WithinBudget(audit'[h], Owned(h)', RetryCap + crashes')
    BY DEF BudgetInv
  <1>1. RowMove(audit[h], audit'[h])
    BY RowStep
  <1>2. audit[h] \in Row /\ audit'[h] \in Row /\ crashes \in Nat /\ RetryCap \in Nat
    BY FiledgeRunAssumption, AuditDbAssumption DEF TypeOK
  <1>3. /\ crashes' = crashes \/ crashes' = crashes + 1
        /\ Owned(h) /\ audit'[h].state = "PROCESSING" => Owned(h)' \/ crashes' = crashes + 1
        /\ audit[h].state = "PENDING" /\ audit'[h].state = "PROCESSING" => Owned(h)'
        /\ Owned(h) => audit[h].claim_age <= StaleTimeout
    BY OwnerStep
  <1>4. WithinBudget(audit[h], Owned(h), RetryCap + crashes)
    BY DEF BudgetInv
  <1> USE DEF WithinBudget, Row
  <1> DEFINE r == audit[h]  n == audit'[h]
  <1>6. CASE n = r
    BY <1>2, <1>3, <1>4, <1>6
  <1>7. CASE r.state = "ABSENT" /\ \E b \in BOOLEAN : n = NewRow(b)
    BY <1>2, <1>3, <1>4, <1>7 DEF NewRow
  <1>8. CASE r.state = "PENDING" /\ n = InState(r, "PROCESSING")
    BY <1>2, <1>3, <1>4, <1>8, RowFields DEF FileState
  <1>9. CASE r.state = "PROCESSING" /\ n = Older(r)
    BY <1>2, <1>3, <1>4, <1>9, RowFields DEF FileState
  <1>10. CASE r.state = "PROCESSING" /\ n = InState(r, "COMMITTED")
    BY <1>2, <1>3, <1>4, <1>10, RowFields DEF FileState
  <1>11. CASE r.state = "PROCESSING" /\ n = CountAttempt(InState(r, "FAILED"))
    <2>1. n.state = "FAILED" /\ n.attempt_count = r.attempt_count + 1
      BY <1>2, <1>11, RowComposites DEF FileState
    <2>2. QED
      BY <1>2, <1>3, <1>4, <1>11, <2>1
  <1>12. CASE IsRetryableFailed(r, RetryCap) /\ n = InState(r, "PENDING")
    <2>1. n.state = "PENDING" /\ n.attempt_count = r.attempt_count
      BY <1>2, <1>12, RowFields DEF FileState
    <2>2. QED
      BY <1>2, <1>3, <1>12, <2>1 DEF IsRetryableFailed
  <1>13. CASE IsStale(r) /\ n = CountAttempt(InState(r, "PENDING"))
    <2>1. n.state = "PENDING" /\ n.attempt_count = r.attempt_count + 1
      BY <1>2, <1>13, RowComposites DEF FileState
    <2>2. ~Owned(h)
      BY <1>2, <1>3, <1>13, AuditDbAssumption DEF IsStale
    <2>3. QED
      BY <1>2, <1>3, <1>4, <1>13, <2>1, <2>2 DEF IsStale
  <1>14. CASE r.state = "FAILED" /\ n = FreshBudget(InState(r, "PENDING"))
    <2>1. n.state = "PENDING" /\ n.attempt_count = 0
      BY <1>2, <1>14, RowComposites DEF FileState
    <2>2. QED
      BY <1>2, <1>3, <2>1
  <1>15. QED
    BY <1>1, <1>6, <1>7, <1>8, <1>9, <1>10, <1>11, <1>12, <1>13, <1>14 DEF RowMove

\* With discipline and a cap of at least one, a file is attempted at most as
\* often as the cap says, and once more for every crash.
THEOREM AttemptsBounded ==
    ASSUME Disciplined, RetryCap >= 1
    PROVE  Spec => []AttemptsWithinBudget
  <1>1. Init => BudgetInv
    <2>1. NoRow.state = "ABSENT" /\ NoRow.attempt_count = 0
      BY DEF NoRow
    <2>2. Init => \A h \in Hash : audit[h] = NoRow
      BY DEF Init, EmptyTable
    <2>3. QED
      BY <2>1, <2>2 DEF BudgetInv, WithinBudget
  <1>2. TypeOK /\ TypeOK' /\ LockInv /\ BudgetInv /\ [Next]_vars => BudgetInv'
    BY BudgetStep
  <1>3. TypeOK /\ BudgetInv => AttemptsWithinBudget
    <2> SUFFICES ASSUME TypeOK, BudgetInv, NEW h \in Hash
                 PROVE  audit[h].attempt_count <= RetryCap + crashes
      BY DEF AttemptsWithinBudget
    <2>1. audit[h] \in Row /\ audit[h].attempt_count \in Nat /\ crashes \in Nat /\ RetryCap \in Nat
      BY FiledgeRunAssumption, AuditDbAssumption DEF TypeOK, Row
    <2>2. QED
      BY <2>1 DEF BudgetInv, WithinBudget, Row, FileState
  <1>4. QED
    BY <1>1, <1>2, <1>3, LockInvariant, TypeCorrect, PTL DEF Spec

\* Until the first crash a file that has reached the cap is FAILED, as the
\* documentation has it: only a reclaim attempts a file past the cap.
THEOREM CapIsTerminal ==
    ASSUME Disciplined, RetryCap >= 1
    PROVE  Spec => [](crashes = 0 => CapMakesTerminal)
  <1>1. Init => BudgetInv
    <2>1. NoRow.state = "ABSENT" /\ NoRow.attempt_count = 0
      BY DEF NoRow
    <2>2. Init => \A h \in Hash : audit[h] = NoRow
      BY DEF Init, EmptyTable
    <2>3. QED
      BY <2>1, <2>2 DEF BudgetInv, WithinBudget
  <1>2. TypeOK /\ TypeOK' /\ LockInv /\ BudgetInv /\ [Next]_vars => BudgetInv'
    BY BudgetStep
  <1>3. TypeOK /\ BudgetInv => (crashes = 0 => CapMakesTerminal)
    <2> SUFFICES ASSUME TypeOK, BudgetInv, crashes = 0, NEW h \in Hash,
                        audit[h].attempt_count >= RetryCap
                 PROVE  audit[h].state = "FAILED"
      BY DEF CapMakesTerminal
    <2>1. audit[h] \in Row /\ audit[h].attempt_count \in Nat /\ RetryCap \in Nat
      BY AuditDbAssumption DEF TypeOK, Row
    <2>2. audit[h].state \in {"PENDING", "PROCESSING", "COMMITTED"} =>
              audit[h].attempt_count + 1 <= RetryCap
      BY <2>1 DEF BudgetInv, WithinBudget
    <2>3. audit[h].state = "ABSENT" => audit[h].attempt_count = 0
      BY DEF BudgetInv, WithinBudget
    <2>4. QED
      BY <2>1, <2>2, <2>3 DEF Row, FileState
  <1>4. QED
    BY <1>1, <1>2, <1>3, LockInvariant, TypeCorrect, PTL DEF Spec

-----------------------------------------------------------------------------
(***************************************************************************)
(* With discipline, filedge run implements the promise of FileLifecycle:   *)
(* the states of the rows and the number of copies in the destination move *)
(* as one abstract step or not at all.  Abstract steps, read off the rows: *)
(***************************************************************************)

\* A step that changes no row's state and no copy is a stutter.
LEMMA Stutter ==
    ASSUME dest' = dest, \A h \in Hash : audit'[h].state = audit[h].state
    PROVE  UNCHANGED Promise!lifecycle_vars
  BY DEF Promise!lifecycle_vars

\* A step that moves the rows of H to one state, and lands nothing, is a Move.
LEMMA MoveRows ==
    ASSUME NEW H \in SUBSET Hash, NEW to, dest' = dest,
           \A h \in H : audit'[h].state = to,
           \A h \in Hash \ H : audit'[h].state = audit[h].state
    PROVE  /\ Promise!Move(H, to)
           /\ [h \in Hash |-> Cardinality(dest[h])]' = [h \in Hash |-> Cardinality(dest[h])]
  BY DEF Promise!Move

\* A release moves files in FAILED or PROCESSING to PENDING.
LEMMA ReleaseRows ==
    ASSUME NEW H \in SUBSET Hash, dest' = dest,
           \A h \in H : audit[h].state \in {"FAILED", "PROCESSING"},
           \A h \in H : audit'[h].state = "PENDING",
           \A h \in Hash \ H : audit'[h].state = audit[h].state
    PROVE  Promise!LifecycleNext
  <1>1. H \subseteq Promise!In("FAILED") \cup Promise!In("PROCESSING")
    BY DEF Promise!In
  <1>2. Promise!Release(H)
    BY <1>1, MoveRows DEF Promise!Release
  <1>3. QED
    BY <1>2 DEF Promise!LifecycleNext

\* Landing one copy, in place of those that were there, is a Land.
LEMMA LandStep ==
    ASSUME TypeOK, LockInv, NEW w \in Worker, pc[w] = "writing", LandRows(w),
           audit' = audit
    PROVE  Promise!LifecycleNext
  <1>1. cur[w] \in Hash /\ audit[cur[w]].state = "PROCESSING" /\ doomed[w] = dest[cur[w]]
    BY FiledgeRunAssumption DEF TypeOK, LockInv, ExclusiveLoad, Loading
  <1>2. dest' = [dest EXCEPT ![cur[w]] = {w}]
    BY <1>1 DEF LandRows
  <1>3. Cardinality({w}) = 1
    BY FS_Singleton
  <1>4. [h \in Hash |-> Cardinality(dest[h])]'
            = [[h \in Hash |-> Cardinality(dest[h])] EXCEPT ![cur[w]] = 1]
    BY <1>1, <1>2, <1>3 DEF TypeOK
  <1>5. Promise!Land(cur[w])
    BY <1>1, <1>4 DEF Promise!Land, Promise!In
  <1>6. QED
    BY <1>1, <1>5 DEF Promise!LifecycleNext

-----------------------------------------------------------------------------
LEMMA LifecycleStep ==
    ASSUME Disciplined, TypeOK, LockInv, [Next]_vars
    PROVE  Promise!LifecycleNext \/ UNCHANGED Promise!lifecycle_vars
  <1> USE FiledgeRunAssumption DEF TypeOK, worker_vars, env_vars
  <1> DEFINE Goal == Promise!LifecycleNext \/ UNCHANGED Promise!lifecycle_vars
  <1> SUFFICES Goal
    OBVIOUS
  <1>1. ASSUME UNCHANGED <<audit, dest>> PROVE Goal
    BY <1>1, Stutter
  <1>2. ASSUME NEW p \in Path, NEW b \in BOOLEAN, DropFile(p, b) PROVE Goal
    BY <1>1, <1>2 DEF DropFile
  <1>3. ASSUME NEW p \in Path, RepairManifest(p) PROVE Goal
    BY <1>1, <1>3 DEF RepairManifest
  <1>4. CASE Tick
    <2>1. ASSUME NEW h \in Hash PROVE audit'[h].state = audit[h].state
      <3>1. audit[h] \in Row
        OBVIOUS
      <3>2. Older(audit[h]).state = audit[h].state
        BY <3>1, RowFields DEF FileState
      <3>3. QED
        BY <1>4, <3>2 DEF Tick, AgeClaims
    <2>2. QED
      BY <1>4, <2>1, Stutter DEF Tick
  <1>5. ASSUME NEW w \in Worker, StartRun(w) PROVE Goal
    <2> DEFINE H == {h \in Hash : IsRetryableFailed(audit[h], RetryCap) \/ IsStale(audit[h])}
    <2>1. \A h \in H : audit[h].state \in {"FAILED", "PROCESSING"}
      BY DEF IsRetryableFailed, IsStale
    <2>2. \A h \in H : audit'[h].state = "PENDING"
      BY <1>5, RowFields, RowComposites DEF StartRun, ResetAndReclaim, FileState
    <2>3. \A h \in Hash \ H : audit'[h].state = audit[h].state
      BY <1>5 DEF StartRun, ResetAndReclaim
    <2>4. dest' = dest
      BY <1>5 DEF StartRun
    <2>5. QED
      BY <2>1, <2>2, <2>3, <2>4, ReleaseRows
  <1>6. ASSUME NEW w \in Worker, Scan(w) PROVE Goal
    BY <1>1, <1>6 DEF Scan
  <1>7. ASSUME NEW w \in Worker, Register(w) PROVE Goal
    <2>1. PICK H \in SUBSET Hash :
              H = {h \in Hash : h \in NewHashes(w) /\ audit[h].state = "ABSENT"}
      OBVIOUS
    <2>2. \A h \in H : audit'[h].state = "PENDING"
      BY <1>7, <2>1 DEF Register, InsertPending, NewRow
    <2>3. \A h \in Hash \ H : audit'[h].state = audit[h].state
      BY <1>7, <2>1 DEF Register, InsertPending
    <2>4. dest' = dest
      BY <1>7 DEF Register
    <2>5. H \subseteq Promise!In("ABSENT")
      BY <2>1 DEF Promise!In
    <2>6. Promise!Register(H)
      BY <2>2, <2>3, <2>4, <2>5, MoveRows DEF Promise!Register
    <2>7. QED
      BY <2>6 DEF Promise!LifecycleNext
  <1>8. ASSUME NEW w \in Worker, FailPreload(w) PROVE Goal
    BY <1>8 DEF FailPreload, LockInv
  <1>9. ASSUME NEW w \in Worker, Claim(w) PROVE Goal
    <2>1. PICK p \in todo[w] : audit' = ClaimProcessing(audit, HashOf[p])
      BY <1>9 DEF Claim
    <2>2. dest' = dest /\ HashOf[p] \in Hash
      BY <1>9, <2>1 DEF Claim
    <2>3. CASE CanClaim(audit, HashOf[p])
      <3>1. audit' = [audit EXCEPT ![HashOf[p]] = InState(@, "PROCESSING")]
        BY <2>1, <2>3 DEF ClaimProcessing
      <3>2. \A h \in {HashOf[p]} : audit'[h].state = "PROCESSING"
        <4>1. InState(audit[HashOf[p]], "PROCESSING").state = "PROCESSING"
          BY <2>2, RowFields DEF FileState
        <4>2. QED
          BY <2>2, <3>1, <4>1
      <3>3. \A h \in Hash \ {HashOf[p]} : audit'[h].state = audit[h].state
        BY <3>1
      <3>4. Promise!Take(HashOf[p])
        BY <2>2, <2>3, <3>2, <3>3, MoveRows DEF Promise!Take, Promise!In, CanClaim
      <3>5. QED
        BY <2>2, <3>4 DEF Promise!LifecycleNext
    <2>4. QED
      BY <1>1, <2>1, <2>2, <2>3 DEF ClaimProcessing
  <1>10. ASSUME NEW w \in Worker, BeginWrite(w) PROVE Goal
    BY <1>1, <1>10 DEF BeginWrite
  <1>11. ASSUME NEW w \in Worker, CommitWrite(w) PROVE Goal
    BY <1>11, LandStep DEF CommitWrite
  <1>12. ASSUME NEW w \in Worker, CommitWriteThenError(w) PROVE Goal
    BY <1>12, LandStep DEF CommitWriteThenError
  <1>13. ASSUME NEW w \in Worker, FailLoad(w) PROVE Goal
    BY <1>1, <1>13 DEF FailLoad
  <1>14. ASSUME NEW w \in Worker, RecordOutcome(w) PROVE Goal
    <2>1. PICK h \in Hash : h = cur[w] /\ audit[h].state = "PROCESSING" /\ dest' = dest
      BY <1>14 DEF RecordOutcome, LockInv, ExclusiveLoad, Loading
    <2>2. \A g \in Hash \ {h} : audit'[g].state = audit[g].state
      BY <1>14, <2>1 DEF RecordOutcome, MarkCommitted, MarkFailed
    <2>3. CASE pc[w] = "landed"
      <3>1. \A g \in {h} : audit'[g].state = "COMMITTED"
        <4>1. InState(audit[h], "COMMITTED").state = "COMMITTED"
          BY <2>1, RowFields DEF FileState
        <4>2. QED
          BY <1>14, <2>1, <2>3, <4>1 DEF RecordOutcome, MarkCommitted
      <3>2. Cardinality(dest[h]) = 1
        <4>1. dest[h] = {w}
          BY <2>1, <2>3 DEF LockInv
        <4>2. QED
          BY <4>1, FS_Singleton
      <3>3. Promise!Commit(h)
        BY <2>1, <2>2, <3>1, <3>2, MoveRows DEF Promise!Commit, Promise!In
      <3>4. QED
        BY <2>1, <3>3 DEF Promise!LifecycleNext
    <2>4. CASE pc[w] = "errored"
      <3>1. \A g \in {h} : audit'[g].state = "FAILED"
        <4>1. CountAttempt(InState(audit[h], "FAILED")).state = "FAILED"
          BY <2>1, RowComposites DEF FileState
        <4>2. QED
          BY <1>14, <2>1, <2>4, <4>1 DEF RecordOutcome, MarkFailed
      <3>2. Promise!Fail(h)
        BY <2>1, <2>2, <3>1, MoveRows DEF Promise!Fail, Promise!In
      <3>3. QED
        BY <2>1, <3>2 DEF Promise!LifecycleNext
    <2>5. QED
      BY <1>14, <2>3, <2>4 DEF RecordOutcome
  <1>15. ASSUME NEW w \in Worker, EndRun(w) PROVE Goal
    BY <1>1, <1>15 DEF EndRun
  <1>16. ASSUME NEW w \in Worker, Crash(w) PROVE Goal
    BY <1>1, <1>16 DEF Crash
  <1>17. ASSUME NEW o \in Operator, NEW h \in Hash, RequeueRead(o, h) PROVE Goal
    BY <1>1, <1>17 DEF RequeueRead
  <1>18. ASSUME NEW o \in Operator, RequeueWrite(o) PROVE Goal
    BY <1>18 DEF Disciplined
  <1>19. CASE RequeueAll
    <2> DEFINE H == {h \in Hash : IsTerminalFailed(audit[h], RequeueCap)}
    <2>1. \A h \in H : audit[h].state \in {"FAILED", "PROCESSING"}
      BY DEF IsTerminalFailed
    <2>2. \A h \in H : audit'[h].state = "PENDING"
      BY <1>19, RowComposites DEF RequeueAll, RequeueAllTerminalFailed, FileState
    <2>3. \A h \in Hash \ H : audit'[h].state = audit[h].state
      BY <1>19 DEF RequeueAll, RequeueAllTerminalFailed
    <2>4. dest' = dest
      BY <1>19 DEF RequeueAll
    <2>5. QED
      BY <2>1, <2>2, <2>3, <2>4, ReleaseRows
  <1>20. CASE UNCHANGED vars
    BY <1>1, <1>20 DEF vars
  <1>21. QED
    <2> HIDE DEF TypeOK, Goal
    <2>1. ASSUME NEW w \in Worker, WorkerStep(w) PROVE Goal
      BY <2>1, <1>5, <1>6, <1>7, <1>8, <1>9, <1>10, <1>11, <1>12, <1>13, <1>14,
         <1>15 DEF WorkerStep
    <2>2. QED
      BY <2>1, <1>2, <1>3, <1>4, <1>16, <1>17, <1>18, <1>19, <1>20 DEF Next

\* filedge run keeps the promise of FileLifecycle whenever claims outlive loads,
\* operators requeue with --all-terminal-failed only, and no manifest policy
\* fails files from outside a claim.
THEOREM RunImplementsLifecycle ==
    ASSUME Disciplined
    PROVE  Spec => ImplementsLifecycle
  <1>1. Init => Promise!LifecycleInit
    <2>1. NoRow.state = "ABSENT"
      BY DEF NoRow
    <2>2. Cardinality({}) = 0
      BY FS_EmptySet
    <2>3. Init => [h \in Hash |-> audit[h].state] = [h \in Hash |-> "ABSENT"]
      BY <2>1 DEF Init, EmptyTable
    <2>4. Init => [h \in Hash |-> Cardinality(dest[h])] = [h \in Hash |-> 0]
      BY <2>2 DEF Init
    <2>5. QED
      BY <2>3, <2>4 DEF Promise!LifecycleInit
  <1>2. TypeOK /\ LockInv /\ [Next]_vars => [Promise!LifecycleNext]_(Promise!lifecycle_vars)
    BY LifecycleStep
  <1>3. QED
    BY <1>1, <1>2, LockInvariant, TypeCorrect, PTL
    DEF Spec, ImplementsLifecycle, Promise!Lifecycle
==============================================================================
