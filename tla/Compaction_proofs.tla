-------------------------- MODULE Compaction_proofs --------------------------
(***************************************************************************)
(* Compaction loses no file, whatever fails or is killed: proofs.          *)
(***************************************************************************)
EXTENDS Compaction, FiniteSetTheorems, TLAPS

\* What every step of the compactor keeps, so that it can let go of a source file
\* or write it into the manifest: a batch that is being recorded is in an output.
RecordingCompacted == pc = "recording" => batch \subseteq Compacted

LostInv ==
    /\ NothingLost
    /\ RecordingCompacted
    /\ \A S \in {source, manifest, work, batch} : S \subseteq arrived

\* An output, once renamed, stays.
LEMMA OutputsGrow ==
    ASSUME Next
    PROVE  Compacted \subseteq Compacted'
<1>1. outputs \subseteq outputs'
  BY DEF Next, Step, Start, WriteTmp, AbortBatch, RenameTmp, DeleteOne, AppendManifest,
         Finish, EndRun, Fail, Kill, Arrive
<1> QED BY <1>1 DEF Compacted

\* Every step of the compactor and of its environment keeps LostInv.
LEMMA LostStep ==
    ASSUME LostInv, [Next]_vars
    PROVE  LostInv'
<1> USE DEF LostInv, NothingLost, RecordingCompacted, Listed, DeleteSource
<1>1. CASE UNCHANGED vars
  BY <1>1 DEF vars, compactor_vars, Compacted
<1>2. CASE Next
  <2>0. Compacted \subseteq Compacted'
    BY <1>2, OutputsGrow
  <2>1. CASE \E f \in File : Arrive(f)
    <3>1. PICK f \in File : Arrive(f)
      BY <2>1
    <3>2. /\ arrived' = arrived \cup {f} /\ source' = source \cup {f}
          /\ UNCHANGED <<mode, manifest, pc, work, batch>>
          /\ f \notin arrived
      BY <3>1 DEF Arrive, compactor_vars
    <3> QED BY <2>0, <3>2
  <2>2. CASE Start
    BY <2>0, <2>2 DEF Start
  <2>3. CASE WriteTmp
    BY <2>0, <2>3 DEF WriteTmp, FirstFiles
  <2>4. CASE AbortBatch
    BY <2>0, <2>4 DEF AbortBatch
  <2>5. CASE RenameTmp
    <3>1. batch \subseteq Compacted'
      BY <2>5 DEF RenameTmp, Compacted, Content
    <3> QED BY <2>0, <2>5, <3>1 DEF RenameTmp
  <2>6. CASE DeleteOne
    <3>1. PICK f \in batch : source' = source \ {f} /\ Recorded({f})
      BY <2>6 DEF DeleteOne
    <3> QED BY <2>0, <2>6, <3>1 DEF DeleteOne, Recorded
  <2>7. CASE AppendManifest
    BY <2>0, <2>7 DEF AppendManifest, Recorded
  <2>8. CASE Finish
    BY <2>0, <2>8 DEF Finish
  <2>9. CASE Fail \/ Kill
    BY <2>0, <2>9 DEF Fail, Kill, EndRun
  <2> QED BY <1>2, <2>1, <2>2, <2>3, <2>4, <2>5, <2>6, <2>7, <2>8, <2>9 DEF Next, Step
<1> QED BY <1>1, <1>2

\* A file that no later run will look at has been merged into an output, in both
\* modes, for any files, batch size, faults, kills and malformed files.
THEOREM CompactionLosesNothing == Spec => []NothingLost
<1>1. Init => LostInv
  BY DEF Init, LostInv, NothingLost, RecordingCompacted, Listed, DeleteSource
<1>2. LostInv /\ [Next]_vars => LostInv'
  BY LostStep
<1>3. LostInv => NothingLost
  BY DEF LostInv
<1> QED BY <1>1, <1>2, <1>3, PTL DEF Spec
-----------------------------------------------------------------------------
\* There is one .tmp file while a batch is being written, and besides at most one
\* for each kill; a run has a batch in hand only while it writes or records it.
TmpInv ==
    /\ TypeOK
    /\ tmps <= IF pc = "writing" THEN faults + 1 ELSE faults
    /\ pc = "writing" => tmps > 0
    /\ pc \in {"idle", "batching"} => batch = {}

LEMMA TmpStep ==
    ASSUME TmpInv, [Next]_vars
    PROVE  TmpInv'
<1> USE CompactionAssumption DEF TmpInv, TypeOK
<1>1. CASE UNCHANGED vars
  BY <1>1 DEF vars, compactor_vars
<1>2. CASE \E f \in File : Arrive(f)
  BY <1>2 DEF Arrive, compactor_vars
<1>3. CASE Start
  BY <1>3 DEF Start, Listed
<1>4. CASE WriteTmp
  BY <1>4 DEF WriteTmp, FirstFiles
<1>5. CASE AbortBatch
  BY <1>5 DEF AbortBatch
<1>6. CASE RenameTmp
  <2>1. Content(batch) \in [files : SUBSET File, stamp : 0 .. MaxFaults]
    BY DEF Content
  <2> QED BY <1>6, <2>1 DEF RenameTmp
<1>7. CASE DeleteOne
  BY <1>7 DEF DeleteOne, Recorded
<1>8. CASE AppendManifest
  BY <1>8 DEF AppendManifest, Recorded
<1>9. CASE Finish
  BY <1>9 DEF Finish
<1>10. CASE Fail
  BY <1>10 DEF Fail, EndRun
<1>11. CASE Kill
  BY <1>11 DEF Kill, EndRun
<1> QED BY <1>1, <1>2, <1>3, <1>4, <1>5, <1>6, <1>7, <1>8, <1>9, <1>10, <1>11 DEF Next, Step

LEMMA TmpInit == Init => TmpInv
<1>1. Init => TypeOK
  <2>1. 0 \in 0 .. MaxFaults /\ 0 \in 0 .. MaxFaults + 1
    BY CompactionAssumption
  <2> QED BY <2>1 DEF Init, TypeOK
<1> QED BY <1>1 DEF Init, TmpInv

\* The variables keep their types: what is being compacted is in the source prefix,
\* and .tmp files are left by kills only.
THEOREM CompactionTypes == Spec => []TypeOK
<1>1. TmpInv => TypeOK
  BY DEF TmpInv
<1> QED BY <1>1, TmpInit, TmpStep, PTL DEF Spec
-----------------------------------------------------------------------------
\* The outputs that hold the rows of a file.  A file that a batch may still take is
\* in as many as there were faults, at most; one whose batch is renamed and not
\* recorded in one more.
OutputsOf(f) == {c \in outputs : f \in c.files}

MayBeTaken(f) == f \in Listed /\ ~(pc = "recording" /\ f \in batch)

CopyInv ==
    /\ IsFiniteSet(outputs)
    /\ \A c \in outputs : c.files \subseteq arrived
    /\ work \subseteq Listed
    /\ \A f \in File : Cardinality(OutputsOf(f)) <= IF MayBeTaken(f) THEN faults ELSE 1 + faults

\* A file is in finitely many outputs, and in none before it arrives.
LEMMA CopiesCounted ==
    ASSUME CopyInv, NEW f \in File
    PROVE  /\ IsFiniteSet(OutputsOf(f)) /\ Cardinality(OutputsOf(f)) \in Nat
           /\ f \notin arrived => Cardinality(OutputsOf(f)) = 0
<1>1. IsFiniteSet(OutputsOf(f))
  BY FS_Subset DEF CopyInv, OutputsOf
<1>2. f \notin arrived => OutputsOf(f) = {}
  BY DEF CopyInv, OutputsOf
<1> QED BY <1>1, <1>2, FS_CardinalityType, FS_EmptySet

\* A rename puts a file into one more output, if it is in the batch.
LEMMA OneMoreCopy ==
    ASSUME CopyInv, RenameTmp, NEW f \in File
    PROVE  /\ Cardinality(OutputsOf(f)') <= Cardinality(OutputsOf(f)) + 1
           /\ f \notin batch => OutputsOf(f)' = OutputsOf(f)
<1>1. outputs' = outputs \cup {Content(batch)} /\ Content(batch).files = batch
  BY DEF RenameTmp, Content
<1>2. CASE f \in batch
  <2>1. OutputsOf(f)' = OutputsOf(f) \cup {Content(batch)}
    BY <1>1, <1>2 DEF OutputsOf
  <2>2. IsFiniteSet(OutputsOf(f)) /\ Cardinality(OutputsOf(f)) \in Nat
    BY CopiesCounted
  <2>3. Cardinality(OutputsOf(f) \cup {Content(batch)}) <= Cardinality(OutputsOf(f)) + 1
    BY <2>2, FS_AddElement
  <2> QED BY <1>2, <2>1, <2>3
<1>3. CASE f \notin batch
  <2>1. OutputsOf(f)' = OutputsOf(f)
    BY <1>1, <1>3 DEF OutputsOf
  <2> QED BY <2>1, CopiesCounted
<1> QED BY <1>2, <1>3

LEMMA CopyStep ==
    ASSUME TmpInv, CopyInv, [Next]_vars
    PROVE  CopyInv'
<1> USE CompactionAssumption DEF TypeOK, TmpInv, Listed, DeleteSource
<1> DEFINE n(f) == Cardinality(OutputsOf(f))
<1>0. \A f \in File : n(f) \in Nat /\ n(f) <= 1 + faults
                      /\ (MayBeTaken(f) => n(f) <= faults) /\ (f \notin arrived => n(f) = 0)
  BY CopiesCounted DEF CopyInv
\* Steps that write no output: no file may be taken again but for a fault.
<1>1. ASSUME UNCHANGED <<mode, outputs>>, arrived \subseteq arrived', work' \subseteq Listed',
             faults' \in {faults, faults + 1},
             \A f \in File : MayBeTaken(f)' => \/ MayBeTaken(f)
                                               \/ f \notin arrived
                                               \/ faults' = faults + 1
      PROVE  CopyInv'
  <2>1. \A f \in File : OutputsOf(f)' = OutputsOf(f)
    BY <1>1 DEF OutputsOf
  <2>2. \A f \in File : n(f) <= IF MayBeTaken(f)' THEN faults' ELSE 1 + faults'
    BY <1>0, <1>1
  <2> QED BY <1>1, <2>1, <2>2 DEF CopyInv
<1> HIDE DEF n
<1>2. CASE UNCHANGED vars
  <2>1. UNCHANGED OutputsOf(1) /\ \A f \in File : MayBeTaken(f)' <=> MayBeTaken(f)
    BY <1>2 DEF vars, compactor_vars, MayBeTaken, OutputsOf
  <2> QED BY <1>1, <1>2, <2>1 DEF vars, compactor_vars, CopyInv
<1>3. ASSUME NEW g \in File, Arrive(g) PROVE CopyInv'
  BY <1>1, <1>3 DEF Arrive, compactor_vars, MayBeTaken, CopyInv
<1>4. CASE Start
  BY <1>1, <1>4 DEF Start, MayBeTaken
<1>5. CASE WriteTmp
  BY <1>1, <1>5 DEF WriteTmp, MayBeTaken, CopyInv
<1>6. CASE AbortBatch
  BY <1>1, <1>6 DEF AbortBatch, MayBeTaken
\* The batch was taken from what may be taken; now it is being recorded.
<1>7. CASE RenameTmp
  <2>1. /\ UNCHANGED <<mode, arrived, source, manifest, work, batch, faults>>
        /\ pc = "writing" /\ pc' = "recording"
        /\ outputs' = outputs \cup {Content(batch)} /\ Content(batch).files = batch
    BY <1>7 DEF RenameTmp, Content
  <2>2. IsFiniteSet(outputs')
    BY <2>1, FS_AddElement DEF CopyInv
  <2>3. (\A c \in outputs : c.files \subseteq arrived)' /\ (work \subseteq Listed)'
    BY <2>1 DEF CopyInv
  <2>4. ASSUME NEW f \in File
        PROVE  Cardinality(OutputsOf(f)') <= IF MayBeTaken(f)' THEN faults' ELSE 1 + faults'
    <3>1. CASE f \in batch
      <4>1. MayBeTaken(f) /\ ~MayBeTaken(f)'
        BY <2>1, <3>1 DEF MayBeTaken, CopyInv
      <4>2. n(f) \in Nat /\ n(f) <= faults /\ Cardinality(OutputsOf(f)') <= n(f) + 1
        BY <1>0, <1>7, <4>1, OneMoreCopy DEF n
      <4>3. Cardinality(OutputsOf(f)') \in Nat
        <5>1. IsFiniteSet(OutputsOf(f)')
          BY <2>2, FS_Subset DEF OutputsOf
        <5> QED BY <5>1, FS_CardinalityType
      <4> QED BY <2>1, <4>1, <4>2, <4>3
    <3>2. CASE f \notin batch
      <4>1. OutputsOf(f)' = OutputsOf(f) /\ (MayBeTaken(f)' <=> MayBeTaken(f))
        BY <1>7, <2>1, <3>2, OneMoreCopy DEF MayBeTaken
      <4>2. n(f) <= IF MayBeTaken(f) THEN faults ELSE 1 + faults
        BY <1>0
      <4> QED BY <2>1, <4>1, <4>2 DEF n
    <3> QED BY <3>1, <3>2
  <2> QED BY <2>2, <2>3, <2>4 DEF CopyInv
\* What is recorded is no longer listed.
<1>8. CASE DeleteOne
  <2>1. PICK g \in batch : source' = source \ {g} /\ Recorded({g})
    BY <1>8 DEF DeleteOne
  <2> QED BY <1>1, <1>8, <2>1 DEF DeleteOne, Recorded, MayBeTaken, CopyInv
<1>9. CASE AppendManifest
  BY <1>1, <1>9 DEF AppendManifest, Recorded, MayBeTaken, CopyInv
<1>10. CASE Finish
  BY <1>1, <1>10 DEF Finish, MayBeTaken, CopyInv
<1>11. CASE Fail \/ Kill
  BY <1>1, <1>11 DEF Fail, Kill, EndRun, MayBeTaken
<1> QED BY <1>2, <1>3, <1>4, <1>5, <1>6, <1>7, <1>8, <1>9, <1>10, <1>11 DEF Next, Step

\* The rows of a file are in more than one output only by faults, one for each
\* copy too many: in both modes, for any files and any batch size.
THEOREM CompactionCopiesBounded == Spec => []CopiesBounded
<1>1. Init => CopyInv
  <2> SUFFICES ASSUME Init PROVE CopyInv
    OBVIOUS
  <2>1. \A f \in File : OutputsOf(f) = {}
    BY DEF Init, OutputsOf
  <2>2. \A f \in File : Cardinality(OutputsOf(f)) <= IF MayBeTaken(f) THEN faults ELSE 1 + faults
    BY <2>1, FS_EmptySet DEF Init
  <2>3. IsFiniteSet(outputs)
    BY FS_EmptySet DEF Init
  <2> QED BY <2>2, <2>3 DEF Init, CopyInv
<1>2. TmpInv /\ CopyInv => CopiesBounded
  BY CopiesCounted, CompactionAssumption DEF CopyInv, CopiesBounded, OutputsOf, TmpInv, TypeOK
<1> QED BY <1>1, <1>2, TmpInit, TmpStep, CopyStep, PTL DEF Spec
==============================================================================
