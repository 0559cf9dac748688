-------------------------- MODULE Materialize_proofs --------------------------
(***************************************************************************)
(* Proofs about Materialize, for any number of Materializers, partitions,  *)
(* messages, faults and kills and any batch size: what is taken from the   *)
(* queue is not dropped, and what is committed to the broker has landed.   *)
(***************************************************************************)
EXTENDS Materialize, WellFoundedInduction, TLAPS

-----------------------------------------------------------------------------
(***************************************************************************)
(* The offset after a batch.                                               *)
(***************************************************************************)

\* What takes the place of induction.
LEMMA LeastNatural ==
    ASSUME NEW S \in SUBSET Nat, S # {}
    PROVE  \E n \in S : \A m \in S : n <= m
<1> DEFINE R == OpToRel(<, Nat)
<1>1. IsWellFoundedOn(R, Nat)
  BY NatLessThanWellFounded
<1> HIDE DEF R
<1>2. PICK n \in S : \A m \in S : <<m, n>> \notin R
  BY <1>1, WFMin
<1>3. \A m \in S : ~(m < n)
  BY <1>2 DEF R, OpToRel
<1> QED BY <1>3

\* The offset after a batch is the least one that is larger than all of it.
LEMMA NextOffsetIsLeast ==
    ASSUME NEW t, NEW b \in Nat, NEW ms \in SUBSET (0 .. b - 1), ms # {}
    PROVE  /\ NextOffset({t} \X ms) \in 1 .. b
           /\ NextOffset({t} \X ms) - 1 \in ms
<1> DEFINE Bound == {k \in Nat : \A m \in ms : m < k}
           Offsets == {m[2] : m \in {t} \X ms}
<1>1. b \in Bound
  OBVIOUS
<1>2. PICK n \in Bound : \A k \in Bound : n <= k
  <2>1. Bound \in SUBSET Nat /\ Bound # {}
    BY <1>1
  <2> HIDE DEF Bound
  <2> QED BY <2>1, LeastNatural
<1>3. n \in Nat /\ n > 0 /\ n <= b /\ \A m \in ms : m < n
  <2>1. n \in Nat /\ n <= b /\ \A m \in ms : m < n
    BY <1>1, <1>2
  <2> HIDE DEF Bound, Offsets
  <2>2. PICK m \in ms : TRUE
    OBVIOUS
  <2> QED BY <2>1, <2>2
<1>4. n - 1 \in ms
  <2> SUFFICES ASSUME n - 1 \notin ms PROVE FALSE
    OBVIOUS
  <2>1. \A m \in ms : m < n - 1
    BY <1>3
  <2>2. n - 1 \in Bound
    BY <1>3, <2>1
  <2> QED BY <1>2, <1>3, <2>2
<1>5. Offsets = ms
  <2>1. \A m \in ms : <<t, m>> \in {t} \X ms /\ <<t, m>>[2] = m
    OBVIOUS
  <2> QED BY <2>1
<1>6. \E o \in Offsets : \A m \in {t} \X ms : m[2] <= o
  <2>1. \A m \in ms : m <= n - 1
    BY <1>3
  <2>2. \A m \in {t} \X ms : m[2] \in ms
    OBVIOUS
  <2> QED BY <1>4, <1>5, <2>1, <2>2
<1> DEFINE last == CHOOSE o \in Offsets : \A m \in {t} \X ms : m[2] <= o
<1>7. last \in Offsets
  BY <1>6
<1>8. NextOffset({t} \X ms) = 1 + last
  BY DEF NextOffset
<1> HIDE DEF last, Offsets
<1>9. last \in ms /\ last \in 0 .. b - 1
  BY <1>5, <1>7
<1> QED BY <1>8, <1>9
-----------------------------------------------------------------------------
(***************************************************************************)
(* What a Materializer holds.                                              *)
(***************************************************************************)
Staged == {"staged", "promoted"} \cup Promoting

\* A batch is of one partition, and everything up to its last message has landed or
\* is in it.
Batch(p, t, ms) ==
    /\ ms # {} /\ file[p] = File(p, {t} \X ms)
    /\ \A m \in ms : \A o \in 0 .. m : o \in ms \/ <<t, o>> \in Landed

\* Of a partition it has buffered nothing that it has not read or, in drain mode,
\* that is past the snapshot; and what it has read is not dropped.
Taken(p, t) ==
    /\ position[p][t] <= end[t]
    /\ \A o \in buffer[p][t] : o < position[p][t] /\ (Drain => o < hwm[p][t])
    /\ t \in exhausted[p] => Drain /\ (hwm[p][t] = 0 \/ hwm[p][t] <= position[p][t])
    /\ \A o \in 0 .. position[p][t] - 1 :
           \/ Drain /\ o >= hwm[p][t]
           \/ <<t, o>> \in Landed
           \/ o \in buffer[p][t]
           \/ file[p] # NoFile /\ <<t, o>> \in file[p].rows

Hand(p) ==
    /\ pc[p] \notin Staged => file[p] = NoFile
    /\ pc[p] = "idle" => \A t \in Partition : position[p][t] = Nowhere /\ buffer[p][t] = {}
    /\ pc[p] \in Staged => \E t \in Partition : \E ms \in SUBSET (0 .. end[t] - 1) : Batch(p, t, ms)
    /\ pc[p] \in {"moved", "promoted"} => file[p] \in watched
    /\ \A t \in Partition : Taken(p, t)

HandInv == \A p \in Process : Hand(p)

LEMMA Offsets ==
    ASSUME TypeOK, NEW p \in Process, NEW t \in Partition
    PROVE  /\ end[t] \in Nat /\ end[t] <= MaxOffset /\ committed[t] \in Nat /\ committed[t] <= end[t]
           /\ hwm[p][t] \in Nat /\ position[p][t] \in Int /\ position[p][t] >= -1
           /\ \A o \in buffer[p][t] : o \in Nat /\ o < end[t]
BY MaterializeAssumption DEF TypeOK, Nowhere

\* What lands and what is produced is nothing to the others.
LEMMA HandStays ==
    ASSUME TypeOK, NEW p \in Process, Hand(p),
           UNCHANGED trigger, watched \subseteq watched',
           \A t \in Partition : end'[t] \in Nat /\ end[t] <= end'[t],
           pc'[p] = pc[p], file'[p] = file[p], hwm'[p] = hwm[p], position'[p] = position[p],
           buffer'[p] = buffer[p], exhausted'[p] = exhausted[p]
    PROVE  Hand(p)'
<1>1. Landed \subseteq Landed' /\ Drain' = Drain
  BY DEF Landed, Drain
<1>2. ASSUME NEW t \in Partition PROVE Taken(p, t)'
  <2>1. position'[p][t] <= end'[t]
    BY Offsets DEF Hand, Taken
  <2> QED BY <1>1, <2>1 DEF Hand, Taken
<1>3. pc'[p] \in Staged => \E t \in Partition : \E ms \in SUBSET (0 .. end'[t] - 1) : Batch(p, t, ms)'
  <2> SUFFICES ASSUME pc'[p] \in Staged
               PROVE  \E t \in Partition : \E ms \in SUBSET (0 .. end'[t] - 1) : Batch(p, t, ms)'
    OBVIOUS
  <2>1. PICK t \in Partition : \E ms \in SUBSET (0 .. end[t] - 1) : Batch(p, t, ms)
    BY DEF Hand
  <2>2. PICK ms \in SUBSET (0 .. end[t] - 1) : Batch(p, t, ms)
    BY <2>1
  <2>3. ms \in SUBSET (0 .. end'[t] - 1)
    BY Offsets
  <2>4. Batch(p, t, ms)'
    BY <1>1, <2>2 DEF Batch
  <2> QED BY <2>3, <2>4
<1> QED BY <1>2, <1>3 DEF Hand

\* A Materializer that has ended holds nothing.
LEMMA HandEnds ==
    ASSUME TypeOK, NEW p \in Process, UNCHANGED end, pc'[p] = "idle", file'[p] = NoFile, Forget(p)
    PROVE  Hand(p)'
<1>1. /\ \A t \in Partition : position'[p][t] = Nowhere /\ buffer'[p][t] = {}
      /\ exhausted'[p] = {}
  BY DEF Forget, NewConsumer, TypeOK
<1>2. ASSUME NEW t \in Partition PROVE Taken(p, t)'
  <2>1. end'[t] \in Nat
    BY Offsets
  <2> QED BY <1>1, <2>1 DEF Taken, Nowhere
<1> QED BY <1>1, <1>2 DEF Hand, Staged, Promoting

\* A promotion moves the file that was staged.
LEMMA HandPromotes ==
    ASSUME TypeOK, NEW p \in Process, Hand(p), UNCHANGED <<end, trigger, consumer_vars>>,
           watched \subseteq watched', pc[p] \in Staged, pc'[p] \in Staged, file'[p] = file[p],
           pc'[p] \in {"moved", "promoted"} => file[p] \in watched'
    PROVE  Hand(p)'
<1>1. Landed \subseteq Landed' /\ Drain' = Drain
  BY DEF Landed, Drain
<1>2. ASSUME NEW t \in Partition PROVE Taken(p, t)'
  BY <1>1 DEF Hand, Taken, consumer_vars
<1>3. PICK t \in Partition : \E ms \in SUBSET (0 .. end[t] - 1) : Batch(p, t, ms)
  BY DEF Hand
<1>4. PICK ms \in SUBSET (0 .. end[t] - 1) : Batch(p, t, ms)
  BY <1>3
<1>5. Batch(p, t, ms)'
  BY <1>1, <1>4 DEF Batch
<1> QED BY <1>2, <1>4, <1>5 DEF Hand, Staged, Promoting

\* Once it has landed a batch can be forgotten.
LEMMA HandCommits ==
    ASSUME TypeOK, NEW p \in Process, Hand(p), UNCHANGED <<watched, end, trigger, consumer_vars>>,
           pc[p] = "promoted", pc'[p] = "consuming", file'[p] = NoFile
    PROVE  Hand(p)'
<1>1. Landed' = Landed /\ Drain' = Drain /\ file[p].rows \subseteq Landed
  BY DEF Landed, Drain, Hand
<1>2. ASSUME NEW t \in Partition PROVE Taken(p, t)'
  BY <1>1 DEF Hand, Taken, consumer_vars
<1> QED BY <1>2 DEF Hand, Staged, Promoting

\* What is cut is all that was read of the partition up to its last message.
LEMMA HandCuts ==
    ASSUME TypeOK, NEW p \in Process, Hand(p), UNCHANGED <<watched, end, trigger, hwm>>,
           pc[p] = "consuming", pc'[p] = "staged",
           NEW t \in Partition, NEW ms \in SUBSET (0 .. end[t] - 1), ms # {},
           file'[p] = File(p, {t} \X ms), file'[p] # NoFile,
           buffer[p][t] \subseteq ms, buffer'[p][t] = {},
           position'[p][t] \in {position[p][t], position[p][t] + 1}, position'[p][t] <= end[t],
           position'[p][t] # position[p][t] => position[p][t] \in ms,
           \A o \in ms : o < position'[p][t] /\ (Drain => o < hwm[p][t]),
           \A u \in Partition \ {t} : position'[p][u] = position[p][u] /\ buffer'[p][u] = buffer[p][u],
           \A u \in exhausted'[p] : \/ u \in exhausted[p]
                                    \/ u = t /\ Drain /\ hwm[p][t] <= position'[p][t]
    PROVE  Hand(p)'
<1>1. Landed' = Landed /\ Drain' = Drain /\ file[p] = NoFile
  BY DEF Landed, Drain, Hand, Staged, Promoting
<1>2. file'[p].rows = {t} \X ms /\ \A o \in ms : <<t, o>> \in file'[p].rows
  BY DEF File
<1>3. \A o \in 0 .. position'[p][t] - 1 :
          (Drain /\ o >= hwm[p][t]) \/ <<t, o>> \in Landed \/ o \in ms
  <2> TAKE o \in 0 .. position'[p][t] - 1
  <2>1. position[p][t] \in Int /\ position'[p][t] \in Int
    BY Offsets
  <2>2. o \in 0 .. position[p][t] - 1 \/ o \in ms
    BY <2>1
  <2> QED BY <1>1, <2>2 DEF Hand, Taken
<1>4. Taken(p, t)'
  <2>1. t \in exhausted'[p] => Drain' /\ (hwm'[p][t] = 0 \/ hwm'[p][t] <= position'[p][t])
    BY <1>1, Offsets DEF Hand, Taken
  <2>2. position'[p][t] <= end'[t] /\ \A o \in buffer'[p][t] : FALSE
    OBVIOUS
  <2>3. \A o \in 0 .. position'[p][t] - 1 :
            \/ Drain' /\ o >= hwm'[p][t]
            \/ <<t, o>> \in Landed'
            \/ file'[p] # NoFile /\ <<t, o>> \in file'[p].rows
    BY <1>1, <1>2, <1>3
  <2> QED BY <2>1, <2>2, <2>3 DEF Taken
<1>5. ASSUME NEW u \in Partition \ {t} PROVE Taken(p, u)'
  <2>1. Taken(p, u)
    BY DEF Hand
  <2> QED BY <1>1, <2>1 DEF Taken
<1>6. Batch(p, t, ms)'
  <2>1. \A m \in ms : \A o \in 0 .. m : o \in ms \/ <<t, o>> \in Landed
    <3> TAKE m \in ms
    <3> TAKE o \in 0 .. m
    <3>1. o \in 0 .. position'[p][t] - 1 /\ (Drain => o < hwm[p][t])
      BY Offsets
    <3>2. ~(Drain /\ o >= hwm[p][t])
      BY <3>1, Offsets
    <3> QED BY <1>3, <3>1, <3>2
  <2> QED BY <1>1, <2>1 DEF Batch
<1> QED BY <1>4, <1>5, <1>6 DEF Hand, Staged, Promoting
-----------------------------------------------------------------------------
(***************************************************************************)
(* Types.                                                                  *)
(***************************************************************************)
LEMMA PromoteTypes ==
    ASSUME TypeOK, NEW p \in Process, Hand(p), Promote(p)
    PROVE  /\ CompanionTypeOK(Message)'
           /\ pc' \in [Process -> PromotionPC \cup {"consuming"}]
           /\ \A q \in Process \ {p} : pc'[q] = pc[q] /\ file'[q] = file[q]
           /\ watched \subseteq watched'
           /\ \/ pc'[p] = "idle" /\ file'[p] = NoFile
              \/ /\ pc[p] \in Staged /\ pc'[p] \in Staged /\ file'[p] = file[p]
                 /\ pc'[p] \in {"moved", "promoted"} => file[p] \in watched'
<1> USE DEF TypeOK, CompanionTypeOK, Promoting, PromotionPC, Staged, GoTo
<1>0. /\ pc[p] \in Staged => file[p] \in [by : Process, rows : SUBSET Message]
      /\ pc[p] \in {"moved", "promoted"} => file[p] \in watched
  BY DEF Hand
<1>1. CASE AcquireLock(p)
  BY <1>1 DEF AcquireLock
<1>2. CASE FindLockHeld(p)
  BY <1>2 DEF FindLockHeld
<1>3. CASE MoveSidecar(p)
  BY <1>0, <1>3 DEF MoveSidecar
<1>4. CASE MoveData(p)
  BY <1>0, <1>4 DEF MoveData
<1>5. CASE CopyData(p)
  BY <1>0, <1>5 DEF CopyData
<1>6. CASE FinishCopy(p)
  BY <1>0, <1>6 DEF FinishCopy
<1>7. CASE ReleaseLock(p)
  BY <1>0, <1>7 DEF ReleaseLock
<1> QED BY <1>1, <1>2, <1>3, <1>4, <1>5, <1>6, <1>7 DEF Promote

ConsumerTypes ==
    /\ hwm \in [Process -> [Partition -> 0 .. MaxOffset]]
    /\ position \in [Process -> [Partition -> Nowhere .. MaxOffset]]
    /\ buffer \in [Process -> [Partition -> SUBSET (0 .. MaxOffset - 1)]]
    /\ \A p \in Process, t \in Partition : buffer[p][t] \subseteq 0 .. end[t] - 1
    /\ exhausted \in [Process -> SUBSET Partition]
    /\ flushing \in [Process -> BOOLEAN]

BrokerTypes ==
    /\ trigger \in Trigger
    /\ end \in [Partition -> 0 .. MaxOffset] /\ committed \in [Partition -> 0 .. MaxOffset]
    /\ \A t \in Partition : committed[t] <= end[t]

CompanionTypes ==
    /\ CompanionTypeOK(Message)
    /\ pc \in [Process -> PromotionPC \cup {"consuming"}]

LEMMA TypesTogether ==
    /\ TypeOK => CompanionTypes /\ BrokerTypes /\ ConsumerTypes
    /\ CompanionTypes' /\ BrokerTypes' /\ ConsumerTypes' => TypeOK'
BY DEF TypeOK, CompanionTypes, BrokerTypes, ConsumerTypes

LEMMA ForgetTypes ==
    ASSUME TypeOK, NEW p \in Process, Forget(p), UNCHANGED end
    PROVE  ConsumerTypes'
<1>1. 0 \in 0 .. MaxOffset /\ Nowhere \in Nowhere .. MaxOffset
  BY MaterializeAssumption DEF Nowhere
<1>2. /\ NewConsumer.hwm \in [Partition -> 0 .. MaxOffset]
      /\ NewConsumer.position \in [Partition -> Nowhere .. MaxOffset]
      /\ NewConsumer.buffer \in [Partition -> SUBSET (0 .. MaxOffset - 1)]
      /\ \A t \in Partition : NewConsumer.buffer[t] = {}
  BY <1>1 DEF NewConsumer
<1> HIDE DEF NewConsumer
<1> QED BY <1>2 DEF Forget, TypeOK, ConsumerTypes

\* A file that is staged is a file.
LEMMA CutTypes ==
    ASSUME TypeOK, NEW p \in Process, NEW t \in Partition, NEW ms \in SUBSET (0 .. end[t] - 1),
           Cut(p, t, ms)
    PROVE  /\ CompanionTypes'
           /\ file'[p] = File(p, {t} \X ms) /\ file'[p] # NoFile /\ pc'[p] = "staged"
           /\ \A q \in Process \ {p} : pc'[q] = pc[q] /\ file'[q] = file[q] /\ buffer'[q] = buffer[q]
           /\ buffer'[p][t] = {} /\ \A u \in Partition \ {t} : buffer'[p][u] = buffer[p][u]
           /\ buffer' \in [Process -> [Partition -> SUBSET (0 .. MaxOffset - 1)]]
           /\ watched' = watched
<1>1. {t} \X ms \in SUBSET Message
  <2>1. \A m \in ms : m \in 0 .. MaxOffset - 1
    BY Offsets, MaterializeAssumption
  <2> QED BY <2>1 DEF Message
<1>2. File(p, {t} \X ms) \in [by : Process, rows : SUBSET Message]
  BY <1>1 DEF File
<1>3. File(p, {t} \X ms) # NoFile
  BY <1>2, NoFileAssumption
<1>4. /\ pc' = [pc EXCEPT ![p] = "staged"] /\ file' = [file EXCEPT ![p] = File(p, {t} \X ms)]
      /\ UNCHANGED <<locked, sidecars, partial, watched, faults>>
  BY DEF Cut, StageFile, GoTo
<1>5. CompanionTypes'
  BY <1>2, <1>3, <1>4 DEF TypeOK, CompanionTypes, CompanionTypeOK, Promoting, PromotionPC
<1>6. buffer' = [buffer EXCEPT ![p][t] = {}] /\ buffer \in [Process -> [Partition -> SUBSET (0 .. MaxOffset - 1)]]
  BY DEF Cut, TypeOK
<1>7. /\ \A q \in Process \ {p} : buffer'[q] = buffer[q]
      /\ buffer'[p][t] = {} /\ \A u \in Partition \ {t} : buffer'[p][u] = buffer[p][u]
      /\ buffer' \in [Process -> [Partition -> SUBSET (0 .. MaxOffset - 1)]]
  BY <1>6
<1> QED BY <1>3, <1>4, <1>5, <1>7 DEF TypeOK, CompanionTypeOK

\* What a poll does to what the Materializer has read.
LEMMA PollReads ==
    ASSUME TypeOK, NEW p \in Process, NEW t \in Partition, Poll(p, t)
    PROVE  /\ pc[p] = "consuming" /\ position[p][t] \in 0 .. end[t] - 1
           /\ UNCHANGED <<trigger, end, committed, hwm, flushing>>
           /\ position' \in [Process -> [Partition -> Nowhere .. MaxOffset]]
           /\ position'[p][t] = position[p][t] + 1
           /\ \A u \in Partition \ {t} : position'[p][u] = position[p][u]
           /\ exhausted' \in [Process -> SUBSET Partition]
           /\ \A u \in exhausted'[p] : \/ u \in exhausted[p]
                                       \/ u = t /\ Drain /\ hwm[p][t] <= position'[p][t]
           /\ \A q \in Process \ {p} : position'[q] = position[q] /\ exhausted'[q] = exhausted[q]
<1>1. /\ pc[p] = "consuming" /\ position[p][t] \in 0 .. end[t] - 1
      /\ UNCHANGED <<trigger, end, committed, hwm, flushing>>
      /\ position' = [position EXCEPT ![p][t] = position[p][t] + 1]
      /\ exhausted' = [exhausted EXCEPT ![p] = exhausted[p] \cup
                          {u \in {t} : Drain /\ position[p][t] + 1 >= hwm[p][t]}]
  BY DEF Poll, MayPoll, broker_vars
<1>2. position[p][t] + 1 \in Nowhere .. MaxOffset
  BY <1>1, Offsets, MaterializeAssumption DEF Nowhere
<1>3. /\ position \in [Process -> [Partition -> Nowhere .. MaxOffset]]
      /\ exhausted \in [Process -> SUBSET Partition]
  BY DEF TypeOK
<1>4. /\ position' \in [Process -> [Partition -> Nowhere .. MaxOffset]]
      /\ position'[p][t] = position[p][t] + 1
      /\ \A u \in Partition \ {t} : position'[p][u] = position[p][u]
      /\ \A q \in Process \ {p} : position'[q] = position[q]
  BY <1>1, <1>2, <1>3
<1>5. /\ exhausted' \in [Process -> SUBSET Partition]
      /\ exhausted'[p] = exhausted[p] \cup {u \in {t} : Drain /\ position[p][t] + 1 >= hwm[p][t]}
      /\ \A q \in Process \ {p} : exhausted'[q] = exhausted[q]
  BY <1>1, <1>3
<1>6. position[p][t] + 1 >= hwm[p][t] => hwm[p][t] <= position[p][t] + 1
  BY Offsets
<1> QED BY <1>1, <1>4, <1>5, <1>6

\* ... and to what it holds: a message is late, or fills the buffer, or is buffered.
LEMMA PollTakes ==
    ASSUME TypeOK, NEW p \in Process, NEW t \in Partition, Poll(p, t)
    PROVE  \/ /\ Drain /\ (t \in exhausted[p] \/ position[p][t] >= hwm[p][t])
              /\ UNCHANGED <<companion_vars, buffer>>
           \/ /\ Drain => t \notin exhausted[p] /\ position[p][t] < hwm[p][t]
              /\ \/ Cut(p, t, buffer[p][t] \cup {position[p][t]})
                 \/ /\ buffer' = [buffer EXCEPT ![p][t] = buffer[p][t] \cup {position[p][t]}]
                    /\ UNCHANGED companion_vars
<1> DEFINE late == Drain /\ (t \in exhausted[p] \/ position[p][t] >= hwm[p][t])
<1>1. IF late
      THEN UNCHANGED <<companion_vars, buffer>>
      ELSE \/ Cut(p, t, buffer[p][t] \cup {position[p][t]})
           \/ /\ buffer' = [buffer EXCEPT ![p][t] = buffer[p][t] \cup {position[p][t]}]
              /\ UNCHANGED companion_vars
  BY DEF Poll
<1>2. ~late => (Drain => t \notin exhausted[p] /\ position[p][t] < hwm[p][t])
  BY Offsets
<1> HIDE DEF late
<1>3. CASE late
  BY <1>1, <1>3 DEF late
<1>4. CASE ~late
  BY <1>1, <1>2, <1>4
<1> QED BY <1>3, <1>4

LEMMA TypeStep ==
    ASSUME TypeOK, HandInv, [Next]_vars
    PROVE  TypeOK'
<1> USE DEF GoTo
<1>0. CompanionTypes /\ BrokerTypes /\ ConsumerTypes
  BY TypesTogether
<1>a. ASSUME UNCHANGED companion_vars PROVE CompanionTypes'
  BY <1>0, <1>a DEF companion_vars, CompanionTypes, CompanionTypeOK
<1>b. ASSUME UNCHANGED broker_vars PROVE BrokerTypes'
  BY <1>0, <1>b DEF broker_vars, BrokerTypes
<1>c. ASSUME UNCHANGED <<end, consumer_vars>> PROVE ConsumerTypes'
  BY <1>0, <1>c DEF consumer_vars, ConsumerTypes
\* A Materializer that stages nothing.
<1>d. ASSUME NEW p \in Process, NEW label \in {"idle", "consuming"}, pc' = [pc EXCEPT ![p] = label],
             \/ UNCHANGED file
             \/ file' = [file EXCEPT ![p] = NoFile],
             pc[p] \notin Staged \/ file' = [file EXCEPT ![p] = NoFile],
             locked' \in BOOLEAN, faults' \in 0 .. MaxFaults,
             UNCHANGED <<sidecars, partial, watched>>
      PROVE  CompanionTypes'
  BY <1>0, <1>d DEF CompanionTypes, CompanionTypeOK, Promoting, PromotionPC, Staged
<1>e. locked \in BOOLEAN /\ faults \in 0 .. MaxFaults
  BY DEF TypeOK, CompanionTypeOK
<1>1. CASE UNCHANGED vars
  BY <1>1, <1>a, <1>b, <1>c, TypesTogether DEF vars, broker_vars
<1>2. ASSUME NEW p \in Process, Open(p) PROVE TypeOK'
  <2>1. CompanionTypes'
    BY <1>2, <1>d, <1>e DEF Open, Staged, Promoting
  <2>2. BrokerTypes'
    BY <1>2, <1>b DEF Open
  <2>3. ConsumerTypes'
    <3>1. /\ hwm' = [hwm EXCEPT ![p] = IF Drain THEN end ELSE hwm[p]]
          /\ exhausted' = [exhausted EXCEPT ![p] = {t \in Partition : Drain /\ end[t] = 0}]
          /\ UNCHANGED <<end, position, buffer, flushing>>
      BY <1>2 DEF Open, broker_vars
    <3>2. hwm' \in [Process -> [Partition -> 0 .. MaxOffset]]
      BY <1>0, <3>1 DEF ConsumerTypes, BrokerTypes
    <3>3. exhausted' \in [Process -> SUBSET Partition]
      BY <1>0, <3>1 DEF ConsumerTypes
    <3> QED BY <1>0, <3>1, <3>2, <3>3 DEF ConsumerTypes
  <2> QED BY <2>1, <2>2, <2>3, TypesTogether
<1>3. ASSUME NEW p \in Process, StopPolling(p) PROVE TypeOK'
  <2>1. ConsumerTypes'
    BY <1>0, <1>3 DEF StopPolling, broker_vars, ConsumerTypes
  <2> QED BY <1>3, <1>a, <1>b, <2>1, TypesTogether DEF StopPolling
<1>4. ASSUME NEW p \in Process, Close(p) PROVE TypeOK'
  <2>1. CompanionTypes'
    BY <1>4, <1>d, <1>e DEF Close, Staged, Promoting
  <2> QED BY <1>4, <1>b, <2>1, ForgetTypes, TypesTogether DEF Close, broker_vars
<1>5. ASSUME NEW p \in Process, NEW t \in Partition, Resume(p, t) PROVE TypeOK'
  <2>1. ConsumerTypes'
    <3>1. position' = [position EXCEPT ![p][t] = committed[t]] /\ UNCHANGED <<end, hwm, buffer, exhausted, flushing>>
      BY <1>5 DEF Resume, broker_vars
    <3>2. committed[t] \in Nowhere .. MaxOffset
      BY <1>0, Offsets DEF BrokerTypes, Nowhere
    <3>3. position' \in [Process -> [Partition -> Nowhere .. MaxOffset]]
      BY <1>0, <3>1, <3>2 DEF ConsumerTypes
    <3> QED BY <1>0, <3>1, <3>3 DEF ConsumerTypes
  <2> QED BY <1>5, <1>a, <1>b, <2>1, TypesTogether DEF Resume
<1>6. ASSUME NEW p \in Process, NEW t \in Partition, CutReady(p, t) PROVE TypeOK'
  <2>1. buffer[p][t] \in SUBSET (0 .. end[t] - 1) /\ Cut(p, t, buffer[p][t])
    BY <1>0, <1>6 DEF CutReady, ConsumerTypes
  <2>2. /\ CompanionTypes'
        /\ \A q \in Process \ {p} : buffer'[q] = buffer[q]
        /\ buffer'[p][t] = {} /\ \A u \in Partition \ {t} : buffer'[p][u] = buffer[p][u]
        /\ buffer' \in [Process -> [Partition -> SUBSET (0 .. MaxOffset - 1)]]
    BY <2>1, CutTypes
  <2>3. UNCHANGED <<end, hwm, position, exhausted, flushing>>
    BY <1>6 DEF CutReady, broker_vars
  <2>4. ConsumerTypes'
    BY <1>0, <2>2, <2>3 DEF ConsumerTypes
  <2> QED BY <1>6, <1>b, <2>2, <2>4, TypesTogether DEF CutReady
<1>7. ASSUME NEW p \in Process, NEW t \in Partition, Poll(p, t) PROVE TypeOK'
  <2>1. /\ position[p][t] \in 0 .. end[t] - 1 /\ UNCHANGED <<trigger, end, committed, hwm, flushing>>
        /\ position' \in [Process -> [Partition -> Nowhere .. MaxOffset]]
        /\ exhausted' \in [Process -> SUBSET Partition]
    BY <1>7, PollReads
  <2>2. ASSUME buffer' \in [Process -> [Partition -> SUBSET (0 .. MaxOffset - 1)]],
               \A q \in Process, u \in Partition : buffer'[q][u] \subseteq 0 .. end[u] - 1
        PROVE  ConsumerTypes'
    BY <1>0, <2>1, <2>2 DEF ConsumerTypes
  <2>3. CASE UNCHANGED <<companion_vars, buffer>>
    BY <1>0, <1>a, <1>b, <2>1, <2>2, <2>3, TypesTogether DEF ConsumerTypes, broker_vars
  <2> DEFINE ms == buffer[p][t] \cup {position[p][t]}
  <2>4. ms \in SUBSET (0 .. end[t] - 1)
    BY <1>0, <2>1 DEF ConsumerTypes
  <2>5. CASE Cut(p, t, ms)
    <3>1. /\ CompanionTypes'
          /\ \A q \in Process \ {p} : buffer'[q] = buffer[q]
          /\ buffer'[p][t] = {} /\ \A u \in Partition \ {t} : buffer'[p][u] = buffer[p][u]
          /\ buffer' \in [Process -> [Partition -> SUBSET (0 .. MaxOffset - 1)]]
      BY <2>4, <2>5, CutTypes
    <3>2. \A q \in Process, u \in Partition : buffer'[q][u] \subseteq 0 .. end[u] - 1
      BY <1>0, <3>1 DEF ConsumerTypes
    <3> QED BY <1>b, <2>1, <2>2, <3>1, <3>2, TypesTogether DEF broker_vars
  <2>6. CASE buffer' = [buffer EXCEPT ![p][t] = ms] /\ UNCHANGED companion_vars
    <3>1. ms \in SUBSET (0 .. MaxOffset - 1)
      BY <2>4, Offsets, MaterializeAssumption
    <3> HIDE DEF ms
    <3>2. /\ buffer' \in [Process -> [Partition -> SUBSET (0 .. MaxOffset - 1)]]
          /\ \A q \in Process, u \in Partition : buffer'[q][u] \subseteq 0 .. end[u] - 1
      BY <1>0, <2>4, <2>6, <3>1 DEF ConsumerTypes
    <3> QED BY <1>a, <1>b, <2>1, <2>2, <2>6, <3>2, TypesTogether DEF broker_vars
  <2> QED BY <1>7, <2>3, <2>5, <2>6, PollTakes
<1>8. ASSUME NEW p \in Process, DecodeError(p) PROVE TypeOK'
  <2>1. CompanionTypes'
    BY <1>8, <1>d, <1>e DEF DecodeError
  <2> QED BY <1>8, <1>b, <2>1, ForgetTypes, TypesTogether DEF DecodeError, broker_vars
<1>9. ASSUME NEW p \in Process, PromoteStep(p) PROVE TypeOK'
  <2>1. CompanionTypes'
    BY <1>9, PromoteTypes DEF PromoteStep, HandInv, CompanionTypes
  <2>2. UNCHANGED broker_vars /\ (Forget(p) \/ UNCHANGED consumer_vars)
    BY <1>9 DEF PromoteStep
  <2> QED BY <1>b, <1>c, <2>1, <2>2, ForgetTypes, TypesTogether DEF broker_vars
<1>10. ASSUME NEW p \in Process, CommitBatch(p) PROVE TypeOK'
  <2>1. CompanionTypes'
    BY <1>10, <1>d, <1>e DEF CommitBatch
  <2>2. BrokerTypes'
    <3>1. PICK u \in Partition : /\ \A m \in file[p].rows : m[1] = u
                                 /\ committed' = [committed EXCEPT ![u] = NextOffset(file[p].rows)]
      BY <1>10 DEF CommitBatch
    <3>2. PICK t \in Partition : \E ms \in SUBSET (0 .. end[t] - 1) : Batch(p, t, ms)
      BY <1>10 DEF CommitBatch, HandInv, Hand, Staged
    <3>3. PICK ms \in SUBSET (0 .. end[t] - 1) : Batch(p, t, ms)
      BY <3>2
    <3>4. file[p].rows = {t} \X ms /\ ms # {}
      BY <3>3 DEF Batch, File
    <3>5. PICK m \in ms : <<t, m>> \in {t} \X ms
      BY <3>4
    <3>6. u = t
      BY <3>1, <3>4, <3>5
    <3>7. NextOffset({t} \X ms) \in 1 .. end[t]
      BY <3>4, NextOffsetIsLeast, Offsets
    <3>8. PICK n : n = NextOffset({t} \X ms)
      OBVIOUS
    <3>9. committed' = [committed EXCEPT ![t] = n] /\ n \in 0 .. MaxOffset /\ n <= end[t]
      BY <3>1, <3>4, <3>6, <3>7, <3>8, Offsets, MaterializeAssumption
    <3>10. UNCHANGED <<trigger, end>>
      BY <1>10 DEF CommitBatch
    <3> QED BY <1>0, <3>9, <3>10 DEF BrokerTypes
  <2> QED BY <1>10, <1>c, <2>1, <2>2, TypesTogether DEF CommitBatch
<1>11. ASSUME NEW p \in Process, MaterializeFault(p) PROVE TypeOK'
  <2>1. /\ faults < MaxFaults /\ faults' = faults + 1
        /\ file' = [file EXCEPT ![p] = NoFile] /\ pc' = [pc EXCEPT ![p] = "idle"]
        /\ locked' \in BOOLEAN /\ UNCHANGED <<sidecars, partial, watched>>
    BY <1>11, <1>e DEF MaterializeFault, Fail, Crash, EndProgram
  <2>2. faults' \in 0 .. MaxFaults
    BY <1>e, <2>1, CompanionAssumption
  <2>3. CompanionTypes'
    BY <1>d, <2>1, <2>2
  <2> QED BY <1>11, <1>b, <2>3, ForgetTypes, TypesTogether DEF MaterializeFault, broker_vars
<1>12. ASSUME NEW t \in Partition, Produce(t) PROVE TypeOK'
  <2>1. end[t] < MaxOffset /\ end' = [end EXCEPT ![t] = end[t] + 1] /\ UNCHANGED <<trigger, committed>>
    BY <1>12 DEF Produce
  <2>2. /\ end' \in [Partition -> 0 .. MaxOffset]
        /\ \A u \in Partition : end'[u] >= end[u] /\ end'[u] \in Nat
    BY <1>0, <2>1, MaterializeAssumption DEF BrokerTypes
  <2>3. BrokerTypes'
    <3>1. \A u \in Partition : committed[u] <= end'[u]
      <4> TAKE u \in Partition
      <4>1. committed[u] \in Nat /\ end[u] \in Nat /\ committed[u] <= end[u]
        BY <1>0, MaterializeAssumption DEF BrokerTypes
      <4> QED BY <2>2, <4>1
    <3> QED BY <1>0, <2>1, <2>2, <3>1 DEF BrokerTypes
  <2>4. \A q \in Process, u \in Partition : buffer[q][u] \subseteq 0 .. end'[u] - 1
    <3> TAKE q \in Process, u \in Partition
    <3>1. buffer[q][u] \subseteq 0 .. end[u] - 1 /\ end[u] \in Nat
      BY <1>0, Offsets DEF ConsumerTypes
    <3> QED BY <2>2, <3>1
  <2>5. ConsumerTypes'
    BY <1>0, <1>12, <2>4 DEF Produce, consumer_vars, ConsumerTypes
  <2> QED BY <1>12, <1>a, <2>3, <2>5, TypesTogether DEF Produce
<1> QED BY <1>1, <1>2, <1>3, <1>4, <1>5, <1>6, <1>7, <1>8, <1>9, <1>10, <1>11, <1>12
        DEF Next, Consume, Materialization
-----------------------------------------------------------------------------
(***************************************************************************)
(* What is taken and what is committed.                                    *)
(***************************************************************************)

\* The variables that say what a Materializer holds, of every other one than p.
OthersStay(p) ==
    \A q \in Process \ {p} :
        /\ pc'[q] = pc[q] /\ file'[q] = file[q] /\ hwm'[q] = hwm[q]
        /\ position'[q] = position[q] /\ buffer'[q] = buffer[q] /\ exhausted'[q] = exhausted[q]

LEMMA OneHand ==
    ASSUME TypeOK, HandInv, NEW p \in Process, OthersStay(p), Hand(p)',
           UNCHANGED <<trigger, end>>, watched \subseteq watched'
    PROVE  HandInv'
<1> SUFFICES ASSUME NEW q \in Process \ {p} PROVE Hand(q)'
  BY DEF HandInv
<1>1. \A t \in Partition : end'[t] \in Nat /\ end[t] <= end'[t]
  BY Offsets
<1> QED BY <1>1, HandStays DEF HandInv, OthersStay

\* The client starts to read where the group has committed.
LEMMA HandResumes ==
    ASSUME TypeOK, CommittedLanded, NEW p \in Process, Hand(p), NEW t \in Partition, Resume(p, t)
    PROVE  Hand(p)'
<1>1. /\ pc[p] = "consuming" /\ position[p][t] = Nowhere
      /\ position' = [position EXCEPT ![p][t] = committed[t]]
      /\ UNCHANGED <<pc, file, watched, trigger, end, hwm, buffer, exhausted>>
  BY DEF Resume, MayPoll, companion_vars, broker_vars
<1>2. position \in [Process -> [Partition -> Nowhere .. MaxOffset]]
  BY DEF TypeOK
<1>3. position'[p][t] = committed[t] /\ \A u \in Partition \ {t} : position'[p][u] = position[p][u]
  BY <1>1, <1>2
<1>4. Landed' = Landed /\ Drain' = Drain
  BY <1>1 DEF Landed, Drain
<1>5. Taken(p, t)'
  <2>1. position'[p][t] <= end'[t]
    BY <1>1, <1>3, Offsets
  <2>2. \A o \in buffer'[p][t] : FALSE
    BY <1>1, Offsets DEF Hand, Taken, Nowhere
  <2>3. t \in exhausted'[p] => Drain /\ hwm'[p][t] = 0
    <3>1. hwm[p][t] \in Nat /\ (t \in exhausted[p] => Drain /\ (hwm[p][t] = 0 \/ hwm[p][t] <= -1))
      BY <1>1, Offsets DEF Hand, Taken, Nowhere
    <3> QED BY <1>1, <3>1
  <2>4. \A o \in 0 .. position'[p][t] - 1 : <<t, o>> \in Landed'
    BY <1>3, <1>4 DEF CommittedLanded
  <2> QED BY <1>4, <2>1, <2>2, <2>3, <2>4 DEF Taken
<1>6. ASSUME NEW u \in Partition \ {t} PROVE Taken(p, u)'
  BY <1>1, <1>3, <1>4 DEF Hand, Taken
<1> QED BY <1>1, <1>5, <1>6 DEF Hand, Staged, Promoting

\* A message that is polled is late, or buffered, or cut with the buffer it fills.
LEMMA HandPolls ==
    ASSUME TypeOK, NEW p \in Process, Hand(p), NEW t \in Partition, Poll(p, t)
    PROVE  Hand(p)'
<1> DEFINE offset == position[p][t]
           ms == buffer[p][t] \cup {offset}
<1>1. /\ pc[p] = "consuming" /\ offset \in 0 .. end[t] - 1
      /\ UNCHANGED <<trigger, end, committed, hwm, flushing>>
      /\ position'[p][t] = offset + 1
      /\ \A u \in Partition \ {t} : position'[p][u] = position[p][u]
      /\ \A u \in exhausted'[p] : \/ u \in exhausted[p]
                                  \/ u = t /\ Drain /\ hwm[p][t] <= position'[p][t]
  BY PollReads
<1>2. Drain' = Drain /\ Taken(p, t) /\ end[t] \in Nat /\ hwm[p][t] \in Nat
      /\ \A o \in buffer[p][t] : o \in Nat
  BY <1>1, Offsets DEF Drain, Hand
<1>3. position'[p][t] <= end'[t]
  BY <1>1, <1>2
<1>4. t \in exhausted'[p] => Drain' /\ (hwm'[p][t] = 0 \/ hwm'[p][t] <= position'[p][t])
  BY <1>1, <1>2 DEF Taken
\* What was not read before is the message.
<1>5. \A o \in 0 .. position'[p][t] - 1 : o = offset \/ o \in 0 .. offset - 1
  BY <1>1
<1>6. ASSUME UNCHANGED <<pc, file, watched>>, \A u \in Partition \ {t} : buffer'[p][u] = buffer[p][u],
             Taken(p, t)'
      PROVE  Hand(p)'
  <2>1. Landed' = Landed
    BY <1>6 DEF Landed
  <2>2. ASSUME NEW u \in Partition \ {t} PROVE Taken(p, u)'
    BY <1>1, <1>2, <1>6, <2>1 DEF Hand, Taken
  <2> QED BY <1>1, <1>6, <2>2 DEF Hand, Staged, Promoting
<1>7. CASE /\ Drain /\ (t \in exhausted[p] \/ offset >= hwm[p][t])
           /\ UNCHANGED <<companion_vars, buffer>>
  <2>1. UNCHANGED <<pc, file, watched, buffer>>
    BY <1>7 DEF companion_vars
  <2>2. Landed' = Landed
    BY <2>1 DEF Landed
  <2>3. offset >= hwm[p][t]
    BY <1>1, <1>2, <1>7 DEF Taken
  <2>4. \A o \in buffer'[p][t] : o < position'[p][t] /\ (Drain' => o < hwm'[p][t])
    BY <1>1, <1>2, <2>1 DEF Taken
  <2>5. \A o \in 0 .. position'[p][t] - 1 :
            \/ Drain' /\ o >= hwm'[p][t]
            \/ <<t, o>> \in Landed'
            \/ o \in buffer'[p][t]
            \/ file'[p] # NoFile /\ <<t, o>> \in file'[p].rows
    BY <1>1, <1>2, <1>5, <1>7, <2>1, <2>2, <2>3 DEF Taken
  <2>6. Taken(p, t)'
    BY <1>3, <1>4, <2>4, <2>5 DEF Taken
  <2> QED BY <1>6, <2>1, <2>6
<1>8. CASE /\ Drain => t \notin exhausted[p] /\ offset < hwm[p][t]
           /\ Cut(p, t, ms)
  <2>1. ms \in SUBSET (0 .. end[t] - 1) /\ ms # {}
    BY <1>1, Offsets
  <2>2. \A o \in ms : o < position'[p][t] /\ (Drain => o < hwm[p][t])
    BY <1>1, <1>2, <1>8 DEF Taken
  <2>3. buffer[p][t] \subseteq ms /\ offset \in ms
    OBVIOUS
  <2> HIDE DEF ms, offset
  <2>4. /\ file'[p] = File(p, {t} \X ms) /\ file'[p] # NoFile /\ pc'[p] = "staged"
        /\ buffer'[p][t] = {} /\ \A u \in Partition \ {t} : buffer'[p][u] = buffer[p][u]
        /\ watched' = watched
    <3>1. Cut(p, t, ms)
      BY <1>8
    <3>2. file'[p] = File(p, {t} \X ms)
      BY <2>1, <3>1, CutTypes
    <3>3. file'[p] # NoFile /\ pc'[p] = "staged"
      BY <2>1, <3>1, CutTypes
    <3>4. buffer'[p][t] = {} /\ \A u \in Partition \ {t} : buffer'[p][u] = buffer[p][u]
      BY <2>1, <3>1, CutTypes
    <3>5. watched' = watched
      BY <2>1, <3>1, CutTypes
    <3> QED BY <3>2, <3>3, <3>4, <3>5
  <2> QED BY <1>1, <1>3, <2>1, <2>2, <2>3, <2>4, HandCuts DEF offset
<1>9. CASE /\ Drain => t \notin exhausted[p] /\ offset < hwm[p][t]
           /\ buffer' = [buffer EXCEPT ![p][t] = ms] /\ UNCHANGED companion_vars
  <2>1. UNCHANGED <<pc, file, watched>>
    BY <1>9 DEF companion_vars
  <2>2. Landed' = Landed
    BY <2>1 DEF Landed
  <2>3. buffer \in [Process -> [Partition -> SUBSET (0 .. MaxOffset - 1)]]
    BY DEF TypeOK
  <2>4. \A o \in ms : o < offset + 1 /\ (Drain => o < hwm[p][t])
    BY <1>1, <1>2, <1>9 DEF Taken
  <2>5. buffer[p][t] \subseteq ms /\ offset \in ms
    OBVIOUS
  <2> HIDE DEF ms
  <2>6. buffer'[p][t] = ms /\ \A u \in Partition \ {t} : buffer'[p][u] = buffer[p][u]
    BY <1>9, <2>3
  <2>7. \A o \in 0 .. position'[p][t] - 1 :
            \/ Drain' /\ o >= hwm'[p][t]
            \/ <<t, o>> \in Landed'
            \/ o \in buffer'[p][t]
            \/ file'[p] # NoFile /\ <<t, o>> \in file'[p].rows
    BY <1>1, <1>2, <1>5, <2>1, <2>2, <2>5, <2>6 DEF Taken
  <2>8. Taken(p, t)'
    BY <1>1, <1>2, <1>3, <1>4, <2>4, <2>6, <2>7 DEF Taken
  <2> QED BY <1>6, <2>1, <2>6, <2>8
<1> HIDE DEF offset, ms
<1>10. \/ /\ Drain /\ (t \in exhausted[p] \/ offset >= hwm[p][t])
          /\ UNCHANGED <<companion_vars, buffer>>
       \/ /\ Drain => t \notin exhausted[p] /\ offset < hwm[p][t]
          /\ Cut(p, t, ms) \/ (buffer' = [buffer EXCEPT ![p][t] = ms] /\ UNCHANGED companion_vars)
  BY PollTakes DEF offset, ms
<1> QED BY <1>7, <1>8, <1>9, <1>10

LEMMA HandStep ==
    ASSUME TypeOK, HandInv, CommittedLanded, [Next]_vars
    PROVE  HandInv'
<1> USE DEF GoTo
<1>0. /\ pc \in [Process -> PromotionPC \cup {"consuming"}] /\ DOMAIN file = Process
      /\ DOMAIN hwm = Process /\ DOMAIN position = Process /\ DOMAIN exhausted = Process
      /\ buffer \in [Process -> [Partition -> SUBSET (0 .. MaxOffset - 1)]]
      /\ DOMAIN flushing = Process
  BY DEF TypeOK, CompanionTypeOK
<1>a. \A p \in Process : Hand(p)
  BY DEF HandInv
<1>b. ASSUME NEW p \in Process, Forget(p)
      PROVE  \A q \in Process \ {p} : /\ hwm'[q] = hwm[q] /\ position'[q] = position[q]
                                      /\ buffer'[q] = buffer[q] /\ exhausted'[q] = exhausted[q]
  BY <1>0, <1>b DEF Forget
<1>1. CASE UNCHANGED vars
  <2>1. \A t \in Partition : end'[t] \in Nat /\ end[t] <= end'[t]
    <3>1. end' = end /\ end \in [Partition -> Nat]
      BY <1>1, MaterializeAssumption DEF vars, broker_vars, TypeOK
    <3> QED BY <3>1
  <2> SUFFICES ASSUME NEW p \in Process PROVE Hand(p)'
    BY DEF HandInv
  <2> QED BY <1>1, <1>a, <2>1, HandStays DEF vars, companion_vars, broker_vars, consumer_vars
<1>2. ASSUME NEW p \in Process, Open(p) PROVE HandInv'
  <2>1. /\ pc[p] = "idle" /\ pc' = [pc EXCEPT ![p] = "consuming"]
        /\ hwm' = [hwm EXCEPT ![p] = IF Drain THEN end ELSE hwm[p]]
        /\ exhausted' = [exhausted EXCEPT ![p] = {t \in Partition : Drain /\ end[t] = 0}]
        /\ UNCHANGED <<file, watched, trigger, end, position, buffer>>
    BY <1>2 DEF Open, broker_vars
  <2>2. ASSUME NEW t \in Partition PROVE Taken(p, t)'
    <3>1. position[p][t] = -1 /\ buffer[p][t] = {} /\ end[t] \in Nat
      BY <1>a, <2>1, Offsets DEF Hand, Nowhere
    <3>2. t \in exhausted'[p] => Drain /\ hwm'[p][t] = 0
      BY <1>0, <2>1
    <3> QED BY <2>1, <3>1, <3>2 DEF Taken, Drain
  <2>3. Hand(p)'
    BY <1>0, <1>a, <2>1, <2>2 DEF Hand, Staged, Promoting
  <2>4. OthersStay(p)
    BY <1>0, <2>1 DEF OthersStay
  <2> QED BY <2>1, <2>3, <2>4, OneHand
<1>3. ASSUME NEW p \in Process, StopPolling(p) PROVE HandInv'
  <2>1. UNCHANGED <<pc, file, watched, trigger, end, hwm, position, buffer, exhausted>>
    BY <1>3 DEF StopPolling, companion_vars, broker_vars
  <2>2. \A t \in Partition : end'[t] \in Nat /\ end[t] <= end'[t]
    BY <2>1, Offsets
  <2> SUFFICES ASSUME NEW q \in Process PROVE Hand(q)'
    BY DEF HandInv
  <2> QED BY <1>a, <2>1, <2>2, HandStays
<1>4. ASSUME NEW p \in Process, Close(p) PROVE HandInv'
  <2>1. /\ pc[p] = "consuming" /\ pc' = [pc EXCEPT ![p] = "idle"] /\ Forget(p)
        /\ UNCHANGED <<file, watched, trigger, end>>
    BY <1>4 DEF Close, broker_vars
  <2>2. pc'[p] = "idle" /\ file'[p] = NoFile
    BY <1>0, <1>a, <2>1 DEF Hand, Staged, Promoting
  <2>3. OthersStay(p)
    BY <1>0, <1>b, <2>1 DEF OthersStay
  <2> QED BY <2>1, <2>2, <2>3, HandEnds, OneHand
<1>5. ASSUME NEW p \in Process, NEW t \in Partition, Resume(p, t) PROVE HandInv'
  <2>1. /\ position' = [position EXCEPT ![p][t] = committed[t]]
        /\ UNCHANGED <<pc, file, watched, trigger, end, hwm, buffer, exhausted>>
    BY <1>5 DEF Resume, companion_vars, broker_vars
  <2>2. OthersStay(p)
    BY <1>0, <2>1 DEF OthersStay
  <2> QED BY <1>5, <1>a, <2>1, <2>2, HandResumes, OneHand
<1>6. ASSUME NEW p \in Process, NEW t \in Partition, CutReady(p, t) PROVE HandInv'
  <2> DEFINE ms == buffer[p][t]
  <2>1. /\ pc[p] = "consuming" /\ ms # {} /\ Cut(p, t, ms)
        /\ UNCHANGED <<trigger, end, hwm, position, exhausted>>
    BY <1>6 DEF CutReady, broker_vars
  <2>2. ms \in SUBSET (0 .. end[t] - 1)
    BY DEF TypeOK
  <2>3. Taken(p, t)
    BY <1>a DEF Hand
  <2>4. \A o \in ms : o < position[p][t] /\ (Drain => o < hwm[p][t])
    BY <2>3 DEF Taken
  <2>5. buffer[p][t] \subseteq ms /\ position[p][t] <= end[t]
    BY <2>3 DEF Taken
  <2> HIDE DEF ms
  <2>6. /\ file'[p] = File(p, {t} \X ms) /\ file'[p] # NoFile /\ pc'[p] = "staged"
        /\ \A q \in Process \ {p} : pc'[q] = pc[q] /\ file'[q] = file[q] /\ buffer'[q] = buffer[q]
        /\ buffer'[p][t] = {} /\ \A u \in Partition \ {t} : buffer'[p][u] = buffer[p][u]
        /\ watched' = watched
    <3>1. Cut(p, t, ms)
      BY <2>1
    <3>2. file'[p] = File(p, {t} \X ms)
      BY <2>2, <3>1, CutTypes
    <3>3. file'[p] # NoFile /\ pc'[p] = "staged"
      BY <2>2, <3>1, CutTypes
    <3>4. \A q \in Process \ {p} : pc'[q] = pc[q] /\ file'[q] = file[q] /\ buffer'[q] = buffer[q]
      BY <2>2, <3>1, CutTypes
    <3>5. buffer'[p][t] = {} /\ \A u \in Partition \ {t} : buffer'[p][u] = buffer[p][u]
      BY <2>2, <3>1, CutTypes
    <3>6. watched' = watched
      BY <2>2, <3>1, CutTypes
    <3> QED BY <3>2, <3>3, <3>4, <3>5, <3>6
  <2>7. Hand(p)'
    BY <1>a, <2>1, <2>2, <2>4, <2>5, <2>6, HandCuts
  <2>8. OthersStay(p)
    BY <2>1, <2>6 DEF OthersStay
  <2> QED BY <2>1, <2>6, <2>7, <2>8, OneHand
<1>7. ASSUME NEW p \in Process, NEW t \in Partition, Poll(p, t) PROVE HandInv'
  <2>1. /\ position[p][t] \in 0 .. end[t] - 1 /\ UNCHANGED <<trigger, end, hwm>>
        /\ \A q \in Process \ {p} : position'[q] = position[q] /\ exhausted'[q] = exhausted[q]
    BY <1>7, PollReads
  <2> DEFINE ms == buffer[p][t] \cup {position[p][t]}
  <2>2. ms \in SUBSET (0 .. end[t] - 1)
    BY <2>1 DEF TypeOK
  <2> HIDE DEF ms
  <2>3. /\ \A q \in Process \ {p} : pc'[q] = pc[q] /\ file'[q] = file[q] /\ buffer'[q] = buffer[q]
        /\ UNCHANGED watched
    <3>1. CASE UNCHANGED <<companion_vars, buffer>>
      BY <3>1 DEF companion_vars
    <3>2. CASE Cut(p, t, ms)
      BY <2>2, <3>2, CutTypes
    <3>3. CASE buffer' = [buffer EXCEPT ![p][t] = ms] /\ UNCHANGED companion_vars
      BY <1>0, <3>3 DEF companion_vars
    <3> QED BY <1>7, <3>1, <3>2, <3>3, PollTakes DEF ms
  <2>4. OthersStay(p)
    BY <2>1, <2>3 DEF OthersStay
  <2> QED BY <1>7, <1>a, <2>1, <2>3, <2>4, HandPolls, OneHand
<1>8. ASSUME NEW p \in Process, DecodeError(p) PROVE HandInv'
  <2>1. /\ pc' = [pc EXCEPT ![p] = "idle"] /\ file' = [file EXCEPT ![p] = NoFile] /\ Forget(p)
        /\ UNCHANGED <<watched, trigger, end>>
    BY <1>8 DEF DecodeError, broker_vars
  <2>2. pc'[p] = "idle" /\ file'[p] = NoFile
    BY <1>0, <2>1
  <2>3. OthersStay(p)
    BY <1>0, <1>b, <2>1 DEF OthersStay
  <2> QED BY <2>1, <2>2, <2>3, HandEnds, OneHand
<1>9. ASSUME NEW p \in Process, PromoteStep(p) PROVE HandInv'
  <2>1. /\ IF pc'[p] = "idle" THEN Forget(p) ELSE UNCHANGED consumer_vars
        /\ UNCHANGED <<trigger, end>>
    BY <1>9 DEF PromoteStep, broker_vars
  <2>2. /\ \A q \in Process \ {p} : pc'[q] = pc[q] /\ file'[q] = file[q]
        /\ watched \subseteq watched'
        /\ \/ pc'[p] = "idle" /\ file'[p] = NoFile
           \/ /\ pc[p] \in Staged /\ pc'[p] \in Staged /\ file'[p] = file[p]
              /\ pc'[p] \in {"moved", "promoted"} => file[p] \in watched'
    BY <1>9, <1>a, PromoteTypes DEF PromoteStep
  <2>3. OthersStay(p)
    BY <1>b, <2>1, <2>2 DEF OthersStay, consumer_vars
  <2>4. Hand(p)'
    <3>1. CASE pc'[p] = "idle"
      BY <2>1, <2>2, <3>1, HandEnds DEF Staged, Promoting
    <3>2. CASE pc'[p] # "idle"
      BY <1>a, <2>1, <2>2, <3>2, HandPromotes
    <3> QED BY <3>1, <3>2
  <2> QED BY <2>1, <2>2, <2>3, <2>4, OneHand
<1>10. ASSUME NEW p \in Process, CommitBatch(p) PROVE HandInv'
  <2>1. /\ pc[p] = "promoted" /\ pc' = [pc EXCEPT ![p] = "consuming"]
        /\ file' = [file EXCEPT ![p] = NoFile]
        /\ UNCHANGED <<watched, trigger, end, consumer_vars>>
    BY <1>10 DEF CommitBatch
  <2>2. pc'[p] = "consuming" /\ file'[p] = NoFile
    BY <1>0, <2>1
  <2>3. OthersStay(p)
    BY <1>0, <2>1 DEF OthersStay, consumer_vars
  <2> QED BY <1>a, <2>1, <2>2, <2>3, HandCommits, OneHand
<1>11. ASSUME NEW p \in Process, MaterializeFault(p) PROVE HandInv'
  <2>1. /\ pc' = [pc EXCEPT ![p] = "idle"] /\ file' = [file EXCEPT ![p] = NoFile] /\ Forget(p)
        /\ UNCHANGED <<watched, trigger, end>>
    BY <1>11 DEF MaterializeFault, Fail, Crash, EndProgram, broker_vars
  <2>2. pc'[p] = "idle" /\ file'[p] = NoFile
    BY <1>0, <2>1
  <2>3. OthersStay(p)
    BY <1>0, <1>b, <2>1 DEF OthersStay
  <2> QED BY <2>1, <2>2, <2>3, HandEnds, OneHand
<1>12. ASSUME NEW t \in Partition, Produce(t) PROVE HandInv'
  <2>1. /\ end' = [end EXCEPT ![t] = end[t] + 1]
        /\ UNCHANGED <<pc, file, watched, trigger, hwm, position, buffer, exhausted>>
    BY <1>12 DEF Produce, companion_vars, consumer_vars
  <2>2. \A u \in Partition : end'[u] \in Nat /\ end[u] <= end'[u]
    <3>1. end \in [Partition -> Nat]
      BY MaterializeAssumption DEF TypeOK
    <3> QED BY <2>1, <3>1
  <2> SUFFICES ASSUME NEW q \in Process PROVE Hand(q)'
    BY DEF HandInv
  <2> QED BY <1>a, <2>1, <2>2, HandStays
<1> QED BY <1>1, <1>2, <1>3, <1>4, <1>5, <1>6, <1>7, <1>8, <1>9, <1>10, <1>11, <1>12
        DEF Next, Consume, Materialization

LEMMA CommittedStep ==
    ASSUME TypeOK, HandInv, CommittedLanded, [Next]_vars
    PROVE  CommittedLanded'
<1>1. ASSUME NEW p \in Process, CommitBatch(p) PROVE CommittedLanded'
  <2>1. /\ pc[p] = "promoted" /\ UNCHANGED watched
    BY <1>1 DEF CommitBatch
  <2>2. PICK u \in Partition : /\ \A m \in file[p].rows : m[1] = u
                               /\ committed' = [committed EXCEPT ![u] = NextOffset(file[p].rows)]
    BY <1>1 DEF CommitBatch
  <2>3. PICK t \in Partition : \E ms \in SUBSET (0 .. end[t] - 1) : Batch(p, t, ms)
    BY <2>1 DEF HandInv, Hand, Staged
  <2>4. PICK ms \in SUBSET (0 .. end[t] - 1) : Batch(p, t, ms)
    BY <2>3
  <2>5. file[p].rows = {t} \X ms /\ ms # {} /\ file[p] \in watched
    BY <2>1, <2>4 DEF Batch, File, HandInv, Hand
  <2>6. u = t
    <3>1. PICK m \in ms : <<t, m>> \in {t} \X ms
      BY <2>5
    <3> QED BY <2>2, <2>5, <3>1
  <2>7. PICK n : n = NextOffset({t} \X ms)
    OBVIOUS
  <2>8. n \in 1 .. end[t] /\ n - 1 \in ms
    BY <2>5, <2>7, NextOffsetIsLeast, Offsets
  <2>9. committed' = [committed EXCEPT ![t] = n] /\ committed \in [Partition -> 0 .. MaxOffset]
    BY <2>2, <2>5, <2>6, <2>7 DEF TypeOK
  <2>10. Landed' = Landed /\ \A o \in ms : <<t, o>> \in Landed
    BY <2>1, <2>5 DEF Landed
  <2>11. \A o \in 0 .. n - 1 : <<t, o>> \in Landed
    BY <2>4, <2>8, <2>10 DEF Batch
  <2>12. \A v \in Partition : \A o \in 0 .. committed'[v] - 1 : <<v, o>> \in Landed
    <3> TAKE v \in Partition
    <3>1. CASE v = t
      BY <2>9, <2>11, <3>1
    <3>2. CASE v # t
      BY <2>9, <3>2 DEF CommittedLanded
    <3> QED BY <3>1, <3>2
  <2> QED BY <2>10, <2>12 DEF CommittedLanded
<1>2. ASSUME UNCHANGED committed, watched \subseteq watched' PROVE CommittedLanded'
  <2>1. Landed \subseteq Landed'
    BY <1>2 DEF Landed
  <2> QED BY <1>2, <2>1 DEF CommittedLanded
<1>3. CASE UNCHANGED vars
  BY <1>2, <1>3 DEF vars, companion_vars, broker_vars
<1>4. ASSUME NEW p \in Process, Consume(p) PROVE UNCHANGED committed /\ watched \subseteq watched'
  <2>1. CASE Open(p)
    BY <2>1 DEF Open, broker_vars
  <2>2. CASE StopPolling(p)
    BY <2>2 DEF StopPolling, broker_vars, companion_vars
  <2>3. CASE Close(p)
    BY <2>3 DEF Close, broker_vars
  <2>4. ASSUME NEW t \in Partition, Resume(p, t) PROVE UNCHANGED <<committed, watched>>
    BY <2>4 DEF Resume, broker_vars, companion_vars
  <2>5. ASSUME NEW t \in Partition, CutReady(p, t) PROVE UNCHANGED <<committed, watched>>
    BY <2>5 DEF CutReady, Cut, StageFile, broker_vars
  <2>6. ASSUME NEW t \in Partition, Poll(p, t) PROVE UNCHANGED <<committed, watched>>
    <3>1. UNCHANGED committed
      BY <2>6, PollReads
    <3>2. UNCHANGED watched
      BY <2>6, PollTakes DEF Cut, StageFile, companion_vars
    <3> QED BY <3>1, <3>2
  <2> QED BY <1>4, <2>1, <2>2, <2>3, <2>4, <2>5, <2>6 DEF Consume
<1>5. ASSUME NEW p \in Process, DecodeError(p) PROVE CommittedLanded'
  BY <1>2, <1>5 DEF DecodeError, broker_vars
<1>6. ASSUME NEW p \in Process, PromoteStep(p) PROVE CommittedLanded'
  <2>1. watched \subseteq watched'
    BY <1>6, PromoteTypes DEF PromoteStep, HandInv
  <2> QED BY <1>2, <1>6, <2>1 DEF PromoteStep, broker_vars
<1>7. ASSUME NEW p \in Process, MaterializeFault(p) PROVE CommittedLanded'
  BY <1>2, <1>7 DEF MaterializeFault, Fail, Crash, EndProgram, broker_vars
<1>8. ASSUME NEW t \in Partition, Produce(t) PROVE CommittedLanded'
  BY <1>2, <1>8 DEF Produce, companion_vars
<1> QED BY <1>1, <1>2, <1>3, <1>4, <1>5, <1>6, <1>7, <1>8 DEF Next, Materialization

LEMMA StartsEmpty == Init => TypeOK /\ HandInv /\ CommittedLanded
<1> SUFFICES ASSUME Init PROVE TypeOK /\ HandInv /\ CommittedLanded
  OBVIOUS
<1>1. 0 \in 0 .. MaxOffset /\ 0 \in 0 .. MaxFaults /\ Nowhere \in Nowhere .. MaxOffset
  BY MaterializeAssumption, CompanionAssumption DEF Nowhere
<1>2. CompanionTypes
  BY <1>1 DEF Init, CompanionInit, CompanionTypes, CompanionTypeOK, Promoting, PromotionPC
<1>3. BrokerTypes
  BY <1>1 DEF Init, BrokerTypes
<1>4. ConsumerTypes
  BY <1>1 DEF Init, NewConsumer, ConsumerTypes
<1>5. TypeOK
  BY <1>2, <1>3, <1>4 DEF TypeOK, CompanionTypes, BrokerTypes, ConsumerTypes
<1>6. ASSUME NEW p \in Process PROVE Hand(p)
  <2>1. /\ pc[p] = "idle" /\ file[p] = NoFile /\ exhausted[p] = {}
        /\ \A t \in Partition : position[p][t] = Nowhere /\ buffer[p][t] = {} /\ end[t] = 0
    BY DEF Init, CompanionInit, NewConsumer
  <2>2. \A t \in Partition : Taken(p, t)
    BY <2>1 DEF Taken, Nowhere
  <2> QED BY <2>1, <2>2 DEF Hand, Staged, Promoting
<1>7. CommittedLanded
  BY DEF Init, CommittedLanded
<1> QED BY <1>5, <1>6, <1>7 DEF HandInv

\* The variables have the shapes the code gives them.
THEOREM MaterializeTypes == Spec => []TypeOK
BY StartsEmpty, TypeStep, HandStep, CommittedStep, PTL DEF Spec

\* What the broker has been told is done is in the Watched Directory, for any number
\* of Materializers that set one another's offset back, of partitions and of
\* messages, whatever fails and is killed.
THEOREM CommitsOnlyLanded == Spec => []CommittedLanded
BY StartsEmpty, TypeStep, HandStep, CommittedStep, PTL DEF Spec

\* A message that was polled is past the snapshot, or has landed, or is buffered, or
\* is being promoted, in both Trigger Modes and for every batch size.
THEOREM DropsNothing == Spec => []NothingDropped
<1>1. HandInv => NothingDropped
  BY DEF HandInv, Hand, Taken, NothingDropped
<1> QED BY <1>1, StartsEmpty, TypeStep, HandStep, CommittedStep, PTL DEF Spec
==============================================================================
