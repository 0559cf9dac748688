----------------------------- MODULE Materialize -----------------------------
(***************************************************************************)
(* filedge-materialize (src/filedge/materialize): Materializers of one     *)
(* Queue Source poll a Kafka topic into one Micro-batch per partition,     *)
(* stage and promote every batch they cut as a file, and commit the broker *)
(* offset past it.                                                         *)
(*                                                                         *)
(* A message is a partition and an offset.  Partitions are assigned by     *)
(* hand, all of them to every Materializer: the consumer group only keeps  *)
(* the committed offsets.  How long a buffer has been open is left         *)
(* abstract: any buffer may have timed out.                                *)
(***************************************************************************)
EXTENDS Companion

CONSTANTS
    Partition,    \* the partitions of the topic
    Trigger,      \* the Trigger Modes: "drain", "continuous"
    BatchSize,    \* batch_size
    Poison,       \* the messages that do not decode
    MaxOffset     \* bound: the messages produced into a partition

Message == Partition \X (0 .. MaxOffset - 1)

ASSUME MaterializeAssumption ==
    /\ Trigger \subseteq {"drain", "continuous"}
    /\ BatchSize \in Nat \ {0}
    /\ MaxOffset \in Nat
    /\ Poison \subseteq Message

ASSUME NoFileAssumption == NoFile \notin [by : Process, rows : SUBSET Message]

VARIABLES
    trigger,    \* the Trigger Mode configured
    end,        \* the broker's end offset of a partition
    committed,  \* the broker's committed offset of a partition
    hwm,        \* drain: the end offsets snapshot at startup
    position,   \* where the client reads next, Nowhere before it has asked
    buffer,     \* drain, consume_continuous: the open buffer of a partition
    exhausted,  \* drain: the partitions that are done
    flushing    \* the loop is over, what is buffered is still cut

broker_vars == <<trigger, end, committed>>
consumer_vars == <<hwm, position, buffer, exhausted, flushing>>
vars == <<companion_vars, broker_vars, consumer_vars>>

Nowhere == -1

Drain == trigger = "drain"

NewConsumer ==
    [hwm |-> [t \in Partition |-> 0], position |-> [t \in Partition |-> Nowhere],
     buffer |-> [t \in Partition |-> {}]]

Init ==
    /\ CompanionInit
    /\ trigger \in Trigger
    /\ end = [t \in Partition |-> 0] /\ committed = [t \in Partition |-> 0]
    /\ hwm = [p \in Process |-> NewConsumer.hwm]
    /\ position = [p \in Process |-> NewConsumer.position]
    /\ buffer = [p \in Process |-> NewConsumer.buffer]
    /\ exhausted = [p \in Process |-> {}]
    /\ flushing = [p \in Process |-> FALSE]

\* What a consumer holds in memory goes with it.
Forget(p) ==
    /\ hwm' = [hwm EXCEPT ![p] = NewConsumer.hwm]
    /\ position' = [position EXCEPT ![p] = NewConsumer.position]
    /\ buffer' = [buffer EXCEPT ![p] = NewConsumer.buffer]
    /\ exhausted' = [exhausted EXCEPT ![p] = {}]
    /\ flushing' = [flushing EXCEPT ![p] = FALSE]

Produce(t) ==
    /\ end[t] < MaxOffset
    /\ end' = [end EXCEPT ![t] = @ + 1]
    /\ UNCHANGED <<companion_vars, trigger, committed, consumer_vars>>

-----------------------------------------------------------------------------
(***************************************************************************)
(* QueueConsumer.drain and consume_continuous.                             *)
(***************************************************************************)

\* In drain mode, the snapshot of the high-water marks comes first.
Open(p) ==
    /\ pc[p] = "idle"
    /\ GoTo(p, "consuming")
    /\ hwm' = [hwm EXCEPT ![p] = IF Drain THEN end ELSE @]
    /\ exhausted' = [exhausted EXCEPT ![p] = {t \in Partition : Drain /\ end[t] = 0}]
    /\ UNCHANGED <<file, locked, sidecars, partial, watched, faults, broker_vars,
                   position, buffer, flushing>>

\* A buffer is cut into a Micro-batch, which is decoded and staged; the first
\* message that does not decode ends the program.
Cut(p, t, messages) ==
    /\ buffer' = [buffer EXCEPT ![p][t] = {}]
    /\ StageFile(p, {t} \X messages)

\* At the top of the loop: the buffers that are exhausted or timed out.
CutReady(p, t) ==
    /\ pc[p] = "consuming" /\ buffer[p][t] # {}
    /\ Cut(p, t, buffer[p][t])
    /\ UNCHANGED <<broker_vars, hwm, position, exhausted, flushing>>

\* No buffer of an exhausted partition is left when the loop gets to poll.
MayPoll(p) ==
    /\ pc[p] = "consuming" /\ ~flushing[p]
    /\ \A t \in exhausted[p] : buffer[p][t] = {}
    /\ Drain => exhausted[p] # Partition

\* The client asks the broker where the group left off.
Resume(p, t) ==
    /\ MayPoll(p) /\ position[p][t] = Nowhere
    /\ position' = [position EXCEPT ![p][t] = committed[t]]
    /\ UNCHANGED <<companion_vars, broker_vars, hwm, buffer, exhausted, flushing>>

\* Variant: the last message below the snapshot is taken to be past it.
PollDropping(p, t) ==
    LET offset == position[p][t]
        late == Drain /\ (t \in exhausted[p] \/ offset + 1 >= hwm[p][t])
        messages == buffer[p][t] \cup {offset}
    IN  /\ MayPoll(p)
        /\ offset \in 0 .. end[t] - 1
        /\ position' = [position EXCEPT ![p][t] = @ + 1]
        /\ exhausted' = [exhausted EXCEPT ![p] = @ \cup {u \in {t} : Drain /\ offset + 1 >= hwm[p][t]}]
        /\ IF late
           THEN UNCHANGED <<companion_vars, buffer>>
           ELSE IF Cardinality(messages) >= BatchSize
                THEN Cut(p, t, messages)
                ELSE buffer' = [buffer EXCEPT ![p][t] = messages] /\ UNCHANGED companion_vars
        /\ UNCHANGED <<broker_vars, hwm, flushing>>

\* poll returns one message.  A message past the snapshot, or of a partition that
\* is done, is dropped; the others are buffered and a full buffer is cut.
Poll(p, t) ==
    LET offset == position[p][t]
        late == Drain /\ (t \in exhausted[p] \/ offset >= hwm[p][t])
        messages == buffer[p][t] \cup {offset}
    IN  /\ MayPoll(p)
        /\ offset \in 0 .. end[t] - 1
        /\ position' = [position EXCEPT ![p][t] = @ + 1]
        /\ exhausted' = [exhausted EXCEPT ![p] = @ \cup {u \in {t} : Drain /\ offset + 1 >= hwm[p][t]}]
        /\ IF late
           THEN UNCHANGED <<companion_vars, buffer>>
           ELSE IF Cardinality(messages) >= BatchSize
                THEN Cut(p, t, messages)
                ELSE buffer' = [buffer EXCEPT ![p][t] = messages] /\ UNCHANGED companion_vars
        /\ UNCHANGED <<broker_vars, hwm, flushing>>

\* drain: poll answers nothing in time.  continuous: should_stop is true.
StopPolling(p) ==
    /\ MayPoll(p)
    /\ flushing' = [flushing EXCEPT ![p] = TRUE]
    /\ UNCHANGED <<companion_vars, broker_vars, hwm, position, buffer, exhausted>>

\* Variant: the loop ends without cutting what is buffered.
CloseAtOnce(p) ==
    /\ pc[p] = "consuming"
    /\ flushing[p] \/ (Drain /\ exhausted[p] = Partition)
    /\ GoTo(p, "idle")
    /\ Forget(p)
    /\ UNCHANGED <<file, locked, sidecars, partial, watched, faults, broker_vars>>

Close(p) ==
    /\ pc[p] = "consuming"
    /\ flushing[p] \/ (Drain /\ exhausted[p] = Partition)
    /\ \A t \in Partition : buffer[p][t] = {}
    /\ GoTo(p, "idle")
    /\ Forget(p)
    /\ UNCHANGED <<file, locked, sidecars, partial, watched, faults, broker_vars>>

-----------------------------------------------------------------------------
(***************************************************************************)
(* run_materialize: promote, then commit.                                  *)
(***************************************************************************)
Undecodable(p) == file[p].rows \cap Poison # {}

DecodeError(p) ==
    /\ pc[p] = "staged" /\ Undecodable(p)
    /\ GoTo(p, "idle")
    /\ file' = [file EXCEPT ![p] = NoFile]
    /\ Forget(p)
    /\ UNCHANGED <<locked, sidecars, partial, watched, faults, broker_vars>>

PromoteStep(p) ==
    /\ pc[p] = "staged" => ~Undecodable(p)
    /\ Promote(p)
    /\ IF pc'[p] = "idle" THEN Forget(p) ELSE UNCHANGED consumer_vars
    /\ UNCHANGED broker_vars

\* Variant: the client adds one to what is already the next offset.
NextOffsetTwice(rows) == 2 + CHOOSE o \in {m[2] : m \in rows} : \A m \in rows : m[2] <= o

\* The offset after the last message of the batch.
NextOffset(rows) == 1 + CHOOSE o \in {m[2] : m \in rows} : \A m \in rows : m[2] <= o

\* Variant: the offset committed is where the client reads next.
CommitPosition(p) ==
    /\ pc[p] = "promoted"
    /\ committed' = [t \in Partition |-> IF position[p][t] = Nowhere THEN committed[t]
                                                                     ELSE position[p][t]]
    /\ file' = [file EXCEPT ![p] = NoFile]
    /\ GoTo(p, "consuming")
    /\ UNCHANGED <<locked, sidecars, partial, watched, faults, trigger, end, consumer_vars>>

CommitBatch(p) ==
    /\ pc[p] = "promoted"
    /\ \E t \in Partition :
           /\ \A m \in file[p].rows : m[1] = t
           /\ committed' = [committed EXCEPT ![t] = NextOffset(file[p].rows)]
    /\ file' = [file EXCEPT ![p] = NoFile]
    /\ GoTo(p, "consuming")
    /\ UNCHANGED <<locked, sidecars, partial, watched, faults, trigger, end, consumer_vars>>

\* A poll error, a full disk, a failed commit...; and the kill.
MaterializeFault(p) ==
    /\ Fail(p) \/ Crash(p)
    /\ Forget(p)
    /\ UNCHANGED broker_vars

-----------------------------------------------------------------------------
Consume(p) ==
    \/ Open(p) \/ StopPolling(p) \/ Close(p)
    \/ \E t \in Partition : Resume(p, t) \/ CutReady(p, t) \/ Poll(p, t)

Materialization(p) == DecodeError(p) \/ PromoteStep(p) \/ CommitBatch(p)

Next ==
    \/ \E p \in Process : Consume(p) \/ Materialization(p)
    \/ \E p \in Process : MaterializeFault(p)
    \/ \E t \in Partition : Produce(t)

Spec == Init /\ [][Next]_vars

\* Materializers are scheduled again and again and keep running, and a client
\* that keeps polling is answered in the end by every partition that has more.
FairSpec ==
    /\ Spec
    /\ \A p \in Process :
           /\ WF_vars(Consume(p) \/ Materialization(p))
           /\ \A t \in Partition : SF_vars(Resume(p, t)) /\ SF_vars(Poll(p, t))

-----------------------------------------------------------------------------
(***************************************************************************)
(* Properties.                                                             *)
(***************************************************************************)

\* The variables have the shapes the code gives them.
TypeOK ==
    /\ CompanionTypeOK(Message)
    /\ pc \in [Process -> PromotionPC \cup {"consuming"}]
    /\ trigger \in Trigger
    /\ end \in [Partition -> 0 .. MaxOffset] /\ committed \in [Partition -> 0 .. MaxOffset]
    /\ \A t \in Partition : committed[t] <= end[t]
    /\ hwm \in [Process -> [Partition -> 0 .. MaxOffset]]
    /\ position \in [Process -> [Partition -> Nowhere .. MaxOffset]]
    /\ buffer \in [Process -> [Partition -> SUBSET (0 .. MaxOffset - 1)]]
    /\ \A p \in Process, t \in Partition : buffer[p][t] \subseteq 0 .. end[t] - 1
    /\ exhausted \in [Process -> SUBSET Partition]
    /\ flushing \in [Process -> BOOLEAN]

\* What the broker has been told is done is in the Watched Directory: a message
\* below the committed offset has landed, through failures, crashes and
\* Materializers that run at the same time and set one another's offset back.
CommittedLanded ==
    \A t \in Partition : \A o \in 0 .. committed[t] - 1 : <<t, o>> \in Landed

\* A message that a Materializer has taken from the queue is never dropped on the
\* way: below the snapshot, it has landed, or is buffered, or is being promoted.
NothingDropped ==
    \A p \in Process, t \in Partition : \A o \in 0 .. position[p][t] - 1 :
        \/ Drain /\ o >= hwm[p][t]
        \/ <<t, o>> \in Landed
        \/ o \in buffer[p][t]
        \/ file[p] # NoFile /\ <<t, o>> \in file[p].rows

\* Every message lands, unless a message that does not decode stops the queue.
Produced(m) == m[2] < end[m[1]]

EventuallyLanded ==
    \A m \in Message : Produced(m) ~> m \in Landed \/ \E x \in Poison : Produced(x)
==============================================================================
