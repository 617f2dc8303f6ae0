---------------------------- MODULE Relay_proofs ----------------------------
(***************************************************************************)
(* Proofs about the delivery worker, and about the two workers in a row,   *)
(* for any number of messages, routes and faults and any size of the       *)
(* semaphore.                                                              *)
(***************************************************************************)
EXTENDS Relay, TLAPS, FiniteSetTheorems

-----------------------------------------------------------------------------
(* The delivery worker, alone. *)
Alive == loop # "down"

(* The offset, the consumer's position and the end of the partition. *)
OffsetsOrdered ==
    /\ committed <= end
    /\ position <= end
    /\ Alive => committed <= position

(* A task belongs to a message taken by the process that is running. *)
TasksTaken == \A m \in Messages : task[m] # "none" => m <= position /\ Alive

SemaphoreHeld == Cardinality(Holders) <= SEMAPHORE

(* A task that commits has seen its delivery return. *)
CommittingSettled == \A m \in Messages : task[m] = "committing" => m \in settled

(* The loop leaves for its drain only when it has seen _stop. *)
DrainingStopped == loop = "draining" => stop

(* The faults that ended an earlier run: the stop of this one not yet.      *)
EndedRuns == crashes + stops - (IF Alive /\ stop THEN 1 ELSE 0)

(* A message gets a task once in each run, when the position passes it. *)
StartsPerRun ==
    \A m \in Messages :
        starts[m] <= EndedRuns + (IF Alive /\ m <= position THEN 1 ELSE 0)

(* A stop counts, so a process that has not met a fault has not ended. *)
StopCounted == Alive /\ stop => stops > 0

(* As long as nothing went wrong, every message taken is accounted for. *)
TakenAccounted ==
    crashes + stops = 0 =>
        /\ ~Alive => committed = 0
        /\ Alive => \A m \in 1..position :
                m \in Malformed \cup settled \cup raised \/ task[m] # "none"

(* The inductive invariant. *)
IInv ==
    /\ TypeOK
    /\ OffsetsOrdered
    /\ TasksTaken
    /\ SemaphoreHeld
    /\ CommittingSettled
    /\ DrainingStopped
    /\ StartsPerRun
    /\ StopCounted
    /\ TakenAccounted

-----------------------------------------------------------------------------
(* The steps, as the proofs below tell them apart. *)
LEMMA NextCases ==
    ASSUME [Next]_vars
    PROVE  \/ Produce \/ Start \/ Take \/ Signal \/ Exit \/ Crash
           \/ \E m \in Messages : Acquire(m) \/ Settle(m) \/ Commit(m)
                                    \/ DeliveryRaises(m) \/ CommitFails(m)
           \/ UNCHANGED vars
BY DEF Next, TaskStep

(* What Take does: the loop ends, a malformed message is passed over, or a   *)
(* task is created.                                                          *)
LEMMA TakeCases ==
    ASSUME Take
    PROVE  \/ stop /\ loop' = "draining" /\ task' = task /\ starts' = starts
           \/ ~stop /\ loop' = loop /\ task' = task /\ starts' = starts
           \/ /\ ~stop /\ loop' = loop
              /\ Becomes(position', "waiting")
              /\ starts' = [starts EXCEPT ![position'] = @ + 1]
<1>1. CASE stop
    BY <1>1 DEF Take
<1>2. CASE ~stop /\ position' \in Malformed
    BY <1>2 DEF Take
<1>3. CASE ~stop /\ position' \notin Malformed
    BY <1>3 DEF Take
<1> QED BY <1>1, <1>2, <1>3

(* Every value stays in its type. *)
LEMMA TypeStep == IInv /\ [Next]_vars => TypeOK'
<1> SUFFICES ASSUME IInv, [Next]_vars PROVE TypeOK'
    OBVIOUS
<1> USE NAssumption, BoundsAssumption DEF IInv
<1>1. ASSUME Produce PROVE TypeOK'
    BY <1>1 DEF TypeOK, Produce, faults
<1>2. ASSUME Start PROVE TypeOK'
    BY <1>2 DEF TypeOK, Start, faults
<1>3. ASSUME Take PROVE TypeOK'
    <2>1. position' \in 0..N
        BY <1>3 DEF TypeOK, Take
    <2>2. task' \in [Messages -> {"none", "waiting", "running", "committing"}]
        BY <1>3 DEF TypeOK, Take, Becomes
    <2>3. starts' \in [Messages -> Nat]
        BY <1>3 DEF TypeOK, Take
    <2>4. loop' \in {"down", "consuming", "draining"}
        BY <1>3 DEF TypeOK, Take
    <2> QED BY <1>3, <2>1, <2>2, <2>3, <2>4 DEF TypeOK, Take, faults
<1>4. ASSUME Signal PROVE TypeOK'
    BY <1>4 DEF TypeOK, Signal
<1>5. ASSUME Exit PROVE TypeOK'
    BY <1>5 DEF TypeOK, Exit, faults
<1>6. ASSUME Crash PROVE TypeOK'
    BY <1>6 DEF TypeOK, Crash
<1>7. ASSUME NEW m \in Messages, Acquire(m) PROVE TypeOK'
    BY <1>7 DEF TypeOK, Acquire, Becomes, faults
<1>8. ASSUME NEW m \in Messages, Settle(m) PROVE TypeOK'
    BY <1>8 DEF TypeOK, Settle, Becomes, faults
<1>9. ASSUME NEW m \in Messages, Commit(m) PROVE TypeOK'
    BY <1>9 DEF TypeOK, Commit, Becomes, faults
<1>10. ASSUME NEW m \in Messages, DeliveryRaises(m) PROVE TypeOK'
    BY <1>10 DEF TypeOK, DeliveryRaises, Becomes
<1>11. ASSUME NEW m \in Messages, CommitFails(m) PROVE TypeOK'
    BY <1>11 DEF TypeOK, CommitFails, Becomes
<1>12. ASSUME UNCHANGED vars PROVE TypeOK'
    BY <1>12 DEF TypeOK, vars, faults
<1> QED
    BY NextCases, <1>1, <1>2, <1>3, <1>4, <1>5, <1>6, <1>7, <1>8, <1>9, <1>10,
       <1>11, <1>12

(* A task that ends or goes on leaves offsets, loop and position as they    *)
(* are, but for the commit, which moves the offset to the position.         *)
LEMMA OffsetsStep == IInv /\ [Next]_vars => OffsetsOrdered' /\ DrainingStopped' /\ StopCounted'
<1> SUFFICES ASSUME IInv, [Next]_vars
             PROVE OffsetsOrdered' /\ DrainingStopped' /\ StopCounted'
    OBVIOUS
<1> USE DEF IInv, TypeOK, OffsetsOrdered, DrainingStopped, StopCounted, Alive
<1>1. CASE Produce
    BY <1>1 DEF Produce, faults
<1>2. CASE Start
    BY <1>2 DEF Start, faults
<1>3. CASE Take
    <2>1. position' = position + 1 /\ position' <= end /\ end' = end /\ committed' = committed
        BY <1>3 DEF Take
    <2>2. UNCHANGED <<stop, stops>> /\ loop = "consuming"
        BY <1>3 DEF Take, faults
    <2>3. loop' = loop \/ (loop' = "draining" /\ stop)
        BY <1>3, TakeCases
    <2>4. OffsetsOrdered'
        <3>1. committed <= position /\ position \in Nat /\ committed \in Nat
            BY <2>2, NAssumption
        <3> QED BY <2>1, <2>3, <3>1
    <2>5. DrainingStopped' /\ StopCounted'
        BY <2>2, <2>3
    <2> QED BY <2>4, <2>5
<1>4. CASE Signal
    BY <1>4 DEF Signal
<1>5. CASE Exit
    BY <1>5 DEF Exit, faults
<1>6. CASE Crash
    BY <1>6 DEF Crash
<1>7. ASSUME NEW m \in Messages, Commit(m)
      PROVE OffsetsOrdered' /\ DrainingStopped' /\ StopCounted'
    <2>1. m <= position /\ Alive
        BY <1>7 DEF Commit, TasksTaken
    <2> QED BY <1>7, <2>1 DEF Commit, faults
<1>8. ASSUME UNCHANGED <<end, committed, position, loop, stop, stops>>
      PROVE OffsetsOrdered' /\ DrainingStopped' /\ StopCounted'
    BY <1>8
<1>9. ASSUME NEW m \in Messages,
             Acquire(m) \/ Settle(m) \/ DeliveryRaises(m) \/ CommitFails(m)
      PROVE UNCHANGED <<end, committed, position, loop, stop, stops>>
    BY <1>9 DEF Acquire, Settle, DeliveryRaises, CommitFails, faults
<1>10. ASSUME UNCHANGED vars
       PROVE UNCHANGED <<end, committed, position, loop, stop, stops>>
    BY <1>10 DEF vars, faults
<1> QED
    BY NextCases, <1>1, <1>2, <1>3, <1>4, <1>5, <1>6, <1>7, <1>8, <1>9, <1>10

(* A task is made by Take for the message just taken and goes on through    *)
(* semaphore, delivery and commit in this order.                            *)
LEMMA TasksStep == IInv /\ [Next]_vars => TasksTaken' /\ CommittingSettled'
<1> SUFFICES ASSUME IInv, [Next]_vars PROVE TasksTaken' /\ CommittingSettled'
    OBVIOUS
<1> USE DEF IInv, TypeOK, TasksTaken, CommittingSettled, Alive
<1>1. CASE Produce
    BY <1>1 DEF Produce
<1>2. CASE Start
    BY <1>2 DEF Start
<1>3. CASE Take
    <2>0. loop = "consuming" /\ settled' = settled
        BY <1>3 DEF Take
    <2>1. loop # "down" /\ loop' # "down" /\ settled' = settled
        BY <1>3, <2>0, TakeCases
    <2>2. position' = position + 1
        BY <1>3 DEF Take
    <2>3. \A m \in Messages : task'[m] = task[m] \/ (task'[m] = "waiting" /\ m = position')
        BY <1>3, TakeCases DEF Becomes
    <2>4. position \in Nat
        BY NAssumption
    <2>5. TasksTaken'
        BY <2>1, <2>2, <2>3, <2>4 DEF Messages
    <2>6. CommittingSettled'
        BY <2>1, <2>3
    <2> QED BY <2>5, <2>6
<1>4. CASE Signal
    BY <1>4 DEF Signal
<1>5. CASE Exit
    BY <1>5 DEF Exit
<1>6. CASE Crash
    BY <1>6 DEF Crash
<1>7. ASSUME NEW m \in Messages,
             Acquire(m) \/ Settle(m) \/ Commit(m) \/ DeliveryRaises(m) \/ CommitFails(m)
      PROVE TasksTaken' /\ CommittingSettled'
    BY <1>7 DEF Acquire, Settle, Commit, DeliveryRaises, CommitFails, Becomes
<1>8. CASE UNCHANGED vars
    BY <1>8 DEF vars
<1> QED BY NextCases, <1>1, <1>2, <1>3, <1>4, <1>5, <1>6, <1>7, <1>8

(* Only Acquire adds a holder, and it finds one below the limit. *)
LEMMA SemaphoreStep == IInv /\ [Next]_vars => SemaphoreHeld'
<1> SUFFICES ASSUME IInv, [Next]_vars PROVE SemaphoreHeld'
    OBVIOUS
<1> USE NAssumption, SemaphoreAssumption DEF IInv, TypeOK, SemaphoreHeld
<1>1. IsFiniteSet(Holders) /\ Cardinality(Holders) \in Nat
    <2>1. IsFiniteSet(Messages)
        BY FS_Interval DEF Messages
    <2> QED BY <2>1, FS_Subset, FS_CardinalityType DEF Holders
<1>2. ASSUME Holders' \subseteq Holders PROVE SemaphoreHeld'
    <2>1. Cardinality(Holders') <= Cardinality(Holders)
        BY <1>1, <1>2, FS_Subset
    <2>2. IsFiniteSet(Holders') /\ Cardinality(Holders') \in Nat
        BY <1>1, <1>2, FS_Subset, FS_CardinalityType
    <2> QED BY <1>1, <2>1, <2>2
<1>3. ASSUME NEW m \in Messages, Acquire(m) PROVE SemaphoreHeld'
    <2>1. m \notin Holders /\ Holders' = Holders \cup {m}
        BY <1>3 DEF Acquire, Becomes, Holders
    <2>2. Cardinality(Holders') = Cardinality(Holders) + 1
        BY <1>1, <2>1, FS_AddElement
    <2>3. Cardinality(Holders) < SEMAPHORE
        BY <1>3 DEF Acquire
    <2> QED BY <1>1, <2>2, <2>3
<1>4. ASSUME NEW m \in Messages,
             Settle(m) \/ Commit(m) \/ DeliveryRaises(m) \/ CommitFails(m)
      PROVE Holders' \subseteq Holders
    BY <1>4 DEF Settle, Commit, DeliveryRaises, CommitFails, Becomes, Holders
<1>5. ASSUME Take PROVE Holders' \subseteq Holders
    BY <1>5, TakeCases DEF Becomes, Holders
<1>6. ASSUME Produce \/ Start \/ Signal \/ Exit \/ Crash \/ UNCHANGED vars
      PROVE Holders' \subseteq Holders
    BY <1>6 DEF Produce, Start, Signal, Exit, Crash, vars, Holders
<1> QED BY NextCases, <1>2, <1>3, <1>4, <1>5, <1>6

(* Take makes the only tasks, and each message passes the position once in  *)
(* a run.                                                                   *)
LEMMA StartsStep == IInv /\ [Next]_vars => StartsPerRun'
<1> SUFFICES ASSUME IInv, [Next]_vars PROVE StartsPerRun'
    OBVIOUS
<1> USE NAssumption, BoundsAssumption
        DEF IInv, TypeOK, StartsPerRun, EndedRuns, Alive, Messages
<1>1. CASE Produce
    BY <1>1 DEF Produce, faults
<1>2. CASE Start
    BY <1>2 DEF Start, faults
<1>3. CASE Take
    <2>1. loop = "consuming" /\ position' = position + 1 /\ UNCHANGED <<stop, crashes, stops>>
        BY <1>3 DEF Take, faults
    <2>2. loop' # "down"
        BY <1>3, <2>1, TakeCases
    <2>3. \A m \in Messages : starts'[m] = starts[m]
                                \/ (starts'[m] = starts[m] + 1 /\ m = position')
        BY <1>3, TakeCases
    <2> QED BY <2>1, <2>2, <2>3
<1>4. CASE Signal
    BY <1>4 DEF Signal
<1>5. CASE Exit
    BY <1>5 DEF Exit, faults, DrainingStopped
<1>6. CASE Crash
    BY <1>6 DEF Crash
<1>7. ASSUME NEW m \in Messages,
             Acquire(m) \/ Settle(m) \/ Commit(m) \/ DeliveryRaises(m) \/ CommitFails(m)
      PROVE UNCHANGED <<position, loop, stop, starts, crashes, stops>>
    BY <1>7 DEF Acquire, Settle, Commit, DeliveryRaises, CommitFails, faults
<1>8. ASSUME UNCHANGED vars
      PROVE UNCHANGED <<position, loop, stop, starts, crashes, stops>>
    BY <1>8 DEF vars, faults
<1>9. ASSUME UNCHANGED <<position, loop, stop, starts, crashes, stops>>
      PROVE StartsPerRun'
    BY <1>9
<1> QED BY NextCases, <1>1, <1>2, <1>3, <1>4, <1>5, <1>6, <1>7, <1>8, <1>9

(* Without a crash or a stop a message taken keeps its task until its       *)
(* delivery has returned or raised.                                         *)
LEMMA AccountedStep == IInv /\ [Next]_vars => TakenAccounted'
<1> SUFFICES ASSUME IInv, [Next]_vars PROVE TakenAccounted'
    OBVIOUS
<1> USE NAssumption, BoundsAssumption DEF IInv, TypeOK, TakenAccounted, Alive, Messages
<1>1. CASE Produce
    BY <1>1 DEF Produce, faults
<1>2. CASE Start
    BY <1>2 DEF Start, faults
<1>3. CASE Take
    <2>1. /\ loop = "consuming" /\ position' = position + 1 /\ position < end
          /\ UNCHANGED <<settled, raised, stop, crashes, stops>>
        BY <1>3 DEF Take, faults
    <2>2. loop' # "down"
        BY <1>3, <2>1, TakeCases
    <2>3. ASSUME crashes + stops = 0
          PROVE position' \in Malformed \/ task'[position'] # "none"
        <3>1. ~stop
            BY <2>1, <2>3 DEF StopCounted
        <3>2. position' \in 1..N
            BY <2>1
        <3>3. CASE position' \in Malformed
            BY <3>3
        <3>4. CASE position' \notin Malformed
            BY <1>3, <3>1, <3>2, <3>4 DEF Take, Becomes
        <3> QED BY <3>3, <3>4
    <2>4. \A m \in Messages : task'[m] = task[m] \/ task'[m] = "waiting"
        BY <1>3, TakeCases DEF Becomes
    <2> QED BY <2>1, <2>2, <2>3, <2>4
<1>4. CASE Signal
    BY <1>4 DEF Signal
<1>5. CASE Exit
    BY <1>5 DEF Exit, faults, DrainingStopped, StopCounted
<1>6. CASE Crash
    BY <1>6 DEF Crash
<1>7. ASSUME NEW m \in Messages,
             Acquire(m) \/ Settle(m) \/ Commit(m) \/ DeliveryRaises(m) \/ CommitFails(m)
      PROVE TakenAccounted'
    <2>1. UNCHANGED <<position, loop, crashes, stops>>
        BY <1>7 DEF Acquire, Settle, Commit, DeliveryRaises, CommitFails, faults
    <2>2. Alive
        BY <1>7 DEF Acquire, Settle, Commit, DeliveryRaises, CommitFails, TasksTaken
    <2>3. \A n \in Messages : n # m => task'[n] = task[n]
        BY <1>7 DEF Acquire, Settle, Commit, DeliveryRaises, CommitFails, Becomes
    <2>4. settled \subseteq settled' /\ raised \subseteq raised'
        BY <1>7 DEF Acquire, Settle, Commit, DeliveryRaises, CommitFails
    <2>5. m \in settled' \cup raised' \/ task'[m] # "none"
        BY <1>7 DEF Acquire, Settle, Commit, DeliveryRaises, CommitFails, Becomes,
                    CommittingSettled
    <2>6. \A n \in 1..position : n \in Messages
        BY DEF OffsetsOrdered
    <2> QED BY <2>1, <2>2, <2>3, <2>4, <2>5, <2>6
<1>8. CASE UNCHANGED vars
    BY <1>8 DEF vars, faults
<1> QED BY NextCases, <1>1, <1>2, <1>3, <1>4, <1>5, <1>6, <1>7, <1>8

-----------------------------------------------------------------------------
(* The invariant holds in every reachable state. *)
THEOREM Invariance == Spec => []IInv
<1>1. Init => IInv
    <2> SUFFICES ASSUME Init PROVE IInv
        OBVIOUS
    <2> USE NAssumption, SemaphoreAssumption, BoundsAssumption
    <2>1. TypeOK
        <3>1. end \in 0..N /\ committed \in 0..N /\ position \in 0..N
            BY DEF Init
        <3>2. /\ crashes \in 0..MaxCrashes /\ stops \in 0..MaxStops
              /\ errors \in 0..MaxErrors
            BY DEF Init
        <3>3. /\ task \in [Messages -> {"none", "waiting", "running", "committing"}]
              /\ starts \in [Messages -> Nat]
            BY DEF Init
        <3>4. settled \subseteq Messages /\ raised \subseteq Messages /\ stop \in BOOLEAN
            BY DEF Init
        <3> QED BY <3>1, <3>2, <3>3, <3>4 DEF Init, TypeOK
    <2>2. SemaphoreHeld
        <3>1. Holders = {}
            BY DEF Init, Holders
        <3> QED BY <3>1, FS_EmptySet DEF SemaphoreHeld
    <2>3. OffsetsOrdered /\ TasksTaken /\ CommittingSettled /\ DrainingStopped
          /\ StartsPerRun /\ StopCounted /\ TakenAccounted
        BY DEF Init, OffsetsOrdered, TasksTaken, CommittingSettled, DrainingStopped,
               StartsPerRun, EndedRuns, StopCounted, TakenAccounted, Alive
    <2> QED BY <2>1, <2>2, <2>3 DEF IInv
<1>2. IInv /\ [Next]_vars => IInv'
    BY TypeStep, OffsetsStep, TasksStep, SemaphoreStep, StartsStep, AccountedStep DEF IInv
<1> QED BY <1>1, <1>2, PTL DEF Spec

(* Type correctness of the delivery worker's offsets, tasks and counters. *)
THEOREM TypeCorrect == Spec => []TypeOK
BY Invariance, PTL DEF IInv

(* run, _GLOBAL_SEMAPHORE: no more than SEMAPHORE deliveries run, tasks      *)
(* belong to messages taken by the living process, one per message and run. *)
THEOREM TasksAreBounded == Spec => []TasksBounded
<1>1. IInv => TasksBounded
    <2> SUFFICES ASSUME IInv PROVE TasksBounded
        OBVIOUS
    <2>1. ASSUME NEW m \in Messages PROVE starts[m] <= 1 + crashes + stops
        BY BoundsAssumption DEF IInv, TypeOK, StartsPerRun, EndedRuns
    <2> QED BY <2>1 DEF IInv, TasksBounded, SemaphoreHeld, TasksTaken, Alive
<1> QED BY <1>1, Invariance, PTL

(* handle_message, consumer.commit(): without a crash or a stop the offset   *)
(* passes no well-formed message whose delivery has neither ended nor raised *)
(* nor is still being worked on.                                             *)
THEOREM NothingElseLosesAMessage == Spec => []LostOnlyByFaults
<1>1. IInv => LostOnlyByFaults
    BY NAssumption DEF IInv, TypeOK, LostOnlyByFaults, TakenAccounted, OffsetsOrdered
<1> QED BY <1>1, Invariance, PTL

(* handle_message, consumer.commit(): no commit moves the group's offset    *)
(* back, whichever task makes it.                                            *)
THEOREM OffsetNeverGoesBack == Spec => OffsetMonotone
<1>1. IInv /\ [Next]_vars => [committed' >= committed]_committed
    <2> SUFFICES ASSUME IInv, [Next]_vars, committed' # committed
                 PROVE committed' >= committed
        OBVIOUS
    <2>1. PICK m \in Messages : Commit(m)
        BY NextCases DEF Produce, Start, Take, Signal, Exit, Crash, Acquire, Settle,
                         DeliveryRaises, CommitFails, vars
    <2>2. Alive /\ committed' = position
        BY <2>1 DEF Commit, IInv, TasksTaken
    <2> QED BY <2>2, NAssumption DEF IInv, TypeOK, OffsetsOrdered
<1> QED BY <1>1, Invariance, PTL DEF Spec, OffsetMonotone

-----------------------------------------------------------------------------
(* The two workers in a row. *)
(* The delivery worker of the composition (delivery_worker.run) behaves as  *)
(* DeliveryWorker says, so that its theorems hold here as well.             *)
THEOREM DeliveryPart == RelaySpec => Spec
<1>1. RelayInit => Init
    BY DEF RelayInit
<1>2. [RelayNext]_relayVars => [Next]_vars
    BY DEF RelayNext, RawProduce, TransformStep, TransformOnly, Forward, DeliveryStep,
           TransformFault, ForwardUnacknowledged, DeliveryFault, relayVars, Next
<1> QED BY <1>1, <1>2, PTL DEF RelaySpec, Spec

(* _GLOBAL_SEMAPHORE: no more deliveries run than it has permits, whatever  *)
(* the transform worker does.                                               *)
THEOREM TasksBoundedInRelay == RelaySpec => []TasksBounded
BY DeliveryPart, TasksAreBounded, PTL

(* consumer.commit(): before the delivery worker first crashes or stops, a  *)
(* message behind its offset was dealt with or still has its task.          *)
THEOREM LossesInRelay == RelaySpec => []LostOnlyByFaults
BY DeliveryPart, NothingElseLosesAMessage, PTL

(* Tasks that end in any order never move the delivery worker's offset back. *)
THEOREM OffsetInRelay == RelaySpec => OffsetMonotone
BY DeliveryPart, OffsetNeverGoesBack, PTL

(* The transform worker of the composition (transform_worker.run) behaves   *)
(* as TransformWorker says.                                                 *)
THEOREM TransformPart == RelaySpec => T!Spec
<1>1. RelayInit => T!Init
    BY DEF RelayInit
<1>2. [RelayNext]_relayVars => [T!Next]_(T!vars)
    BY DEF RelayNext, RawProduce, TransformStep, TransformOnly, Forward, DeliveryStep,
           TransformFault, ForwardUnacknowledged, DeliveryFault, relayVars, transformVars,
           T!Next, T!WorkerStep, T!vars, T!log, T!faults
<1> QED BY <1>1, <1>2, PTL DEF RelaySpec, T!Spec

-----------------------------------------------------------------------------
(* The transform worker. *)
TransformAlive == tLoop # "down"

(* The message in hand is behind neither offset. *)
RawOrdered ==
    /\ TransformAlive => rawCommitted <= rawPosition
    /\ tLoop \in {"looking", "dispatching", "committing"} => rawCommitted < rawPosition

(* A message without an event is never looked up. *)
Odd == RawMalformed \cup RawUnknown
OddUnselected ==
    /\ tLoop = "looking" => rawPosition \notin RawMalformed
    /\ \A m \in Odd : selected[m] = {}

(* The routes the loop has gone past, of messages it will not see again. *)
Behind(m) == m <= rawCommitted \/ (TransformAlive /\ m < rawPosition)
DoneWith(m, r) ==
    m = rawPosition /\ \/ tLoop = "committing"
                       \/ tLoop = "dispatching" /\ r \notin todo
Handled(m, r) ==
    Behind(m) \/ DoneWith(m, r) \/ (m = rawPosition /\ tLoop = "taking")

(* A route the loop has gone past has its message, unless a call raised. *)
HandledDispatched ==
    failures = 0 =>
        \A m \in T!Messages, r \in Routes :
            r \in selected[m] \cap passes[m] /\ Handled(m, r) => sent[m][r] > 0

(* Where a message may still be sent to r, each copy has had its fault. *)
CopiesExplained ==
    \A m \in T!Messages, r \in Routes :
        /\ sent[m][r] <= 1 + tCrashes + commitFailures
        /\ m > rawCommitted /\ ~DoneWith(m, r) => sent[m][r] <= tCrashes + commitFailures

(* As long as no call raised and no route was edited, a message past its    *)
(* lookup was looked up with every route.                                   *)
Looked(m) ==
    Behind(m) \/ (m = rawPosition /\ tLoop \in {"taking", "dispatching", "committing"})
LookupsComplete ==
    failures = 0 /\ edits = 0 =>
        /\ active = Routes
        /\ \A m \in T!Messages \ Odd : Looked(m) => selected[m] = Routes

(* The inductive invariant of the transform worker. *)
TInv ==
    /\ T!TypeOK
    /\ RawOrdered
    /\ OddUnselected
    /\ HandledDispatched
    /\ CopiesExplained
    /\ LookupsComplete

LEMMA TransformCases ==
    ASSUME [T!Next]_(T!vars)
    PROVE  \/ T!Produce \/ T!Start \/ T!Take \/ T!Lookup \/ T!LookupMisses
           \/ T!ProcessingRaises \/ T!Commit \/ T!CommitFails \/ T!Signal \/ T!Crash
           \/ \E r \in Routes : T!Dispatch(r) \/ T!SendUnacknowledged(r) \/ T!EditRoute(r)
           \/ UNCHANGED T!vars
BY DEF T!Next, T!WorkerStep

(* Every value stays in its type. *)
LEMMA TransformTypeStep == TInv /\ [T!Next]_(T!vars) => T!TypeOK'
<1> SUFFICES ASSUME TInv, [T!Next]_(T!vars) PROVE T!TypeOK'
    OBVIOUS
<1> USE RawAssumption, FaultsAssumption
<1>t. T!TypeOK
    BY DEF TInv
<1>1. ASSUME T!Produce PROVE T!TypeOK'
    BY <1>1, <1>t DEF T!TypeOK, T!Produce, T!faults
<1>2. ASSUME T!Start PROVE T!TypeOK'
    BY <1>2, <1>t DEF T!TypeOK, T!Start, T!faults
<1>3. ASSUME T!Take PROVE T!TypeOK'
    <2>1. rawPosition' \in 0..RawN
        BY <1>3, <1>t DEF T!TypeOK, T!Take
    <2>2. tLoop' \in {"down", "committing", "looking"}
        BY <1>3 DEF T!Take
    <2> QED BY <1>3, <1>t, <2>1, <2>2 DEF T!TypeOK, T!Take, T!faults
<1>4. ASSUME T!Lookup PROVE T!TypeOK'
    <2>1. selected' \in [T!Messages -> SUBSET Routes]
        BY <1>4, <1>t DEF T!TypeOK, T!Lookup
    <2>2. tLoop' \in {"committing", "dispatching"}
        BY <1>4 DEF T!Lookup
    <2> QED BY <1>4, <1>t, <2>1, <2>2 DEF T!TypeOK, T!Lookup, T!log, T!faults
<1>5. ASSUME T!LookupMisses PROVE T!TypeOK'
    BY <1>5, <1>t DEF T!TypeOK, T!LookupMisses, T!log, T!faults
<1>6. ASSUME T!ProcessingRaises PROVE T!TypeOK'
    BY <1>6, <1>t DEF T!TypeOK, T!ProcessingRaises, T!log
<1>7. ASSUME T!Commit PROVE T!TypeOK'
    BY <1>7, <1>t DEF T!TypeOK, T!Commit, T!faults
<1>8. ASSUME T!CommitFails PROVE T!TypeOK'
    BY <1>8, <1>t DEF T!TypeOK, T!CommitFails, T!log
<1>9. ASSUME T!Signal PROVE T!TypeOK'
    BY <1>9, <1>t DEF T!TypeOK, T!Signal, T!log
<1>10. ASSUME T!Crash PROVE T!TypeOK'
    BY <1>10, <1>t DEF T!TypeOK, T!Crash, T!log
<1>11. ASSUME NEW r \in Routes, T!Dispatch(r) \/ T!SendUnacknowledged(r) PROVE T!TypeOK'
    <2>1. sent' \in [T!Messages -> [Routes -> Nat]]
        <3>1. sent \in [T!Messages -> [Routes -> Nat]]
            BY <1>t DEF T!TypeOK
        <3>2. [sent EXCEPT ![rawPosition][r] = @ + 1] \in [T!Messages -> [Routes -> Nat]]
            <4>1. CASE rawPosition \in T!Messages
                <5>1. sent[rawPosition] \in [Routes -> Nat] /\ sent[rawPosition][r] \in Nat
                    BY <4>1, <3>1
                <5>2. [sent[rawPosition] EXCEPT ![r] = @ + 1] \in [Routes -> Nat]
                    BY <5>1
                <5> QED BY <3>1, <4>1, <5>2
            <4>2. CASE rawPosition \notin T!Messages
                BY <3>1, <4>2
            <4> QED BY <4>1, <4>2
        <3> QED BY <1>11, <3>1, <3>2 DEF T!Dispatch, T!SendUnacknowledged
    <2>2. tLoop' \in {"committing", "dispatching"}
        BY <1>11 DEF T!Dispatch, T!SendUnacknowledged, T!AfterRoute
    <2>3. failures' \in 0..MaxFaults
        BY <1>11, <1>t DEF T!TypeOK, T!Dispatch, T!SendUnacknowledged, T!faults
    <2>4. todo' \subseteq Routes
        BY <1>11, <1>t DEF T!TypeOK, T!Dispatch, T!SendUnacknowledged
    <2>5. UNCHANGED <<passes, T!log, tStop, active, selected, tCrashes, tStops,
                      commitFailures, edits>>
        BY <1>11 DEF T!Dispatch, T!SendUnacknowledged, T!log, T!faults
    <2> QED BY <1>t, <2>1, <2>2, <2>3, <2>4, <2>5 DEF T!TypeOK, T!log
<1>12. ASSUME NEW r \in Routes, T!EditRoute(r) PROVE T!TypeOK'
    BY <1>12, <1>t DEF T!TypeOK, T!EditRoute, T!log
<1>13. ASSUME UNCHANGED T!vars PROVE T!TypeOK'
    BY <1>13, <1>t DEF T!TypeOK, T!vars, T!log, T!faults
<1> QED
    BY TransformCases, <1>1, <1>2, <1>3, <1>4, <1>5, <1>6, <1>7, <1>8, <1>9, <1>10,
       <1>11, <1>12, <1>13

(* Start goes back to the offset, Take one further, a commit up to here. *)
LEMMA RawOrderedStep == TInv /\ [T!Next]_(T!vars) => RawOrdered'
<1> SUFFICES ASSUME TInv, [T!Next]_(T!vars) PROVE RawOrdered'
    OBVIOUS
<1>t. RawOrdered /\ T!TypeOK
    BY DEF TInv
<1>1. ASSUME T!Take PROVE RawOrdered'
    <2>1. rawPosition' = rawPosition + 1 /\ rawCommitted' = rawCommitted /\ tLoop = "taking"
        BY <1>1 DEF T!Take
    <2>2. rawCommitted \in Nat /\ rawPosition \in Nat /\ rawCommitted <= rawPosition
        BY <2>1, <1>t, RawAssumption DEF RawOrdered, T!TypeOK, TransformAlive
    <2>3. rawCommitted' < rawPosition' /\ rawCommitted' <= rawPosition'
        BY <2>1, <2>2
    <2> QED BY <2>3 DEF RawOrdered
<1>2. CASE T!Start \/ T!Commit \/ T!Crash
    <2>1. rawCommitted \in Nat /\ rawPosition \in Nat
        BY <1>t, RawAssumption DEF T!TypeOK
    <2>2. tLoop' \in {"taking", "down"}
        BY <1>2 DEF T!Start, T!Commit, T!Crash
    <2>3. tLoop' = "taking" => rawCommitted' = rawPosition'
        BY <1>2 DEF T!Start, T!Commit, T!Crash
    <2>4. rawCommitted' \in Nat
        BY <1>2, <2>1 DEF T!Start, T!Commit, T!Crash, T!log
    <2> QED BY <2>2, <2>3, <2>4 DEF RawOrdered, TransformAlive
<1>3. ASSUME rawCommitted' = rawCommitted, rawPosition' = rawPosition, tLoop # "down",
             tLoop \in {"looking", "dispatching", "committing"} \/ tLoop' = tLoop
      PROVE  RawOrdered'
    BY <1>3, <1>t, RawAssumption DEF RawOrdered, TransformAlive, T!TypeOK
<1>4. CASE T!Lookup \/ T!LookupMisses \/ T!ProcessingRaises \/ T!CommitFails \/ T!Signal
           \/ \E r \in Routes : T!Dispatch(r) \/ T!SendUnacknowledged(r)
    <2>1. /\ rawCommitted' = rawCommitted /\ rawPosition' = rawPosition /\ tLoop # "down"
          /\ tLoop \in {"looking", "dispatching", "committing"} \/ tLoop' = tLoop
        BY <1>4 DEF T!Lookup, T!LookupMisses, T!ProcessingRaises, T!CommitFails, T!Signal,
                    T!Dispatch, T!SendUnacknowledged, T!log
    <2> QED BY <2>1, <1>3
<1>5. ASSUME UNCHANGED <<rawCommitted, rawPosition, tLoop>> PROVE RawOrdered'
    BY <1>5, <1>t DEF RawOrdered, TransformAlive
<1> QED
    BY TransformCases, <1>1, <1>2, <1>4, <1>5
    DEF T!Produce, T!EditRoute, T!vars, T!log

(* Take sends a malformed message past the lookup, LookupMisses an unknown  *)
(* one.                                                                     *)
LEMMA OddStep == TInv /\ [T!Next]_(T!vars) => OddUnselected'
<1> SUFFICES ASSUME TInv, [T!Next]_(T!vars) PROVE OddUnselected'
    OBVIOUS
<1>t. OddUnselected /\ T!TypeOK
    BY DEF TInv
<1>1. CASE T!Lookup
    <2>1. rawPosition \notin Odd
        BY <1>1, <1>t DEF T!Lookup, Odd, OddUnselected
    <2>2. \A m \in Odd : selected'[m] = {}
        BY <1>1, <1>t, <2>1 DEF T!Lookup, OddUnselected, T!TypeOK
    <2> QED BY <1>1, <2>2 DEF OddUnselected, T!Lookup
<1>2. CASE T!Take
    BY <1>2, <1>t DEF T!Take, OddUnselected
<1>3. CASE ~T!Lookup /\ ~T!Take
    BY <1>3, <1>t, TransformCases
    DEF OddUnselected, T!Produce, T!Start, T!LookupMisses, T!ProcessingRaises, T!Commit,
        T!CommitFails, T!Signal, T!Crash, T!Dispatch, T!SendUnacknowledged, T!AfterRoute,
        T!EditRoute, T!vars, T!log
<1> QED BY <1>1, <1>2, <1>3

(* A send puts the message there before its route is passed; the other ways *)
(* to get past one are a malformed or unknown message and a failure.        *)
LEMMA HandledStep == TInv /\ [T!Next]_(T!vars) => HandledDispatched'
<1> SUFFICES ASSUME TInv, [T!Next]_(T!vars), failures' = 0,
                    NEW m \in T!Messages, NEW r \in Routes,
                    r \in selected'[m] \cap passes'[m], Handled(m, r)'
             PROVE  sent'[m][r] > 0
    BY DEF HandledDispatched, T!Messages
<1> USE RawAssumption
<1>t. T!TypeOK /\ RawOrdered /\ OddUnselected
    BY DEF TInv
<1>a. ASSUME failures = 0, r \in selected[m] \cap passes[m], Handled(m, r)
      PROVE  sent[m][r] > 0
    BY <1>a DEF TInv, HandledDispatched
<1>n. /\ m \in 1..RawN /\ rawPosition \in 0..RawN /\ rawCommitted \in 0..RawN
      /\ failures \in Nat /\ sent[m][r] \in Nat
    BY <1>t DEF T!TypeOK, T!Messages
<1>1. CASE T!Take
    <2>1. /\ failures = 0 /\ selected' = selected /\ passes' = passes /\ sent' = sent
          /\ rawCommitted' = rawCommitted /\ rawPosition' = rawPosition + 1
          /\ tLoop = "taking" /\ tLoop' \in {"down", "committing", "looking"}
        BY <1>1 DEF T!Take, T!faults
    <2>2. rawPosition' = m /\ tLoop' = "committing" => m \in Odd
        BY <1>1 DEF T!Take, Odd
    <2>3. ~(rawPosition' = m /\ tLoop' = "committing")
        BY <2>1, <2>2, <1>t DEF OddUnselected
    <2>4. Behind(m)'
        BY <2>1, <2>3 DEF Handled, DoneWith
    <2>5. Handled(m, r)
        BY <2>1, <2>4, <1>n DEF Handled, Behind, TransformAlive
    <2> QED BY <1>a, <2>1, <2>5
<1>2. CASE T!Lookup
    <2>1. /\ failures = 0 /\ passes' = passes /\ sent' = sent
          /\ rawCommitted' = rawCommitted /\ rawPosition' = rawPosition
          /\ tLoop = "looking" /\ selected' = [selected EXCEPT ![rawPosition] = active]
          /\ todo' = active
          /\ active # {} => tLoop' = "dispatching"
          /\ tLoop' \in {"committing", "dispatching"}
        BY <1>2 DEF T!Lookup, T!log, T!faults
    <2>2. m # rawPosition
        <3> SUFFICES ASSUME m = rawPosition PROVE FALSE
            OBVIOUS
        <3>1. selected'[m] = active
            BY <2>1, <1>t DEF T!TypeOK
        <3>2. r \in todo' /\ tLoop' = "dispatching"
            BY <2>1, <3>1
        <3>3. rawCommitted < rawPosition
            BY <2>1, <1>t DEF RawOrdered
        <3> QED BY <2>1, <3>2, <3>3, <1>n DEF Handled, Behind, DoneWith
    <2>3. selected'[m] = selected[m] /\ Handled(m, r)
        BY <2>1, <2>2, <1>t DEF T!TypeOK, Handled, Behind, DoneWith, TransformAlive
    <2> QED BY <1>a, <2>1, <2>3
<1>3. CASE T!LookupMisses
    <2>1. /\ failures = 0 /\ selected' = selected /\ passes' = passes /\ sent' = sent
          /\ rawCommitted' = rawCommitted /\ rawPosition' = rawPosition
          /\ tLoop = "looking" /\ tLoop' = "committing" /\ rawPosition \in RawUnknown
        BY <1>3 DEF T!LookupMisses, T!log, T!faults
    <2>2. m # rawPosition
        BY <2>1, <1>t DEF OddUnselected, Odd
    <2>3. Handled(m, r)
        BY <2>1, <2>2 DEF Handled, Behind, DoneWith, TransformAlive
    <2> QED BY <1>a, <2>1, <2>3
<1>4. ASSUME NEW x \in Routes, T!Dispatch(x) PROVE sent'[m][r] > 0
    <2>1. /\ failures = 0 /\ selected' = selected /\ passes' = passes
          /\ rawCommitted' = rawCommitted /\ rawPosition' = rawPosition
          /\ tLoop = "dispatching" /\ tLoop' \in {"dispatching", "committing"}
          /\ todo' = todo \ {x} /\ (tLoop' = "committing" => todo = {x})
        BY <1>4 DEF T!Dispatch, T!AfterRoute, T!log, T!faults
    <2>2. CASE m = rawPosition /\ r = x
        <3>1. sent' = [sent EXCEPT ![m][r] = @ + 1]
            BY <1>4, <2>1, <2>2 DEF T!Dispatch
        <3>2. sent'[m][r] = sent[m][r] + 1
            BY <3>1, <1>t DEF T!TypeOK
        <3> QED BY <3>2, <1>n
    <2>3. CASE ~(m = rawPosition /\ r = x)
        <3>1. sent'[m][r] = sent[m][r]
            BY <1>4, <2>3, <1>t DEF T!Dispatch, T!TypeOK
        <3>2. Handled(m, r)
            BY <2>1, <2>3 DEF Handled, Behind, DoneWith, TransformAlive
        <3> QED BY <1>a, <2>1, <3>1, <3>2
    <2> QED BY <2>2, <2>3
<1>5. CASE T!ProcessingRaises \/ \E x \in Routes : T!SendUnacknowledged(x)
    BY <1>5, <1>n DEF T!ProcessingRaises, T!SendUnacknowledged
<1>6. CASE T!Commit
    <2>1. /\ failures = 0 /\ selected' = selected /\ passes' = passes /\ sent' = sent
          /\ rawCommitted' = rawPosition /\ rawPosition' = rawPosition
          /\ tLoop = "committing" /\ tLoop' = "taking"
        BY <1>6 DEF T!Commit, T!faults
    <2>2. Handled(m, r)
        BY <2>1, <1>n DEF Handled, Behind, DoneWith, TransformAlive
    <2> QED BY <1>a, <2>1, <2>2
<1>7. CASE T!CommitFails
    <2>1. /\ failures = 0 /\ selected' = selected /\ passes' = passes /\ sent' = sent
          /\ rawCommitted' = rawCommitted /\ rawPosition' = rawPosition
          /\ tLoop = "committing" /\ tLoop' = "taking"
        BY <1>7 DEF T!CommitFails, T!log
    <2>2. Handled(m, r)
        BY <2>1, <1>n DEF Handled, Behind, DoneWith, TransformAlive
    <2> QED BY <1>a, <2>1, <2>2
<1>8. CASE T!Start
    <2>1. /\ failures = 0 /\ selected' = selected /\ passes' = passes /\ sent' = sent
          /\ rawCommitted' = rawCommitted /\ rawPosition' = rawCommitted
          /\ tLoop' = "taking"
        BY <1>8 DEF T!Start, T!faults
    <2>2. Handled(m, r)
        BY <2>1, <1>n DEF Handled, Behind, DoneWith
    <2> QED BY <1>a, <2>1, <2>2
<1>9. CASE T!Crash
    <2>1. /\ failures = 0 /\ selected' = selected /\ passes' = passes /\ sent' = sent
          /\ rawCommitted' = rawCommitted /\ rawPosition' = rawPosition
          /\ tLoop' = "down"
        BY <1>9 DEF T!Crash, T!log
    <2>2. Handled(m, r)
        BY <2>1 DEF Handled, Behind, DoneWith, TransformAlive
    <2> QED BY <1>a, <2>1, <2>2
<1>10. ASSUME UNCHANGED <<failures, selected, passes, sent, rawCommitted, rawPosition,
                          tLoop, todo>>
       PROVE  sent'[m][r] > 0
    <2>1. Handled(m, r)
        BY <1>10 DEF Handled, Behind, DoneWith, TransformAlive
    <2> QED BY <1>a, <1>10, <2>1
<1> QED
    BY TransformCases, <1>1, <1>2, <1>3, <1>4, <1>5, <1>6, <1>7, <1>8, <1>9, <1>10
    DEF T!Produce, T!Signal, T!EditRoute, T!vars, T!log, T!faults

(* Only a route still ahead in the message in hand gets one copy more; to   *)
(* put a message ahead again takes a crash or a commit that raised.         *)
LEMMA CopiesStep == TInv /\ [T!Next]_(T!vars) => CopiesExplained'
<1> SUFFICES ASSUME TInv, [T!Next]_(T!vars), NEW m \in T!Messages, NEW r \in Routes
             PROVE  /\ sent'[m][r] <= 1 + tCrashes' + commitFailures'
                    /\ m > rawCommitted' /\ ~DoneWith(m, r)' =>
                            sent'[m][r] <= tCrashes' + commitFailures'
    BY DEF CopiesExplained, T!Messages
<1> USE RawAssumption, FaultsAssumption
<1>t. T!TypeOK /\ RawOrdered
    BY DEF TInv
<1>a. /\ sent[m][r] <= 1 + tCrashes + commitFailures
      /\ m > rawCommitted /\ ~DoneWith(m, r) => sent[m][r] <= tCrashes + commitFailures
    BY DEF TInv, CopiesExplained
<1>n. /\ m \in 1..RawN /\ rawPosition \in 0..RawN /\ rawCommitted \in 0..RawN
      /\ tCrashes \in Nat /\ commitFailures \in Nat /\ sent[m][r] \in Nat
    BY <1>t DEF T!TypeOK, T!Messages
<1>1. ASSUME NEW x \in Routes, T!Dispatch(x) \/ T!SendUnacknowledged(x)
      PROVE  /\ sent'[m][r] <= 1 + tCrashes' + commitFailures'
             /\ m > rawCommitted' /\ ~DoneWith(m, r)' =>
                     sent'[m][r] <= tCrashes' + commitFailures'
    <2>1. /\ tCrashes' = tCrashes /\ commitFailures' = commitFailures
          /\ rawCommitted' = rawCommitted /\ rawPosition' = rawPosition
          /\ tLoop = "dispatching" /\ tLoop' \in {"dispatching", "committing"}
          /\ x \in todo /\ x \notin todo' /\ todo' \subseteq todo
        BY <1>1 DEF T!Dispatch, T!SendUnacknowledged, T!AfterRoute, T!log, T!faults
    <2>2. CASE m = rawPosition /\ r = x
        <3>1. sent'[m][r] <= sent[m][r] + 1 /\ sent'[m][r] \in Nat
            <4>1. sent' = sent \/ sent' = [sent EXCEPT ![m][r] = @ + 1]
                BY <1>1, <2>2 DEF T!Dispatch, T!SendUnacknowledged
            <4>2. sent \in [T!Messages -> [Routes -> Nat]]
                BY <1>t DEF T!TypeOK
            <4> QED BY <4>1, <4>2, <1>n
        <3>2. m > rawCommitted /\ ~DoneWith(m, r)
            BY <2>1, <2>2, <1>t, <1>n DEF RawOrdered, DoneWith
        <3>3. DoneWith(m, r)'
            BY <2>1, <2>2 DEF DoneWith
        <3> QED BY <2>1, <3>1, <3>2, <3>3, <1>a, <1>n
    <2>3. CASE ~(m = rawPosition /\ r = x)
        <3>1. sent'[m][r] = sent[m][r]
            BY <1>1, <2>3, <1>t DEF T!Dispatch, T!SendUnacknowledged, T!TypeOK
        <3>2. DoneWith(m, r) => DoneWith(m, r)'
            BY <2>1 DEF DoneWith
        <3> QED BY <2>1, <3>1, <3>2, <1>a
    <2> QED BY <2>2, <2>3
<1>2. ASSUME T!Take \/ T!Lookup \/ T!LookupMisses \/ T!Start \/ T!Commit
      PROVE  /\ sent'[m][r] <= 1 + tCrashes' + commitFailures'
             /\ m > rawCommitted' /\ ~DoneWith(m, r)' =>
                     sent'[m][r] <= tCrashes' + commitFailures'
    <2>1. sent' = sent /\ tCrashes' = tCrashes /\ commitFailures' = commitFailures
        BY <1>2 DEF T!Take, T!Lookup, T!LookupMisses, T!Start, T!Commit, T!faults
    <2>2. m > rawCommitted' => m > rawCommitted /\ ~DoneWith(m, r)
        BY <1>2, <1>t, <1>n DEF T!Take, T!Lookup, T!LookupMisses, T!Start, T!Commit, T!log,
               DoneWith, RawOrdered
    <2> QED BY <2>1, <2>2, <1>a
<1>3. ASSUME T!CommitFails \/ T!Crash
      PROVE  /\ sent'[m][r] <= 1 + tCrashes' + commitFailures'
             /\ m > rawCommitted' /\ ~DoneWith(m, r)' =>
                     sent'[m][r] <= tCrashes' + commitFailures'
    BY <1>3, <1>a, <1>n DEF T!CommitFails, T!Crash
<1>4. CASE T!ProcessingRaises
    <2>1. /\ sent' = sent /\ tCrashes' = tCrashes /\ commitFailures' = commitFailures
          /\ rawCommitted' = rawCommitted /\ rawPosition' = rawPosition
          /\ tLoop' = "committing"
        BY <1>4 DEF T!ProcessingRaises, T!log
    <2>2. DoneWith(m, r) => DoneWith(m, r)'
        BY <2>1 DEF DoneWith
    <2> QED BY <2>1, <2>2, <1>a
<1>5. ASSUME UNCHANGED <<sent, tCrashes, commitFailures, rawCommitted, rawPosition,
                         tLoop, todo>>
      PROVE  /\ sent'[m][r] <= 1 + tCrashes' + commitFailures'
             /\ m > rawCommitted' /\ ~DoneWith(m, r)' =>
                     sent'[m][r] <= tCrashes' + commitFailures'
    BY <1>5, <1>a DEF DoneWith
<1> QED
    BY TransformCases, <1>1, <1>2, <1>3, <1>4, <1>5
    DEF T!Produce, T!Signal, T!EditRoute, T!vars, T!log, T!faults

(* Between a lookup and the commit nothing changes what was selected. *)
LEMMA LookupsStep == TInv /\ [T!Next]_(T!vars) => LookupsComplete'
<1> SUFFICES ASSUME TInv, [T!Next]_(T!vars), failures' = 0, edits' = 0
             PROVE  /\ active' = Routes
                    /\ \A m \in T!Messages \ Odd : Looked(m)' => selected'[m] = Routes
    BY DEF LookupsComplete, T!Messages, Odd
<1> USE RawAssumption, FaultsAssumption
<1>t. T!TypeOK /\ RawOrdered
    BY DEF TInv
<1>n. /\ rawPosition \in 0..RawN /\ rawCommitted \in 0..RawN
      /\ failures \in Nat /\ edits \in Nat
    BY <1>t DEF T!TypeOK
<1>e. CASE \E r \in Routes : T!EditRoute(r)
    BY <1>e, <1>n DEF T!EditRoute
<1>p. CASE T!ProcessingRaises \/ \E r \in Routes : T!SendUnacknowledged(r)
    BY <1>p, <1>n DEF T!ProcessingRaises, T!SendUnacknowledged
<1>o. ASSUME ~(\E r \in Routes : T!EditRoute(r)), ~T!ProcessingRaises,
             ~(\E r \in Routes : T!SendUnacknowledged(r))
      PROVE  failures = 0 /\ edits = 0 /\ active' = active
    BY <1>o, TransformCases
    DEF T!Produce, T!Start, T!Take, T!Lookup, T!LookupMisses, T!Commit, T!CommitFails,
        T!Signal, T!Crash, T!Dispatch, T!vars, T!faults
<1>a. ASSUME failures = 0, edits = 0
      PROVE  /\ active = Routes
             /\ \A m \in T!Messages \ Odd : Looked(m) => selected[m] = Routes
    BY <1>a DEF TInv, LookupsComplete
<1>1. CASE T!Lookup
    <2>1. /\ selected' = [selected EXCEPT ![rawPosition] = active]
          /\ rawCommitted' = rawCommitted /\ rawPosition' = rawPosition /\ tLoop = "looking"
          /\ failures = 0 /\ edits = 0 /\ active' = active /\ tLoop' # "down"
        BY <1>1 DEF T!Lookup, T!log, T!faults
    <2>2. ASSUME NEW m \in T!Messages \ Odd, Looked(m)' PROVE selected'[m] = Routes
        <3>1. CASE m = rawPosition
            BY <2>1, <3>1, <1>a, <1>t DEF T!TypeOK
        <3>2. CASE m # rawPosition
            <4>1. Looked(m)
                BY <2>1, <2>2, <3>2 DEF Looked, Behind, TransformAlive
            <4> QED BY <2>1, <3>2, <4>1, <1>a, <1>t DEF T!TypeOK
        <3> QED BY <3>1, <3>2
    <2> QED BY <2>1, <2>2, <1>a
<1>2. CASE T!Take
    <2>1. /\ selected' = selected /\ rawCommitted' = rawCommitted
          /\ rawPosition' = rawPosition + 1 /\ tLoop = "taking"
          /\ failures = 0 /\ edits = 0 /\ active' = active
          /\ tLoop' \in {"down", "committing", "looking"}
        BY <1>2 DEF T!Take, T!faults
    <2>2. tLoop' = "committing" => rawPosition' \in Odd
        BY <1>2 DEF T!Take, Odd
    <2>3. ASSUME NEW m \in T!Messages \ Odd, Looked(m)' PROVE Looked(m)
        <3>1. m \in 1..RawN
            BY DEF T!Messages
        <3>2. Behind(m)'
            BY <2>1, <2>2, <2>3 DEF Looked
        <3> QED BY <2>1, <3>1, <3>2, <1>n DEF Looked, Behind, TransformAlive
    <2> QED BY <2>1, <2>3, <1>a
<1>3. CASE T!LookupMisses
    <2>1. /\ selected' = selected /\ rawCommitted' = rawCommitted
          /\ rawPosition' = rawPosition /\ tLoop = "looking" /\ rawPosition \in Odd
          /\ failures = 0 /\ edits = 0 /\ active' = active
        BY <1>3 DEF T!LookupMisses, T!log, T!faults, Odd
    <2>2. ASSUME NEW m \in T!Messages \ Odd, Looked(m)' PROVE Looked(m)
        BY <2>1, <2>2 DEF Looked, Behind, TransformAlive
    <2> QED BY <2>1, <2>2, <1>a
<1>4. CASE T!Start \/ T!Crash
    <2>1. /\ selected' = selected /\ rawCommitted' = rawCommitted
          /\ tLoop' = "taking" => rawPosition' = rawCommitted
          /\ tLoop' \in {"taking", "down"}
          /\ failures = 0 /\ edits = 0 /\ active' = active
        BY <1>4 DEF T!Start, T!Crash, T!log, T!faults
    <2>2. ASSUME NEW m \in T!Messages \ Odd, Looked(m)' PROVE Looked(m)
        <3>1. m \in 1..RawN
            BY DEF T!Messages
        <3> QED BY <2>1, <2>2, <3>1, <1>n DEF Looked, Behind, TransformAlive
    <2> QED BY <2>1, <2>2, <1>a
<1>5. CASE T!Commit \/ T!CommitFails \/ \E r \in Routes : T!Dispatch(r)
    <2>1. /\ selected' = selected /\ rawCommitted' \in {rawCommitted, rawPosition}
          /\ rawPosition' = rawPosition
          /\ tLoop \in {"dispatching", "committing"}
          /\ failures = 0 /\ edits = 0 /\ active' = active
        BY <1>5 DEF T!Commit, T!CommitFails, T!Dispatch, T!log, T!faults
    <2>2. ASSUME NEW m \in T!Messages \ Odd, Looked(m)' PROVE Looked(m)
        <3>1. m \in 1..RawN
            BY DEF T!Messages
        <3> QED BY <2>1, <2>2, <3>1, <1>n DEF Looked, Behind, TransformAlive
    <2> QED BY <2>1, <2>2, <1>a
<1>6. ASSUME UNCHANGED <<selected, rawCommitted, rawPosition, tLoop, failures, edits, active>>
      PROVE  /\ active' = Routes
             /\ \A m \in T!Messages \ Odd : Looked(m)' => selected'[m] = Routes
    <2>1. ASSUME NEW m \in T!Messages \ Odd PROVE Looked(m)' <=> Looked(m)
        BY <1>6 DEF Looked, Behind, TransformAlive
    <2> QED BY <1>6, <2>1, <1>a
<1> QED
    BY TransformCases, <1>e, <1>p, <1>1, <1>2, <1>3, <1>4, <1>5, <1>6
    DEF T!Produce, T!Signal, T!vars, T!log, T!faults

(* TInv holds of every reachable state of the workers. *)
THEOREM TransformInvariance == RelaySpec => []TInv
<1>1. T!Init => TInv
    <2> SUFFICES ASSUME T!Init PROVE TInv
        OBVIOUS
    <2>1. T!TypeOK
        <3>1. selected \in [T!Messages -> SUBSET Routes]
            BY DEF T!Init
        <3>2. sent \in [T!Messages -> [Routes -> Nat]]
            BY DEF T!Init
        <3>3. passes \in [T!Messages -> SUBSET Routes] /\ active \subseteq Routes
            BY DEF T!Init
        <3>4. /\ 0 \in 0..RawN /\ 0 \in 0..MaxFaults
            BY RawAssumption, FaultsAssumption
        <3> QED BY <3>1, <3>2, <3>3, <3>4 DEF T!Init, T!TypeOK
    <2>2. RawOrdered /\ OddUnselected /\ HandledDispatched /\ CopiesExplained
          /\ LookupsComplete
        BY RawAssumption
        DEF T!Init, RawOrdered, TransformAlive, OddUnselected, Odd, HandledDispatched,
            CopiesExplained, LookupsComplete, Looked, Behind, T!Messages
    <2> QED BY <2>1, <2>2 DEF TInv
<1>2. TInv /\ [T!Next]_(T!vars) => TInv'
    BY TransformTypeStep, RawOrderedStep, OddStep, HandledStep, CopiesStep, LookupsStep
    DEF TInv
<1> QED BY <1>1, <1>2, TransformPart, PTL DEF T!Spec

(* _handle_message: unless a call raised, no offset passes a message before *)
(* each route it was looked up with has its own, whatever crashes there are. *)
THEOREM DispatchPrecedesCommit == RelaySpec => []DispatchedBeforeCommit
<1>1. TInv => DispatchedBeforeCommit
    BY RawAssumption
    DEF TInv, HandledDispatched, Handled, Behind, DispatchedBeforeCommit,
        T!DispatchedBeforeCommit, T!TypeOK, T!Messages
<1> QED BY <1>1, TransformInvariance, PTL

-----------------------------------------------------------------------------
(* Both workers and the topic between them. *)
TopicTyped == topic \in Seq((1..RawN) \X Routes) /\ Len(topic) = end

(* The transform worker's history of its sends is what is in the topic. *)
TopicCounted ==
    \A p \in (1..RawN) \X Routes : sent[p[1]][p[2]] = Cardinality(CopiesOf(p))

(* What has been delivered was in the topic, and only an error raises. *)
SettledInTopic == settled \subseteq 1..end
RaisedCounted == errors = 0 => raised = {}

RInv ==
    /\ passes = Passes
    /\ TopicTyped
    /\ TopicCounted
    /\ SettledInTopic
    /\ RaisedCounted

(* A step writes one message for the route and message in hand, or none. *)
LEMMA TopicCases ==
    ASSUME TInv, [RelayNext]_relayVars
    PROVE  \/ \E r \in Routes :
                /\ rawPosition \in 1..RawN /\ rawCommitted < rawPosition
                /\ end' = end + 1
                /\ topic' = Append(topic, <<rawPosition, r>>)
                /\ sent' = [sent EXCEPT ![rawPosition][r] = @ + 1]
           \/ UNCHANGED <<end, topic, sent>>
<1>1. ASSUME NEW r \in Routes, Forward(r), r \in passes[rawPosition]
      PROVE  /\ rawPosition \in 1..RawN /\ rawCommitted < rawPosition
             /\ end' = end + 1
             /\ topic' = Append(topic, <<rawPosition, r>>)
             /\ sent' = [sent EXCEPT ![rawPosition][r] = @ + 1]
    <2>1. rawCommitted < rawPosition
        BY <1>1 DEF Forward, T!Dispatch, TInv, RawOrdered
    <2>2. rawPosition \in 1..RawN
        BY <2>1, RawAssumption DEF TInv, T!TypeOK
    <2> QED BY <1>1, <2>1, <2>2 DEF Forward, T!Dispatch, Produce
<1>2. ASSUME NEW r \in Routes, Forward(r), r \notin passes[rawPosition]
      PROVE  UNCHANGED <<end, topic, sent>>
    BY <1>2 DEF Forward, T!Dispatch, vars
<1>3. CASE RawProduce
    BY <1>3 DEF RawProduce, T!Produce, vars
<1>4. CASE TransformOnly
    BY <1>4 DEF TransformOnly, T!Start, T!Take, T!Lookup, T!LookupMisses, T!Commit, vars
<1>5. CASE DeliveryStep
    BY <1>5 DEF DeliveryStep, Start, Take, Exit, TaskStep, Acquire, Settle, Commit,
                transformVars
<1>6. CASE TransformFault
    BY <1>6 DEF TransformFault, T!ProcessingRaises, T!CommitFails, T!Signal, T!Crash,
                T!EditRoute, vars
<1>7. CASE DeliveryFault
    BY <1>7 DEF DeliveryFault, DeliveryRaises, CommitFails, Signal, Crash, transformVars
<1>8. CASE UNCHANGED relayVars
    BY <1>8 DEF relayVars, transformVars, vars
<1>9. ASSUME NEW r \in Routes, ForwardUnacknowledged(r)
      PROVE  /\ rawPosition \in 1..RawN /\ rawCommitted < rawPosition
             /\ end' = end + 1
             /\ topic' = Append(topic, <<rawPosition, r>>)
             /\ sent' = [sent EXCEPT ![rawPosition][r] = @ + 1]
    <2>1. rawCommitted < rawPosition
        BY <1>9 DEF ForwardUnacknowledged, T!SendUnacknowledged, TInv, RawOrdered
    <2>2. rawPosition \in 1..RawN
        BY <2>1, RawAssumption DEF TInv, T!TypeOK
    <2> QED BY <1>9, <2>1, <2>2 DEF ForwardUnacknowledged, T!SendUnacknowledged, Produce
<1> QED
    BY <1>1, <1>2, <1>3, <1>4, <1>5, <1>6, <1>7, <1>8, <1>9 DEF RelayNext, TransformStep

(* The copies of a pair are positions of the topic, finitely many. *)
LEMMA CopiesFinite ==
    ASSUME IInv, NEW p \in (1..RawN) \X Routes
    PROVE  IsFiniteSet(CopiesOf(p)) /\ CopiesOf(p) \subseteq 1..end
<1>1. IsFiniteSet(1..end)
    BY FS_Interval, NAssumption DEF IInv, TypeOK
<1>2. CopiesOf(p) \subseteq 1..end
    BY DEF CopiesOf
<1> QED BY <1>1, <1>2, FS_Subset

(* What a new message does to the copies of a pair. *)
LEMMA CopiesGrow ==
    ASSUME IInv, RInv, NEW r \in Routes, rawPosition \in 1..RawN, end' = end + 1,
           topic' = Append(topic, <<rawPosition, r>>), NEW p \in (1..RawN) \X Routes
    PROVE  /\ p = <<rawPosition, r>> => CopiesOf(p)' = CopiesOf(p) \cup {end + 1}
           /\ p # <<rawPosition, r>> => CopiesOf(p)' = CopiesOf(p)
           /\ end + 1 \notin 1..end
<1>1. end \in Nat /\ Len(topic) = end /\ topic \in Seq((1..RawN) \X Routes)
    BY NAssumption DEF IInv, TypeOK, RInv, TopicTyped
<1>2. topic'[end + 1] = <<rawPosition, r>>
    BY <1>1
<1>3. \A i \in 1..end : topic'[i] = topic[i]
    BY <1>1
<1>4. 1..end' = (1..end) \cup {end + 1} /\ end + 1 \notin 1..end
    BY <1>1
<1>5. CopiesOf(p)' = {i \in (1..end) \cup {end + 1} : topic'[i] = p}
    BY <1>4 DEF CopiesOf
<1> QED BY <1>2, <1>3, <1>4, <1>5 DEF CopiesOf

LEMMA TopicStep == IInv /\ TInv /\ RInv /\ [RelayNext]_relayVars
                        => TopicTyped' /\ TopicCounted'
<1> SUFFICES ASSUME IInv, TInv, RInv, [RelayNext]_relayVars
             PROVE  TopicTyped' /\ TopicCounted'
    OBVIOUS
<1> USE RawAssumption
<1>e. end \in Nat
    BY NAssumption DEF IInv, TypeOK
<1>1. CASE UNCHANGED <<end, topic, sent>>
    BY <1>1 DEF RInv, TopicTyped, TopicCounted, CopiesOf
<1>2. ASSUME NEW r \in Routes, rawPosition \in 1..RawN, end' = end + 1,
             topic' = Append(topic, <<rawPosition, r>>),
             sent' = [sent EXCEPT ![rawPosition][r] = @ + 1]
      PROVE  TopicTyped' /\ TopicCounted'
    <2>1. TopicTyped'
        <3>1. <<rawPosition, r>> \in (1..RawN) \X Routes
            BY <1>2
        <3> QED BY <1>2, <3>1, <1>e DEF RInv, TopicTyped
    <2>2. ASSUME NEW p \in (1..RawN) \X Routes
          PROVE  sent'[p[1]][p[2]] = Cardinality(CopiesOf(p)')
        <3>t. /\ sent \in [1..RawN -> [Routes -> Nat]]
              /\ sent[p[1]][p[2]] = Cardinality(CopiesOf(p))
              /\ p[1] \in 1..RawN /\ p[2] \in Routes /\ p = <<p[1], p[2]>>
            BY DEF TInv, T!TypeOK, T!Messages, RInv, TopicCounted
        <3>1. CASE p = <<rawPosition, r>>
            <4>1. sent'[p[1]][p[2]] = sent[p[1]][p[2]] + 1
                BY <1>2, <3>1, <3>t
            <4>2. Cardinality(CopiesOf(p) \cup {end + 1}) = Cardinality(CopiesOf(p)) + 1
                BY <1>2, CopiesGrow, CopiesFinite, FS_AddElement
            <4> QED BY <1>2, <3>1, <3>t, <4>1, <4>2, CopiesGrow
        <3>2. CASE p # <<rawPosition, r>>
            <4>1. sent'[p[1]][p[2]] = sent[p[1]][p[2]]
                BY <1>2, <3>2, <3>t
            <4> QED BY <1>2, <3>2, <3>t, <4>1, CopiesGrow
        <3> QED BY <3>1, <3>2
    <2>3. TopicCounted'
        BY <2>2 DEF TopicCounted
    <2> QED BY <2>1, <2>3
<1> QED BY <1>1, <1>2, TopicCases

LEMMA RelayInvStep == IInv /\ TInv /\ RInv /\ [RelayNext]_relayVars => RInv'
<1> SUFFICES ASSUME IInv, TInv, RInv, [RelayNext]_relayVars PROVE RInv'
    OBVIOUS
<1>n. [Next]_vars /\ [T!Next]_(T!vars)
    BY DEF RelayNext, RawProduce, TransformStep, TransformOnly, Forward, DeliveryStep,
           TransformFault, ForwardUnacknowledged, DeliveryFault, relayVars, transformVars,
           Next, T!Next, T!WorkerStep, T!vars, T!log, T!faults
<1>1. passes' = passes
    BY <1>n, TransformCases
    DEF T!Produce, T!Start, T!Take, T!Lookup, T!LookupMisses, T!ProcessingRaises, T!Commit,
        T!CommitFails, T!Signal, T!Crash, T!Dispatch, T!SendUnacknowledged, T!EditRoute,
        T!vars
<1>2. SettledInTopic'
    <2>1. 1..end \subseteq 1..end'
        <3>1. end' = end \/ end' = end + 1
            BY <1>n, NextCases
            DEF Produce, Start, Take, Signal, Exit, Crash, Acquire, Settle, Commit,
                DeliveryRaises, CommitFails, vars
        <3>2. end \in Nat
            BY NAssumption DEF IInv, TypeOK
        <3> QED BY <3>1, <3>2
    <2>2. ASSUME NEW m \in Messages, Settle(m) PROVE m \in 1..end
        BY <2>2, NAssumption
        DEF Settle, IInv, TypeOK, OffsetsOrdered, TasksTaken, Messages
    <2>3. \/ settled' = settled
          \/ \E m \in Messages : Settle(m) /\ settled' = settled \cup {m}
        BY <1>n, NextCases
        DEF Produce, Start, Take, Signal, Exit, Crash, Acquire, Settle, Commit,
            DeliveryRaises, CommitFails, vars
    <2> QED BY <2>1, <2>2, <2>3 DEF RInv, SettledInTopic
<1>3. RaisedCounted'
    <2>1. errors \in Nat
        BY BoundsAssumption DEF IInv, TypeOK
    <2>2. \/ raised' = raised /\ errors' = errors
          \/ errors' = errors + 1
        BY <1>n, NextCases
        DEF Produce, Start, Take, Signal, Exit, Crash, Acquire, Settle, Commit,
            DeliveryRaises, CommitFails, vars, faults
    <2> QED BY <2>1, <2>2 DEF RInv, RaisedCounted
<1> QED BY <1>1, <1>2, <1>3, TopicStep DEF RInv

(* IInv, TInv and RInv together hold of every reachable state. *)
THEOREM RelayInvariance == RelaySpec => [](IInv /\ TInv /\ RInv)
<1>1. RelayInit => RInv
    <2> SUFFICES ASSUME RelayInit PROVE RInv
        OBVIOUS
    <2>1. end = 0 /\ topic = <<>> /\ settled = {} /\ raised = {} /\ passes = Passes
        BY DEF RelayInit, Init
    <2>2. TopicTyped
        BY <2>1 DEF TopicTyped
    <2>3. TopicCounted
        <3>1. \A p \in (1..RawN) \X Routes : CopiesOf(p) = {}
            BY <2>1 DEF CopiesOf
        <3>2. \A p \in (1..RawN) \X Routes : sent[p[1]][p[2]] = 0
            BY DEF RelayInit, T!Init, T!Messages
        <3> QED BY <3>1, <3>2, FS_EmptySet DEF TopicCounted
    <2> QED BY <2>1, <2>2, <2>3 DEF RInv, SettledInTopic, RaisedCounted
<1> QED
    BY <1>1, RelayInvStep, DeliveryPart, Invariance, TransformInvariance, PTL
    DEF RelaySpec

(* Every offset, task, counter and message of the two workers is well typed. *)
THEOREM RelayTypeCorrect == RelaySpec => []RelayTypeOK
<1>1. IInv /\ TInv /\ RInv => RelayTypeOK
    BY DEF IInv, TInv, RInv, TopicTyped, RelayTypeOK
<1> QED BY <1>1, RelayInvariance, PTL

(* A second message for the same route in transformed-events takes a crash  *)
(* of the transform worker or a commit of its that raised.                  *)
THEOREM CopiesComeFromFaults == RelaySpec => []CopiesBoundedByFaults
<1>1. IInv /\ TInv /\ RInv => CopiesBoundedByFaults
    <2> SUFFICES ASSUME TInv, RInv, NEW p \in Pairs
                 PROVE  Cardinality(CopiesOf(p)) <= 1 + tCrashes + commitFailures
        BY DEF CopiesBoundedByFaults
    <2>1. p \in (1..RawN) \X Routes /\ p[1] \in T!Messages /\ p[2] \in Routes
        BY DEF Pairs, T!Messages
    <2> QED BY <2>1 DEF TInv, CopiesExplained, RInv, TopicCounted
<1> QED BY <1>1, RelayInvariance, PTL

-----------------------------------------------------------------------------
(* Relay implements Forwarding. *)

(* Faults counts up: what went wrong stays wrong. *)
LEMMA FaultsGrow ==
    ASSUME IInv, TInv, [RelayNext]_relayVars
    PROVE  /\ Faults \in Nat
           /\ Faults' = Faults \/ Faults' = Faults + 1
<1>1. /\ crashes \in Nat /\ stops \in Nat /\ errors \in Nat
      /\ tCrashes \in Nat /\ tStops \in Nat /\ failures \in Nat
      /\ commitFailures \in Nat /\ edits \in Nat
    BY BoundsAssumption, FaultsAssumption DEF IInv, TypeOK, TInv, T!TypeOK
<1>0. Faults \in Nat
    BY <1>1 DEF Faults
<1> SUFFICES Faults' = Faults \/ Faults' = Faults + 1
    BY <1>0
<1>2. CASE UNCHANGED <<crashes, stops, errors, tCrashes, tStops, failures,
                       commitFailures, edits>>
    BY <1>2 DEF Faults
<1>3. CASE UNCHANGED <<tCrashes, tStops, failures, commitFailures, edits>>
    <2>1. CASE crashes' = crashes + 1 /\ stops' = stops /\ errors' = errors
        BY <1>1, <1>3, <2>1 DEF Faults
    <2>2. CASE crashes' = crashes /\ stops' = stops + 1 /\ errors' = errors
        BY <1>1, <1>3, <2>2 DEF Faults
    <2>3. CASE crashes' = crashes /\ stops' = stops /\ errors' = errors + 1
        BY <1>1, <1>3, <2>3 DEF Faults
    <2>4. [Next]_vars
        BY DEF RelayNext, RawProduce, TransformStep, TransformOnly, Forward, DeliveryStep,
               TransformFault, ForwardUnacknowledged, DeliveryFault, relayVars, Next
    <2> QED
        BY <2>1, <2>2, <2>3, <2>4, <1>2, <1>3, NextCases
        DEF Produce, Start, Take, Signal, Exit, Crash, Acquire, Settle, Commit,
            DeliveryRaises, CommitFails, vars, faults
<1>4. CASE TransformFault
    <2> USE DEF Faults
    <2>1. crashes' = crashes /\ stops' = stops /\ errors' = errors
        BY <1>4 DEF TransformFault, vars, faults
    <2>2. CASE T!ProcessingRaises
        BY <2>1, <2>2, <1>1 DEF T!ProcessingRaises
    <2>3. CASE T!CommitFails
        BY <2>1, <2>3, <1>1 DEF T!CommitFails
    <2>4. CASE T!Signal
        BY <2>1, <2>4, <1>1 DEF T!Signal
    <2>5. CASE T!Crash
        BY <2>1, <2>5, <1>1 DEF T!Crash
    <2>6. ASSUME NEW r \in Routes, T!EditRoute(r) PROVE Faults' = Faults + 1
        BY <2>1, <2>6, <1>1 DEF T!EditRoute
    <2>7. CASE \E r \in Routes : T!EditRoute(r)
        BY <2>6, <2>7
    <2> QED BY <1>4, <2>2, <2>3, <2>4, <2>5, <2>7 DEF TransformFault
<1>5. CASE RawProduce \/ TransformStep
    BY <1>2, <1>3, <1>5, <1>1
    DEF RawProduce, TransformStep, TransformOnly, Forward, T!Produce, T!Start, T!Take,
        T!Lookup, T!LookupMisses, T!Commit, T!Dispatch, T!faults
<1>6. CASE DeliveryStep \/ DeliveryFault \/ UNCHANGED relayVars
    BY <1>3, <1>6 DEF DeliveryStep, DeliveryFault, relayVars, transformVars
<1>7. ASSUME NEW r \in Routes, ForwardUnacknowledged(r) PROVE Faults' = Faults + 1
    <2>1. crashes' = crashes /\ stops' = stops /\ errors' = errors
        BY <1>7 DEF ForwardUnacknowledged, Produce, faults
    <2>2. failures' = failures + 1
          /\ UNCHANGED <<tCrashes, tStops, commitFailures, edits>>
        BY <1>7 DEF ForwardUnacknowledged, T!SendUnacknowledged
    <2> QED BY <2>1, <2>2, <1>1 DEF Faults
<1> QED BY <1>4, <1>5, <1>6, <1>7 DEF RelayNext

(* As long as nothing went wrong, a delivery behind both offsets was made   *)
(* or has its task.                                                         *)
NoneDropped == Faults = 0 => Dropped = {}

LEMMA NothingDropped == IInv /\ TInv /\ RInv => NoneDropped
<1> SUFFICES ASSUME IInv, TInv, RInv, Faults = 0
             PROVE  Dropped = {}
    BY DEF NoneDropped
<1> USE RawAssumption, TopicAssumption, BoundsAssumption, FaultsAssumption
<1>1. /\ crashes = 0 /\ stops = 0 /\ errors = 0
      /\ failures = 0 /\ edits = 0
    BY DEF IInv, TypeOK, TInv, T!TypeOK, Faults
<1> SUFFICES ASSUME NEW p \in Dropped PROVE FALSE
    OBVIOUS
<1>2. /\ p \in Pairs /\ p \notin Delivered /\ p[1] <= rawCommitted
      /\ \A i \in CopiesOf(p) : i <= committed /\ task[i] = "none"
      /\ p \in (1..RawN) \X Routes /\ p[1] \in T!Messages /\ p[2] \in Routes
      /\ p[2] \in Passes[p[1]]
    BY DEF Dropped, Pairs, T!Messages
<1>3. p[1] \notin Odd
    BY <1>2 DEF Odd
<1>4. selected[p[1]] = Routes
    BY <1>1, <1>2, <1>3 DEF TInv, LookupsComplete, Looked, Behind
<1>5. sent[p[1]][p[2]] > 0
    BY <1>1, <1>2, <1>4 DEF TInv, HandledDispatched, Handled, Behind, RInv
<1>6. CopiesOf(p) # {}
    <2>1. sent[p[1]][p[2]] = Cardinality(CopiesOf(p))
        BY <1>2 DEF RInv, TopicCounted
    <2> QED BY <2>1, <1>5, FS_EmptySet
<1>7. PICK i \in CopiesOf(p) : TRUE
    BY <1>6
<1>8. i \in 1..committed /\ task[i] = "none"
    BY <1>2, <1>7, NAssumption DEF CopiesOf, IInv, TypeOK
<1>9. i \in settled
    <2>1. LostOnlyByFaults
        BY NAssumption DEF IInv, TypeOK, LostOnlyByFaults, TakenAccounted, OffsetsOrdered
    <2>2. raised = {}
        BY <1>1 DEF RInv, RaisedCounted
    <2> QED BY <1>1, <1>8, <2>1, <2>2 DEF LostOnlyByFaults
<1> QED BY <1>2, <1>7, <1>9 DEF Delivered

(* A delivery that returns is the abstract Deliver: its message is in the   *)
(* topic, and nobody has dropped what has a task.                           *)
LEMMA SettleDelivers ==
    ASSUME IInv, TInv, RInv, NEW m \in Messages, Settle(m), UNCHANGED <<transformVars, topic>>
    PROVE  [F!Next]_(F!vars)
<1>1. /\ settled' = settled \cup {m} /\ task' = [task EXCEPT ![m] = "committing"]
      /\ end' = end /\ committed' = committed /\ task[m] = "running"
      /\ rawCommitted' = rawCommitted /\ topic' = topic
      /\ task \in [Messages -> {"none", "waiting", "running", "committing"}]
    BY DEF Settle, Becomes, transformVars, IInv, TypeOK
<1>2. Faults' = Faults
    BY DEF Settle, faults, transformVars, Faults
<1>3. \A p : CopiesOf(p)' = CopiesOf(p)
    BY <1>1 DEF CopiesOf
<1>4. m \in 1..end
    BY NAssumption DEF Settle, IInv, TypeOK, OffsetsOrdered, TasksTaken, Messages
<1>5. m \in CopiesOf(topic[m])
    BY <1>4 DEF CopiesOf
<1>6. \A p : p # topic[m] => m \notin CopiesOf(p)
    BY DEF CopiesOf
<1>7. \A p : CopiesOf(p) \subseteq Messages
    BY NAssumption DEF CopiesOf, IInv, TypeOK, Messages
<1>8. \A p : p # topic[m] => \A i \in CopiesOf(p) :
            (i \in settled' <=> i \in settled) /\ task'[i] = task[i]
    BY <1>1, <1>6, <1>7
<1>9. topic[m] \notin Dropped
    BY <1>1, <1>5 DEF Dropped
<1>10. \A p \in Pairs : p # topic[m] => (p \in Delivered' <=> p \in Delivered)
    BY <1>3, <1>8 DEF Delivered, Pairs
<1>11. \A p \in Pairs : p # topic[m] => (p \in Dropped' <=> p \in Dropped)
    BY <1>1, <1>3, <1>8, <1>10 DEF Dropped, Pairs
<1>12. Pairs' = Pairs /\ Delivered \subseteq Pairs /\ Delivered' \subseteq Pairs
       /\ Dropped \subseteq Pairs /\ Dropped' \subseteq Pairs
    BY DEF Pairs, Delivered, Dropped
<1>13. CASE topic[m] \in Pairs
    <2>1. topic[m] \in Delivered' /\ topic[m] \notin Dropped'
        <3>1. m \in CopiesOf(topic[m])' /\ m \in settled'
            BY <1>1, <1>3, <1>5
        <3>2. topic[m] \in Delivered'
            BY <1>1, <1>3, <1>5, <1>12, <1>13 DEF Delivered
        <3> QED BY <3>2 DEF Dropped
    <2>2. Delivered' = Delivered \cup {topic[m]} /\ Dropped' = Dropped
        BY <2>1, <1>9, <1>10, <1>11, <1>12, <1>13
    <2>3. F!Deliver(topic[m])
        BY <2>2, <1>2, <1>9 DEF F!Deliver
    <2> QED BY <2>3, <1>13 DEF F!Next
<1>14. CASE topic[m] \notin Pairs
    <2>1. Delivered' = Delivered /\ Dropped' = Dropped
        BY <1>10, <1>11, <1>12, <1>14
    <2> QED BY <2>1, <1>2 DEF F!vars
<1> QED BY <1>13, <1>14

(* No other step makes a delivery, and none takes up one that was dropped:  *)
(* its raw message is behind the transform worker's offset for good, and so *)
(* are its copies behind the delivery worker's.                             *)
LEMMA DroppedStays ==
    ASSUME IInv, TInv, RInv, RInv', [RelayNext]_relayVars,
           settled' = settled
    PROVE  Delivered' = Delivered /\ Dropped \subseteq Dropped'
<1>n. [Next]_vars /\ [T!Next]_(T!vars)
    BY DEF RelayNext, RawProduce, TransformStep, TransformOnly, Forward, DeliveryStep,
           TransformFault, ForwardUnacknowledged, DeliveryFault, relayVars, transformVars,
           Next, T!Next, T!WorkerStep, T!vars, T!log, T!faults
<1>e. end \in Nat /\ committed \in Nat /\ position \in Nat
    BY NAssumption DEF IInv, TypeOK
<1>r. rawCommitted \in Nat /\ rawPosition \in Nat
    BY RawAssumption DEF TInv, T!TypeOK
<1>1. ASSUME NEW p \in (1..RawN) \X Routes
      PROVE  /\ CopiesOf(p) \subseteq CopiesOf(p)'
             /\ CopiesOf(p)' \cap (1..end) = CopiesOf(p)
             /\ p[1] <= rawCommitted => CopiesOf(p)' = CopiesOf(p)
    <2>1. CASE UNCHANGED <<end, topic, sent>>
        <3>1. CopiesOf(p)' = CopiesOf(p)
            BY <2>1 DEF CopiesOf
        <3> QED BY <3>1, CopiesFinite
    <2>2. ASSUME NEW r \in Routes, rawPosition \in 1..RawN, rawCommitted < rawPosition,
                 end' = end + 1, topic' = Append(topic, <<rawPosition, r>>)
          PROVE  /\ CopiesOf(p) \subseteq CopiesOf(p)'
                 /\ CopiesOf(p)' \cap (1..end) = CopiesOf(p)
                 /\ p[1] <= rawCommitted => CopiesOf(p)' = CopiesOf(p)
        <3>1. p[1] <= rawCommitted => p # <<rawPosition, r>>
            BY <2>2, <1>r
        <3>2. /\ p = <<rawPosition, r>> => CopiesOf(p)' = CopiesOf(p) \cup {end + 1}
              /\ p # <<rawPosition, r>> => CopiesOf(p)' = CopiesOf(p)
              /\ end + 1 \notin 1..end
            BY <2>2, CopiesGrow
        <3> QED BY <3>1, <3>2, CopiesFinite
    <2> QED BY <2>1, <2>2, TopicCases
<1>2. Delivered' = Delivered
    <2>1. settled \subseteq 1..end
        BY DEF RInv, SettledInTopic
    <2>2. \A p \in Pairs : CopiesOf(p)' \cap settled = CopiesOf(p) \cap settled
        BY <1>1, <2>1 DEF Pairs
    <2>3. Delivered' = {p \in Pairs : CopiesOf(p)' \cap settled # {}}
        BY DEF Delivered, Pairs
    <2> QED BY <2>2, <2>3 DEF Delivered
<1>3. rawCommitted' \in Nat /\ rawCommitted <= rawCommitted'
    <2>1. rawCommitted' = rawCommitted
          \/ (tLoop = "committing" /\ rawCommitted' = rawPosition)
        BY <1>n, TransformCases
        DEF T!Produce, T!Start, T!Take, T!Lookup, T!LookupMisses, T!ProcessingRaises,
            T!Commit, T!CommitFails, T!Signal, T!Crash, T!Dispatch, T!SendUnacknowledged,
            T!EditRoute, T!vars, T!log
    <2> QED BY <2>1, <1>r DEF TInv, RawOrdered
<1>4. committed' \in Nat /\ committed <= committed'
    <2>1. committed' = committed \/ \E m \in Messages : Commit(m)
        BY <1>n, NextCases
        DEF Produce, Start, Take, Signal, Exit, Crash, Acquire, Settle,
            DeliveryRaises, CommitFails, vars
    <2>2. ASSUME NEW m \in Messages, Commit(m) PROVE committed' = position /\ Alive
        BY <2>2 DEF Commit, IInv, TasksTaken
    <2> QED BY <2>1, <2>2, <1>e DEF IInv, OffsetsOrdered
<1>5. ASSUME NEW i \in Messages, i <= committed, task[i] = "none"
      PROVE  task'[i] = "none"
    <2>t. task \in [Messages -> {"none", "waiting", "running", "committing"}]
        BY DEF IInv, TypeOK
    <2>1. CASE Take
        <3>1. committed <= position /\ position' = position + 1
            BY <2>1 DEF Take, IInv, OffsetsOrdered, Alive
        <3>2. i # position'
            BY <3>1, <1>5, <1>e DEF Messages
        <3>3. task' = task \/ task' = [task EXCEPT ![position'] = "waiting"]
            BY <2>1, TakeCases DEF Becomes
        <3> QED BY <3>2, <3>3, <1>5, <2>t
    <2>2. ASSUME NEW m \in Messages,
                 Acquire(m) \/ Settle(m) \/ Commit(m) \/ DeliveryRaises(m) \/ CommitFails(m)
          PROVE  task'[i] = "none"
        <3>1. task[m] # "none"
            BY <2>2 DEF Acquire, Settle, Commit, DeliveryRaises, CommitFails
        <3>2. i # m
            BY <3>1, <1>5
        <3>3. \E w \in {"none", "running", "committing"} : task' = [task EXCEPT ![m] = w]
            BY <2>2 DEF Acquire, Settle, Commit, DeliveryRaises, CommitFails, Becomes
        <3> QED BY <3>2, <3>3, <1>5, <2>t
    <2>3. CASE task' = task \/ task' = [m \in Messages |-> "none"]
        BY <2>3, <1>5
    <2> QED
        BY <1>n, NextCases, <2>1, <2>2, <2>3
        DEF Produce, Start, Signal, Exit, Crash, vars
<1>6. ASSUME NEW p \in Dropped PROVE p \in Dropped'
    <2>1. /\ p \in Pairs /\ p \notin Delivered /\ p[1] <= rawCommitted
          /\ \A i \in CopiesOf(p) : i <= committed /\ task[i] = "none"
          /\ p \in (1..RawN) \X Routes /\ p[1] \in Nat
        BY DEF Dropped, Pairs
    <2>2. CopiesOf(p)' = CopiesOf(p)
        BY <1>1, <2>1
    <2>3. CopiesOf(p) \subseteq Messages
        BY <2>1, NAssumption DEF CopiesOf, Messages, IInv, TypeOK
    <2>4. \A i \in CopiesOf(p)' : i <= committed' /\ task'[i] = "none"
        <3> SUFFICES ASSUME NEW i \in CopiesOf(p) PROVE i <= committed' /\ task'[i] = "none"
            BY <2>2
        <3>1. i \in Messages /\ i \in Nat /\ i <= committed /\ task[i] = "none"
            BY <2>1, <2>3 DEF Messages
        <3> QED BY <3>1, <1>4, <1>5, <1>e
    <2>5. p[1] <= rawCommitted'
        BY <2>1, <1>3, <1>r
    <2> QED BY <2>1, <2>4, <2>5, <1>2 DEF Dropped, Pairs
<1> QED BY <1>2, <1>6

LEMMA ForwardingStep ==
    ASSUME IInv, TInv, RInv, NoneDropped,
           IInv', TInv', RInv', NoneDropped', [RelayNext]_relayVars
    PROVE  [F!Next]_(F!vars)
<1>1. CASE \E m \in Messages : Settle(m) /\ UNCHANGED <<transformVars, topic>>
    BY <1>1, SettleDelivers
<1>2. CASE settled' = settled
    <2>1. Delivered' = Delivered /\ Dropped \subseteq Dropped'
        BY <1>2, DroppedStays
    <2>2. \/ Faults' = 0
          \/ Faults' > 0 /\ Faults > 0
          \/ Faults' > 0 /\ Faults = 0
        <3>1. CASE Faults' = Faults
            BY <3>1, FaultsGrow
        <3>2. CASE Faults' = Faults + 1
            BY <3>2, FaultsGrow
        <3> QED BY <3>1, <3>2, FaultsGrow
    <2>3. Dropped' \cap Delivered = {} /\ Dropped' \in SUBSET Pairs
        BY <2>1 DEF Dropped, Pairs
    <2>5. Dropped' = Dropped \cup (Dropped' \ Delivered)
        BY <2>1, <2>3
    <2>6. CASE Faults' = 0
        <3>1. Faults = 0
            BY <2>6, FaultsGrow
        <3>2. Dropped = {} /\ Dropped' = {}
            BY <2>6, <3>1 DEF NoneDropped
        <3> QED BY <2>1, <2>6, <3>1, <3>2 DEF F!vars
    <2>7. CASE Faults' > 0 /\ Faults > 0
        <3>1. F!Drop(Dropped')
            BY <2>1, <2>5, <2>7 DEF F!Drop
        <3> QED BY <3>1, <2>3 DEF F!Next
    <2>8. CASE Faults' > 0 /\ Faults = 0
        <3>1. F!Disturb(Dropped')
            BY <2>1, <2>5, <2>8 DEF F!Disturb
        <3> QED BY <3>1, <2>3 DEF F!Next
    <2> QED BY <2>2, <2>6, <2>7, <2>8
<1>3. \/ settled' = settled
      \/ \E m \in Messages : Settle(m) /\ UNCHANGED <<transformVars, topic>>
    BY DEF RelayNext, RawProduce, TransformStep, TransformOnly, Forward, DeliveryStep,
           TransformFault, ForwardUnacknowledged, DeliveryFault, relayVars, vars, Produce,
           Start, Take, Exit, TaskStep, Acquire, Commit, DeliveryRaises, CommitFails, Signal, Crash
<1> QED BY <1>1, <1>2, <1>3

(* The two workers implement Forwarding: without a fault every delivery     *)
(* behind both offsets has been made or is under way, and with one what is  *)
(* dropped never comes back.                                                *)
THEOREM WorkersImplementForwarding == RelaySpec => ForwardingImplemented
<1>1. RelayInit => F!Init
    <2> SUFFICES ASSUME RelayInit PROVE F!Init
        OBVIOUS
    <2>1. settled = {} /\ rawCommitted = 0 /\ Faults = 0
        BY DEF RelayInit, Init, T!Init, Faults
    <2>2. Delivered = {}
        BY <2>1 DEF Delivered
    <2>3. Dropped = {}
        BY <2>1, RawAssumption DEF Dropped, Pairs
    <2> QED BY <2>1, <2>2, <2>3 DEF F!Init
<1>2. IInv /\ TInv /\ RInv /\ NoneDropped /\ (IInv /\ TInv /\ RInv /\ NoneDropped)'
            /\ [RelayNext]_relayVars
        => [F!Next]_(F!vars)
    BY ForwardingStep
<1> QED
    BY <1>1, <1>2, NothingDropped, RelayInvariance, PTL
    DEF RelaySpec, ForwardingImplemented, F!Spec

=============================================================================
