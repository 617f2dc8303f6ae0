------------------------- MODULE OutboxRelay_proofs -------------------------
(***************************************************************************)
(* Proofs about OutboxRelay for any number of relays and events, any batch *)
(* size, any MAX_ATTEMPTS and any number of faults.                        *)
(***************************************************************************)
EXTENDS OutboxRelay, TLAPS

(* What a relay's open transaction looks like: the rows it has handled and  *)
(* the rows it has still to handle are distinct rows of its batch.          *)
BatchSplit ==
    \A r \in Relays :
        /\ todo[r] \subseteq batch[r]
        /\ sent[r] \subseteq batch[r] \ todo[r]
        /\ erred[r] \subseteq batch[r] \ (todo[r] \cup sent[r])

(* A relay outside a transaction holds no row. *)
IdleHoldsNothing ==
    \A r \in Relays : pc[r] # "publishing" =>
        batch[r] = {} /\ todo[r] = {} /\ sent[r] = {} /\ erred[r] = {}

(* A row a transaction holds as sent has its message in the topic. *)
SentIsPublished == \A r \in Relays : \A e \in sent[r] : published[e] > 0

(* A row that has not been inserted has no attempts. *)
NewRowsUntried ==
    \A e \in Events : outboxStatus[e] = "none" => attempts[e] = 0

(* e's message has been accounted for: its row is completed, or a relay will *)
(* complete it at its commit.                                                *)
Accounted(e) == outboxStatus[e] = "completed" \/ \E r \in Relays : e \in sent[r]

(* A copy beyond the one that is accounted for was caused by a fault. *)
CopiesExplained ==
    \A e \in Events :
        published[e] <= crashes + timeouts + (IF Accounted(e) THEN 1 ELSE 0)

(* The inductive invariant behind the safety theorems. *)
IInv ==
    /\ TypeOK
    /\ RowsOwnedOnce
    /\ BatchSplit
    /\ IdleHoldsNothing
    /\ SentIsPublished
    /\ QueuedIsPublished
    /\ GivenUpAtMaxAttempts
    /\ NewRowsUntried
    /\ CopiesExplained

-----------------------------------------------------------------------------
(* Every value stays in its type under every step of the relays. *)
LEMMA TypeStep == IInv /\ [Next]_vars => TypeOK'
<1> SUFFICES ASSUME IInv, [Next]_vars PROVE TypeOK'
    OBVIOUS
<1> USE AttemptsAssumption, BoundsAssumption DEF IInv
<1>1. ASSUME NEW e \in Events, Ingest(e) PROVE TypeOK'
    BY <1>1 DEF TypeOK, Ingest, relay, faults
<1>2. ASSUME NEW r \in Relays, Start(r) PROVE TypeOK'
    BY <1>2 DEF TypeOK, Start, db, faults
<1>3. ASSUME NEW r \in Relays, Poll(r) PROVE TypeOK'
    <2>1. Oldest(Available, BATCH_SIZE) \in SUBSET Events
        BY DEF Oldest, Available
    <2> QED BY <1>3, <2>1 DEF TypeOK, Poll, db, faults
<1>4. ASSUME NEW r \in Relays, NEW e \in Events, PublishOk(r, e) PROVE TypeOK'
    BY <1>4 DEF TypeOK, PublishOk, db, faults
<1>5. ASSUME NEW r \in Relays, NEW e \in Events, PublishFails(r, e) PROVE TypeOK'
    BY <1>5 DEF TypeOK, PublishFails, db, faults
<1>6. ASSUME NEW r \in Relays, NEW e \in Events, PublishTimesOut(r, e) PROVE TypeOK'
    BY <1>6 DEF TypeOK, PublishTimesOut, db
<1>7. ASSUME NEW r \in Relays, Commit(r) PROVE TypeOK'
    <2>1. \A e \in Events : SettledStatus(r, e) \in {"none", "pending", "completed", "failed"}
        BY DEF TypeOK, SettledStatus
    <2>2. outboxStatus' \in [Events -> {"none", "pending", "completed", "failed"}]
        BY <1>7, <2>1 DEF Commit
    <2>3. eventStatus' \in [Events -> {"none", "pending", "queued"}]
        BY <1>7 DEF Commit, TypeOK
    <2>4. \A e \in erred[r] : e \in Events /\ attempts[e] < MAX_ATTEMPTS
        BY DEF BatchSplit, RowsOwnedOnce, GivenUpAtMaxAttempts, TypeOK
    <2>5. attempts' \in [Events -> 0..MAX_ATTEMPTS]
        BY <1>7, <2>4 DEF Commit, TypeOK
    <2> QED BY <1>7, <2>2, <2>3, <2>5 DEF TypeOK, Commit, Release, faults
<1>8. ASSUME NEW r \in Relays, Signal(r) PROVE TypeOK'
    BY <1>8 DEF TypeOK, Signal, db
<1>9. ASSUME NEW r \in Relays, Exit(r) PROVE TypeOK'
    BY <1>9 DEF TypeOK, Exit, db, faults
<1>10. ASSUME NEW r \in Relays, Crash(r) PROVE TypeOK'
    BY <1>10 DEF TypeOK, Crash, Release, db
<1>11. CASE KafkaGoesDown
    <2>1. kafkaUp' \in BOOLEAN
        BY <1>11, Zenon DEF KafkaGoesDown
    <2>2. outages' \in 0..MaxOutages
        BY <1>11 DEF TypeOK, KafkaGoesDown
    <2>3. UNCHANGED <<db, relay, published, crashes, timeouts, stops>>
        BY <1>11 DEF KafkaGoesDown
    <2> QED BY <2>1, <2>2, <2>3 DEF TypeOK, db, relay
<1>12. CASE KafkaRecovers
    BY <1>12 DEF TypeOK, KafkaRecovers, db, relay, faults
<1>13. CASE UNCHANGED vars
    BY <1>13 DEF TypeOK, vars, db, relay, faults
<1>14. ASSUME NEW r \in Relays, Sleep(r) PROVE TypeOK'
    BY <1>13, <1>14 DEF Sleep
<1> QED
    BY <1>1, <1>2, <1>3, <1>4, <1>5, <1>6, <1>7, <1>8, <1>9, <1>10, <1>11,
       <1>12, <1>13, <1>14 DEF Next, RelayStep, Fault

-----------------------------------------------------------------------------
(* The rows of two transactions stay apart, and stay pending while held: a  *)
(* relay only takes rows nobody holds, and only the holder settles a row.   *)
LEMMA OwnershipStep == IInv /\ [Next]_vars => RowsOwnedOnce' /\ BatchSplit'
<1> SUFFICES ASSUME IInv, [Next]_vars PROVE RowsOwnedOnce' /\ BatchSplit'
    OBVIOUS
<1> USE DEF IInv
<1>1. ASSUME NEW e \in Events, Ingest(e) PROVE RowsOwnedOnce' /\ BatchSplit'
    BY <1>1 DEF TypeOK, RowsOwnedOnce, BatchSplit, Ingest, relay
<1>2. ASSUME NEW r \in Relays, Poll(r) PROVE RowsOwnedOnce' /\ BatchSplit'
    <2>1. PICK rows \in SUBSET Available :
             /\ batch' = [batch EXCEPT ![r] = rows]
             /\ todo' = [todo EXCEPT ![r] = rows]
        BY <1>2 DEF Poll, Oldest
    <2>2. \A e \in rows : outboxStatus[e] = "pending" /\ \A q \in Relays : e \notin batch[q]
        BY <2>1 DEF Available, Locked
    <2>3. sent[r] = {} /\ erred[r] = {}
        BY <1>2 DEF Poll, IdleHoldsNothing
    <2> QED BY <1>2, <2>1, <2>2, <2>3 DEF TypeOK, RowsOwnedOnce, BatchSplit, Poll, db
<1>3. ASSUME NEW r \in Relays, NEW e \in Events, PublishOk(r, e)
      PROVE RowsOwnedOnce' /\ BatchSplit'
    BY <1>3 DEF TypeOK, RowsOwnedOnce, BatchSplit, PublishOk, AtRecord, db
<1>4. ASSUME NEW r \in Relays, NEW e \in Events, PublishFails(r, e)
      PROVE RowsOwnedOnce' /\ BatchSplit'
    BY <1>4 DEF TypeOK, RowsOwnedOnce, BatchSplit, PublishFails, AtRecord, db
<1>5. ASSUME NEW r \in Relays, NEW e \in Events, PublishTimesOut(r, e)
      PROVE RowsOwnedOnce' /\ BatchSplit'
    BY <1>5 DEF TypeOK, RowsOwnedOnce, BatchSplit, PublishTimesOut, AtRecord, db
<1>6. ASSUME NEW r \in Relays, Commit(r) PROVE RowsOwnedOnce' /\ BatchSplit'
    <2>1. \A e \in Events \ batch[r] : outboxStatus'[e] = outboxStatus[e]
        BY <1>6 DEF Commit, SettledStatus, BatchSplit
    <2> QED BY <1>6, <2>1 DEF TypeOK, RowsOwnedOnce, BatchSplit, Commit, Release
<1>7. ASSUME NEW r \in Relays, Crash(r) PROVE RowsOwnedOnce' /\ BatchSplit'
    BY <1>7 DEF TypeOK, RowsOwnedOnce, BatchSplit, Crash, Release, db
<1>8. ASSUME UNCHANGED <<outboxStatus, batch, todo, sent, erred>>
      PROVE RowsOwnedOnce' /\ BatchSplit'
    BY <1>8 DEF RowsOwnedOnce, BatchSplit
<1> QED
    BY <1>1, <1>2, <1>3, <1>4, <1>5, <1>6, <1>7, <1>8
    DEF Next, RelayStep, Fault, Start, Signal, Exit, Sleep, KafkaGoesDown,
        KafkaRecovers, vars, db, relay

(* Between two polls a relay holds no row. *)
LEMMA IdleStep == IInv /\ [Next]_vars => IdleHoldsNothing'
<1> SUFFICES ASSUME IInv, [Next]_vars PROVE IdleHoldsNothing'
    OBVIOUS
<1> USE DEF IInv
<1>1. ASSUME NEW r \in Relays, Start(r) PROVE IdleHoldsNothing'
    BY <1>1 DEF TypeOK, IdleHoldsNothing, Start
<1>2. ASSUME NEW r \in Relays, Poll(r) PROVE IdleHoldsNothing'
    BY <1>2 DEF TypeOK, IdleHoldsNothing, Poll
<1>3. ASSUME NEW r \in Relays, NEW e \in Events,
             PublishOk(r, e) \/ PublishFails(r, e) \/ PublishTimesOut(r, e)
      PROVE IdleHoldsNothing'
    BY <1>3 DEF TypeOK, IdleHoldsNothing, PublishOk, PublishFails, PublishTimesOut, AtRecord
<1>4. ASSUME NEW r \in Relays, Commit(r) \/ Crash(r) PROVE IdleHoldsNothing'
    BY <1>4 DEF TypeOK, IdleHoldsNothing, Commit, Crash, Release
<1>5. ASSUME NEW r \in Relays, Exit(r) PROVE IdleHoldsNothing'
    BY <1>5 DEF TypeOK, IdleHoldsNothing, Exit
<1>6. ASSUME UNCHANGED <<pc, batch, todo, sent, erred>> PROVE IdleHoldsNothing'
    BY <1>6 DEF IdleHoldsNothing
<1> QED
    BY <1>1, <1>2, <1>3, <1>4, <1>5, <1>6
    DEF Next, RelayStep, Fault, Ingest, Signal, Sleep, KafkaGoesDown,
        KafkaRecovers, vars, relay

-----------------------------------------------------------------------------
(* A row is marked completed only after its message reached the topic, and  *)
(* its event becomes queued with it.                                        *)
LEMMA PublishedStep ==
    IInv /\ [Next]_vars => SentIsPublished' /\ QueuedIsPublished'
<1> SUFFICES ASSUME IInv, [Next]_vars PROVE SentIsPublished' /\ QueuedIsPublished'
    OBVIOUS
<1> USE DEF IInv
<1>1. ASSUME NEW e \in Events, Ingest(e) PROVE SentIsPublished' /\ QueuedIsPublished'
    BY <1>1 DEF TypeOK, SentIsPublished, QueuedIsPublished, Ingest, relay
<1>2. ASSUME NEW r \in Relays, NEW e \in Events, PublishOk(r, e)
      PROVE SentIsPublished' /\ QueuedIsPublished'
    BY <1>2 DEF TypeOK, SentIsPublished, QueuedIsPublished, PublishOk, db
<1>3. ASSUME NEW r \in Relays, NEW e \in Events, PublishTimesOut(r, e)
      PROVE SentIsPublished' /\ QueuedIsPublished'
    BY <1>3 DEF TypeOK, SentIsPublished, QueuedIsPublished, PublishTimesOut, db
<1>4. ASSUME NEW r \in Relays, Commit(r) PROVE SentIsPublished' /\ QueuedIsPublished'
    <2>1. SentIsPublished'
        BY <1>4 DEF TypeOK, SentIsPublished, Commit, Release
    <2>2. ASSUME NEW e \in Events, e \in sent[r]
          PROVE outboxStatus'[e] = "completed" /\ eventStatus'[e] = "queued"
                    /\ published'[e] > 0
        BY <1>4, <2>2 DEF Commit, SettledStatus, SentIsPublished, BatchSplit
    <2>3. ASSUME NEW e \in Events, e \notin sent[r]
          PROVE /\ outboxStatus'[e] = "completed" <=> outboxStatus[e] = "completed"
                /\ eventStatus'[e] = eventStatus[e]
        BY <1>4, <2>3 DEF Commit, SettledStatus, BatchSplit, RowsOwnedOnce
    <2>4. published' = published
        BY <1>4 DEF Commit
    <2> QED BY <2>1, <2>2, <2>3, <2>4 DEF QueuedIsPublished
<1>5. ASSUME NEW r \in Relays, Crash(r) PROVE SentIsPublished' /\ QueuedIsPublished'
    BY <1>5 DEF TypeOK, SentIsPublished, QueuedIsPublished, Crash, Release, db
<1>6. ASSUME UNCHANGED <<eventStatus, outboxStatus, sent, published>>
      PROVE SentIsPublished' /\ QueuedIsPublished'
    BY <1>6 DEF SentIsPublished, QueuedIsPublished
<1> QED
    BY <1>1, <1>2, <1>3, <1>4, <1>5, <1>6
    DEF Next, RelayStep, Fault, Start, Poll, Sleep, PublishFails, Signal, Exit,
        KafkaGoesDown, KafkaRecovers, vars, db, relay

(* Only a commit touches attempts, once per row, and gives the row up at    *)
(* the last try.                                                            *)
LEMMA AttemptsStep == IInv /\ [Next]_vars => GivenUpAtMaxAttempts'
<1> SUFFICES ASSUME IInv, [Next]_vars PROVE GivenUpAtMaxAttempts'
    OBVIOUS
<1> USE AttemptsAssumption DEF IInv
<1>1. ASSUME NEW e \in Events, Ingest(e) PROVE GivenUpAtMaxAttempts'
    BY <1>1 DEF TypeOK, NewRowsUntried, GivenUpAtMaxAttempts, Ingest
<1>2. ASSUME NEW r \in Relays, Commit(r) PROVE GivenUpAtMaxAttempts'
    <2> SUFFICES ASSUME NEW e \in Events
                 PROVE /\ outboxStatus'[e] = "failed" => attempts'[e] = MAX_ATTEMPTS
                       /\ outboxStatus'[e] = "pending" => attempts'[e] < MAX_ATTEMPTS
        BY DEF GivenUpAtMaxAttempts
    <2>1. /\ outboxStatus'[e] = SettledStatus(r, e)
          /\ attempts'[e] = IF e \in erred[r] THEN attempts[e] + 1 ELSE attempts[e]
        BY <1>2 DEF Commit
    <2>2. CASE e \in erred[r]
        <3>1. outboxStatus[e] = "pending" /\ e \notin sent[r] /\ attempts[e] < MAX_ATTEMPTS
            BY <2>2 DEF BatchSplit, RowsOwnedOnce, GivenUpAtMaxAttempts
        <3> QED BY <2>1, <2>2, <3>1 DEF SettledStatus, Exhausted, TypeOK
    <2>3. CASE e \notin erred[r]
        BY <2>1, <2>3 DEF SettledStatus, GivenUpAtMaxAttempts
    <2> QED BY <2>2, <2>3
<1>3. ASSUME UNCHANGED <<outboxStatus, attempts>> PROVE GivenUpAtMaxAttempts'
    BY <1>3 DEF GivenUpAtMaxAttempts
<1> QED
    BY <1>1, <1>2, <1>3
    DEF Next, RelayStep, Fault, Start, Poll, Sleep, PublishOk, PublishFails,
        PublishTimesOut, Signal, Exit, Crash, KafkaGoesDown, KafkaRecovers,
        vars, db

(* A row that was never ingested has not been tried. *)
LEMMA UntriedStep == IInv /\ [Next]_vars => NewRowsUntried'
<1> SUFFICES ASSUME IInv, [Next]_vars PROVE NewRowsUntried'
    OBVIOUS
<1> USE DEF IInv
<1>1. ASSUME NEW e \in Events, Ingest(e) PROVE NewRowsUntried'
    BY <1>1 DEF TypeOK, NewRowsUntried, Ingest
<1>2. ASSUME NEW r \in Relays, Commit(r) PROVE NewRowsUntried'
    BY <1>2 DEF TypeOK, NewRowsUntried, Commit, SettledStatus, BatchSplit, RowsOwnedOnce
<1>3. ASSUME UNCHANGED <<outboxStatus, attempts>> PROVE NewRowsUntried'
    BY <1>3 DEF NewRowsUntried
<1> QED
    BY <1>1, <1>2, <1>3
    DEF Next, RelayStep, Fault, Start, Poll, Sleep, PublishOk, PublishFails,
        PublishTimesOut, Signal, Exit, Crash, KafkaGoesDown, KafkaRecovers,
        vars, db

(* A copy appears only at a publish: either its row becomes accounted for,  *)
(* or a fault is counted; and a row stops being accounted for only by a     *)
(* crash, which is counted too.                                             *)
LEMMA CopiesStep == IInv /\ [Next]_vars => CopiesExplained'
<1> SUFFICES ASSUME IInv, [Next]_vars PROVE CopiesExplained'
    OBVIOUS
<1> USE DEF IInv
<1>1. ASSUME NEW e \in Events, Ingest(e) PROVE CopiesExplained'
    BY <1>1 DEF TypeOK, CopiesExplained, Accounted, Ingest, relay, faults
<1>2. ASSUME NEW r \in Relays, NEW e \in Events, PublishOk(r, e) PROVE CopiesExplained'
    <2>1. ~Accounted(e)
        <3>1. e \in batch[r] /\ e \notin sent[r]
            BY <1>2 DEF PublishOk, AtRecord, BatchSplit
        <3> QED BY <3>1 DEF Accounted, BatchSplit, RowsOwnedOnce
    <2>2. Accounted(e)'
        BY <1>2 DEF PublishOk, Accounted, TypeOK
    <2>3. \A x \in Events \ {e} : Accounted(x) => Accounted(x)'
        BY <1>2 DEF PublishOk, Accounted, TypeOK, db
    <2> QED BY <1>2, <2>1, <2>2, <2>3 DEF PublishOk, CopiesExplained, TypeOK, faults
<1>3. ASSUME NEW r \in Relays, NEW e \in Events, PublishTimesOut(r, e)
      PROVE CopiesExplained'
    <2>1. \A x \in Events : Accounted(x)' <=> Accounted(x)
        BY <1>3 DEF PublishTimesOut, Accounted, db
    <2> QED BY <1>3, <2>1 DEF PublishTimesOut, CopiesExplained, TypeOK
<1>4. ASSUME NEW r \in Relays, Commit(r) PROVE CopiesExplained'
    <2>1. \A x \in Events : Accounted(x) => Accounted(x)'
        <3> SUFFICES ASSUME NEW x \in Events, Accounted(x) PROVE Accounted(x)'
            OBVIOUS
        <3>1. CASE x \in sent[r]
            <4>1. outboxStatus'[x] = "completed"
                BY <1>4, <3>1 DEF Commit, SettledStatus, BatchSplit
            <4> QED BY <4>1 DEF Accounted
        <3>2. CASE outboxStatus[x] = "completed"
            <4>1. x \notin batch[r]
                BY <3>2 DEF RowsOwnedOnce
            <4>2. outboxStatus'[x] = "completed"
                BY <1>4, <3>2, <4>1 DEF Commit, SettledStatus, BatchSplit
            <4> QED BY <4>2 DEF Accounted
        <3>3. ASSUME NEW q \in Relays \ {r}, x \in sent[q] PROVE Accounted(x)'
            BY <1>4, <3>3 DEF Commit, Release, Accounted, TypeOK
        <3> QED BY <3>1, <3>2, <3>3 DEF Accounted
    <2> QED BY <1>4, <2>1 DEF Commit, CopiesExplained, TypeOK, faults
<1>5. ASSUME NEW r \in Relays, Crash(r) PROVE CopiesExplained'
    BY <1>5 DEF Crash, CopiesExplained, TypeOK
<1>6. ASSUME UNCHANGED <<outboxStatus, sent, published, crashes, timeouts>>
      PROVE CopiesExplained'
    BY <1>6 DEF CopiesExplained, Accounted
<1> QED
    BY <1>1, <1>2, <1>3, <1>4, <1>5, <1>6
    DEF Next, RelayStep, Fault, Start, Poll, Sleep, PublishFails, Signal, Exit,
        KafkaGoesDown, KafkaRecovers, vars, db, relay, faults

-----------------------------------------------------------------------------
(* IInv holds of every reachable state of the relays. *)
THEOREM Invariance == Spec => []IInv
<1>1. Init => IInv
    <2> SUFFICES ASSUME Init PROVE IInv
        OBVIOUS
    <2>1. TypeOK
        BY AttemptsAssumption, BoundsAssumption DEF Init, TypeOK
    <2>2. RowsOwnedOnce /\ BatchSplit /\ IdleHoldsNothing /\ SentIsPublished
        BY DEF Init, RowsOwnedOnce, BatchSplit, IdleHoldsNothing, SentIsPublished
    <2>3. QueuedIsPublished /\ GivenUpAtMaxAttempts /\ NewRowsUntried /\ CopiesExplained
        BY DEF Init, QueuedIsPublished, GivenUpAtMaxAttempts, NewRowsUntried,
               CopiesExplained, Accounted
    <2> QED BY <2>1, <2>2, <2>3 DEF IInv
<1>2. IInv /\ [Next]_vars => IInv'
    BY TypeStep, OwnershipStep, IdleStep, PublishedStep, AttemptsStep,
       UntriedStep, CopiesStep DEF IInv
<1> QED BY <1>1, <1>2, PTL DEF Spec

(* The tables, the relay processes and the topic keep their types; in       *)
(* particular attempts never passes MAX_ATTEMPTS.                           *)
THEOREM TypeCorrect == Spec => []TypeOK
<1>1. IInv => TypeOK
    BY DEF IInv
<1> QED BY <1>1, Invariance, PTL

(* run() never marks a record completed, nor its event queued, without its  *)
(* message in raw-events.                                                   *)
THEOREM NeverQueuedUnpublished == Spec => []QueuedIsPublished
<1>1. IInv => QueuedIsPublished
    BY DEF IInv
<1> QED BY <1>1, Invariance, PTL

(* However many relays poll the table, every second copy of a message is    *)
(* due to a lost transaction or a lost acknowledgement.                     *)
THEOREM DuplicatesComeFromFaults == Spec => []CopiesBoundedByFaults
<1>1. IInv => CopiesBoundedByFaults
    BY BoundsAssumption DEF IInv, TypeOK, CopiesExplained, CopiesBoundedByFaults
<1> QED BY <1>1, Invariance, PTL

(* A record is given up at MAX_ATTEMPTS failed tries, neither before nor    *)
(* after.                                                                   *)
THEOREM AttemptsRespected == Spec => []GivenUpAtMaxAttempts
<1>1. IInv => GivenUpAtMaxAttempts
    BY DEF IInv
<1> QED BY <1>1, Invariance, PTL

(* FOR UPDATE SKIP LOCKED keeps the relays apart. *)
THEOREM RelaysExcluded == Spec => []RowsOwnedOnce
<1>1. IInv => RowsOwnedOnce
    BY DEF IInv
<1> QED BY <1>1, Invariance, PTL

(* No step of a relay, and no crash, takes back what was committed. *)
THEOREM CommittedStays == Spec => SettledForGood
<1> DEFINE Kept ==
        \A e \in Events :
            /\ outboxStatus[e] \in {"completed", "failed"} =>
                    outboxStatus'[e] = outboxStatus[e]
            /\ attempts'[e] \in {attempts[e], attempts[e] + 1}
<1>1. IInv /\ [Next]_vars => Kept
    <2> SUFFICES ASSUME IInv, [Next]_vars, NEW e \in Events
                 PROVE /\ outboxStatus[e] \in {"completed", "failed"} =>
                              outboxStatus'[e] = outboxStatus[e]
                       /\ attempts'[e] \in {attempts[e], attempts[e] + 1}
        OBVIOUS
    <2>1. ASSUME NEW x \in Events, Ingest(x)
          PROVE /\ outboxStatus[e] \in {"completed", "failed"} =>
                       outboxStatus'[e] = outboxStatus[e]
                /\ attempts'[e] \in {attempts[e], attempts[e] + 1}
        BY <2>1 DEF Ingest, IInv, TypeOK
    <2>2. ASSUME NEW r \in Relays, Commit(r)
          PROVE /\ outboxStatus[e] \in {"completed", "failed"} =>
                       outboxStatus'[e] = outboxStatus[e]
                /\ attempts'[e] \in {attempts[e], attempts[e] + 1}
        <3>1. outboxStatus[e] # "pending" => e \notin sent[r] /\ e \notin erred[r]
            BY DEF IInv, RowsOwnedOnce, BatchSplit
        <3> QED BY <2>2, <3>1 DEF Commit, SettledStatus
    <2>3. ASSUME UNCHANGED <<outboxStatus, attempts>>
          PROVE /\ outboxStatus[e] \in {"completed", "failed"} =>
                       outboxStatus'[e] = outboxStatus[e]
                /\ attempts'[e] \in {attempts[e], attempts[e] + 1}
        BY <2>3
    <2> QED
        BY <2>1, <2>2, <2>3
        DEF Next, RelayStep, Fault, Start, Poll, Sleep, PublishOk, PublishFails,
            PublishTimesOut, Signal, Exit, Crash, KafkaGoesDown, KafkaRecovers,
            vars, db
<1>2. IInv /\ [Next]_vars => [Kept]_vars
    BY <1>1
<1> QED BY <1>2, Invariance, PTL DEF Spec, SettledForGood

-----------------------------------------------------------------------------
(* A record at which a relay publishes is pending, nobody has accounted for *)
(* its message, so that each copy of it there is was followed by a lapse.   *)
LEMMA RecordInHand ==
    ASSUME IInv, NEW r \in Relays, NEW e \in todo[r]
    PROVE  e \in Events /\ outboxStatus[e] = "pending" /\ published[e] <= crashes + timeouts
<1>1. e \in Events /\ outboxStatus[e] = "pending"
    BY DEF IInv, TypeOK, BatchSplit, RowsOwnedOnce
<1>2. \A q \in Relays : e \notin sent[q]
    BY DEF IInv, BatchSplit, RowsOwnedOnce
<1>3. ~Accounted(e)
    BY <1>1, <1>2 DEF Accounted
<1>4. published[e] <= crashes + timeouts + 0
    BY <1>1, <1>3 DEF IInv, CopiesExplained
<1>5. crashes \in Nat /\ timeouts \in Nat
    BY BoundsAssumption DEF IInv, TypeOK
<1> QED BY <1>1, <1>4, <1>5

(* Ingestion is the abstract Accept, a publish the abstract Publish, the    *)
(* commit of a batch Settle, and a crash Lapse; the rest is stuttering.     *)
LEMMA OutboxStep == IInv /\ [Next]_vars => [O!Next]_(O!vars)
<1> SUFFICES ASSUME IInv, [Next]_vars PROVE [O!Next]_(O!vars)
    OBVIOUS
<1>t. TypeOK
    BY DEF IInv
<1>n. crashes \in Nat /\ timeouts \in Nat
    BY <1>t, BoundsAssumption DEF TypeOK
<1>1. ASSUME NEW e \in Events, Ingest(e) PROVE O!Accept(e)
    BY <1>1 DEF Ingest, O!Accept, faults
<1>2. ASSUME NEW r \in Relays, NEW e \in Events, PublishOk(r, e) PROVE O!Publish(e)
    <2>1. outboxStatus[e] = "pending" /\ published[e] <= crashes + timeouts
        BY <1>2, RecordInHand DEF PublishOk, AtRecord
    <2> QED BY <1>2, <2>1 DEF PublishOk, O!Publish, db, faults
<1>3. ASSUME NEW r \in Relays, NEW e \in Events, PublishTimesOut(r, e) PROVE O!Publish(e)
    <2>1. outboxStatus[e] = "pending" /\ published[e] <= crashes + timeouts
        BY <1>3, RecordInHand DEF PublishTimesOut, AtRecord
    <2>2. crashes' + timeouts' = crashes + timeouts + 1
        BY <1>3, <1>n DEF PublishTimesOut
    <2> QED BY <1>3, <2>1, <2>2 DEF PublishTimesOut, O!Publish, db
<1>4. ASSUME NEW r \in Relays, Commit(r) PROVE O!Settle(sent[r], erred[r])
    <2>1. \A e \in sent[r] : outboxStatus[e] = "pending" /\ published[e] > 0
        BY DEF IInv, BatchSplit, RowsOwnedOnce, SentIsPublished
    <2>2. \A e \in erred[r] : outboxStatus[e] = "pending" /\ e \notin sent[r]
        BY DEF IInv, BatchSplit, RowsOwnedOnce
    <2>3. \A e \in Events :
              e \in erred[r] => (Exhausted(e) <=> attempts[e] + 1 = MAX_ATTEMPTS)
        BY <1>t, <2>2, AttemptsAssumption
        DEF Exhausted, IInv, GivenUpAtMaxAttempts, TypeOK
    <2>4. outboxStatus' = [e \in Events |->
              CASE e \in sent[r] -> "completed"
                [] e \in erred[r] /\ attempts[e] + 1 = MAX_ATTEMPTS -> "failed"
                [] OTHER -> outboxStatus[e]]
        BY <1>4, <2>3 DEF Commit, SettledStatus
    <2> QED BY <1>4, <2>1, <2>2, <2>4 DEF Commit, O!Settle, faults
<1>5. ASSUME NEW r \in Relays, Commit(r) PROVE O!Next
    <2>1. sent[r] \in SUBSET Events /\ erred[r] \in SUBSET Events
        BY <1>t DEF TypeOK
    <2> QED BY <1>4, <1>5, <2>1 DEF O!Next
<1>6. ASSUME NEW r \in Relays, Crash(r) PROVE O!Lapse
    <2>1. crashes' + timeouts' = crashes + timeouts + 1
        BY <1>6, <1>n DEF Crash
    <2> QED BY <1>6, <2>1 DEF Crash, O!Lapse, db
<1>7. ASSUME UNCHANGED <<outboxStatus, attempts, published, crashes, timeouts>>
      PROVE UNCHANGED O!vars
    BY <1>7 DEF O!vars
<1> QED
    BY <1>1, <1>2, <1>3, <1>5, <1>6, <1>7
    DEF O!Next, Next, RelayStep, Fault, Start, Poll, Sleep, PublishFails, Signal,
        Exit, KafkaGoesDown, KafkaRecovers, vars, db, faults

(* However many relays there are and however they fail, together they do    *)
(* only what Outbox allows.                                                 *)
THEOREM RelaysImplementOutbox == Spec => OutboxImplemented
<1>1. Init => O!Init
    BY DEF Init, O!Init
<1> QED BY <1>1, OutboxStep, Invariance, PTL DEF Spec, OutboxImplemented, O!Spec

=============================================================================
