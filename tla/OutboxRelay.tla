---------------------------- MODULE OutboxRelay ----------------------------
(***************************************************************************)
(* The transactional outbox (workers/outbox_relay.py) between the rows the *)
(* gateway commits and the raw-events topic.  Several relay processes poll *)
(* the same outbox_records table; each poll is one database transaction    *)
(* that locks a batch of rows (FOR UPDATE SKIP LOCKED), publishes them one *)
(* by one, and commits the outcome of the whole batch at the end.          *)
(*                                                                         *)
(* An event is named by the rank of its row's created_at.  created_at is   *)
(* the start of the gateway's transaction, so rows may be committed in any *)
(* order.                                                                  *)
(***************************************************************************)
EXTENDS Integers, FiniteSets

CONSTANTS
    Relays,        \* the relay processes
    Events,        \* the events that may be ingested, ranked by created_at
    BATCH_SIZE,    \* outbox_relay.py: 10
    MAX_ATTEMPTS,  \* outbox_relay.py: 10
    MaxCrashes,    \* bound: how many relay transactions may be lost
    MaxTimeouts,   \* bound: how many acknowledgements may be lost
    MaxOutages,    \* bound: how many times Kafka may go down
    MaxStops       \* bound: how many SIGTERMs may arrive

ASSUME EventsAssumption == Events \subseteq Nat /\ IsFiniteSet(Events)
ASSUME BatchAssumption == BATCH_SIZE \in Nat \ {0}
ASSUME AttemptsAssumption == MAX_ATTEMPTS \in Nat \ {0}
ASSUME BoundsAssumption ==
    /\ MaxCrashes \in Nat
    /\ MaxTimeouts \in Nat
    /\ MaxOutages \in Nat
    /\ MaxStops \in Nat

VARIABLES
    eventStatus,   \* committed events.status; "none": no such row yet
    outboxStatus,  \* committed outbox_records.status
    attempts,      \* committed outbox_records.attempts
    pc,            \* where each relay is in run()
    stop,          \* each relay's _stop event
    producer,      \* get_kafka() is not None, in each relay process
    batch,         \* the rows each relay's open transaction has locked
    todo,          \* of these, the ones its loop has not reached
    sent,          \* the ones published, to be marked "completed"
    erred,         \* the ones whose publish raised
    kafkaUp,       \* the broker answers
    published,     \* copies of each event's message in raw-events
    crashes, timeouts, outages, stops

db == <<eventStatus, outboxStatus, attempts>>
relay == <<pc, stop, producer, batch, todo, sent, erred>>
faults == <<crashes, timeouts, outages, stops>>
vars == <<db, relay, kafkaUp, published, faults>>

TypeOK ==
    /\ eventStatus \in [Events -> {"none", "pending", "queued"}]
    /\ outboxStatus \in [Events -> {"none", "pending", "completed", "failed"}]
    /\ attempts \in [Events -> 0..MAX_ATTEMPTS]
    /\ pc \in [Relays -> {"down", "polling", "publishing"}]
    /\ stop \in [Relays -> BOOLEAN]
    /\ producer \in [Relays -> BOOLEAN]
    /\ batch \in [Relays -> SUBSET Events]
    /\ todo \in [Relays -> SUBSET Events]
    /\ sent \in [Relays -> SUBSET Events]
    /\ erred \in [Relays -> SUBSET Events]
    /\ kafkaUp \in BOOLEAN
    /\ published \in [Events -> Nat]
    /\ crashes \in 0..MaxCrashes
    /\ timeouts \in 0..MaxTimeouts
    /\ outages \in 0..MaxOutages
    /\ stops \in 0..MaxStops

Init ==
    /\ eventStatus = [e \in Events |-> "none"]
    /\ outboxStatus = [e \in Events |-> "none"]
    /\ attempts = [e \in Events |-> 0]
    /\ pc = [r \in Relays |-> "down"]
    /\ stop = [r \in Relays |-> FALSE]
    /\ producer = [r \in Relays |-> FALSE]
    /\ batch = [r \in Relays |-> {}]
    /\ todo = [r \in Relays |-> {}]
    /\ sent = [r \in Relays |-> {}]
    /\ erred = [r \in Relays |-> {}]
    /\ kafkaUp = TRUE
    /\ published = [e \in Events |-> 0]
    /\ crashes = 0 /\ timeouts = 0 /\ outages = 0 /\ stops = 0

-----------------------------------------------------------------------------
(* The gateway commits the event and its outbox record together. *)
Ingest(e) ==
    /\ outboxStatus[e] = "none"
    /\ eventStatus' = [eventStatus EXCEPT ![e] = "pending"]
    /\ outboxStatus' = [outboxStatus EXCEPT ![e] = "pending"]
    /\ UNCHANGED <<attempts, relay, kafkaUp, published, faults>>

(* The process comes up; init_kafka leaves no producer when the broker is   *)
(* unreachable, and nothing calls it again before the next restart.         *)
Start(r) ==
    /\ pc[r] = "down"
    /\ pc' = [pc EXCEPT ![r] = "polling"]
    /\ stop' = [stop EXCEPT ![r] = FALSE]
    /\ producer' = [producer EXCEPT ![r] = kafkaUp]
    /\ UNCHANGED <<db, batch, todo, sent, erred, kafkaUp, published, faults>>

Locked == UNION {batch[r] : r \in Relays}

(* SKIP LOCKED dropped: rows another transaction is working on are selected *)
AvailableIgnoringLocks == {e \in Events : outboxStatus[e] = "pending"}

(* WHERE status = 'pending' ... FOR UPDATE SKIP LOCKED *)
Available == {e \in Events : outboxStatus[e] = "pending" /\ e \notin Locked}

(* ORDER BY created_at LIMIT n *)
Oldest(S, n) == {e \in S : Cardinality({x \in S : x < e}) < n}

(* The select of one iteration. *)
Poll(r) ==
    /\ pc[r] = "polling" /\ ~stop[r]
    /\ Available # {}
    /\ LET rows == Oldest(Available, BATCH_SIZE)
       IN  /\ batch' = [batch EXCEPT ![r] = rows]
           /\ todo' = [todo EXCEPT ![r] = rows]
    /\ pc' = [pc EXCEPT ![r] = "publishing"]
    /\ UNCHANGED <<db, stop, producer, sent, erred, kafkaUp, published, faults>>

(* if not records: the relay sleeps and polls again, nothing has changed. *)
Sleep(r) ==
    /\ pc[r] = "polling" /\ ~stop[r]
    /\ Available = {}
    /\ UNCHANGED vars

(* The loop is at record e: the oldest row of the batch not yet handled. *)
AtRecord(r, e) ==
    /\ pc[r] = "publishing" /\ ~stop[r]
    /\ e \in todo[r]
    /\ \A x \in todo[r] : e <= x

Reaches(r) == producer[r] /\ kafkaUp

(* An error path that marks the record as published all the same. *)
PublishFailsMarkedSent(r, e) ==
    /\ AtRecord(r, e)
    /\ ~Reaches(r)
    /\ todo' = [todo EXCEPT ![r] = @ \ {e}]
    /\ sent' = [sent EXCEPT ![r] = @ \cup {e}]
    /\ UNCHANGED <<db, pc, stop, producer, batch, erred, kafkaUp, published, faults>>

(* send_and_wait returns: the message is in the topic. *)
PublishOk(r, e) ==
    /\ AtRecord(r, e)
    /\ Reaches(r)
    /\ published' = [published EXCEPT ![e] = @ + 1]
    /\ todo' = [todo EXCEPT ![r] = @ \ {e}]
    /\ sent' = [sent EXCEPT ![r] = @ \cup {e}]
    /\ UNCHANGED <<db, pc, stop, producer, batch, erred, kafkaUp, faults>>

(* _publish raises: no producer in this process, or the broker is down. *)
PublishFails(r, e) ==
    /\ AtRecord(r, e)
    /\ ~Reaches(r)
    /\ todo' = [todo EXCEPT ![r] = @ \ {e}]
    /\ erred' = [erred EXCEPT ![r] = @ \cup {e}]
    /\ UNCHANGED <<db, pc, stop, producer, batch, sent, kafkaUp, published, faults>>

(* send_and_wait raises although the broker stored the message. *)
PublishTimesOut(r, e) ==
    /\ AtRecord(r, e)
    /\ Reaches(r)
    /\ timeouts < MaxTimeouts
    /\ timeouts' = timeouts + 1
    /\ published' = [published EXCEPT ![e] = @ + 1]
    /\ todo' = [todo EXCEPT ![r] = @ \ {e}]
    /\ erred' = [erred EXCEPT ![r] = @ \cup {e}]
    /\ UNCHANGED <<db, pc, stop, producer, batch, sent, kafkaUp,
                   crashes, outages, stops>>

(* The transaction ends and with it the locks it holds. *)
Release(r) ==
    /\ batch' = [batch EXCEPT ![r] = {}]
    /\ todo' = [todo EXCEPT ![r] = {}]
    /\ sent' = [sent EXCEPT ![r] = {}]
    /\ erred' = [erred EXCEPT ![r] = {}]

Exhausted(e) == attempts[e] + 1 >= MAX_ATTEMPTS

(* What the commit writes to the outbox row of e. *)
SettledStatus(r, e) ==
    CASE e \in sent[r]                  -> "completed"
      [] e \in erred[r] /\ Exhausted(e) -> "failed"
      [] OTHER                          -> outboxStatus[e]

(* A stopped relay leaves the loop without committing what it published. *)
CommitUnlessStopped(r) ==
    /\ pc[r] = "publishing"
    /\ todo[r] = {} \/ stop[r]
    /\ IF stop[r]
       THEN UNCHANGED db
       ELSE /\ outboxStatus' = [e \in Events |-> SettledStatus(r, e)]
            /\ eventStatus' = [e \in Events |->
                    IF e \in sent[r] THEN "queued" ELSE eventStatus[e]]
            /\ attempts' = [e \in Events |->
                    IF e \in erred[r] THEN attempts[e] + 1 ELSE attempts[e]]
    /\ Release(r)
    /\ pc' = [pc EXCEPT ![r] = "polling"]
    /\ UNCHANGED <<stop, producer, kafkaUp, published, faults>>

(* A failed try is not counted: the record is tried for ever. *)
CommitUncounted(r) ==
    /\ pc[r] = "publishing"
    /\ todo[r] = {} \/ stop[r]
    /\ outboxStatus' = [e \in Events |-> SettledStatus(r, e)]
    /\ eventStatus' = [e \in Events |->
            IF e \in sent[r] THEN "queued" ELSE eventStatus[e]]
    /\ Release(r)
    /\ pc' = [pc EXCEPT ![r] = "polling"]
    /\ UNCHANGED <<attempts, stop, producer, kafkaUp, published, faults>>

(* The commit at the end of the batch, or after the break on _stop. *)
Commit(r) ==
    /\ pc[r] = "publishing"
    /\ todo[r] = {} \/ stop[r]
    /\ outboxStatus' = [e \in Events |-> SettledStatus(r, e)]
    /\ eventStatus' = [e \in Events |->
            IF e \in sent[r] THEN "queued" ELSE eventStatus[e]]
    /\ attempts' = [e \in Events |->
            IF e \in erred[r] THEN attempts[e] + 1 ELSE attempts[e]]
    /\ Release(r)
    /\ pc' = [pc EXCEPT ![r] = "polling"]
    /\ UNCHANGED <<stop, producer, kafkaUp, published, faults>>

(* SIGTERM: _handle_signal sets _stop, the loops notice it later. *)
Signal(r) ==
    /\ pc[r] # "down" /\ ~stop[r]
    /\ stops < MaxStops
    /\ stops' = stops + 1
    /\ stop' = [stop EXCEPT ![r] = TRUE]
    /\ UNCHANGED <<db, pc, producer, batch, todo, sent, erred, kafkaUp,
                   published, crashes, timeouts, outages>>

(* while not _stop.is_set() ends: close_kafka, and the process exits. *)
Exit(r) ==
    /\ pc[r] = "polling" /\ stop[r]
    /\ pc' = [pc EXCEPT ![r] = "down"]
    /\ producer' = [producer EXCEPT ![r] = FALSE]
    /\ UNCHANGED <<db, stop, batch, todo, sent, erred, kafkaUp, published, faults>>

(* The process dies, or a database call raises out of run(): the open      *)
(* transaction rolls back, what it published stays in the topic.           *)
Crash(r) ==
    /\ pc[r] # "down"
    /\ crashes < MaxCrashes
    /\ crashes' = crashes + 1
    /\ pc' = [pc EXCEPT ![r] = "down"]
    /\ producer' = [producer EXCEPT ![r] = FALSE]
    /\ Release(r)
    /\ UNCHANGED <<db, stop, kafkaUp, published, timeouts, outages, stops>>

KafkaGoesDown ==
    /\ kafkaUp
    /\ outages < MaxOutages
    /\ outages' = outages + 1
    /\ kafkaUp' = FALSE
    /\ UNCHANGED <<db, relay, published, crashes, timeouts, stops>>

KafkaRecovers ==
    /\ ~kafkaUp
    /\ kafkaUp' = TRUE
    /\ UNCHANGED <<db, relay, published, faults>>

-----------------------------------------------------------------------------
RelayStep(r) ==
    \/ Start(r)
    \/ Poll(r)
    \/ Sleep(r)
    \/ \E e \in Events : PublishOk(r, e) \/ PublishFails(r, e)
    \/ Commit(r)
    \/ Exit(r)

Fault(r) ==
    \/ \E e \in Events : PublishTimesOut(r, e)
    \/ Signal(r)
    \/ Crash(r)

Next ==
    \/ \E e \in Events : Ingest(e)
    \/ \E r \in Relays : RelayStep(r) \/ Fault(r)
    \/ KafkaGoesDown
    \/ KafkaRecovers

Spec == Init /\ [][Next]_vars

(* A relay that can take a step of its own takes it, and one that ended is *)
(* started again (docker-compose.yml: restart: unless-stopped).  Nothing is *)
(* assumed of Kafka, nor of senders.                                        *)
FairSpec == Spec /\ \A r \in Relays : WF_vars(RelayStep(r))

-----------------------------------------------------------------------------
(* A record is "completed", and its event "queued", only when its message   *)
(* is in raw-events: neither an error path, a rollback nor another relay's  *)
(* commit may mark a row whose publish did not happen.                      *)
QueuedIsPublished ==
    \A e \in Events :
        /\ outboxStatus[e] = "completed" => published[e] > 0
        /\ eventStatus[e] = "queued" <=> outboxStatus[e] = "completed"

(* Only a lost transaction or a lost acknowledgement makes a second copy:   *)
(* concurrent relays, graceful stops and Kafka outages never do.            *)
CopiesBoundedByFaults ==
    \A e \in Events : published[e] <= 1 + crashes + timeouts

(* A record is given up exactly when MAX_ATTEMPTS committed tries failed,   *)
(* and not before; a pending record always has a try left.                  *)
GivenUpAtMaxAttempts ==
    \A e \in Events :
        /\ outboxStatus[e] = "failed" => attempts[e] = MAX_ATTEMPTS
        /\ outboxStatus[e] = "pending" => attempts[e] < MAX_ATTEMPTS

(* Two open transactions never work on the same row, and what a transaction *)
(* works on is still pending in the database.                               *)
RowsOwnedOnce ==
    \A r \in Relays : \A e \in batch[r] :
        /\ outboxStatus[e] = "pending"
        /\ \A q \in Relays \ {r} : e \notin batch[q]

(* What is committed is never taken back: a settled record stays settled    *)
(* and no relay, crash or restart lowers a record's attempts.               *)
SettledForGood ==
    [][\A e \in Events :
        /\ outboxStatus[e] \in {"completed", "failed"} =>
                outboxStatus'[e] = outboxStatus[e]
        /\ attempts'[e] \in {attempts[e], attempts[e] + 1}]_vars

O == INSTANCE Outbox WITH
        Records <- Events, row <- outboxStatus, tries <- attempts,
        copies <- published, lapses <- crashes + timeouts

(* The relays together keep the promise of Outbox: whatever batches they    *)
(* lock and lose, no record is published once it is settled, or twice       *)
(* without a fault in between, or settled by a transaction that did not     *)
(* publish it.                                                              *)
OutboxImplemented == O!Spec

(* No row is left behind: the oldest rows of the table cannot starve the    *)
(* later ones, however many of them fail, and a row locked by a relay that  *)
(* died is taken by another.                                                *)
EventuallySettled ==
    \A e \in Events :
        outboxStatus[e] = "pending" ~> outboxStatus[e] \in {"completed", "failed"}

=============================================================================
