------------------------------- MODULE Events -------------------------------
(***************************************************************************)
(* The events table once an event has been published: replay, discard and  *)
(* restore and the dead-letter list of the API (api/events.py), the retry  *)
(* scheduler (workers/retry_scheduler.py), and the delivery attempts they  *)
(* are about.  An API call reads in one step and commits in a later one.   *)
(***************************************************************************)
EXTENDS Integers, FiniteSets, Sequences, SequencesExt

CONSTANTS
    Events,      \* the events that may be ingested
    NoEvent,     \* there is no such row
    Clients,     \* connections of the API, one call at a time on each
    LIMIT,       \* retry_scheduler.py: 50 rows in a transaction
    MaxActs      \* bound: calls, markings and lapses, together

ASSUME LimitAssumption == LIMIT \in Nat \ {0}
ASSUME ActsAssumption == MaxActs \in Nat

VARIABLES
    event,      \* the committed rows
    attempts,   \* the rows of delivery_attempts
    raw,        \* what was published to raw-events
    call,       \* the call each client has under way
    scheduler,  \* where the retry scheduler is: "down", "idle" or "sending"
    producer,   \* get_kafka() is not None in its process
    picked,     \* rows locked by its transaction
    todo,       \* of these, the ones not yet sent
    sent,       \* the ones sent
    replays,    \* history: replays answered 202, per event
    requeues,   \* history: committed re-queuings, per event
    calls, marks,
    lapses      \* lost transactions and lost acknowledgements

scheduling == <<scheduler, producer, picked, todo, sent>>
history == <<replays, requeues>>
eventBounds == <<calls, marks, lapses>>
eventVars == <<event, attempts, raw, call, scheduling, history, eventBounds>>

Idle == [op |-> "none"]

Rows == [status : {"queued", "failed"}, retry : {"none", "due", "later"},
         discarded : BOOLEAN, stamped : BOOLEAN]

ASSUME NoEventAssumption == NoEvent \notin Rows

EventsTypeOK ==
    /\ event \in [Events -> Rows \cup {NoEvent}]
    /\ raw \in Seq(Events)
    /\ scheduler \in {"down", "idle", "sending"}
    /\ producer \in BOOLEAN
    /\ picked \subseteq Events /\ todo \subseteq picked /\ sent \subseteq picked \ todo
    /\ replays \in [Events -> Nat] /\ requeues \in [Events -> Nat]
    /\ calls \in Nat /\ marks \in Nat /\ lapses \in Nat /\ calls + marks + lapses <= MaxActs

EventsInit ==
    /\ event = [e \in Events |-> NoEvent]
    /\ attempts = {}
    /\ raw = <<>>
    /\ call = [c \in Clients |-> Idle]
    /\ scheduler = "down" /\ producer = FALSE
    /\ picked = {} /\ todo = {} /\ sent = {}
    /\ replays = [e \in Events |-> 0] /\ requeues = [e \in Events |-> 0]
    /\ calls = 0 /\ marks = 0 /\ lapses = 0

-----------------------------------------------------------------------------
Stored(e) == event[e] # NoEvent

(* Gateway and outbox relay: a row, and its message in raw-events. *)
Store(e) ==
    /\ event[e] = NoEvent
    /\ event' = [event EXCEPT ![e] =
            [status |-> "queued", retry |-> "none", discarded |-> FALSE, stamped |-> FALSE]]
    /\ raw' = Append(raw, e)
    /\ UNCHANGED <<attempts, call, scheduling, history, eventBounds>>

MayAct == calls + marks + lapses < MaxActs

(* A call has read what it needs and goes on. *)
Begin(c, request) ==
    /\ call[c] = Idle
    /\ MayAct
    /\ calls' = calls + 1
    /\ call' = [call EXCEPT ![c] = request]

(* It is answered. *)
Answer(c) == call' = [call EXCEPT ![c] = Idle]

BeginEventCall(c, e) ==
    /\ Stored(e)
    /\ \/ ~event[e].discarded /\ Begin(c, [op |-> "discard", event |-> e])
       \/ Begin(c, [op |-> "restore", event |-> e, seen |-> event[e]])
       \/ Begin(c, [op |-> "replay", event |-> e])
    /\ UNCHANGED <<event, attempts, raw, scheduling, history,
                   marks, lapses>>

(* Restoring forgets the time stamp. *)
RestoredHalf(row, seen) ==
    [row EXCEPT !.discarded = IF seen.discarded THEN FALSE ELSE @]

(* restore_dlq_event writes a column only when what it read was otherwise.  *)
Restored(row, seen) ==
    [row EXCEPT !.discarded = IF seen.discarded THEN FALSE ELSE @,
                !.stamped = IF seen.stamped THEN FALSE ELSE @]

(* Calls do not wait for the scheduler's row locks. *)
CommitEventCallUnlocked(c) ==
    /\ call[c].op \in {"discard", "restore"}
    /\ event' = [event EXCEPT ![call[c].event] =
            IF call[c].op = "discard"
            THEN [@ EXCEPT !.discarded = TRUE, !.stamped = TRUE]
            ELSE Restored(@, call[c].seen)]
    /\ Answer(c)
    /\ UNCHANGED <<attempts, raw, scheduling, history, eventBounds>>

(* The UPDATE of discard or restore; it waits for the scheduler's locks. *)
CommitEventCall(c) ==
    /\ call[c].op \in {"discard", "restore"}
    /\ call[c].event \notin picked
    /\ event' = [event EXCEPT ![call[c].event] =
            IF call[c].op = "discard"
            THEN [@ EXCEPT !.discarded = TRUE, !.stamped = TRUE]
            ELSE Restored(@, call[c].seen)]
    /\ Answer(c)
    /\ UNCHANGED <<attempts, raw, scheduling, history, eventBounds>>

(* replay_event publishes what it read before, with no look at the row. *)
Replay(c) ==
    /\ call[c].op = "replay"
    /\ raw' = Append(raw, call[c].event)
    /\ replays' = [replays EXCEPT ![call[c].event] = @ + 1]
    /\ Answer(c)
    /\ UNCHANGED <<event, attempts, scheduling, requeues, eventBounds>>

(* 503: there is no producer, nothing could be published, or only the       *)
(* acknowledgement is missing.                                              *)
ReplayFails(c) ==
    /\ call[c].op = "replay"
    /\ Answer(c)
    /\ \/ UNCHANGED <<raw, lapses>>
       \/ /\ MayAct
          /\ lapses' = lapses + 1
          /\ raw' = Append(raw, call[c].event)
    /\ UNCHANGED <<event, attempts, scheduling, history, calls, marks>>

-----------------------------------------------------------------------------
(* init_kafka is called once; without a broker there is no producer. *)
StartScheduler ==
    /\ scheduler = "down"
    /\ scheduler' = "idle"
    /\ producer' \in BOOLEAN
    /\ UNCHANGED <<event, attempts, raw, call, picked, todo, sent, history,
                   eventBounds>>

Due == {e \in Events : Stored(e) /\ event[e].status = "failed"
                        /\ event[e].retry = "due" /\ ~event[e].discarded}

(* SELECT ... FOR UPDATE SKIP LOCKED LIMIT, in no particular order. *)
Pick(S) ==
    /\ scheduler = "idle" /\ producer
    /\ S # {} /\ S \subseteq Due
    /\ Cardinality(S) = LIMIT \/ (S = Due /\ Cardinality(S) < LIMIT)
    /\ scheduler' = "sending"
    /\ picked' = S /\ todo' = S
    /\ UNCHANGED <<event, attempts, raw, call, producer, sent, history,
                   eventBounds>>

(* send_and_wait returns, or it raises; in that case the broker may have    *)
(* stored the message all the same.                                         *)
Send(e) ==
    /\ e \in todo
    /\ todo' = todo \ {e}
    /\ \/ /\ raw' = Append(raw, e)
          /\ sent' = sent \cup {e}
          /\ UNCHANGED lapses
       \/ UNCHANGED <<raw, sent, lapses>>
       \/ /\ MayAct
          /\ lapses' = lapses + 1
          /\ raw' = Append(raw, e)
          /\ UNCHANGED sent
    /\ UNCHANGED <<event, attempts, call, scheduler, producer, picked, history,
                   calls, marks>>

Release == picked' = {} /\ todo' = {} /\ sent' = {}

(* Every row of the batch counts as sent. *)
CommitAllRequeued ==
    /\ scheduler = "sending" /\ todo = {}
    /\ event' = [e \in Events |->
            IF e \in picked THEN [event[e] EXCEPT !.status = "queued", !.retry = "none"]
            ELSE event[e]]
    /\ requeues' = [e \in Events |-> IF e \in picked THEN requeues[e] + 1 ELSE requeues[e]]
    /\ scheduler' = "idle"
    /\ Release
    /\ UNCHANGED <<attempts, raw, call, producer, replays, eventBounds>>

(* One commit for the batch: sent rows are queued, the others wait. *)
CommitRequeues ==
    /\ scheduler = "sending" /\ todo = {}
    /\ event' = [e \in Events |->
            CASE e \in sent -> [event[e] EXCEPT !.status = "queued", !.retry = "none"]
              [] e \in picked \ sent -> [event[e] EXCEPT !.retry = "later"]
              [] OTHER -> event[e]]
    /\ requeues' = [e \in Events |-> IF e \in sent THEN requeues[e] + 1 ELSE requeues[e]]
    /\ scheduler' = "idle"
    /\ Release
    /\ UNCHANGED <<attempts, raw, call, producer, replays, eventBounds>>

(* The process dies, or the commit raises and the loop goes on: either way *)
(* the transaction is rolled back, what was sent stays in the topic.        *)
LoseTransaction ==
    /\ scheduler # "down"
    /\ MayAct
    /\ lapses' = lapses + 1
    /\ \/ scheduler' = "down" /\ producer' = FALSE
       \/ scheduler = "sending" /\ scheduler' = "idle" /\ UNCHANGED producer
    /\ Release
    /\ UNCHANGED <<event, attempts, raw, call, history, calls, marks>>

(* retry_at is reached. *)
ComesDue(e) ==
    /\ Stored(e) /\ event[e].retry = "later"
    /\ event' = [event EXCEPT ![e].retry = "due"]
    /\ UNCHANGED <<attempts, raw, call, scheduling, history, eventBounds>>

(* No code here sets status = 'failed' with a retry_at: somebody else does. *)
MarkFailed(e) ==
    /\ Stored(e) /\ event[e].status = "queued"
    /\ MayAct
    /\ marks' = marks + 1
    /\ event' = [event EXCEPT ![e].status = "failed", ![e].retry = "later"]
    /\ UNCHANGED <<attempts, raw, call, scheduling, history,
                   calls, lapses>>

-----------------------------------------------------------------------------
(* However discards and restores of one event overlap, discarded_at is set  *)
(* exactly while is_discarded is.                                           *)
DiscardStamped ==
    \A e \in Events : Stored(e) => (event[e].discarded <=> event[e].stamped)

(* What the scheduler is sending is still failed and not discarded in the   *)
(* database: nobody can discard it under its hands.                         *)
PickedRowsHold ==
    \A e \in picked : event[e].status = "failed" /\ ~event[e].discarded

Copies(e) == Cardinality({i \in DOMAIN raw : raw[i] = e})

(* Each ingestion, replay and committed re-queuing is a message, and only a *)
(* lost transaction or acknowledgement makes one that is not accounted for. *)
CopiesAccounted ==
    \A e \in Events : Stored(e) =>
        LET due == 1 + replays[e] + requeues[e]
        IN  /\ Copies(e) >= due
            /\ Copies(e) <= due + lapses + IF e \in sent THEN 1 ELSE 0

=============================================================================
