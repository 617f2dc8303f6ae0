--------------------------- MODULE TransformWorker ---------------------------
(***************************************************************************)
(* The consumer of raw-events (workers/transform_worker.py): one message   *)
(* at a time it reads the event and its active routes, filters and         *)
(* transforms per route, produces to transformed-events, then commits the  *)
(* offset.  One partition; its messages are 1, 2, ... in order.            *)
(***************************************************************************)
EXTENDS Integers, FiniteSets

CONSTANTS
    N,                  \* bound: how many messages are ever produced
    Malformed,          \* the ones without an event_id or endpoint_id
    Unknown,            \* the ones whose event is not in the database
    Routes,             \* the routes of the endpoint
    MaxCrashes,         \* bound: how often the worker may die
    MaxStops,           \* bound: how many SIGTERMs may arrive
    MaxFailures,        \* bound: how many lookups and sends may raise
    MaxCommitFailures,  \* bound: how many offset commits may raise
    MaxEdits            \* bound: how many times a route is switched on or off

Messages == 1..N

VARIABLES
    passes,     \* the routes whose filter and pipeline let each message through
    end,        \* messages 1..end are in the partition
    committed,  \* messages 1..committed are behind the group's offset
    position,   \* messages 1..position were handed to the loop
    loop,       \* where run() is; the message in hand is the one at position
    stop,       \* _stop is set
    active,     \* routes with is_active
    todo,       \* routes of the message in hand not yet dispatched
    selected,   \* history: routes a message was last looked up with
    sent,       \* copies in transformed-events, per message and route
    crashes, stops, failures, commitFailures, edits

log == <<end, committed, position>>
faults == <<crashes, stops, failures, commitFailures, edits>>
vars == <<passes, log, loop, stop, active, todo, selected, sent, faults>>

TypeOK ==
    /\ passes \in [Messages -> SUBSET Routes]
    /\ end \in 0..N /\ committed \in 0..N /\ position \in 0..N
    /\ loop \in {"down", "taking", "looking", "dispatching", "committing"}
    /\ stop \in BOOLEAN
    /\ active \subseteq Routes
    /\ todo \subseteq Routes
    /\ selected \in [Messages -> SUBSET Routes]
    /\ sent \in [Messages -> [Routes -> Nat]]
    /\ crashes \in 0..MaxCrashes /\ stops \in 0..MaxStops
    /\ failures \in 0..MaxFailures
    /\ commitFailures \in 0..MaxCommitFailures
    /\ edits \in 0..MaxEdits

Init ==
    /\ passes \in [Messages -> SUBSET Routes]
    /\ \A m \in Malformed \cup Unknown : passes[m] = {}  \* they never get there
    /\ end = 0 /\ committed = 0 /\ position = 0
    /\ loop = "down"
    /\ stop = FALSE
    /\ active = Routes
    /\ todo = {}
    /\ selected = [m \in Messages |-> {}]
    /\ sent = [m \in Messages |-> [r \in Routes |-> 0]]
    /\ crashes = 0 /\ stops = 0 /\ failures = 0 /\ commitFailures = 0 /\ edits = 0

-----------------------------------------------------------------------------
(* The outbox relay, the retry scheduler or a replay appends a message. *)
Produce ==
    /\ end < N
    /\ end' = end + 1
    /\ UNCHANGED <<passes, committed, position, loop, stop, active, todo, selected,
                   sent, faults>>

(* The process starts and reads on from the committed offset. *)
Start ==
    /\ loop = "down"
    /\ loop' = "taking"
    /\ stop' = FALSE
    /\ position' = committed
    /\ UNCHANGED <<passes, end, committed, active, todo, selected, sent, faults>>

(* async for: the next message.  When _stop is set the loop breaks and the  *)
(* process ends without committing it.                                      *)
Take ==
    /\ loop = "taking"
    /\ position < end
    /\ position' = position + 1
    /\ loop' = CASE stop -> "down"
                 [] ~stop /\ position' \in Malformed -> "committing"
                 [] OTHER -> "looking"
    /\ UNCHANGED <<passes, end, committed, stop, active, todo, selected, sent, faults>>

(* _process_event: the event's active routes; with none nothing is sent. *)
Lookup ==
    /\ loop = "looking" /\ position \notin Unknown
    /\ todo' = active
    /\ selected' = [selected EXCEPT ![position] = active]
    /\ loop' = IF active = {} THEN "committing" ELSE "dispatching"
    /\ UNCHANGED <<passes, log, stop, active, sent, faults>>

(* There is no such event: the message is skipped. *)
LookupMisses ==
    /\ loop = "looking" /\ position \in Unknown
    /\ loop' = "committing"
    /\ UNCHANGED <<passes, log, stop, active, todo, selected, sent, faults>>

(* The offset is committed as soon as the first route has its message. *)
AfterFirstRoute(r) == "committing"

AfterRoute(r) == IF todo = {r} THEN "committing" ELSE "dispatching"

(* _dispatch_route: a route whose filter says no, or whose pipeline raises, *)
(* is passed over; for the others send_and_wait returns.                    *)
Dispatch(r) ==
    /\ loop = "dispatching"
    /\ r \in todo
    /\ todo' = todo \ {r}
    /\ sent' = IF r \in passes[position]
               THEN [sent EXCEPT ![position][r] = @ + 1]
               ELSE sent
    /\ loop' = AfterRoute(r)
    /\ UNCHANGED <<passes, log, stop, active, selected, faults>>

(* The database read or a send_and_wait raises: _handle_message logs it,    *)
(* the routes not yet reached are forgotten, the offset is committed.       *)
ProcessingRaises ==
    /\ \/ loop = "looking"
       \/ loop = "dispatching" /\ todo \cap passes[position] # {}
    /\ failures < MaxFailures
    /\ failures' = failures + 1
    /\ todo' = {}
    /\ loop' = "committing"
    /\ UNCHANGED <<passes, log, stop, active, selected, sent,
                   crashes, stops, commitFailures, edits>>

(* A send_and_wait raises although the broker has stored the message. *)
SendUnacknowledged(r) ==
    /\ loop = "dispatching"
    /\ r \in todo \cap passes[position]
    /\ failures < MaxFailures
    /\ failures' = failures + 1
    /\ sent' = [sent EXCEPT ![position][r] = @ + 1]
    /\ todo' = {}
    /\ loop' = "committing"
    /\ UNCHANGED <<passes, log, stop, active, selected,
                   crashes, stops, commitFailures, edits>>

(* The commit at a graceful stop is lost. *)
CommitUnlessStopped ==
    /\ loop = "committing"
    /\ committed' = IF stop THEN committed ELSE position
    /\ loop' = "taking"
    /\ UNCHANGED <<passes, end, position, stop, active, todo, selected, sent, faults>>

(* One past the position is committed. *)
CommitNextOffset ==
    /\ loop = "committing"
    /\ committed' = position + 1
    /\ loop' = "taking"
    /\ UNCHANGED <<passes, end, position, stop, active, todo, selected, sent, faults>>

(* consumer.commit() *)
Commit ==
    /\ loop = "committing"
    /\ committed' = position
    /\ loop' = "taking"
    /\ UNCHANGED <<passes, end, position, stop, active, todo, selected, sent, faults>>

(* The commit raises and is logged; the loop goes on to the next message. *)
CommitFails ==
    /\ loop = "committing"
    /\ commitFailures < MaxCommitFailures
    /\ commitFailures' = commitFailures + 1
    /\ loop' = "taking"
    /\ UNCHANGED <<passes, log, stop, active, todo, selected, sent,
                   crashes, stops, failures, edits>>

(* SIGTERM sets _stop; the loop sees it when it has its next message. *)
Signal ==
    /\ loop # "down" /\ ~stop
    /\ stops < MaxStops
    /\ stops' = stops + 1
    /\ stop' = TRUE
    /\ UNCHANGED <<passes, log, loop, active, todo, selected, sent,
                   crashes, failures, commitFailures, edits>>

(* The process dies. *)
Crash ==
    /\ loop # "down"
    /\ crashes < MaxCrashes
    /\ crashes' = crashes + 1
    /\ loop' = "down"
    /\ todo' = {}
    /\ UNCHANGED <<passes, log, stop, active, selected, sent,
                   stops, failures, commitFailures, edits>>

(* PUT is_active on a route. *)
EditRoute(r) ==
    /\ edits < MaxEdits
    /\ edits' = edits + 1
    /\ active' = IF r \in active THEN active \ {r} ELSE active \cup {r}
    /\ UNCHANGED <<passes, log, loop, stop, todo, selected, sent,
                   crashes, stops, failures, commitFailures>>

-----------------------------------------------------------------------------
WorkerStep ==
    \/ Start
    \/ Take
    \/ Lookup
    \/ LookupMisses
    \/ \E r \in Routes : Dispatch(r)
    \/ ProcessingRaises
    \/ \E r \in Routes : SendUnacknowledged(r)
    \/ Commit
    \/ CommitFails

Next ==
    \/ Produce
    \/ WorkerStep
    \/ Signal
    \/ Crash
    \/ \E r \in Routes : EditRoute(r)

Spec == Init /\ [][Next]_vars

-----------------------------------------------------------------------------
(* A message behind the committed offset has been produced for every route  *)
(* it was looked up with, unless filter or pipeline dropped it, whatever    *)
(* crashes and restarts there were; only a call that raised breaks this.    *)
DispatchedBeforeCommit ==
    failures = 0 =>
        \A m \in 1..committed : \A r \in selected[m] \cap passes[m] :
            sent[m][r] > 0

(* A second copy for the same route is due to a crash or to a commit that   *)
(* raised; a graceful stop and a restart make none.                         *)
CopiesBoundedByFaults ==
    \A m \in Messages, r \in Routes :
        sent[m][r] <= 1 + crashes + commitFailures

(* The loop has gone on from message m. *)
Passed(m) == m < position \/ (m = position /\ loop = "taking")

=============================================================================
