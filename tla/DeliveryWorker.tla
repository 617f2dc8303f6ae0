--------------------------- MODULE DeliveryWorker ---------------------------
(***************************************************************************)
(* The consumer of transformed-events (workers/delivery_worker.py): one    *)
(* task per message, and the consumer group's offset committed by whichever *)
(* task finishes.  One partition; its messages are 1, 2, ... in order.  A  *)
(* delivery itself (_deliver_with_retry) is one step here, see Delivery.   *)
(***************************************************************************)
EXTENDS Integers, FiniteSets

CONSTANTS
    N,           \* bound: how many messages are ever produced
    Malformed,   \* the ones without an event_id, route_id or url
    SEMAPHORE,   \* _GLOBAL_SEMAPHORE: 50
    MaxCrashes,  \* bound: how often the worker may die
    MaxStops,    \* bound: how many SIGTERMs may arrive
    MaxErrors    \* bound: how many deliveries and commits may raise

ASSUME NAssumption == N \in Nat
ASSUME SemaphoreAssumption == SEMAPHORE \in Nat \ {0}
ASSUME BoundsAssumption ==
    /\ Malformed \subseteq 1..N
    /\ MaxCrashes \in Nat /\ MaxStops \in Nat /\ MaxErrors \in Nat

Messages == 1..N

VARIABLES
    end,        \* messages 1..end are in the partition
    committed,  \* messages 1..committed are behind the group's offset
    position,   \* messages 1..position were handed to the loop
    loop,       \* "down", "consuming" or "draining"
    stop,       \* _stop is set
    task,       \* what has become of each message's task in this run
    settled,    \* messages whose _deliver_with_retry has returned, ever
    raised,     \* messages whose _deliver_with_retry has raised, ever
    starts,     \* how many tasks each message has had
    crashes, stops, errors

faults == <<crashes, stops, errors>>
vars == <<end, committed, position, loop, stop, task, settled, raised, starts, faults>>

TypeOK ==
    /\ end \in 0..N
    /\ committed \in 0..N
    /\ position \in 0..N
    /\ loop \in {"down", "consuming", "draining"}
    /\ stop \in BOOLEAN
    /\ task \in [Messages -> {"none", "waiting", "running", "committing"}]
    /\ settled \subseteq Messages
    /\ raised \subseteq Messages
    /\ starts \in [Messages -> Nat]
    /\ crashes \in 0..MaxCrashes
    /\ stops \in 0..MaxStops
    /\ errors \in 0..MaxErrors

Init ==
    /\ end = 0
    /\ committed = 0
    /\ position = 0
    /\ loop = "down"
    /\ stop = FALSE
    /\ task = [m \in Messages |-> "none"]
    /\ settled = {}
    /\ raised = {}
    /\ starts = [m \in Messages |-> 0]
    /\ crashes = 0 /\ stops = 0 /\ errors = 0

-----------------------------------------------------------------------------
Becomes(m, what) == task' = [task EXCEPT ![m] = what]

(* The transform worker appends a message. *)
Produce ==
    /\ end < N
    /\ end' = end + 1
    /\ UNCHANGED <<committed, position, loop, stop, task, settled, raised, starts, faults>>

(* The consumer starts again from the beginning of the partition. *)
StartFromEarliest ==
    /\ loop = "down"
    /\ loop' = "consuming"
    /\ stop' = FALSE
    /\ position' = 0
    /\ UNCHANGED <<end, committed, task, settled, raised, starts, faults>>

(* A restarted consumer begins at the end of the partition. *)
StartFromLatest ==
    /\ loop = "down"
    /\ loop' = "consuming"
    /\ stop' = FALSE
    /\ position' = end
    /\ UNCHANGED <<end, committed, task, settled, raised, starts, faults>>

(* The process starts and reads on from the committed offset. *)
Start ==
    /\ loop = "down"
    /\ loop' = "consuming"
    /\ stop' = FALSE
    /\ position' = committed
    /\ UNCHANGED <<end, committed, task, settled, raised, starts, faults>>

(* async for: the next message.  When _stop is set the loop breaks and the  *)
(* message it holds is not handled; a malformed one is skipped.             *)
Take ==
    /\ loop = "consuming"
    /\ position < end
    /\ position' = position + 1
    /\ CASE stop -> loop' = "draining" /\ UNCHANGED <<task, starts>>
         [] ~stop /\ position' \in Malformed -> UNCHANGED <<loop, task, starts>>
         [] OTHER ->
                /\ Becomes(position', "waiting")
                /\ starts' = [starts EXCEPT ![position'] = @ + 1]
                /\ UNCHANGED loop
    /\ UNCHANGED <<end, committed, stop, settled, raised, faults>>

Holders == {m \in Messages : task[m] \in {"running", "committing"}}

(* A task that does not wait for the semaphore. *)
AcquireUnbounded(m) ==
    /\ task[m] = "waiting"
    /\ Becomes(m, "running")
    /\ UNCHANGED <<end, committed, position, loop, stop, settled, raised, starts, faults>>

(* async with _GLOBAL_SEMAPHORE *)
Acquire(m) ==
    /\ task[m] = "waiting"
    /\ Cardinality(Holders) < SEMAPHORE
    /\ Becomes(m, "running")
    /\ UNCHANGED <<end, committed, position, loop, stop, settled, raised, starts, faults>>

(* The task commits before its delivery has ended. *)
SettleBeforehand(m) ==
    /\ task[m] = "running"
    /\ Becomes(m, "committing")
    /\ UNCHANGED <<end, committed, position, loop, stop, settled, raised, starts, faults>>

(* _deliver_with_retry returns, delivered or given up. *)
Settle(m) ==
    /\ task[m] = "running"
    /\ Becomes(m, "committing")
    /\ settled' = settled \cup {m}
    /\ UNCHANGED <<end, committed, position, loop, stop, raised, starts, faults>>

(* It raises: the error is logged and nothing is committed. *)
DeliveryRaises(m) ==
    /\ task[m] = "running"
    /\ errors < MaxErrors
    /\ errors' = errors + 1
    /\ Becomes(m, "none")
    /\ raised' = raised \cup {m}
    /\ UNCHANGED <<end, committed, position, loop, stop, settled, starts, crashes, stops>>

(* consumer.commit() without arguments: the position of the consumer, which *)
(* is behind every message taken, not only behind this task's.              *)
Commit(m) ==
    /\ task[m] = "committing"
    /\ committed' = position
    /\ Becomes(m, "none")
    /\ UNCHANGED <<end, position, loop, stop, settled, raised, starts, faults>>

(* The commit raises and is logged. *)
CommitFails(m) ==
    /\ task[m] = "committing"
    /\ errors < MaxErrors
    /\ errors' = errors + 1
    /\ Becomes(m, "none")
    /\ UNCHANGED <<end, committed, position, loop, stop, settled, raised, starts,
                   crashes, stops>>

(* SIGTERM sets _stop; the loop sees it when it has its next message. *)
Signal ==
    /\ loop = "consuming" /\ ~stop
    /\ stops < MaxStops
    /\ stops' = stops + 1
    /\ stop' = TRUE
    /\ UNCHANGED <<end, committed, position, loop, task, settled, raised, starts,
                   crashes, errors>>

(* gather returns; the consumer stops without a commit. *)
Exit ==
    /\ loop = "draining"
    /\ \A m \in Messages : task[m] = "none"
    /\ loop' = "down"
    /\ UNCHANGED <<end, committed, position, stop, task, settled, raised, starts, faults>>

(* The process dies with its tasks. *)
Crash ==
    /\ loop # "down"
    /\ crashes < MaxCrashes
    /\ crashes' = crashes + 1
    /\ loop' = "down"
    /\ task' = [m \in Messages |-> "none"]
    /\ UNCHANGED <<end, committed, position, stop, settled, raised, starts, stops, errors>>

-----------------------------------------------------------------------------
TaskStep(m) ==
    \/ Acquire(m)
    \/ Settle(m)
    \/ Commit(m)

Next ==
    \/ Produce
    \/ Start
    \/ Take
    \/ \E m \in Messages : TaskStep(m) \/ DeliveryRaises(m) \/ CommitFails(m)
    \/ Signal
    \/ Exit
    \/ Crash

Spec == Init /\ [][Next]_vars

-----------------------------------------------------------------------------
(* No more deliveries run at once than the semaphore admits, a message that *)
(* has a task was taken in this run, and it has no second one.              *)
TasksBounded ==
    /\ Cardinality(Holders) <= SEMAPHORE
    /\ \A m \in Messages : task[m] # "none" => m <= position /\ loop # "down"
    /\ \A m \in Messages : starts[m] <= 1 + crashes + stops

(* A message behind the committed offset has been dealt with, or its task   *)
(* is still alive, or a crash, a stop or an exception took it: nothing else *)
(* loses a message.                                                         *)
LostOnlyByFaults ==
    crashes + stops = 0 =>
        \A m \in 1..committed :
            m \in Malformed \cup settled \cup raised \/ task[m] # "none"

(* The offset of the group never goes back. *)
OffsetMonotone == [][committed' >= committed]_committed

=============================================================================
