------------------------------ MODULE Delivery ------------------------------
(***************************************************************************)
(* One delivery of one message to one route: _deliver_with_retry in        *)
(* app/delivery/worker.py, its recursion written as a loop over attempts.  *)
(* What the circuit breaker and the limiters answer is left open here (see  *)
(* CircuitBreaker and RateLimiter); any of their calls, and any database   *)
(* call, may raise.                                                        *)
(***************************************************************************)
EXTENDS Integers, Sequences, FiniteSets

CONSTANTS
    Deliveries,           \* the deliveries
    RetrySettings,        \* values of routes.max_retries; any integer is legal
    MAX_RATE_LIMIT_WAITS, \* 5
    HasProducer           \* get_kafka() is not None in this process

ASSUME RetriesAssumption == RetrySettings \subseteq Int
ASSUME WaitsAssumption == MAX_RATE_LIMIT_WAITS \in Nat
ASSUME ProducerAssumption == HasProducer \in BOOLEAN

VARIABLES
    maxRetries,   \* max_retries of the route
    routeLimited, \* rate_limit_rpm is set; in what _dispatch passes it never is
    pc,           \* where the delivery is
    attempt,      \* attempt
    waits,        \* rate_limit_waits
    verdict,      \* what the current attempt has come to
    requests,     \* HTTP requests sent
    rows,         \* the delivery_attempts rows: attempt_number and verdict
    deadLetter    \* deliveries with a message in the dead-letter topic

route == <<maxRetries, routeLimited>>
vars == <<route, pc, attempt, waits, verdict, requests, rows, deadLetter>>

Refusals == {"circuit_breaker_open", "route_rate_limited", "rate_limited_abandoned"}
Answers == {"2xx", "4xx", "5xx", "error", "other"}  \* "other": 1xx and 3xx
Failing == {"5xx", "error"}

TypeOK ==
    /\ maxRetries \in [Deliveries -> RetrySettings]
    /\ routeLimited \in [Deliveries -> BOOLEAN]
    /\ pc \in [Deliveries -> {"circuit", "routeLimit", "destLimit", "send", "store",
                              "report", "pause", "sleep", "deadLetter",
                              "done", "swallowed", "raised"}]
    /\ attempt \in [Deliveries -> Nat]
    /\ waits \in [Deliveries -> 0..MAX_RATE_LIMIT_WAITS]
    /\ verdict \in [Deliveries -> {"none"} \cup Refusals \cup Answers]
    /\ requests \in [Deliveries -> Nat]
    /\ rows \in [Deliveries -> Seq([number : Nat, verdict : Refusals \cup Answers])]
    /\ deadLetter \subseteq Deliveries

Init ==
    /\ maxRetries \in [Deliveries -> RetrySettings]
    /\ routeLimited \in [Deliveries -> BOOLEAN]
    /\ pc = [d \in Deliveries |-> "circuit"]
    /\ attempt = [d \in Deliveries |-> 0]
    /\ waits = [d \in Deliveries |-> 0]
    /\ verdict = [d \in Deliveries |-> "none"]
    /\ requests = [d \in Deliveries |-> 0]
    /\ rows = [d \in Deliveries |-> <<>>]
    /\ deadLetter = {}

-----------------------------------------------------------------------------
At(d, where) == pc[d] = where
Goto(d, where) == pc' = [pc EXCEPT ![d] = where]

(* The attempt is refused, for a reason that its row records. *)
Refuse(d, why) ==
    /\ verdict' = [verdict EXCEPT ![d] = why]
    /\ Goto(d, "store")

(* cb.is_open() *)
CheckCircuit(d) ==
    /\ At(d, "circuit")
    /\ \/ Refuse(d, "circuit_breaker_open")
       \/ /\ Goto(d, IF routeLimited[d] THEN "routeLimit" ELSE "destLimit")
          /\ UNCHANGED verdict
    /\ UNCHANGED <<route, attempt, waits, requests, rows, deadLetter>>

(* The route's own limit: a delivery it denies is not tried again. *)
CheckRouteLimit(d) ==
    /\ At(d, "routeLimit")
    /\ \/ Refuse(d, "route_rate_limited")
       \/ Goto(d, "destLimit") /\ UNCHANGED verdict
    /\ UNCHANGED <<route, attempt, waits, requests, rows, deadLetter>>

(* One wait more than MAX_RATE_LIMIT_WAITS. *)
CheckDestinationLimitLate(d) ==
    /\ At(d, "destLimit")
    /\ \/ Goto(d, "send") /\ UNCHANGED verdict
       \/ IF waits[d] > MAX_RATE_LIMIT_WAITS
          THEN Refuse(d, "rate_limited_abandoned")
          ELSE Goto(d, "pause") /\ UNCHANGED verdict
    /\ UNCHANGED <<route, attempt, waits, requests, rows, deadLetter>>

(* The destination's limit: wait a second, at most MAX_RATE_LIMIT_WAITS times. *)
CheckDestinationLimit(d) ==
    /\ At(d, "destLimit")
    /\ \/ Goto(d, "send") /\ UNCHANGED verdict
       \/ IF waits[d] >= MAX_RATE_LIMIT_WAITS
          THEN Refuse(d, "rate_limited_abandoned")
          ELSE Goto(d, "pause") /\ UNCHANGED verdict
    /\ UNCHANGED <<route, attempt, waits, requests, rows, deadLetter>>

(* The waits are not counted: a busy destination holds a delivery for ever. *)
PauseUncounted(d) ==
    /\ At(d, "pause")
    /\ Goto(d, "circuit")
    /\ UNCHANGED <<route, attempt, waits, verdict, requests, rows, deadLetter>>

(* The same attempt again, from the circuit breaker on. *)
Pause(d) ==
    /\ At(d, "pause")
    /\ waits' = [waits EXCEPT ![d] = @ + 1]
    /\ Goto(d, "circuit")
    /\ UNCHANGED <<route, attempt, verdict, requests, rows, deadLetter>>

(* The request: an answer, or a timeout, connection error or refused URL. *)
Send(d) ==
    /\ At(d, "send")
    /\ \E v \in Answers : verdict' = [verdict EXCEPT ![d] = v]
    /\ requests' = [requests EXCEPT ![d] = @ + 1]
    /\ Goto(d, "store")
    /\ UNCHANGED <<route, attempt, waits, rows, deadLetter>>

(* One try more than max_retries. *)
HasNextInclusive(d) == attempt[d] + 1 <= maxRetries[d]

HasNext(d) == attempt[d] + 1 < maxRetries[d]

(* The attempt's row: its number and what it has come to. *)
LogAttempt(d) ==
    rows' = [rows EXCEPT ![d] =
        Append(@, [number |-> attempt[d], verdict |-> verdict[d]])]

(* The row of the attempt is committed.  A circuit that is open costs an    *)
(* attempt; with none left the delivery ends here.                          *)
Store(d) ==
    /\ At(d, "store")
    /\ LogAttempt(d)
    /\ Goto(d, CASE verdict[d] \in Answers -> "report"
                 [] verdict[d] = "circuit_breaker_open" /\ HasNext(d) -> "sleep"
                 [] OTHER -> "done")
    /\ UNCHANGED <<route, attempt, waits, verdict, requests, deadLetter>>

(* Client errors retried like server errors. *)
ReportRetriesAll(d) ==
    /\ At(d, "report")
    /\ Goto(d, CASE verdict[d] = "2xx" -> "done"
                 [] verdict[d] # "2xx" /\ HasNext(d) -> "sleep"
                 [] OTHER -> "deadLetter")
    /\ UNCHANGED <<route, attempt, waits, verdict, requests, rows, deadLetter>>

(* record_success or record_failure, then the decision: an answer below 500 *)
(* ends the delivery, a failing attempt is retried or dead-lettered.        *)
Report(d) ==
    /\ At(d, "report")
    /\ Goto(d, CASE verdict[d] \notin Failing -> "done"
                 [] verdict[d] \in Failing /\ HasNext(d) -> "sleep"
                 [] OTHER -> "deadLetter")
    /\ UNCHANGED <<route, attempt, waits, verdict, requests, rows, deadLetter>>

(* The next attempt is made under the number of the last. *)
SleepSameAttempt(d) ==
    /\ At(d, "sleep")
    /\ waits' = [waits EXCEPT ![d] = 0]
    /\ Goto(d, "circuit")
    /\ UNCHANGED <<route, attempt, verdict, requests, rows, deadLetter>>

(* The cooldown or the backoff, and the recursive call that follows it. *)
Sleep(d) ==
    /\ At(d, "sleep")
    /\ attempt' = [attempt EXCEPT ![d] = @ + 1]
    /\ waits' = [waits EXCEPT ![d] = 0]
    /\ Goto(d, "circuit")
    /\ UNCHANGED <<route, verdict, requests, rows, deadLetter>>

(* The dead letter, if this process has a producer. *)
DeadLetter(d) ==
    /\ At(d, "deadLetter")
    /\ deadLetter' = IF HasProducer THEN deadLetter \cup {d} ELSE deadLetter
    /\ Goto(d, "done")
    /\ UNCHANGED <<route, attempt, waits, verdict, requests, rows>>

(* Sending the dead letter fails with a RuntimeError, as every error of     *)
(* Kafka's is: it is caught and dropped, and the delivery ends like any     *)
(* other.  The broker may have stored the message all the same.             *)
SwallowDeadLetter(d) ==
    /\ At(d, "deadLetter")
    /\ HasProducer
    /\ deadLetter' \in {deadLetter, deadLetter \cup {d}}
    /\ Goto(d, "swallowed")
    /\ UNCHANGED <<route, attempt, waits, verdict, requests, rows>>

(* A Redis, database or Kafka call raises and the exception leaves the      *)
(* function; around the dead letter, that is one that is no RuntimeError.   *)
Raise(d) ==
    /\ \/ pc[d] \in {"circuit", "routeLimit", "destLimit", "store", "report"}
       \/ pc[d] = "deadLetter" /\ HasProducer
    /\ Goto(d, "raised")
    /\ UNCHANGED <<route, attempt, waits, verdict, requests, rows, deadLetter>>

(* The call that raises has stored the row, or the dead letter, all the same. *)
RaiseAfterEffect(d) ==
    /\ \/ At(d, "store") /\ LogAttempt(d) /\ UNCHANGED deadLetter
       \/ /\ At(d, "deadLetter") /\ HasProducer
          /\ deadLetter' = deadLetter \cup {d}
          /\ UNCHANGED rows
    /\ Goto(d, "raised")
    /\ UNCHANGED <<route, attempt, waits, verdict, requests>>

Step(d) ==
    \/ CheckCircuit(d)
    \/ CheckRouteLimit(d)
    \/ CheckDestinationLimit(d)
    \/ Pause(d)
    \/ Send(d)
    \/ Store(d)
    \/ Report(d)
    \/ Sleep(d)
    \/ DeadLetter(d)
    \/ SwallowDeadLetter(d)
    \/ Raise(d)
    \/ RaiseAfterEffect(d)

Next == \E d \in Deliveries : Step(d)

Spec == Init /\ [][Next]_vars

(* Every awaited call and every sleep ends. *)
FairSpec == Spec /\ \A d \in Deliveries : WF_vars(Step(d))

-----------------------------------------------------------------------------
(* The destination gets at most max_retries requests, and one if max_retries *)
(* is zero or less, however often circuit and limiters hold them back.      *)
RequestsWithinRetries ==
    \A d \in Deliveries :
        requests[d] <= IF maxRetries[d] > 0 THEN maxRetries[d] ELSE 1

Logged(d) == Cardinality({i \in DOMAIN rows[d] : rows[d][i].verdict \in Answers})

(* The attempt log is complete and in order: rows are numbered 0, 1, 2, ... *)
(* with one row per attempt, refused or sent, and every request whose       *)
(* answer has been dealt with has its row.                                  *)
AttemptLogComplete ==
    \A d \in Deliveries :
        /\ \A i \in DOMAIN rows[d] : rows[d][i].number = i - 1
        /\ pc[d] \notin {"store", "raised"} => requests[d] = Logged(d)

(* With a producer, a delivery whose last allowed attempt failed ends in    *)
(* the dead-letter topic, unless sending the dead letter failed, and no     *)
(* delivery with an attempt left, or one that was answered, gets there.     *)
DeadLettersAreExhausted ==
    \A d \in Deliveries :
        /\ d \in deadLetter \/ At(d, "swallowed") =>
                verdict[d] \in Failing /\ attempt[d] + 1 >= maxRetries[d]
        /\ HasProducer /\ At(d, "done") /\ verdict[d] \in Failing => d \in deadLetter

Ended(d) == pc[d] \in {"done", "swallowed", "raised"}

(* Every delivery ends: open circuits use attempts up and waits for the     *)
(* limiter are counted.                                                     *)
Terminates == \A d \in Deliveries : <>Ended(d)

(* README.md, "Dead-letter queue": "Exhausted retries land in DLQ topic".   *)
ExhaustedLandInDLQ ==
    \A d \in Deliveries :
        pc[d] \in {"done", "swallowed"} /\ verdict[d] \in Failing => d \in deadLetter

=============================================================================
