--------------------------- MODULE CircuitBreaker ---------------------------
(***************************************************************************)
(* The circuit breaker of one destination (app/delivery/circuit_breaker.py) *)
(* as deliveries use it: is_open before a request, record_success or       *)
(* record_failure after it.  Its state is four Redis keys, each Redis call *)
(* is one step, and so is each reading of the clock; the steps of different *)
(* deliveries interleave, and a delivery may be lost between any two.      *)
(*                                                                         *)
(* Time is kept as ages that stop growing once they no longer matter, so   *)
(* the model has finitely many states without any bound on its runs.       *)
(***************************************************************************)
EXTENDS Integers, FiniteSets

CONSTANTS
    Deliveries,   \* the delivery tasks for this destination
    THRESHOLD,    \* circuit_breaker_threshold
    COOLDOWN,     \* circuit_breaker_cooldown_s, in ticks
    FAILURE_TTL,  \* the EXPIRE on the failure counter, in ticks
    MaxDelay,     \* the longest time SET open_since takes to reach Redis
    MayAbandon,   \* whether a delivery may end between is_open and its report
    MaxLosses     \* bound: deliveries that end in the middle of a call

ASSUME ThresholdAssumption == THRESHOLD \in Nat \ {0}
ASSUME TimesAssumption == COOLDOWN \in Nat \ {0} /\ FAILURE_TTL \in Nat \ {0}
ASSUME DelayAssumption == MaxDelay \in 0..COOLDOWN
ASSUME LossAssumption == MayAbandon \in BOOLEAN /\ MaxLosses \in Nat

VARIABLES
    state,       \* cb:<url>:state
    failures,    \* cb:<url>:failures, not told apart beyond THRESHOLD
    ttl,         \* ticks the failure counter has to live, or NoTTL
    openSince,   \* age of the time in cb:<url>:open_since, or NoTime
    halfTested,  \* cb:<url>:half_tested exists
    pc,          \* what each delivery does next
    held,        \* age of the time a delivery has in hand, read or to be written
    openAge,     \* history: ticks since state was last set to OPEN
    winners,     \* history: deliveries that won SETNX since the last DEL
    unstamped,   \* history: an opener was lost before its SET open_since
    losses,
    healthy      \* the destination answers 2xx from now on

redis == <<state, failures, ttl, openSince, halfTested>>
history == <<openAge, winners, unstamped>>
vars == <<redis, pc, held, history, losses, healthy>>

NoTTL == 0
NoTime == COOLDOWN + 1  \* open_since missing reads as 0: as old as can be

TypeOK ==
    /\ state \in {"CLOSED", "OPEN", "HALF_OPEN"}
    /\ failures \in 0..THRESHOLD
    /\ ttl \in 0..FAILURE_TTL
    /\ openSince \in 0..COOLDOWN + 1
    /\ halfTested \in BOOLEAN
    /\ pc \in [Deliveries -> {"idle", "readSince", "compare", "setHalfOpen", "setNX",
                              "sending", "expire", "expireAndTrip",
                              "setOpen", "readClock", "setSince"}]
    /\ held \in [Deliveries -> 0..COOLDOWN + 1]
    /\ openAge \in 0..COOLDOWN
    /\ winners \subseteq Deliveries
    /\ unstamped \in BOOLEAN
    /\ losses \in 0..MaxLosses
    /\ healthy \in BOOLEAN

Init ==
    /\ state = "CLOSED"  \* the key is absent
    /\ failures = 0
    /\ ttl = NoTTL
    /\ openSince = NoTime
    /\ halfTested = FALSE
    /\ pc = [d \in Deliveries |-> "idle"]
    /\ held = [d \in Deliveries |-> NoTime]
    /\ openAge = COOLDOWN
    /\ winners = {}
    /\ unstamped = FALSE
    /\ losses = 0
    /\ healthy = FALSE

-----------------------------------------------------------------------------
At(d, where) == pc[d] = where
Goto(d, where) == pc' = [pc EXCEPT ![d] = where]

Hold(d, age) == held' = [held EXCEPT ![d] = age]
Free(d) == Hold(d, NoTime)

(* is_open: GET state *)
ReadState(d) ==
    /\ At(d, "idle")
    /\ Goto(d, CASE state = "CLOSED"    -> "sending"
                 [] state = "OPEN"      -> "readSince"
                 [] state = "HALF_OPEN" -> "setNX")
    /\ UNCHANGED <<redis, held, history, losses, healthy>>

(* GET open_since *)
ReadSince(d) ==
    /\ At(d, "readSince")
    /\ Hold(d, openSince)
    /\ Goto(d, "compare")
    /\ UNCHANGED <<redis, history, losses, healthy>>

(* An OPEN circuit never lets go: no age exceeds COOLDOWN + 1. *)
CooldownNeverOver(age) == age > COOLDOWN + 1

(* time.time() - float(open_since or 0) >= cooldown *)
CooldownOver(age) == age >= COOLDOWN

(* The clock is read and compared: return True while the cooldown lasts. *)
Compare(d) ==
    /\ At(d, "compare")
    /\ Goto(d, IF CooldownOver(held[d]) THEN "setHalfOpen" ELSE "idle")
    /\ Free(d)
    /\ UNCHANGED <<redis, history, losses, healthy>>

(* SET state HALF_OPEN, whatever it has become meanwhile: return False. *)
SetHalfOpen(d) ==
    /\ At(d, "setHalfOpen")
    /\ state' = "HALF_OPEN"
    /\ Goto(d, "sending")
    /\ UNCHANGED <<failures, ttl, openSince, halfTested, held, history, losses, healthy>>

(* half_tested set by GET and SET instead: every reader goes through. *)
TestAlways(d) ==
    /\ At(d, "setNX")
    /\ Goto(d, "sending")
    /\ halfTested' = TRUE
    /\ winners' = winners \cup {d}
    /\ UNCHANGED <<state, failures, ttl, openSince, held, openAge, unstamped, losses, healthy>>

(* SETNX half_tested: the first delivery probes, the others are blocked. *)
SetNX(d) ==
    /\ At(d, "setNX")
    /\ IF halfTested
       THEN Goto(d, "idle") /\ UNCHANGED <<halfTested, winners>>
       ELSE /\ Goto(d, "sending")
            /\ halfTested' = TRUE
            /\ winners' = winners \cup {d}
    /\ UNCHANGED <<state, failures, ttl, openSince, held, openAge, unstamped, losses, healthy>>

(* The request succeeds; record_success deletes the four keys at once. *)
RecordSuccess(d) ==
    /\ At(d, "sending")
    /\ state' = "CLOSED"
    /\ failures' = 0
    /\ ttl' = NoTTL
    /\ openSince' = NoTime
    /\ halfTested' = FALSE
    /\ winners' = {}
    /\ unstamped' = FALSE
    /\ Goto(d, "idle")
    /\ UNCHANGED <<held, openAge, losses, healthy>>

(* The request fails, with any status but 2xx; record_failure: INCR failures *)
RecordFailure(d) ==
    /\ At(d, "sending")
    /\ ~healthy
    /\ failures' = IF failures < THRESHOLD THEN failures + 1 ELSE failures
    /\ Goto(d, IF failures' >= THRESHOLD THEN "expireAndTrip" ELSE "expire")
    /\ UNCHANGED <<state, ttl, openSince, halfTested, held, history, losses, healthy>>

(* EXPIRE failures, which does nothing if the key is gone by now. *)
ExpireFailures(d) ==
    /\ pc[d] \in {"expire", "expireAndTrip"}
    /\ ttl' = IF failures > 0 THEN FAILURE_TTL ELSE NoTTL
    /\ Goto(d, IF At(d, "expireAndTrip") THEN "setOpen" ELSE "idle")
    /\ UNCHANGED <<state, failures, openSince, halfTested, held, history, losses, healthy>>

(* The circuit opens and the time of opening is left as it was. *)
SetOpenOnly(d) ==
    /\ At(d, "setOpen")
    /\ state' = "OPEN"
    /\ openAge' = 0
    /\ Goto(d, "idle")
    /\ UNCHANGED <<failures, ttl, openSince, halfTested, held, winners, unstamped, losses, healthy>>

(* count >= threshold: SET state OPEN *)
SetOpen(d) ==
    /\ At(d, "setOpen")
    /\ state' = "OPEN"
    /\ openAge' = 0
    /\ Goto(d, "readClock")
    /\ UNCHANGED <<failures, ttl, openSince, halfTested, held, winners, unstamped, losses, healthy>>

(* time.time() *)
ReadClock(d) ==
    /\ At(d, "readClock")
    /\ Hold(d, 0)
    /\ Goto(d, "setSince")
    /\ UNCHANGED <<redis, history, losses, healthy>>

(* SET open_since to what the clock said, be there a later time by now. *)
SetSince(d) ==
    /\ At(d, "setSince")
    /\ openSince' = held[d]
    /\ unstamped' = FALSE
    /\ Free(d)
    /\ Goto(d, "idle")
    /\ UNCHANGED <<state, failures, ttl, halfTested, openAge, winners, losses, healthy>>

(* A delivery that is_open let through reports nothing: a rate limiter      *)
(* holds it back, or its attempt row cannot be stored.                      *)
Abandon(d) ==
    /\ MayAbandon
    /\ At(d, "sending")
    /\ Goto(d, "idle")
    /\ UNCHANGED <<redis, held, history, losses, healthy>>

Opening(d) == pc[d] \in {"readClock", "setSince"}

(* The worker dies or a Redis call raises: the delivery ends where it is.   *)
Lose(d) ==
    /\ ~At(d, "idle")
    /\ losses < MaxLosses
    /\ losses' = losses + 1
    /\ unstamped' = (unstamped \/ Opening(d))
    /\ Free(d)
    /\ Goto(d, "idle")
    /\ UNCHANGED <<redis, openAge, winners, healthy>>

Older(age, limit) == IF age < limit THEN age + 1 ELSE age
OlderTime(age) == IF age = NoTime THEN NoTime ELSE Older(age, COOLDOWN)

(* Time passes, and the failure counter may reach the end of its life.  A   *)
(* SET open_since holds time back once it is MaxDelay old.                  *)
Tick ==
    /\ \A d \in Deliveries : At(d, "setSince") => held[d] < MaxDelay
    /\ openAge' = Older(openAge, COOLDOWN)
    /\ openSince' = OlderTime(openSince)
    /\ held' = [d \in Deliveries |-> OlderTime(held[d])]
    /\ ttl' = IF ttl = NoTTL THEN NoTTL ELSE ttl - 1
    /\ failures' = IF ttl = 1 THEN 0 ELSE failures
    /\ UNCHANGED <<state, halfTested, pc, winners, unstamped, losses, healthy>>

(* The destination recovers for good. *)
Heal ==
    /\ ~healthy
    /\ healthy' = TRUE
    /\ UNCHANGED <<redis, pc, held, history, losses>>

-----------------------------------------------------------------------------
Step(d) ==
    \/ ReadState(d)
    \/ ReadSince(d)
    \/ Compare(d)
    \/ SetHalfOpen(d)
    \/ SetNX(d)
    \/ RecordSuccess(d)
    \/ RecordFailure(d)
    \/ ExpireFailures(d)
    \/ SetOpen(d)
    \/ ReadClock(d)
    \/ SetSince(d)

Next ==
    \/ \E d \in Deliveries : Step(d) \/ Abandon(d) \/ Lose(d)
    \/ Tick
    \/ Heal

Spec == Init /\ [][Next]_vars

(* Traffic goes on and every Redis call and request returns; time passes.   *)
FairSpec == Spec /\ WF_vars(Tick) /\ \A d \in Deliveries : WF_vars(Step(d))

-----------------------------------------------------------------------------
(* An open circuit is cut short by no more than the time a SET takes: its   *)
(* open_since is older than its opening by MaxDelay at most, also when the  *)
(* SETs of two openers arrive in the wrong order.  The exceptions are the   *)
(* moments between the two SETs of an opener, and an opener lost there.     *)
OpenIsStamped ==
    state = "OPEN" /\ openSince > openAge + MaxDelay =>
        unstamped \/ \E d \in Deliveries : Opening(d)

(* However many deliveries find the circuit half open, SETNX lets at most   *)
(* one of them through until a success closes the circuit, and the key      *)
(* stands for that one.  Whoever set the circuit half open goes through     *)
(* beside it.                                                               *)
OneTestPerHalfOpen ==
    /\ Cardinality(winners) <= 1
    /\ halfTested <=> winners # {}

(* An open circuit does not stay open: traffic that goes on after the       *)
(* cooldown moves it to half open, or closes it.                            *)
OpenEnds == state = "OPEN" ~> state # "OPEN"

(* ARCHITECTURE.md, "Delivery to Destination Fails": "all requests blocked  *)
(* for `cooldown_s` seconds".  Not for ever: requests get through again and *)
(* again.                                                                   *)
NotBlockedForever == []<>(\E d \in Deliveries : At(d, "sending"))

=============================================================================
