------------------------------- MODULE Gateway -------------------------------
(***************************************************************************)
(* Ingestion of webhooks (app/gateway/handler.py) on one endpoint.         *)
(* Requests are handled concurrently by one process; every await is a      *)
(* point where another request, the endpoint API, the expiry of an         *)
(* idempotency key or a crash may come in between.                         *)
(*                                                                         *)
(* A sender that got no answer, or an error, may send the same webhook     *)
(* again: that is another request with the same idempotency key.           *)
(***************************************************************************)
EXTENDS Integers, FiniteSets

CONSTANTS
    Requests,     \* the HTTP requests that may arrive
    Keys,         \* idempotency keys
    NoKey,        \* the request carries no x-idempotency-key header
    MaxExpiries,  \* bound: how often one key may leave Redis
    MaxCrashes,   \* bound: how often the process may die
    StoresFail    \* whether calls to Redis and PostgreSQL may raise

ASSUME NoKeyAssumption == NoKey \notin Keys
ASSUME BoundsAssumption ==
    MaxExpiries \in Nat /\ MaxCrashes \in Nat /\ StoresFail \in BOOLEAN

VARIABLES
    endpoint,  \* the endpoint row: "active", "disabled" or "deleted"
    pc,        \* where each request is in receive_webhook
    key,       \* its idempotency key
    response,  \* what its sender sees
    idem,      \* the idempotency keys present in Redis
    period,    \* how often each key has left Redis
    claim,     \* the period in which a request's SET NX succeeded, or -1
    events,    \* requests whose Event row is committed
    outbox,    \* requests whose OutboxRecord row is committed
    crashes

vars == <<endpoint, pc, key, response, idem, period, claim, events, outbox, crashes>>

Unclaimed == -1
InFlight == {"checking", "deduping", "storing", "committed"}

TypeOK ==
    /\ endpoint \in {"active", "disabled", "deleted"}
    /\ pc \in [Requests -> {"idle", "answered"} \cup InFlight]
    /\ key \in [Requests -> Keys \cup {NoKey}]
    /\ response \in [Requests ->
            {"none", "accepted", "duplicate", "rejected", "error", "lost"}]
    /\ idem \subseteq Keys
    /\ period \in [Keys -> 0..MaxExpiries]
    /\ claim \in [Requests -> {Unclaimed} \cup 0..MaxExpiries]
    /\ events \subseteq Requests
    /\ outbox \subseteq Requests
    /\ crashes \in 0..MaxCrashes

Init ==
    /\ endpoint = "active"
    /\ pc = [q \in Requests |-> "idle"]
    /\ key = [q \in Requests |-> NoKey]
    /\ response = [q \in Requests |-> "none"]
    /\ idem = {}
    /\ period = [k \in Keys |-> 0]
    /\ claim = [q \in Requests |-> Unclaimed]
    /\ events = {}
    /\ outbox = {}
    /\ crashes = 0

-----------------------------------------------------------------------------
Answer(q, what) ==
    /\ pc' = [pc EXCEPT ![q] = "answered"]
    /\ response' = [response EXCEPT ![q] = what]

Goto(q, where) ==
    /\ pc' = [pc EXCEPT ![q] = where]
    /\ UNCHANGED response

(* The body is read (413 when it is too long) and the endpoint loaded: 400  *)
(* for a malformed id, 404 when there is no row, 410 when it is disabled.   *)
Receive(q, k) ==
    /\ pc[q] = "idle"
    /\ key' = [key EXCEPT ![q] = k]
    /\ IF endpoint = "active" THEN Goto(q, "checking") ELSE Answer(q, "rejected")
    /\ UNCHANGED <<endpoint, idem, period, claim, events, outbox, crashes>>

(* The key looked up and written in two calls: both readers may go on. *)
TakesKeyUnconditionally(q) ==
    /\ idem' = idem \cup {key[q]}
    /\ claim' = [claim EXCEPT ![q] = period[key[q]]]

(* SET key NX EX ttl succeeds: the key was absent. *)
TakesKey(q) ==
    /\ key[q] \notin idem
    /\ idem' = idem \cup {key[q]}
    /\ claim' = [claim EXCEPT ![q] = period[key[q]]]

(* A request that fails a check has taken its key already. *)
RejectHavingTakenKey(q) ==
    /\ pc[q] = "checking"
    /\ IF key[q] = NoKey THEN UNCHANGED <<idem, claim>> ELSE TakesKey(q)
    /\ Answer(q, "rejected")
    /\ UNCHANGED <<endpoint, key, period, events, outbox, crashes>>

(* The checks between the endpoint and the idempotency key, on data this    *)
(* model does not keep: 413, 400, 403, 429, 401, 400 and 422.               *)
Reject(q) ==
    /\ pc[q] = "checking"
    /\ Answer(q, "rejected")
    /\ UNCHANGED <<endpoint, key, idem, period, claim, events, outbox, crashes>>

(* All checks passed; only a request with a key is looked up in Redis. *)
Pass(q) ==
    /\ pc[q] = "checking"
    /\ Goto(q, IF key[q] = NoKey THEN "storing" ELSE "deduping")
    /\ UNCHANGED <<endpoint, key, idem, period, claim, events, outbox, crashes>>

(* The key is taken: the request is the first with it in this period. *)
Claim(q) ==
    /\ pc[q] = "deduping"
    /\ TakesKey(q)
    /\ Goto(q, "storing")
    /\ UNCHANGED <<endpoint, key, period, events, outbox, crashes>>

(* SET NX finds the key: the answer is a 202 "duplicate". *)
Duplicate(q) ==
    /\ pc[q] = "deduping"
    /\ key[q] \in idem
    /\ Answer(q, "duplicate")
    /\ UNCHANGED <<endpoint, key, idem, period, claim, events, outbox, crashes>>

(* A call raises before the transaction: the load of the endpoint, the rate *)
(* limiter, or SET NX, which may have taken effect all the same.            *)
LookupFails(q) ==
    /\ StoresFail
    /\ pc[q] \in {"checking", "deduping"}
    /\ \/ UNCHANGED <<idem, claim>>
       \/ pc[q] = "deduping" /\ TakesKey(q)
    /\ Answer(q, "error")
    /\ UNCHANGED <<endpoint, key, period, events, outbox, crashes>>

(* The event is committed, its outbox record is not. *)
CommitEventOnly(q) ==
    /\ pc[q] = "storing"
    /\ endpoint # "deleted"
    /\ events' = events \cup {q}
    /\ Goto(q, "committed")
    /\ UNCHANGED <<endpoint, key, idem, period, claim, outbox, crashes>>

(* Event and OutboxRecord in one transaction.  The endpoint was read at the *)
(* beginning; the foreign key is checked now.                               *)
Commit(q) ==
    /\ pc[q] = "storing"
    /\ endpoint # "deleted"
    /\ events' = events \cup {q}
    /\ outbox' = outbox \cup {q}
    /\ Goto(q, "committed")
    /\ UNCHANGED <<endpoint, key, idem, period, claim, crashes>>

(* The commit raises and the transaction rolls back: the database fails, or *)
(* the endpoint has been deleted meanwhile.                                 *)
CommitFails(q) ==
    /\ pc[q] = "storing"
    /\ StoresFail \/ endpoint = "deleted"
    /\ Answer(q, "error")
    /\ UNCHANGED <<endpoint, key, idem, period, claim, events, outbox, crashes>>

Respond(q) ==
    /\ pc[q] = "committed"
    /\ Answer(q, "accepted")
    /\ UNCHANGED <<endpoint, key, idem, period, claim, events, outbox, crashes>>

(* db.refresh raises after the commit: a 500 for an event that is stored. *)
RefreshFails(q) ==
    /\ StoresFail
    /\ pc[q] = "committed"
    /\ Answer(q, "error")
    /\ UNCHANGED <<endpoint, key, idem, period, claim, events, outbox, crashes>>

(* The process dies; no request in flight gets an answer. *)
Crash ==
    /\ crashes < MaxCrashes
    /\ crashes' = crashes + 1
    /\ LET hit == {q \in Requests : pc[q] \in InFlight}
       IN  /\ hit # {}
           /\ pc' = [q \in Requests |-> IF q \in hit THEN "answered" ELSE pc[q]]
           /\ response' = [q \in Requests |-> IF q \in hit THEN "lost" ELSE response[q]]
    /\ UNCHANGED <<endpoint, key, idem, period, claim, events, outbox>>

(* idempotency_ttl_s passes, or Redis loses the key at a restart. *)
Expire(k) ==
    /\ k \in idem
    /\ period[k] < MaxExpiries
    /\ idem' = idem \ {k}
    /\ period' = [period EXCEPT ![k] = @ + 1]
    /\ UNCHANGED <<endpoint, pc, key, response, claim, events, outbox, crashes>>

(* PUT is_active. *)
ToggleEndpoint ==
    /\ endpoint # "deleted"
    /\ endpoint' = IF endpoint = "active" THEN "disabled" ELSE "active"
    /\ UNCHANGED <<pc, key, response, idem, period, claim, events, outbox, crashes>>

(* DELETE: events.endpoint_id has no cascade, so it succeeds only while the *)
(* endpoint has no event.                                                   *)
DeleteEndpoint ==
    /\ endpoint # "deleted"
    /\ events = {}
    /\ endpoint' = "deleted"
    /\ UNCHANGED <<pc, key, response, idem, period, claim, events, outbox, crashes>>

-----------------------------------------------------------------------------
Handler(q) ==
    \/ \E k \in Keys \cup {NoKey} : Receive(q, k)
    \/ Reject(q)
    \/ Pass(q)
    \/ Claim(q)
    \/ Duplicate(q)
    \/ LookupFails(q)
    \/ Commit(q)
    \/ CommitFails(q)
    \/ Respond(q)
    \/ RefreshFails(q)

Environment ==
    \/ Crash
    \/ \E k \in Keys : Expire(k)
    \/ ToggleEndpoint
    \/ DeleteEndpoint

Next == Environment \/ \E q \in Requests : Handler(q)

Spec == Init /\ [][Next]_vars

-----------------------------------------------------------------------------
(* Two stored events carry the same idempotency key only when the key left  *)
(* Redis between the requests that stored them, however the requests        *)
(* interleave, fail or crash.                                               *)
OneEventPerKeyPeriod ==
    \A p, q \in events :
        p # q /\ key[p] = key[q] /\ key[p] # NoKey => claim[p] # claim[q]

(* A 202 "accepted" is sent only for an event whose outbox record is        *)
(* committed with it, and no endpoint with events is ever removed.          *)
AcceptedIsDurable ==
    /\ \A q \in Requests : response[q] = "accepted" => q \in events
    /\ events = outbox
    /\ endpoint = "deleted" => events = {}

(* A request that fails a check does not use its key up: a key is taken     *)
(* only by a request that passed every check, so the sender may correct the *)
(* payload and send it again under the same key.                            *)
RejectionKeepsKeyFree ==
    \A k \in idem : \E q \in Requests :
        /\ key[q] = k
        /\ claim[q] = period[k]
        /\ response[q] \notin {"rejected", "duplicate"}

(* ARCHITECTURE.md, "Gateway Crashes Mid-Request": "Crash before            *)
(* `db.commit()` -> transaction rolls back. [...] No data loss."  A sender  *)
(* told "accepted" or "duplicate" has its event stored, or in the hands of  *)
(* a request still running.                                                 *)
NoDataLoss ==
    \A q \in Requests :
        response[q] \in {"accepted", "duplicate"} =>
            \E p \in Requests :
                key[p] = key[q] /\ (p \in events \/ pc[p] \in InFlight)

=============================================================================
