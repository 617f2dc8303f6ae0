# Verification of the webhook relay

TLA+ models of the relay, the TLC configurations that check them, and TLAPS
proofs of what matters most.  The reference is the Python source; the documents
of the repository are quoted only where a run compares the code with them.

    tlc -workers 2 -config MCRelay.cfg MCRelay     # one run
    tlapm Relay_proofs.tla                         # one proof module

`PROJECT.json` lists every run, the lines of source behind every definition, the
mutants that show each property can fail, the hazards and the theorems.

## The system

    sender --POST--> gateway --commit--> PostgreSQL <--lock/commit-- outbox relay
                        |                 ^   ^  ^                      |
                        v                 |   |  |                      v raw-events
                      Redis               |   |  +-lookup- transform worker <-- replay,
                        ^                 |   |                 |        retry scheduler
                        |                 |   |                 v transformed-events
                        |                 | attempt rows        |
                        +-- circuit breaker, limiter -- delivery worker --> destination
                                          |                     |
       management API --- routes, events, memberships           v dead-letter

| component | state | operations | hard behaviour | correct when |
|---|---|---|---|---|
| gateway (`app/gateway/handler.py`) | `events`, `outbox_records`; idempotency keys in Redis | `receive_webhook` | concurrent requests with one key, retries, crash between the key and the commit, endpoint changed meanwhile | one event per key; an accepted event is stored with its outbox row; a refused request does not use its key up |
| outbox relay (`workers/outbox_relay.py`) | `outbox_records.status/attempts`, `events.status`, row locks | poll, publish, mark, commit | several relays, crash or SIGTERM inside a batch, lost acknowledgement, Kafka down | no row completed without its message, duplicates only through faults, no row left behind |
| transform worker (`workers/transform_worker.py`) | group offset | lookup, dispatch per route, commit | crash between send and commit, a route edited meanwhile, a send that raises | every selected route gets the event before the offset moves |
| delivery worker (`workers/delivery_worker.py`) | group offset, tasks, semaphore | loop, task, commit | tasks end in any order and share one offset; crash, stop | what is behind the offset has been dealt with; nothing but a fault loses a delivery |
| delivery (`app/delivery/worker.py`) | `delivery_attempts`, dead-letter topic | `_deliver_with_retry` | five reasons to stop or to go on, any call may raise | requests within `max_retries`, complete attempt log, termination |
| circuit breaker (`app/delivery/circuit_breaker.py`) | four Redis keys per destination | `is_open`, `record_success`, `record_failure` | every Redis call interleaves with those of other deliveries, a delivery lost between two of them | an open circuit has its time, one test of a half-open one, an open circuit ends |
| limiter (`app/core/rate_limiter.py`) | one sorted set per key | `allow_request` | clock read before the pipeline runs, out-of-order scores, expiry of the key | no window holds more calls than the limit |
| retry scheduler (`workers/retry_scheduler.py`) | row locks on `events` | pick, send, commit the batch | a discard meanwhile, death before the commit, a lost acknowledgement | what it sends is still failed and kept; copies are explained |
| events and DLQ API (`app/api/events.py`) | `events.is_discarded`, `discarded_at`, `status` | replay, discard, restore, list | calls overlap; replay publishes outside any transaction | the discard columns agree; no message without its cause |
| endpoint and route API (`app/api/endpoints.py`) | `endpoints`, `routes` | add, update, delete | overlapping edits, deletion while events are in flight | edits do not undo each other; what is stored is sound; history keeps its references |
| transform engine, filter, URL checks (`app/transform/`, `app/core/url_security.py`) | none | pipeline, filter, URL validation | raising expressions, caps, DNS at delivery time | what the API accepts the engine can run |
| auth (`app/api/auth.py`, `app/core/security.py`) | accounts, tokens, blocklist in Redis | register, login, logout | uniqueness races, seconds rounded down | registering is all or nothing; a logout lasts |
| RBAC and workspaces (`app/middleware/rbac.py`, `app/api/workspaces.py`) | memberships | the role check, add, change, remove | each call uses four database sessions | one owner; who was removed stays removed |

Components interact through shared stores only: the gateway and the relay through
`outbox_records`, the relay and the transform worker through `raw-events`, the
two workers through `transformed-events`, deliveries through the Redis keys, the
management API and the workers through `routes`, `events` and `delivery_attempts`.

## Modules

    Outbox <---implements--- OutboxRelay          Gateway    RateLimiter   CircuitBreaker
    Forwarding <--implements-- Relay = TransformWorker + DeliveryWorker     Delivery
    Membership <--implements-- Access
    Catalog = Events + Transform + endpoint and route API

A step is the code between two awaits whose interleaving matters; where one
transaction or one Redis command makes several changes they are one step.

**Outbox** - the abstract outbox: a record is accepted, published while pending,
and settled once.  No relays, locks or batches; `lapses` counts lost transactions
and acknowledgements, which is all that allows a second copy.

**OutboxRelay** - one action per step of `run`.  `Poll` is the `SELECT ... FOR
UPDATE SKIP LOCKED`: `batch[r]` is the set of rows relay `r` has locked, and a
locked row is invisible to the others (`Available`).  `PublishOk`,
`PublishFails`, `PublishTimesOut` are the outcomes of `_publish` for the oldest
row of the batch not handled yet; they change only the session (`sent`, `erred`).
`Commit` writes what the session holds and ends the transaction, also after the
`break` on `_stop`; `Crash` releases the locks and writes nothing.  `Start` models
`init_kafka`: a relay that comes up while the broker is down has no producer
until it is restarted.  Events are numbers, ranked by `created_at`; since that is
the start of the gateway's transaction, rows may become visible in any order.
`OutboxImplemented` maps rows and attempts to Outbox's.

**Gateway** - each request is a process: `checking` (before the idempotency key),
`deduping` (`SET NX`), `storing` (the transaction), `committed` (the answer).  All
checks between the endpoint and the key share one action `Reject`.  `period[k]`
counts how often key `k` has left Redis, `claim[q]` the period in which `q` took
it.  The answers `error` and `lost` allow the sender to try again: a later request
with the same key.  `DeleteEndpoint` needs an endpoint without events, because
the foreign key of `events` has no cascade.

**TransformWorker** - one partition, one message at a time.  `passes[m]` is the set
of routes whose filter matches and whose pipeline does not raise.  The active
routes are read once (`Lookup`), then each is dispatched in any order, since the
query does not order them.  A send may raise (`ProcessingRaises`) although the
broker has stored the message (`SendUnacknowledged`, in Relay `ForwardUnacknowledged`).

**DeliveryWorker** - one partition.  `position` is what the consumer has handed to
the loop; `Commit` commits `position`, as `consumer.commit()` without arguments
does, and not the offset of the task's own message.  Reading the position and the
broker's taking it are one step: the commits of one consumer go over one connection,
which keeps them in order; commits retried after a change of the group's coordinator,
which might overtake each other, are not modelled.  A whole delivery is one step
that returns (`Settle`) or raises (`DeliveryRaises`).

**Relay** - the two workers in a row: each `T!Dispatch` of a route that lets the
message through appends to `topic`, which is the delivery worker's partition.
Neither worker has a specification of its own that runs check; all is checked
here.  **Forwarding** is what they promise together: a delivery (message and
route) is made, or, once something has gone wrong, may be dropped, and then
never comes back.  `ForwardingImplemented` maps a delivery to `delivered` when a
message of its has been settled, and to `dropped` when it lies behind both
offsets and no task is at work on it.

**Delivery** - the recursion of `_deliver_with_retry` as a loop; `verdict` is what
the attempt has come to, `rows` the attempt rows.  What `is_open` and the limiters
answer is open (they have modules of their own), so every property holds for
whatever they do.  `Raise` lets any of the awaited calls raise before its effect,
`RaiseAfterEffect` after it.  A dead letter that cannot be sent is dropped
(`SwallowDeadLetter`): `except RuntimeError: pass` (`worker.py:168`) takes every
`KafkaError`, which derives from it, and the delivery ends as after any other answer,
its message stored or not.  The message the transform worker produces has no
`rate_limit_rpm`, nor does the dictionary `_dispatch` builds: the deployed worker
never takes the branch `CheckRouteLimit`, which the function has for its callers.

**RateLimiter** - `ReadClock`, then `Execute` (the MULTI/EXEC pipeline) up to
`MaxDelay` later.  All callers read one clock.  `log` is the history of answered calls.

**CircuitBreaker** - each Redis call of the three methods is an action, and so is each
reading of the clock (`Compare`, `ReadClock`): the time for `open_since` is read, and
its SET reaches Redis up to `MaxDelay` later, when another opener may have written a
later one.  `Abandon` is a delivery that reports nothing after `is_open`; `Lose` is one
that ends between any two calls, because its worker dies or Redis raises.  `unstamped`
remembers that an opener was lost before its second SET.  Times are ages that stop
growing where they stop mattering, so but for the losses runs are not bounded.

**Events** - rows of `events` after publication, their attempts, replay, discard and
restore, and the retry scheduler.  An API call reads when it begins and
commits later; SQLAlchemy writes only the columns that differ from what it read
(`Restored`).  Replay reads, leaves its session and publishes.  The scheduler locks up to
`LIMIT` due rows (`Pick`), sends them one by one, and commits all at once.  What
sets `status` to `failed` is the environment (`MarkFailed`): no code does.

**Transform** - `apply_pipeline`, `route_matches_event`, the validators of
`schemas/api.py` and the URL checks, over a small algebra of JSON values; a JMESPath
expression is a path or `length()` of one.  An integer beyond `MAX_FLOAT` has no
float: dividing it raises an `OverflowError` (`EvalRaises`).  `EventErrors` is what a
pipeline that passed the validators may still raise, depending on the event.

**Catalog** - EXTENDS both: adding, updating and deleting a route, switching and
deleting the endpoint, and a transform worker and deliveries that use a route's
settings as they were read.  `versions` is the history of a route's settings.  An
update is a body with any of the columns (`Updates`), all of which it validates, and
one commit writes those of them that differ from what it read (`CommitUpdateRoute`).
Workers do not fail in it; that is Relay's subject.

**Access** - register, login, logout, `get_current_user`, `require_workspace_role`
and the membership calls.  Who calls, with which role, what is found and what is
written are four sessions, hence the stages `authenticated`, `authorised`, `writing`.
Time runs in `TICKS` per second, because tokens expire at whole seconds and the
blocklist key lives whole seconds.  **Membership** is what registration and the
membership calls promise together, each as one step: an account comes with a
workspace it owns, members are accounts that exist, and an owner stays.
`MembershipImplemented` maps the accounts to those registered and `role` to itself.

**MCOutboxRelay**, **MCGateway**, **MCRelay**, **MCCatalog**, **MCAccess** - the
instances of the larger runs: symmetry sets (safety only: symmetry is unsound for
liveness) and the values of structured constants.

**OutboxRelay_proofs**, **Gateway_proofs**, **RateLimiter_proofs**,
**CircuitBreaker_proofs**, **Relay_proofs** (DeliveryWorker and Relay),
**Delivery_proofs**, **Access_proofs**, **Catalog_proofs** (Events, Transform and
Catalog) - theorems.

Definitions like `CommitUnlessStopped` or `MayHandleOwner`, which no specification
uses, are *mutants*: the definition they precede with one plausible mistake.
Replacing the definition by its mutant must break the property listed with it in
`PROJECT.json`.

## Runs

| run | instance | shows |
|---|---|---|
| `outbox_relay` | 2 relays, 3 rows, batches of 2, 2 attempts, one of each fault | `QueuedIsPublished`, `CopiesBoundedByFaults`, `SettledForGood`, `OutboxImplemented` |
| `outbox_relay_live` | 2 relays, 2 rows, batches of 1, a crash, an outage, a stop | `EventuallySettled` |
| `gateway` | 4 requests, 2 keys, one expiry of each, a crash, failing stores | `OneEventPerKeyPeriod`, `AcceptedIsDurable`, `RejectionKeepsKeyFree` |
| `gateway_loss` | 2 requests, 1 key, a crash | counterexample to `NoDataLoss` |
| `rate_limiter` | 2 callers, limits 0 and 2, window 3, delay 1, 5 calls in 6 ticks | `WindowRespected`, `NoSpuriousDenial` |
| `circuit_breaker` | 2 deliveries, threshold 2, cooldown 2, counter life 2, delay 1, 2 losses | `OpenIsStamped`, `OneTestPerHalfOpen`, `OpenEnds` |
| `circuit_breaker_wedged` | 1 delivery, threshold 3 | counterexample to `NotBlockedForever` |
| `delivery` | `max_retries` 0, 1, 3, five limiter waits, calls that raise | `TypeOK`, `RequestsWithinRetries`, `AttemptLogComplete`, `DeadLettersAreExhausted`, `Terminates` |
| `delivery_no_producer` | the producer the deployed worker has: none | counterexample to `ExhaustedLandInDLQ` |
| `relay` | 4 raw messages (one malformed, one unknown, one for 2 routes, one for 1 of them), 2 deliveries at once, any one fault or edit of either worker | `RelayTypeOK`, `TasksBounded`, `LostOnlyByFaults`, `OffsetMonotone`, `DispatchedBeforeCommit`, `CopiesBoundedByFaults`, `EventuallyForwarded`, `ForwardingImplemented` |
| `catalog` | 1 event, 1 route, 2 clients, 3 overlapping calls, markings or lapses | `CatalogTypeOK`, `DiscardStamped`, `PickedRowsHold`, `CopiesAccounted`, `StoredSettingsSound`, `OneVersionPerMessage`, `HistoryAnchored`, `OtherFieldsKept` |
| `access` | 2 accounts, 2 workspaces, 2 tokens, 2 clients, 2 calls, from every legal set of memberships | `OneOwner`, `AccountHasWorkspace`, `MembersComeByAdding`, `LogoutHolds`, `MembershipImplemented` |

Type correctness of the other five modules is proved (below) and not checked again.

*Bounds.*  Fault counters (`MaxCrashes`, `MaxFaults`, ...) are bounds of the model:
one fault, at any point, is enough for a loss or a repetition to show.  Three rows
with batches of two give a full batch, a partial one and a row outside it; two
attempts give the first failure, the last one and a success in between; four requests
with two keys give a claim, a duplicate, a retry after expiry and a bystander; a
threshold of two distinguishes the failure that opens the circuit from the one before;
two deliveries are two openers that overtake each other, or an opener and one that
reads between its SETs, a cooldown of two leaves room for an age between fresh and
over, and of the two losses one may come before and one after the opener's; window 3
and delay 1 let two pipelines overtake each other and a call leave the window within
six ticks.  In `relay`, the message for two routes and the one after it give three
tasks on two permits, two dispatches around a crash, and (`N = 5`) room for the
messages a repetition makes.  In `catalog`, three acts are two calls that overlap and
a third call or fault after them (406,000 states); the nine bodies of updates change
one column, several at once, give a null or are refused, and overlap in one column or
none; of the two events that may come in one has a number beyond `MAX_FLOAT`; one
route and one event are enough since no property relates two of them except through
attempt numbers, which replays repeat.  In `access`, two overlapping calls on two
accounts are every pair of member calls (412,000 states). `BATCH_SIZE`,
`MAX_ATTEMPTS`, `LIMIT` and `_GLOBAL_SEMAPHORE` are 10, 10, 50 and 50 in the code,
`MAX_FLOAT` is about 1.8e308 in Python; the proofs hold for all values.  In
`circuit_breaker` nothing is bounded but the losses, in `delivery` nothing but the
constants.

*Deadlock* is checked where a system can always go on (the relays poll for ever,
time passes in the circuit breaker).  The other models end when all requests are
answered, all deliveries have ended, or the bounds are used up.

*Fairness.*  `OutboxRelay`: weak fairness of each relay's own steps, because the event
loop resumes a relay whose call has returned and the compose file restarts one that
ended (`restart: unless-stopped`); nothing is assumed of Kafka, senders or faults.
`CircuitBreaker`: weak fairness of time and of each delivery's next call, i.e. traffic
goes on; a delivery may still be abandoned or lost, and destinations need not recover.
Weak fairness is enough although a lost delivery starts anew, since there are finitely
many losses; and no delivery waits for another.  `Delivery`: weak fairness of the next
step, every awaited call and sleep ends.  `Relay`: weak fairness of the transform
worker's steps and of the delivery worker's, each as a whole; the messages are finite,
so it does not matter which task the event loop serves first.

## Proofs

The theorems hold for every number of relays, rows, requests, keys, callers,
deliveries, messages, events, routes, clients, accounts, workspaces and tokens, and
every batch size, limit, window, threshold, semaphore, lifetime and length of a
pipeline, under the named assumptions
of the module that declares the constants.  Each proof module proves one invariance
theorem, one step per action, and draws the others from it.

- **OutboxRelay.**  `QueuedIsPublished` is not inductive: a commit marks the rows in
  `sent[r]`, so the invariant must say that what is in `sent[r]` has been
  published.  `CopiesBoundedByFaults` needs more (`CopiesExplained`): one copy is
  accounted for when the row is completed or in some relay's `sent`; the copies
  beyond it are no more than the crashes and lost acknowledgements so far.
  `RowsOwnedOnce` (locks are disjoint, locked rows are pending) makes the commits of
  different relays independent; `SettledForGood` rests on it.
  `RelaysImplementOutbox` is the step simulation: a publish maps to `Publish` (the
  record in hand is pending, and `CopiesExplained` gives its guard), a commit to
  settling rows, the rest to a lapse or a stutter.
- **Gateway.**  `OneEventPerKeyPeriod` needs that the claims of the current period
  exist only for keys in Redis, and that two requests with equal key and claim are
  equal.  `AcceptedIsDurable` needs that `committed` requests are stored.
- **RateLimiter.**  `WindowRespected` needs that what Redis counts is what matters:
  every allowed call younger than a window is in the sorted set
  (`RecentRemembered`), every clock reading still under way is at most `MaxDelay`
  old (`ClocksBounded`), and the key does not expire while such a call is in it
  (`ExpiryIsLate`, from `KEY_TTL >= WINDOW`, in the code 60 s for both).
  `NoSpuriousDenial` needs that ids are given in the order of the answers
  (`IdsBehind`): what a call finds in the set was answered before it, and no later
  answer changes what counted against it (`AnswerKeepsDenials`).
- **CircuitBreaker.**  `OneTestPerHalfOpen` follows from `TestHasWinner`: while the key
  `half_tested` exists there is exactly one winner, else none.  `OpenIsStamped` needs
  `DelayBounded`: a time on its way to Redis is at most `MaxDelay` old, so whichever
  SET arrives last, it is no older than the latest opening by more than that.
- **Delivery.**  Everything is said per delivery, and a step of one touches no other
  (`OthersUntouched`).  `RequestsWithinRetries` rests on `AttemptAllowed` (an attempt
  after the first one is below `max_retries`, which `HasNext` must have said before
  the sleep) and on one request per attempt; `AttemptLogComplete` on `LogGrows`
  (what a row adds to the log) and on where the row of the current attempt is
  missing; `DeadLettersAreExhausted` on `VerdictsTimely`, for dead letters sent and
  dropped alike.
- **DeliveryWorker.**  The offset that a task commits is the consumer's position, so
  `OffsetMonotone` rests on `OffsetsOrdered`: in a living process the offset is not
  past the position.  That a message has one task per run (`StartsPerRun`) is
  counted against the runs that crashes and stops ended, a stop only once its run is
  over.  `LostOnlyByFaults` is not inductive, since a commit covers messages of other
  tasks: `TakenAccounted` says it of every message up to the position.
- **Relay.**  `DeliveryPart` and `TransformPart` show that the composition behaves as
  each worker's specification says, so DeliveryWorker's theorems hold in it
  (`TasksBoundedInRelay`, `LossesInRelay`, `OffsetInRelay`).  `TInv` is the transform
  worker's invariant: offsets in order, what was looked up and not yet dispatched is
  in `todo`, the copies of a message are explained by crashes and commits that
  raised, and without faults every lookup found the active routes.  `RInv` ties the
  two together: `topic` holds as many messages of a delivery as the transform worker
  sent.  `WorkersImplementForwarding` is the step simulation: without a fault what is
  behind both offsets is settled or has its task (`NothingDropped`), a settled
  message makes a delivery that is not dropped (`SettleDelivers`), and a drop is
  final (`DroppedStays`) because neither offset goes back.  It assumes, as
  `_dispatch_route` makes it, that a message the transform worker produces is not
  malformed, and that what it skips passes no route.
- **Access.**  `OneOwner` is not inductive: a member call writes later than it looked.
  `CallOK` says of a call that is about to write that its workspace exists and its
  target is not the owner, and that stays so because no call makes an owner of
  anybody in a workspace that exists.  `LogoutHolds` needs the arithmetic of
  `ttl = (exp * TICKS - now) \div TICKS`: either the key outlives the second before the
  last, or that second is over (`TimeToLive`).  `TypeOK` says more than types: a change
  or a removal about to be written has read a role that can be granted (`SeenOK`).
  `MembershipIsImplemented` is the step simulation, a commit at a time.  It needs two
  facts more (`MInv`): the account of a token, of a call that creates a workspace and
  of an addition about to be written exists, and stays (`NoAccountGoes`); and that an
  existing workspace has its owner, so that no addition becomes its first member.
- **Catalog**, with Events and Transform.  `CInv` has three parts, and each is kept
  because of what the others let stay (`StoredStay`: a stored event stays stored;
  `VersionsGrow`: the history of a route's settings only grows).
  - `EInv`, of the tables of events.  `CopiesAccounted` is not inductive: a lost
    transaction leaves the copies of its batch in the topic, and a commit turns them
    into re-queuings, so `CopiesExplained` also counts the copy of a row in `sent` as
    one that must be there (`InHand`), and says that nothing was done with an event
    that is not stored.  `DiscardStamped` needs what a restore has read to have been
    consistent (`EventCallOK`), and `PickedRowsHold` that no call commits on a locked
    row and that `MarkFailed` takes queued rows only.
  - `RInv`, of the routes.  `StoredSettingsSound` needs that what a call is about to
    write was accepted (`RouteCallOK`), and that writing any accepted columns over those
    of an accepted row leaves an accepted row (`UpdateKeepsSettings`).  That a route being
    added has no history, and no two calls add the same one, keeps a commit of one
    call from disturbing another; `OtherFieldsKept` rests on it too.
  - `HInv`, of what is on its way.  `OneVersionPerMessage` needs that the settings in
    `job` are in the history of their routes (`JobHolds`), `HistoryAnchored` that
    deliveries are of stored events (`FlightsHold`).

  `AcceptedPipelineRuns` says that a pipeline the API accepts fails, if at all, inside
  JMESPath or, when it has a division, with an `OverflowError`.  `apply_pipeline` is a
  recursive function of the number of steps taken; that it exists and what holds after
  each step is shown by taking the first step at which it would fail to
  (`LeastElement`, from the well-foundedness of `<`), which is induction without a
  predicate as a parameter.

Assumptions of Events and Catalog, all checked by TLC on the instance: `NoEvent` and
`NoRoute` are no rows; the settings a run starts with are settings; a pipeline is a
sequence of steps, the length of an expression is a number, and so is `MAX_FLOAT`; an
update gives columns of a route, each with a value of its kind or a null `url`.

Only model-checked: the liveness properties `EventuallySettled`, `OpenEnds`,
`Terminates` and `EventuallyForwarded`, since fairness and ENABLED are out of the
prover's reach.

## What the counterexamples and the models say

Runs that end in a violation:

- *`gateway_loss`* - the key is taken (`handler.py:115`), the process dies before the
  commit (143), and another request with the key is told `duplicate`: in the trace one
  that was under way at the same time, in the same way a retry after the crash.  No
  event exists.
- *`circuit_breaker_wedged`* - three failures open the circuit, the cooldown passes,
  a delivery half-opens it and fails after the failure counter has expired: the
  count is below the threshold, the state stays `HALF_OPEN`.  The next delivery
  takes `half_tested` and fails too.  Nothing deletes `half_tested` any more.
- *`delivery_no_producer`* - `delivery_worker.py` never calls `init_kafka`.  With a
  producer the dead letter would still be lost, without a trace, when sending it fails
  (`worker.py:168`; `SwallowDeadLetter`).  This has no run of its own, since today no
  process has both a producer and deliveries.

Seen in the models or while reading, without a run of their own:

- Delivery path.  The delivery worker commits behind deliveries that are still under
  way, so a crash or a stop loses them (`ARCHITECTURE.md:7` says at least once; line
  137 admits it), and the message on which the loop notices `_stop` is lost
  (`delivery_worker.py:55`); on a quiet topic nothing notices `_stop` at all.  A
  `send_and_wait` that raises in the transform worker loses the remaining routes
  (`transform_worker.py:88-91`), its own only if the broker had not stored it; a
  pipeline that raises loses its route, without the dead letter of
  `ARCHITECTURE.md:132` and `134`.  Nothing on the delivery side deduplicates
  (`ARCHITECTURE.md:129`).  A delivery whose last attempt an open circuit refuses ends
  without a dead letter (`worker.py:64`; `ARCHITECTURE.md:124`). A Redis failure
  raises out of `is_open`: the delivery is not made, while `ARCHITECTURE.md:117` says
  the circuit breaker fails open.
- Circuit breaker.  `record_failure` sets the state (`circuit_breaker.py:49`) before
  `open_since` (50): a delivery in between reads no time, or the last one, and
  half-opens the circuit at once, and so does the next one after an opener was lost
  there (`OpenIsStamped` says when that can be; `ARCHITECTURE.md:123` says all
  requests are blocked for the cooldown).  `SETNX` admits one delivery to a half-open
  circuit, but the one that half-opened it goes through beside it
  (`circuit_breaker.py:22-23`).  `is_open` half-opens on a state it read two calls ago
  (line 22).
- Gateway and relay.  A `refresh` that raises after the commit (`handler.py:144`) is a
  500 for an event that is stored.  A relay without a producer counts each poll as a
  failed publish and gives a row up after `MAX_ATTEMPTS` polls; `ARCHITECTURE.md:104`
  says the rows stay pending.
- Events.  Nothing sets `events.status` to `failed`, so the retry scheduler never
  picks a row (`ARCHITECTURE.md:79`, `142`).  A scheduler that comes up without Kafka
  stays without a producer until it is restarted (`retry_scheduler.py:32`).
- Dead-letter list.  `list_dlq` (`events.py:140`) selects every undiscarded event that
  has a failed attempt: also one whose retry is pending, and one whose later attempt
  has succeeded.  `DlqPage.tsx:87` calls them "Events that exhausted all delivery
  retries", and `ARCHITECTURE.md:76` has an event there after `max_retries` failures.
  The last failing attempt is joined by its number alone (line 158), so rows of other
  routes are shown too, and answers of 4xx never.
- Routes.  A division in a template raises an `OverflowError` for an integer too large
  for a float (`engine.py:97`; line 98 catches two other errors), so an accepted
  pipeline may lose the route's delivery outside JMESPath too.  A template path that
  leads through a scalar yields the scalar's text (`engine.py:91`), not the empty
  string of `ARCHITECTURE.md:133`.  A route or an endpoint with history cannot be
  deleted (500), and a route deleted while its first attempt is under way makes the
  attempt's insert fail.  An explicit null `url` is a 500; `request_body_schema` and
  the rate limit cannot be cleared (`endpoints.py:102`); headers come back redacted
  and are stored like that when they are sent again (`endpoints.py:38`).
- Accounts.  `GET`, `PUT` and `DELETE` of a workspace load `membership.workspace` on a
  detached object and always fail (`workspaces.py:83`, `94`, `111`;
  `WorkspaceCallFails`).  `add_member` does not normalise the email
  (`workspaces.py:155`).  Slugs are cut after 63 characters, so long names of two users
  can collide and registering ends in a 500 (`auth.py:31`).  A token is
  good until a second after its `exp`, while the blocklist's key ends up to a second
  before `exp`, being whole seconds of what is left (`auth.py:130`): a token that was
  logged out is accepted again for the last one to two seconds of its life
  (`LogoutHolds` says until when it is not).

## Not modelled

- *Redis client, database session, settings*: connection handling.  `init_db`
  swallows an `ALTER` that fails (`database.py:56`).
- *Login limiter* (`auth.py:52`): `INCR` and `EXPIRE` in two calls, as in the circuit
  breaker's counter.  A process that dies in between leaves a counter that never
  expires; in CircuitBreaker `Lose` does that to the failure counter.
- *Logout without Redis*: `auth.py:135` answers "logged out" without a blocklist entry
  when the client was never initialised.  The application connects to Redis before it
  serves a request, so no state of Access has it.
- *Creating an endpoint, rotating its secret, header redaction*: single writes and
  formatting.
- *Read-only lists and statistics* of the events API: they change nothing.  What the
  dead-letter list selects is described above.
- *HTTP, JSON schema validation, HMAC*: a refused or failed request is an outcome of
  the step that makes it.
- *JMESPath beyond paths and `length()`*: the library is external.
- *Several partitions and rebalancing*: offsets are per partition, so one partition
  shows what the loop does; a rebalance is not modelled.
- *Dashboard, chaos suite, demo scripts*: clients and test tools.

## Plan

1. `Dispatcher`: Delivery composed with CircuitBreaker, in place of the open answers:
   the cost in attempts of a wedged circuit and of a failure counter that never expires.
2. The gateway in front of OutboxRelay, implementing Outbox's `Accept`; Outbox in
   front of Forwarding, so that the two abstractions meet at `raw-events`.
3. The login limiter with the process dying between its two calls.
