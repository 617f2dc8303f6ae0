----------------------------- MODULE RateLimiter -----------------------------
(***************************************************************************)
(* The sliding-window limiter (app/core/rate_limiter.py) on one key.       *)
(* A caller reads its own clock, then runs four Redis commands in one      *)
(* MULTI/EXEC pipeline.  Between the two other callers may run theirs, so  *)
(* the scores in the sorted set need not arrive in order.                  *)
(***************************************************************************)
EXTENDS Integers, FiniteSets

CONSTANTS
    Callers,   \* the tasks that share the key
    Limits,    \* the limits callers pass; editing a route changes them
    MaxLimit,  \* an upper bound of Limits
    WINDOW,    \* window_ms
    KEY_TTL,   \* the EXPIRE on the key, in the unit of WINDOW
    MaxDelay,  \* the longest time between the clock and the pipeline
    MaxTime,   \* bound: how long the model runs
    MaxCalls   \* bound: how many calls it makes

ASSUME LimitsAssumption ==
    /\ MaxLimit \in Nat
    /\ Limits \subseteq Int
    /\ \A l \in Limits : l <= MaxLimit
ASSUME TimeAssumption ==
    /\ WINDOW \in Nat /\ KEY_TTL \in Nat /\ KEY_TTL >= WINDOW
    /\ MaxDelay \in 0..WINDOW
    /\ MaxTime \in Nat /\ MaxCalls \in Nat

VARIABLES
    now,       \* the time
    reading,   \* the time each caller has read, or Idle
    limit,     \* the limit it was called with
    zset,      \* the sorted set: the calls Redis still remembers
    expireAt,  \* when Redis drops the key
    log        \* every answered call: id, score, limit and verdict

vars == <<now, reading, limit, zset, expireAt, log>>

Idle == -1

Call == [id : 1..MaxCalls, score : Nat, limit : Int, ok : BOOLEAN]

TypeOK ==
    /\ now \in 0..MaxTime
    /\ reading \in [Callers -> {Idle} \cup Nat]
    /\ limit \in [Callers -> Limits \cup {0}]
    /\ zset \subseteq log
    /\ expireAt \in Nat
    /\ log \subseteq Call

Init ==
    /\ now = 0
    /\ reading = [c \in Callers |-> Idle]
    /\ limit = [c \in Callers |-> 0]
    /\ zset = {}
    /\ expireAt = 0
    /\ log = {}

-----------------------------------------------------------------------------
NextId == Cardinality(log) + 1

(* limit <= 0: the answer is False and Redis is not asked. *)
Refuse(c, l) ==
    /\ reading[c] = Idle
    /\ l <= 0
    /\ NextId <= MaxCalls
    /\ log' = log \cup {[id |-> NextId, score |-> now, limit |-> l, ok |-> FALSE]}
    /\ UNCHANGED <<now, reading, limit, zset, expireAt>>

(* now = time.time() * 1000 *)
ReadClock(c, l) ==
    /\ reading[c] = Idle
    /\ l > 0
    /\ reading' = [reading EXCEPT ![c] = now]
    /\ limit' = [limit EXCEPT ![c] = l]
    /\ UNCHANGED <<now, zset, expireAt, log>>

(* zremrangebyscore(key, 0, t - WINDOW): what is left of the set. *)
Trimmed(t) == {m \in zset : m.score > t - WINDOW}

(* The comparison lets one call too many through. *)
AllowsOneMore(count, l) == count <= l

Allows(count, l) == count < l

(* Nothing is trimmed and the set only grows. *)
ExecuteWithoutTrim(c) ==
    /\ reading[c] # Idle
    /\ NextId <= MaxCalls
    /\ LET member == [id |-> NextId, score |-> reading[c], limit |-> limit[c],
                      ok |-> Allows(Cardinality(zset), limit[c])]
       IN  /\ zset' = zset \cup {member}
           /\ log' = log \cup {member}
    /\ expireAt' = now + KEY_TTL
    /\ reading' = [reading EXCEPT ![c] = Idle]
    /\ UNCHANGED <<now, limit>>

(* The pipeline: trim, count, add (a denied call too), expire. *)
Execute(c) ==
    /\ reading[c] # Idle
    /\ NextId <= MaxCalls
    /\ LET kept == Trimmed(reading[c])
           member == [id |-> NextId, score |-> reading[c], limit |-> limit[c],
                      ok |-> Allows(Cardinality(kept), limit[c])]
       IN  /\ zset' = kept \cup {member}
           /\ log' = log \cup {member}
    /\ expireAt' = now + KEY_TTL
    /\ reading' = [reading EXCEPT ![c] = Idle]
    /\ UNCHANGED <<now, limit>>

(* Time passes; Redis drops the key when its time to live is over.  A call  *)
(* whose pipeline is on its way holds time back once it is MaxDelay old.    *)
Tick ==
    /\ now < MaxTime
    /\ \A c \in Callers : reading[c] # Idle => now + 1 - reading[c] <= MaxDelay
    /\ now' = now + 1
    /\ zset' = IF now' >= expireAt THEN {} ELSE zset
    /\ UNCHANGED <<reading, limit, expireAt, log>>

Next ==
    \/ \E c \in Callers, l \in Limits : Refuse(c, l) \/ ReadClock(c, l)
    \/ \E c \in Callers : Execute(c)
    \/ Tick

Spec == Init /\ [][Next]_vars

-----------------------------------------------------------------------------
(* The calls allowed in the length-s window that ends at t. *)
AllowedIn(t, s) == {m \in log : m.ok /\ t - s < m.score /\ m.score <= t}

(* No window holds more allowed calls than the limit, although callers run   *)
(* concurrently and the set forgets: a pipeline that runs up to MaxDelay     *)
(* after its clock was read shortens the guaranteed window by that much,     *)
(* and by no more.                                                           *)
WindowRespected ==
    \A t \in 0..now : Cardinality(AllowedIn(t, WINDOW - MaxDelay)) <= MaxLimit

(* A call is denied only if as many calls as its limit, allowed or denied,   *)
(* were made before it within its window: nothing older counts against it.   *)
NoSpuriousDenial ==
    \A m \in log : ~m.ok =>
        Cardinality({x \in log : x.id < m.id /\ x.score > m.score - WINDOW}) >= m.limit

=============================================================================
