------------------------- MODULE RateLimiter_proofs -------------------------
(***************************************************************************)
(* The window guarantee of RateLimiter, for any number of callers, any     *)
(* limits, window and delay, and any length of run.                        *)
(***************************************************************************)
EXTENDS RateLimiter, TLAPS, FiniteSetTheorems

(* Redis remembers every call that is younger than a window. *)
RecentRemembered == \A m \in log : m.score > now - WINDOW => m.limit <= 0 \/ m \in zset

(* A caller's clock reading is at most MaxDelay old, and no score lies in    *)
(* the future.                                                               *)
ClocksBounded ==
    /\ \A c \in Callers : reading[c] # Idle =>
            reading[c] <= now /\ now - reading[c] <= MaxDelay
    /\ \A m \in log : m.score <= now

(* When the key expires, every call is at least a window old. *)
ExpiryIsLate == \A m \in log : m \in zset => m.score + WINDOW <= expireAt

(* Only positive limits are ever answered by Redis. *)
OkHasLimit == \A m \in log : m.ok => m.limit > 0

(* No window holds more than MaxLimit allowed calls, wherever it ends. *)
WindowsBounded ==
    \A t \in Nat :
        /\ IsFiniteSet(AllowedIn(t, WINDOW - MaxDelay))
        /\ Cardinality(AllowedIn(t, WINDOW - MaxDelay)) <= MaxLimit

(* The inductive invariant. *)
IInv ==
    /\ TypeOK
    /\ IsFiniteSet(log)
    /\ RecentRemembered
    /\ ClocksBounded
    /\ ExpiryIsLate
    /\ OkHasLimit
    /\ WindowsBounded

-----------------------------------------------------------------------------
(* The limit a call was made with is an integer no greater than MaxLimit. *)
LEMMA LimitIsInt ==
    ASSUME TypeOK, NEW c \in Callers
    PROVE limit[c] \in Int /\ limit[c] <= MaxLimit
<1>1. limit[c] \in Limits \/ limit[c] = 0
    BY DEF TypeOK
<1>2. CASE limit[c] \in Limits
    <2>1. limit[c] \in Int
        BY <1>2, LimitsAssumption, Zenon
    <2>2. limit[c] <= MaxLimit
        BY <1>2, LimitsAssumption, Zenon
    <2> QED BY <2>1, <2>2
<1>3. CASE limit[c] = 0
    BY <1>3, LimitsAssumption
<1> QED BY <1>1, <1>2, <1>3

(* Every value stays in its type. *)
LEMMA TypeStep == IInv /\ [Next]_vars => TypeOK' /\ IsFiniteSet(log)'
<1> SUFFICES ASSUME IInv, [Next]_vars PROVE TypeOK' /\ IsFiniteSet(log)'
    OBVIOUS
<1> USE LimitsAssumption, TimeAssumption DEF IInv
<1>0. NextId \in Nat \ {0}
    BY FS_CardinalityType DEF NextId
<1>1. ASSUME NEW c \in Callers, NEW l \in Limits, Refuse(c, l)
      PROVE TypeOK' /\ IsFiniteSet(log)'
    <2> DEFINE member == [id |-> NextId, score |-> now, limit |-> l, ok |-> FALSE]
    <2>1. member \in Call
        BY <1>0, <1>1 DEF Refuse, Call, TypeOK
    <2>2. log' = log \cup {member}
        BY <1>1 DEF Refuse
    <2>3. IsFiniteSet(log')
        BY <2>2, FS_AddElement
    <2> QED BY <1>1, <2>1, <2>2, <2>3 DEF Refuse, TypeOK
<1>2. ASSUME NEW c \in Callers, NEW l \in Limits, ReadClock(c, l)
      PROVE TypeOK' /\ IsFiniteSet(log)'
    BY <1>2 DEF ReadClock, TypeOK
<1>3. ASSUME NEW c \in Callers, Execute(c) PROVE TypeOK' /\ IsFiniteSet(log)'
    <2> DEFINE kept == Trimmed(reading[c])
    <2> DEFINE member == [id |-> NextId, score |-> reading[c], limit |-> limit[c],
                          ok |-> Allows(Cardinality(kept), limit[c])]
    <2>1. /\ zset' = kept \cup {member}
          /\ log' = log \cup {member}
        BY <1>3 DEF Execute
    <2>2. member \in Call
        <3>1. reading[c] \in Nat
            BY <1>3 DEF Execute, TypeOK
        <3>4. limit[c] \in Int
            BY LimitIsInt
        <3>2. Allows(Cardinality(kept), limit[c]) \in BOOLEAN
            BY DEF Allows
        <3>3. NextId \in 1..MaxCalls
            BY <1>0, <1>3 DEF Execute
        <3> QED BY <3>1, <3>2, <3>3, <3>4 DEF Call
    <2>3. kept \subseteq zset
        BY DEF Trimmed
    <2>4. IsFiniteSet(log')
        BY <2>1, FS_AddElement
    <2>5. now + KEY_TTL \in Nat
        BY DEF TypeOK
    <2> HIDE DEF kept, member
    <2> QED BY <1>3, <2>1, <2>2, <2>3, <2>4, <2>5 DEF Execute, TypeOK
<1>4. CASE Tick
    BY <1>4 DEF Tick, TypeOK
<1>5. CASE UNCHANGED vars
    BY <1>5 DEF vars, TypeOK
<1> QED BY <1>1, <1>2, <1>3, <1>4, <1>5 DEF Next

(* Readings age by at most MaxDelay, and scores are readings. *)
LEMMA ClocksStep == IInv /\ [Next]_vars => ClocksBounded' /\ OkHasLimit'
<1> SUFFICES ASSUME IInv, [Next]_vars PROVE ClocksBounded' /\ OkHasLimit'
    OBVIOUS
<1> USE LimitsAssumption, TimeAssumption DEF IInv
<1>1. ASSUME NEW c \in Callers, NEW l \in Limits, Refuse(c, l)
      PROVE ClocksBounded' /\ OkHasLimit'
    BY <1>1 DEF Refuse, ClocksBounded, OkHasLimit, TypeOK
<1>2. ASSUME NEW c \in Callers, NEW l \in Limits, ReadClock(c, l)
      PROVE ClocksBounded' /\ OkHasLimit'
    BY <1>2 DEF ReadClock, ClocksBounded, OkHasLimit, TypeOK, Idle
<1>3. ASSUME NEW c \in Callers, Execute(c) PROVE ClocksBounded' /\ OkHasLimit'
    <2> DEFINE kept == Trimmed(reading[c])
    <2> DEFINE member == [id |-> NextId, score |-> reading[c], limit |-> limit[c],
                          ok |-> Allows(Cardinality(kept), limit[c])]
    <2>1. log' = log \cup {member}
        BY <1>3 DEF Execute
    <2>2. kept \subseteq log /\ IsFiniteSet(kept)
        BY FS_Subset DEF Trimmed, TypeOK
    <2>3. Cardinality(kept) \in Nat
        BY <2>2, FS_CardinalityType
    <2>4. member.ok => member.limit > 0
        <3>1. limit[c] \in Int
            BY LimitIsInt
        <3>2. Allows(Cardinality(kept), limit[c]) => limit[c] > 0
            BY <2>3, <3>1 DEF Allows
        <3> QED BY <3>2
    <2>5. member.score <= now
        <3>1. reading[c] <= now
            BY <1>3 DEF Execute, ClocksBounded
        <3> QED BY <3>1
    <2> HIDE DEF kept, member
    <2> QED BY <1>3, <2>1, <2>4, <2>5 DEF Execute, ClocksBounded, OkHasLimit, TypeOK
<1>4. CASE Tick
    BY <1>4 DEF Tick, ClocksBounded, OkHasLimit, TypeOK, Call
<1>5. CASE UNCHANGED vars
    BY <1>5 DEF vars, ClocksBounded, OkHasLimit
<1> QED BY <1>1, <1>2, <1>3, <1>4, <1>5 DEF Next

(* What a pipeline trims, and what an expiry drops, is a window old. *)
LEMMA MemoryStep == IInv /\ [Next]_vars => RecentRemembered' /\ ExpiryIsLate'
<1> SUFFICES ASSUME IInv, [Next]_vars PROVE RecentRemembered' /\ ExpiryIsLate'
    OBVIOUS
<1> USE LimitsAssumption, TimeAssumption DEF IInv
<1>1. ASSUME NEW c \in Callers, NEW l \in Limits, Refuse(c, l)
      PROVE RecentRemembered' /\ ExpiryIsLate'
    <2> DEFINE member == [id |-> NextId, score |-> now, limit |-> l, ok |-> FALSE]
    <2>1. log' = log \cup {member} /\ member.limit <= 0 /\ UNCHANGED <<now, zset, expireAt>>
        BY <1>1 DEF Refuse
    <2> HIDE DEF member
    <2>2. RecentRemembered'
        BY <2>1 DEF RecentRemembered
    <2>3. ExpiryIsLate'
        BY <2>1 DEF ExpiryIsLate, TypeOK
    <2> QED BY <2>2, <2>3
<1>2. ASSUME NEW c \in Callers, Execute(c) PROVE RecentRemembered' /\ ExpiryIsLate'
    <2> DEFINE kept == Trimmed(reading[c])
    <2> DEFINE member == [id |-> NextId, score |-> reading[c], limit |-> limit[c],
                          ok |-> Allows(Cardinality(kept), limit[c])]
    <2>1. /\ zset' = kept \cup {member}
          /\ log' = log \cup {member}
          /\ expireAt' = now + KEY_TTL
          /\ now' = now
        BY <1>2 DEF Execute
    <2>2. reading[c] <= now /\ reading[c] \in Nat
        BY <1>2 DEF Execute, ClocksBounded, TypeOK
    <2>3. \A m \in zset : m \in log /\ m.score \in Nat /\ m.score <= now
        BY DEF TypeOK, ClocksBounded, Call
    <2>4. \A m \in zset : m.score > now - WINDOW => m \in kept
        BY <2>2, <2>3 DEF Trimmed, TypeOK
    <2>5. \A m \in kept : m \in zset
        BY DEF Trimmed
    <2>6. member.score = reading[c]
        OBVIOUS
    <2> HIDE DEF kept, member
    <2>7. RecentRemembered'
        BY <2>1, <2>4 DEF RecentRemembered
    <2>8. ExpiryIsLate'
        BY <2>1, <2>2, <2>3, <2>5, <2>6 DEF ExpiryIsLate, TypeOK
    <2> QED BY <2>7, <2>8
<1>3. CASE Tick
    <2>1. \A m \in log : m.score \in Nat
        BY DEF TypeOK, Call
    <2> QED BY <1>3, <2>1 DEF Tick, RecentRemembered, ExpiryIsLate, TypeOK
<1>4. ASSUME UNCHANGED <<now, zset, expireAt, log>> PROVE RecentRemembered' /\ ExpiryIsLate'
    BY <1>4 DEF RecentRemembered, ExpiryIsLate
<1> QED BY <1>1, <1>2, <1>3, <1>4 DEF Next, ReadClock, vars

-----------------------------------------------------------------------------
(* An allowed call finds fewer than its limit in the set, and the set holds  *)
(* every allowed call of the window that ends at or after its reading.       *)
LEMMA WindowStep == IInv /\ [Next]_vars => WindowsBounded'
<1> SUFFICES ASSUME IInv, [Next]_vars PROVE WindowsBounded'
    OBVIOUS
<1> DEFINE S == WINDOW - MaxDelay
<1> USE LimitsAssumption, TimeAssumption DEF IInv
<1>1. ASSUME NEW c \in Callers, NEW l \in Limits, Refuse(c, l) PROVE WindowsBounded'
    <2>1. \A t : AllowedIn(t, S)' = AllowedIn(t, S)
        BY <1>1 DEF Refuse, AllowedIn
    <2> QED BY <2>1 DEF WindowsBounded
<1>2. ASSUME NEW c \in Callers, Execute(c) PROVE WindowsBounded'
    <2> DEFINE kept == Trimmed(reading[c])
    <2> DEFINE member == [id |-> NextId, score |-> reading[c], limit |-> limit[c],
                          ok |-> Allows(Cardinality(kept), limit[c])]
    <2>1. log' = log \cup {member}
        BY <1>2 DEF Execute
    <2>2. /\ reading[c] \in Nat /\ now \in Nat
          /\ reading[c] <= now /\ now - reading[c] <= MaxDelay
        BY <1>2 DEF Execute, ClocksBounded, TypeOK
    <2>3. IsFiniteSet(kept) /\ Cardinality(kept) \in Nat
        BY FS_Subset, FS_CardinalityType DEF Trimmed, TypeOK
    <2>4. member.score = reading[c]
        OBVIOUS
    <2>5. member.ok => Cardinality(kept) < MaxLimit
        <3>1. Allows(Cardinality(kept), limit[c]) => Cardinality(kept) < MaxLimit
            BY <2>3, LimitIsInt DEF Allows
        <3> QED BY <3>1
    <2>6. \A m \in log : m.score \in Nat
        BY DEF TypeOK, Call
    <2>7. \A t \in Nat : reading[c] <= t => AllowedIn(t, S) \subseteq kept
        <3> SUFFICES ASSUME NEW t \in Nat, reading[c] <= t, NEW m \in AllowedIn(t, S)
                     PROVE m \in kept
            OBVIOUS
        <3>1. m \in log /\ m.ok /\ t - S < m.score /\ m.score \in Nat
            BY <2>6 DEF AllowedIn
        <3>2. m.score > now - WINDOW /\ m.score > reading[c] - WINDOW
            BY <2>2, <3>1
        <3>3. m \in zset
            <4>1. m.limit \in Int /\ m.limit > 0
                BY <3>1 DEF OkHasLimit, TypeOK, Call
            <4> QED BY <3>1, <3>2, <4>1 DEF RecentRemembered
        <3> QED BY <3>2, <3>3 DEF Trimmed
    <2> HIDE DEF kept, member
    <2> SUFFICES ASSUME NEW t \in Nat
                 PROVE /\ IsFiniteSet(AllowedIn(t, S)')
                       /\ Cardinality(AllowedIn(t, S)') <= MaxLimit
        BY DEF WindowsBounded
    <2>8. CASE ~member.ok \/ t < reading[c]
        <3>1. AllowedIn(t, S)' = AllowedIn(t, S)
            BY <2>1, <2>2, <2>4, <2>8 DEF AllowedIn
        <3> QED BY <3>1 DEF WindowsBounded
    <2>9. CASE member.ok /\ reading[c] <= t
        <3>1. AllowedIn(t, S)' \subseteq kept \cup {member}
            <4>1. AllowedIn(t, S)' \subseteq AllowedIn(t, S) \cup {member}
                BY <2>1 DEF AllowedIn
            <4> QED BY <2>7, <2>9, <4>1
        <3>2. /\ IsFiniteSet(kept \cup {member})
              /\ Cardinality(kept \cup {member}) <= Cardinality(kept) + 1
            <4>1. /\ IsFiniteSet(kept \cup {member})
                  /\ \/ Cardinality(kept \cup {member}) = Cardinality(kept)
                     \/ Cardinality(kept \cup {member}) = Cardinality(kept) + 1
                BY <2>3, FS_AddElement, Zenon
            <4> QED BY <2>3, <4>1
        <3>3. /\ IsFiniteSet(AllowedIn(t, S)')
              /\ Cardinality(AllowedIn(t, S)') <= Cardinality(kept \cup {member})
            BY <3>1, <3>2, FS_Subset
        <3>4. /\ Cardinality(AllowedIn(t, S)') \in Nat
              /\ Cardinality(kept \cup {member}) \in Nat
            BY <3>2, <3>3, FS_CardinalityType
        <3> QED BY <2>3, <2>5, <2>9, <3>2, <3>3, <3>4
    <2> QED BY <2>2, <2>8, <2>9
<1>3. ASSUME UNCHANGED log PROVE WindowsBounded'
    <2>1. \A t : AllowedIn(t, S)' = AllowedIn(t, S)
        BY <1>3 DEF AllowedIn
    <2> QED BY <2>1 DEF WindowsBounded
<1> QED BY <1>1, <1>2, <1>3 DEF Next, ReadClock, Tick, vars

-----------------------------------------------------------------------------
(* IInv holds of every reachable state of the limiter. *)
THEOREM Invariance == Spec => []IInv
<1>1. Init => IInv
    <2> SUFFICES ASSUME Init PROVE IInv
        OBVIOUS
    <2>1. TypeOK /\ RecentRemembered /\ ClocksBounded /\ ExpiryIsLate /\ OkHasLimit
        BY TimeAssumption
        DEF Init, TypeOK, RecentRemembered, ClocksBounded, ExpiryIsLate, OkHasLimit
    <2>2. IsFiniteSet(log)
        BY FS_EmptySet DEF Init
    <2>3. \A t \in Nat : AllowedIn(t, WINDOW - MaxDelay) = {}
        BY DEF Init, AllowedIn
    <2>4. WindowsBounded
        BY <2>3, FS_EmptySet, LimitsAssumption DEF WindowsBounded
    <2> QED BY <2>1, <2>2, <2>4 DEF IInv
<1>2. IInv /\ [Next]_vars => IInv'
    BY TypeStep, ClocksStep, MemoryStep, WindowStep DEF IInv
<1> QED BY <1>1, <1>2, PTL DEF Spec

(* The limiter's state keeps its type. *)
THEOREM TypeCorrect == Spec => []TypeOK
<1>1. IInv => TypeOK
    BY DEF IInv
<1> QED BY <1>1, Invariance, PTL

(* allow_request never admits more than the limit in a window, for any       *)
(* number of concurrent callers and any delay of their pipelines.            *)
THEOREM WindowGuarantee == Spec => []WindowRespected
<1>1. IInv => WindowRespected
    BY TimeAssumption DEF IInv, TypeOK, WindowsBounded, WindowRespected
<1> QED BY <1>1, Invariance, PTL

-----------------------------------------------------------------------------
(* The calls that may count against m. *)
Before(m) == {x \in log : x.id < m.id /\ x.score > m.score - WINDOW}

(* Ids are given in the order in which calls are answered. *)
IdsBehind == \A x \in log : x.id < NextId

DInv == IdsBehind /\ NoSpuriousDenial

(* A call that is answered now changes nothing for the ones before it. *)
LEMMA AnswerKeepsDenials ==
    ASSUME IInv, DInv, NEW m, m.id = NextId, log' = log \cup {m},
           ~m.ok => Cardinality(Before(m)') >= m.limit
    PROVE  DInv'
<1>1. IsFiniteSet(log) /\ NextId \in Nat /\ Cardinality(log) \in Nat /\ \A x \in log : x.id \in Nat
    BY FS_CardinalityType DEF IInv, NextId, TypeOK, Call
<1>2. m \notin log
    BY <1>1 DEF DInv, IdsBehind
<1>3. NextId' = NextId + 1
    <2>1. Cardinality(log \cup {m}) = Cardinality(log) + 1
        BY <1>1, <1>2, FS_AddElement
    <2> QED BY <1>1, <2>1 DEF NextId
<1>4. IdsBehind'
    BY <1>1, <1>3 DEF DInv, IdsBehind
<1>5. ASSUME NEW x \in log PROVE Before(x)' = Before(x)
    BY <1>1, <1>5 DEF DInv, IdsBehind, Before
<1>6. \A x \in log' : ~x.ok => Cardinality(Before(x)') >= x.limit
    BY <1>5 DEF DInv, NoSpuriousDenial, Before
<1> QED BY <1>4, <1>6 DEF DInv, NoSpuriousDenial, Before

LEMMA DenialStep == IInv /\ DInv /\ [Next]_vars => DInv'
<1> SUFFICES ASSUME IInv, DInv, [Next]_vars PROVE DInv'
    OBVIOUS
<1>1. ASSUME NEW c \in Callers, NEW l \in Limits, Refuse(c, l) PROVE DInv'
    <2>1. PICK m : log' = log \cup {m} /\ m.id = NextId /\ m.limit <= 0 /\ m.limit \in Int
        <3> DEFINE r == [id |-> NextId, score |-> now, limit |-> l, ok |-> FALSE]
        <3>1. log' = log \cup {r} /\ r.id = NextId /\ r.limit <= 0 /\ r.limit \in Int
            BY <1>1, LimitsAssumption DEF Refuse
        <3> HIDE DEF r
        <3> QED BY <3>1
    <2>2. Cardinality(Before(m)') \in Nat
        <3>1. IsFiniteSet(log')
            BY <2>1, FS_AddElement DEF IInv
        <3>2. Before(m)' \subseteq log'
            BY DEF Before
        <3> QED BY <3>1, <3>2, FS_Subset, FS_CardinalityType
    <2> QED BY <2>1, <2>2, AnswerKeepsDenials
<1>2. ASSUME NEW c \in Callers, Execute(c) PROVE DInv'
    <2>1. PICK m, kept :
            /\ kept = Trimmed(reading[c])
            /\ log' = log \cup {m} /\ m.id = NextId /\ m.score = reading[c]
            /\ m.limit = limit[c] /\ (m.ok <=> Allows(Cardinality(kept), limit[c]))
        <3> DEFINE K == Trimmed(reading[c])
        <3> DEFINE r == [id |-> NextId, score |-> reading[c], limit |-> limit[c],
                         ok |-> Allows(Cardinality(K), limit[c])]
        <3>1. log' = log \cup {r}
            BY <1>2 DEF Execute
        <3>2. /\ r.id = NextId /\ r.score = reading[c] /\ r.limit = limit[c]
              /\ r.ok = Allows(Cardinality(K), limit[c])
            OBVIOUS
        <3> HIDE DEF r
        <3> QED BY <3>1, <3>2, Zenon
    <2>2. kept \subseteq log /\ IsFiniteSet(log) /\ IsFiniteSet(log')
        BY <2>1, FS_AddElement DEF Trimmed, IInv, TypeOK
    <2>3. \A x \in kept : x \in log /\ x.score > reading[c] - WINDOW
        BY <2>1 DEF Trimmed, IInv, TypeOK
    <2>4. kept \subseteq Before(m)'
        BY <2>1, <2>3 DEF Before, DInv, IdsBehind
    <2>5. IsFiniteSet(Before(m)')
        <3>1. Before(m)' \subseteq log'
            BY DEF Before
        <3> QED BY <2>2, <3>1, FS_Subset
    <2>6. /\ Cardinality(kept) <= Cardinality(Before(m)')
          /\ Cardinality(kept) \in Nat /\ Cardinality(Before(m)') \in Nat
        BY <2>4, <2>5, FS_Subset, FS_CardinalityType
    <2>7. ~m.ok => Cardinality(Before(m)') >= m.limit
        BY <2>1, <2>6, LimitIsInt DEF Allows, IInv
    <2> QED BY <2>1, <2>7, AnswerKeepsDenials
<1>3. ASSUME UNCHANGED log PROVE DInv'
    BY <1>3 DEF DInv, IdsBehind, NextId, NoSpuriousDenial
<1> QED BY <1>1, <1>2, <1>3 DEF Next, ReadClock, Tick, vars

(* zremrangebyscore runs before zcard: a call that allow_request denies was  *)
(* preceded by as many calls as its limit, all younger than the window.      *)
THEOREM DenialsAreDue == Spec => []NoSpuriousDenial
<1>1. Init => DInv
    BY DEF Init, DInv, IdsBehind, NoSpuriousDenial
<1>2. DInv => NoSpuriousDenial
    BY DEF DInv
<1> QED BY <1>1, <1>2, DenialStep, Invariance, PTL DEF Spec
=============================================================================
