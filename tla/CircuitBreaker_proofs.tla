------------------------ MODULE CircuitBreaker_proofs ------------------------
(***************************************************************************)
(* Proofs about CircuitBreaker for any number of concurrent deliveries,    *)
(* any threshold, cooldown, delay and life of the failure counter, and     *)
(* however many of the deliveries are lost.                                *)
(***************************************************************************)
EXTENDS CircuitBreaker, TLAPS, FiniteSetTheorems

(* The key half_tested stands for exactly one delivery. *)
TestHasWinner ==
    IF halfTested THEN \E d \in Deliveries : winners = {d} ELSE winners = {}

(* A time on its way to Redis is MaxDelay old at most. *)
DelayBounded == \A d \in Deliveries : At(d, "setSince") => held[d] <= MaxDelay

(* The inductive invariant. *)
IInv ==
    /\ TypeOK
    /\ TestHasWinner
    /\ DelayBounded
    /\ OpenIsStamped

-----------------------------------------------------------------------------
(* An age that grows up to a limit stays within it. *)
LEMMA OlderInRange ==
    ASSUME NEW limit \in Nat, NEW age \in 0..limit
    PROVE Older(age, limit) \in 0..limit /\ Older(age, limit) >= age
BY DEF Older

(* Every value stays in its type. *)
LEMMA TypeStep == IInv /\ [Next]_vars => TypeOK'
<1> SUFFICES ASSUME IInv, [Next]_vars PROVE TypeOK'
    OBVIOUS
<1> USE ThresholdAssumption, TimesAssumption, LossAssumption DEF IInv, Hold, Free, NoTime
<1>1. ASSUME NEW d \in Deliveries, ReadState(d) PROVE TypeOK'
    BY <1>1 DEF TypeOK, ReadState, history, At, Goto, redis
<1>2. ASSUME NEW d \in Deliveries, ReadSince(d) PROVE TypeOK'
    BY <1>2 DEF TypeOK, ReadSince, history, At, Goto, redis
<1>3. ASSUME NEW d \in Deliveries, SetHalfOpen(d) PROVE TypeOK'
    BY <1>3 DEF TypeOK, SetHalfOpen, history, At, Goto
<1>4. ASSUME NEW d \in Deliveries, SetNX(d) PROVE TypeOK'
    <2>1. CASE halfTested
        BY <1>4, <2>1 DEF TypeOK, SetNX, At, Goto
    <2>2. CASE ~halfTested
        BY <1>4, <2>2 DEF TypeOK, SetNX, At, Goto
    <2> QED BY <2>1, <2>2
<1>5. ASSUME NEW d \in Deliveries, RecordSuccess(d) PROVE TypeOK'
    <2>1. failures' \in 0..THRESHOLD /\ ttl' \in 0..FAILURE_TTL
        BY <1>5 DEF RecordSuccess, NoTTL
    <2>2. openSince' \in 0..COOLDOWN + 1
        BY <1>5 DEF RecordSuccess, NoTime
    <2>3. halfTested' \in BOOLEAN
        BY <1>5 DEF RecordSuccess
    <2> QED BY <1>5, <2>1, <2>2, <2>3 DEF TypeOK, RecordSuccess, At, Goto
<1>6. ASSUME NEW d \in Deliveries, RecordFailure(d) PROVE TypeOK'
    BY <1>6 DEF TypeOK, RecordFailure, history, At, Goto
<1>7. ASSUME NEW d \in Deliveries, ExpireFailures(d) PROVE TypeOK'
    BY <1>7 DEF TypeOK, ExpireFailures, history, At, Goto, NoTTL
<1>8. ASSUME NEW d \in Deliveries, SetOpen(d) PROVE TypeOK'
    BY <1>8 DEF TypeOK, SetOpen, At, Goto
<1>9. ASSUME NEW d \in Deliveries, SetSince(d) PROVE TypeOK'
    <2>1. openSince' \in 0..COOLDOWN + 1
        BY <1>9 DEF TypeOK, SetSince
    <2>2. pc' \in [Deliveries -> {"idle", "readSince", "compare", "setHalfOpen", "setNX",
                                 "sending", "expire", "expireAndTrip",
                                 "setOpen", "readClock", "setSince"}]
        BY <1>9 DEF TypeOK, SetSince, Goto
    <2>3. held' \in [Deliveries -> 0..COOLDOWN + 1]
        BY <1>9 DEF TypeOK, SetSince
    <2> QED BY <1>9, <2>1, <2>2, <2>3 DEF TypeOK, SetSince
<1>14. ASSUME NEW d \in Deliveries, Compare(d) PROVE TypeOK'
    BY <1>14 DEF TypeOK, Compare, At, Goto, redis, history
<1>15. ASSUME NEW d \in Deliveries, ReadClock(d) PROVE TypeOK'
    BY <1>15 DEF TypeOK, ReadClock, At, Goto, redis, history
<1>16. ASSUME NEW d \in Deliveries, Lose(d) PROVE TypeOK'
    BY <1>16 DEF TypeOK, Lose, At, Goto, redis
<1>10. ASSUME NEW d \in Deliveries, Abandon(d) PROVE TypeOK'
    BY <1>10 DEF TypeOK, Abandon, history, At, Goto, redis
<1>11. ASSUME Tick PROVE TypeOK'
    <2>1. openAge' \in 0..COOLDOWN
        BY <1>11, OlderInRange DEF Tick, TypeOK
    <2>2. openSince' \in 0..COOLDOWN + 1
        BY <1>11 DEF Tick, TypeOK, OlderTime, Older
    <2>3. ttl' \in 0..FAILURE_TTL /\ failures' \in 0..THRESHOLD
        BY <1>11 DEF Tick, TypeOK, NoTTL
    <2>4. held' \in [Deliveries -> 0..COOLDOWN + 1]
        BY <1>11 DEF Tick, TypeOK, OlderTime, Older
    <2> QED BY <1>11, <2>1, <2>2, <2>3, <2>4 DEF Tick, TypeOK
<1>12. ASSUME Heal PROVE TypeOK'
    BY <1>12 DEF TypeOK, Heal, redis, history
<1>13. ASSUME UNCHANGED vars PROVE TypeOK'
    BY <1>13 DEF TypeOK, vars, redis, history
<1> QED
    BY <1>1, <1>2, <1>3, <1>4, <1>5, <1>6, <1>7, <1>8, <1>9, <1>10, <1>11,
       <1>12, <1>13, <1>14, <1>15, <1>16 DEF Next, Step

(* SETNX gives the test to one delivery, and only DEL takes it away. *)
LEMMA TestStep == IInv /\ [Next]_vars => TestHasWinner'
<1> SUFFICES ASSUME IInv, [Next]_vars PROVE TestHasWinner'
    OBVIOUS
<1> USE DEF IInv
<1>1. ASSUME UNCHANGED <<halfTested, winners>> PROVE TestHasWinner'
    BY <1>1 DEF TestHasWinner
<1>2. ASSUME NEW d \in Deliveries, SetNX(d) PROVE TestHasWinner'
    <2>1. CASE halfTested
        BY <1>1, <1>2, <2>1 DEF SetNX
    <2>2. CASE ~halfTested
        <3>1. halfTested' = TRUE /\ winners' = winners \cup {d}
            BY <1>2, <2>2 DEF SetNX
        <3>2. winners = {}
            BY <2>2 DEF TestHasWinner
        <3>3. winners' = {d}
            BY <3>1, <3>2
        <3> QED BY <3>1, <3>3 DEF TestHasWinner
    <2> QED BY <2>1, <2>2
<1>3. ASSUME NEW d \in Deliveries, RecordSuccess(d) PROVE TestHasWinner'
    BY <1>3 DEF TestHasWinner, RecordSuccess
<1>4. ASSUME NEW d \in Deliveries, Step(d), ~SetNX(d), ~RecordSuccess(d)
      PROVE UNCHANGED <<halfTested, winners>>
    BY <1>4 DEF Step, ReadState, ReadSince, Compare, SetHalfOpen, RecordFailure,
                ExpireFailures, SetOpen, ReadClock, SetSince, redis, history
<1>5. ASSUME NEW d \in Deliveries, Abandon(d) \/ Lose(d)
      PROVE UNCHANGED <<halfTested, winners>>
    BY <1>5 DEF Abandon, Lose, redis, history
<1>6. ASSUME Tick \/ Heal \/ UNCHANGED vars PROVE UNCHANGED <<halfTested, winners>>
    BY <1>6 DEF Tick, Heal, vars, redis, history
<1> QED BY <1>1, <1>2, <1>3, <1>4, <1>5, <1>6 DEF Next

(* Time waits for a SET open_since that is MaxDelay old. *)
LEMMA DelayStep == IInv /\ [Next]_vars => DelayBounded'
<1> SUFFICES ASSUME IInv, [Next]_vars,
                    NEW e \in Deliveries, pc'[e] = "setSince"
             PROVE held'[e] <= MaxDelay
    BY DEF DelayBounded, At
<1> USE DelayAssumption, TimesAssumption DEF IInv
<1>1. ASSUME pc[e] = "setSince", held'[e] = held[e] PROVE held'[e] <= MaxDelay
    BY <1>1 DEF DelayBounded, At
<1>2. ASSUME NEW d \in Deliveries, Step(d), ~ReadClock(d) PROVE held'[e] <= MaxDelay
    <2>1. pc[e] = "setSince"
        BY <1>2 DEF Step, ReadState, ReadSince, Compare, SetHalfOpen, SetNX, RecordSuccess,
                    RecordFailure, ExpireFailures, SetOpen, SetSince, Goto, TypeOK
    <2>2. held'[e] = held[e]
        <3>1. d # e
            BY <1>2 DEF Step, ReadState, ReadSince, Compare, SetHalfOpen, SetNX,
                        RecordSuccess, RecordFailure, ExpireFailures, SetOpen, SetSince,
                        At, Goto, TypeOK
        <3> QED
            BY <1>2, <3>1 DEF Step, ReadState, ReadSince, Compare, SetHalfOpen, SetNX,
                              RecordSuccess, RecordFailure, ExpireFailures, SetOpen,
                              SetSince, Hold, Free, TypeOK
    <2> QED BY <1>1, <2>1, <2>2
<1>3. ASSUME NEW d \in Deliveries, ReadClock(d) PROVE held'[e] <= MaxDelay
    <2>1. CASE d = e
        BY <1>3, <2>1 DEF ReadClock, Hold, TypeOK
    <2>2. CASE d # e
        BY <1>1, <1>3, <2>2 DEF ReadClock, Hold, Goto, TypeOK
    <2> QED BY <2>1, <2>2
<1>4. ASSUME NEW d \in Deliveries, Abandon(d) \/ Lose(d) PROVE held'[e] <= MaxDelay
    <2>1. d # e
        BY <1>4 DEF Abandon, Lose, Goto, TypeOK
    <2> QED BY <1>1, <1>4, <2>1 DEF Abandon, Lose, Goto, Hold, Free, TypeOK
<1>5. ASSUME Tick PROVE held'[e] <= MaxDelay
    <2>1. pc[e] = "setSince" /\ held[e] < MaxDelay
        BY <1>5 DEF Tick, At
    <2>2. held[e] \in Nat /\ held'[e] = OlderTime(held[e])
        BY <1>5 DEF Tick, TypeOK
    <2> QED BY <2>1, <2>2 DEF OlderTime, Older, NoTime
<1>6. ASSUME Heal \/ UNCHANGED vars PROVE held'[e] <= MaxDelay
    BY <1>1, <1>6 DEF Heal, vars
<1> QED BY <1>2, <1>3, <1>4, <1>5, <1>6 DEF Next

(* Only a delivery between its two SETs, or one lost there, can leave an    *)
(* open circuit with a time much older than its opening.                    *)
LEMMA StampStep == IInv /\ [Next]_vars => OpenIsStamped'
<1> DEFINE Excused == unstamped' \/ \E e \in Deliveries : pc'[e] \in {"readClock", "setSince"}
<1> SUFFICES ASSUME IInv, [Next]_vars, state' = "OPEN", openSince' > openAge' + MaxDelay
             PROVE Excused
    BY DEF OpenIsStamped, Opening
<1> USE DelayAssumption, TimesAssumption DEF IInv
<1>1. ASSUME UNCHANGED <<state, openSince, openAge>>, unstamped => unstamped',
             \A e \in Deliveries : Opening(e) => pc'[e] \in {"readClock", "setSince"}
      PROVE Excused
    BY <1>1 DEF OpenIsStamped
<1>2. ASSUME NEW d \in Deliveries,
             ReadState(d) \/ ReadSince(d) \/ Compare(d) \/ SetNX(d) \/ RecordFailure(d)
                \/ ExpireFailures(d) \/ Abandon(d)
      PROVE Excused
    <2> USE DEF ReadState, ReadSince, Compare, SetNX, RecordFailure, ExpireFailures,
                Abandon
    <2>1. UNCHANGED <<state, openSince, openAge, unstamped>>
        BY <1>2 DEF redis, history
    <2>2. ~Opening(d)
        BY <1>2 DEF At, Opening
    <2>3. \A e \in Deliveries \ {d} : pc'[e] = pc[e]
        BY <1>2 DEF Goto, TypeOK
    <2> HIDE DEF Excused
    <2> QED BY <1>1, <2>1, <2>2, <2>3 DEF Opening
<1>3. ASSUME NEW d \in Deliveries, SetHalfOpen(d) \/ RecordSuccess(d) PROVE FALSE
    BY <1>3 DEF SetHalfOpen, RecordSuccess
<1>4. ASSUME NEW d \in Deliveries, SetOpen(d) PROVE Excused
    BY <1>4 DEF SetOpen, Goto, TypeOK
<1>5. ASSUME NEW d \in Deliveries, SetSince(d) PROVE FALSE
    <2>1. openSince' = held[d] /\ held[d] <= MaxDelay /\ openAge' = openAge
        BY <1>5 DEF SetSince, DelayBounded, At
    <2>2. held[d] \in Nat /\ openAge \in Nat
        BY DEF TypeOK
    <2> QED BY <2>1, <2>2
<1>6. ASSUME NEW d \in Deliveries, ReadClock(d) PROVE Excused
    BY <1>6 DEF ReadClock, Goto, TypeOK
<1>7. ASSUME NEW d \in Deliveries, Lose(d) PROVE Excused
    <2>1. UNCHANGED <<state, openSince, openAge>>
        BY <1>7 DEF Lose, redis
    <2>2. unstamped \/ \E e \in Deliveries : Opening(e)
        BY <2>1 DEF OpenIsStamped
    <2>3. \A e \in Deliveries : Opening(e) => Opening(d) \/ pc'[e] = pc[e]
        BY <1>7 DEF Lose, Goto, TypeOK
    <2>4. unstamped' = (unstamped \/ Opening(d))
        BY <1>7 DEF Lose
    <2> QED BY <2>2, <2>3, <2>4 DEF Opening
<1>8. ASSUME Tick PROVE Excused
    <2>1. state = "OPEN" /\ pc' = pc /\ unstamped' = unstamped
        BY <1>8 DEF Tick
    <2>2. openSince > openAge + MaxDelay
        BY <1>8 DEF Tick, TypeOK, OlderTime, Older, NoTime
    <2> QED BY <2>1, <2>2 DEF OpenIsStamped, Opening
<1>9. ASSUME Heal \/ UNCHANGED vars PROVE Excused
    <2>1. UNCHANGED <<state, openSince, openAge, unstamped, pc>>
        BY <1>9 DEF Heal, vars, redis, history
    <2> QED BY <1>1, <2>1 DEF Opening
<1> QED
    <2> HIDE DEF Excused
    <2> QED BY <1>2, <1>3, <1>4, <1>5, <1>6, <1>7, <1>8, <1>9 DEF Next, Step

-----------------------------------------------------------------------------
(* The inductive invariant holds of every reachable state. *)
THEOREM Invariance == Spec => []IInv
<1>1. Init => IInv
    <2> SUFFICES ASSUME Init PROVE IInv
        OBVIOUS
    <2>1. TypeOK
        <3>1. failures \in 0..THRESHOLD /\ ttl \in 0..FAILURE_TTL
            BY ThresholdAssumption, TimesAssumption DEF Init, NoTTL
        <3>2. openSince \in 0..COOLDOWN + 1 /\ openAge \in 0..COOLDOWN
            BY TimesAssumption DEF Init, NoTime
        <3>3. halfTested \in BOOLEAN /\ healthy \in BOOLEAN /\ unstamped \in BOOLEAN
            BY DEF Init
        <3>4. held \in [Deliveries -> 0..COOLDOWN + 1] /\ losses \in 0..MaxLosses
            BY TimesAssumption, LossAssumption DEF Init, NoTime
        <3> QED BY <3>1, <3>2, <3>3, <3>4 DEF Init, TypeOK
    <2>2. DelayBounded
        BY DEF Init, DelayBounded, At
    <2> QED BY <2>1, <2>2 DEF Init, IInv, TestHasWinner, OpenIsStamped
<1>2. IInv /\ [Next]_vars => IInv'
    BY TypeStep, TestStep, DelayStep, StampStep DEF IInv
<1> QED BY <1>1, <1>2, PTL DEF Spec

(* The breaker's four keys, and what the deliveries are doing, stay in      *)
(* their types under any interleaving of Redis calls.                       *)
THEOREM TypeCorrect == Spec => []TypeOK
BY Invariance, PTL DEF IInv

(* SETNX on half_tested admits one probe at most until record_success       *)
(* deletes the key, however many deliveries find the circuit half open.     *)
THEOREM OneProbe == Spec => []OneTestPerHalfOpen
<1>1. IInv => OneTestPerHalfOpen
    <2> SUFFICES ASSUME IInv PROVE OneTestPerHalfOpen
        OBVIOUS
    <2>1. CASE halfTested
        <3>1. PICK d \in Deliveries : winners = {d}
            BY <2>1 DEF IInv, TestHasWinner
        <3>2. Cardinality(winners) = 1
            BY <3>1, FS_Singleton
        <3> QED BY <2>1, <3>1, <3>2 DEF OneTestPerHalfOpen
    <2>2. CASE ~halfTested
        <3>1. winners = {}
            BY <2>2 DEF IInv, TestHasWinner
        <3>2. Cardinality(winners) = 0
            BY <3>1, FS_EmptySet
        <3> QED BY <2>2, <3>1, <3>2 DEF OneTestPerHalfOpen
    <2> QED BY <2>1, <2>2
<1> QED BY <1>1, Invariance, PTL

(* However late SET open_since arrives, by MaxDelay at most, and whichever  *)
(* openers overtake each other or are lost: an open circuit has a time that *)
(* is MaxDelay older than its opening at most, unless an opener is between  *)
(* its two SETs or was lost there.                                          *)
THEOREM OpenHasTime == Spec => []OpenIsStamped
BY Invariance, PTL DEF IInv

=============================================================================
