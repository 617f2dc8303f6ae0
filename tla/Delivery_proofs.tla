--------------------------- MODULE Delivery_proofs ---------------------------
(***************************************************************************)
(* Theorems about Delivery: for any retry settings, any number of limiter  *)
(* waits and whatever raises, how many requests a destination gets, what   *)
(* the attempt log holds, and which deliveries are dead letters.           *)
(***************************************************************************)
EXTENDS Delivery, FiniteSetTheorems, TLAPS

(* The attempt has not come to anything yet. *)
Trying == {"circuit", "routeLimit", "destLimit", "pause", "send"}

(* The attempt has its row. *)
Recorded == {"report", "sleep", "deadLetter", "done", "swallowed"}

Row == [number : Nat, verdict : Refusals \cup Answers]

(* attempt starts at 0 and goes on only while HasNext held. *)
AttemptAllowed(d) ==
    /\ attempt[d] = 0 \/ attempt[d] < maxRetries[d]
    /\ At(d, "sleep") => HasNext(d)
    /\ At(d, "pause") => waits[d] < MAX_RATE_LIMIT_WAITS

(* One request per attempt: what the row is still missing is the current one. *)
RequestsCounted(d) ==
    /\ requests[d] <= attempt[d] + 1
    /\ pc[d] \in Trying => requests[d] <= attempt[d]
    /\ pc[d] \in Trying \cup Recorded => requests[d] = Logged(d)
    /\ At(d, "store") =>
            requests[d] = IF verdict[d] \in Answers THEN Logged(d) + 1 ELSE Logged(d)

RowsNumbered(d) ==
    /\ \A i \in DOMAIN rows[d] : rows[d][i].number = i - 1
    /\ pc[d] \in Trying \cup {"store"} => Len(rows[d]) = attempt[d]
    /\ pc[d] \in Recorded => Len(rows[d]) = attempt[d] + 1

VerdictsTimely(d) ==
    /\ At(d, "store") => verdict[d] \in Refusals \cup Answers
    /\ At(d, "report") => verdict[d] \in Answers
    /\ At(d, "deadLetter") => verdict[d] \in Failing /\ ~HasNext(d)
    /\ At(d, "swallowed") => verdict[d] \in Failing /\ ~HasNext(d)
    /\ d \in deadLetter => Ended(d) /\ verdict[d] \in Failing /\ ~HasNext(d)
    /\ HasProducer /\ At(d, "done") /\ verdict[d] \in Failing => d \in deadLetter

DInv ==
    /\ TypeOK
    /\ \A d \in Deliveries :
            AttemptAllowed(d) /\ RequestsCounted(d) /\ RowsNumbered(d) /\ VerdictsTimely(d)

-----------------------------------------------------------------------------
(* A step of one delivery touches nothing of another. *)
LEMMA OthersUntouched ==
    ASSUME TypeOK, NEW d \in Deliveries, Step(d), NEW e \in Deliveries \ {d}
    PROVE  /\ maxRetries'[e] = maxRetries[e] /\ pc'[e] = pc[e] /\ attempt'[e] = attempt[e]
           /\ waits'[e] = waits[e] /\ verdict'[e] = verdict[e]
           /\ requests'[e] = requests[e] /\ rows'[e] = rows[e]
           /\ e \in deadLetter' <=> e \in deadLetter
<1> USE DEF TypeOK, route, Goto
<1>1. CASE CheckCircuit(d) \/ CheckRouteLimit(d) \/ CheckDestinationLimit(d)
    BY <1>1 DEF CheckCircuit, CheckRouteLimit, CheckDestinationLimit, Refuse
<1>2. CASE Pause(d) \/ Send(d) \/ Sleep(d)
    BY <1>2 DEF Pause, Send, Sleep
<1>3. CASE Store(d) \/ Report(d) \/ DeadLetter(d) \/ SwallowDeadLetter(d)
    BY <1>3 DEF Store, Report, DeadLetter, SwallowDeadLetter, LogAttempt
<1>4. CASE Raise(d) \/ RaiseAfterEffect(d)
    BY <1>4 DEF Raise, RaiseAfterEffect, LogAttempt
<1> QED BY <1>1, <1>2, <1>3, <1>4 DEF Step

(* The row of an attempt adds one to the log, and to what it counts if the  *)
(* attempt was sent.                                                        *)
LEMMA LogGrows ==
    ASSUME TypeOK, NEW d \in Deliveries, LogAttempt(d), verdict[d] \in Refusals \cup Answers
    PROVE  /\ rows' \in [Deliveries -> Seq(Row)]
           /\ Len(rows'[d]) = Len(rows[d]) + 1
           /\ \A i \in DOMAIN rows[d] : i \in DOMAIN rows'[d] /\ rows'[d][i] = rows[d][i]
           /\ DOMAIN rows'[d] = DOMAIN rows[d] \cup {Len(rows[d]) + 1}
           /\ rows'[d][Len(rows[d]) + 1] = [number |-> attempt[d], verdict |-> verdict[d]]
           /\ Logged(d) \in Nat
           /\ Logged(d)' = IF verdict[d] \in Answers THEN Logged(d) + 1 ELSE Logged(d)
<1> DEFINE r == [number |-> attempt[d], verdict |-> verdict[d]]
           s == rows[d]
           S == {i \in DOMAIN s : s[i].verdict \in Answers}
<1>0. rows \in [Deliveries -> Seq(Row)]
    BY DEF TypeOK, Row
<1>1. r \in Row /\ s \in Seq(Row) /\ Len(s) \in Nat
    <2>1. attempt[d] \in Nat
        BY DEF TypeOK
    <2>2. r \in Row
        BY <2>1 DEF Row
    <2>3. s \in Seq(Row)
        BY <1>0
    <2> QED BY <2>2, <2>3
<1>2. rows' = [rows EXCEPT ![d] = Append(s, r)]
    BY DEF LogAttempt
<1> HIDE DEF r
<1>3. rows' \in [Deliveries -> Seq(Row)] /\ rows'[d] = Append(s, r)
    <2>1. Append(s, r) \in Seq(Row)
        BY <1>1
    <2> QED BY <1>0, <1>2, <2>1
<1> HIDE DEF s
<1>4. /\ Len(rows'[d]) = Len(s) + 1
      /\ \A i \in DOMAIN s : i \in DOMAIN rows'[d] /\ rows'[d][i] = s[i]
      /\ DOMAIN rows'[d] = DOMAIN s \cup {Len(s) + 1}
      /\ rows'[d][Len(s) + 1] = r
      /\ Len(s) + 1 \notin DOMAIN s
    <2>1. DOMAIN s = 1..Len(s) /\ DOMAIN Append(s, r) = 1..(Len(s) + 1)
        BY <1>1
    <2>2. Len(Append(s, r)) = Len(s) + 1 /\ Append(s, r)[Len(s) + 1] = r
        BY <1>1
    <2>3. \A i \in 1..Len(s) : Append(s, r)[i] = s[i]
        BY <1>1
    <2> QED BY <1>1, <1>3, <2>1, <2>2, <2>3
<1>5. IsFiniteSet(S) /\ Cardinality(S) \in Nat
    <2>1. S \subseteq 1..Len(s)
        BY <1>1
    <2>2. IsFiniteSet(1..Len(s))
        BY <1>1, FS_Interval
    <2> QED BY <2>1, <2>2, FS_Subset, FS_CardinalityType
<1>6. {i \in DOMAIN rows'[d] : rows'[d][i].verdict \in Answers}
        = IF verdict[d] \in Answers THEN S \cup {Len(s) + 1} ELSE S
    BY <1>4 DEF r
<1>7. Cardinality(S \cup {Len(s) + 1}) = Cardinality(S) + 1
    BY <1>4, <1>5, FS_AddElement
<1> QED BY <1>3, <1>4, <1>5, <1>6, <1>7 DEF Logged, r, s

LEMMA TypeStep ==
    ASSUME DInv, NEW d \in Deliveries, Step(d)
    PROVE  TypeOK'
<1> USE DEF TypeOK, route, Goto, At
<1>1. CASE CheckCircuit(d) \/ CheckRouteLimit(d) \/ CheckDestinationLimit(d)
    <2>1. UNCHANGED <<maxRetries, routeLimited, attempt, waits, requests, rows, deadLetter>>
        BY <1>1 DEF CheckCircuit, CheckRouteLimit, CheckDestinationLimit
    <2>2. PICK where \in {"store", "routeLimit", "destLimit", "send", "pause"} :
                pc' = [pc EXCEPT ![d] = where]
        BY <1>1 DEF CheckCircuit, CheckRouteLimit, CheckDestinationLimit, Refuse
    <2>3. verdict' = verdict \/ \E why \in Refusals : verdict' = [verdict EXCEPT ![d] = why]
        BY <1>1 DEF CheckCircuit, CheckRouteLimit, CheckDestinationLimit, Refuse, Refusals
    <2>4. verdict' \in [Deliveries -> {"none"} \cup Refusals \cup Answers]
        BY <2>3 DEF DInv
    <2>5. pc' \in [Deliveries -> {"circuit", "routeLimit", "destLimit", "send", "store",
                              "report", "pause", "sleep", "deadLetter",
                              "done", "swallowed", "raised"}]
        BY <2>2 DEF DInv
    <2> QED BY <2>1, <2>4, <2>5 DEF DInv
<1>2. CASE Pause(d)
    <2>1. waits[d] + 1 \in 0..MAX_RATE_LIMIT_WAITS
        BY <1>2, WaitsAssumption DEF DInv, Pause, AttemptAllowed
    <2>2. waits' \in [Deliveries -> 0..MAX_RATE_LIMIT_WAITS]
        BY <1>2, <2>1 DEF DInv, Pause
    <2> QED BY <1>2, <2>2 DEF DInv, Pause
<1>3. CASE Send(d)
    <2>1. verdict' \in [Deliveries -> {"none"} \cup Refusals \cup Answers]
        BY <1>3 DEF DInv, Send
    <2>2. requests' \in [Deliveries -> Nat]
        BY <1>3 DEF DInv, Send
    <2> QED BY <1>3, <2>1, <2>2 DEF DInv, Send
<1>7. CASE Sleep(d)
    <2>1. attempt' \in [Deliveries -> Nat]
        BY <1>7 DEF DInv, Sleep
    <2>2. waits' \in [Deliveries -> 0..MAX_RATE_LIMIT_WAITS]
        BY <1>7, WaitsAssumption DEF DInv, Sleep
    <2> QED BY <1>7, <2>1, <2>2 DEF DInv, Sleep
<1>4. CASE Store(d)
    <2>1. rows' \in [Deliveries -> Seq(Row)]
        BY <1>4, LogGrows DEF DInv, Store, VerdictsTimely
    <2> QED BY <1>4, <2>1 DEF DInv, Store, Row
<1>5. CASE Report(d) \/ DeadLetter(d) \/ SwallowDeadLetter(d) \/ Raise(d)
    BY <1>5 DEF DInv, Report, DeadLetter, SwallowDeadLetter, Raise
<1>6. CASE RaiseAfterEffect(d)
    <2>1. CASE At(d, "store") /\ LogAttempt(d) /\ UNCHANGED deadLetter
        <3>1. rows' \in [Deliveries -> Seq(Row)]
            BY <2>1, LogGrows DEF DInv, VerdictsTimely
        <3> QED BY <1>6, <2>1, <3>1 DEF DInv, RaiseAfterEffect, Row
    <2>2. CASE UNCHANGED rows /\ deadLetter' = deadLetter \cup {d}
        BY <1>6, <2>2 DEF DInv, RaiseAfterEffect
    <2> QED BY <1>6, <2>1, <2>2 DEF RaiseAfterEffect
<1> QED BY <1>1, <1>2, <1>3, <1>4, <1>5, <1>6, <1>7 DEF Step

DeliveryOK(d) ==
    AttemptAllowed(d) /\ RequestsCounted(d) /\ RowsNumbered(d) /\ VerdictsTimely(d)

LEMMA OthersOK ==
    ASSUME DInv, NEW d \in Deliveries, Step(d), NEW e \in Deliveries \ {d}
    PROVE  DeliveryOK(e)'
<1>1. DeliveryOK(e)
    BY DEF DInv, DeliveryOK
<1>2. /\ maxRetries'[e] = maxRetries[e] /\ pc'[e] = pc[e] /\ attempt'[e] = attempt[e]
      /\ waits'[e] = waits[e] /\ verdict'[e] = verdict[e]
      /\ requests'[e] = requests[e] /\ rows'[e] = rows[e]
      /\ e \in deadLetter' <=> e \in deadLetter
    BY OthersUntouched DEF DInv
<1> QED BY <1>1, <1>2
    DEF DeliveryOK, AttemptAllowed, RequestsCounted, RowsNumbered, VerdictsTimely, Logged, At,
        Ended, HasNext

(* The steps that leave the log alone. *)
LEMMA UnloggedOK ==
    ASSUME DInv, NEW d \in Deliveries, Step(d), rows' = rows
    PROVE  DeliveryOK(d)'
<1> USE DEF Goto, At
<1>1. /\ DeliveryOK(d) /\ Logged(d)' = Logged(d)
      /\ attempt[d] \in Nat /\ requests[d] \in Nat /\ maxRetries[d] \in Int
      /\ waits[d] \in Nat /\ Len(rows[d]) \in Nat
      /\ pc \in [Deliveries -> {"circuit", "routeLimit", "destLimit", "send", "store",
                                "report", "pause", "sleep", "deadLetter",
                              "done", "swallowed", "raised"}]
      /\ verdict \in [Deliveries -> {"none"} \cup Refusals \cup Answers]
    <2>1. Len(rows[d]) \in Nat
        BY DEF DInv, TypeOK
    <2>2. DeliveryOK(d) /\ Logged(d)' = Logged(d)
        BY DEF DInv, DeliveryOK, Logged
    <2>3. /\ attempt[d] \in Nat /\ requests[d] \in Nat
          /\ pc \in [Deliveries -> {"circuit", "routeLimit", "destLimit", "send", "store",
                                "report", "pause", "sleep", "deadLetter",
                              "done", "swallowed", "raised"}]
          /\ verdict \in [Deliveries -> {"none"} \cup Refusals \cup Answers]
        BY DEF DInv, TypeOK
    <2>4. maxRetries[d] \in Int
        BY RetriesAssumption DEF DInv, TypeOK
    <2>5. waits[d] \in Nat
        BY WaitsAssumption DEF DInv, TypeOK
    <2> QED BY <2>1, <2>2, <2>3, <2>4, <2>5
<1>2. CASE CheckCircuit(d) \/ CheckRouteLimit(d) \/ CheckDestinationLimit(d)
    <2>1. UNCHANGED <<maxRetries, attempt, waits, requests, rows, deadLetter>>
        BY <1>2 DEF CheckCircuit, CheckRouteLimit, CheckDestinationLimit, route
    <2>2. pc[d] \in Trying
        BY <1>2 DEF CheckCircuit, CheckRouteLimit, CheckDestinationLimit, Trying
    <2>3. \/ pc'[d] \in Trying /\ (pc'[d] = "pause" => waits[d] < MAX_RATE_LIMIT_WAITS)
          \/ pc'[d] = "store" /\ verdict'[d] \in Refusals
        BY <1>1, <1>2, WaitsAssumption
        DEF CheckCircuit, CheckRouteLimit, CheckDestinationLimit, Refuse, Trying, Refusals
    <2> QED BY <1>1, <2>1, <2>2, <2>3
        DEF DeliveryOK, AttemptAllowed, RequestsCounted, RowsNumbered, VerdictsTimely,
            Trying, Recorded, Ended, Refusals, Answers, HasNext
<1>3. CASE Pause(d)
    <2>1. /\ UNCHANGED <<maxRetries, attempt, verdict, requests, rows, deadLetter>>
          /\ pc[d] = "pause" /\ pc'[d] = "circuit"
        BY <1>1, <1>3 DEF Pause, route
    <2> QED BY <1>1, <2>1
        DEF DeliveryOK, AttemptAllowed, RequestsCounted, RowsNumbered, VerdictsTimely,
            Trying, Recorded, Ended, HasNext
<1>4. CASE Send(d)
    <2>1. /\ UNCHANGED <<maxRetries, attempt, waits, rows, deadLetter>>
          /\ pc[d] = "send" /\ pc'[d] = "store"
          /\ verdict'[d] \in Answers
        BY <1>1, <1>4 DEF Send, route
    <2>2. requests'[d] = requests[d] + 1
        BY <1>4 DEF Send, DInv, TypeOK
    <2> QED BY <1>1, <2>1, <2>2
        DEF DeliveryOK, AttemptAllowed, RequestsCounted, RowsNumbered, VerdictsTimely,
            Trying, Recorded, Ended, HasNext
<1>5. CASE Report(d)
    <2>1. /\ UNCHANGED <<maxRetries, attempt, waits, verdict, requests, rows, deadLetter>>
          /\ pc[d] = "report"
        BY <1>5 DEF Report, route
    <2>2. \/ pc'[d] = "done" /\ verdict[d] \notin Failing
          \/ pc'[d] = "sleep" /\ HasNext(d)
          \/ pc'[d] = "deadLetter" /\ verdict[d] \in Failing /\ ~HasNext(d)
        BY <1>1, <1>5 DEF Report
    <2> QED BY <1>1, <2>1, <2>2
        DEF DeliveryOK, AttemptAllowed, RequestsCounted, RowsNumbered, VerdictsTimely,
            Trying, Recorded, Ended, HasNext
<1>6. CASE Sleep(d)
    <2>1. /\ UNCHANGED <<maxRetries, verdict, requests, rows, deadLetter>>
          /\ pc[d] = "sleep" /\ pc'[d] = "circuit"
        BY <1>1, <1>6 DEF Sleep, route
    <2>2. attempt'[d] = attempt[d] + 1
        BY <1>6 DEF Sleep, DInv, TypeOK
    <2> QED BY <1>1, <2>1, <2>2
        DEF DeliveryOK, AttemptAllowed, RequestsCounted, RowsNumbered, VerdictsTimely,
            Trying, Recorded, Ended, HasNext
<1>7. CASE At(d, "deadLetter") /\ (DeadLetter(d) \/ RaiseAfterEffect(d))
    <2>1. /\ UNCHANGED <<maxRetries, attempt, waits, verdict, requests, rows>>
          /\ pc[d] = "deadLetter" /\ pc'[d] \in {"done", "raised"}
          /\ d \in deadLetter' <=> HasProducer
        <3>1. d \notin deadLetter
            BY <1>1, <1>7 DEF DeliveryOK, VerdictsTimely, Ended
        <3> QED BY <1>1, <1>7, <3>1 DEF DeadLetter, RaiseAfterEffect, route
    <2> QED BY <1>1, <2>1
        DEF DeliveryOK, AttemptAllowed, RequestsCounted, RowsNumbered, VerdictsTimely,
            Trying, Recorded, Ended, HasNext
<1>10. CASE SwallowDeadLetter(d)
    <2>1. /\ UNCHANGED <<maxRetries, attempt, waits, verdict, requests, rows>>
          /\ pc[d] = "deadLetter" /\ pc'[d] = "swallowed"
        BY <1>1, <1>10 DEF SwallowDeadLetter, route
    <2> QED BY <1>1, <2>1
        DEF DeliveryOK, AttemptAllowed, RequestsCounted, RowsNumbered, VerdictsTimely,
            Trying, Recorded, Ended, HasNext
<1>8. CASE Raise(d)
    <2>1. /\ UNCHANGED <<maxRetries, attempt, waits, verdict, requests, rows, deadLetter>>
          /\ pc'[d] = "raised" /\ ~Ended(d)
        BY <1>1, <1>8 DEF Raise, Ended, route
    <2> QED BY <1>1, <2>1
        DEF DeliveryOK, AttemptAllowed, RequestsCounted, RowsNumbered, VerdictsTimely,
            Trying, Recorded, Ended, HasNext
<1>9. ~LogAttempt(d)
    <2>1. SUFFICES ASSUME LogAttempt(d) PROVE FALSE
        OBVIOUS
    <2>2. rows'[d] = Append(rows[d], [number |-> attempt[d], verdict |-> verdict[d]])
        BY <2>1 DEF LogAttempt, DInv, TypeOK
    <2>3. PICK x : x = [number |-> attempt[d], verdict |-> verdict[d]]
        OBVIOUS
    <2>4. PICK s : s = rows[d]
        OBVIOUS
    <2>5. Len(Append(s, x)) = Len(s) + 1 /\ Len(s) \in Nat
        BY <2>4 DEF DInv, TypeOK
    <2> QED BY <2>2, <2>3, <2>4, <2>5
<1> QED BY <1>2, <1>3, <1>4, <1>5, <1>6, <1>7, <1>8, <1>9, <1>10
    DEF Step, Store, RaiseAfterEffect, DeadLetter

(* The steps that write the attempt's row. *)
LEMMA LoggedOK ==
    ASSUME DInv, NEW d \in Deliveries, Step(d), LogAttempt(d)
    PROVE  DeliveryOK(d)'
<1> USE DEF Goto, At
<1>1. /\ DeliveryOK(d)
      /\ attempt[d] \in Nat /\ requests[d] \in Nat
      /\ pc \in [Deliveries -> {"circuit", "routeLimit", "destLimit", "send", "store",
                                "report", "pause", "sleep", "deadLetter",
                              "done", "swallowed", "raised"}]
    BY DEF DInv, DeliveryOK, TypeOK
<1>2. maxRetries[d] \in Int /\ rows[d] \in Seq(Row) /\ Len(rows[d]) \in Nat
    <2>1. rows \in [Deliveries -> Seq(Row)]
        BY DEF DInv, TypeOK, Row
    <2>2. rows[d] \in Seq(Row)
        BY <2>1
    <2>3. Len(rows[d]) \in Nat
        BY <2>2
    <2>4. maxRetries[d] \in Int
        BY RetriesAssumption DEF DInv, TypeOK
    <2> QED BY <2>2, <2>3, <2>4
<1>3. rows' # rows
    <2>1. PICK x : x = [number |-> attempt[d], verdict |-> verdict[d]]
        OBVIOUS
    <2>2. PICK s : s = rows[d]
        OBVIOUS
    <2>3. rows'[d] = Append(s, x)
        BY <2>1, <2>2 DEF LogAttempt, DInv, TypeOK
    <2>4. Len(Append(s, x)) = Len(s) + 1 /\ Len(s) \in Nat
        BY <2>2, <1>2
    <2> QED BY <2>2, <2>3, <2>4
<1>4. /\ pc[d] = "store"
      /\ UNCHANGED <<maxRetries, attempt, waits, verdict, requests, deadLetter>>
      /\ Store(d) \/ RaiseAfterEffect(d)
    BY <1>3
    DEF Step, CheckCircuit, CheckRouteLimit, CheckDestinationLimit, Pause, Send, Store, Report,
        Sleep, DeadLetter, SwallowDeadLetter, Raise, RaiseAfterEffect, route
<1>5. verdict[d] \in Refusals \cup Answers /\ d \notin deadLetter
    BY <1>1, <1>4 DEF DeliveryOK, VerdictsTimely, Ended
<1>6. /\ Len(rows'[d]) = Len(rows[d]) + 1
      /\ \A i \in DOMAIN rows[d] : i \in DOMAIN rows'[d] /\ rows'[d][i] = rows[d][i]
      /\ DOMAIN rows'[d] = DOMAIN rows[d] \cup {Len(rows[d]) + 1}
      /\ rows'[d][Len(rows[d]) + 1] = [number |-> attempt[d], verdict |-> verdict[d]]
      /\ Logged(d) \in Nat
      /\ Logged(d)' = IF verdict[d] \in Answers THEN Logged(d) + 1 ELSE Logged(d)
    BY <1>5, LogGrows DEF DInv
<1>7. Len(rows[d]) = attempt[d]
    BY <1>1, <1>4 DEF DeliveryOK, RowsNumbered
<1>8. \A i \in DOMAIN rows'[d] : rows'[d][i].number = i - 1
    <2>1. \A i \in DOMAIN rows[d] : rows'[d][i].number = i - 1
        BY <1>1, <1>6 DEF DeliveryOK, RowsNumbered
    <2>2. rows'[d][Len(rows[d]) + 1].number = attempt[d]
        BY <1>6
    <2>3. \A i \in DOMAIN rows'[d] : i \in DOMAIN rows[d] \/ i = Len(rows[d]) + 1
        BY <1>6
    <2>4. Len(rows[d]) + 1 - 1 = attempt[d]
        BY <1>1, <1>7
    <2> QED BY <2>1, <2>2, <2>3, <2>4
<1>9. requests[d] = Logged(d)'
    BY <1>1, <1>4, <1>6 DEF DeliveryOK, RequestsCounted
<1>10. \/ pc'[d] = "report" /\ verdict[d] \in Answers
       \/ pc'[d] = "sleep" /\ HasNext(d)
       \/ pc'[d] = "done" /\ verdict[d] \notin Answers
       \/ pc'[d] = "raised"
    BY <1>1, <1>4 DEF Store, RaiseAfterEffect
<1>11. AttemptAllowed(d)'
    BY <1>1, <1>4, <1>10 DEF DeliveryOK, AttemptAllowed, HasNext
<1>12. RequestsCounted(d)'
    BY <1>1, <1>4, <1>9, <1>10 DEF DeliveryOK, RequestsCounted, Trying, Recorded
<1>13. RowsNumbered(d)'
    BY <1>4, <1>6, <1>7, <1>8, <1>10 DEF RowsNumbered, Trying, Recorded
<1>14. VerdictsTimely(d)'
    BY <1>4, <1>5, <1>10 DEF VerdictsTimely, Failing, Answers, Ended, HasNext
<1> QED BY <1>11, <1>12, <1>13, <1>14 DEF DeliveryOK

-----------------------------------------------------------------------------
(* DInv holds of every reachable state. *)
THEOREM DeliveryInvariance == Spec => []DInv
<1>1. Init => DInv
    <2> SUFFICES ASSUME Init PROVE DInv
        OBVIOUS
    <2>1. rows \in [Deliveries -> Seq(Row)]
        BY DEF Init
    <2>2. TypeOK
        BY <2>1, WaitsAssumption DEF Init, TypeOK, Row
    <2>3. ASSUME NEW d \in Deliveries PROVE DeliveryOK(d)
        <3>1. /\ pc[d] = "circuit" /\ attempt[d] = 0 /\ requests[d] = 0
              /\ rows[d] = <<>> /\ deadLetter = {}
            BY DEF Init
        <3>2. DOMAIN rows[d] = {} /\ Len(rows[d]) = 0
            BY <3>1
        <3>3. {i \in DOMAIN rows[d] : rows[d][i].verdict \in Answers} = {}
            BY <3>2
        <3>4. Logged(d) = 0
            BY <3>3, FS_EmptySet DEF Logged
        <3> QED BY <3>1, <3>2, <3>4
            DEF DeliveryOK, AttemptAllowed, RequestsCounted, RowsNumbered, VerdictsTimely, At,
                Ended, Recorded
    <2> QED BY <2>2, <2>3 DEF DInv, DeliveryOK
<1>2. DInv /\ [Next]_vars => DInv'
    <2> SUFFICES ASSUME DInv, [Next]_vars PROVE DInv'
        OBVIOUS
    <2>1. CASE Next
        <3>1. PICK d \in Deliveries : Step(d)
            BY <2>1 DEF Next
        <3>2. rows' = rows \/ LogAttempt(d)
            BY <3>1
            DEF Step, CheckCircuit, CheckRouteLimit, CheckDestinationLimit, Pause, Send, Store,
                Report, Sleep, DeadLetter, SwallowDeadLetter, Raise, RaiseAfterEffect
        <3>3. DeliveryOK(d)'
            BY <3>1, <3>2, UnloggedOK, LoggedOK
        <3>4. \A e \in Deliveries \ {d} : DeliveryOK(e)'
            BY <3>1, OthersOK
        <3>5. TypeOK'
            BY <3>1, TypeStep
        <3> QED BY <3>3, <3>4, <3>5 DEF DInv, DeliveryOK
    <2>2. CASE UNCHANGED vars
        BY <2>2
        DEF vars, route, DInv, TypeOK, AttemptAllowed, RequestsCounted, RowsNumbered,
            VerdictsTimely, Logged, At, Ended, HasNext
    <2> QED BY <2>1, <2>2
<1> QED BY <1>1, <1>2, PTL DEF Spec

(* Every variable of _deliver_with_retry is well typed. *)
THEOREM TypeCorrect == Spec => []TypeOK
<1>1. DInv => TypeOK
    BY DEF DInv
<1> QED BY <1>1, DeliveryInvariance, PTL

(* attempt + 1 < max_retries: no destination gets more requests than the     *)
(* route allows, whatever circuit, limiters and exceptions do in between.    *)
THEOREM RetriesRespected == Spec => []RequestsWithinRetries
<1>1. DInv => RequestsWithinRetries
    <2> SUFFICES ASSUME DInv, NEW d \in Deliveries
                 PROVE  requests[d] <= IF maxRetries[d] > 0 THEN maxRetries[d] ELSE 1
        BY DEF RequestsWithinRetries
    <2>1. attempt[d] \in Nat /\ requests[d] \in Nat /\ maxRetries[d] \in Int
        BY RetriesAssumption DEF DInv, TypeOK
    <2>2. requests[d] <= attempt[d] + 1 /\ (attempt[d] = 0 \/ attempt[d] < maxRetries[d])
        BY DEF DInv, RequestsCounted, AttemptAllowed
    <2> QED BY <2>1, <2>2
<1> QED BY <1>1, DeliveryInvariance, PTL

(* _store_attempt comes before the decision to go on: rows are numbered in   *)
(* order and no request that was answered lacks its row.                     *)
THEOREM AttemptsAreLogged == Spec => []AttemptLogComplete
<1>1. DInv => AttemptLogComplete
    <2> SUFFICES ASSUME DInv, NEW d \in Deliveries
                 PROVE  /\ \A i \in DOMAIN rows[d] : rows[d][i].number = i - 1
                        /\ pc[d] \notin {"store", "raised"} => requests[d] = Logged(d)
        BY DEF AttemptLogComplete
    <2>1. pc[d] \notin {"store", "raised"} => pc[d] \in Trying \cup Recorded
        BY DEF DInv, TypeOK, Trying, Recorded
    <2> QED BY <2>1 DEF DInv, RowsNumbered, RequestsCounted
<1> QED BY <1>1, DeliveryInvariance, PTL

(* Dead letters are for the deliveries whose last attempt failed, and each   *)
(* of those sends one; only a send that fails may leave the topic without.   *)
THEOREM ExhaustedAreDeadLetters == Spec => []DeadLettersAreExhausted
<1>1. DInv => DeadLettersAreExhausted
    <2> SUFFICES ASSUME DInv, NEW d \in Deliveries
                 PROVE  /\ d \in deadLetter \/ At(d, "swallowed") =>
                              verdict[d] \in Failing /\ attempt[d] + 1 >= maxRetries[d]
                        /\ HasProducer /\ At(d, "done") /\ verdict[d] \in Failing =>
                              d \in deadLetter
        BY DEF DeadLettersAreExhausted
    <2>1. attempt[d] \in Nat /\ maxRetries[d] \in Int
        BY RetriesAssumption DEF DInv, TypeOK
    <2> QED BY <2>1 DEF DInv, VerdictsTimely, HasNext
<1> QED BY <1>1, DeliveryInvariance, PTL

=============================================================================
