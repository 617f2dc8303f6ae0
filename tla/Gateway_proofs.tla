--------------------------- MODULE Gateway_proofs ---------------------------
(***************************************************************************)
(* Proofs about Gateway for any number of concurrent requests, any keys    *)
(* and any number of crashes and expiries.                                 *)
(***************************************************************************)
EXTENDS Gateway, TLAPS

(* A request that took its key did so in a period that has begun; in the    *)
(* current period the key is still in Redis.                                *)
ClaimsInPeriod ==
    \A q \in Requests : claim[q] # Unclaimed =>
        /\ key[q] \in Keys
        /\ claim[q] <= period[key[q]]
        /\ claim[q] = period[key[q]] => key[q] \in idem

(* Two requests never take the same key in the same period. *)
ClaimsApart ==
    \A p, q \in Requests :
        p # q /\ key[p] = key[q] /\ claim[p] # Unclaimed => claim[p] # claim[q]

(* How far a request has come, against what it has done so far. *)
Progress ==
    \A q \in Requests :
        /\ pc[q] \in {"idle", "checking", "deduping"} =>
                claim[q] = Unclaimed /\ q \notin events
        /\ pc[q] \in {"storing", "committed"} \/ q \in events =>
                key[q] = NoKey \/ claim[q] # Unclaimed
        /\ pc[q] = "committed" => q \in events
        /\ pc[q] # "answered" => response[q] = "none"
        /\ claim[q] # Unclaimed => response[q] \notin {"rejected", "duplicate"}

(* Only a request with a key is looked up in Redis. *)
DedupHasKey == \A q \in Requests : pc[q] = "deduping" => key[q] # NoKey

(* The inductive invariant behind the safety theorems. *)
IInv ==
    /\ TypeOK
    /\ ClaimsInPeriod
    /\ ClaimsApart
    /\ Progress
    /\ DedupHasKey
    /\ AcceptedIsDurable
    /\ RejectionKeepsKeyFree

-----------------------------------------------------------------------------
(* The steps that touch neither the keys nor what is stored: a request moves *)
(* on, or is answered.                                                       *)
Moves(q) ==
    \/ Reject(q)
    \/ Pass(q)
    \/ Duplicate(q)
    \/ LookupFails(q) /\ UNCHANGED <<idem, claim>>
    \/ CommitFails(q)
    \/ Respond(q)
    \/ RefreshFails(q)

(* The steps in which a request takes its key. *)
Takes(q) ==
    \/ Claim(q)
    \/ LookupFails(q) /\ pc[q] = "deduping" /\ TakesKey(q)

(* Every step of the gateway is one of these. *)
LEMMA StepCases ==
    ASSUME Next
    PROVE \/ \E q \in Requests : \/ \E k \in Keys \cup {NoKey} : Receive(q, k)
                                 \/ Moves(q) \/ Takes(q) \/ Commit(q)
          \/ Crash
          \/ \E k \in Keys : Expire(k)
          \/ ToggleEndpoint
          \/ DeleteEndpoint
<1>1. ASSUME NEW q \in Requests, LookupFails(q) PROVE Moves(q) \/ Takes(q)
    BY <1>1 DEF LookupFails, Moves, Takes
<1> QED BY <1>1 DEF Next, Handler, Environment, Moves, Takes

(* Every value stays in its type. *)
LEMMA TypeStep == IInv /\ [Next]_vars => TypeOK'
<1> SUFFICES ASSUME IInv, [Next]_vars PROVE TypeOK'
    OBVIOUS
<1> USE BoundsAssumption DEF IInv
<1>1. ASSUME NEW q \in Requests, NEW k \in Keys \cup {NoKey}, Receive(q, k) PROVE TypeOK'
    BY <1>1 DEF TypeOK, Receive, Goto, Answer, InFlight
<1>2. ASSUME NEW q \in Requests, Moves(q) PROVE TypeOK'
    <2>1. UNCHANGED <<endpoint, key, idem, period, claim, events, outbox, crashes>>
        BY <1>2 DEF Moves, Reject, Pass, Duplicate, LookupFails, CommitFails, Respond, RefreshFails
    <2>2. /\ pc' \in [Requests -> {"idle", "answered"} \cup InFlight]
          /\ response' \in [Requests ->
                {"none", "accepted", "duplicate", "rejected", "error", "lost"}]
        BY <1>2 DEF TypeOK, Moves, Reject, Pass, Duplicate, LookupFails, CommitFails,
                    Respond, RefreshFails, Goto, Answer, InFlight
    <2> QED BY <2>1, <2>2 DEF TypeOK
<1>3. ASSUME NEW q \in Requests, Takes(q) PROVE TypeOK'
    <2>1. key[q] \in Keys
        BY <1>3 DEF Takes, Claim, TypeOK, DedupHasKey
    <2> QED BY <1>3, <2>1 DEF TypeOK, Takes, Claim, LookupFails, TakesKey, Goto, Answer, InFlight
<1>4. ASSUME NEW q \in Requests, Commit(q) PROVE TypeOK'
    BY <1>4 DEF TypeOK, Commit, Goto, InFlight
<1>5. CASE Crash
    BY <1>5 DEF TypeOK, Crash, InFlight
<1>6. ASSUME NEW k \in Keys, Expire(k) PROVE TypeOK'
    BY <1>6 DEF TypeOK, Expire
<1>7. CASE ToggleEndpoint
    BY <1>7 DEF TypeOK, ToggleEndpoint
<1>8. CASE DeleteEndpoint
    BY <1>8 DEF TypeOK, DeleteEndpoint
<1>9. CASE UNCHANGED vars
    BY <1>9 DEF TypeOK, vars
<1> QED BY <1>1, <1>2, <1>3, <1>4, <1>5, <1>6, <1>7, <1>8, <1>9, StepCases

(* Only a request with a key reaches SET NX. *)
LEMMA DedupStep == IInv /\ [Next]_vars => DedupHasKey'
<1> SUFFICES ASSUME IInv, [Next]_vars PROVE DedupHasKey'
    OBVIOUS
<1> USE DEF IInv
<1>1. ASSUME NEW q \in Requests, NEW k \in Keys \cup {NoKey}, Receive(q, k) PROVE DedupHasKey'
    BY <1>1 DEF TypeOK, DedupHasKey, Receive, Goto, Answer
<1>2. ASSUME NEW q \in Requests, Moves(q) PROVE DedupHasKey'
    BY <1>2 DEF TypeOK, DedupHasKey, Moves, Reject, Pass, Duplicate, LookupFails,
                CommitFails, Respond, RefreshFails, Goto, Answer
<1>3. ASSUME NEW q \in Requests, Takes(q) \/ Commit(q) PROVE DedupHasKey'
    BY <1>3 DEF TypeOK, DedupHasKey, Takes, Claim, LookupFails, Commit, Goto, Answer
<1>4. CASE Crash
    BY <1>4 DEF TypeOK, DedupHasKey, Crash
<1>5. ASSUME UNCHANGED <<pc, key>> PROVE DedupHasKey'
    BY <1>5 DEF DedupHasKey
<1> QED
    BY <1>1, <1>2, <1>3, <1>4, <1>5, StepCases
    DEF Expire, ToggleEndpoint, DeleteEndpoint, vars

-----------------------------------------------------------------------------
(* SET NX gives a key to one request per period: the taker finds the key    *)
(* absent, so every earlier taker belongs to an earlier period.             *)
LEMMA ClaimsStep ==
    IInv /\ [Next]_vars => ClaimsInPeriod' /\ ClaimsApart' /\ RejectionKeepsKeyFree'
<1> DEFINE Goal == ClaimsInPeriod' /\ ClaimsApart' /\ RejectionKeepsKeyFree'
<1> SUFFICES ASSUME IInv, [Next]_vars PROVE Goal
    OBVIOUS
<1> USE BoundsAssumption DEF IInv
<1>1. ASSUME NEW q \in Requests, NEW k \in Keys \cup {NoKey}, Receive(q, k) PROVE Goal
    <2>1. claim[q] = Unclaimed
        BY <1>1 DEF Receive, Progress
    <2>2. \A p \in Requests : claim[p] # Unclaimed =>
                key'[p] = key[p] /\ response'[p] = response[p]
        BY <1>1, <2>1 DEF Receive, Goto, Answer, TypeOK
    <2>3. UNCHANGED <<idem, period, claim>>
        BY <1>1 DEF Receive
    <2>4. \A j \in idem : period[j] # Unclaimed
        BY DEF TypeOK, Unclaimed
    <2>5. ClaimsInPeriod'
        BY <2>2, <2>3 DEF ClaimsInPeriod
    <2>6. ClaimsApart'
        BY <2>2, <2>3 DEF ClaimsApart
    <2>7. RejectionKeepsKeyFree'
        BY <2>2, <2>3, <2>4 DEF RejectionKeepsKeyFree
    <2> QED BY <2>5, <2>6, <2>7
<1>2. ASSUME NEW q \in Requests, Moves(q) \/ Commit(q) PROVE Goal
    <2>1. UNCHANGED <<key, idem, period, claim>>
        BY <1>2 DEF Moves, Reject, Pass, Duplicate, LookupFails, CommitFails, Respond,
                    RefreshFails, Commit
    <2>2. \A p \in Requests : claim[p] # Unclaimed =>
                response'[p] = response[p] \/ response'[p] \in {"error", "accepted"}
        BY <1>2 DEF Moves, Reject, Pass, Duplicate, LookupFails, CommitFails, Respond,
                    RefreshFails, Commit, Goto, Answer, TypeOK, Progress
    <2>3. \A j \in idem : period[j] # Unclaimed
        BY DEF TypeOK, Unclaimed
    <2>4. ClaimsInPeriod' /\ ClaimsApart'
        BY <2>1 DEF ClaimsInPeriod, ClaimsApart
    <2>5. RejectionKeepsKeyFree'
        BY <2>1, <2>2, <2>3 DEF RejectionKeepsKeyFree
    <2> QED BY <2>4, <2>5
<1>3. ASSUME NEW q \in Requests, Takes(q) PROVE Goal
    <2>1. /\ key[q] \in Keys /\ key[q] \notin idem
          /\ idem' = idem \cup {key[q]}
          /\ claim' = [claim EXCEPT ![q] = period[key[q]]]
          /\ UNCHANGED <<key, period>>
        BY <1>3 DEF Takes, Claim, LookupFails, TakesKey, TypeOK, DedupHasKey
    <2>2. \A p \in Requests : p # q /\ key[p] = key[q] /\ claim[p] # Unclaimed =>
                claim[p] # period[key[q]]
        BY <2>1 DEF ClaimsInPeriod
    <2>3. claim'[q] = period[key[q]] /\ \A p \in Requests \ {q} : claim'[p] = claim[p]
        BY <2>1 DEF TypeOK
    <2>4. period[key[q]] # Unclaimed /\ period[key[q]] <= period[key[q]]
        BY <2>1 DEF TypeOK, Unclaimed
    <2>5. ClaimsInPeriod'
        BY <2>1, <2>3, <2>4 DEF ClaimsInPeriod
    <2>6. ClaimsApart'
        BY <2>1, <2>2, <2>3, <2>4 DEF ClaimsApart
    <2>7. response'[q] \notin {"rejected", "duplicate"}
        BY <1>3 DEF Takes, Claim, LookupFails, Goto, Answer, Progress, TypeOK
    <2>8. \A p \in Requests \ {q} : response'[p] = response[p]
        BY <1>3 DEF Takes, Claim, LookupFails, Goto, Answer, TypeOK
    <2>9. claim[q] = Unclaimed
        BY <1>3 DEF Takes, Claim, Progress
    <2>10. \A j \in idem : period[j] # Unclaimed
        BY DEF TypeOK, Unclaimed
    <2>11. RejectionKeepsKeyFree'
        BY <2>1, <2>3, <2>7, <2>8, <2>9, <2>10 DEF RejectionKeepsKeyFree
    <2> QED BY <2>5, <2>6, <2>11
<1>4. CASE Crash
    <2>1. UNCHANGED <<key, idem, period, claim>>
        BY <1>4 DEF Crash
    <2>2. \A p \in Requests : response'[p] = response[p] \/ response'[p] = "lost"
        BY <1>4 DEF Crash
    <2> QED BY <2>1, <2>2 DEF ClaimsInPeriod, ClaimsApart, RejectionKeepsKeyFree
<1>5. ASSUME NEW k \in Keys, Expire(k) PROVE Goal
    <2>1. /\ idem' = idem \ {k}
          /\ period' = [period EXCEPT ![k] = @ + 1]
          /\ UNCHANGED <<key, response, claim>>
        BY <1>5 DEF Expire
    <2>2. ClaimsInPeriod'
        BY <2>1 DEF ClaimsInPeriod, TypeOK, Unclaimed
    <2>3. ClaimsApart'
        BY <2>1 DEF ClaimsApart
    <2>4. RejectionKeepsKeyFree'
        BY <2>1 DEF RejectionKeepsKeyFree, TypeOK
    <2> QED BY <2>2, <2>3, <2>4
<1>6. ASSUME UNCHANGED <<key, response, idem, period, claim>> PROVE Goal
    BY <1>6 DEF ClaimsInPeriod, ClaimsApart, RejectionKeepsKeyFree
<1> QED
    BY <1>1, <1>2, <1>3, <1>4, <1>5, <1>6, StepCases
    DEF ToggleEndpoint, DeleteEndpoint, vars

(* A request claims, stores and answers in this order. *)
LEMMA ProgressStep == IInv /\ [Next]_vars => Progress' /\ AcceptedIsDurable'
<1> DEFINE Goal == Progress' /\ AcceptedIsDurable'
<1> SUFFICES ASSUME IInv, [Next]_vars PROVE Goal
    OBVIOUS
<1> USE DEF IInv
<1>1. ASSUME NEW q \in Requests, NEW k \in Keys \cup {NoKey}, Receive(q, k) PROVE Goal
    BY <1>1 DEF TypeOK, Progress, AcceptedIsDurable, Receive, Goto, Answer
<1>2. ASSUME NEW q \in Requests, Moves(q) PROVE Goal
    <2>1. Progress'
        BY <1>2 DEF TypeOK, Progress, Moves, Reject, Pass, Duplicate, LookupFails,
                    CommitFails, Respond, RefreshFails, Goto, Answer, DedupHasKey
    <2>2. AcceptedIsDurable'
        BY <1>2 DEF TypeOK, Progress, AcceptedIsDurable, Moves, Reject, Pass, Duplicate,
                    LookupFails, CommitFails, Respond, RefreshFails, Goto, Answer
    <2> QED BY <2>1, <2>2
<1>3. ASSUME NEW q \in Requests, Takes(q) PROVE Goal
    <2>1. key[q] \in Keys /\ period[key[q]] # Unclaimed
        BY <1>3, BoundsAssumption DEF Takes, Claim, TypeOK, DedupHasKey, Unclaimed
    <2>2. Progress'
        BY <1>3, <2>1 DEF TypeOK, Progress, Takes, Claim, LookupFails, TakesKey, Goto, Answer
    <2>3. AcceptedIsDurable'
        BY <1>3 DEF TypeOK, AcceptedIsDurable, Takes, Claim, LookupFails, Goto, Answer
    <2> QED BY <2>2, <2>3
<1>4. ASSUME NEW q \in Requests, Commit(q) PROVE Goal
    BY <1>4 DEF TypeOK, Progress, AcceptedIsDurable, Commit, Goto
<1>5. CASE Crash
    BY <1>5 DEF TypeOK, Progress, AcceptedIsDurable, Crash, InFlight
<1>6. CASE ToggleEndpoint \/ DeleteEndpoint
    BY <1>6 DEF Progress, AcceptedIsDurable, ToggleEndpoint, DeleteEndpoint
<1>7. ASSUME UNCHANGED <<endpoint, pc, key, response, claim, events, outbox>> PROVE Goal
    BY <1>7 DEF Progress, AcceptedIsDurable
<1> QED
    BY <1>1, <1>2, <1>3, <1>4, <1>5, <1>6, <1>7, StepCases DEF Expire, vars

-----------------------------------------------------------------------------
(* IInv holds of every reachable state of the gateway. *)
THEOREM Invariance == Spec => []IInv
<1>1. Init => IInv
    BY BoundsAssumption
    DEF Init, IInv, TypeOK, ClaimsInPeriod, ClaimsApart, Progress, DedupHasKey,
        AcceptedIsDurable, RejectionKeepsKeyFree, InFlight, Unclaimed
<1>2. IInv /\ [Next]_vars => IInv'
    BY TypeStep, DedupStep, ClaimsStep, ProgressStep DEF IInv
<1> QED BY <1>1, <1>2, PTL DEF Spec

(* Request state, Redis and the tables keep their types. *)
THEOREM TypeCorrect == Spec => []TypeOK
<1>1. IInv => TypeOK
    BY DEF IInv
<1> QED BY <1>1, Invariance, PTL

(* receive_webhook stores at most one event per idempotency key and TTL     *)
(* period, for any interleaving of any number of requests.                  *)
THEOREM KeysDeduplicate == Spec => []OneEventPerKeyPeriod
<1>1. IInv => OneEventPerKeyPeriod
    BY DEF IInv, TypeOK, Progress, ClaimsApart, OneEventPerKeyPeriod
<1> QED BY <1>1, Invariance, PTL

(* A sender that reads "accepted" has its event and outbox record stored. *)
THEOREM AcceptanceIsDurable == Spec => []AcceptedIsDurable
<1>1. IInv => AcceptedIsDurable
    BY DEF IInv
<1> QED BY <1>1, Invariance, PTL

(* A rejected request never uses up its idempotency key. *)
THEOREM RejectionIsHarmless == Spec => []RejectionKeepsKeyFree
<1>1. IInv => RejectionKeepsKeyFree
    BY DEF IInv
<1> QED BY <1>1, Invariance, PTL
=============================================================================
