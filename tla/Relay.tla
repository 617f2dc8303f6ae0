------------------------------- MODULE Relay -------------------------------
(***************************************************************************)
(* The two workers in a row: the transform worker reads raw-events and     *)
(* writes, for each route that lets an event through, the message the      *)
(* delivery worker reads from transformed-events.  The delivery worker's   *)
(* variables keep their names, the transform worker's are prefixed.        *)
(***************************************************************************)
EXTENDS DeliveryWorker, Sequences

CONSTANTS
    RawN,          \* bound: how many messages raw-events ever has
    RawMalformed,  \* the ones without an event_id or endpoint_id
    RawUnknown,    \* the ones whose event is not in the database
    Routes,        \* the routes of the endpoint
    Passes,        \* the routes whose filter and pipeline let each one through
    MaxFaults      \* bound: faults and edits of either worker, together

ASSUME RawAssumption ==
    /\ RawN \in Nat
    /\ RawMalformed \subseteq 1..RawN /\ RawUnknown \subseteq 1..RawN
    /\ Passes \in [1..RawN -> SUBSET Routes]
    /\ \A m \in RawMalformed \cup RawUnknown : Passes[m] = {}
(* _dispatch_route sends nothing without an event_id, a route_id and a url. *)
ASSUME TopicAssumption == Malformed = {}
ASSUME FaultsAssumption == MaxFaults \in Nat

VARIABLES
    passes, rawEnd, rawCommitted, rawPosition, tLoop, tStop, active, todo, selected,
    sent, tCrashes, tStops, failures, commitFailures, edits,
    topic   \* transformed-events: message and route of each of its messages

T == INSTANCE TransformWorker WITH
        N <- RawN, Malformed <- RawMalformed, Unknown <- RawUnknown,
        MaxCrashes <- MaxFaults, MaxStops <- MaxFaults, MaxFailures <- MaxFaults,
        MaxCommitFailures <- MaxFaults, MaxEdits <- MaxFaults,
        end <- rawEnd, committed <- rawCommitted, position <- rawPosition,
        loop <- tLoop, stop <- tStop, crashes <- tCrashes, stops <- tStops

transformVars ==
    <<passes, rawEnd, rawCommitted, rawPosition, tLoop, tStop, active, todo, selected,
      sent, tCrashes, tStops, failures, commitFailures, edits>>
relayVars == <<transformVars, vars, topic>>

Faults ==
    crashes + stops + errors + tCrashes + tStops + failures + commitFailures + edits

RelayTypeOK ==
    /\ TypeOK
    /\ T!TypeOK
    /\ topic \in Seq((1..RawN) \X Routes) /\ Len(topic) = end

RelayInit ==
    /\ T!Init /\ passes = Passes
    /\ Init
    /\ topic = <<>>

-----------------------------------------------------------------------------
(* The route's message goes out with the next route's key and settings. *)
ForwardMislabelled(r) ==
    /\ T!Dispatch(r)
    /\ IF r \in passes[rawPosition]
       THEN /\ Produce
            /\ topic' = Append(topic, <<rawPosition, CHOOSE q \in Routes : q \in todo>>)
       ELSE UNCHANGED <<vars, topic>>

(* _dispatch_route: what it sends is the delivery worker's next message. *)
Forward(r) ==
    /\ T!Dispatch(r)
    /\ IF r \in passes[rawPosition]
       THEN Produce /\ topic' = Append(topic, <<rawPosition, r>>)
       ELSE UNCHANGED <<vars, topic>>

(* A step of the transform worker that sends nothing. *)
TransformOnly ==
    /\ T!Start \/ T!Take \/ T!Lookup \/ T!LookupMisses \/ T!Commit
    /\ UNCHANGED <<vars, topic>>

TransformStep ==
    \/ TransformOnly
    \/ \E r \in Routes : Forward(r)

DeliveryStep ==
    /\ \/ Start
       \/ Take
       \/ Exit
       \/ \E m \in Messages : TaskStep(m)
    /\ UNCHANGED <<transformVars, topic>>

(* A call of the transform worker raises, it is stopped or dies, or a route *)
(* is switched on or off meanwhile.                                         *)
TransformFault ==
    /\ Faults < MaxFaults
    /\ \/ T!ProcessingRaises
       \/ T!CommitFails
       \/ T!Signal
       \/ T!Crash
       \/ \E r \in Routes : T!EditRoute(r)
    /\ UNCHANGED <<vars, topic>>

(* A send raises after the broker has stored the message. *)
ForwardUnacknowledged(r) ==
    /\ Faults < MaxFaults
    /\ T!SendUnacknowledged(r)
    /\ Produce
    /\ topic' = Append(topic, <<rawPosition, r>>)

(* A delivery or a commit raises, or the delivery worker is stopped or dies. *)
DeliveryFault ==
    /\ Faults < MaxFaults
    /\ \/ \E m \in Messages : DeliveryRaises(m) \/ CommitFails(m)
       \/ Signal
       \/ Crash
    /\ UNCHANGED <<transformVars, topic>>

(* The outbox relay appends to raw-events. *)
RawProduce == T!Produce /\ UNCHANGED <<vars, topic>>

RelayNext ==
    \/ RawProduce
    \/ TransformStep
    \/ DeliveryStep
    \/ TransformFault
    \/ \E r \in Routes : ForwardUnacknowledged(r)
    \/ DeliveryFault

RelaySpec == RelayInit /\ [][RelayNext]_relayVars

(* Both processes are restarted (docker-compose.yml: restart:               *)
(* unless-stopped) and whatever they await ends.  As the messages are       *)
(* finite, it is enough that each of them goes on while it can.             *)
RelayFairSpec ==
    /\ RelaySpec
    /\ WF_relayVars(TransformStep)
    /\ WF_relayVars(DeliveryStep)

-----------------------------------------------------------------------------
Pairs == {p \in (1..RawN) \X Routes : p[2] \in Passes[p[1]]}

CopiesOf(p) == {i \in 1..end : topic[i] = p}

Delivered == {p \in Pairs : CopiesOf(p) \cap settled # {}}

(* Neither worker will read it again and no task is at work on it. *)
Dropped ==
    {p \in Pairs \ Delivered :
        /\ p[1] <= rawCommitted
        /\ \A i \in CopiesOf(p) : i <= committed /\ task[i] = "none"}

F == INSTANCE Forwarding WITH
        Deliveries <- Pairs, delivered <- Delivered, dropped <- Dropped,
        disturbed <- Faults > 0

(* Together the workers do what Forwarding says: as long as nothing goes    *)
(* wrong no delivery gets lost between two offsets, and one that was        *)
(* dropped never comes back.                                                *)
ForwardingImplemented == F!Spec

(* The workers have both gone past it for the time being. *)
PassedOver(p) ==
    /\ T!Passed(p[1])
    /\ \A i \in CopiesOf(p) : i <= position /\ task[i] = "none"

(* Every event of raw-events is delivered to each route it passes, unless a *)
(* fault of either worker made it be passed over.                           *)
EventuallyForwarded ==
    \A p \in Pairs :
        p[1] <= rawEnd ~> p \in Delivered \/ (Faults > 0 /\ PassedOver(p))

(* A raw message behind the transform worker's offset was produced for      *)
(* every route it was looked up with, whatever the delivery worker does.    *)
DispatchedBeforeCommit == T!DispatchedBeforeCommit

(* A second copy in transformed-events is due to a crash of the transform   *)
(* worker or to a commit of its that raised, never to the delivery worker.  *)
CopiesBoundedByFaults ==
    \A p \in Pairs :
        Cardinality(CopiesOf(p)) <= 1 + tCrashes + commitFailures

=============================================================================
