----------------------------- MODULE Forwarding -----------------------------
(***************************************************************************)
(* What the transform worker and the delivery worker promise together.  A  *)
(* delivery is a message of raw-events and a route that lets it through.   *)
(* Each one is made, or, once something has gone wrong, it may be dropped; *)
(* a dropped one never comes back.                                         *)
(***************************************************************************)
CONSTANT Deliveries

VARIABLES
    delivered,  \* those whose _deliver_with_retry has returned
    dropped,    \* those nobody will work on any more
    disturbed   \* a process died or was stopped, a call raised, a route was edited

vars == <<delivered, dropped, disturbed>>

TypeOK ==
    /\ delivered \subseteq Deliveries
    /\ dropped \subseteq Deliveries \ delivered
    /\ disturbed \in BOOLEAN

Init ==
    /\ delivered = {}
    /\ dropped = {}
    /\ disturbed = FALSE

Deliver(d) ==
    /\ d \notin dropped
    /\ delivered' = delivered \cup {d}
    /\ UNCHANGED <<dropped, disturbed>>

(* Something goes wrong, which may be the end of deliveries under way. *)
Disturb(S) ==
    /\ disturbed' = TRUE
    /\ dropped' = dropped \cup (S \ delivered)
    /\ UNCHANGED delivered

(* What went wrong before shows its effect later. *)
Drop(S) ==
    /\ disturbed
    /\ dropped' = dropped \cup (S \ delivered)
    /\ UNCHANGED <<delivered, disturbed>>

Next ==
    \/ \E d \in Deliveries : Deliver(d)
    \/ \E S \in SUBSET Deliveries : Disturb(S) \/ Drop(S)

Spec == Init /\ [][Next]_vars

=============================================================================
