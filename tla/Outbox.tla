------------------------------- MODULE Outbox -------------------------------
(***************************************************************************)
(* What the outbox promises, with no word of relays, batches and locks: a  *)
(* record is published while it is pending and no longer, it is settled    *)
(* once, "completed" only with its message in the topic and "failed" only  *)
(* after its last try, and what went wrong so far bounds the copies.       *)
(***************************************************************************)
EXTENDS Integers

CONSTANTS Records, MAX_ATTEMPTS

VARIABLES
    row,     \* "none", "pending", "completed" or "failed"
    tries,   \* failed tries that count
    copies,  \* messages in the topic, per record
    lapses   \* transactions and acknowledgements that were lost

vars == <<row, tries, copies, lapses>>

TypeOK ==
    /\ row \in [Records -> {"none", "pending", "completed", "failed"}]
    /\ tries \in [Records -> 0..MAX_ATTEMPTS]
    /\ copies \in [Records -> Nat]
    /\ lapses \in Nat

Init ==
    /\ row = [e \in Records |-> "none"]
    /\ tries = [e \in Records |-> 0]
    /\ copies = [e \in Records |-> 0]
    /\ lapses = 0

Accept(e) ==
    /\ row[e] = "none"
    /\ row' = [row EXCEPT ![e] = "pending"]
    /\ UNCHANGED <<tries, copies, lapses>>

(* Every copy before this one was followed by a lapse. *)
Publish(e) ==
    /\ row[e] = "pending"
    /\ copies[e] <= lapses
    /\ copies' = [copies EXCEPT ![e] = @ + 1]
    /\ lapses' \in {lapses, lapses + 1}
    /\ UNCHANGED <<row, tries>>

Lapse == lapses' = lapses + 1 /\ UNCHANGED <<row, tries, copies>>

(* Some records are done, for some others a try has failed. *)
Settle(Done, Tried) ==
    /\ \A e \in Done : row[e] = "pending" /\ copies[e] > 0
    /\ \A e \in Tried : row[e] = "pending" /\ e \notin Done
    /\ tries' = [e \in Records |-> IF e \in Tried THEN tries[e] + 1 ELSE tries[e]]
    /\ row' = [e \in Records |->
            CASE e \in Done -> "completed"
              [] e \in Tried /\ tries[e] + 1 = MAX_ATTEMPTS -> "failed"
              [] OTHER -> row[e]]
    /\ UNCHANGED <<copies, lapses>>

Next ==
    \/ \E e \in Records : Accept(e) \/ Publish(e)
    \/ Lapse
    \/ \E Done, Tried \in SUBSET Records : Settle(Done, Tried)

Spec == Init /\ [][Next]_vars

=============================================================================
