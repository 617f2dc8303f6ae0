------------------------------ MODULE MCRelay ------------------------------
EXTENDS Relay, TLC

CONSTANTS a, b

(* The first message is malformed and the third unknown; the second goes to *)
(* both routes, the last to one of them.                                    *)
MCPasses == 1 :> {} @@ 2 :> {a, b} @@ 3 :> {} @@ 4 :> {a}

=============================================================================
