------------------------------ MODULE MCAccess ------------------------------
(* Access with two accounts; which account, workspace or token it is does   *)
(* not matter, nor on which connection a call is made.                      *)
EXTENDS Access, TLC

Symmetry ==
    Permutations(Accounts) \cup Permutations(Workspaces) \cup Permutations(Tokens)
        \cup Permutations(Clients)

=============================================================================
