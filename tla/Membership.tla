----------------------------- MODULE Membership -----------------------------
(***************************************************************************)
(* What registration and the workspaces API promise together, as if each   *)
(* call were one step: an account comes with a workspace it owns, only     *)
(* accounts are members, members come and go one at a time, and whoever    *)
(* founded a workspace stays its owner.                                    *)
(***************************************************************************)
CONSTANTS Accounts, Workspaces

VARIABLES
    registered,  \* the accounts there are
    role         \* of each account in each workspace; "none": no member

vars == <<registered, role>>

Given == {"viewer", "member", "admin"}

Unused(w) == \A a \in Accounts : role[w][a] = "none"

Init ==
    /\ registered \subseteq Accounts
    /\ role \in [Workspaces -> [Accounts -> Given \cup {"owner", "none"}]]
    /\ \A w \in Workspaces :
            Unused(w) \/ \E a \in Accounts : \A b \in Accounts : role[w][b] = "owner" <=> a = b
    /\ \A w \in Workspaces, a \in Accounts : role[w][a] # "none" => a \in registered
    /\ \A a \in registered : \E w \in Workspaces : role[w][a] = "owner"

Become(w, a, r) == role' = [role EXCEPT ![w][a] = r]

(* The owner is the first member. *)
Found(w, a) == Unused(w) /\ Become(w, a, "owner")

Register(a, w) ==
    /\ a \notin registered
    /\ registered' = registered \cup {a}
    /\ Found(w, a)

Create(a, w) == a \in registered /\ Found(w, a) /\ UNCHANGED registered

Add(w, a, r) ==
    /\ ~Unused(w) /\ a \in registered /\ role[w][a] = "none"
    /\ Become(w, a, r)
    /\ UNCHANGED registered

Change(w, a, r) == role[w][a] \in Given /\ Become(w, a, r) /\ UNCHANGED registered

Remove(w, a) == role[w][a] \in Given /\ Become(w, a, "none") /\ UNCHANGED registered

Next ==
    \E w \in Workspaces, a \in Accounts :
        \/ Register(a, w) \/ Create(a, w) \/ Remove(w, a)
        \/ \E r \in Given : Add(w, a, r) \/ Change(w, a, r)

Spec == Init /\ [][Next]_vars

=============================================================================
