------------------------------- MODULE Access -------------------------------
(***************************************************************************)
(* Accounts, sessions and the members of workspaces: register, login and   *)
(* logout (api/auth.py, core/security.py), the checks every call of the    *)
(* management API passes (middleware/rbac.py), and the workspaces and      *)
(* membership API (api/workspaces.py).                                     *)
(*                                                                         *)
(* Who calls, with which role, what the call finds and what it writes are  *)
(* read and committed in four database sessions one after the other, so    *)
(* each is a step of its own.  An account is named by its email.           *)
(***************************************************************************)
EXTENDS Integers

CONSTANTS
    Accounts,    \* the emails people may register with
    Workspaces,  \* the workspaces that may be created
    Names,       \* names given to workspaces
    LongNames,   \* those that _slugify cuts before the user's id
    Tokens,      \* the tokens that may be issued
    None,        \* no such row, or no such token
    Clients,     \* connections of the API, one call at a time on each
    LIFETIME,    \* seconds a token is valid; settings.jwt_expire_minutes
    TICKS,       \* instants told apart in a second
    Offered,     \* roles that are asked for in membership calls
    MaxTime,     \* bound: instants modelled
    MaxCalls     \* bound: how many calls are made

ASSUME NamesAssumption == LongNames \subseteq Names
ASSUME NoneAssumption ==
    /\ None \notin Workspaces
    /\ \A name \in Names, a \in Accounts : <<name>> # None /\ <<name, a>> # None
ASSUME TimeAssumption == LIFETIME \in Nat /\ TICKS \in Nat \ {0} /\ MaxTime \in Nat
ASSUME OfferedAssumption == Offered \subseteq {"viewer", "member", "admin", "owner"}
ASSUME CallsAssumption == MaxCalls \in Nat

VARIABLES
    account,    \* "none", "active" or "inactive", per email
    slug,       \* the slug of each workspace, None when there is no such row
    role,       \* role of each account in each workspace; "none": no row
    token,      \* account and expiry of each token issued
    revoked,    \* instant at which a token's blocklist key expires, 0 without
    loggedOut,  \* history: tokens whose logout was answered
    call,       \* the call each client has under way
    now, calls

vars == <<account, slug, role, token, revoked, loggedOut, call, now, calls>>

(* ROLE_HIERARCHY *)
Roles == {"viewer", "member", "admin", "owner"}
Level(r) == CASE r = "viewer" -> 0 [] r = "member" -> 1 [] r = "admin" -> 2
              [] r = "owner" -> 3 [] OTHER -> -1

(* The roles membership calls may ask for. *)
Grantable == {"viewer", "member", "admin"}

Idle == [op |-> "none"]

MemberOps == {"add", "update", "remove"}

TypeOK ==
    /\ account \in [Accounts -> {"none", "active", "inactive"}]
    /\ DOMAIN slug = Workspaces
    /\ role \in [Workspaces -> [Accounts -> Roles \cup {"none"}]]
    /\ \A t \in Tokens : token[t] = None \/ token[t].account \in Accounts
    /\ revoked \in [Tokens -> Nat]
    /\ loggedOut \subseteq Tokens
    /\ DOMAIN call = Clients
    /\ \A c \in Clients : call[c].op \in {"update", "remove"} /\ call[c].stage = "writing" =>
            call[c].seen \in Grantable
    /\ now \in 0..MaxTime /\ calls \in 0..MaxCalls

(* _slugify(f"{name}-{user.id}"), cut after 63 characters. *)
Slug(name, a) == IF name \in LongNames THEN <<name>> ELSE <<name, a>>

(* A database some accounts have registered with already: each owns a       *)
(* workspace, and may be a member of the others'.                           *)
Init ==
    /\ \E Homes \in [Accounts -> Workspaces \cup {None}], name \in Names \ LongNames :
            /\ \A a, b \in Accounts : Homes[a] = Homes[b] => Homes[a] = None \/ a = b
            /\ account = [a \in Accounts |-> IF Homes[a] = None THEN "none" ELSE "active"]
            /\ slug = [w \in Workspaces |->
                    IF \E a \in Accounts : Homes[a] = w
                    THEN Slug(name, CHOOSE a \in Accounts : Homes[a] = w) ELSE None]
            /\ role \in [Workspaces -> [Accounts -> Offered \cup {"owner", "none"}]]
            /\ \A w \in Workspaces, a \in Accounts :
                    /\ role[w][a] = "owner" <=> Homes[a] = w
                    /\ slug[w] = None \/ account[a] = "none" => role[w][a] \notin Grantable
    /\ token = [t \in Tokens |-> None]
    /\ revoked = [t \in Tokens |-> 0]
    /\ loggedOut = {}
    /\ call = [c \in Clients |-> Idle]
    /\ now = 0 /\ calls = 0

-----------------------------------------------------------------------------
Begin(c, request) ==
    /\ call[c] = Idle
    /\ calls < MaxCalls
    /\ calls' = calls + 1
    /\ call' = [call EXCEPT ![c] = request]

Answer(c) == call' = [call EXCEPT ![c] = Idle]

Proceed(c, request) == call' = [call EXCEPT ![c] = request]

Database == <<account, slug, role>>
Sessions == <<token, revoked, loggedOut>>

SlugFree(s) == \A w \in Workspaces : slug[w] # s

(* A workspace whose only member is its owner. *)
Found(w, s, a) ==
    /\ slug[w] = None
    /\ slug' = [slug EXCEPT ![w] = s]
    /\ role' = [role EXCEPT ![w][a] = "owner"]

(* create_access_token: exp is a whole number of seconds. *)
Issue(t, a) ==
    /\ token[t] = None
    /\ token' = [token EXCEPT ![t] = [account |-> a, exp |-> (now + LIFETIME * TICKS) \div TICKS]]

(* decode_access_token: good until the second exp is over. *)
Valid(t) == token[t] # None /\ now \div TICKS <= token[t].exp

(* What get_current_user accepts. *)
Accepted(t) == Valid(t) /\ revoked[t] <= now /\ account[token[t].account] = "active"

-----------------------------------------------------------------------------
(* register: no such email yet. *)
BeginRegister(c, a, name) ==
    /\ account[a] = "none"
    /\ Begin(c, [op |-> "register", account |-> a, name |-> name])
    /\ UNCHANGED <<Database, Sessions, now>>

(* The account is committed before its workspace is known to go through. *)
RegisterInTwo(c, w, t) ==
    /\ call[c].op = "register"
    /\ LET a == call[c].account
           s == Slug(call[c].name, a)
       IN  IF account[a] = "none"
           THEN /\ account' = [account EXCEPT ![a] = "active"]
                /\ IF SlugFree(s) THEN Found(w, s, a) /\ Issue(t, a)
                   ELSE UNCHANGED <<slug, role, token>>
           ELSE UNCHANGED <<Database, token>>
    /\ Answer(c)
    /\ UNCHANGED <<revoked, loggedOut, now, calls>>

(* User, workspace and membership in one transaction; an email or a slug    *)
(* that is taken by now makes it raise.                                     *)
Register(c, w, t) ==
    /\ call[c].op = "register"
    /\ LET a == call[c].account
           s == Slug(call[c].name, a)
       IN  IF account[a] = "none" /\ SlugFree(s)
           THEN /\ account' = [account EXCEPT ![a] = "active"]
                /\ Found(w, s, a) /\ Issue(t, a)
           ELSE UNCHANGED <<Database, token>>
    /\ Answer(c)
    /\ UNCHANGED <<revoked, loggedOut, now, calls>>

Login(a, t) ==
    /\ account[a] = "active"
    /\ Issue(t, a)
    /\ UNCHANGED <<Database, revoked, loggedOut, call, now, calls>>

(* Nothing here switches an account off: somebody else sets is_active. *)
SwitchAccount(a) ==
    /\ account[a] # "none" /\ calls < MaxCalls
    /\ calls' = calls + 1
    /\ account' = [account EXCEPT ![a] = IF @ = "active" THEN "inactive" ELSE "active"]
    /\ UNCHANGED <<slug, role, Sessions, call, now>>

(* get_current_user, with which every other call starts. *)
Authenticate(c, t, request) ==
    /\ Accepted(t)
    /\ Begin(c, request)
    /\ UNCHANGED <<Database, Sessions, now>>

(* The key's time to live is counted in the token's minutes. *)
LogoutShort(c) ==
    /\ call[c].op = "logout"
    /\ LET t == call[c].token
           ttl == (token[t].exp * TICKS - now) \div TICKS - 1
       IN  /\ revoked' = [revoked EXCEPT ![t] = IF ttl > 0 THEN now + ttl * TICKS ELSE @]
           /\ loggedOut' = loggedOut \cup {t}
    /\ Answer(c)
    /\ UNCHANGED <<Database, token, now, calls>>

(* int(exp - time.time()) seconds on the blocklist, if that is any. *)
Logout(c) ==
    /\ call[c].op = "logout"
    /\ LET t == call[c].token
           ttl == (token[t].exp * TICKS - now) \div TICKS
       IN  /\ revoked' = [revoked EXCEPT ![t] = IF ttl > 0 THEN now + ttl * TICKS ELSE @]
           /\ loggedOut' = loggedOut \cup {t}
    /\ Answer(c)
    /\ UNCHANGED <<Database, token, now, calls>>

(* create_workspace; a second one of the same name has no slug. *)
CreateWorkspace(c, w) ==
    /\ call[c].op = "create"
    /\ LET s == Slug(call[c].name, call[c].caller)
       IN  IF SlugFree(s) THEN Found(w, s, call[c].caller) ELSE UNCHANGED <<slug, role>>
    /\ Answer(c)
    /\ UNCHANGED <<account, Sessions, now, calls>>

-----------------------------------------------------------------------------
Required(op) == IF op = "delete" THEN "owner" ELSE "admin"

(* require_workspace_role *)
Authorise(c) ==
    /\ call[c].op \in MemberOps \cup {"rename", "delete"}
    /\ call[c].stage = "authenticated"
    /\ IF Level(role[call[c].workspace][call[c].caller]) >= Level(Required(call[c].op))
       THEN Proceed(c, [call[c] EXCEPT !.stage = "authorised"]) ELSE Answer(c)
    /\ UNCHANGED <<Database, Sessions, now, calls>>

(* rename and delete ask the membership, which no session holds any more,   *)
(* for its workspace: the attribute cannot be loaded and the call fails.    *)
WorkspaceCallFails(c) ==
    /\ call[c].op \in {"rename", "delete"} /\ call[c].stage = "authorised"
    /\ Answer(c)
    /\ UNCHANGED <<Database, Sessions, now, calls>>

Target(c) == role[call[c].workspace][call[c].target]

(* The owner is removed like everybody else. *)
MayHandleOwner(c) ==
    CASE call[c].op = "add" -> /\ call[c].role \in Grantable
                               /\ account[call[c].target] # "none" /\ Target(c) = "none"
      [] call[c].op = "update" -> call[c].role \in Grantable /\ Target(c) \in Grantable
      [] call[c].op = "remove" -> Target(c) # "none"

(* The handler's own read: 400 for a role nobody can be given, 404, 409, or *)
(* 403 for the owner's row.                                                 *)
MayHandle(c) ==
    CASE call[c].op = "add" -> /\ call[c].role \in Grantable
                               /\ account[call[c].target] # "none" /\ Target(c) = "none"
      [] call[c].op = "update" -> call[c].role \in Grantable /\ Target(c) \in Grantable
      [] call[c].op = "remove" -> Target(c) \in Grantable

Handle(c) ==
    /\ call[c].op \in MemberOps /\ call[c].stage = "authorised"
    /\ IF MayHandle(c)
       THEN Proceed(c, [call[c] EXCEPT !.stage = "writing", !.seen = Target(c)]) ELSE Answer(c)
    /\ UNCHANGED <<Database, Sessions, now, calls>>

SetRole(c, r) ==
    role' = [role EXCEPT ![call[c].workspace][call[c].target] = r]

Written(c) ==
    /\ Answer(c)
    /\ UNCHANGED <<account, slug, Sessions, now, calls>>

(* The row is there already: the commit raises. *)
CommitAdd(c) ==
    /\ call[c].op = "add" /\ call[c].stage = "writing"
    /\ IF Target(c) = "none" THEN SetRole(c, call[c].role) ELSE UNCHANGED role
    /\ Written(c)

(* The role is merged into the table, whether the row is there or not. *)
CommitUpsert(c) ==
    /\ call[c].op = "update" /\ call[c].stage = "writing"
    /\ IF call[c].role # call[c].seen THEN SetRole(c, call[c].role) ELSE UNCHANGED role
    /\ Written(c)

(* A row that was removed meanwhile makes the commit raise; a role equal to *)
(* the one that was read is not written.                                    *)
CommitUpdate(c) ==
    /\ call[c].op = "update" /\ call[c].stage = "writing"
    /\ IF Target(c) # "none" /\ call[c].role # call[c].seen
       THEN SetRole(c, call[c].role) ELSE UNCHANGED role
    /\ Written(c)

CommitRemove(c) ==
    /\ call[c].op = "remove" /\ call[c].stage = "writing"
    /\ SetRole(c, "none")
    /\ Written(c)

(* The server dies, or the client goes away: the session is rolled back. *)
Abandon(c) ==
    /\ call[c] # Idle
    /\ Answer(c)
    /\ UNCHANGED <<Database, Sessions, now, calls>>

Tick ==
    /\ now < MaxTime
    /\ now' = now + 1
    /\ UNCHANGED <<Database, Sessions, call, calls>>

-----------------------------------------------------------------------------
Existing == {w \in Workspaces : slug[w] # None}

MemberCalls(a) ==
    [op : {"add", "update"}, stage : {"authenticated"}, caller : {a}, workspace : Existing,
     target : Accounts, role : Offered, seen : {"none"}]
    \cup [op : {"remove"}, stage : {"authenticated"}, caller : {a}, workspace : Existing,
          target : Accounts, role : {"none"}, seen : {"none"}]
    \cup [op : {"rename", "delete"}, stage : {"authenticated"}, caller : {a},
          workspace : Existing]

AuthStep ==
    \/ \E c \in Clients, a \in Accounts, name \in Names : BeginRegister(c, a, name)
    \/ \E c \in Clients, w \in Workspaces, t \in Tokens : Register(c, w, t)
    \/ \E a \in Accounts, t \in Tokens : Login(a, t)
    \/ \E c \in Clients, t \in Tokens : Authenticate(c, t, [op |-> "logout", token |-> t])
    \/ \E c \in Clients : Logout(c)
    \/ \E a \in Accounts : SwitchAccount(a)

WorkspaceStep ==
    \/ \E c \in Clients, t \in Tokens, name \in Names : token[t] # None /\
            Authenticate(c, t, [op |-> "create", caller |-> token[t].account, name |-> name])
    \/ \E c \in Clients, w \in Workspaces : CreateWorkspace(c, w)
    \/ \E c \in Clients, t \in Tokens : token[t] # None /\
            \E request \in MemberCalls(token[t].account) : Authenticate(c, t, request)
    \/ \E c \in Clients :
            \/ Authorise(c) \/ Handle(c)
            \/ CommitAdd(c) \/ CommitUpdate(c) \/ CommitRemove(c)
            \/ WorkspaceCallFails(c)
            \/ Abandon(c)

Next == AuthStep \/ WorkspaceStep \/ Tick

Spec == Init /\ [][Next]_vars

-----------------------------------------------------------------------------
Owners(w) == {a \in Accounts : role[w][a] = "owner"}

(* A workspace has exactly one owner as long as it exists, whichever member *)
(* calls overlap: nobody is made owner, and the owner cannot be taken away. *)
OneOwner ==
    \A w \in Workspaces :
        IF slug[w] = None THEN \A a \in Accounts : role[w][a] = "none"
        ELSE \E a \in Accounts : Owners(w) = {a}

(* Registering is all or nothing: an account has a workspace it owns, also  *)
(* when another registration took the email or the slug first.              *)
AccountHasWorkspace ==
    \A a \in Accounts : account[a] # "none" => \E w \in Workspaces : a \in Owners(w)

(* Who was removed is a member again only because somebody added him: a     *)
(* change of role that was under way does not bring the row back, and an    *)
(* addition does not change the role of one who is a member by now.         *)
MembersComeByAdding ==
    [][\A w \in Workspaces, a \in Accounts :
          role[w][a] = "none" /\ role'[w][a] \in Grantable =>
              \E c \in Clients : /\ call[c].op = "add" /\ call[c].stage = "writing"
                                 /\ call[c].workspace = w /\ call[c].target = a
                                 /\ call'[c] = Idle]_role

(* A token that was logged out is refused from then on, until a second      *)
(* before its exp; it would have been good until a second after it.         *)
LogoutHolds ==
    \A t \in loggedOut : now <= (token[t].exp - 1) * TICKS => ~Accepted(t)

(* However their database sessions interleave, each call comes to one step  *)
(* of Membership or to none: what a handler read of the row it writes, of   *)
(* the account and of the workspace may be old, but never so old that the   *)
(* owner's row is written, a member appears from nowhere, or an account has *)
(* no workspace.                                                            *)
Membership == INSTANCE Membership WITH registered <- {a \in Accounts : account[a] # "none"}
MembershipImplemented == Membership!Spec

=============================================================================
