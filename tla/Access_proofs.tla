---------------------------- MODULE Access_proofs ----------------------------
(***************************************************************************)
(* Theorems about Access: who owns a workspace, who is a member of it, and *)
(* what a logout is worth, whichever calls overlap.                        *)
(***************************************************************************)
EXTENDS Access, TLAPS

(* What a client can have under way. *)
MemberRequest ==
    [op : MemberOps, stage : {"authenticated", "authorised", "writing"}, caller : Accounts,
     workspace : Workspaces, target : Accounts, role : Offered \cup {"none"},
     seen : Roles \cup {"none"}]
WorkspaceRequest ==
    [op : {"rename", "delete"}, stage : {"authenticated", "authorised"}, caller : Accounts,
     workspace : Workspaces]
OtherRequest ==
    {Idle}
    \cup [op : {"register"}, account : Accounts, name : Names]
    \cup [op : {"logout"}, token : Tokens]
    \cup [op : {"create"}, caller : Accounts, name : Names]

Request == MemberRequest \cup WorkspaceRequest \cup OtherRequest

Typed ==
    /\ account \in [Accounts -> {"none", "active", "inactive"}]
    /\ DOMAIN slug = Workspaces
    /\ role \in [Workspaces -> [Accounts -> Roles \cup {"none"}]]
    /\ DOMAIN token = Tokens
    /\ \A t \in Tokens : token[t] = None \/ token[t].account \in Accounts
    /\ call \in [Clients -> Request]

(* A member call is about a workspace that exists, and one that writes has   *)
(* seen that its target is not the owner: nobody becomes the owner later.    *)
CallOK(r) ==
    r.op \in MemberOps =>
        /\ slug[r.workspace] # None
        /\ r.stage = "writing" =>
              /\ r.op \in {"add", "update"} => r.role \in Grantable
              /\ r.op \in {"update", "remove"} => role[r.workspace][r.target] # "owner"

AInv ==
    /\ Typed
    /\ OneOwner
    /\ AccountHasWorkspace
    /\ \A c \in Clients : CallOK(call[c])

-----------------------------------------------------------------------------
LEMMA InitAInv == Init => AInv
<1> SUFFICES ASSUME Init PROVE AInv
    OBVIOUS
<1> USE NoneAssumption, OfferedAssumption, NamesAssumption
<1>1. PICK Homes \in [Accounts -> Workspaces \cup {None}], name \in Names \ LongNames :
            /\ \A a, b \in Accounts : Homes[a] = Homes[b] => Homes[a] = None \/ a = b
            /\ account = [a \in Accounts |-> IF Homes[a] = None THEN "none" ELSE "active"]
            /\ slug = [w \in Workspaces |->
                    IF \E a \in Accounts : Homes[a] = w
                    THEN Slug(name, CHOOSE a \in Accounts : Homes[a] = w) ELSE None]
            /\ role \in [Workspaces -> [Accounts -> Offered \cup {"owner", "none"}]]
            /\ \A w \in Workspaces, a \in Accounts :
                    /\ role[w][a] = "owner" <=> Homes[a] = w
                    /\ slug[w] = None \/ account[a] = "none" => role[w][a] \notin Grantable
    BY DEF Init
<1>2. /\ token = [t \in Tokens |-> None]
      /\ call = [c \in Clients |-> Idle]
    BY DEF Init
<1>h. \A a \in Accounts : Homes[a] \in Workspaces \cup {None}
    BY <1>1
<1>s. /\ DOMAIN slug = Workspaces
      /\ \A w \in Workspaces : slug[w] = None <=> ~ \E a \in Accounts : Homes[a] = w
    <2>1. DOMAIN slug = Workspaces
        BY <1>1
    <2>2. ASSUME NEW w \in Workspaces, NEW a \in Accounts, Homes[a] = w
          PROVE  slug[w] # None
        <3>1. (CHOOSE b \in Accounts : Homes[b] = w) \in Accounts
            BY <2>2
        <3>2. slug[w] = Slug(name, CHOOSE b \in Accounts : Homes[b] = w)
            BY <1>1, <2>2
        <3>3. \A b \in Accounts : Slug(name, b) # None
            BY DEF Slug
        <3> QED BY <3>1, <3>2, <3>3
    <2>3. ASSUME NEW w \in Workspaces, ~ \E a \in Accounts : Homes[a] = w
          PROVE  slug[w] = None
        BY <1>1, <2>3
    <2> QED BY <2>1, <2>2, <2>3
<1>r. /\ role \in [Workspaces -> [Accounts -> Roles \cup {"none"}]]
      /\ \A w \in Workspaces, a \in Accounts :
            /\ role[w][a] = "owner" <=> Homes[a] = w
            /\ slug[w] = None \/ account[a] = "none" => role[w][a] \notin Grantable
    <2>1. Offered \cup {"owner", "none"} \subseteq Roles \cup {"none"}
        BY DEF Roles
    <2> DEFINE S == Offered \cup {"owner", "none"}
               R == Roles \cup {"none"}
    <2>2. role \in [Workspaces -> [Accounts -> S]]
        BY <1>1
    <2> HIDE DEF S, R
    <2>3. S \subseteq R
        BY <2>1 DEF S, R
    <2>4. role \in [Workspaces -> [Accounts -> R]]
        BY <2>2, <2>3
    <2> QED BY <1>1, <2>4 DEF R
<1>a. /\ account \in [Accounts -> {"none", "active", "inactive"}]
      /\ \A a \in Accounts : account[a] = "none" <=> Homes[a] = None
    BY <1>1
<1>3. Typed
    BY <1>a, <1>r, <1>s, <1>2 DEF Typed, Request, OtherRequest
<1>4. ASSUME NEW w \in Workspaces
      PROVE  IF slug[w] = None THEN \A a \in Accounts : role[w][a] = "none"
             ELSE \E a \in Accounts : Owners(w) = {a}
    <2>1. CASE \E a \in Accounts : Homes[a] = w
        <3>1. PICK a \in Accounts : Homes[a] = w
            BY <2>1
        <3>2. ASSUME NEW b \in Accounts, Homes[b] = w PROVE b = a
            <4>1. Homes[a] = Homes[b] /\ Homes[a] # None
                BY <3>1, <3>2
            <4> QED BY <4>1, <1>1
        <3>3. Owners(w) = {a}
            BY <1>r, <3>1, <3>2 DEF Owners
        <3> QED BY <1>s, <3>1, <3>3
    <2>2. CASE ~ \E a \in Accounts : Homes[a] = w
        <3>1. slug[w] = None
            BY <1>s, <2>2
        <3>2. ASSUME NEW a \in Accounts PROVE role[w][a] = "none"
            <4>1. role[w][a] \in Roles \cup {"none"}
                BY <1>r
            <4> QED BY <1>r, <2>2, <3>1, <4>1 DEF Roles, Grantable
        <3> QED BY <3>1, <3>2
    <2> QED BY <2>1, <2>2
<1>5. AccountHasWorkspace
    BY <1>a, <1>h, <1>r DEF AccountHasWorkspace, Owners
<1>6. \A c \in Clients : CallOK(call[c])
    BY <1>2 DEF CallOK, Idle, MemberOps
<1> QED BY <1>3, <1>4, <1>5, <1>6 DEF AInv, OneOwner

(* A new workspace has the account that asked for it as its only owner, and  *)
(* leaves the others, and the calls about them, alone.                       *)
LEMMA FoundKeeps ==
    ASSUME AInv, NEW w \in Workspaces, NEW a \in Accounts, NEW s, s # None, Found(w, s, a)
    PROVE  /\ DOMAIN slug' = Workspaces
           /\ role' \in [Workspaces -> [Accounts -> Roles \cup {"none"}]]
           /\ OneOwner'
           /\ \A b \in Accounts, v \in Workspaces : b \in Owners(v) => b \in Owners(v)'
           /\ a \in Owners(w)'
           /\ \A r \in Request : CallOK(r) => CallOK(r)'
<1>1. /\ slug[w] = None
      /\ slug' = [slug EXCEPT ![w] = s]
      /\ role' = [role EXCEPT ![w][a] = "owner"]
      /\ DOMAIN slug = Workspaces
      /\ role \in [Workspaces -> [Accounts -> Roles \cup {"none"}]]
    BY DEF Found, AInv, Typed
<1>2. /\ DOMAIN slug' = Workspaces
      /\ role' \in [Workspaces -> [Accounts -> Roles \cup {"none"}]]
    BY <1>1 DEF Roles
<1>3. /\ slug'[w] # None
      /\ \A v \in Workspaces \ {w} : slug'[v] = slug[v] /\ role'[v] = role[v]
      /\ \A b \in Accounts : role'[w][b] = IF b = a THEN "owner" ELSE role[w][b]
    BY <1>1
<1>4. \A b \in Accounts : role[w][b] = "none"
    BY <1>1 DEF AInv, OneOwner
<1>5. Owners(w)' = {a}
    BY <1>3, <1>4 DEF Owners
<1>6. \A v \in Workspaces \ {w} : Owners(v)' = Owners(v)
    BY <1>3 DEF Owners
<1>7. OneOwner'
    <2> SUFFICES ASSUME NEW v \in Workspaces
                 PROVE  IF slug'[v] = None THEN \A b \in Accounts : role'[v][b] = "none"
                        ELSE \E b \in Accounts : Owners(v)' = {b}
        BY DEF OneOwner
    <2>1. CASE v = w
        BY <2>1, <1>3, <1>5
    <2>2. CASE v # w
        BY <2>2, <1>3, <1>6 DEF AInv, OneOwner
    <2> QED BY <2>1, <2>2
<1>8. \A b \in Accounts, v \in Workspaces : b \in Owners(v) => b \in Owners(v)'
    BY <1>4, <1>6 DEF Owners
<1>9. ASSUME NEW r \in Request, CallOK(r)
      PROVE  CallOK(r)'
    <2> SUFFICES ASSUME r.op \in MemberOps PROVE CallOK(r)'
        BY DEF CallOK
    <2>1. r \in MemberRequest
        BY DEF Request, MemberOps, WorkspaceRequest, OtherRequest, Idle
    <2>2. r.workspace \in Workspaces \ {w} /\ r.target \in Accounts
        BY <2>1, <1>1, <1>9 DEF MemberRequest, CallOK
    <2> QED BY <2>2, <1>3, <1>9 DEF CallOK
<1> QED BY <1>2, <1>5, <1>7, <1>8, <1>9

(* A membership that is not the owner's is set to one that is not either. *)
LEMMA SetKeeps ==
    ASSUME AInv, NEW w \in Workspaces, NEW a \in Accounts, NEW q \in Grantable \cup {"none"},
           slug[w] # None, role[w][a] # "owner",
           role' = [role EXCEPT ![w][a] = q], UNCHANGED <<slug, account>>
    PROVE  /\ role' \in [Workspaces -> [Accounts -> Roles \cup {"none"}]]
           /\ OneOwner'
           /\ AccountHasWorkspace'
           /\ \A r \in Request : CallOK(r) => CallOK(r)'
<1>1. role \in [Workspaces -> [Accounts -> Roles \cup {"none"}]]
    BY DEF AInv, Typed
<1>2. role' \in [Workspaces -> [Accounts -> Roles \cup {"none"}]]
    BY <1>1 DEF Roles, Grantable
<1>3. \A v \in Workspaces, b \in Accounts : role'[v][b] = "owner" <=> role[v][b] = "owner"
    BY <1>1 DEF Grantable
<1>4. \A v \in Workspaces : Owners(v)' = Owners(v)
    BY <1>3 DEF Owners
<1>5. \A v \in Workspaces \ {w} : role'[v] = role[v]
    BY <1>1
<1>6. OneOwner'
    BY <1>4, <1>5 DEF AInv, OneOwner
<1>7. AccountHasWorkspace'
    BY <1>4 DEF AInv, AccountHasWorkspace
<1>8. ASSUME NEW r \in Request, CallOK(r)
      PROVE  CallOK(r)'
    <2> SUFFICES ASSUME r.op \in MemberOps PROVE CallOK(r)'
        BY DEF CallOK
    <2>1. r \in MemberRequest
        BY DEF Request, MemberOps, WorkspaceRequest, OtherRequest, Idle
    <2>2. r.workspace \in Workspaces /\ r.target \in Accounts
        BY <2>1 DEF MemberRequest
    <2> QED BY <2>2, <1>3, <1>8 DEF CallOK
<1> QED BY <1>2, <1>6, <1>7, <1>8

(* A call goes on to its next stage, or is answered. *)
LEMMA CallMoves ==
    ASSUME AInv, NEW c \in Clients, NEW q \in Request,
           call' = [call EXCEPT ![c] = q], CallOK(q)',
           \A r \in Request : CallOK(r) => CallOK(r)'
    PROVE  /\ call' \in [Clients -> Request]
           /\ \A d \in Clients : CallOK(call[d])'
<1>1. call \in [Clients -> Request]
    BY DEF AInv, Typed
<1>2. call' \in [Clients -> Request]
    BY <1>1
<1>3. ASSUME NEW d \in Clients PROVE CallOK(call[d])'
    <2>1. CASE d = c
        <3>1. call'[d] = q
            BY <2>1, <1>1
        <3> QED BY <3>1 DEF CallOK
    <2>2. CASE d # c
        <3>1. call'[d] = call[d] /\ call[d] \in Request
            BY <2>2, <1>1
        <3>2. CallOK(call[d])
            BY DEF AInv
        <3>3. \A r \in Request : r = call[d] => CallOK(r)'
            BY <3>2
        <3> QED BY <3>1, <3>3 DEF CallOK
    <2> QED BY <2>1, <2>2
<1> QED BY <1>2, <1>3

(* The same when the database is left alone. *)
LEMMA DatabaseKept ==
    ASSUME AInv, UNCHANGED Database
    PROVE  /\ account' \in [Accounts -> {"none", "active", "inactive"}]
           /\ DOMAIN slug' = Workspaces
           /\ role' \in [Workspaces -> [Accounts -> Roles \cup {"none"}]]
           /\ OneOwner'
           /\ AccountHasWorkspace'
           /\ \A r \in Request : CallOK(r) => CallOK(r)'
BY DEF AInv, Typed, Database, OneOwner, Owners, AccountHasWorkspace, CallOK

LEMMA IdleOK == Idle \in Request /\ CallOK(Idle) /\ CallOK(Idle)'
BY DEF Idle, Request, OtherRequest, CallOK, MemberOps

-----------------------------------------------------------------------------
(* Tokens name accounts. *)
TokenOK == DOMAIN token = Tokens /\ \A t \in Tokens : token[t] = None \/ token[t].account \in Accounts

LEMMA IssueKeeps ==
    ASSUME AInv, NEW t \in Tokens, NEW a \in Accounts, Issue(t, a)
    PROVE  TokenOK'
<1>1. DOMAIN token' = Tokens
    BY DEF AInv, Typed, Issue
<1>2. ASSUME NEW u \in Tokens PROVE token'[u] = None \/ token'[u].account \in Accounts
    <2>1. CASE u = t
        <3>1. token'[u].account = a
            BY <2>1 DEF Issue, AInv, Typed
        <3> QED BY <3>1
    <2>2. CASE u # t
        <3>1. token'[u] = token[u]
            BY <2>2 DEF Issue, AInv, Typed
        <3> QED BY <3>1 DEF AInv, Typed
    <2> QED BY <2>1, <2>2
<1> QED BY <1>1, <1>2 DEF TokenOK

(* A step of a call that changes neither the database nor a token. *)
LEMMA StageKeeps ==
    ASSUME AInv, NEW c \in Clients, NEW q \in Request,
           UNCHANGED <<Database, token>>, call' = [call EXCEPT ![c] = q], CallOK(q)'
    PROVE  AInv'
<1>1. UNCHANGED Database /\ TokenOK'
    BY DEF TokenOK, AInv, Typed
<1>2. \A r \in Request : CallOK(r) => CallOK(r)'
    BY <1>1, DatabaseKept
<1>3. /\ call' \in [Clients -> Request]
      /\ \A d \in Clients : CallOK(call[d])'
    BY <1>2, CallMoves
<1> QED BY <1>1, <1>3, DatabaseKept DEF AInv, Typed, TokenOK

LEMMA AuthKeeps == AInv /\ AuthStep => AInv'
<1> SUFFICES ASSUME AInv, AuthStep PROVE AInv'
    OBVIOUS
<1> USE IdleOK
<1>1. ASSUME NEW c \in Clients, NEW a \in Accounts, NEW name \in Names, BeginRegister(c, a, name)
      PROVE  AInv'
    <2> DEFINE q == [op |-> "register", account |-> a, name |-> name]
    <2>1. q \in Request /\ CallOK(q)'
        BY DEF Request, OtherRequest, CallOK, MemberOps
    <2> HIDE DEF q
    <2>2. call' = [call EXCEPT ![c] = q] /\ UNCHANGED <<Database, token>>
        BY <1>1 DEF BeginRegister, Begin, Sessions, q
    <2> QED BY <2>1, <2>2, StageKeeps
<1>2. ASSUME NEW c \in Clients, NEW w \in Workspaces, NEW t \in Tokens, Register(c, w, t)
      PROVE  AInv'
    <2> DEFINE a == call[c].account
               s == Slug(call[c].name, a)
    <2>1. call[c] \in OtherRequest /\ call[c].op = "register"
        BY <1>2 DEF Register, AInv, Typed, Request, MemberRequest, WorkspaceRequest, MemberOps
    <2>2. a \in Accounts /\ call[c].name \in Names
        BY <2>1 DEF OtherRequest, Idle
    <2>3. s # None
        BY <2>2, NoneAssumption DEF Slug
    <2>4. call' = [call EXCEPT ![c] = Idle]
        BY <1>2 DEF Register, Answer
    <2>5. CASE account[a] = "none" /\ SlugFree(s)
        <3>1. account' = [account EXCEPT ![a] = "active"] /\ Found(w, s, a) /\ Issue(t, a)
            BY <1>2, <2>5 DEF Register
        <3>2. account' \in [Accounts -> {"none", "active", "inactive"}]
            BY <3>1, <2>2 DEF AInv, Typed
        <3> HIDE DEF a, s
        <3>3. /\ DOMAIN slug' = Workspaces
              /\ role' \in [Workspaces -> [Accounts -> Roles \cup {"none"}]]
              /\ OneOwner'
              /\ \A b \in Accounts, v \in Workspaces : b \in Owners(v) => b \in Owners(v)'
              /\ a \in Owners(w)'
              /\ \A r \in Request : CallOK(r) => CallOK(r)'
            BY <3>1, <2>2, <2>3, FoundKeeps
        <3>4. \A b \in Accounts \ {a} : account'[b] = account[b]
            BY <3>1 DEF AInv, Typed
        <3>5. AccountHasWorkspace'
            BY <3>3, <3>4 DEF AInv, AccountHasWorkspace
        <3>6. TokenOK'
            BY <3>1, <2>2, IssueKeeps
        <3>7. /\ call' \in [Clients -> Request]
              /\ \A d \in Clients : CallOK(call[d])'
            BY <2>4, <3>3, CallMoves
        <3> QED BY <3>2, <3>3, <3>5, <3>6, <3>7 DEF AInv, Typed, TokenOK
    <2>6. CASE ~ (account[a] = "none" /\ SlugFree(s))
        <3>1. UNCHANGED <<Database, token>>
            BY <1>2, <2>6 DEF Register
        <3> QED BY <3>1, <2>4, StageKeeps
    <2> QED BY <2>5, <2>6
<1>3. ASSUME NEW a \in Accounts, NEW t \in Tokens, Login(a, t)
      PROVE  AInv'
    <2>1. UNCHANGED Database /\ call' = call /\ TokenOK'
        BY <1>3, IssueKeeps DEF Login
    <2> QED BY <2>1, DatabaseKept DEF AInv, Typed, TokenOK, CallOK, Database
<1>4. ASSUME NEW c \in Clients, NEW t \in Tokens,
             Authenticate(c, t, [op |-> "logout", token |-> t])
      PROVE  AInv'
    <2> DEFINE q == [op |-> "logout", token |-> t]
    <2>1. q \in Request /\ CallOK(q)'
        BY DEF Request, OtherRequest, CallOK, MemberOps
    <2> HIDE DEF q
    <2>2. call' = [call EXCEPT ![c] = q] /\ UNCHANGED <<Database, token>>
        BY <1>4 DEF Authenticate, Begin, Sessions, q
    <2> QED BY <2>1, <2>2, StageKeeps
<1>5. ASSUME NEW c \in Clients, Logout(c)
      PROVE  AInv'
    <2>1. call' = [call EXCEPT ![c] = Idle] /\ UNCHANGED <<Database, token>>
        BY <1>5 DEF Logout, Answer
    <2> QED BY <2>1, StageKeeps
<1>6. ASSUME NEW a \in Accounts, SwitchAccount(a)
      PROVE  AInv'
    <2>1. /\ account' \in [Accounts -> {"none", "active", "inactive"}]
          /\ \A b \in Accounts : account'[b] = "none" <=> account[b] = "none"
        BY <1>6 DEF SwitchAccount, AInv, Typed
    <2>2. UNCHANGED <<slug, role, token, call>>
        BY <1>6 DEF SwitchAccount, Sessions
    <2>3. OneOwner' /\ AccountHasWorkspace'
        BY <2>1, <2>2 DEF AInv, OneOwner, AccountHasWorkspace, Owners
    <2> QED BY <2>1, <2>2, <2>3 DEF AInv, Typed, CallOK
<1> QED BY <1>1, <1>2, <1>3, <1>4, <1>5, <1>6 DEF AuthStep

LEMMA WorkspaceKeeps == AInv /\ WorkspaceStep => AInv'
<1> SUFFICES ASSUME AInv, WorkspaceStep PROVE AInv'
    OBVIOUS
<1> USE IdleOK
<1>i. ASSUME NEW c \in Clients, UNCHANGED <<Database, token>>, Answer(c)
      PROVE  AInv'
    BY <1>i, StageKeeps DEF Answer
<1>m. ASSUME NEW c \in Clients, call[c].op \in MemberOps
      PROVE  call[c] \in MemberRequest /\ CallOK(call[c])
    BY <1>m DEF AInv, Typed, Request, MemberOps, WorkspaceRequest, OtherRequest, Idle
<1>1. ASSUME NEW c \in Clients, NEW t \in Tokens, NEW name \in Names, token[t] # None,
             Authenticate(c, t, [op |-> "create", caller |-> token[t].account, name |-> name])
      PROVE  AInv'
    <2>1. token[t].account \in Accounts
        BY <1>1 DEF AInv, Typed
    <2>q. PICK q : q = [op |-> "create", caller |-> token[t].account, name |-> name]
        OBVIOUS
    <2>2. q \in Request /\ CallOK(q)'
        BY <2>1, <2>q DEF Request, OtherRequest, CallOK, MemberOps
    <2>3. call' = [call EXCEPT ![c] = q] /\ UNCHANGED <<Database, token>>
        BY <1>1, <2>q DEF Authenticate, Begin, Sessions
    <2> QED BY <2>2, <2>3, StageKeeps
<1>2. ASSUME NEW c \in Clients, NEW w \in Workspaces, CreateWorkspace(c, w)
      PROVE  AInv'
    <2> DEFINE a == call[c].caller
               s == Slug(call[c].name, a)
    <2>1. call[c] \in OtherRequest /\ call[c].op = "create"
        BY <1>2 DEF CreateWorkspace, AInv, Typed, Request, MemberRequest, WorkspaceRequest,
                    MemberOps
    <2>2. a \in Accounts /\ call[c].name \in Names
        BY <2>1 DEF OtherRequest, Idle
    <2>3. s # None
        BY <2>2, NoneAssumption DEF Slug
    <2>4. /\ call' = [call EXCEPT ![c] = Idle]
          /\ UNCHANGED <<account, token>>
        BY <1>2 DEF CreateWorkspace, Answer, Sessions
    <2>5. CASE SlugFree(s)
        <3>1. Found(w, s, a)
            BY <1>2, <2>5 DEF CreateWorkspace
        <3> HIDE DEF a, s
        <3>2. /\ DOMAIN slug' = Workspaces
              /\ role' \in [Workspaces -> [Accounts -> Roles \cup {"none"}]]
              /\ OneOwner'
              /\ \A b \in Accounts, v \in Workspaces : b \in Owners(v) => b \in Owners(v)'
              /\ \A r \in Request : CallOK(r) => CallOK(r)'
            BY <3>1, <2>2, <2>3, FoundKeeps
        <3>3. AccountHasWorkspace'
            BY <3>2, <2>4 DEF AInv, AccountHasWorkspace
        <3>4. /\ call' \in [Clients -> Request]
              /\ \A d \in Clients : CallOK(call[d])'
            BY <2>4, <3>2, CallMoves
        <3> QED BY <2>4, <3>2, <3>3, <3>4 DEF AInv, Typed
    <2>6. CASE ~ SlugFree(s)
        <3>1. UNCHANGED <<Database, token>>
            BY <1>2, <2>4, <2>6 DEF CreateWorkspace, Database
        <3> QED BY <3>1, <2>4, StageKeeps
    <2> QED BY <2>5, <2>6
<1>3. ASSUME NEW c \in Clients, NEW t \in Tokens, token[t] # None,
             NEW q \in MemberCalls(token[t].account), Authenticate(c, t, q)
      PROVE  AInv'
    <2>1. token[t].account \in Accounts
        BY <1>3 DEF AInv, Typed
    <2>2. call' = [call EXCEPT ![c] = q] /\ UNCHANGED <<Database, token>>
        BY <1>3 DEF Authenticate, Begin, Sessions
    <2>3. q \in Request
        BY <2>1, <1>3 DEF MemberCalls, Request, MemberRequest, WorkspaceRequest, MemberOps,
                          Existing
    <2>4. CallOK(q)'
        BY <2>2, <1>3 DEF MemberCalls, CallOK, Existing, MemberOps, Database
    <2> QED BY <2>2, <2>3, <2>4, StageKeeps
<1>4. ASSUME NEW c \in Clients, Authorise(c)
      PROVE  AInv'
    <2>q. PICK q : q = [call[c] EXCEPT !.stage = "authorised"]
        OBVIOUS
    <2>1. UNCHANGED <<Database, token>>
        BY <1>4 DEF Authorise, Sessions
    <2>2. CASE Answer(c)
        BY <2>1, <2>2, <1>i
    <2>3. CASE Proceed(c, q)
        <3>1. call[c] \in MemberRequest \/ call[c] \in WorkspaceRequest
            BY <1>4 DEF Authorise, AInv, Typed, Request, OtherRequest, Idle, MemberOps
        <3>2. q \in Request
            BY <3>1, <2>q DEF Request, MemberRequest, WorkspaceRequest
        <3>3. CallOK(call[c])
            BY DEF AInv
        <3>4. q.op = call[c].op /\ q.workspace = call[c].workspace /\ q.stage = "authorised"
            BY <3>1, <2>q DEF MemberRequest, WorkspaceRequest
        <3>5. CallOK(q)'
            BY <3>3, <3>4, <2>1 DEF CallOK, Database
        <3> QED BY <3>2, <3>5, <2>1, <2>3, StageKeeps DEF Proceed
    <2> QED BY <1>4, <2>2, <2>3, <2>q DEF Authorise
<1>5. ASSUME NEW c \in Clients, Handle(c)
      PROVE  AInv'
    <2>q. PICK q : q = [call[c] EXCEPT !.stage = "writing", !.seen = Target(c)]
        OBVIOUS
    <2>1. UNCHANGED <<Database, token>>
        BY <1>5 DEF Handle, Sessions
    <2>2. CASE Answer(c)
        BY <2>1, <2>2, <1>i
    <2>3. CASE MayHandle(c) /\ Proceed(c, q)
        <3>1. call[c] \in MemberRequest /\ CallOK(call[c]) /\ call[c].op \in MemberOps
            BY <1>5, <1>m DEF Handle
        <3>2. Target(c) \in Roles \cup {"none"}
            BY <3>1 DEF Target, MemberRequest, AInv, Typed
        <3>3. q \in MemberRequest
            BY <3>1, <3>2, <2>q DEF MemberRequest
        <3>4. /\ q.op = call[c].op /\ q.workspace = call[c].workspace
              /\ q.target = call[c].target /\ q.role = call[c].role
            BY <3>1, <2>q DEF MemberRequest
        <3>5. /\ q.op \in {"add", "update"} => q.role \in Grantable
              /\ q.op \in {"update", "remove"} => role[q.workspace][q.target] # "owner"
            BY <2>3, <3>1, <3>4 DEF MayHandle, Target, Grantable, MemberOps
        <3>6. CallOK(q)'
            BY <3>1, <3>4, <3>5, <2>1 DEF CallOK, Database
        <3> QED BY <3>3, <3>6, <2>1, <2>3, StageKeeps DEF Proceed, Request
    <2> QED BY <1>5, <2>2, <2>3, <2>q DEF Handle
<1>s. ASSUME NEW c \in Clients, NEW q \in Grantable \cup {"none"}, SetRole(c, q), Written(c),
             call[c].op \in MemberOps, Target(c) # "owner"
      PROVE  AInv'
    <2>1. call[c] \in MemberRequest /\ CallOK(call[c])
        BY <1>s, <1>m
    <2>2. /\ call[c].workspace \in Workspaces /\ call[c].target \in Accounts
          /\ slug[call[c].workspace] # None
        BY <2>1, <1>s DEF MemberRequest, CallOK
    <2>3. /\ role' = [role EXCEPT ![call[c].workspace][call[c].target] = q]
          /\ role[call[c].workspace][call[c].target] # "owner"
          /\ UNCHANGED <<slug, account, token>>
          /\ call' = [call EXCEPT ![c] = Idle]
        BY <1>s DEF SetRole, Target, Written, Answer, Sessions
    <2>4. /\ role' \in [Workspaces -> [Accounts -> Roles \cup {"none"}]]
          /\ OneOwner'
          /\ AccountHasWorkspace'
          /\ \A r \in Request : CallOK(r) => CallOK(r)'
        BY <2>2, <2>3, SetKeeps
    <2>5. /\ call' \in [Clients -> Request]
          /\ \A d \in Clients : CallOK(call[d])'
        BY <2>3, <2>4, CallMoves
    <2> QED BY <2>3, <2>4, <2>5 DEF AInv, Typed
<1>w. ASSUME NEW c \in Clients, UNCHANGED role, Written(c)
      PROVE  AInv'
    BY <1>w, <1>i DEF Written, Database, Sessions
<1>6. ASSUME NEW c \in Clients, CommitAdd(c)
      PROVE  AInv'
    <2>1. call[c].op = "add" /\ call[c].role \in Grantable /\ Written(c)
        BY <1>6, <1>m DEF CommitAdd, CallOK, MemberOps
    <2>2. CASE Target(c) = "none"
        BY <1>6, <2>1, <2>2, <1>s DEF CommitAdd, MemberOps
    <2>3. CASE Target(c) # "none"
        BY <1>6, <2>1, <2>3, <1>w DEF CommitAdd
    <2> QED BY <2>2, <2>3
<1>7. ASSUME NEW c \in Clients, CommitUpdate(c)
      PROVE  AInv'
    <2>1. /\ call[c].op = "update" /\ call[c].role \in Grantable /\ Written(c)
          /\ Target(c) # "owner"
        BY <1>7, <1>m DEF CommitUpdate, CallOK, MemberOps, Target
    <2>2. CASE SetRole(c, call[c].role)
        BY <2>1, <2>2, <1>s DEF MemberOps
    <2>3. CASE UNCHANGED role
        BY <2>1, <2>3, <1>w
    <2> QED BY <1>7, <2>2, <2>3 DEF CommitUpdate
<1>8. ASSUME NEW c \in Clients, CommitRemove(c)
      PROVE  AInv'
    <2>1. /\ call[c].op = "remove" /\ SetRole(c, "none") /\ Written(c)
          /\ Target(c) # "owner"
        BY <1>8, <1>m DEF CommitRemove, CallOK, MemberOps, Target
    <2> QED BY <2>1, <1>s DEF MemberOps
<1>9. ASSUME NEW c \in Clients, WorkspaceCallFails(c) \/ Abandon(c)
      PROVE  AInv'
    BY <1>9, <1>i DEF WorkspaceCallFails, Abandon, Sessions
<1> QED
    BY <1>1, <1>2, <1>3, <1>4, <1>5, <1>6, <1>7, <1>8, <1>9 DEF WorkspaceStep

(* AInv holds of every reachable state. *)
THEOREM AccessInvariance == Spec => []AInv
<1>1. AInv /\ [Next]_vars => AInv'
    <2> SUFFICES ASSUME AInv, [Next]_vars PROVE AInv'
        OBVIOUS
    <2>1. CASE AuthStep
        BY <2>1, AuthKeeps
    <2>2. CASE WorkspaceStep
        BY <2>2, WorkspaceKeeps
    <2>3. CASE Tick \/ UNCHANGED vars
        <3>1. UNCHANGED <<Database, token, call>>
            BY <2>3 DEF Tick, Sessions, vars, Database
        <3> QED BY <3>1, DatabaseKept DEF AInv, Typed, CallOK, Database
    <2> QED BY <2>1, <2>2, <2>3 DEF Next
<1> QED BY <1>1, InitAInv, PTL DEF Spec

(* remove_member and update_member_role never touch the owner's row, nor    *)
(* does any overlap of them leave a workspace without an owner or with two. *)
THEOREM OwnersAreUnique == Spec => []OneOwner
<1>1. AInv => OneOwner
    BY DEF AInv
<1> QED BY <1>1, AccessInvariance, PTL

(* register commits the account, its workspace and its membership at once,   *)
(* and nothing takes the workspace away later.                               *)
THEOREM AccountsOwn == Spec => []AccountHasWorkspace
<1>1. AInv => AccountHasWorkspace
    BY DEF AInv
<1> QED BY <1>1, AccessInvariance, PTL

(* A role in a workspace comes from an addition that is committed, so that a *)
(* change of role under way never brings back who was removed meanwhile.     *)
THEOREM OnlyAddingAdds == Spec => MembersComeByAdding
<1>1. ASSUME AInv, [Next]_vars, NEW w \in Workspaces, NEW a \in Accounts,
             role[w][a] = "none", role'[w][a] \in Grantable
      PROVE  \E c \in Clients : /\ call[c].op = "add" /\ call[c].stage = "writing"
                                /\ call[c].workspace = w /\ call[c].target = a
                                /\ call'[c] = Idle
    <2> DEFINE Goal == \E c \in Clients :
                            /\ call[c].op = "add" /\ call[c].stage = "writing"
                            /\ call[c].workspace = w /\ call[c].target = a
                            /\ call'[c] = Idle
    <2>t. /\ role \in [Workspaces -> [Accounts -> Roles \cup {"none"}]]
          /\ call \in [Clients -> Request]
        BY <1>1 DEF AInv, Typed
    <2>n. role' # role
        BY <1>1 DEF Grantable
    <2>1. ASSUME NEW v \in Workspaces, NEW s, NEW b, Found(v, s, b) PROVE FALSE
        <3>1. role'[w][a] = role[w][a] \/ role'[w][a] = "owner"
            BY <2>1, <2>t DEF Found
        <3> QED BY <3>1, <1>1 DEF Grantable
    <2>2. ASSUME NEW c \in Clients, NEW q, SetRole(c, q), call[c].op \in MemberOps
          PROVE  call[c].workspace = w /\ call[c].target = a /\ role'[w][a] = q
        BY <2>2, <2>t, <1>1 DEF SetRole, Grantable
    <2>3. CASE \E c \in Clients : CommitAdd(c)
        <3>1. PICK c \in Clients : CommitAdd(c)
            BY <2>3
        <3>2. SetRole(c, call[c].role) /\ call[c].op = "add" /\ call[c].stage = "writing"
            BY <3>1, <2>n DEF CommitAdd
        <3>3. call'[c] = Idle
            BY <3>1, <2>t DEF CommitAdd, Written, Answer
        <3> QED BY <3>2, <3>3, <2>2 DEF MemberOps
    <2>4. CASE \E c \in Clients : CommitUpdate(c)
        <3>1. PICK c \in Clients : CommitUpdate(c)
            BY <2>4
        <3>2. SetRole(c, call[c].role) /\ Target(c) # "none" /\ call[c].op = "update"
            BY <3>1, <2>n DEF CommitUpdate
        <3>3. call[c].workspace = w /\ call[c].target = a
            BY <3>2, <2>2 DEF MemberOps
        <3> QED BY <3>2, <3>3, <1>1 DEF Target
    <2>5. CASE \E c \in Clients : CommitRemove(c)
        <3>1. PICK c \in Clients : CommitRemove(c)
            BY <2>5
        <3>2. SetRole(c, "none") /\ call[c].op = "remove"
            BY <3>1 DEF CommitRemove
        <3>3. role'[w][a] = "none"
            BY <3>2, <2>2 DEF MemberOps
        <3> QED BY <3>3, <1>1 DEF Grantable
    <2>6. CASE AuthStep
        BY <2>6, <2>n, <2>1
        DEF AuthStep, BeginRegister, Register, Login, Authenticate, Logout, SwitchAccount,
            Database
    <2>7. CASE WorkspaceStep
        BY <2>7, <2>n, <2>1, <2>3, <2>4, <2>5
        DEF WorkspaceStep, Authenticate, CreateWorkspace, Authorise, Handle,
            WorkspaceCallFails, Abandon, Database
    <2>8. CASE Tick \/ UNCHANGED vars
        BY <2>8, <2>n DEF Tick, vars, Database
    <2> QED BY <1>1, <2>6, <2>7, <2>8 DEF Next
<1>2. AInv /\ [Next]_vars =>
        [\A w \in Workspaces, a \in Accounts :
            role[w][a] = "none" /\ role'[w][a] \in Grantable =>
              \E c \in Clients : /\ call[c].op = "add" /\ call[c].stage = "writing"
                                 /\ call[c].workspace = w /\ call[c].target = a
                                 /\ call'[c] = Idle]_role
    BY <1>1
<1> QED BY <1>2, AccessInvariance, PTL DEF Spec, MembersComeByAdding

-----------------------------------------------------------------------------
(* Logout: a token that was logged out is on the blocklist until the second   *)
(* before it expires, or that second has come already.                       *)
LastSecond(t) == (token[t].exp - 1) * TICKS

LInv ==
    /\ now \in Int
    /\ revoked \in [Tokens -> Int]
    /\ loggedOut \subseteq Tokens
    /\ \A t \in Tokens : token[t] = None \/ token[t].exp \in Int
    /\ \A c \in Clients : call[c].op = "logout" => token[call[c].token] # None
    /\ \A t \in loggedOut :
            token[t] # None /\ (revoked[t] > LastSecond(t) \/ now > LastSecond(t))

(* What \div leaves is less than the divisor. *)
LEMMA Quotient ==
    ASSUME NEW x \in Int, NEW d \in Nat \ {0}
    PROVE  /\ x \div d \in Int
           /\ x < (x \div d) * d + d
OBVIOUS

(* Whether the key is set or there is no whole second left for it.           *)
LEMMA TimeToLive ==
    ASSUME NEW exp \in Int, NEW n \in Int
    PROVE  LET ttl == (exp * TICKS - n) \div TICKS
           IN  /\ ttl * TICKS \in Int
               /\ n + ttl * TICKS > (exp - 1) * TICKS
               /\ ttl > 0 \/ n > (exp - 1) * TICKS
<1> USE TimeAssumption
<1> DEFINE ttl == (exp * TICKS - n) \div TICKS
<1>1. exp * TICKS \in Int /\ (exp - 1) * TICKS = exp * TICKS - TICKS
    OBVIOUS
<1>2. ttl \in Int /\ exp * TICKS - n < ttl * TICKS + TICKS
    BY <1>1, Quotient
<1> HIDE DEF ttl
<1>3. ttl * TICKS \in Int
    BY <1>2
<1>4. ttl > 0 \/ ttl * TICKS <= 0
    BY <1>2
<1>5. n + ttl * TICKS > (exp - 1) * TICKS
    BY <1>1, <1>2, <1>3
<1>6. ttl > 0 \/ n > (exp - 1) * TICKS
    BY <1>1, <1>2, <1>3, <1>4
<1> QED BY <1>3, <1>5, <1>6 DEF ttl

(* Calls that go on do not start a logout. *)
LEMMA LogoutsNamed ==
    ASSUME AInv, LInv, NEW c \in Clients, NEW q,
           \/ call' = call
           \/ call' = [call EXCEPT ![c] = q] /\ (q.op = "logout" => token'[q.token] # None),
           \A t \in Tokens : token[t] # None => token'[t] # None
    PROVE  \A d \in Clients : call'[d].op = "logout" => token'[call'[d].token] # None
<1> SUFFICES ASSUME NEW d \in Clients, call'[d].op = "logout"
             PROVE  token'[call'[d].token] # None
    OBVIOUS
<1>1. CASE call'[d] = call[d]
    <2>1. call[d] \in Request /\ call[d].op = "logout"
        BY <1>1 DEF AInv, Typed
    <2>2. call[d].token \in Tokens
        BY <2>1 DEF Request, MemberRequest, WorkspaceRequest, OtherRequest, MemberOps, Idle
    <2> QED BY <1>1, <2>1, <2>2 DEF LInv
<1>2. CASE call'[d] = q /\ (q.op = "logout" => token'[q.token] # None)
    BY <1>2
<1> QED BY <1>1, <1>2 DEF AInv, Typed

(* Steps that leave the sessions alone. *)
LEMMA QuietKeeps ==
    ASSUME AInv, LInv, UNCHANGED <<Sessions, now>>,
           \/ call' = call
           \/ \E c \in Clients, q \in Request :
                call' = [call EXCEPT ![c] = q] /\ (q.op = "logout" => token[q.token] # None)
    PROVE  LInv'
<1>1. UNCHANGED <<token, revoked, loggedOut, now>>
    BY DEF Sessions
<1>2. \A d \in Clients : call'[d].op = "logout" => token'[call'[d].token] # None
    <2>1. CASE call' = call
        BY <2>1, <1>1, LogoutsNamed
    <2>2. CASE \E c \in Clients, q \in Request :
                call' = [call EXCEPT ![c] = q] /\ (q.op = "logout" => token[q.token] # None)
        <3>1. PICK c \in Clients, q \in Request :
                call' = [call EXCEPT ![c] = q] /\ (q.op = "logout" => token[q.token] # None)
            BY <2>2
        <3> QED BY <3>1, <1>1, LogoutsNamed
    <2> QED BY <2>1, <2>2
<1> QED BY <1>1, <1>2 DEF LInv, LastSecond

(* A new token disturbs none of the others. *)
LEMMA NewTokenKeeps ==
    ASSUME AInv, LInv, NEW t \in Tokens, NEW a \in Accounts, Issue(t, a),
           UNCHANGED <<revoked, loggedOut, now>>,
           call' = call \/ \E c \in Clients : call' = [call EXCEPT ![c] = Idle]
    PROVE  LInv'
<1>1. /\ token[t] = None
      /\ \A u \in Tokens \ {t} : token'[u] = token[u]
      /\ token'[t].exp = (now + LIFETIME * TICKS) \div TICKS
    BY DEF Issue, AInv, Typed
<1>2. token'[t].exp \in Int
    <2>1. now + LIFETIME * TICKS \in Int
        BY TimeAssumption DEF LInv
    <2> QED BY <1>1, <2>1, TimeAssumption, Quotient
<1>3. \A u \in Tokens : token[u] # None => token'[u] # None
    BY <1>1
<1>4. \A d \in Clients : call'[d].op = "logout" => token'[call'[d].token] # None
    <2>1. Idle.op # "logout"
        BY DEF Idle
    <2> QED BY <2>1, <1>3, LogoutsNamed
<1>5. \A u \in loggedOut : u \in Tokens \ {t}
    BY <1>1 DEF LInv
<1>6. \A u \in loggedOut : token'[u] # None /\ (revoked[u] > LastSecond(u)' \/ now > LastSecond(u)')
    BY <1>1, <1>5 DEF LInv, LastSecond
<1> QED BY <1>1, <1>2, <1>4, <1>6 DEF LInv, LastSecond

LEMMA LogoutKeeps ==
    ASSUME AInv, LInv, NEW c \in Clients, Logout(c)
    PROVE  LInv'
<1> DEFINE t == call[c].token
           ttl == (token[t].exp * TICKS - now) \div TICKS
<1>1. /\ call[c].op = "logout"
      /\ revoked' = [revoked EXCEPT ![t] = IF ttl > 0 THEN now + ttl * TICKS ELSE @]
      /\ loggedOut' = loggedOut \cup {t}
      /\ call' = [call EXCEPT ![c] = Idle]
      /\ UNCHANGED <<token, now>>
    BY DEF Logout, Answer
<1>2. t \in Tokens
    BY <1>1 DEF AInv, Typed, Request, MemberRequest, WorkspaceRequest, OtherRequest, MemberOps,
                Idle
<1>3. token[t] # None /\ token[t].exp \in Int /\ now \in Int
    BY <1>1, <1>2 DEF LInv
<1>4. /\ ttl * TICKS \in Int
      /\ now + ttl * TICKS > LastSecond(t)
      /\ ttl > 0 \/ now > LastSecond(t)
    BY <1>3, TimeToLive DEF LastSecond
<1>5. \A d \in Clients : call'[d].op = "logout" => token'[call'[d].token] # None
    <2>1. Idle.op # "logout"
        BY DEF Idle
    <2> QED BY <2>1, <1>1, LogoutsNamed
<1> HIDE DEF t, ttl
<1>6. revoked' \in [Tokens -> Int]
    BY <1>1, <1>2, <1>3, <1>4 DEF LInv
<1>7. revoked'[t] > LastSecond(t) \/ now > LastSecond(t)
    BY <1>1, <1>2, <1>4 DEF LInv
<1>8. ASSUME NEW u \in loggedOut'
      PROVE  token[u] # None /\ (revoked'[u] > LastSecond(u) \/ now > LastSecond(u))
    <2>1. CASE u = t
        BY <2>1, <1>3, <1>7
    <2>2. CASE u # t
        <3>1. u \in loggedOut /\ revoked'[u] = revoked[u]
            BY <2>2, <1>1 DEF LInv
        <3> QED BY <3>1 DEF LInv
    <2> QED BY <2>1, <2>2
<1>9. loggedOut' \subseteq Tokens
    BY <1>1, <1>2 DEF LInv
<1> QED BY <1>1, <1>3, <1>5, <1>6, <1>8, <1>9 DEF LInv, LastSecond

LEMMA LInvStep == AInv /\ LInv /\ [Next]_vars => LInv'
<1> SUFFICES ASSUME AInv, LInv, [Next]_vars PROVE LInv'
    OBVIOUS
<1> USE IdleOK DEF Idle
<1>i. ASSUME NEW c \in Clients, UNCHANGED <<Sessions, now>>, Answer(c)
      PROVE  LInv'
    BY <1>i, QuietKeeps DEF Answer
<1>1. ASSUME NEW c \in Clients, NEW a \in Accounts, NEW name \in Names, BeginRegister(c, a, name)
      PROVE  LInv'
    <2>1. PICK q : q = [op |-> "register", account |-> a, name |-> name]
        OBVIOUS
    <2>2. q \in Request /\ q.op # "logout"
        BY <2>1 DEF Request, OtherRequest
    <2> QED BY <1>1, <2>1, <2>2, QuietKeeps DEF BeginRegister, Begin
<1>2. ASSUME NEW c \in Clients, NEW w \in Workspaces, NEW t \in Tokens, Register(c, w, t)
      PROVE  LInv'
    <2>1. call[c] \in OtherRequest /\ call[c].op = "register"
        BY <1>2 DEF Register, AInv, Typed, Request, MemberRequest, WorkspaceRequest, MemberOps
    <2>2. call[c].account \in Accounts
        BY <2>1 DEF OtherRequest
    <2>3. /\ UNCHANGED <<revoked, loggedOut, now>>
          /\ call' = [call EXCEPT ![c] = Idle]
        BY <1>2 DEF Register, Answer
    <2>4. token' = token \/ Issue(t, call[c].account)
        BY <1>2 DEF Register
    <2>5. PICK a \in Accounts : a = call[c].account
        BY <2>2
    <2>6. CASE Issue(t, a)
        BY <2>3, <2>6, NewTokenKeeps
    <2>7. CASE token' = token
        BY <2>3, <2>7, <1>i DEF Sessions, Answer
    <2> QED BY <2>4, <2>5, <2>6, <2>7
<1>3. ASSUME NEW a \in Accounts, NEW t \in Tokens, Login(a, t)
      PROVE  LInv'
    BY <1>3, NewTokenKeeps DEF Login
<1>4. ASSUME NEW c \in Clients, NEW t \in Tokens,
             Authenticate(c, t, [op |-> "logout", token |-> t])
      PROVE  LInv'
    <2>1. PICK q : q = [op |-> "logout", token |-> t]
        OBVIOUS
    <2>2. q \in Request /\ q.token = t /\ token[t] # None
        BY <2>1, <1>4 DEF Request, OtherRequest, Authenticate, Accepted, Valid
    <2> QED BY <1>4, <2>1, <2>2, QuietKeeps DEF Authenticate, Begin
<1>5. ASSUME NEW a \in Accounts, SwitchAccount(a)
      PROVE  LInv'
    BY <1>5, QuietKeeps DEF SwitchAccount
<1>6. CASE AuthStep
    BY <1>6, <1>1, <1>2, <1>3, <1>4, <1>5, LogoutKeeps DEF AuthStep
<1>7. ASSUME NEW c \in Clients, NEW t \in Tokens, NEW name \in Names, token[t] # None,
             Authenticate(c, t, [op |-> "create", caller |-> token[t].account, name |-> name])
      PROVE  LInv'
    <2>1. PICK q : q = [op |-> "create", caller |-> token[t].account, name |-> name]
        OBVIOUS
    <2>2. token[t].account \in Accounts
        BY <1>7 DEF AInv, Typed
    <2>3. q \in Request /\ q.op # "logout"
        BY <2>1, <2>2 DEF Request, OtherRequest
    <2> QED BY <1>7, <2>1, <2>3, QuietKeeps DEF Authenticate, Begin
<1>8. ASSUME NEW c \in Clients, NEW t \in Tokens, token[t] # None,
             NEW q \in MemberCalls(token[t].account), Authenticate(c, t, q)
      PROVE  LInv'
    <2>1. token[t].account \in Accounts
        BY <1>8 DEF AInv, Typed
    <2>2. q \in Request /\ q.op # "logout"
        BY <2>1, <1>8 DEF MemberCalls, Request, MemberRequest, WorkspaceRequest, MemberOps,
                          Existing
    <2> QED BY <1>8, <2>2, QuietKeeps DEF Authenticate, Begin
<1>9. ASSUME NEW c \in Clients, NEW q, Proceed(c, q), UNCHANGED <<Sessions, now>>,
             q.op # "logout", q \in Request
      PROVE  LInv'
    BY <1>9, QuietKeeps DEF Proceed
<1>10. ASSUME NEW c \in Clients, Authorise(c)
       PROVE  LInv'
    <2>1. PICK q : q = [call[c] EXCEPT !.stage = "authorised"]
        OBVIOUS
    <2>2. call[c] \in MemberRequest \/ call[c] \in WorkspaceRequest
        BY <1>10 DEF Authorise, AInv, Typed, Request, OtherRequest, MemberOps
    <2>3. q \in Request /\ q.op # "logout"
        BY <2>1, <2>2 DEF Request, MemberRequest, WorkspaceRequest, MemberOps
    <2> QED BY <1>10, <2>1, <2>3, <1>9, <1>i DEF Authorise
<1>11. ASSUME NEW c \in Clients, Handle(c)
       PROVE  LInv'
    <2>1. PICK q : q = [call[c] EXCEPT !.stage = "writing", !.seen = Target(c)]
        OBVIOUS
    <2>2. call[c] \in MemberRequest
        BY <1>11 DEF Handle, AInv, Typed, Request, WorkspaceRequest, OtherRequest, MemberOps
    <2>3. Target(c) \in Roles \cup {"none"}
        BY <2>2 DEF Target, MemberRequest, AInv, Typed
    <2>4. q \in Request /\ q.op # "logout"
        BY <2>1, <2>2, <2>3 DEF Request, MemberRequest, MemberOps
    <2> QED BY <1>11, <2>1, <2>4, <1>9, <1>i DEF Handle
<1>12. CASE WorkspaceStep
    <2>1. ASSUME NEW c \in Clients,
                 \/ \E w \in Workspaces : CreateWorkspace(c, w)
                 \/ CommitAdd(c) \/ CommitUpdate(c) \/ CommitRemove(c)
                 \/ WorkspaceCallFails(c) \/ Abandon(c)
          PROVE  LInv'
        BY <2>1, <1>i
        DEF CreateWorkspace, CommitAdd, CommitUpdate, CommitRemove, WorkspaceCallFails,
            Abandon, Written
    <2> QED BY <1>12, <2>1, <1>7, <1>8, <1>10, <1>11 DEF WorkspaceStep
<1>13. CASE Tick
    <2>1. now' = now + 1 /\ UNCHANGED <<token, revoked, loggedOut, call>>
        BY <1>13 DEF Tick, Sessions
    <2>2. \A t \in loggedOut : LastSecond(t) \in Int
        BY TimeAssumption DEF LInv, LastSecond
    <2>3. ASSUME NEW t \in loggedOut
          PROVE  token[t] # None /\ (revoked[t] > LastSecond(t) \/ now + 1 > LastSecond(t))
        BY <2>2 DEF LInv
    <2> QED BY <2>1, <2>3 DEF LInv, LastSecond
<1>14. CASE UNCHANGED vars
    BY <1>14, QuietKeeps DEF vars, Sessions
<1> QED BY <1>6, <1>12, <1>13, <1>14 DEF Next

(* logout puts the token on the blocklist for the whole seconds up to exp;   *)
(* only from a second before exp on may get_current_user accept it again.    *)
THEOREM LogoutIsKept == Spec => []LogoutHolds
<1>1. Init => LInv
    <2> SUFFICES ASSUME Init PROVE LInv
        OBVIOUS
    <2>1. /\ token = [t \in Tokens |-> None] /\ revoked = [t \in Tokens |-> 0]
          /\ loggedOut = {} /\ now = 0 /\ call = [c \in Clients |-> Idle]
        BY DEF Init
    <2>2. Idle.op # "logout"
        BY DEF Idle
    <2> QED BY <2>1, <2>2 DEF LInv
<1>2. LInv => LogoutHolds
    <2> SUFFICES ASSUME LInv, NEW t \in loggedOut, now <= LastSecond(t) PROVE ~Accepted(t)
        BY DEF LogoutHolds, LastSecond
    <2>1. LastSecond(t) \in Int /\ revoked[t] \in Int /\ now \in Int
        BY TimeAssumption DEF LInv, LastSecond
    <2> QED BY <2>1 DEF LInv, Accepted
<1> QED BY <1>1, <1>2, LInvStep, AccessInvariance, PTL DEF Spec

-----------------------------------------------------------------------------
(* What a call that is about to change or take away a role has read. *)
SeenOK(q) == q.op \in {"update", "remove"} /\ q.stage = "writing" => q.seen \in Grantable

CountersOK == now \in 0..MaxTime /\ calls \in 0..MaxCalls

BInv ==
    /\ CountersOK
    /\ revoked \in [Tokens -> Nat]
    /\ \A c \in Clients : SeenOK(call[c])

LEMMA SeenKept ==
    ASSUME AInv, BInv,
           call' = call \/ \E c \in Clients : \E q : call' = [call EXCEPT ![c] = q] /\ SeenOK(q)
    PROVE  \A d \in Clients : SeenOK(call'[d])
<1>1. CASE call' = call
    BY <1>1 DEF BInv
<1>2. CASE \E c \in Clients : \E q : call' = [call EXCEPT ![c] = q] /\ SeenOK(q)
    <2>1. PICK c \in Clients : \E q : call' = [call EXCEPT ![c] = q] /\ SeenOK(q)
        BY <1>2
    <2>2. PICK q : call' = [call EXCEPT ![c] = q] /\ SeenOK(q)
        BY <2>1
    <2>3. ASSUME NEW d \in Clients PROVE call'[d] = call[d] \/ call'[d] = q
        BY <2>2 DEF AInv, Typed
    <2> QED BY <2>2, <2>3 DEF BInv
<1> QED BY <1>1, <1>2

LEMMA SeenIdle == SeenOK(Idle)
BY DEF SeenOK, Idle

(* How each step leaves the counters, the blocklist and the calls. *)
LEMMA StepKinds ==
    ASSUME AInv, LInv, BInv, Next
    PROVE  /\ CountersOK'
           /\ revoked' = revoked \/ \E c \in Clients : Logout(c)
           /\ call' = call \/ \E c \in Clients : \E q : call' = [call EXCEPT ![c] = q] /\ SeenOK(q)
<1> DEFINE Moves == call' = call \/ \E c \in Clients : \E q :
                        call' = [call EXCEPT ![c] = q] /\ SeenOK(q)
           Goal == CountersOK' /\ (revoked' = revoked \/ \E c \in Clients : Logout(c)) /\ Moves
<1> SUFFICES Goal
    OBVIOUS
<1> USE CallsAssumption, TimeAssumption
<1>b. ASSUME NEW c \in Clients, NEW q, Begin(c, q), SeenOK(q), UNCHANGED <<Sessions, now>>
      PROVE  Goal
    <2>1. CountersOK'
        BY <1>b DEF Begin, BInv, CountersOK
    <2> QED BY <1>b, <2>1 DEF Begin, Sessions
<1>a. ASSUME NEW c \in Clients, Answer(c), UNCHANGED <<now, calls>>,
             revoked' = revoked \/ Logout(c)
      PROVE  Goal
    <2>1. CountersOK'
        BY <1>a DEF BInv, CountersOK
    <2> QED BY <1>a, <2>1, SeenIdle DEF Answer
<1>p. ASSUME NEW c \in Clients, NEW q, Proceed(c, q), SeenOK(q), UNCHANGED <<Sessions, now, calls>>
      PROVE  Goal
    <2>1. CountersOK'
        BY <1>p DEF BInv, CountersOK
    <2> QED BY <1>p, <2>1 DEF Proceed, Sessions
<1>1. ASSUME NEW c \in Clients, NEW a \in Accounts, NEW name \in Names, BeginRegister(c, a, name)
      PROVE  Goal
    <2> DEFINE q == [op |-> "register", account |-> a, name |-> name]
    <2>1. SeenOK(q)
        BY DEF SeenOK
    <2>2. Begin(c, q) /\ UNCHANGED <<Sessions, now>>
        BY <1>1 DEF BeginRegister
    <2> HIDE DEF q, Goal
    <2> QED BY <1>b, <2>1, <2>2
<1>2. ASSUME NEW c \in Clients, NEW t \in Tokens, NEW q, Authenticate(c, t, q), SeenOK(q)
      PROVE  Goal
    <2>1. Begin(c, q) /\ UNCHANGED <<Sessions, now>>
        BY <1>2 DEF Authenticate
    <2> HIDE DEF Goal
    <2> QED BY <1>b, <1>2, <2>1
<1>4. CASE AuthStep
    <2>1. ASSUME NEW c \in Clients, NEW w \in Workspaces, NEW t \in Tokens, Register(c, w, t)
          PROVE  Goal
        <3>1. Answer(c) /\ UNCHANGED <<now, calls, revoked>>
            BY <2>1 DEF Register
        <3> HIDE DEF Goal
        <3> QED BY <1>a, <3>1
    <2>2. ASSUME NEW a \in Accounts, NEW t \in Tokens, Login(a, t) PROVE Goal
        BY <2>2 DEF Login, BInv, CountersOK
    <2>3. ASSUME NEW c \in Clients, NEW t \in Tokens,
                 Authenticate(c, t, [op |-> "logout", token |-> t])
          PROVE  Goal
        <3>1. SeenOK([op |-> "logout", token |-> t])
            BY DEF SeenOK
        <3> HIDE DEF Goal
        <3> QED BY <1>2, <2>3, <3>1
    <2>4. ASSUME NEW c \in Clients, Logout(c) PROVE Goal
        <3>1. Answer(c) /\ UNCHANGED <<now, calls>>
            BY <2>4 DEF Logout
        <3> HIDE DEF Goal
        <3> QED BY <1>a, <2>4, <3>1
    <2>5. ASSUME NEW a \in Accounts, SwitchAccount(a) PROVE Goal
        BY <2>5 DEF SwitchAccount, Sessions, BInv, CountersOK
    <2> HIDE DEF Goal
    <2> QED BY <1>1, <1>4, <2>1, <2>2, <2>3, <2>4, <2>5 DEF AuthStep
<1>5. CASE WorkspaceStep
    <2>1. ASSUME NEW c \in Clients, NEW t \in Tokens, NEW name \in Names,
                 Authenticate(c, t, [op |-> "create", caller |-> token[t].account, name |-> name])
          PROVE  Goal
        <3>1. PICK q : q = [op |-> "create", caller |-> token[t].account, name |-> name]
            OBVIOUS
        <3>2. SeenOK(q)
            BY <3>1 DEF SeenOK
        <3> HIDE DEF Goal
        <3> QED BY <1>2, <2>1, <3>1, <3>2
    <2>2. ASSUME NEW c \in Clients, NEW t \in Tokens, NEW q \in MemberCalls(token[t].account),
                 Authenticate(c, t, q)
          PROVE  Goal
        <3>1. SeenOK(q)
            BY DEF SeenOK, MemberCalls
        <3> HIDE DEF Goal
        <3> QED BY <1>2, <2>2, <3>1
    <2>3. ASSUME NEW c \in Clients, NEW w \in Workspaces, CreateWorkspace(c, w) PROVE Goal
        <3>1. Answer(c) /\ UNCHANGED <<now, calls, revoked>>
            BY <2>3 DEF CreateWorkspace, Sessions
        <3> HIDE DEF Goal
        <3> QED BY <1>a, <3>1
    <2>4. ASSUME NEW c \in Clients, Authorise(c) PROVE Goal
        <3>1. PICK q : q = [call[c] EXCEPT !.stage = "authorised"]
            OBVIOUS
        <3>2. call[c] \in MemberRequest \/ call[c] \in WorkspaceRequest
            BY <2>4 DEF Authorise, AInv, Typed, Request, OtherRequest, MemberOps, Idle
        <3>3. q.stage = "authorised"
            BY <3>1, <3>2 DEF MemberRequest, WorkspaceRequest
        <3>4. SeenOK(q)
            BY <3>3 DEF SeenOK
        <3>5. CASE Proceed(c, q)
            <4>1. UNCHANGED <<Sessions, now, calls>>
                BY <2>4 DEF Authorise
            <4> HIDE DEF Goal
            <4> QED BY <1>p, <3>4, <3>5, <4>1
        <3>6. CASE Answer(c)
            <4>1. UNCHANGED <<now, calls, revoked>>
                BY <2>4 DEF Authorise, Sessions
            <4> HIDE DEF Goal
            <4> QED BY <1>a, <3>6, <4>1
        <3> QED BY <2>4, <3>1, <3>5, <3>6 DEF Authorise
    <2>5. ASSUME NEW c \in Clients, Handle(c) PROVE Goal
        <3>1. PICK q : q = [call[c] EXCEPT !.stage = "writing", !.seen = Target(c)]
            OBVIOUS
        <3>2. call[c] \in MemberRequest
            BY <2>5 DEF Handle, AInv, Typed, Request, WorkspaceRequest, OtherRequest, MemberOps, Idle
        <3>3. q.op = call[c].op /\ q.seen = Target(c)
            BY <3>1, <3>2 DEF MemberRequest
        <3>4. MayHandle(c) => SeenOK(q)
            BY <3>3 DEF SeenOK, MayHandle
        <3>5. CASE MayHandle(c)
            <4>1. Proceed(c, q) /\ UNCHANGED <<Sessions, now, calls>>
                BY <2>5, <3>1, <3>5 DEF Handle
            <4> HIDE DEF Goal
            <4> QED BY <1>p, <3>4, <3>5, <4>1
        <3>6. CASE ~MayHandle(c)
            <4>1. Answer(c) /\ UNCHANGED <<now, calls, revoked>>
                BY <2>5, <3>6 DEF Handle, Sessions
            <4> HIDE DEF Goal
            <4> QED BY <1>a, <4>1
        <3> QED BY <3>5, <3>6
    <2>6. ASSUME NEW c \in Clients,
                 \/ CommitAdd(c) \/ CommitUpdate(c) \/ CommitRemove(c)
                 \/ WorkspaceCallFails(c) \/ Abandon(c)
          PROVE  Goal
        <3>1. Answer(c) /\ UNCHANGED <<now, calls, revoked>>
            BY <2>6 DEF CommitAdd, CommitUpdate, CommitRemove, WorkspaceCallFails, Abandon,
                        Written, Sessions
        <3> HIDE DEF Goal
        <3> QED BY <1>a, <3>1
    <2> HIDE DEF Goal
    <2> QED BY <1>5, <2>1, <2>2, <2>3, <2>4, <2>5, <2>6 DEF WorkspaceStep
<1>6. CASE Tick
    BY <1>6 DEF Tick, Sessions, BInv, CountersOK
<1> QED BY <1>4, <1>5, <1>6 DEF Next

LEMMA BInvStep == AInv /\ LInv /\ BInv /\ [Next]_vars => BInv'
<1> SUFFICES ASSUME AInv, LInv, BInv, [Next]_vars PROVE BInv'
    OBVIOUS
<1>1. CASE UNCHANGED vars
    BY <1>1 DEF vars, BInv, CountersOK
<1>2. CASE Next
    <2>1. /\ CountersOK'
          /\ revoked' = revoked \/ \E c \in Clients : Logout(c)
          /\ \A c \in Clients : SeenOK(call'[c])
        BY <1>2, StepKinds, SeenKept
    <2>2. ASSUME NEW c \in Clients, Logout(c) PROVE revoked' \in [Tokens -> Nat]
        <3> DEFINE t == call[c].token
                   ttl == (token[t].exp * TICKS - now) \div TICKS
        <3>1. revoked' = [revoked EXCEPT ![t] = IF ttl > 0 THEN now + ttl * TICKS ELSE @]
            BY <2>2 DEF Logout
        <3>2. t \in Tokens
            BY <2>2 DEF Logout, AInv, Typed, Request, MemberRequest, WorkspaceRequest,
                        OtherRequest, MemberOps, Idle
        <3>3. token[t].exp \in Int /\ now \in Nat
            BY <2>2, <3>2, TimeAssumption DEF Logout, LInv, BInv, CountersOK
        <3>4. ttl \in Int
            <4>1. token[t].exp * TICKS - now \in Int
                BY <3>3, TimeAssumption
            <4> QED BY <4>1, TimeAssumption, Quotient
        <3> HIDE DEF t, ttl
        <3>5. ttl > 0 => now + ttl * TICKS \in Nat
            <4>1. ASSUME ttl > 0 PROVE ttl * TICKS \in Nat
                BY <3>4, <4>1, TimeAssumption
            <4> QED BY <3>3, <4>1
        <3> QED BY <3>1, <3>2, <3>5 DEF BInv
    <2> QED BY <2>1, <2>2 DEF BInv
<1> QED BY <1>1, <1>2

(* Accounts, roles, tokens, the blocklist and the calls hold what they are   *)
(* declared to hold, and a change or removal that is about to be written has *)
(* seen a role that can be granted: never the owner's, never nobody's.       *)
THEOREM AccessTypeCorrect == Spec => []TypeOK
<1>1. Init => LInv /\ BInv
    <2> SUFFICES ASSUME Init PROVE LInv /\ BInv
        OBVIOUS
    <2>1. /\ token = [t \in Tokens |-> None] /\ revoked = [t \in Tokens |-> 0]
          /\ loggedOut = {} /\ now = 0 /\ calls = 0 /\ call = [c \in Clients |-> Idle]
        BY DEF Init
    <2>2. Idle.op # "logout"
        BY DEF Idle
    <2>3. LInv
        BY <2>1, <2>2 DEF LInv
    <2>4. BInv
        BY <2>1, SeenIdle, TimeAssumption, CallsAssumption DEF BInv, CountersOK
    <2> QED BY <2>3, <2>4
<1>2. AInv /\ LInv /\ BInv => TypeOK
    BY DEF AInv, Typed, LInv, BInv, CountersOK, SeenOK, TypeOK
<1> QED BY <1>1, <1>2, LInvStep, BInvStep, AccessInvariance, PTL DEF Spec

-----------------------------------------------------------------------------
(* Tokens, calls that create a workspace and additions about to be written   *)
(* are of accounts that exist.                                               *)
AccountOK(q) ==
    /\ q.op = "create" => q.caller \in Accounts /\ account[q.caller] # "none"
    /\ q.op = "add" /\ q.stage = "writing" => q.target \in Accounts /\ account[q.target] # "none"

MInv ==
    /\ \A t \in Tokens : token[t] # None => account[token[t].account] # "none"
    /\ \A c \in Clients : AccountOK(call[c])

AccountsStay == \A a \in Accounts : account[a] # "none" => account'[a] # "none"

LEMMA NoAccountGoes ==
    ASSUME AInv, [Next]_vars
    PROVE  AccountsStay
<1>t. account \in [Accounts -> {"none", "active", "inactive"}]
    BY DEF AInv, Typed
<1>1. ASSUME UNCHANGED account PROVE AccountsStay
    BY <1>1 DEF AccountsStay
<1>2. ASSUME NEW c \in Clients, NEW w \in Workspaces, NEW t \in Tokens, Register(c, w, t)
      PROVE  AccountsStay
    BY <1>2, <1>t DEF Register, AccountsStay, Database
<1>3. ASSUME NEW a \in Accounts, SwitchAccount(a) PROVE AccountsStay
    BY <1>3, <1>t DEF SwitchAccount, AccountsStay
<1>4. CASE AuthStep
    BY <1>4, <1>1, <1>2, <1>3
    DEF AuthStep, BeginRegister, Login, Authenticate, Logout, Database
<1>5. CASE WorkspaceStep
    BY <1>5, <1>1
    DEF WorkspaceStep, Authenticate, CreateWorkspace, Authorise, Handle, CommitAdd, CommitUpdate,
        CommitRemove, Written, WorkspaceCallFails, Abandon, Database
<1>6. CASE Tick \/ UNCHANGED vars
    BY <1>6, <1>1 DEF Tick, vars, Database
<1> QED BY <1>4, <1>5, <1>6 DEF Next

LEMMA AccountCalls ==
    ASSUME AInv, MInv, AccountsStay,
           call' = call \/ \E c \in Clients : \E q : call' = [call EXCEPT ![c] = q] /\ AccountOK(q)
    PROVE  \A d \in Clients : AccountOK(call[d])'
<1> SUFFICES ASSUME NEW d \in Clients, NEW r, r = call'[d] PROVE AccountOK(r)'
    OBVIOUS
<1>1. AccountOK(r)
    <2>1. CASE call' = call
        BY <2>1 DEF MInv
    <2>2. CASE \E c \in Clients : \E q : call' = [call EXCEPT ![c] = q] /\ AccountOK(q)
        <3>1. PICK c \in Clients : \E q : call' = [call EXCEPT ![c] = q] /\ AccountOK(q)
            BY <2>2
        <3>2. PICK q : call' = [call EXCEPT ![c] = q] /\ AccountOK(q)
            BY <3>1
        <3>3. call'[d] = call[d] \/ call'[d] = q
            BY <3>2 DEF AInv, Typed
        <3> QED BY <3>2, <3>3 DEF MInv
    <2> QED BY <2>1, <2>2
<1> QED BY <1>1 DEF AccountOK, AccountsStay

LEMMA MInvStep == AInv /\ MInv /\ [Next]_vars => MInv'
<1> SUFFICES ASSUME AInv, MInv, [Next]_vars PROVE MInv'
    OBVIOUS
<1>s. AccountsStay
    BY NoAccountGoes
<1>i. AccountOK(Idle)
    BY DEF AccountOK, Idle
<1>t. ASSUME token' = token PROVE \A t \in Tokens : token'[t] # None => account'[token'[t].account] # "none"
    BY <1>t, <1>s DEF AInv, Typed, MInv, AccountsStay
<1>n. ASSUME NEW t \in Tokens, NEW a \in Accounts, Issue(t, a), account'[a] # "none"
      PROVE  \A u \in Tokens : token'[u] # None => account'[token'[u].account] # "none"
    <2>1. token'[t].account = a /\ \A u \in Tokens \ {t} : token'[u] = token[u]
        BY <1>n DEF Issue, AInv, Typed
    <2> QED BY <2>1, <1>n, <1>s DEF AInv, Typed, MInv, AccountsStay
<1>c. ASSUME token' = token,
             \/ call' = call
             \/ \E c \in Clients : \E q : call' = [call EXCEPT ![c] = q] /\ AccountOK(q)
      PROVE  MInv'
    BY <1>c, <1>t, <1>s, AccountCalls DEF MInv
<1>a. ASSUME token' = token, NEW c \in Clients, Answer(c) PROVE MInv'
    BY <1>a, <1>c, <1>i DEF Answer
<1>1. ASSUME NEW c \in Clients, NEW a \in Accounts, NEW name \in Names, BeginRegister(c, a, name)
      PROVE  MInv'
    <2>1. PICK q : q = [op |-> "register", account |-> a, name |-> name]
        OBVIOUS
    <2>2. AccountOK(q)
        BY <2>1 DEF AccountOK
    <2> QED BY <1>1, <1>c, <2>1, <2>2 DEF BeginRegister, Begin, Sessions
<1>2. ASSUME NEW c \in Clients, NEW w \in Workspaces, NEW t \in Tokens, Register(c, w, t)
      PROVE  MInv'
    <2>1. Answer(c)
        BY <1>2 DEF Register
    <2>2. \A d \in Clients : AccountOK(call[d])'
        BY <1>s, <1>i, <2>1, AccountCalls DEF Answer
    <2>3. PICK a : a = call[c].account
        OBVIOUS
    <2>4. a \in Accounts
        BY <1>2, <2>3 DEF Register, AInv, Typed, Request, MemberRequest, WorkspaceRequest,
                          OtherRequest, MemberOps, Idle
    <2>5. token' = token \/ (Issue(t, a) /\ account' = [account EXCEPT ![a] = "active"])
        BY <1>2, <2>3 DEF Register
    <2>6. Issue(t, a) /\ account' = [account EXCEPT ![a] = "active"] => account'[a] # "none"
        BY <2>4 DEF AInv, Typed
    <2> QED BY <1>t, <1>n, <2>2, <2>4, <2>5, <2>6 DEF MInv
<1>3. ASSUME NEW a \in Accounts, NEW t \in Tokens, Login(a, t) PROVE MInv'
    <2>1. account' = account /\ account[a] # "none" /\ Issue(t, a) /\ call' = call
        BY <1>3 DEF Login, Database
    <2>2. \A d \in Clients : AccountOK(call[d])'
        BY <1>s, <2>1, AccountCalls
    <2> QED BY <1>n, <2>1, <2>2 DEF MInv
<1>4. ASSUME NEW c \in Clients, NEW t \in Tokens, NEW q, Authenticate(c, t, q), AccountOK(q)
      PROVE  MInv'
    BY <1>4, <1>c DEF Authenticate, Begin, Sessions
<1>5. ASSUME NEW t \in Tokens, token[t] # None
      PROVE  token[t].account \in Accounts /\ account[token[t].account] # "none"
    BY <1>5 DEF AInv, Typed, MInv
<1>6. CASE AuthStep
    <2>1. ASSUME NEW c \in Clients, NEW t \in Tokens,
                 Authenticate(c, t, [op |-> "logout", token |-> t])
          PROVE  MInv'
        <3>1. PICK q : q = [op |-> "logout", token |-> t]
            OBVIOUS
        <3>2. AccountOK(q)
            BY <3>1 DEF AccountOK
        <3> QED BY <1>4, <2>1, <3>1, <3>2
    <2>2. ASSUME NEW c \in Clients, Logout(c) PROVE MInv'
        BY <2>2, <1>a DEF Logout
    <2>3. ASSUME NEW a \in Accounts, SwitchAccount(a) PROVE MInv'
        BY <2>3, <1>c DEF SwitchAccount, Sessions
    <2> QED BY <1>1, <1>2, <1>3, <1>6, <2>1, <2>2, <2>3 DEF AuthStep
<1>7. CASE WorkspaceStep
    <2>1. ASSUME NEW c \in Clients, NEW t \in Tokens, NEW name \in Names, token[t] # None,
                 Authenticate(c, t, [op |-> "create", caller |-> token[t].account, name |-> name])
          PROVE  MInv'
        <3>1. PICK q : q = [op |-> "create", caller |-> token[t].account, name |-> name]
            OBVIOUS
        <3>2. AccountOK(q)
            BY <1>5, <2>1, <3>1 DEF AccountOK
        <3> QED BY <1>4, <2>1, <3>1, <3>2
    <2>2. ASSUME NEW c \in Clients, NEW t \in Tokens, NEW q \in MemberCalls(token[t].account),
                 Authenticate(c, t, q)
          PROVE  MInv'
        <3>1. AccountOK(q)
            BY DEF AccountOK, MemberCalls
        <3> QED BY <1>4, <2>2, <3>1
    <2>3. ASSUME NEW c \in Clients, Authorise(c) PROVE MInv'
        <3>1. PICK q : q = [call[c] EXCEPT !.stage = "authorised"]
            OBVIOUS
        <3>2. call[c] \in MemberRequest \/ call[c] \in WorkspaceRequest
            BY <2>3 DEF Authorise, AInv, Typed, Request, OtherRequest, MemberOps, Idle
        <3>3. q.stage = "authorised" /\ q.op # "create"
            BY <3>1, <3>2 DEF MemberRequest, WorkspaceRequest, MemberOps
        <3>4. AccountOK(q)
            BY <3>3 DEF AccountOK
        <3> QED BY <2>3, <3>1, <3>4, <1>a, <1>c DEF Authorise, Proceed, Sessions
    <2>4. ASSUME NEW c \in Clients, Handle(c) PROVE MInv'
        <3>1. PICK q : q = [call[c] EXCEPT !.stage = "writing", !.seen = Target(c)]
            OBVIOUS
        <3>2. call[c] \in MemberRequest
            BY <2>4 DEF Handle, AInv, Typed, Request, WorkspaceRequest, OtherRequest, MemberOps, Idle
        <3>3. q.op = call[c].op /\ q.target = call[c].target /\ q.target \in Accounts
                /\ q.op # "create"
            BY <3>1, <3>2 DEF MemberRequest, MemberOps
        <3>4. MayHandle(c) => AccountOK(q)
            BY <3>3 DEF AccountOK, MayHandle
        <3> QED BY <2>4, <3>1, <3>4, <1>a, <1>c DEF Handle, Proceed, Sessions
    <2>5. ASSUME NEW c \in Clients,
                 \/ \E w \in Workspaces : CreateWorkspace(c, w)
                 \/ CommitAdd(c) \/ CommitUpdate(c) \/ CommitRemove(c)
                 \/ WorkspaceCallFails(c) \/ Abandon(c)
          PROVE  MInv'
        BY <2>5, <1>a
        DEF CreateWorkspace, CommitAdd, CommitUpdate, CommitRemove, WorkspaceCallFails, Abandon,
            Written, Sessions
    <2> QED BY <1>7, <2>1, <2>2, <2>3, <2>4, <2>5 DEF WorkspaceStep
<1>8. CASE Tick \/ UNCHANGED vars
    BY <1>8, <1>c DEF Tick, vars, Sessions
<1> QED BY <1>6, <1>7, <1>8 DEF Next

Registered == {a \in Accounts : account[a] # "none"}

LEMMA UnusedWorkspace ==
    ASSUME AInv, NEW w \in Workspaces
    PROVE  slug[w] = None <=> Membership!Unused(w)
BY DEF AInv, OneOwner, Owners, Membership!Unused

(* A step of Membership, when the accounts stay what they are. *)
LEMMA MembershipMove ==
    ASSUME NEW w \in Workspaces, NEW a \in Accounts, account' = account,
           \/ Membership!Create(a, w)
           \/ Membership!Remove(w, a)
           \/ \E r \in Grantable : Membership!Add(w, a, r) \/ Membership!Change(w, a, r)
    PROVE  Membership!Next
BY DEF Membership!Next, Membership!Given, Grantable

LEMMA MembershipStutter ==
    ASSUME UNCHANGED <<account, role>>
    PROVE  UNCHANGED Membership!vars
BY DEF Membership!vars

(* The initial states of Access are initial states of Membership. *)
LEMMA MembershipStart == Init => MInv /\ Membership!Init
<1> SUFFICES ASSUME Init PROVE MInv /\ Membership!Init
    OBVIOUS
<1>1. AInv
    BY InitAInv
<1>2. MInv
    BY DEF Init, MInv, AccountOK, Idle
<1>3. \A w \in Workspaces, a \in Accounts : role[w][a] # "none" => account[a] # "none"
    <2>1. \A w \in Workspaces, a \in Accounts :
              /\ role[w][a] = "owner" => account[a] # "none"
              /\ account[a] = "none" => role[w][a] \notin Grantable
        <3>1. PICK Homes \in [Accounts -> Workspaces \cup {None}] :
                  /\ account = [a \in Accounts |-> IF Homes[a] = None THEN "none" ELSE "active"]
                  /\ \A w \in Workspaces, a \in Accounts :
                        /\ role[w][a] = "owner" <=> Homes[a] = w
                        /\ slug[w] = None \/ account[a] = "none" => role[w][a] \notin Grantable
            BY DEF Init
        <3>2. \A a \in Accounts : account[a] = "none" <=> Homes[a] = None
            BY <3>1
        <3>3. None \notin Workspaces
            BY NoneAssumption
        <3>4. ASSUME NEW w \in Workspaces, NEW a \in Accounts
              PROVE  /\ role[w][a] = "owner" => account[a] # "none"
                     /\ account[a] = "none" => role[w][a] \notin Grantable
            BY <3>1, <3>2, <3>3
        <3> QED BY <3>4
    <2>2. \A w \in Workspaces, a \in Accounts : role[w][a] \in Roles \cup {"none"}
        BY <1>1 DEF AInv, Typed
    <2> QED BY <2>1, <2>2 DEF Roles, Grantable
<1>4. role \in [Workspaces -> [Accounts -> Membership!Given \cup {"owner", "none"}]]
    <2>1. Roles \cup {"none"} = Membership!Given \cup {"owner", "none"}
        BY DEF Roles, Membership!Given
    <2> QED BY <1>1, <2>1 DEF AInv, Typed
<1>5. ASSUME NEW w \in Workspaces
      PROVE  \/ Membership!Unused(w)
             \/ \E a \in Accounts : \A b \in Accounts : role[w][b] = "owner" <=> a = b
    <2>1. CASE slug[w] = None
        BY <1>1, <2>1, UnusedWorkspace
    <2>2. CASE slug[w] # None
        <3>1. PICK a \in Accounts : Owners(w) = {a}
            BY <1>1, <2>2 DEF AInv, OneOwner
        <3> QED BY <3>1 DEF Owners
    <2> QED BY <2>1, <2>2
<1>6. \A a \in Registered : \E w \in Workspaces : role[w][a] = "owner"
    BY <1>1 DEF AInv, AccountHasWorkspace, Owners, Registered
<1> QED BY <1>2, <1>3, <1>4, <1>5, <1>6 DEF Membership!Init, Registered

(* Each step of Access is a step of Membership or leaves it unchanged. *)
LEMMA MembershipStep == AInv /\ MInv /\ [Next]_vars => [Membership!Next]_(Membership!vars)
<1> SUFFICES ASSUME AInv, MInv, [Next]_vars
             PROVE  Membership!Next \/ UNCHANGED Membership!vars
    OBVIOUS
<1>t. /\ account \in [Accounts -> {"none", "active", "inactive"}]
      /\ role \in [Workspaces -> [Accounts -> Roles \cup {"none"}]]
    BY DEF AInv, Typed
<1>s. ASSUME UNCHANGED <<account, role>> PROVE UNCHANGED Membership!vars
    BY <1>s, MembershipStutter
<1>1. ASSUME NEW c \in Clients, NEW w \in Workspaces, NEW t \in Tokens, Register(c, w, t)
      PROVE  Membership!Next \/ UNCHANGED Membership!vars
    <2>1. PICK a : a = call[c].account
        OBVIOUS
    <2>2. a \in Accounts
        BY <1>1, <2>1 DEF Register, AInv, Typed, Request, MemberRequest, WorkspaceRequest,
                          OtherRequest, MemberOps, Idle
    <2>3. CASE account[a] = "none" /\ SlugFree(Slug(call[c].name, a))
        <3>1. /\ account' = [account EXCEPT ![a] = "active"]
              /\ slug[w] = None /\ role' = [role EXCEPT ![w][a] = "owner"]
            BY <1>1, <2>1, <2>3 DEF Register, Found
        <3>2. Membership!Found(w, a)
            BY <3>1, UnusedWorkspace DEF Membership!Found, Membership!Become
        <3>3. Registered' = Registered \cup {a}
            BY <1>t, <2>2, <3>1 DEF Registered
        <3>4. Membership!Register(a, w)
            BY <2>3, <3>2, <3>3 DEF Membership!Register, Registered
        <3> QED BY <2>2, <3>4 DEF Membership!Next
    <2>4. CASE ~ (account[a] = "none" /\ SlugFree(Slug(call[c].name, a)))
        BY <1>1, <1>s, <2>1, <2>4 DEF Register, Database
    <2> QED BY <2>3, <2>4
<1>2. ASSUME NEW a \in Accounts, SwitchAccount(a) PROVE UNCHANGED Membership!vars
    <2>1. Registered' = Registered
        BY <1>2, <1>t DEF SwitchAccount, Registered
    <2> QED BY <1>2, <2>1 DEF SwitchAccount, Registered, Membership!vars
<1>3. ASSUME NEW c \in Clients, NEW w \in Workspaces, CreateWorkspace(c, w)
      PROVE  Membership!Next \/ UNCHANGED Membership!vars
    <2>1. PICK a : a = call[c].caller
        OBVIOUS
    <2>2. a \in Accounts /\ account[a] # "none"
        BY <1>3, <2>1 DEF CreateWorkspace, MInv, AccountOK
    <2>3. account' = account
        BY <1>3 DEF CreateWorkspace
    <2>4. CASE SlugFree(Slug(call[c].name, a))
        <3>1. slug[w] = None /\ role' = [role EXCEPT ![w][a] = "owner"]
            BY <1>3, <2>1, <2>4 DEF CreateWorkspace, Found
        <3>2. Membership!Found(w, a)
            BY <3>1, UnusedWorkspace DEF Membership!Found, Membership!Become
        <3>3. Membership!Create(a, w)
            BY <2>2, <2>3, <3>2 DEF Membership!Create
        <3> QED BY <2>2, <2>3, <3>3, MembershipMove
    <2>5. CASE ~ SlugFree(Slug(call[c].name, a))
        BY <1>3, <1>s, <2>1, <2>3, <2>5 DEF CreateWorkspace
    <2> QED BY <2>4, <2>5
<1>4. ASSUME NEW c \in Clients, CommitAdd(c) \/ CommitUpdate(c) \/ CommitRemove(c)
      PROVE  Membership!Next \/ UNCHANGED Membership!vars
    <2>1. PICK w, a, r : w = call[c].workspace /\ a = call[c].target /\ r = call[c].role
        OBVIOUS
    <2>2. call[c] \in MemberRequest /\ call[c].op \in MemberOps /\ call[c].stage = "writing"
        BY <1>4 DEF CommitAdd, CommitUpdate, CommitRemove, AInv, Typed, Request,
                    WorkspaceRequest, OtherRequest, MemberOps, Idle
    <2>3. w \in Workspaces /\ a \in Accounts /\ role[w][a] \in Roles \cup {"none"}
        BY <1>t, <2>1, <2>2 DEF MemberRequest
    <2>4. ~Membership!Unused(w)
        BY <2>1, <2>2, <2>3, UnusedWorkspace DEF AInv, CallOK
    <2>5. /\ call[c].op \in {"add", "update"} => r \in Grantable
          /\ call[c].op \in {"update", "remove"} => role[w][a] # "owner"
        BY <2>1, <2>2 DEF AInv, CallOK
    <2>6. account' = account
        BY <1>4 DEF CommitAdd, CommitUpdate, CommitRemove, Written
    <2>7. CASE CommitAdd(c)
        <3>1. CASE role[w][a] = "none"
            <4>1. Membership!Become(w, a, r)
                BY <2>1, <2>7, <3>1 DEF CommitAdd, Target, SetRole, Membership!Become
            <4>2. account[a] # "none" /\ r \in Grantable
                BY <2>1, <2>2, <2>5, <2>7 DEF CommitAdd, MInv, AccountOK
            <4>3. Membership!Add(w, a, r)
                BY <2>3, <2>4, <2>6, <3>1, <4>1, <4>2 DEF Membership!Add
            <4> QED BY <2>3, <2>6, <4>2, <4>3, MembershipMove
        <3>2. CASE role[w][a] # "none"
            BY <1>s, <2>1, <2>6, <2>7, <3>2 DEF CommitAdd, Target
        <3> QED BY <3>1, <3>2
    <2>8. CASE CommitUpdate(c)
        <3>1. CASE role[w][a] # "none" /\ r # call[c].seen
            <4>1. Membership!Become(w, a, r)
                BY <2>1, <2>8, <3>1 DEF CommitUpdate, Target, SetRole, Membership!Become
            <4>2. r \in Grantable /\ role[w][a] \in Membership!Given
                BY <2>3, <2>5, <2>8, <3>1 DEF CommitUpdate, Roles, Membership!Given
            <4>3. Membership!Change(w, a, r)
                BY <2>6, <4>1, <4>2 DEF Membership!Change
            <4> QED BY <2>3, <2>6, <4>2, <4>3, MembershipMove
        <3>2. CASE ~ (role[w][a] # "none" /\ r # call[c].seen)
            BY <1>s, <2>1, <2>6, <2>8, <3>2 DEF CommitUpdate, Target
        <3> QED BY <3>1, <3>2
    <2>9. CASE CommitRemove(c)
        <3>1. role' = [role EXCEPT ![w][a] = "none"]
            BY <2>1, <2>9 DEF CommitRemove, SetRole
        <3>2. CASE role[w][a] = "none"
            <4>1. role' = role
                BY <1>t, <2>3, <3>1, <3>2
            <4> QED BY <1>s, <2>6, <4>1
        <3>3. CASE role[w][a] # "none"
            <4>1. role[w][a] \in Membership!Given
                BY <2>3, <2>5, <2>9, <3>3 DEF CommitRemove, Roles, Membership!Given
            <4>2. Membership!Remove(w, a)
                BY <2>6, <3>1, <4>1 DEF Membership!Remove, Membership!Become
            <4> QED BY <2>3, <2>6, <4>2, MembershipMove
        <3> QED BY <3>2, <3>3
    <2> QED BY <1>4, <2>7, <2>8, <2>9
<1>5. CASE AuthStep
    BY <1>5, <1>1, <1>2, <1>s DEF AuthStep, BeginRegister, Login, Authenticate, Logout, Database
<1>6. CASE WorkspaceStep
    BY <1>6, <1>3, <1>4, <1>s
    DEF WorkspaceStep, Authenticate, Authorise, Handle, WorkspaceCallFails, Abandon, Database
<1>7. CASE Tick \/ UNCHANGED vars
    BY <1>7, <1>s DEF Tick, vars, Database
<1> QED BY <1>5, <1>6, <1>7 DEF Next

(* The register handler and the workspaces API, with their stale reads and   *)
(* their sessions one after the other, implement Membership: members are     *)
(* added, changed and removed in single steps, of accounts that exist and in *)
(* workspaces that have their owner, and the owner's row is never written.   *)
THEOREM MembershipIsImplemented == Spec => MembershipImplemented
BY MembershipStart, MembershipStep, MInvStep, AccessInvariance, PTL
DEF Spec, MembershipImplemented, Membership!Spec

=============================================================================
