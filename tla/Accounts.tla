------------------------------- MODULE Accounts -------------------------------
(***************************************************************************)
(* The roles of the user accounts, the sessions, and the principal that    *)
(* the requests of a session share.                                        *)
(*                                                                         *)
(* A session holds a reference to a Principal, an object built from the    *)
(* account when its user signs in: a map from the kinds of role to the id  *)
(* of the account's role of that kind, and the active role, which the      *)
(* controller of each request sets before its service reads it.  Requests  *)
(* of one session may be served at the same time, on the same object.      *)
(* Requests that change the roles of the account build a new Principal and *)
(* put it into the session; those already running keep the old one.        *)
(***************************************************************************)
EXTENDS FiniteSets, Naturals

CONSTANTS
  Account,
  RoleId,    \* the ids the sequence may give to a role
  Trade,     \* the kinds of role a user may become: Manager, Provider, Consumer
  Session,
  Req,       \* requests that the server serves at a time
  Ref,       \* references to Principal objects
  None

Kind == Trade \cup {"Authenticated"}

\* A row of the tables of roles.
Role == [account : Account, kind : Kind]

\* The rows of tasks and work plans are told apart by the Manager that owns
\* them, so a request about a row names that role.
Command ==
  [name : {"become"}, kind : Trade] \cup [name : {"update", "create"}]
    \cup [name : {"edit"}, owner : RoleId]

Principal ==
  [account : Account, roleMap : [Kind -> RoleId \cup {None}], active : Kind]

\* A request: the principal it was created with, and the one handleUpdate has
\* loaded.
Request ==
  [at : {"enter", "authorise", "serve", "reload", "install"},
   session : Session, principal : Ref, loaded : Ref \cup {None},
   command : Command]

ASSUME NoneAssumption ==
  /\ None \notin RoleId \cup Ref \cup Role \cup Principal \cup Request
  /\ "Manager" \in Trade
  /\ "Authenticated" \notin Trade

VARIABLES
  role,       \* the tables of roles
  owners,     \* the Manager roles that own a row
  principal,  \* the Principal objects
  session,    \* the reference that each session holds
  req,        \* the requests that are being served
  raced,      \* history: the sessions two of whose requests overlapped
  given       \* history: the kinds that the requests of a session became

vars == <<role, owners, principal, session, req, raced, given>>

TypeOK ==
  /\ role \in [RoleId -> Role \cup {None}]
  /\ owners \subseteq RoleId
  /\ principal \in [Ref -> Principal \cup {None}]
  /\ session \in [Session -> Ref \cup {None}]
  /\ req \in [Req -> Request \cup {None}]
  /\ raced \subseteq Session
  /\ given \in [Session -> SUBSET Trade]

Init ==
  /\ role = [r \in RoleId |-> None]
  /\ owners = {}
  /\ principal = [x \in Ref |-> None]
  /\ session = [s \in Session |-> None]
  /\ req = [q \in Req |-> None]
  /\ raced = {}
  /\ given = [s \in Session |-> {}]

RolesOf(a, k) == {r \in RoleId : role[r] = [account |-> a, kind |-> k]}

Running(s) == {q \in Req : req[q] # None /\ req[q].session = s}

\* The objects that a session or a request refers to; the others are garbage.
Live ==
  ({session[s] : s \in Session}
     \cup UNION {{req[q].principal, req[q].loaded} :
                   q \in {p \in Req : req[p] # None}})
    \ {None}

\* A new object takes any unused reference, a new row any unused id: which one
\* is immaterial.
SomeRef == CHOOSE x \in Ref : x \notin Live
SomeId == CHOOSE r \in RoleId : role[r] = None

Collected(objects) == [x \in Ref |-> IF x \in Live' THEN objects[x] ELSE None]

\* Mutant: no role is active before the first request.
MutLoaded(a) ==
  {p \in [account : {a}, roleMap : [Kind -> RoleId \cup {None}],
          active : {None}] :
     \A k \in Kind : p.roleMap[k] \in RolesOf(a, k) \cup {None}}

\* AuthenticationService.loadUserByUsername and Principal.setAuthorities: of
\* two roles of one kind the map keeps the one that the collection lists last,
\* and nothing orders the collection.
Loaded(a) ==
  {p \in [account : {a}, roleMap : [Kind -> RoleId \cup {None}],
          active : {"Authenticated"}] :
     \A k \in Kind :
       IF RolesOf(a, k) = {} THEN p.roleMap[k] = None
                             ELSE p.roleMap[k] \in RolesOf(a, k)}

\* The kind of role that the controller of a command is for.
ControllerOf(c) ==
  IF c.name \in {"become", "update"} THEN "Authenticated" ELSE "Manager"

-----------------------------------------------------------------------------
(***************************************************************************)
(* Accounts and sessions.                                                  *)
(***************************************************************************)

\* POST anonymous/user-account/create: the account and its first role.
SignUp(a) ==
  /\ RolesOf(a, "Authenticated") = {}
  /\ \E r \in RoleId : role[r] = None
  /\ role' = [role EXCEPT ![SomeId] = [account |-> a, kind |-> "Authenticated"]]
  /\ UNCHANGED <<owners, principal, session, req, raced, given>>

SignIn(s, a) ==
  /\ session[s] = None /\ Running(s) = {}
  /\ RolesOf(a, "Authenticated") # {}
  /\ Ref \ Live # {}
  /\ session' = [session EXCEPT ![s] = SomeRef]
  /\ \E p \in Loaded(a) :
       principal' = [principal EXCEPT ![SomeRef] = p]
  /\ raced' = raced \ {s}
  /\ given' = [given EXCEPT ![s] = {}]
  /\ UNCHANGED <<role, owners, req>>

\* The session is invalidated; its requests end with the object they have.
SignOut(s) ==
  /\ session[s] # None
  /\ session' = [session EXCEPT ![s] = None]
  /\ UNCHANGED <<role, owners, req, raced, given>>
  /\ principal' = Collected(principal)

-----------------------------------------------------------------------------
(***************************************************************************)
(* Requests.                                                               *)
(***************************************************************************)

\* The request object is created with the principal of the session.
Receive(q, s, c) ==
  /\ req[q] = None
  /\ session[s] # None
  /\ c.name = "edit" => c.owner \in owners
  /\ req' = [req EXCEPT ![q] =
       [at |-> "enter", session |-> s, principal |-> session[s],
        loaded |-> None, command |-> c]]
  /\ raced' = IF Running(s) # {} THEN raced \cup {s} ELSE raced
  /\ UNCHANGED <<role, owners, principal, session, given>>

Ended(q) ==
  /\ req' = [req EXCEPT ![q] = None]
  /\ principal' = Collected(principal)

\* Something is thrown, or the response has errors, at any statement.
Fail(q) ==
  /\ req[q] # None
  /\ UNCHANGED <<role, owners, session, raced, given>>
  /\ Ended(q)

\* Mutant: the active role is set before it is looked for.
MutEnter(q) ==
  /\ req[q] # None /\ req[q].at = "enter"
  /\ LET x == req[q].principal
         k == ControllerOf(req[q].command)
     IN  principal' = [principal EXCEPT ![x].active = k]
  /\ req' = [req EXCEPT ![q].at = "authorise"]
  /\ UNCHANGED <<role, owners, session, raced, given>>

\* Mutant: the active role is left as it was.
MutEnterIdle(q) ==
  /\ req[q] # None /\ req[q].at = "enter"
  /\ principal[req[q].principal].roleMap[ControllerOf(req[q].command)] # None
  /\ req' = [req EXCEPT ![q].at = "authorise"]
  /\ UNCHANGED <<role, owners, principal, session, raced, given>>

\* handleRequest: the principal has the role of the controller, and it becomes
\* the active one.  A request without it fails.
Enter(q) ==
  /\ req[q] # None /\ req[q].at = "enter"
  /\ LET x == req[q].principal
         k == ControllerOf(req[q].command)
     IN  /\ principal[x].roleMap[k] # None
         /\ principal' = [principal EXCEPT ![x].active = k]
  /\ req' = [req EXCEPT ![q].at = "authorise"]
  /\ UNCHANGED <<role, owners, session, raced, given>>

\* Mutant: any manager may.
MutMay(p, c) == c.name = "edit" => p.roleMap["Manager"] # None

\* authorise: the services that change a row compare its manager with the
\* role that is active by now; the others accept any request.
May(p, c) == c.name = "edit" => c.owner = p.roleMap[p.active]

Authorising(q) == req[q] # None /\ req[q].at = "authorise"

Permit(q) ==
  /\ Authorising(q)
  /\ May(principal[req[q].principal], req[q].command)
  /\ req' = [req EXCEPT ![q].at = "serve"]
  /\ UNCHANGED <<role, owners, principal, session, raced, given>>

Refuse(q) ==
  /\ Authorising(q)
  /\ ~May(principal[req[q].principal], req[q].command)
  /\ UNCHANGED <<role, owners, session, raced, given>>
  /\ Ended(q)

Serving(q, name) ==
  req[q] # None /\ req[q].at = "serve" /\ req[q].command.name = name

\* POST authenticated/{manager, provider, consumer}/create, with no check of
\* the roles the account has: addRole and its assertion are not called.
Become(q) ==
  /\ Serving(q, "become")
  /\ \E r \in RoleId : role[r] = None
  /\ role' = [role EXCEPT ![SomeId] =
       [account |-> principal[req[q].principal].account,
        kind |-> req[q].command.kind]]
  /\ req' = [req EXCEPT ![q].at = "reload"]
  /\ UNCHANGED <<owners, principal, session, raced, given>>

\* POST authenticated/user-account/update and its like: no role changes.
Update(q) ==
  /\ Serving(q, "update")
  /\ req' = [req EXCEPT ![q].at = "reload"]
  /\ UNCHANGED <<role, owners, principal, session, raced, given>>

\* POST manager/task/create: the Manager of the account is found by the name
\* of the user; the query throws when there are two.
Create(q) ==
  /\ Serving(q, "create")
  /\ LET managers == RolesOf(principal[req[q].principal].account, "Manager")
     IN  Cardinality(managers) = 1 /\ owners' = owners \cup managers
  /\ UNCHANGED <<role, session, raced, given>>
  /\ Ended(q)

\* An update, a deletion or a show of a row of tasks or work plans: what it
\* does to the row is not told apart here.
Edit(q) ==
  /\ Serving(q, "edit")
  /\ UNCHANGED <<role, owners, session, raced, given>>
  /\ Ended(q)

\* onSuccess calls handleUpdate, which loads a principal ...
Reload(q) ==
  /\ req[q] # None /\ req[q].at = "reload"
  /\ Ref \ Live # {}
  /\ \E p \in Loaded(principal[req[q].principal].account) :
       principal' = [principal EXCEPT ![SomeRef] = p]
  /\ req' = [req EXCEPT ![q].at = "install", ![q].loaded = SomeRef]
  /\ UNCHANGED <<role, owners, session, raced, given>>

\* Mutant: the principal that was loaded is not put into the session.
MutInstalled(s, x) == session

Installed(s, x) ==
  IF session[s] = None THEN session ELSE [session EXCEPT ![s] = x]

\* ... and puts it into the security context, which the requests of the session
\* share.  A session that was closed meanwhile stays closed.
Install(q) ==
  LET s == req[q].session
      c == req[q].command
  IN  /\ req[q] # None /\ req[q].at = "install"
      /\ session' = Installed(s, req[q].loaded)
      /\ given' = IF c.name = "become"
                  THEN [given EXCEPT ![s] = @ \cup {c.kind}] ELSE given
      /\ Ended(q)
      /\ UNCHANGED <<role, owners, raced>>

Step(q) ==
  \/ Enter(q) \/ Permit(q) \/ Refuse(q)
  \/ Become(q) \/ Update(q) \/ Create(q) \/ Edit(q)
  \/ Reload(q) \/ Install(q)
  \/ Fail(q)

Next ==
  \/ \E a \in Account : SignUp(a)
  \/ \E s \in Session, a \in Account : SignIn(s, a)
  \/ \E s \in Session : SignOut(s)
  \/ \E q \in Req, s \in Session, c \in Command : Receive(q, s, c)
  \/ \E q \in Req : Step(q)

Spec == Init /\ [][Next]_vars

-----------------------------------------------------------------------------
(***************************************************************************)
(* Properties.                                                             *)
(***************************************************************************)

\* `assert this.roleMap.containsKey(this.activeRole)` in getActiveRoleId: the
\* active role is one that the principal has, whichever of the requests that
\* share it set it last and whatever was loaded in between.
ActiveRoleIsHeld ==
  \A x \in Ref : principal[x] # None =>
    principal[x].roleMap[principal[x].active] # None

\* No request is allowed to touch a row of another account, although the active
\* role it is compared with may have been set by another request.
OnlyOwnRowsArePermitted ==
  [][\A q \in Req :
       Permit(q) /\ req[q].command.name = "edit" =>
         role[req[q].command.owner].account
           = principal[req[q].principal].account]_vars

\* A manager's request about a row of the account is refused only when another
\* request of the session came in between, or when the account has two Manager
\* roles: what the listing shows by user name can be opened by role id.
OwnRowsAreNotRefused ==
  [][\A q \in Req :
       LET a == principal[req[q].principal].account
       IN  /\ Refuse(q)
           /\ role[req[q].command.owner].account = a
           => \/ req[q].session \in raced
              \/ \E r1, r2 \in RolesOf(a, "Manager") : r1 # r2]_vars

\* Who has become something and was told so may act as such at once: the
\* session's principal knows the role, unless its requests have overlapped.
NewRolesAreUsable ==
  \A s \in Session \ raced :
    session[s] # None /\ Running(s) = {} =>
      \A k \in given[s] : principal[session[s]].roleMap[k] # None

\* `assert !this.hasRole(role.getClass())` in UserAccount.addRole: an account
\* never has two roles of a kind.
OneRoleOfAKind ==
  \A a \in Account, k \in Kind : Cardinality(RolesOf(a, k)) =< 1

\* The inductive invariant behind the safety properties.
RoleMapsAreTrue ==
  \A x \in Ref : principal[x] # None =>
    /\ principal[x].roleMap["Authenticated"] # None
    /\ \A k \in Kind :
         LET r == principal[x].roleMap[k]
         IN  r # None =>
               role[r] = [account |-> principal[x].account, kind |-> k]

ReferencesAreLive ==
  /\ \A s \in Session : session[s] # None => principal[session[s]] # None
  /\ \A q \in Req : req[q] # None =>
       /\ principal[req[q].principal] # None
       /\ req[q].loaded # None => principal[req[q].loaded] # None
       /\ req[q].at = "install" => req[q].loaded # None

IInv ==
  /\ TypeOK
  /\ ActiveRoleIsHeld
  /\ RoleMapsAreTrue
  /\ ReferencesAreLive

(***************************************************************************)
(* What holds of a session until two of its requests overlap.              *)
(***************************************************************************)

Serves(q, s) == req[q] # None /\ req[q].session = s

\* The objects of one session are not those of another.
Uses(s, x) ==
  /\ x # None
  /\ \/ session[s] = x
     \/ \E q \in Req : Serves(q, s) /\ x \in {req[q].principal, req[q].loaded}

ObjectsAreUnshared ==
  \A s1, s2 \in Session : \A x \in Ref : Uses(s1, x) /\ Uses(s2, x) => s1 = s2

OneAtATime ==
  \A s \in Session \ raced : \A q1, q2 \in Req :
    Serves(q1, s) /\ Serves(q2, s) => q1 = q2

\* Its request runs on the object of the session, and with the role that its
\* own controller made active.
RequestHasTheSession ==
  \A s \in Session \ raced : \A q \in Req : Serves(q, s) =>
    /\ session[s] # None => req[q].principal = session[s]
    /\ req[q].at = "authorise" =>
         principal[req[q].principal].active = ControllerOf(req[q].command)

GivenIsKnown ==
  \A s \in Session \ raced : session[s] # None =>
    \A k \in given[s] : principal[session[s]].roleMap[k] # None

\* Rows belong to managers.
OwnersAreManagers ==
  /\ \A r \in owners : role[r] # None /\ role[r].kind = "Manager"
  /\ \A q \in Req : req[q] # None /\ req[q].command.name = "edit" =>
       req[q].command.owner \in owners

\* What a request loads has the roles of its account: those of its own object
\* and the one that it has stored.
LoadedHasNewRoles ==
  \A q \in Req : req[q] # None =>
    LET old == principal[req[q].principal]
        new == principal[req[q].loaded]
        c == req[q].command
    IN  /\ req[q].at = "reload" /\ c.name = "become" =>
             RolesOf(old.account, c.kind) # {}
        /\ req[q].at = "install" =>
             /\ \A k \in Kind : old.roleMap[k] # None => new.roleMap[k] # None
             /\ c.name = "become" => new.roleMap[c.kind] # None

SInv ==
  /\ IInv
  /\ ObjectsAreUnshared
  /\ OneAtATime
  /\ RequestHasTheSession
  /\ GivenIsKnown
  /\ OwnersAreManagers
  /\ LoadedHasNewRoles
===============================================================================
