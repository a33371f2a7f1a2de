---------------------------- MODULE Accounts_proofs ----------------------------
(***************************************************************************)
(* Proofs about accounts and sessions: the principal of a session has      *)
(* roles of its own account only, its active role among them, however the  *)
(* requests of the session interleave; so no request is let near a row of  *)
(* another account.                                                        *)
(***************************************************************************)
EXTENDS Accounts, TLAPS

\* What the invariant says of one Principal object.
Good(p) ==
  /\ p \in Principal
  /\ p.roleMap[p.active] # None
  /\ p.roleMap["Authenticated"] # None
  /\ \A k \in Kind : p.roleMap[k] # None =>
       role[p.roleMap[k]] = [account |-> p.account, kind |-> k]

\* The invariant, said of objects and references.
ObjectsAreGood == \A x \in Ref : principal[x] # None => Good(principal[x])

LiveObjects == \A x \in Live : x \in Ref /\ principal[x] # None

Loading ==
  \A q \in Req : req[q] # None /\ req[q].at = "install" => req[q].loaded # None

\* Rows of the tables of roles are only added.
RolesKept == \A r \in RoleId : role[r] # None => role'[r] = role[r]

LEMMA InvariantInParts ==
  ASSUME TypeOK
  PROVE  IInv <=> ObjectsAreGood /\ LiveObjects /\ Loading
<1>1. ActiveRoleIsHeld /\ RoleMapsAreTrue <=> ObjectsAreGood
  BY DEF TypeOK, ActiveRoleIsHeld, RoleMapsAreTrue, ObjectsAreGood, Good
<1>2. ReferencesAreLive <=> LiveObjects /\ Loading
  <2>1. ASSUME ReferencesAreLive PROVE LiveObjects /\ Loading
    BY <2>1, NoneAssumption
    DEF ReferencesAreLive, LiveObjects, Loading, Live, TypeOK, Request
  <2>2. ASSUME LiveObjects, Loading PROVE ReferencesAreLive
    BY <2>2, NoneAssumption
    DEF ReferencesAreLive, LiveObjects, Loading, Live, TypeOK, Request
  <2>3. QED BY <2>1, <2>2
<1>3. QED BY <1>1, <1>2 DEF IInv

-----------------------------------------------------------------------------
(***************************************************************************)
(* Objects.                                                                *)
(***************************************************************************)

\* An object stays good as long as its roles stay.
LEMMA GoodStays ==
  ASSUME TypeOK, RolesKept, NEW p, Good(p)
  PROVE  Good(p)'
<1>1. ASSUME NEW k \in Kind, p.roleMap[k] # None
      PROVE  role'[p.roleMap[k]] = [account |-> p.account, kind |-> k]
  <2>1. p.roleMap[k] \in RoleId
    BY <1>1 DEF Good, Principal
  <2>2. role[p.roleMap[k]] = [account |-> p.account, kind |-> k]
    BY <1>1 DEF Good
  <2>3. role[p.roleMap[k]] # None
    BY <1>1, <2>2, NoneAssumption DEF Good, Principal, Role
  <2>4. QED BY <2>1, <2>2, <2>3 DEF RolesKept
<1>2. QED BY <1>1 DEF Good

\* What is loaded for an account that has signed up is good.
LEMMA LoadedIsGood ==
  ASSUME TypeOK, NEW a \in Account, RolesOf(a, "Authenticated") # {},
         NEW p \in Loaded(a)
  PROVE  Good(p) /\ p.account = a
<1>1. p \in Principal /\ p.account = a /\ p.active = "Authenticated"
  BY DEF Loaded, Principal, Kind
<1>2. ASSUME NEW k \in Kind, RolesOf(a, k) # {}
      PROVE  p.roleMap[k] \in RolesOf(a, k)
  BY <1>2 DEF Loaded
<1>3. ASSUME NEW k \in Kind, RolesOf(a, k) = {}
      PROVE  p.roleMap[k] = None
  BY <1>3 DEF Loaded
<1>4. p.roleMap["Authenticated"] # None
  BY <1>2, NoneAssumption DEF Kind, RolesOf
<1>5. ASSUME NEW k \in Kind, p.roleMap[k] # None
      PROVE  role[p.roleMap[k]] = [account |-> a, kind |-> k]
  BY <1>2, <1>3, <1>5 DEF RolesOf
<1>6. QED BY <1>1, <1>4, <1>5 DEF Good

\* The account of a principal has signed up.
LEMMA HasSignedUp ==
  ASSUME NEW p, Good(p)
  PROVE  p.account \in Account /\ RolesOf(p.account, "Authenticated") # {}
BY DEF Good, Principal, RolesOf, Kind

\* An unused reference can be found.
LEMMA SomeRefIsUnused ==
  ASSUME Ref \ Live # {}
  PROVE  SomeRef \in Ref /\ SomeRef \notin Live
BY DEF SomeRef

\* A new row has an id that no row has.
LEMMA SomeIdIsUnused ==
  ASSUME NEW r \in RoleId, role[r] = None
  PROVE  SomeId \in RoleId /\ role[SomeId] = None
BY DEF SomeId

\* Requests that only change where they are keep every object.
LEMMA ObjectsStay ==
  ASSUME TypeOK, ObjectsAreGood, RolesKept, UNCHANGED principal
  PROVE  ObjectsAreGood'
<1> SUFFICES ASSUME NEW x \in Ref, principal[x] # None
             PROVE  Good(principal[x])'
  BY DEF ObjectsAreGood
<1>1. Good(principal[x])
  BY DEF ObjectsAreGood
<1>2. QED
  BY <1>1, GoodStays DEF Good

\* Collecting the garbage leaves the live objects.
LEMMA GarbageGoes ==
  ASSUME TypeOK, ObjectsAreGood, LiveObjects, UNCHANGED role,
         principal' = Collected(principal), Live' \subseteq Live
  PROVE  /\ ObjectsAreGood' /\ LiveObjects'
         /\ principal' \in [Ref -> Principal \cup {None}]
<1>1. \A x \in Ref : principal'[x] = IF x \in Live' THEN principal[x] ELSE None
  BY DEF Collected
<1>2. principal' \in [Ref -> Principal \cup {None}]
  BY DEF Collected, TypeOK
<1>3. ObjectsAreGood'
  <2> SUFFICES ASSUME NEW x \in Ref, principal'[x] # None
               PROVE  Good(principal[x])'
    BY DEF ObjectsAreGood
  <2>1. Good(principal[x]) /\ principal'[x] = principal[x]
    BY <1>1 DEF ObjectsAreGood
  <2>2. QED BY <2>1 DEF Good
<1>4. LiveObjects'
  BY <1>1 DEF LiveObjects
<1>5. QED BY <1>2, <1>3, <1>4

\* A new object, at an unused reference, disturbs no other.
LEMMA ObjectComes ==
  ASSUME TypeOK, ObjectsAreGood, LiveObjects, UNCHANGED role,
         Ref \ Live # {}, NEW p, Good(p),
         principal' = [principal EXCEPT ![SomeRef] = p],
         Live' \subseteq Live \cup {SomeRef}
  PROVE  /\ ObjectsAreGood' /\ LiveObjects'
         /\ principal' \in [Ref -> Principal \cup {None}]
<1>1. SomeRef \in Ref /\ SomeRef \notin Live
  BY SomeRefIsUnused
<1> DEFINE y == SomeRef
<1>2. y \in Ref /\ y \notin Live /\ principal' = [principal EXCEPT ![y] = p]
  BY <1>1
<1>3. Live' \subseteq Live \cup {y}
  OBVIOUS
<1> HIDE DEF y
<1>4. p \in Principal /\ p # None
  BY NoneAssumption DEF Good
<1>5. principal'[y] = p /\ \A x \in Ref \ {y} : principal'[x] = principal[x]
  BY <1>2 DEF TypeOK
<1>6. principal' \in [Ref -> Principal \cup {None}]
  BY <1>2, <1>4 DEF TypeOK
<1>7. ObjectsAreGood'
  <2> SUFFICES ASSUME NEW x \in Ref, principal'[x] # None
               PROVE  Good(principal[x])'
    BY DEF ObjectsAreGood
  <2>1. CASE x = y
    BY <2>1, <1>5 DEF Good
  <2>2. CASE x # y
    BY <2>2, <1>5 DEF Good, ObjectsAreGood
  <2>3. QED BY <2>1, <2>2
<1>8. LiveObjects'
  <2> SUFFICES ASSUME NEW x \in Live'
               PROVE  x \in Ref /\ principal'[x] # None
    BY DEF LiveObjects
  <2>1. CASE x = y
    BY <2>1, <1>2, <1>4, <1>5
  <2>2. CASE x # y
    <3>1. x \in Live
      BY <2>2, <1>3
    <3>2. x \in Ref /\ principal[x] # None
      BY <3>1 DEF LiveObjects
    <3>3. QED BY <2>2, <3>2, <1>5
  <2>3. QED BY <2>1, <2>2
<1>9. QED BY <1>6, <1>7, <1>8

\* A request that ends takes its references with it.
LEMMA EndedFacts ==
  ASSUME TypeOK, ObjectsAreGood, LiveObjects, Loading, UNCHANGED role,
         NEW q \in Req, Ended(q),
         \A s \in Session : session'[s] # None => session'[s] \in Live
  PROVE  /\ ObjectsAreGood' /\ LiveObjects' /\ Loading'
         /\ principal' \in [Ref -> Principal \cup {None}]
         /\ req' \in [Req -> Request \cup {None}]
<1>1. req' = [req EXCEPT ![q] = None] /\ principal' = Collected(principal)
  BY DEF Ended
<1>2. req' \in [Req -> Request \cup {None}]
  BY <1>1 DEF TypeOK
<1>3. \A o \in Req : req'[o] # None => req'[o] = req[o]
  BY <1>1 DEF TypeOK
<1>4. Loading'
  BY <1>3 DEF Loading
<1>5. Live' \subseteq Live
  BY <1>3 DEF Live
<1>6. QED BY <1>1, <1>2, <1>4, <1>5, GarbageGoes

-----------------------------------------------------------------------------
(***************************************************************************)
(* The invariant is inductive.                                             *)
(***************************************************************************)

\* What the steps of a request leave alone.
LEMMA Moves ==
  ASSUME TypeOK, Loading, NEW q \in Req, req[q] # None,
         NEW where \in {"authorise", "serve", "reload"},
         req' = [req EXCEPT ![q].at = where], UNCHANGED session
  PROVE  Loading' /\ Live' = Live /\ req' \in [Req -> Request \cup {None}]
<1>1. req[q] \in Request
  BY DEF TypeOK
<1>2. [req[q] EXCEPT !.at = where] \in Request
  BY <1>1 DEF Request
<1>3. req' \in [Req -> Request \cup {None}]
  BY <1>2 DEF TypeOK
<1>4. /\ \A o \in Req \ {q} : req'[o] = req[o]
      /\ req'[q] = [req[q] EXCEPT !.at = where]
      /\ req'[q] # None
  BY <1>2, NoneAssumption DEF TypeOK
<1>5. /\ req'[q].principal = req[q].principal
      /\ req'[q].loaded = req[q].loaded
      /\ req'[q].at = where
  BY <1>1, <1>4 DEF Request
<1>6. Loading'
  BY <1>4, <1>5 DEF Loading
<1>7. Live' = Live
  <2>1. \A o \in Req : /\ req'[o] # None <=> req[o] # None
                       /\ req[o] # None => /\ req'[o].principal = req[o].principal
                                           /\ req'[o].loaded = req[o].loaded
    BY <1>4, <1>5
  <2>2. QED BY <2>1 DEF Live
<1>8. QED BY <1>3, <1>6, <1>7

\* The object of a request, and its account.
LEMMA RequestObject ==
  ASSUME TypeOK, ObjectsAreGood, LiveObjects, NEW q \in Req, req[q] # None
  PROVE  /\ req[q].principal \in Ref
         /\ principal[req[q].principal] # None
         /\ Good(principal[req[q].principal])
<1>1. req[q] \in Request /\ req[q].principal \in Ref
  BY DEF TypeOK, Request
<1>2. req[q].principal \in Live
  BY <1>1, NoneAssumption DEF Live
<1>3. QED BY <1>1, <1>2 DEF LiveObjects, ObjectsAreGood

Inv == TypeOK /\ ObjectsAreGood /\ LiveObjects /\ Loading

LEMMA EnterKeeps ==
  ASSUME Inv, NEW q \in Req, Enter(q)
  PROVE  Inv'
<1> DEFINE x == req[q].principal
           k == ControllerOf(req[q].command)
<1>1. x \in Ref /\ principal[x] # None /\ Good(principal[x])
  BY RequestObject DEF Inv, Enter
<1>2. /\ principal[x].roleMap[k] # None
      /\ principal' = [principal EXCEPT ![x].active = k]
  BY DEF Enter
<1>3. k \in Kind
  BY NoneAssumption DEF ControllerOf, Kind
<1>4. Loading' /\ Live' = Live /\ req' \in [Req -> Request \cup {None}]
  BY Moves DEF Enter, Inv
<1> HIDE DEF x, k
<1>5. [principal[x] EXCEPT !.active = k] \in Principal
  BY <1>1, <1>3 DEF Good, Principal
<1>6. principal' \in [Ref -> Principal \cup {None}]
  BY <1>1, <1>2, <1>5 DEF Inv, TypeOK
<1>7. /\ principal'[x] = [principal[x] EXCEPT !.active = k]
      /\ \A y \in Ref \ {x} : principal'[y] = principal[y]
  BY <1>1, <1>2 DEF Inv, TypeOK
<1>8. Good([principal[x] EXCEPT !.active = k])
  BY <1>1, <1>2, <1>5 DEF Good, Principal
<1>9. UNCHANGED role
  BY DEF Enter
<1>10. ObjectsAreGood'
  <2> SUFFICES ASSUME NEW y \in Ref, principal'[y] # None
               PROVE  Good(principal[y])'
    BY DEF ObjectsAreGood
  <2>1. CASE y = x
    BY <2>1, <1>7, <1>8, <1>9 DEF Good
  <2>2. CASE y # x
    BY <2>2, <1>7, <1>9 DEF Good, ObjectsAreGood, Inv
  <2>3. QED BY <2>1, <2>2
<1>11. LiveObjects'
  <2>1. principal'[x] # None
    BY <1>5, <1>7, NoneAssumption
  <2>2. QED BY <2>1, <1>4, <1>7 DEF LiveObjects, Inv
<1>12. TypeOK'
  BY <1>4, <1>6 DEF Enter, Inv, TypeOK
<1>13. QED BY <1>4, <1>10, <1>11, <1>12 DEF Inv

\* Steps that add at most a role and move the request on.
LEMMA MovesKeep ==
  ASSUME Inv, NEW q \in Req, req[q] # None,
         NEW where \in {"authorise", "serve", "reload"},
         req' = [req EXCEPT ![q].at = where],
         RolesKept, role' \in [RoleId -> Role \cup {None}],
         UNCHANGED <<owners, principal, session, raced, given>>
  PROVE  Inv'
<1>1. Loading' /\ Live' = Live /\ req' \in [Req -> Request \cup {None}]
  BY Moves DEF Inv
<1>2. TypeOK'
  BY <1>1 DEF Inv, TypeOK
<1>3. ObjectsAreGood'
  BY ObjectsStay DEF Inv
<1>4. LiveObjects'
  BY <1>1 DEF Inv, LiveObjects
<1>5. QED BY <1>1, <1>2, <1>3, <1>4 DEF Inv

LEMMA BecomeKeeps ==
  ASSUME Inv, NEW q \in Req, Become(q)
  PROVE  Inv'
<1> DEFINE new == [account |-> principal[req[q].principal].account,
                   kind |-> req[q].command.kind]
<1>1. SomeId \in RoleId /\ role[SomeId] = None
  BY SomeIdIsUnused DEF Become
<1>2. /\ req[q] # None /\ req[q].command \in Command
      /\ req[q].command.name = "become"
  BY DEF Become, Serving, Inv, TypeOK, Request
<1>3. req[q].command.kind \in Trade
  BY <1>2 DEF Command
<1>4. new \in Role
  BY <1>2, <1>3, RequestObject, HasSignedUp DEF Inv, Role, Kind
<1>5. role' = [role EXCEPT ![SomeId] = new]
  BY DEF Become
<1> HIDE DEF new
<1>6. RolesKept /\ role' \in [RoleId -> Role \cup {None}]
  BY <1>1, <1>4, <1>5 DEF RolesKept, Inv, TypeOK
<1>7. /\ req' = [req EXCEPT ![q].at = "reload"]
      /\ UNCHANGED <<owners, principal, session, raced, given>>
  BY DEF Become
<1>8. QED BY <1>2, <1>6, <1>7, MovesKeep

LEMMA ReloadKeeps ==
  ASSUME Inv, NEW q \in Req, Reload(q)
  PROVE  Inv'
<1> DEFINE a == principal[req[q].principal].account
           new == [req[q] EXCEPT !.at = "install", !.loaded = SomeRef]
<1>1. req[q] # None /\ req[q] \in Request /\ Ref \ Live # {} /\ UNCHANGED role
  BY DEF Reload, Inv, TypeOK
<1>2. PICK p \in Loaded(a) : principal' = [principal EXCEPT ![SomeRef] = p]
  BY DEF Reload
<1>3. a \in Account /\ RolesOf(a, "Authenticated") # {}
  BY <1>1, RequestObject, HasSignedUp DEF Inv
<1>4. Good(p)
  BY <1>3, LoadedIsGood DEF Inv
<1>5. SomeRef \in Ref /\ SomeRef \notin Live
  BY <1>1, SomeRefIsUnused
<1>6. new \in Request /\ new # None /\ new.loaded # None
  BY <1>1, <1>5, NoneAssumption DEF Request
<1>7. req' = [req EXCEPT ![q] = new]
  BY <1>1 DEF Reload, Inv, TypeOK
<1>8. /\ req' \in [Req -> Request \cup {None}] /\ req'[q] = new
      /\ \A o \in Req \ {q} : req'[o] = req[o]
  BY <1>6, <1>7 DEF Inv, TypeOK
<1>9. new.principal = req[q].principal /\ new.loaded = SomeRef
  BY <1>1 DEF Request
<1>10. Loading'
  BY <1>6, <1>8 DEF Inv, Loading
<1> HIDE DEF new, a
<1>11. Live' \subseteq Live \cup {SomeRef}
  BY <1>1, <1>8, <1>9 DEF Live, Reload
<1>12. /\ ObjectsAreGood' /\ LiveObjects'
       /\ principal' \in [Ref -> Principal \cup {None}]
  BY <1>1, <1>2, <1>4, <1>11, ObjectComes DEF Inv
<1>13. TypeOK'
  BY <1>8, <1>12 DEF Reload, Inv, TypeOK
<1>14. QED BY <1>10, <1>12, <1>13 DEF Inv

\* Steps that end a request and leave its session.
LEMMA EndsKeep ==
  ASSUME Inv, NEW q \in Req, req[q] # None, Ended(q),
         owners' \subseteq RoleId,
         UNCHANGED <<role, session, raced, given>>
  PROVE  Inv'
<1>1. \A s \in Session : session'[s] # None => session'[s] \in Live
  BY DEF Live
<1>2. /\ ObjectsAreGood' /\ LiveObjects' /\ Loading'
      /\ principal' \in [Ref -> Principal \cup {None}]
      /\ req' \in [Req -> Request \cup {None}]
  BY <1>1, EndedFacts DEF Inv
<1>3. TypeOK'
  BY <1>2 DEF Inv, TypeOK
<1>4. QED BY <1>2, <1>3 DEF Inv

LEMMA InstallKeeps ==
  ASSUME Inv, NEW q \in Req, Install(q)
  PROVE  Inv'
<1> DEFINE s == req[q].session
<1>1. /\ req[q] # None /\ req[q].at = "install" /\ Ended(q) /\ UNCHANGED role
      /\ session' = Installed(s, req[q].loaded)
      /\ UNCHANGED <<owners, raced>>
  BY DEF Install
<1>2. /\ req[q] \in Request /\ s \in Session /\ req[q].command \in Command
      /\ req[q].loaded \in Ref
  BY <1>1 DEF Inv, TypeOK, Request, Loading
<1>3. req[q].loaded \in Live
  BY <1>1, <1>2, NoneAssumption DEF Live
<1>4. session' \in [Session -> Ref \cup {None}]
  BY <1>1, <1>2 DEF Installed, Inv, TypeOK
<1>5. \A o \in Session : session'[o] # None => session'[o] \in Live
  <2>1. \A o \in Session : session[o] # None => session[o] \in Live
    BY DEF Live
  <2>2. \A o \in Session : session'[o] \in {session[o], req[q].loaded}
    BY <1>1, <1>2 DEF Installed, Inv, TypeOK
  <2>3. QED BY <1>3, <2>1, <2>2
<1>6. /\ ObjectsAreGood' /\ LiveObjects' /\ Loading'
      /\ principal' \in [Ref -> Principal \cup {None}]
      /\ req' \in [Req -> Request \cup {None}]
  BY <1>1, <1>5, EndedFacts DEF Inv
<1>7. given' \in [Session -> SUBSET Trade]
  <2>1. CASE req[q].command.name = "become"
    <3>1. req[q].command.kind \in Trade
      BY <1>2, <2>1 DEF Command
    <3>2. given' = [given EXCEPT ![s] = @ \cup {req[q].command.kind}]
      BY <2>1 DEF Install
    <3>3. QED BY <1>2, <3>1, <3>2 DEF Inv, TypeOK
  <2>2. CASE req[q].command.name # "become"
    BY <2>2 DEF Install, Inv, TypeOK
  <2>3. QED BY <2>1, <2>2
<1>8. TypeOK'
  BY <1>1, <1>4, <1>6, <1>7 DEF Inv, TypeOK
<1>9. QED BY <1>6, <1>8 DEF Inv

LEMMA SignUpKeeps ==
  ASSUME Inv, NEW a \in Account, SignUp(a)
  PROVE  Inv'
<1>1. SomeId \in RoleId /\ role[SomeId] = None
  BY SomeIdIsUnused DEF SignUp
<1>2. [account |-> a, kind |-> "Authenticated"] \in Role
  BY DEF Role, Kind
<1>3. RolesKept /\ role' \in [RoleId -> Role \cup {None}]
  BY <1>1, <1>2 DEF SignUp, RolesKept, Inv, TypeOK
<1>4. TypeOK' /\ Loading' /\ LiveObjects'
  BY <1>3 DEF SignUp, Inv, TypeOK, Loading, LiveObjects, Live
<1>5. ObjectsAreGood'
  BY <1>3, ObjectsStay DEF Inv, SignUp
<1>6. QED BY <1>4, <1>5 DEF Inv

LEMMA SignInKeeps ==
  ASSUME Inv, NEW s \in Session, NEW a \in Account, SignIn(s, a)
  PROVE  Inv'
<1>1. PICK p \in Loaded(a) : principal' = [principal EXCEPT ![SomeRef] = p]
  BY DEF SignIn
<1>2. Good(p)
  BY LoadedIsGood DEF SignIn, Inv
<1>3. Ref \ Live # {} /\ SomeRef \in Ref /\ UNCHANGED <<role, req>>
  BY SomeRefIsUnused DEF SignIn
<1>4. session' = [session EXCEPT ![s] = SomeRef]
  BY DEF SignIn
<1>5. /\ session' \in [Session -> Ref \cup {None}]
      /\ \A o \in Session : session'[o] \in {session[o], SomeRef}
  BY <1>3, <1>4 DEF Inv, TypeOK
<1>6. Live' \subseteq Live \cup {SomeRef}
  BY <1>3, <1>5 DEF Live
<1>7. /\ ObjectsAreGood' /\ LiveObjects'
      /\ principal' \in [Ref -> Principal \cup {None}]
  BY <1>1, <1>2, <1>3, <1>6, ObjectComes DEF Inv
<1>8. TypeOK' /\ Loading'
  BY <1>5, <1>7 DEF SignIn, Inv, TypeOK, Loading
<1>9. QED BY <1>7, <1>8 DEF Inv

LEMMA SignOutKeeps ==
  ASSUME Inv, NEW s \in Session, SignOut(s)
  PROVE  Inv'
<1>1. /\ session' \in [Session -> Ref \cup {None}]
      /\ \A o \in Session : session'[o] \in {session[o], None}
  BY DEF SignOut, Inv, TypeOK
<1>2. Live' \subseteq Live
  BY <1>1 DEF SignOut, Live
<1>3. /\ ObjectsAreGood' /\ LiveObjects'
      /\ principal' \in [Ref -> Principal \cup {None}]
  BY <1>2, GarbageGoes DEF SignOut, Inv
<1>4. TypeOK' /\ Loading'
  BY <1>1, <1>3 DEF SignOut, Inv, TypeOK, Loading
<1>5. QED BY <1>3, <1>4 DEF Inv

LEMMA ReceiveKeeps ==
  ASSUME Inv, NEW q \in Req, NEW s \in Session, NEW c \in Command,
         Receive(q, s, c)
  PROVE  Inv'
<1> DEFINE new == [at |-> "enter", session |-> s, principal |-> session[s],
                   loaded |-> None, command |-> c]
<1>1. session[s] \in Ref /\ session[s] \in Live
  BY DEF Receive, Inv, TypeOK, Live
<1>2. new \in Request /\ new.principal = session[s] /\ new.loaded = None
  BY <1>1 DEF Request
<1>3. new.at # "install"
  OBVIOUS
<1>4. /\ req' = [req EXCEPT ![q] = new]
      /\ UNCHANGED <<role, owners, principal, session, given>>
  BY DEF Receive
<1> HIDE DEF new
<1>5. /\ req' \in [Req -> Request \cup {None}] /\ req'[q] = new
      /\ \A o \in Req \ {q} : req'[o] = req[o]
  BY <1>2, <1>4 DEF Inv, TypeOK
<1>6. Loading'
  BY <1>3, <1>5 DEF Inv, Loading
<1>7. Live' \subseteq Live
  BY <1>1, <1>2, <1>4, <1>5 DEF Live
<1>8. LiveObjects'
  BY <1>4, <1>7 DEF LiveObjects, Inv
<1>9. ObjectsAreGood'
  BY <1>4, ObjectsStay DEF Inv, RolesKept
<1>10. TypeOK'
  BY <1>4, <1>5 DEF Receive, Inv, TypeOK
<1>11. QED BY <1>6, <1>8, <1>9, <1>10 DEF Inv

LEMMA StepKeeps ==
  ASSUME Inv, NEW q \in Req, Step(q)
  PROVE  Inv'
<1>1. CASE Permit(q) \/ Update(q)
  <2>1. /\ req[q] # None /\ RolesKept /\ role' \in [RoleId -> Role \cup {None}]
        /\ UNCHANGED <<owners, principal, session, raced, given>>
    BY <1>1 DEF Permit, Update, Authorising, Serving, RolesKept, Inv, TypeOK
  <2>2. PICK where \in {"serve", "reload"} : req' = [req EXCEPT ![q].at = where]
    BY <1>1 DEF Permit, Update
  <2>3. QED BY <2>1, <2>2, MovesKeep
<1>2. CASE Refuse(q) \/ Edit(q) \/ Fail(q)
  <2>1. /\ req[q] # None /\ Ended(q) /\ owners' \subseteq RoleId
        /\ UNCHANGED <<role, session, raced, given>>
    BY <1>2 DEF Refuse, Edit, Fail, Authorising, Serving, Inv, TypeOK
  <2>2. QED BY <2>1, EndsKeep
<1>3. CASE Create(q)
  <2>1. owners' \subseteq RoleId
    BY <1>3 DEF Create, RolesOf, Inv, TypeOK
  <2>2. QED BY <1>3, <2>1, EndsKeep DEF Create, Serving
<1>4. QED
  BY <1>1, <1>2, <1>3, EnterKeeps, BecomeKeeps, ReloadKeeps, InstallKeeps
  DEF Step

\* The parts of the invariant hold in every reachable state.
LEMMA PartsInductive == Spec => []Inv
<1>1. Init => Inv
  BY NoneAssumption
  DEF Init, Inv, TypeOK, ObjectsAreGood, LiveObjects, Loading, Live
<1>2. Inv /\ [Next]_vars => Inv'
  <2>1. Inv /\ UNCHANGED vars => Inv'
    BY DEF vars, Inv, TypeOK, ObjectsAreGood, Good, LiveObjects, Loading, Live
  <2>2. Inv /\ Next => Inv'
    BY SignUpKeeps, SignInKeeps, SignOutKeeps, ReceiveKeeps, StepKeeps DEF Next
  <2>3. QED BY <2>1, <2>2
<1>3. QED BY <1>1, <1>2, PTL DEF Spec

\* The invariant of Accounts, for any number of accounts, sessions, requests
\* and kinds of role.
THEOREM Inductive == Spec => []IInv
<1>1. Inv => IInv
  BY InvariantInParts DEF Inv
<1>2. QED BY <1>1, PartsInductive, PTL

\* Every variable keeps its type.
THEOREM TypeCorrect == Spec => []TypeOK
<1>1. IInv => TypeOK
  BY DEF IInv
<1>2. QED BY <1>1, Inductive, PTL

\* The assertion of getActiveRoleId never fails.
THEOREM ActiveRolesAreHeld == Spec => []ActiveRoleIsHeld
<1>1. IInv => ActiveRoleIsHeld
  BY DEF IInv
<1>2. QED BY <1>1, Inductive, PTL

\* However requests overlap on one principal, none is permitted to touch a row
\* of another account.
THEOREM OthersRowsAreRefused == Spec => OnlyOwnRowsArePermitted
<1> DEFINE OwnRow == \A q \in Req :
       Permit(q) /\ req[q].command.name = "edit" =>
         role[req[q].command.owner].account
           = principal[req[q].principal].account
<1>1. Inv => OwnRow
  <2> SUFFICES ASSUME Inv, NEW q \in Req, Permit(q), req[q].command.name = "edit"
               PROVE  role[req[q].command.owner].account
                        = principal[req[q].principal].account
    OBVIOUS
  <2> DEFINE p == principal[req[q].principal]
  <2>1. Good(p)
    BY RequestObject DEF Inv, Permit, Authorising
  <2>2. req[q].command.owner = p.roleMap[p.active]
    BY DEF Permit, May
  <2>3. p.active \in Kind /\ p.roleMap[p.active] # None
    BY <2>1 DEF Good, Principal
  <2>4. role[p.roleMap[p.active]] = [account |-> p.account, kind |-> p.active]
    BY <2>1, <2>3 DEF Good
  <2>5. QED BY <2>2, <2>4
<1>2. [][OwnRow]_vars => OnlyOwnRowsArePermitted
  BY DEF OnlyOwnRowsArePermitted
<1>3. Inv /\ [Next]_vars => [OwnRow]_vars
  BY <1>1
<1>4. QED BY <1>2, <1>3, PartsInductive, PTL DEF Spec

-----------------------------------------------------------------------------
(***************************************************************************)
(* Sessions whose requests do not overlap.                                 *)
(***************************************************************************)

NewRoles(q) ==
  LET old == principal[req[q].principal]
      new == principal[req[q].loaded]
      c == req[q].command
  IN  /\ req[q].at = "reload" /\ c.name = "become" =>
           RolesOf(old.account, c.kind) # {}
      /\ req[q].at = "install" =>
           /\ \A k \in Kind : old.roleMap[k] # None => new.roleMap[k] # None
           /\ c.name = "become" => new.roleMap[c.kind] # None

SessionInv ==
  /\ ObjectsAreUnshared
  /\ OneAtATime
  /\ RequestHasTheSession
  /\ GivenIsKnown
  /\ OwnersAreManagers
  /\ \A q \in Req : req[q] # None => NewRoles(q)

\* What the steps have in common: no request changes its session, object or
\* command, and no object that is in use changes its account or its roles.
Continues ==
  \A o \in Req : req'[o] # None =>
    /\ req[o] # None
    /\ req'[o].session = req[o].session
    /\ req'[o].principal = req[o].principal
    /\ req'[o].command = req[o].command

Steady ==
  \A x \in Live : principal'[x] # None =>
    /\ principal'[x].account = principal[x].account
    /\ principal'[x].roleMap = principal[x].roleMap

Closes == \A s \in Session : session'[s] \in {session[s], None}

LEMMA UsedIsLive ==
  ASSUME NEW s \in Session, NEW x, Uses(s, x)
  PROVE  x \in Live
BY DEF Uses, Serves, Live

\* The objects a session comes to use were its own, or nobody's.
LEMMA StayUnshared ==
  ASSUME ObjectsAreUnshared, NEW o \in Session,
         \A s \in Session : \A x \in Ref :
           Uses(s, x)' => Uses(s, x) \/ (s = o /\ x \notin Live)
  PROVE  ObjectsAreUnshared'
BY UsedIsLive DEF ObjectsAreUnshared

\* Rows of roles stay with their accounts.
LEMMA RolesOfStay ==
  ASSUME RolesKept, NEW a \in Account, NEW k \in Kind
  PROVE  RolesOf(a, k) \subseteq RolesOf(a, k)'
<1>1. [account |-> a, kind |-> k] # None
  BY NoneAssumption DEF Role
<1>2. QED BY <1>1 DEF RolesOf, RolesKept

\* The objects and the command of a request.
LEMMA RequestFacts ==
  ASSUME Inv, NEW q \in Req, req[q] # None
  PROVE  /\ req[q] \in Request /\ req[q].command \in Command
         /\ req[q].session \in Session
         /\ req[q].principal \in Live
         /\ req[q].loaded \in Ref => req[q].loaded \in Live
         /\ req[q].at = "install" => req[q].loaded \in Live
         /\ Good(principal[req[q].principal])
         /\ principal[req[q].principal].account \in Account
<1>1. req[q] \in Request
  BY DEF Inv, TypeOK
<1>2. /\ req[q].principal \in Ref /\ req[q].loaded \in Ref \cup {None}
      /\ req[q].command \in Command /\ req[q].session \in Session
  BY <1>1 DEF Request
<1>3. /\ req[q].principal \in Live
      /\ req[q].loaded \in Ref => req[q].loaded \in Live
  BY <1>2, NoneAssumption DEF Live
<1>4. req[q].at = "install" => req[q].loaded \in Live
  BY <1>2, <1>3 DEF Inv, Loading
<1>5. Good(principal[req[q].principal])
  BY RequestObject DEF Inv
<1>6. QED BY <1>1, <1>2, <1>3, <1>4, <1>5 DEF Good, Principal

\* A request that does nothing keeps the roles it knows of.
LEMMA NewRolesStay ==
  ASSUME Inv, Inv', RolesKept, Steady, NEW o \in Req,
         req[o] # None, NewRoles(o), req'[o] = req[o]
  PROVE  NewRoles(o)'
<1> DEFINE x == req[o].principal
           y == req[o].loaded
           c == req[o].command
<1>1. /\ x \in Live /\ c \in Command /\ principal[x].account \in Account
      /\ req[o].at = "install" => y \in Live
  BY RequestFacts DEF Inv
<1>2. /\ x \in Live' /\ x \in Ref
      /\ req[o].at = "install" => y \in Live' /\ y \in Ref
  <2>1. x \in Ref /\ (req[o].at = "install" => y \in Ref)
    BY <1>1 DEF Inv, LiveObjects
  <2>2. req'[o] # None /\ req'[o].principal = x /\ req'[o].loaded = y
    OBVIOUS
  <2>3. QED BY <2>1, <2>2, NoneAssumption DEF Live
<1>3. principal'[x] # None /\ (req[o].at = "install" => principal'[y] # None)
  BY <1>2 DEF Inv, LiveObjects
<1>4. /\ principal'[x].account = principal[x].account
      /\ principal'[x].roleMap = principal[x].roleMap
      /\ req[o].at = "install" => principal'[y].roleMap = principal[y].roleMap
  BY <1>1, <1>3 DEF Steady
<1>5. c.name = "become" => c.kind \in Kind
  BY <1>1 DEF Command, Kind
<1>6. ASSUME req[o].at = "reload", c.name = "become"
      PROVE  RolesOf(principal[x].account, c.kind)' # {}
  <2>1. RolesOf(principal[x].account, c.kind) # {}
    BY <1>6 DEF NewRoles
  <2>2. RolesOf(principal[x].account, c.kind)
          \subseteq {r \in RoleId : role'[r] = [account |-> principal[x].account,
                                                kind |-> c.kind]}
    BY <1>1, <1>5, <1>6, RolesOfStay DEF RolesOf
  <2>3. QED BY <2>1, <2>2, <1>4 DEF RolesOf
<1>7. QED BY <1>4, <1>6 DEF NewRoles

\* The parts of SessionInv, for the steps that neither receive a request nor
\* give a session another object.
LEMMA Routine ==
  ASSUME Inv, Inv', SessionInv, Continues, RolesKept, Steady, Closes,
         UNCHANGED <<raced, given>>, owners \subseteq owners',
         \A r \in owners' \ owners : role[r] # None /\ role[r].kind = "Manager",
         \A o \in Req :
           /\ req'[o] # None /\ req'[o].at = "authorise"
           /\ req'[o].session \notin raced
           => principal'[req'[o].principal].active = ControllerOf(req'[o].command),
         NEW s0 \in Session,
         \A s \in Session : \A x \in Ref :
           Uses(s, x)' => Uses(s, x) \/ (s = s0 /\ x \notin Live),
         \A o \in Req : req'[o] # None => NewRoles(o)'
  PROVE  SessionInv'
<1>1. ObjectsAreUnshared'
  BY StayUnshared DEF SessionInv
<1>2. OneAtATime'
  BY DEF SessionInv, OneAtATime, Serves, Continues
<1>3. RequestHasTheSession'
  BY DEF SessionInv, RequestHasTheSession, Serves, Continues, Closes
<1>4. GivenIsKnown'
  <2> SUFFICES ASSUME NEW s \in Session \ raced, session'[s] # None,
                      NEW k \in given[s]
               PROVE  principal'[session'[s]].roleMap[k] # None
    BY DEF GivenIsKnown
  <2>1. session'[s] = session[s] /\ session[s] # None
    BY DEF Closes
  <2>2. session[s] \in Live /\ session'[s] \in Live'
    BY <2>1 DEF Live
  <2>3. principal'[session[s]] # None
    BY <2>1, <2>2 DEF Inv, LiveObjects
  <2>4. principal'[session[s]].roleMap = principal[session[s]].roleMap
    BY <2>2, <2>3 DEF Steady
  <2>5. principal[session[s]].roleMap[k] # None
    BY <2>1 DEF SessionInv, GivenIsKnown
  <2>6. QED BY <2>1, <2>4, <2>5
<1>5. OwnersAreManagers'
  <2>1. ASSUME NEW r \in owners' PROVE role'[r] # None /\ role'[r].kind = "Manager"
    <3>1. role[r] # None /\ role[r].kind = "Manager"
      BY DEF SessionInv, OwnersAreManagers
    <3>2. r \in RoleId
      BY DEF Inv, TypeOK
    <3>3. QED BY <3>1, <3>2 DEF RolesKept
  <2>2. ASSUME NEW o \in Req, req'[o] # None, req'[o].command.name = "edit"
        PROVE  req'[o].command.owner \in owners'
    BY <2>2 DEF Continues, SessionInv, OwnersAreManagers
  <2>3. QED BY <2>1, <2>2 DEF OwnersAreManagers
<1>6. QED BY <1>1, <1>2, <1>3, <1>4, <1>5 DEF SessionInv

\* Requests that end, or whose session does: the others do not notice.
LEMMA EndsRoutine ==
  ASSUME Inv, Inv', SessionInv, Closes, NEW gone \in SUBSET Req,
         req' = [o \in Req |-> IF o \in gone THEN None ELSE req[o]],
         principal' = Collected(principal), UNCHANGED <<role, raced, given>>,
         owners \subseteq owners',
         \A r \in owners' \ owners : role[r] # None /\ role[r].kind = "Manager"
  PROVE  SessionInv'
<1>1. \A o \in Req : req'[o] # None => req[o] # None /\ req'[o] = req[o]
  OBVIOUS
<1>2. \A x \in Ref : principal'[x] # None => principal'[x] = principal[x]
  BY DEF Collected
<1>3. Live \subseteq Ref
  BY DEF Inv, LiveObjects
<1>4. Continues /\ RolesKept /\ Steady
  BY <1>1, <1>2, <1>3 DEF Continues, RolesKept, Steady
<1>5. ASSUME NEW o \in Req, req'[o] # None, req'[o].at = "authorise",
             req'[o].session \notin raced
      PROVE  principal'[req'[o].principal].active = ControllerOf(req'[o].command)
  <2>1. req[o].session \in Session /\ req[o] # None /\ req'[o] = req[o]
    BY <1>1, <1>5, RequestFacts
  <2>2. principal[req[o].principal].active = ControllerOf(req[o].command)
    BY <1>5, <2>1 DEF SessionInv, RequestHasTheSession, Serves
  <2>3. req[o].principal \in Live /\ req'[o].principal \in Live'
    BY <2>1, <1>5, RequestFacts, NoneAssumption, <1>3 DEF Live
  <2>4. principal'[req[o].principal] # None
    BY <2>1, <2>3 DEF Inv, LiveObjects
  <2>5. QED BY <1>2, <1>3, <2>1, <2>2, <2>3, <2>4
<1>6. \A s \in Session : \A x \in Ref : Uses(s, x)' => Uses(s, x)
  BY <1>1 DEF Uses, Serves, Closes
<1>7. \A o \in Req : req'[o] # None => NewRoles(o)'
  BY <1>1, <1>4, NewRolesStay DEF SessionInv
<1>8. CASE Session = {}
  <2>1. \A o \in Req : req'[o] = None
    BY <1>1, <1>8, RequestFacts
  <2>2. QED
    BY <1>8, <2>1, <1>4 DEF SessionInv, ObjectsAreUnshared, OneAtATime,
       RequestHasTheSession, GivenIsKnown, OwnersAreManagers, RolesKept, Inv, TypeOK
<1>9. CASE Session # {}
  <2>1. PICK s0 \in Session : TRUE
    BY <1>9
  <2>2. QED BY <1>4, <1>5, <1>6, <1>7, <2>1, Routine
<1>10. QED BY <1>8, <1>9

\* A request goes on to its next statement.
LEMMA MovesRoutine ==
  ASSUME Inv, Inv', SessionInv, RolesKept, Steady,
         NEW q \in Req, req[q] # None,
         NEW where \in {"authorise", "serve", "reload"},
         req' = [req EXCEPT ![q].at = where],
         UNCHANGED <<owners, session, raced, given>>,
         \A x \in Ref \ {req[q].principal} : principal'[x] = principal[x],
         where # "authorise" => UNCHANGED principal,
         where = "authorise" =>
           principal'[req[q].principal].active = ControllerOf(req[q].command),
         where = "reload" => NewRoles(q)'
  PROVE  SessionInv'
<1> DEFINE s0 == req[q].session
<1>1. /\ req[q] \in Request /\ s0 \in Session
  BY RequestFacts
<1>2. /\ \A o \in Req \ {q} : req'[o] = req[o]
      /\ req'[q] = [req[q] EXCEPT !.at = where]
  BY DEF Inv, TypeOK
<1>3. /\ req'[q].at = where /\ req'[q].session = s0
      /\ req'[q].principal = req[q].principal
      /\ req'[q].loaded = req[q].loaded
      /\ req'[q].command = req[q].command
  BY <1>1, <1>2 DEF Request
<1>4. Continues
  BY <1>2, <1>3 DEF Continues
<1>5. Closes
  BY DEF Closes
<1>6. \A s \in Session : \A x \in Ref : Uses(s, x)' => Uses(s, x)
  BY <1>2, <1>3 DEF Uses, Serves
<1>7. ASSUME NEW o \in Req, req'[o] # None, req'[o].at = "authorise",
             req'[o].session \notin raced
      PROVE  principal'[req'[o].principal].active = ControllerOf(req'[o].command)
  <2>1. CASE o = q
    BY <1>3, <1>7, <2>1
  <2>2. CASE o # q
    <3>1. /\ req'[o] = req[o] /\ req[o] # None /\ req[o].session \in Session
          /\ req[o].principal \in Live /\ req[q].principal \in Live
      BY <1>2, <1>7, <2>2, RequestFacts
    <3>2. principal[req[o].principal].active = ControllerOf(req[o].command)
      BY <1>7, <3>1 DEF SessionInv, RequestHasTheSession, Serves
    <3>3. req[o].session # s0
      BY <1>7, <2>2, <3>1 DEF SessionInv, OneAtATime, Serves
    <3>4. req[o].principal \in Ref /\ req[o].principal # None
      BY <3>1 DEF Inv, LiveObjects, Live
    <3>5. req[o].principal # req[q].principal
      BY <1>1, <3>1, <3>3, <3>4 DEF SessionInv, ObjectsAreUnshared, Uses, Serves
    <3>6. QED BY <3>1, <3>2, <3>4, <3>5
  <2>3. QED BY <2>1, <2>2
<1>8. ASSUME NEW o \in Req, req'[o] # None PROVE NewRoles(o)'
  <2>1. CASE o = q
    BY <1>3, <2>1 DEF NewRoles
  <2>2. CASE o # q
    BY <1>2, <1>8, <2>2, NewRolesStay DEF SessionInv
  <2>3. QED BY <2>1, <2>2
<1> HIDE DEF s0
<1>9. QED BY <1>1, <1>4, <1>5, <1>6, <1>7, <1>8, Routine

LEMMA EnterRoutine ==
  ASSUME Inv, Inv', SessionInv, NEW q \in Req, Enter(q)
  PROVE  SessionInv'
<1> DEFINE x == req[q].principal
           k == ControllerOf(req[q].command)
<1>1. /\ req[q] # None /\ req' = [req EXCEPT ![q].at = "authorise"]
      /\ principal' = [principal EXCEPT ![x].active = k]
      /\ UNCHANGED <<role, owners, session, raced, given>>
  BY DEF Enter
<1>2. x \in Ref /\ Good(principal[x])
  BY <1>1, RequestObject DEF Inv
<1>3. /\ \A y \in Ref \ {x} : principal'[y] = principal[y]
      /\ principal'[x] = [principal[x] EXCEPT !.active = k]
  BY <1>1, <1>2 DEF Inv, TypeOK
<1>4. /\ principal'[x].active = k
      /\ principal'[x].account = principal[x].account
      /\ principal'[x].roleMap = principal[x].roleMap
  BY <1>2, <1>3 DEF Good, Principal
<1>5. Steady /\ RolesKept
  BY <1>1, <1>3, <1>4 DEF Steady, RolesKept, Inv, LiveObjects
<1> HIDE DEF x, k
<1>6. QED
  BY <1>1, <1>3, <1>4, <1>5, MovesRoutine DEF x, k

LEMMA BecomeRoutine ==
  ASSUME Inv, Inv', SessionInv, NEW q \in Req, Become(q)
  PROVE  SessionInv'
<1> DEFINE x == req[q].principal
           c == req[q].command
           new == [account |-> principal[x].account, kind |-> c.kind]
<1>1. /\ req[q] # None /\ req' = [req EXCEPT ![q].at = "reload"]
      /\ role' = [role EXCEPT ![SomeId] = new]
      /\ UNCHANGED <<owners, principal, session, raced, given>>
  BY DEF Become, Serving
<1>2. SomeId \in RoleId /\ role[SomeId] = None
  BY SomeIdIsUnused DEF Become
<1>3. role'[SomeId] = new /\ RolesKept
  BY <1>1, <1>2 DEF RolesKept, Inv, TypeOK
<1>4. Steady
  BY <1>1 DEF Steady
<1>5. NewRoles(q)'
  <2>1. req[q] \in Request
    BY <1>1, RequestFacts
  <2>2. req'[q] = [req[q] EXCEPT !.at = "reload"]
    BY <1>1 DEF Inv, TypeOK
  <2>3. req'[q].principal = x /\ req'[q].command = c /\ req'[q].at = "reload"
    BY <2>1, <2>2 DEF Request
  <2>4. SomeId \in RolesOf(principal[x].account, c.kind)'
    BY <1>1, <1>2, <1>3 DEF RolesOf
  <2>5. QED BY <1>1, <2>3, <2>4 DEF NewRoles, RolesOf
<1> HIDE DEF x, c, new
<1>6. QED
  BY <1>1, <1>3, <1>4, <1>5, MovesRoutine

\* A new object disturbs no other.
LEMMA NewObject ==
  ASSUME Inv, NEW p, Ref \ Live # {},
         principal' = [principal EXCEPT ![SomeRef] = p]
  PROVE  /\ SomeRef \in Ref \ Live /\ principal'[SomeRef] = p
         /\ \A x \in Ref \ {SomeRef} : principal'[x] = principal[x]
         /\ \A x \in Live : x \in Ref /\ principal'[x] = principal[x]
         /\ Steady
<1>1. SomeRef \in Ref /\ SomeRef \notin Live
  BY SomeRefIsUnused
<1> DEFINE y == SomeRef
<1>2. y \in Ref /\ y \notin Live /\ principal' = [principal EXCEPT ![y] = p]
  BY <1>1
<1> HIDE DEF y
<1>3. principal'[y] = p /\ \A x \in Ref \ {y} : principal'[x] = principal[x]
  BY <1>2 DEF Inv, TypeOK
<1>4. \A x \in Live : x \in Ref /\ principal'[x] = principal[x]
  BY <1>2, <1>3 DEF Inv, LiveObjects
<1>5. QED BY <1>2, <1>3, <1>4 DEF y, Steady

LEMMA ReloadRoutine ==
  ASSUME Inv, Inv', SessionInv, NEW q \in Req, Reload(q)
  PROVE  SessionInv'
<1> DEFINE x == req[q].principal
           a == principal[x].account
           c == req[q].command
           y == SomeRef
           s0 == req[q].session
<1>1. /\ req[q] # None /\ req[q].at = "reload" /\ Ref \ Live # {}
      /\ UNCHANGED <<role, owners, session, raced, given>>
      /\ req' = [req EXCEPT ![q].at = "install", ![q].loaded = y]
  BY DEF Reload
<1>2. PICK p \in Loaded(a) : principal' = [principal EXCEPT ![SomeRef] = p]
  BY DEF Reload
<1>3. /\ y \in Ref \ Live /\ principal'[y] = p
      /\ \A z \in Live : z \in Ref /\ principal'[z] = principal[z]
      /\ Steady
  BY <1>1, <1>2, NewObject
<1>4. /\ req[q] \in Request /\ c \in Command /\ s0 \in Session /\ x \in Live
      /\ Good(principal[x]) /\ a \in Account
  BY <1>1, RequestFacts
<1> HIDE DEF y
<1>5. /\ \A o \in Req \ {q} : req'[o] = req[o]
      /\ req'[q] = [req[q] EXCEPT !.at = "install", !.loaded = y]
  BY <1>1 DEF Inv, TypeOK
<1>6. /\ req'[q].at = "install" /\ req'[q].loaded = y /\ req'[q].principal = x
      /\ req'[q].session = s0 /\ req'[q].command = c
  BY <1>4, <1>5 DEF Request
<1>7. Continues /\ RolesKept /\ Closes
  BY <1>1, <1>5, <1>6 DEF Continues, RolesKept, Closes
<1>8. \A k \in Kind : RolesOf(a, k) # {} => p.roleMap[k] # None
  BY NoneAssumption DEF Loaded, RolesOf
<1>9. NewRoles(q)'
  <2>1. ASSUME NEW k \in Kind, principal[x].roleMap[k] # None
        PROVE  p.roleMap[k] # None
    <3>1. principal[x].roleMap[k] \in RolesOf(a, k)
      BY <1>4, <2>1 DEF Good, Principal, RolesOf
    <3>2. QED BY <1>8, <3>1
  <2>2. ASSUME c.name = "become" PROVE p.roleMap[c.kind] # None
    <3>1. c.kind \in Kind
      BY <1>4, <2>2 DEF Command, Kind
    <3>2. RolesOf(a, c.kind) # {}
      BY <1>1, <2>2 DEF SessionInv, NewRoles
    <3>3. QED BY <1>8, <3>1, <3>2
  <2>3. QED BY <1>3, <1>4, <1>6, <2>1, <2>2 DEF NewRoles
<1>10. \A o \in Req : req'[o] # None => NewRoles(o)'
  BY <1>3, <1>5, <1>7, <1>9, NewRolesStay DEF SessionInv
<1>11. ASSUME NEW o \in Req, req'[o] # None, req'[o].at = "authorise",
              req'[o].session \notin raced
       PROVE  principal'[req'[o].principal].active = ControllerOf(req'[o].command)
  <2>1. req'[o] = req[o] /\ req[o] # None
    BY <1>5, <1>6, <1>11
  <2>2. req[o].session \in Session /\ req[o].principal \in Live
    BY <2>1, RequestFacts
  <2>3. principal[req[o].principal].active = ControllerOf(req[o].command)
    BY <1>11, <2>1, <2>2 DEF SessionInv, RequestHasTheSession, Serves
  <2>4. QED BY <1>3, <2>1, <2>2, <2>3
<1>12. \A s \in Session : \A z \in Ref :
         Uses(s, z)' => Uses(s, z) \/ (s = s0 /\ z \notin Live)
  <2> SUFFICES ASSUME NEW s \in Session, NEW z \in Ref, Uses(s, z)', ~Uses(s, z)
               PROVE  s = s0 /\ z \notin Live
    OBVIOUS
  <2>1. PICK o \in Req :
          req'[o] # None /\ req'[o].session = s /\ z \in {req'[o].principal, req'[o].loaded}
    BY <1>1 DEF Uses, Serves
  <2>2. z # None
    BY DEF Uses
  <2>3. o = q
    BY <1>5, <2>1, <2>2 DEF Uses, Serves
  <2>4. s = s0 /\ z \in {x, y}
    BY <1>6, <2>1, <2>3
  <2>5. z # x
    BY <1>1, <2>2, <2>4 DEF Uses, Serves
  <2>6. QED BY <1>3, <2>4, <2>5
<1> HIDE DEF s0
<1>13. QED
  BY <1>1, <1>3, <1>4, <1>7, <1>10, <1>11, <1>12, Routine DEF s0

LEMMA SignUpRoutine ==
  ASSUME Inv, Inv', SessionInv, NEW a \in Account, SignUp(a)
  PROVE  SessionInv'
<1>1. SomeId \in RoleId /\ role[SomeId] = None
  BY SomeIdIsUnused DEF SignUp
<1>2. RolesKept /\ Steady /\ Continues /\ Closes
  BY <1>1 DEF SignUp, RolesKept, Steady, Continues, Closes, Inv, TypeOK
<1>3. \A o \in Req : req'[o] # None => NewRoles(o)'
  BY <1>2, NewRolesStay DEF SessionInv, SignUp
<1>4. /\ ObjectsAreUnshared' /\ OneAtATime' /\ RequestHasTheSession'
      /\ GivenIsKnown'
  BY DEF SignUp, SessionInv, ObjectsAreUnshared, OneAtATime, Uses, Serves,
     RequestHasTheSession, GivenIsKnown
<1>5. OwnersAreManagers'
  BY <1>2 DEF SignUp, SessionInv, OwnersAreManagers, RolesKept, Inv, TypeOK
<1>6. QED BY <1>3, <1>4, <1>5 DEF SessionInv

LEMMA SignOutRoutine ==
  ASSUME Inv, Inv', SessionInv, NEW s \in Session, SignOut(s)
  PROVE  SessionInv'
<1>1. Closes
  BY DEF SignOut, Closes, Inv, TypeOK
<1> DEFINE gone == {}
<1>2. /\ gone \in SUBSET Req
      /\ req' = [o \in Req |-> IF o \in gone THEN None ELSE req[o]]
  BY DEF SignOut, Inv, TypeOK
<1>3. /\ principal' = Collected(principal) /\ UNCHANGED <<role, raced, given>>
      /\ owners \subseteq owners' /\ owners' \ owners = {}
  BY DEF SignOut
<1> HIDE DEF gone
<1>4. QED BY <1>1, <1>2, <1>3, EndsRoutine

LEMMA EndRoutine ==
  ASSUME Inv, Inv', SessionInv, NEW q \in Req,
         Refuse(q) \/ Edit(q) \/ Fail(q) \/ Create(q)
  PROVE  SessionInv'
<1>1. /\ Ended(q) /\ UNCHANGED <<role, session, raced, given>>
      /\ req[q] # None
  BY DEF Refuse, Edit, Fail, Create, Authorising, Serving
<1>2. req' = [o \in Req |-> IF o \in {q} THEN None ELSE req[o]]
  BY <1>1 DEF Ended, Inv, TypeOK
<1>3. Closes /\ principal' = Collected(principal)
  BY <1>1 DEF Closes, Ended
<1>4. owners \subseteq owners' /\ owners' \ owners
        \subseteq RolesOf(principal[req[q].principal].account, "Manager")
  BY DEF Refuse, Edit, Fail, Create
<1>5. \A r \in owners' \ owners : role[r] # None /\ role[r].kind = "Manager"
  <2>1. principal[req[q].principal].account \in Account
    BY <1>1, RequestFacts
  <2>2. [account |-> principal[req[q].principal].account, kind |-> "Manager"] \in Role
    BY <2>1, NoneAssumption DEF Role, Kind
  <2>3. QED BY <1>4, <2>2, NoneAssumption DEF RolesOf
<1>6. QED BY <1>1, <1>2, <1>3, <1>4, <1>5, EndsRoutine

\* The principal that was loaded knows the roles that the one it replaces knew,
\* and the one that the request has stored.
LEMMA InstallRoutine ==
  ASSUME Inv, Inv', SessionInv, NEW q \in Req, Install(q)
  PROVE  SessionInv'
<1> DEFINE s0 == req[q].session
           y == req[q].loaded
           c == req[q].command
<1>1. /\ req[q] # None /\ req[q].at = "install"
      /\ session' = Installed(s0, y)
      /\ given' = IF c.name = "become"
                  THEN [given EXCEPT ![s0] = @ \cup {c.kind}] ELSE given
      /\ req' = [req EXCEPT ![q] = None] /\ principal' = Collected(principal)
      /\ UNCHANGED <<role, owners, raced>>
  BY DEF Install, Ended
<1>2. /\ req[q] \in Request /\ c \in Command /\ s0 \in Session /\ y \in Live
      /\ req[q].principal \in Live /\ Live \subseteq Ref
  BY <1>1, RequestFacts DEF Inv, LiveObjects
<1>3. /\ session[s0] = None => session' = session
      /\ session[s0] # None => /\ session'[s0] = y
                               /\ \A o \in Session \ {s0} : session'[o] = session[o]
  BY <1>1, <1>2 DEF Installed, Inv, TypeOK
<1>4. /\ req'[q] = None
      /\ \A o \in Req : req'[o] # None => o # q /\ req[o] # None /\ req'[o] = req[o]
  BY <1>1 DEF Inv, TypeOK
<1>5. \A x \in Ref : principal'[x] # None => principal'[x] = principal[x]
  BY <1>1 DEF Collected
<1>6. Continues /\ RolesKept /\ Steady
  BY <1>1, <1>2, <1>4, <1>5 DEF Continues, RolesKept, Steady
<1> HIDE DEF s0, y, c
<1>7. ObjectsAreUnshared'
  <2>1. Uses(s0, y)
    BY <1>1, <1>2, NoneAssumption DEF Uses, Serves, s0, y, Live
  <2>2. \A s \in Session : \A x \in Ref : Uses(s, x)' => Uses(s, x)
    BY <1>2, <1>3, <1>4, <2>1 DEF Uses, Serves
  <2>3. QED BY <1>2, <2>2, StayUnshared DEF SessionInv
<1>8. OneAtATime'
  BY <1>1, <1>6 DEF SessionInv, OneAtATime, Serves, Continues
<1>9. RequestHasTheSession'
  <2> SUFFICES ASSUME NEW s \in Session \ raced, NEW o \in Req,
                      req'[o] # None, req'[o].session = s
               PROVE  /\ session'[s] # None => req'[o].principal = session'[s]
                      /\ req'[o].at = "authorise" =>
                           principal'[req'[o].principal].active
                             = ControllerOf(req'[o].command)
    BY <1>1 DEF RequestHasTheSession, Serves
  <2>1. o # q /\ req[o] # None /\ req'[o] = req[o] /\ req[o].session = s
    BY <1>4
  <2>2. s # s0
    BY <1>1, <2>1 DEF SessionInv, OneAtATime, Serves, s0
  <2>3. /\ session[s] # None => req[o].principal = session[s]
        /\ req[o].at = "authorise" =>
             principal[req[o].principal].active = ControllerOf(req[o].command)
    BY <2>1 DEF SessionInv, RequestHasTheSession, Serves
  <2>4. req[o].principal \in Live /\ req'[o].principal \in Live'
    BY <1>2, <2>1, RequestFacts, NoneAssumption DEF Live
  <2>5. principal'[req[o].principal] # None
    BY <2>1, <2>4 DEF Inv, LiveObjects
  <2>6. principal'[req[o].principal] = principal[req[o].principal]
    BY <1>2, <1>5, <2>4, <2>5
  <2>7. session'[s] = session[s]
    BY <1>3, <2>2
  <2>8. QED BY <2>1, <2>3, <2>6, <2>7
<1>10. GivenIsKnown'
  <2> SUFFICES ASSUME NEW s \in Session \ raced, session'[s] # None,
                      NEW k \in given'[s]
               PROVE  principal'[session'[s]].roleMap[k] # None
    BY <1>1 DEF GivenIsKnown
  <2>1. session[s] # None /\ session'[s] \in Live' /\ session[s] \in Live
    BY <1>3 DEF Live
  <2>2. principal'[session'[s]] = principal[session'[s]]
    <3>1. session'[s] \in Ref /\ principal'[session'[s]] # None
      BY <2>1 DEF Inv, LiveObjects
    <3>2. QED BY <1>5, <3>1
  <2>3. CASE s # s0
    <3>1. session'[s] = session[s]
      BY <1>3, <2>3
    <3>2. k \in given[s]
      BY <1>1, <2>3 DEF Inv, TypeOK
    <3>3. QED BY <2>1, <2>2, <3>1, <3>2 DEF SessionInv, GivenIsKnown
  <2>4. CASE s = s0
    <3>1. session'[s] = y /\ session[s] = req[q].principal
      BY <1>1, <1>3, <2>1, <2>4
      DEF SessionInv, RequestHasTheSession, Serves, s0
    <3>2. /\ \A j \in Kind : principal[req[q].principal].roleMap[j] # None =>
                               principal[y].roleMap[j] # None
          /\ c.name = "become" => principal[y].roleMap[c.kind] # None
      BY <1>1 DEF SessionInv, NewRoles, y, c
    <3>3. \/ k \in given[s]
          \/ c.name = "become" /\ k = c.kind
      BY <1>1, <1>2, <2>4 DEF Inv, TypeOK
    <3>4. CASE k \in given[s]
      <4>1. k \in Kind
        BY <3>4 DEF Inv, TypeOK, Kind
      <4>2. principal[session[s]].roleMap[k] # None
        BY <2>1, <3>4 DEF SessionInv, GivenIsKnown
      <4>3. QED BY <2>2, <3>1, <3>2, <4>1, <4>2
    <3>5. CASE c.name = "become" /\ k = c.kind
      BY <2>2, <3>1, <3>2, <3>5
    <3>6. QED BY <3>3, <3>4, <3>5
  <2>5. QED BY <2>3, <2>4
<1>11. OwnersAreManagers'
  BY <1>1, <1>6 DEF SessionInv, OwnersAreManagers, Continues, RolesKept
<1>12. \A o \in Req : req'[o] # None => NewRoles(o)'
  BY <1>4, <1>6, NewRolesStay DEF SessionInv
<1>13. QED BY <1>7, <1>8, <1>9, <1>10, <1>11, <1>12 DEF SessionInv

\* A session begins with an object of its own and without requests.
LEMMA SignInRoutine ==
  ASSUME Inv, Inv', SessionInv, NEW s0 \in Session, NEW a \in Account,
         SignIn(s0, a)
  PROVE  SessionInv'
<1> DEFINE y == SomeRef
<1>1. /\ session[s0] = None /\ Running(s0) = {} /\ Ref \ Live # {}
      /\ raced' = raced \ {s0} /\ given' = [given EXCEPT ![s0] = {}]
      /\ session' = [session EXCEPT ![s0] = y]
      /\ UNCHANGED <<role, owners, req>>
  BY DEF SignIn
<1>2. PICK p \in Loaded(a) : principal' = [principal EXCEPT ![SomeRef] = p]
  BY DEF SignIn
<1>3. /\ y \in Ref \ Live
      /\ \A x \in Live : x \in Ref /\ principal'[x] = principal[x]
      /\ Steady
  BY <1>1, <1>2, NewObject
<1> HIDE DEF y
<1>4. /\ session'[s0] = y /\ given'[s0] = {}
      /\ \A s \in Session \ {s0} : session'[s] = session[s] /\ given'[s] = given[s]
  BY <1>1 DEF Inv, TypeOK
<1>5. \A q \in Req : ~Serves(q, s0)
  BY <1>1 DEF Running, Serves
<1>6. RolesKept
  BY <1>1 DEF RolesKept
<1>7. ObjectsAreUnshared'
  <2>1. \A s \in Session : \A x \in Ref :
          Uses(s, x)' => Uses(s, x) \/ (s = s0 /\ x \notin Live)
    BY <1>1, <1>3, <1>4 DEF Uses, Serves
  <2>2. QED BY <2>1, StayUnshared DEF SessionInv
<1>8. OneAtATime'
  BY <1>1, <1>5 DEF SessionInv, OneAtATime, Serves
<1>9. RequestHasTheSession'
  <2> SUFFICES ASSUME NEW s \in Session \ raced', NEW q \in Req, Serves(q, s)
               PROVE  /\ session'[s] # None => req[q].principal = session'[s]
                      /\ req[q].at = "authorise" =>
                           principal'[req[q].principal].active
                             = ControllerOf(req[q].command)
    BY <1>1 DEF RequestHasTheSession, Serves
  <2>1. s # s0 /\ s \in Session \ raced
    BY <1>1, <1>5
  <2>2. /\ session[s] # None => req[q].principal = session[s]
        /\ req[q].at = "authorise" =>
             principal[req[q].principal].active = ControllerOf(req[q].command)
    BY <2>1 DEF SessionInv, RequestHasTheSession
  <2>3. req[q].principal \in Live
    BY RequestFacts DEF Serves
  <2>4. QED BY <1>3, <1>4, <2>1, <2>2, <2>3
<1>10. GivenIsKnown'
  <2> SUFFICES ASSUME NEW s \in Session \ raced', session'[s] # None,
                      NEW k \in given'[s]
               PROVE  principal'[session'[s]].roleMap[k] # None
    BY DEF GivenIsKnown
  <2>1. s # s0 /\ s \in Session \ raced /\ session'[s] = session[s] /\ k \in given[s]
    BY <1>1, <1>4
  <2>2. session[s] \in Live
    BY <2>1 DEF Live
  <2>3. QED BY <1>3, <2>1, <2>2 DEF SessionInv, GivenIsKnown
<1>11. OwnersAreManagers'
  BY <1>1 DEF SessionInv, OwnersAreManagers
<1>12. \A o \in Req : req'[o] # None => NewRoles(o)'
  BY <1>1, <1>3, <1>6, NewRolesStay DEF SessionInv
<1>13. QED BY <1>7, <1>8, <1>9, <1>10, <1>11, <1>12 DEF SessionInv

\* A request takes the object of its session; when another is being served,
\* the session is no longer one whose requests do not overlap.
LEMMA ReceiveRoutine ==
  ASSUME Inv, Inv', SessionInv, NEW q \in Req, NEW s0 \in Session,
         NEW c \in Command, Receive(q, s0, c)
  PROVE  SessionInv'
<1> DEFINE new == [at |-> "enter", session |-> s0, principal |-> session[s0],
                   loaded |-> None, command |-> c]
<1>1. /\ req[q] = None /\ session[s0] # None /\ req' = [req EXCEPT ![q] = new]
      /\ raced' = IF Running(s0) # {} THEN raced \cup {s0} ELSE raced
      /\ c.name = "edit" => c.owner \in owners
      /\ UNCHANGED <<role, owners, principal, session, given>>
  BY DEF Receive
<1>2. /\ new.at = "enter" /\ new.session = s0 /\ new.principal = session[s0]
      /\ new.loaded = None /\ new.command = c
  OBVIOUS
<1> HIDE DEF new
<1>3. req'[q] = new /\ \A o \in Req \ {q} : req'[o] = req[o]
  BY <1>1 DEF Inv, TypeOK
<1>4. RolesKept /\ Steady /\ raced \subseteq raced'
  BY <1>1 DEF RolesKept, Steady
<1>5. s0 \notin raced' => \A o \in Req : ~Serves(o, s0)
  BY <1>1 DEF Running, Serves
<1>6. ObjectsAreUnshared'
  <2>1. \A s \in Session : \A x \in Ref : Uses(s, x)' => Uses(s, x)
    BY <1>1, <1>2, <1>3 DEF Uses, Serves
  <2>2. QED BY <2>1, StayUnshared DEF SessionInv
<1>7. OneAtATime'
  BY <1>2, <1>3, <1>4, <1>5 DEF SessionInv, OneAtATime, Serves
<1>8. RequestHasTheSession'
  BY <1>1, <1>2, <1>3, <1>4 DEF SessionInv, RequestHasTheSession, Serves
<1>9. GivenIsKnown'
  BY <1>1, <1>4 DEF SessionInv, GivenIsKnown
<1>10. OwnersAreManagers'
  BY <1>1, <1>2, <1>3 DEF SessionInv, OwnersAreManagers
<1>11. ASSUME NEW o \in Req, req'[o] # None PROVE NewRoles(o)'
  <2>1. CASE o = q
    BY <1>2, <1>3, <2>1 DEF NewRoles
  <2>2. CASE o # q
    BY <1>3, <1>4, <1>11, <2>2, NewRolesStay DEF SessionInv
  <2>3. QED BY <2>1, <2>2
<1>12. QED BY <1>6, <1>7, <1>8, <1>9, <1>10, <1>11 DEF SessionInv

LEMMA SessionsInductive == Spec => [](Inv /\ SessionInv)
<1>1. Init => SessionInv
  BY DEF Init, SessionInv, ObjectsAreUnshared, OneAtATime, Uses, Serves,
     RequestHasTheSession, GivenIsKnown, OwnersAreManagers
<1>2. Inv /\ Inv' /\ SessionInv /\ [Next]_vars => SessionInv'
  <2> SUFFICES ASSUME Inv, Inv', SessionInv, [Next]_vars PROVE SessionInv'
    OBVIOUS
  <2>1. CASE UNCHANGED vars
    BY <2>1 DEF vars, SessionInv, ObjectsAreUnshared, OneAtATime, Uses, Serves,
       RequestHasTheSession, GivenIsKnown, OwnersAreManagers, NewRoles, RolesOf
  <2>2. ASSUME NEW q \in Req, Step(q) PROVE SessionInv'
    <3>1. CASE Permit(q) \/ Update(q)
      <4>1. /\ req[q] # None /\ UNCHANGED <<role, owners, principal, session, raced, given>>
        BY <3>1 DEF Permit, Update, Authorising, Serving
      <4>2. RolesKept /\ Steady
        BY <4>1 DEF RolesKept, Steady
      <4>3. CASE Permit(q)
        <5>1. req' = [req EXCEPT ![q].at = "serve"]
          BY <4>3 DEF Permit
        <5>2. QED BY <4>1, <4>2, <5>1, MovesRoutine
      <4>4. CASE Update(q)
        <5>1. /\ req' = [req EXCEPT ![q].at = "reload"]
              /\ req[q].command.name = "update" /\ req[q] \in Request
          BY <4>1, <4>4, RequestFacts DEF Update, Serving
        <5>2. req'[q] = [req[q] EXCEPT !.at = "reload"]
          BY <5>1 DEF Inv, TypeOK
        <5>3. req'[q].at = "reload" /\ req'[q].command.name # "become"
          BY <5>1, <5>2 DEF Request
        <5>4. NewRoles(q)'
          BY <5>3 DEF NewRoles
        <5>5. QED BY <4>1, <4>2, <5>1, <5>4, MovesRoutine
      <4>5. QED BY <3>1, <4>3, <4>4
    <3>2. QED
      BY <2>2, <3>1, EnterRoutine, BecomeRoutine, ReloadRoutine, InstallRoutine,
         EndRoutine DEF Step
  <2>3. QED
    BY <2>1, <2>2, SignUpRoutine, SignInRoutine, SignOutRoutine, ReceiveRoutine
    DEF Next
<1>3. QED BY <1>1, <1>2, PartsInductive, PTL DEF Spec

\* What holds of a session until two of its requests overlap, for any number
\* of sessions and requests.
THEOREM SessionsAreSound == Spec => []SInv
<1>1. SessionInv => LoadedHasNewRoles
  BY DEF SessionInv, LoadedHasNewRoles, NewRoles
<1>2. IInv /\ Inv /\ SessionInv => SInv
  BY <1>1 DEF SessionInv, SInv
<1>3. QED BY <1>2, SessionsInductive, Inductive, PTL

\* Who has become something may act as such at once, unless requests of the
\* session have overlapped.
THEOREM NewRolesWork == Spec => []NewRolesAreUsable
<1>1. SInv => NewRolesAreUsable
  BY DEF SInv, GivenIsKnown, NewRolesAreUsable
<1>2. QED BY <1>1, SessionsAreSound, PTL

\* A manager is refused a row of the own account only after overlapping
\* requests, or when the account has two Manager roles.
THEOREM OwnRowsOpen == Spec => OwnRowsAreNotRefused
<1> DEFINE Opens ==
      \A q \in Req :
       LET a == principal[req[q].principal].account
       IN  /\ Refuse(q)
           /\ role[req[q].command.owner].account = a
           => \/ req[q].session \in raced
              \/ \E r1, r2 \in RolesOf(a, "Manager") : r1 # r2
<1>1. Inv /\ SessionInv => Opens
  <2> SUFFICES ASSUME Inv, SessionInv, NEW q \in Req, Refuse(q),
                      req[q].session \notin raced,
                      role[req[q].command.owner].account
                        = principal[req[q].principal].account
               PROVE  \E r1, r2 \in RolesOf(principal[req[q].principal].account,
                                            "Manager") : r1 # r2
    OBVIOUS
  <2> DEFINE p == principal[req[q].principal]
             r == req[q].command.owner
  <2>1. /\ req[q] # None /\ req[q].at = "authorise"
        /\ req[q].command.name = "edit" /\ r # p.roleMap[p.active]
    BY DEF Refuse, Authorising, May
  <2>2. Good(p) /\ req[q].session \in Session
    BY <2>1, RequestFacts
  <2>3. p.active = "Manager"
    BY <2>1, <2>2
    DEF SessionInv, RequestHasTheSession, Serves, ControllerOf
  <2>4. r \in owners /\ r \in RoleId /\ role[r] \in Role /\ role[r].kind = "Manager"
    BY <2>1 DEF SessionInv, OwnersAreManagers, Inv, TypeOK
  <2>5. role[r] = [account |-> p.account, kind |-> "Manager"]
    BY <2>4 DEF Role
  <2>6. /\ p.roleMap["Manager"] \in RoleId
        /\ role[p.roleMap["Manager"]] = [account |-> p.account, kind |-> "Manager"]
    BY <2>2, <2>3, NoneAssumption DEF Good, Principal, Kind
  <2>7. QED BY <2>1, <2>3, <2>4, <2>5, <2>6 DEF RolesOf
<1>2. [][Opens]_vars => OwnRowsAreNotRefused
  BY DEF OwnRowsAreNotRefused
<1>3. Inv /\ SessionInv /\ [Next]_vars => [Opens]_vars
  BY <1>1
<1>4. QED BY <1>2, <1>3, SessionsInductive, PTL DEF Spec
===============================================================================
