------------------------- MODULE RequestTransactions --------------------------
(***************************************************************************)
(* AbstractController.handleRequest: the transactions of one request, and  *)
(* the field transactionStatus that every request to one controller        *)
(* shares.  A controller is a singleton bean and the threads of the server *)
(* run handleRequest at the same time, whereas Spring's transaction        *)
(* manager binds a transaction to the thread that starts it.               *)
(*                                                                         *)
(* A request passes through phases, each with a transaction of its own:    *)
(*   main    the service is served, then committed or rolled back,         *)
(*   after   onSuccess / onFailure in a fresh transaction,                 *)
(* and, when something is thrown in one of them,                           *)
(*   undo    the catch block rolls the current transaction back, if any,   *)
(*   recover onFailure in a fresh transaction; the reply is a panic view.  *)
(***************************************************************************)
EXTENDS Naturals

CONSTANTS
  Thread,     \* threads of the server
  Conn,       \* connections of the pool: one for each open transaction
  None,       \* no status, no transaction
  Stale,      \* the entity manager bound to a thread was closed by another
  Serial      \* TRUE: a request arrives only when no other is being served

\* A TransactionStatus: its transaction, whether it is the one that began it
\* (a nested start takes part in the transaction bound to the thread), and
\* whether it is completed.
Status == [conn : Conn, new : BOOLEAN, completed : BOOLEAN]

ASSUME RequestAssumption ==
  /\ Serial \in BOOLEAN
  /\ None # Stale
  /\ {None, Stale} \cap Conn = {}
  /\ None \notin Status
  /\ \A S \in SUBSET Thread : S # None

VARIABLES
  status,     \* the field transactionStatus of the controller
  bound,      \* the transaction that Spring has bound to each thread
  writes,     \* the threads whose requests have written in each transaction;
              \* None when the connection is in the pool
  pc,         \* the next statement of each thread
  phase,      \* the phase its request is in
  found,      \* service # null: the command was found and the role checked
  outcome,    \* what its service ended with
  saved       \* whether what the request wrote was committed

vars == <<status, bound, writes, pc, phase, found, outcome, saved>>

Phase == {"main", "after", "undo", "recover"}
Statement == {"idle", "start", "check", "serve", "end", "clear", "rollback"}
Outcome == {"none", "success", "errors", "panic", "escaped"}

Open == {c \in Conn : writes[c] # None}

\* A transaction that is bound to a thread is open.
TypeOK ==
  /\ status \in Status \cup {None}
  /\ bound \in [Thread -> Open \cup {None, Stale}]
  /\ writes \in [Conn -> (SUBSET Thread) \cup {None}]
  /\ pc \in [Thread -> Statement]
  /\ phase \in [Thread -> Phase]
  /\ found \in [Thread -> BOOLEAN]
  /\ outcome \in [Thread -> Outcome]
  /\ saved \in [Thread -> {"nothing", "yes", "no"}]

Init ==
  /\ status = None
  /\ bound = [th \in Thread |-> None]
  /\ writes = [c \in Conn |-> None]
  /\ pc = [th \in Thread |-> "idle"]
  /\ phase = [th \in Thread |-> "main"]
  /\ found = [th \in Thread |-> FALSE]
  /\ outcome = [th \in Thread |-> "none"]
  /\ saved = [th \in Thread |-> "nothing"]

\* isTransactionActive
Active == status # None /\ ~status.completed

-----------------------------------------------------------------------------
(***************************************************************************)
(* Spring's JpaTransactionManager, as the controller uses it.              *)
(***************************************************************************)

\* getTransaction: takes part in the transaction bound to the thread, or takes
\* a connection and begins one.
Began(th, st) ==
  /\ \/ bound[th] \in Conn /\ st = [conn |-> bound[th], new |-> FALSE,
                                    completed |-> FALSE]
     \/ bound[th] = None /\ \E c \in Conn \ Open :
          st = [conn |-> c, new |-> TRUE, completed |-> FALSE]
  /\ bound' = [bound EXCEPT ![th] = st.conn]
  /\ writes' = IF st.new THEN [writes EXCEPT ![st.conn] = {}] ELSE writes

\* Mutant: the entity manager is closed and stays bound to the thread.
MutEnded(th, verdict) ==
  /\ status' = [status EXCEPT !.completed = TRUE]
  /\ IF status.new
     THEN /\ writes' = [writes EXCEPT ![status.conn] = None]
          /\ saved' = [o \in Thread |-> IF o \in writes[status.conn]
                                        THEN verdict ELSE saved[o]]
          /\ UNCHANGED bound
     ELSE UNCHANGED <<bound, writes, saved>>

\* commit and rollback by thread th of the status in the field.  Only the
\* status that began a transaction ends it; then the entity manager is closed
\* and the thread loses what is bound to it, be it another transaction.
Ended(th, verdict) ==
  /\ status' = [status EXCEPT !.completed = TRUE]
  /\ IF status.new
     THEN /\ bound' = [o \in Thread |->
                         IF o = th THEN None
                         ELSE IF bound[o] = status.conn THEN Stale
                         ELSE bound[o]]
          /\ writes' = [writes EXCEPT ![status.conn] = None]
          /\ saved' = [o \in Thread |-> IF o \in writes[status.conn]
                                        THEN verdict ELSE saved[o]]
     ELSE UNCHANGED <<bound, writes, saved>>

-----------------------------------------------------------------------------
(***************************************************************************)
(* handleRequest.                                                          *)
(***************************************************************************)

Goto(th, ph, st) ==
  /\ phase' = [phase EXCEPT ![th] = ph]
  /\ pc' = [pc EXCEPT ![th] = st]

\* The response leaves and the thread goes back to the server's pool.
Reply(th, result) ==
  /\ Goto(th, "main", "idle")
  /\ outcome' = [outcome EXCEPT ![th] = result]

\* A throwable: the try block hands over to the catch block, and one that is
\* thrown in the catch block escapes to the server.
Throw(th) ==
  IF phase[th] \in {"main", "after"}
  THEN Goto(th, "undo", "check") /\ UNCHANGED outcome
  ELSE Reply(th, "escaped")

Receive(th) ==
  /\ pc[th] = "idle"
  /\ Serial => \A o \in Thread : pc[o] = "idle"
  /\ Goto(th, "main", "start")
  /\ found' = [found EXCEPT ![th] = FALSE]
  /\ outcome' = [outcome EXCEPT ![th] = "none"]
  /\ saved' = [saved EXCEPT ![th] = "nothing"]
  /\ UNCHANGED <<status, bound, writes>>

\* startTransaction
Start(th) ==
  /\ pc[th] = "start"
  /\ \E st \in Status : Began(th, st) /\ status' = st
  /\ Goto(th, phase[th], "serve")
  /\ UNCHANGED <<found, outcome, saved>>

\* Mutant: no timeout on the pool: the thread waits for a connection.
MutStartFails(th) ==
  /\ pc[th] = "start"
  /\ bound[th] = Stale
  /\ Throw(th)
  /\ UNCHANGED <<status, bound, writes, found, saved>>

\* getTransaction throws: a closed entity manager is bound to the thread, or
\* the pool has had no connection for 30 seconds.
StartFails(th) ==
  /\ pc[th] = "start"
  /\ bound[th] = Stale \/ (bound[th] = None /\ Open = Conn)
  /\ Throw(th)
  /\ UNCHANGED <<status, bound, writes, found, saved>>

\* authorise, doGet or doPost in the main phase; what they write is flushed
\* in the transaction of the thread.
Serve(th, result) ==
  /\ pc[th] = "serve" /\ phase[th] = "main"
  /\ bound[th] \in Conn
  /\ found' = [found EXCEPT ![th] = TRUE]
  /\ outcome' = [outcome EXCEPT ![th] = result]
  /\ writes' = [writes EXCEPT ![bound[th]] = @ \cup {th}]
  /\ saved' = [saved EXCEPT ![th] = "no"]
  /\ Goto(th, "main", "end")
  /\ UNCHANGED <<status, bound>>

\* An unknown command or a missing role (service is still null), a refused
\* authorisation, or an exception in the service, which may have written.  The
\* entity manager may also have been closed under the feet of the thread.
ServeFails(th) ==
  /\ pc[th] = "serve" /\ phase[th] = "main"
  /\ \/ /\ \E known \in BOOLEAN : found' = [found EXCEPT ![th] = known]
        /\ UNCHANGED <<writes, saved>>
     \/ /\ bound[th] \in Conn
        /\ found' = [found EXCEPT ![th] = TRUE]
        /\ writes' = [writes EXCEPT ![bound[th]] = @ \cup {th}]
        /\ saved' = [saved EXCEPT ![th] = "no"]
  /\ Throw(th)
  /\ UNCHANGED <<status, bound>>

\* onSuccess or onFailure.  handleUpdate reads the account again: it needs no
\* transaction, but not a closed entity manager.
Notify(th) ==
  /\ pc[th] = "serve" /\ phase[th] \in {"after", "recover"}
  /\ Goto(th, phase[th], "end")
  /\ UNCHANGED <<status, bound, writes, found, outcome, saved>>

\* Only the onSuccess of some services does anything that can throw.
NotifyFails(th) ==
  /\ pc[th] = "serve" /\ phase[th] = "after" /\ outcome[th] = "success"
  /\ Throw(th)
  /\ UNCHANGED <<status, bound, writes, found, saved>>

\* Mutant: a response with errors is committed too.
MutEnd(th) ==
  /\ pc[th] = "end"
  /\ Active
  /\ Ended(th, "yes")
  /\ Goto(th, phase[th], "clear")
  /\ UNCHANGED <<found, outcome>>

\* commitTransaction, and rollbackTransaction of a response with errors.
End(th) ==
  /\ pc[th] = "end"
  /\ Active
  /\ Ended(th, IF phase[th] = "main" /\ outcome[th] = "errors"
               THEN "no" ELSE "yes")
  /\ Goto(th, phase[th], "clear")
  /\ UNCHANGED <<found, outcome>>

\* The commit throws and rolls back, e.g. on a stale version; or there is
\* nothing to commit: the assertion, or commit(null) when it is disabled.
EndFails(th) ==
  /\ pc[th] = "end"
  /\ \/ ~Active /\ UNCHANGED <<status, bound, writes, saved>>
     \/ Active /\ Ended(th, "no")
  /\ Throw(th)
  /\ UNCHANGED found

\* Mutant: onSuccess and onFailure are called without a transaction.
MutClear(th) ==
  /\ pc[th] = "clear"
  /\ status' = None
  /\ \/ /\ phase[th] = "main"
        /\ Goto(th, "after", "serve") /\ UNCHANGED outcome
     \/ /\ phase[th] = "after"
        /\ Reply(th, outcome[th]) \/ Throw(th)
     \/ /\ phase[th] = "undo" /\ found[th]
        /\ Goto(th, "recover", "serve") /\ UNCHANGED outcome
     \/ /\ phase[th] = "undo" /\ ~found[th]
        /\ Reply(th, "panic")
     \/ /\ phase[th] = "recover"
        /\ Reply(th, "panic")
  /\ UNCHANGED <<bound, writes, found, saved>>

\* transactionStatus = null, and on to the next phase or to the reply.  The
\* requested view is built after the last commit but still in the try block:
\* when that throws, the catch block is entered with nothing to undo.
Clear(th) ==
  /\ pc[th] = "clear"
  /\ status' = None
  /\ \/ /\ phase[th] = "main"
        /\ Goto(th, "after", "start") /\ UNCHANGED outcome
     \/ /\ phase[th] = "after"
        /\ Reply(th, outcome[th]) \/ Throw(th)
     \/ /\ phase[th] = "undo" /\ found[th]
        /\ Goto(th, "recover", "start") /\ UNCHANGED outcome
     \/ /\ phase[th] = "undo" /\ ~found[th]
        /\ Reply(th, "panic")
     \/ /\ phase[th] = "recover"
        /\ Reply(th, "panic")
  /\ UNCHANGED <<bound, writes, found, saved>>

\* Mutant: the catch block leaves the current transaction open.
MutCheck(th) ==
  /\ pc[th] = "check"
  /\ IF found[th]
     THEN Goto(th, "recover", "start") /\ UNCHANGED outcome
     ELSE Reply(th, "panic")
  /\ UNCHANGED <<status, bound, writes, found, saved>>

\* The catch block: if (isTransactionActive()) ..., if (service != null) ...
Check(th) ==
  /\ pc[th] = "check"
  /\ \/ /\ Active
        /\ Goto(th, "undo", "rollback") /\ UNCHANGED outcome
     \/ /\ ~Active /\ found[th]
        /\ Goto(th, "recover", "start") /\ UNCHANGED outcome
     \/ /\ ~Active /\ ~found[th]
        /\ Reply(th, "panic")
  /\ UNCHANGED <<status, bound, writes, found, saved>>

\* rollbackTransaction; its assertion fails when another thread has ended the
\* transaction since Check.
Rollback(th) ==
  /\ pc[th] = "rollback"
  /\ IF Active
     THEN /\ Ended(th, "no")
          /\ Goto(th, "undo", "clear") /\ UNCHANGED outcome
     ELSE Throw(th) /\ UNCHANGED <<status, bound, writes, saved>>
  /\ UNCHANGED found

Step(th) ==
  \/ Start(th) \/ StartFails(th)
  \/ \E result \in {"success", "errors"} : Serve(th, result)
  \/ ServeFails(th)
  \/ Notify(th) \/ NotifyFails(th)
  \/ End(th) \/ EndFails(th) \/ Clear(th)
  \/ Check(th) \/ Rollback(th)

Next == \E th \in Thread : Receive(th) \/ Step(th)

\* A thread that serves a request goes on: nothing in handleRequest waits for
\* another request for longer than the timeout of the pool.
Fairness == \A th \in Thread : WF_vars(Step(th))

Spec == Init /\ [][Next]_vars
FairSpec == Spec /\ Fairness

-----------------------------------------------------------------------------
(***************************************************************************)
(* Properties.                                                             *)
(***************************************************************************)

\* When no request is being served nothing is left behind: no connection is
\* out of the pool and no transaction is bound to a thread that will serve
\* another user's request - whichever way the requests before ended.
NothingLeaks ==
  (\A th \in Thread : pc[th] = "idle") =>
    /\ Open = {}
    /\ \A th \in Thread : bound[th] = None
    /\ ~Active

\* The reply tells the truth: after a success what the request wrote is
\* committed, and after a form with errors it is not.
RepliesAreTrue ==
  \A th \in Thread : pc[th] = "idle" =>
    /\ outcome[th] = "success" => saved[th] = "yes"
    /\ outcome[th] = "errors" => saved[th] = "no"

\* `assert this.isTransactionActive()` in commitTransaction: the field holds
\* an active transaction whenever a request is about to commit.
ActiveAtCommit ==
  \A th \in Thread : pc[th] = "end" => Active

\* "The 'onSuccess' and the 'onFailure' methods must be executed in fresh
\* transactions": nothing was written yet in the transaction of the thread.
FreshTransactions ==
  \A th \in Thread :
    pc[th] = "serve" /\ phase[th] \in {"after", "recover"} /\ bound[th] \in Conn
      => writes[bound[th]] = {}

\* The inductive invariant behind the properties of serial requests.  Quiet:
\* no transaction is open.  Holds(th): the only open transaction is that of
\* th, it is the one in the field, and only th has written in it.
Quiet ==
  /\ Open = {}
  /\ ~Active
  /\ \A th \in Thread : bound[th] = None

Holds(th) ==
  /\ Active
  /\ status.new
  /\ bound[th] = status.conn
  /\ Open = {status.conn}
  /\ writes[status.conn] \subseteq {th}
  /\ \A o \in Thread \ {th} : bound[o] = None

Truthful(th) ==
  /\ outcome[th] = "success" => saved[th] = "yes"
  /\ outcome[th] = "errors" => saved[th] = "no"

Place(th) ==
  /\ pc[th] = "idle" => Truthful(th)
  /\ pc[th] = "start" =>
       Quiet /\ phase[th] # "undo" /\ (phase[th] = "after" => Truthful(th))
  /\ pc[th] = "check" => phase[th] = "undo" /\ (Quiet \/ Holds(th))
  /\ pc[th] = "serve" =>
       /\ Holds(th) /\ phase[th] # "undo"
       /\ writes[status.conn] = {}
       /\ phase[th] = "after" => Truthful(th)
  /\ pc[th] = "end" =>
       /\ Holds(th) /\ phase[th] # "undo"
       /\ phase[th] = "main" =>
            writes[status.conn] = {th} /\ outcome[th] \in {"success", "errors"}
       /\ phase[th] # "main" => writes[status.conn] = {}
       /\ phase[th] = "after" => Truthful(th)
  /\ pc[th] = "clear" =>
       Quiet /\ (phase[th] \in {"main", "after"} => Truthful(th))
  /\ pc[th] = "rollback" => phase[th] = "undo" /\ Holds(th)

IInv ==
  /\ TypeOK
  /\ \A a, b \in Thread : pc[a] # "idle" /\ pc[b] # "idle" => a = b
  /\ (\A th \in Thread : pc[th] = "idle") => Quiet
  /\ \A th \in Thread : Place(th)

\* The request of a thread has written in a transaction that is still open.
Pending(th) == \E c \in Open : th \in writes[c]

\* What became of the writes of each thread's request, and its reply.
Effect ==
  [th \in Thread |->
     IF saved[th] = "nothing" THEN "nothing"
     ELSE IF saved[th] = "yes" THEN "kept"
     ELSE IF Pending(th) THEN "pending" ELSE "dropped"]

Answered == [th \in Thread |-> IF pc[th] = "idle" THEN outcome[th] ELSE "working"]

Contract == INSTANCE RequestContract WITH effect <- Effect, reply <- Answered

\* Requests one at a time keep the contract: their writes are decided once and
\* before the reply, by the commit or the rollback of their own transaction.
KeepsTheContract == Contract!Spec

\* What the refinement needs of the invariant besides: a request that has not
\* reached its service has written nothing, one that has written in an open
\* transaction has not had it committed, and after the main phase the service
\* has ended.
Account(th) ==
  /\ phase[th] = "main" /\ pc[th] \in {"start", "serve"} => saved[th] = "nothing"
  /\ Pending(th) => saved[th] = "no"
  /\ \/ phase[th] = "main" /\ pc[th] = "clear"
     \/ phase[th] = "after" /\ pc[th] # "idle"
     => outcome[th] \in {"success", "errors"}

Accounted == \A th \in Thread : Account(th)

\* Every request is answered, also when requests of other threads take its
\* transaction away and when connections have leaked.
EveryRequestIsAnswered ==
  \A th \in Thread : pc[th] # "idle" ~> pc[th] = "idle"

\* What holds however requests overlap: a status that can still end a
\* transaction is that of an open one, and only the catch block checks and
\* rolls back.
FieldIsOpen == Active /\ status.new => status.conn \in Open

OnlyTheCatchChecks ==
  \A th \in Thread : pc[th] \in {"check", "rollback"} => phase[th] = "undo"

OverlapInv == TypeOK /\ FieldIsOpen /\ OnlyTheCatchChecks

\* An upper bound of the statements that a thread has still to run for its
\* request: five for each phase to come, and the rest of its own.
Left(ph, st) ==
  IF st = "idle" THEN 0
  ELSE 5 * [main |-> 3, after |-> 2, undo |-> 1, recover |-> 0][ph]
       + [start |-> 4, serve |-> 3, check |-> 3, end |-> 2, rollback |-> 2,
          clear |-> 1][st]

StatementsLeft == [th \in Thread |-> Left(phase[th], pc[th])]

\* However requests fail and whatever they do to each other's transactions,
\* handleRequest never goes back: each step is of one thread, which has fewer
\* statements left than before unless it receives a request, and gives no
\* other thread anything more to do.
RequestsRunOut ==
  [][\E th \in Thread :
       /\ pc[th] = "idle" \/ StatementsLeft'[th] < StatementsLeft[th]
       /\ \A o \in Thread \ {th} : StatementsLeft'[o] = StatementsLeft[o]]_vars
===============================================================================
