---------------------- MODULE RequestTransactions_proofs ----------------------
(***************************************************************************)
(* Theorems about RequestTransactions for every number of threads and of   *)
(* connections: first when requests come one at a time, then when they     *)
(* overlap.                                                                *)
(***************************************************************************)
EXTENDS RequestTransactions, TLAPS

-----------------------------------------------------------------------------
(***************************************************************************)
(* The steps as the serial controller takes them.                          *)
(***************************************************************************)

\* The thread that serves a request is the only one at work, and the other
\* threads stay where they are.
LEMMA OnlyOneServes ==
  ASSUME IInv, NEW th \in Thread, pc[th] # "idle"
  PROVE  \A o \in Thread \ {th} : pc[o] = "idle" /\ Truthful(o)
  BY DEF IInv, Place

\* What a step of the only thread at work has to show.
LEMMA StepOfOne ==
  ASSUME IInv, NEW th \in Thread, pc[th] # "idle", TypeOK',
         \A o \in Thread \ {th} : /\ pc'[o] = pc[o]
                                  /\ outcome'[o] = outcome[o]
                                  /\ saved'[o] = saved[o],
         Place(th)',
         pc'[th] = "idle" => Quiet'
  PROVE  IInv'
<1>1. \A o \in Thread \ {th} : pc'[o] = "idle" /\ Truthful(o)'
  BY OnlyOneServes DEF Truthful
<1>2. \A o \in Thread \ {th} : Place(o)'
  BY <1>1 DEF Place
<1>3. \A a, b \in Thread : pc'[a] # "idle" /\ pc'[b] # "idle" => a = b
  BY <1>1
<1>4. (\A o \in Thread : pc'[o] = "idle") => Quiet'
  OBVIOUS
<1>5. QED
  BY <1>2, <1>3, <1>4 DEF IInv

\* Leaving for another statement of the request.
LEMMA GotoFacts ==
  ASSUME TypeOK, NEW th \in Thread, NEW ph \in Phase, NEW st \in Statement,
         Goto(th, ph, st)
  PROVE  /\ pc' \in [Thread -> Statement] /\ phase' \in [Thread -> Phase]
         /\ pc'[th] = st /\ phase'[th] = ph
         /\ \A o \in Thread \ {th} : pc'[o] = pc[o] /\ phase'[o] = phase[o]
  BY DEF Goto, TypeOK

\* Answering: the thread is idle and its outcome is known.
LEMMA ReplyFacts ==
  ASSUME TypeOK, NEW th \in Thread, NEW result \in Outcome, Reply(th, result)
  PROVE  /\ pc' \in [Thread -> Statement] /\ phase' \in [Thread -> Phase]
         /\ outcome' \in [Thread -> Outcome]
         /\ pc'[th] = "idle" /\ outcome'[th] = result
         /\ \A o \in Thread \ {th} : pc'[o] = pc[o] /\ outcome'[o] = outcome[o]
  BY GotoFacts DEF Reply, TypeOK, Phase, Statement

\* Throwing: on to the catch block from the try block, out of it otherwise.
LEMMA ThrowFacts ==
  ASSUME TypeOK, NEW th \in Thread, Throw(th)
  PROVE  /\ pc' \in [Thread -> Statement] /\ phase' \in [Thread -> Phase]
         /\ outcome' \in [Thread -> Outcome]
         /\ \/ pc'[th] = "check" /\ phase'[th] = "undo"
            \/ /\ phase[th] \notin {"main", "after"}
               /\ pc'[th] = "idle" /\ outcome'[th] = "escaped"
         /\ \A o \in Thread \ {th} : pc'[o] = pc[o] /\ outcome'[o] = outcome[o]
<1>1. CASE phase[th] \in {"main", "after"}
  BY <1>1, GotoFacts DEF Throw, TypeOK, Phase, Statement
<1>2. CASE phase[th] \notin {"main", "after"}
  BY <1>2, ReplyFacts DEF Throw, Outcome
<1>3. QED
  BY <1>1, <1>2

\* Ending the transaction that th holds leaves none open, and settles what th
\* wrote in it and nothing else.
LEMMA EndedFacts ==
  ASSUME TypeOK, NEW th \in Thread, Holds(th),
         NEW verdict \in {"yes", "no"}, Ended(th, verdict)
  PROVE  /\ status' \in Status /\ status'.completed
         /\ bound' = [o \in Thread |-> None]
         /\ writes' \in [Conn -> (SUBSET Thread) \cup {None}]
         /\ Open' = {}
         /\ saved' \in [Thread -> {"nothing", "yes", "no"}]
         /\ saved'[th] = IF th \in writes[status.conn]
                         THEN verdict ELSE saved[th]
         /\ \A o \in Thread \ {th} : saved'[o] = saved[o]
<1>1. status \in Status /\ status.new /\ status.conn \in Conn
  BY DEF Holds, Active, TypeOK, Status
<1>2. status' \in Status /\ status'.completed
  BY <1>1 DEF Ended, Status
<1>3. bound' = [o \in Thread |-> None]
  <2>1. \A o \in Thread : o # th => bound[o] = None
    BY DEF Holds
  <2>2. None \notin Conn
    BY RequestAssumption
  <2>3. bound' = [o \in Thread |->
                    IF o = th THEN None
                    ELSE IF bound[o] = status.conn THEN Stale
                    ELSE bound[o]]
    BY <1>1 DEF Ended
  <2>4. \A o \in Thread : bound'[o] = None
    BY <2>1, <2>2, <2>3, <1>1
  <2>5. QED
    BY <2>3, <2>4
<1>4. writes' = [writes EXCEPT ![status.conn] = None]
  BY <1>1 DEF Ended
<1>5. writes' \in [Conn -> (SUBSET Thread) \cup {None}]
  BY <1>1, <1>4 DEF TypeOK
<1>6. Open' = {}
  BY <1>1, <1>4 DEF Open, Holds, TypeOK
<1>7. saved' = [o \in Thread |-> IF o \in writes[status.conn]
                                 THEN verdict ELSE saved[o]]
  BY <1>1 DEF Ended
<1>8. writes[status.conn] \subseteq {th}
  BY DEF Holds
<1>9. QED
  BY <1>2, <1>3, <1>5, <1>6, <1>7, <1>8 DEF TypeOK

-----------------------------------------------------------------------------
(***************************************************************************)
(* Each step preserves the invariant.                                      *)
(***************************************************************************)

\* A request arrives when all is quiet.
LEMMA ReceiveStep ==
  ASSUME IInv, Serial, NEW th \in Thread, Receive(th)
  PROVE  IInv'
<1>1. \A o \in Thread : pc[o] = "idle" /\ Truthful(o)
  BY DEF Receive, IInv, Place
<1>2. Quiet'
  BY <1>1 DEF IInv, Receive, Quiet, Open, Active
<1>3. Goto(th, "main", "start")
  BY DEF Receive
<1>4. /\ pc' \in [Thread -> Statement] /\ phase' \in [Thread -> Phase]
      /\ pc'[th] = "start" /\ phase'[th] = "main"
      /\ \A o \in Thread \ {th} : pc'[o] = pc[o] /\ phase'[o] = phase[o]
  BY <1>3, GotoFacts DEF IInv, Phase, Statement
<1>5. TypeOK'
  BY <1>4 DEF IInv, Receive, TypeOK, Open, Outcome
<1>6. \A o \in Thread \ {th} : Truthful(o)'
  BY <1>1 DEF Receive, Truthful, IInv, TypeOK
<1>7. \A o \in Thread \ {th} : Place(o)'
  BY <1>1, <1>4, <1>6 DEF Place
<1>8. Place(th)'
  BY <1>2, <1>4 DEF Place
<1>9. QED
  BY <1>1, <1>2, <1>4, <1>5, <1>7, <1>8 DEF IInv

\* A transaction begins on a free connection.
LEMMA StartStep ==
  ASSUME IInv, NEW th \in Thread, Start(th)
  PROVE  IInv'
<1>1. /\ pc[th] = "start" /\ Quiet /\ phase[th] # "undo"
      /\ phase[th] = "after" => Truthful(th)
  BY DEF Start, IInv, Place
<1>2. PICK c \in Conn :
        /\ status' = [conn |-> c, new |-> TRUE, completed |-> FALSE]
        /\ bound' = [bound EXCEPT ![th] = c]
        /\ writes' = [writes EXCEPT ![c] = {}]
  <2>1. bound[th] = None /\ None \notin Conn
    BY <1>1, RequestAssumption DEF Quiet
  <2>2. PICK st \in Status : Began(th, st) /\ status' = st
    BY DEF Start
  <2>3. PICK c \in Conn : st = [conn |-> c, new |-> TRUE, completed |-> FALSE]
    BY <2>1, <2>2 DEF Began
  <2>4. st.conn = c /\ st.new
    BY <2>3
  <2>5. QED
    BY <2>2, <2>3, <2>4 DEF Began
<1>3. /\ pc' \in [Thread -> Statement] /\ phase' \in [Thread -> Phase]
      /\ pc'[th] = "serve" /\ phase'[th] = phase[th]
      /\ \A o \in Thread \ {th} : pc'[o] = pc[o]
  BY GotoFacts DEF Start, IInv, TypeOK, Statement
<1>4. writes' \in [Conn -> (SUBSET Thread) \cup {None}] /\ writes'[c] = {}
  BY <1>2 DEF IInv, TypeOK
<1>5. Open' = {c}
  BY <1>1, <1>2, <1>4, RequestAssumption DEF Open, Quiet, IInv, TypeOK
<1>6. bound' = [o \in Thread |-> IF o = th THEN c ELSE None]
  BY <1>1, <1>2 DEF Quiet, IInv, TypeOK
<1>7. status' \in Status
  BY <1>2 DEF Status
<1>8. TypeOK'
  BY <1>3, <1>4, <1>5, <1>6, <1>7 DEF Start, IInv, TypeOK
<1>9. Holds(th)'
  BY <1>2, <1>4, <1>5, <1>6, <1>7, RequestAssumption DEF Holds, Active
<1>10. Place(th)'
  BY <1>1, <1>2, <1>3, <1>4, <1>9 DEF Place, Truthful, Start
<1>11. QED
  BY <1>1, <1>3, <1>8, <1>10, StepOfOne DEF Start

\* What holds after a step that throws and leaves all transactions ended.
LEMMA ThrowStep ==
  ASSUME IInv, NEW th \in Thread, pc[th] # "idle", Throw(th), Quiet', TypeOK',
         \A o \in Thread \ {th} : saved'[o] = saved[o]
  PROVE  IInv'
<1>1. /\ \/ pc'[th] = "check" /\ phase'[th] = "undo"
         \/ pc'[th] = "idle" /\ outcome'[th] = "escaped"
      /\ \A o \in Thread \ {th} : pc'[o] = pc[o] /\ outcome'[o] = outcome[o]
  BY ThrowFacts DEF IInv
<1>2. Place(th)'
  BY <1>1 DEF Place, Truthful
<1>3. QED
  BY <1>1, <1>2, StepOfOne

\* No transaction could be begun.
LEMMA StartFailsStep ==
  ASSUME IInv, NEW th \in Thread, StartFails(th)
  PROVE  IInv'
<1>1. pc[th] = "start" /\ Quiet
  BY DEF StartFails, IInv, Place
<1>2. Quiet'
  BY <1>1 DEF StartFails, Quiet, Open, Active
<1>3. TypeOK'
  BY ThrowFacts DEF StartFails, IInv, TypeOK, Open
<1>4. QED
  BY <1>1, <1>2, <1>3, ThrowStep DEF StartFails

\* Writing by the thread that holds the transaction.
LEMMA WriteFacts ==
  ASSUME TypeOK, NEW th \in Thread, Holds(th), status' = status, bound' = bound,
         writes' = [writes EXCEPT ![bound[th]] = @ \cup {th}]
  PROVE  /\ Holds(th)' /\ writes'[status.conn] = writes[status.conn] \cup {th}
         /\ writes' \in [Conn -> (SUBSET Thread) \cup {None}]
         /\ Open' = Open
<1>1. status.conn \in Conn /\ bound[th] = status.conn
  BY DEF Holds, Active, TypeOK, Status
<1>2. /\ writes[status.conn] \in SUBSET Thread
      /\ writes[status.conn] \subseteq {th}
  BY DEF Holds
<1>3. writes'[status.conn] = writes[status.conn] \cup {th}
  BY <1>1 DEF TypeOK
<1>4. writes' \in [Conn -> (SUBSET Thread) \cup {None}]
  BY <1>1, <1>2 DEF TypeOK
<1>5. Open' = Open
  <2>1. writes'[status.conn] # None
    BY <1>2, <1>3, RequestAssumption
  <2>2. status.conn \in Open
    BY DEF Holds
  <2>3. QED
    BY <1>1, <2>1, <2>2 DEF Open, TypeOK
<1>6. Holds(th)'
  BY <1>2, <1>3, <1>5 DEF Holds, Active
<1>7. QED
  BY <1>3, <1>4, <1>5, <1>6

\* The service is served.
LEMMA ServeStep ==
  ASSUME IInv, NEW th \in Thread, NEW result \in {"success", "errors"},
         Serve(th, result)
  PROVE  IInv'
<1>1. /\ pc[th] = "serve" /\ phase[th] = "main" /\ Holds(th)
      /\ writes[status.conn] = {}
  BY DEF Serve, IInv, Place
<1>2. /\ Holds(th)' /\ writes'[status.conn] = {th}
      /\ writes' \in [Conn -> (SUBSET Thread) \cup {None}] /\ Open' = Open
  BY <1>1, WriteFacts DEF Serve, IInv
<1>3. /\ pc' \in [Thread -> Statement] /\ phase' \in [Thread -> Phase]
      /\ pc'[th] = "end" /\ phase'[th] = "main"
      /\ \A o \in Thread \ {th} : pc'[o] = pc[o]
  BY GotoFacts DEF Serve, IInv, Statement, Phase
<1>4. /\ outcome' \in [Thread -> Outcome] /\ outcome'[th] = result
      /\ \A o \in Thread \ {th} : outcome'[o] = outcome[o]
      /\ saved' \in [Thread -> {"nothing", "yes", "no"}]
      /\ \A o \in Thread \ {th} : saved'[o] = saved[o]
  BY DEF Serve, IInv, TypeOK, Outcome
<1>5. TypeOK'
  BY <1>2, <1>3, <1>4 DEF Serve, IInv, TypeOK
<1>6. Place(th)'
  BY <1>2, <1>3, <1>4 DEF Place, Serve
<1>7. QED
  BY <1>1, <1>3, <1>4, <1>5, <1>6, StepOfOne

\* Throwing while the transaction is still open.
LEMMA ThrowHolding ==
  ASSUME IInv, NEW th \in Thread, pc[th] # "idle", Throw(th),
         phase[th] \in {"main", "after"}, Holds(th)', TypeOK',
         \A o \in Thread \ {th} : saved'[o] = saved[o]
  PROVE  IInv'
<1>1. /\ pc'[th] = "check" /\ phase'[th] = "undo"
      /\ \A o \in Thread \ {th} : pc'[o] = pc[o] /\ outcome'[o] = outcome[o]
  BY ThrowFacts DEF IInv
<1>2. Place(th)'
  BY <1>1 DEF Place
<1>3. QED
  BY <1>1, <1>2, StepOfOne

\* The request or its service fails.
LEMMA ServeFailsStep ==
  ASSUME IInv, NEW th \in Thread, ServeFails(th)
  PROVE  IInv'
<1>1. pc[th] = "serve" /\ phase[th] = "main" /\ Holds(th)
  BY DEF ServeFails, IInv, Place
<1>2. /\ pc' \in [Thread -> Statement] /\ phase' \in [Thread -> Phase]
      /\ outcome' \in [Thread -> Outcome]
  BY ThrowFacts DEF ServeFails, IInv
<1>3. CASE UNCHANGED <<writes, saved>>
            /\ \E known \in BOOLEAN : found' = [found EXCEPT ![th] = known]
  <2>1. TypeOK' /\ Holds(th)'
    BY <1>1, <1>2, <1>3 DEF ServeFails, IInv, TypeOK, Open, Holds, Active
  <2>2. QED
    BY <1>1, <1>3, <2>1, ThrowHolding DEF ServeFails
<1>4. CASE /\ found' = [found EXCEPT ![th] = TRUE]
           /\ writes' = [writes EXCEPT ![bound[th]] = @ \cup {th}]
           /\ saved' = [saved EXCEPT ![th] = "no"]
  <2>1. /\ Holds(th)' /\ Open' = Open
        /\ writes' \in [Conn -> (SUBSET Thread) \cup {None}]
    BY <1>1, <1>4, WriteFacts DEF ServeFails, IInv
  <2>2. TypeOK'
    BY <1>2, <1>4, <2>1 DEF ServeFails, IInv, TypeOK
  <2>3. \A o \in Thread \ {th} : saved'[o] = saved[o]
    BY <1>4 DEF IInv, TypeOK
  <2>4. QED
    BY <1>1, <2>1, <2>2, <2>3, ThrowHolding DEF ServeFails
<1>5. QED
  BY <1>3, <1>4 DEF ServeFails

\* onSuccess or onFailure returns.
LEMMA NotifyStep ==
  ASSUME IInv, NEW th \in Thread, Notify(th)
  PROVE  IInv'
<1>1. /\ pc[th] = "serve" /\ phase[th] \in {"after", "recover"} /\ Holds(th)
      /\ writes[status.conn] = {}
      /\ phase[th] = "after" => Truthful(th)
  BY DEF Notify, IInv, Place
<1>2. /\ pc' \in [Thread -> Statement] /\ phase' \in [Thread -> Phase]
      /\ pc'[th] = "end" /\ phase'[th] = phase[th]
      /\ \A o \in Thread \ {th} : pc'[o] = pc[o]
  BY GotoFacts DEF Notify, IInv, TypeOK, Statement
<1>3. TypeOK' /\ Holds(th)'
  BY <1>1, <1>2 DEF Notify, IInv, TypeOK, Open, Holds, Active
<1>4. Place(th)'
  BY <1>1, <1>2, <1>3 DEF Notify, Place, Truthful
<1>5. QED
  BY <1>1, <1>2, <1>3, <1>4, StepOfOne DEF Notify

\* onSuccess throws.
LEMMA NotifyFailsStep ==
  ASSUME IInv, NEW th \in Thread, NotifyFails(th)
  PROVE  IInv'
<1>1. pc[th] = "serve" /\ phase[th] = "after" /\ Holds(th)
  BY DEF NotifyFails, IInv, Place
<1>2. TypeOK' /\ Holds(th)'
  BY <1>1, ThrowFacts
  DEF NotifyFails, IInv, TypeOK, Open, Holds, Active
<1>3. QED
  BY <1>1, <1>2, ThrowHolding DEF NotifyFails

\* When the transaction of th has ended all is quiet.
LEMMA EndedStep ==
  ASSUME IInv, NEW th \in Thread, Holds(th),
         NEW verdict \in {"yes", "no"}, Ended(th, verdict)
  PROVE  Quiet'
  BY EndedFacts DEF Quiet, Active, IInv

\* commitTransaction or rollbackTransaction succeeds.
LEMMA EndStep ==
  ASSUME IInv, NEW th \in Thread, End(th)
  PROVE  IInv'
<1> DEFINE verdict == IF phase[th] = "main" /\ outcome[th] = "errors"
                      THEN "no" ELSE "yes"
<1>1. /\ pc[th] = "end" /\ phase[th] # "undo" /\ Holds(th)
      /\ phase[th] = "main" =>
           writes[status.conn] = {th} /\ outcome[th] \in {"success", "errors"}
      /\ phase[th] # "main" => writes[status.conn] = {}
      /\ phase[th] = "after" => Truthful(th)
  BY DEF End, IInv, Place
<1>2. verdict \in {"yes", "no"} /\ Ended(th, verdict)
  BY DEF End
<1>3. /\ status' \in Status /\ bound' = [o \in Thread |-> None]
      /\ writes' \in [Conn -> (SUBSET Thread) \cup {None}]
      /\ saved' \in [Thread -> {"nothing", "yes", "no"}]
      /\ saved'[th] = IF th \in writes[status.conn]
                      THEN verdict ELSE saved[th]
      /\ \A o \in Thread \ {th} : saved'[o] = saved[o]
      /\ Quiet'
  BY <1>1, <1>2, EndedFacts, EndedStep DEF IInv
<1>4. /\ pc' \in [Thread -> Statement] /\ phase' \in [Thread -> Phase]
      /\ pc'[th] = "clear" /\ phase'[th] = phase[th]
      /\ \A o \in Thread \ {th} : pc'[o] = pc[o]
  BY GotoFacts DEF End, IInv, TypeOK, Statement
<1>5. TypeOK'
  BY <1>3, <1>4 DEF End, IInv, TypeOK
<1>6. phase[th] \in {"main", "after"} => Truthful(th)'
  BY <1>1, <1>3 DEF End, Truthful
<1>7. Place(th)'
  BY <1>3, <1>4, <1>6 DEF Place
<1>8. QED
  BY <1>1, <1>3, <1>4, <1>5, <1>7, StepOfOne DEF End

\* The commit throws; there always is a transaction to end.
LEMMA EndFailsStep ==
  ASSUME IInv, NEW th \in Thread, EndFails(th)
  PROVE  IInv'
<1>1. pc[th] = "end" /\ Holds(th)
  BY DEF EndFails, IInv, Place
<1>2. Ended(th, "no") /\ Throw(th)
  BY <1>1 DEF EndFails, Holds
<1>3. /\ status' \in Status /\ bound' = [o \in Thread |-> None]
      /\ writes' \in [Conn -> (SUBSET Thread) \cup {None}]
      /\ saved' \in [Thread -> {"nothing", "yes", "no"}]
      /\ \A o \in Thread \ {th} : saved'[o] = saved[o]
      /\ Quiet'
  BY <1>1, <1>2, EndedFacts, EndedStep DEF IInv
<1>4. TypeOK'
  BY <1>2, <1>3, ThrowFacts DEF EndFails, IInv, TypeOK
<1>5. QED
  BY <1>1, <1>2, <1>3, <1>4, ThrowStep

\* The field is set to null.
LEMMA ClearStep ==
  ASSUME IInv, NEW th \in Thread, Clear(th)
  PROVE  IInv'
<1>1. /\ pc[th] = "clear" /\ Quiet
      /\ phase[th] \in {"main", "after"} => Truthful(th)
  BY DEF Clear, IInv, Place
<1>2. Quiet'
  BY <1>1 DEF Clear, Quiet, Open, Active
<1>3. /\ pc' \in [Thread -> Statement] /\ phase' \in [Thread -> Phase]
      /\ outcome' \in [Thread -> Outcome]
      /\ \A o \in Thread \ {th} : pc'[o] = pc[o] /\ outcome'[o] = outcome[o]
      /\ \/ /\ phase[th] = "main" /\ outcome' = outcome
            /\ pc'[th] = "start" /\ phase'[th] = "after"
         \/ /\ phase[th] = "after"
            /\ pc'[th] = "idle" /\ outcome'[th] = outcome[th]
         \/ pc'[th] = "check" /\ phase'[th] = "undo"
         \/ pc'[th] = "start" /\ phase'[th] = "recover"
         \/ pc'[th] = "idle" /\ outcome'[th] = "panic"
  <2>1. CASE phase[th] = "main" /\ Goto(th, "after", "start")
             /\ UNCHANGED outcome
    BY <2>1, GotoFacts DEF IInv, TypeOK, Phase, Statement
  <2>2. CASE phase[th] = "after" /\ Reply(th, outcome[th])
    <3>1. outcome[th] \in Outcome
      BY DEF IInv, TypeOK
    <3>2. QED
      BY <2>2, <3>1, ReplyFacts DEF IInv
  <2>3. CASE Goto(th, "recover", "start") /\ UNCHANGED outcome
    BY <2>3, GotoFacts DEF IInv, TypeOK, Phase, Statement
  <2>4. CASE Reply(th, "panic")
    BY <2>4, ReplyFacts DEF IInv, Outcome
  <2>5. CASE phase[th] = "after" /\ Throw(th)
    BY <2>5, ThrowFacts DEF IInv
  <2>6. QED
    BY <2>1, <2>2, <2>3, <2>4, <2>5 DEF Clear
<1>4. TypeOK'
  BY <1>3 DEF Clear, IInv, TypeOK, Open
<1>5. saved' = saved
  BY DEF Clear
<1>6. Place(th)'
  BY <1>1, <1>2, <1>3, <1>5 DEF Place, Truthful
<1>7. QED
  BY <1>1, <1>2, <1>3, <1>4, <1>5, <1>6, StepOfOne

\* The catch block looks at the field: it is active exactly when the thread
\* holds a transaction.
LEMMA CheckStep ==
  ASSUME IInv, NEW th \in Thread, Check(th)
  PROVE  IInv'
<1>1. pc[th] = "check" /\ phase[th] = "undo" /\ (Quiet \/ Holds(th))
  BY DEF Check, IInv, Place
<1>2. UNCHANGED <<status, bound, writes, found, saved>>
  BY DEF Check
<1>3. CASE Active /\ Goto(th, "undo", "rollback") /\ UNCHANGED outcome
  <2>1. Holds(th)'
    BY <1>1, <1>2, <1>3 DEF Quiet, Holds, Active, Open
  <2>2. /\ pc' \in [Thread -> Statement] /\ phase' \in [Thread -> Phase]
        /\ pc'[th] = "rollback" /\ phase'[th] = "undo"
        /\ \A o \in Thread \ {th} : pc'[o] = pc[o]
    BY <1>3, GotoFacts DEF IInv, Phase, Statement
  <2>3. TypeOK'
    BY <1>2, <1>3, <2>2 DEF IInv, TypeOK, Open
  <2>4. Place(th)'
    BY <2>1, <2>2 DEF Place
  <2>5. QED
    BY <1>1, <1>2, <1>3, <2>2, <2>3, <2>4, StepOfOne
<1>4. CASE ~Active /\ Goto(th, "recover", "start") /\ UNCHANGED outcome
  <2>1. Quiet'
    BY <1>1, <1>2, <1>4 DEF Quiet, Holds, Active, Open
  <2>2. /\ pc' \in [Thread -> Statement] /\ phase' \in [Thread -> Phase]
        /\ pc'[th] = "start" /\ phase'[th] = "recover"
        /\ \A o \in Thread \ {th} : pc'[o] = pc[o]
    BY <1>4, GotoFacts DEF IInv, Phase, Statement
  <2>3. TypeOK'
    BY <1>2, <1>4, <2>2 DEF IInv, TypeOK, Open
  <2>4. Place(th)'
    BY <2>1, <2>2 DEF Place
  <2>5. QED
    BY <1>1, <1>2, <1>4, <2>2, <2>3, <2>4, StepOfOne
<1>5. CASE ~Active /\ Reply(th, "panic")
  <2>1. Quiet'
    BY <1>1, <1>2, <1>5 DEF Quiet, Holds, Active, Open
  <2>2. /\ pc' \in [Thread -> Statement] /\ phase' \in [Thread -> Phase]
        /\ outcome' \in [Thread -> Outcome]
        /\ pc'[th] = "idle" /\ outcome'[th] = "panic"
        /\ \A o \in Thread \ {th} : pc'[o] = pc[o] /\ outcome'[o] = outcome[o]
    BY <1>5, ReplyFacts DEF IInv, Outcome
  <2>3. TypeOK'
    BY <1>2, <2>2 DEF IInv, TypeOK, Open
  <2>4. Place(th)'
    BY <2>2 DEF Place, Truthful
  <2>5. QED
    BY <1>1, <1>2, <2>1, <2>2, <2>3, <2>4, StepOfOne
<1>6. QED
  BY <1>3, <1>4, <1>5 DEF Check

\* The catch block rolls the transaction back.
LEMMA RollbackStep ==
  ASSUME IInv, NEW th \in Thread, Rollback(th)
  PROVE  IInv'
<1>1. pc[th] = "rollback" /\ Holds(th)
  BY DEF Rollback, IInv, Place
<1>2. Ended(th, "no") /\ Goto(th, "undo", "clear") /\ UNCHANGED <<outcome, found>>
  BY <1>1 DEF Rollback, Holds
<1>3. /\ status' \in Status /\ bound' = [o \in Thread |-> None]
      /\ writes' \in [Conn -> (SUBSET Thread) \cup {None}]
      /\ saved' \in [Thread -> {"nothing", "yes", "no"}]
      /\ \A o \in Thread \ {th} : saved'[o] = saved[o]
      /\ Quiet'
  BY <1>1, <1>2, EndedFacts, EndedStep DEF IInv
<1>4. /\ pc' \in [Thread -> Statement] /\ phase' \in [Thread -> Phase]
      /\ pc'[th] = "clear" /\ phase'[th] = "undo"
      /\ \A o \in Thread \ {th} : pc'[o] = pc[o]
  BY <1>2, GotoFacts DEF IInv, Phase, Statement
<1>5. TypeOK'
  BY <1>2, <1>3, <1>4 DEF IInv, TypeOK
<1>6. Place(th)'
  BY <1>3, <1>4 DEF Place
<1>7. QED
  BY <1>1, <1>2, <1>3, <1>4, <1>5, <1>6, StepOfOne

-----------------------------------------------------------------------------
(***************************************************************************)
(* The theorems about serial requests.                                     *)
(***************************************************************************)

\* With one request at a time IInv is an inductive invariant.
THEOREM SerialInductive == Serial => (Spec => []IInv)
<1> SUFFICES ASSUME Serial PROVE Spec => []IInv
  OBVIOUS
<1>1. Init => IInv
  BY RequestAssumption
  DEF Init, IInv, TypeOK, Open, Quiet, Active, Place, Truthful, Statement,
      Phase, Outcome
<1>2. IInv /\ [Next]_vars => IInv'
  <2>1. ASSUME IInv, NEW th \in Thread, Receive(th) \/ Step(th)
        PROVE  IInv'
    BY <2>1, ReceiveStep, StartStep, StartFailsStep, ServeStep, ServeFailsStep,
       NotifyStep, NotifyFailsStep, EndStep, EndFailsStep, ClearStep, CheckStep,
       RollbackStep
    DEF Step
  <2>2. IInv /\ UNCHANGED vars => IInv'
    BY DEF vars, IInv, TypeOK, Open, Quiet, Active, Place, Truthful, Holds
  <2>3. QED
    BY <2>1, <2>2 DEF Next
<1>3. QED
  BY <1>1, <1>2, PTL DEF Spec

\* Between two requests no connection is out of the pool and no transaction is
\* bound to a thread.
THEOREM SerialRequestsLeakNothing == Serial => (Spec => []NothingLeaks)
<1>1. IInv => NothingLeaks
  BY DEF IInv, NothingLeaks, Quiet
<1>2. QED
  BY <1>1, SerialInductive, PTL

\* A success was committed and a form with errors was not.
THEOREM SerialRepliesAreTrue == Serial => (Spec => []RepliesAreTrue)
<1>1. IInv => RepliesAreTrue
  BY DEF IInv, RepliesAreTrue, Place, Truthful
<1>2. QED
  BY <1>1, SerialInductive, PTL

\* The assertion of commitTransaction never fails.
THEOREM SerialActiveAtCommit == Serial => (Spec => []ActiveAtCommit)
<1>1. IInv => ActiveAtCommit
  BY DEF IInv, ActiveAtCommit, Place, Holds
<1>2. QED
  BY <1>1, SerialInductive, PTL

\* onSuccess and onFailure are called in fresh transactions.
THEOREM SerialTransactionsAreFresh == Serial => (Spec => []FreshTransactions)
<1>1. IInv => FreshTransactions
  BY DEF IInv, FreshTransactions, Place, Holds
<1>2. QED
  BY <1>1, SerialInductive, PTL

-----------------------------------------------------------------------------
(***************************************************************************)
(* Requests that overlap: Serial need not hold.                            *)
(***************************************************************************)

\* A step of one thread that brings its request nearer to its end.
Descends(th) ==
  /\ StatementsLeft'[th] < StatementsLeft[th]
  /\ \A o \in Thread \ {th} : StatementsLeft'[o] = StatementsLeft[o]

\* The statements left after each statement of each phase.
LEMMA LeftTable ==
  /\ \A ph \in Phase : Left(ph, "idle") = 0
  /\ /\ Left("main", "start") = 19 /\ Left("main", "serve") = 18
     /\ Left("main", "check") = 18 /\ Left("main", "end") = 17
     /\ Left("main", "rollback") = 17 /\ Left("main", "clear") = 16
  /\ /\ Left("after", "start") = 14 /\ Left("after", "serve") = 13
     /\ Left("after", "check") = 13 /\ Left("after", "end") = 12
     /\ Left("after", "rollback") = 12 /\ Left("after", "clear") = 11
  /\ /\ Left("undo", "start") = 9 /\ Left("undo", "serve") = 8
     /\ Left("undo", "check") = 8 /\ Left("undo", "end") = 7
     /\ Left("undo", "rollback") = 7 /\ Left("undo", "clear") = 6
  /\ /\ Left("recover", "start") = 4 /\ Left("recover", "serve") = 3
     /\ Left("recover", "check") = 3 /\ Left("recover", "end") = 2
     /\ Left("recover", "rollback") = 2 /\ Left("recover", "clear") = 1
  BY DEF Left

\* At most nineteen, and none only for a thread without a request.
LEMMA LeftBound ==
  ASSUME NEW ph \in Phase, NEW st \in Statement
  PROVE  Left(ph, st) \in 0..19 /\ (st # "idle" => 0 < Left(ph, st))
  BY LeftTable DEF Phase, Statement

\* Moving to a statement that is nearer to the end.
LEMMA Descending ==
  ASSUME TypeOK, NEW th \in Thread,
         \A o \in Thread \ {th} : pc'[o] = pc[o] /\ phase'[o] = phase[o],
         Left(phase'[th], pc'[th]) < Left(phase[th], pc[th])
  PROVE  Descends(th)
  BY DEF Descends, StatementsLeft

\* What a step has to show of the control of its thread: the types, that only
\* the catch block checks, and that the request is nearer to its end.
LEMMA GotoDescends ==
  ASSUME TypeOK, OnlyTheCatchChecks, NEW th \in Thread, NEW ph \in Phase,
         NEW st \in Statement, Goto(th, ph, st),
         st \in {"check", "rollback"} => ph = "undo",
         Left(ph, st) < Left(phase[th], pc[th])
  PROVE  /\ pc' \in [Thread -> Statement] /\ phase' \in [Thread -> Phase]
         /\ OnlyTheCatchChecks' /\ Descends(th)
<1>1. /\ pc' \in [Thread -> Statement] /\ phase' \in [Thread -> Phase]
      /\ pc'[th] = st /\ phase'[th] = ph
      /\ \A o \in Thread \ {th} : pc'[o] = pc[o] /\ phase'[o] = phase[o]
  BY GotoFacts
<1>2. Descends(th)
  BY <1>1, Descending
<1>3. OnlyTheCatchChecks'
  BY <1>1 DEF OnlyTheCatchChecks
<1>4. QED
  BY <1>1, <1>2, <1>3

LEMMA ReplyDescends ==
  ASSUME TypeOK, OnlyTheCatchChecks, NEW th \in Thread, NEW result \in Outcome,
         pc[th] # "idle", Reply(th, result)
  PROVE  /\ pc' \in [Thread -> Statement] /\ phase' \in [Thread -> Phase]
         /\ outcome' \in [Thread -> Outcome]
         /\ OnlyTheCatchChecks' /\ Descends(th)
<1>1. Left("main", "idle") < Left(phase[th], pc[th])
  BY LeftTable, LeftBound DEF TypeOK, Phase
<1>2. /\ pc' \in [Thread -> Statement] /\ phase' \in [Thread -> Phase]
      /\ OnlyTheCatchChecks' /\ Descends(th)
  BY <1>1, GotoDescends DEF Reply, Phase, Statement
<1>3. outcome' \in [Thread -> Outcome]
  BY ReplyFacts
<1>4. QED
  BY <1>2, <1>3

LEMMA ThrowDescends ==
  ASSUME TypeOK, OnlyTheCatchChecks, NEW th \in Thread, pc[th] # "idle",
         Throw(th)
  PROVE  /\ pc' \in [Thread -> Statement] /\ phase' \in [Thread -> Phase]
         /\ outcome' \in [Thread -> Outcome]
         /\ OnlyTheCatchChecks' /\ Descends(th)
<1>1. CASE phase[th] \in {"main", "after"}
  <2>1. Goto(th, "undo", "check") /\ outcome' = outcome
    BY <1>1 DEF Throw
  <2>2. Left("undo", "check") < Left(phase[th], pc[th])
    BY <1>1, LeftTable DEF TypeOK, Statement
  <2>3. /\ pc' \in [Thread -> Statement] /\ phase' \in [Thread -> Phase]
        /\ OnlyTheCatchChecks' /\ Descends(th)
    BY <2>1, <2>2, GotoDescends DEF Phase, Statement
  <2>4. QED
    BY <2>1, <2>3 DEF TypeOK
<1>2. CASE phase[th] \notin {"main", "after"}
  BY <1>2, ReplyDescends DEF Throw, Outcome
<1>3. QED
  BY <1>1, <1>2

\* The transactions that are open and bound, whoever began them.
Transactions ==
  /\ status \in Status \cup {None}
  /\ bound \in [Thread -> Open \cup {None, Stale}]
  /\ writes \in [Conn -> (SUBSET Thread) \cup {None}]
  /\ saved \in [Thread -> {"nothing", "yes", "no"}]
  /\ FieldIsOpen

\* Steps that leave the transactions alone.
LEMMA UntouchedTransactions ==
  ASSUME Transactions, UNCHANGED <<status, bound, writes, saved>>
  PROVE  Transactions'
  BY DEF Transactions, FieldIsOpen, Active, Open

\* A transaction is begun on a connection of the pool, or taken part in.
LEMMA BeganTransactions ==
  ASSUME Transactions, NEW th \in Thread, NEW st \in Status, Began(th, st),
         status' = st, saved' = saved
  PROVE  Transactions'
<1>1. CASE /\ bound[th] \in Conn
           /\ st = [conn |-> bound[th], new |-> FALSE, completed |-> FALSE]
  <2>1. st.conn = bound[th] /\ st.new = FALSE
    BY <1>1
  <2>2. bound' = bound /\ writes' = writes
    BY <2>1 DEF Began, Transactions
  <2>3. QED
    BY <2>1, <2>2 DEF Transactions, FieldIsOpen, Open
<1>2. CASE \E c \in Conn \ Open :
             st = [conn |-> c, new |-> TRUE, completed |-> FALSE]
  <2>1. PICK c \in Conn \ Open :
          st = [conn |-> c, new |-> TRUE, completed |-> FALSE]
    BY <1>2
  <2>2. st.conn = c /\ st.new = TRUE
    BY <2>1
  <2>3. bound' = [bound EXCEPT ![th] = c] /\ writes' = [writes EXCEPT ![c] = {}]
    BY <2>2 DEF Began
  <2>4. writes' \in [Conn -> (SUBSET Thread) \cup {None}] /\ writes'[c] # None
    BY <2>1, <2>3, RequestAssumption DEF Transactions
  <2>5. Open \subseteq Open' /\ c \in Open'
    BY <2>1, <2>3, <2>4 DEF Open, Transactions
  <2>6. bound' \in [Thread -> Open' \cup {None, Stale}]
    BY <2>3, <2>5 DEF Transactions
  <2>7. FieldIsOpen'
    BY <2>2, <2>5 DEF FieldIsOpen
  <2>8. QED
    BY <2>4, <2>6, <2>7 DEF Transactions
<1>3. QED
  BY <1>1, <1>2 DEF Began

\* The transaction of the field is ended, be it that of th or another; no
\* thread stays bound to it.
LEMMA EndedTransactions ==
  ASSUME Transactions, Active, NEW th \in Thread,
         NEW verdict \in {"yes", "no"}, Ended(th, verdict)
  PROVE  Transactions'
<1>1. /\ status \in Status /\ status.new \in BOOLEAN /\ status.conn \in Conn
      /\ status' = [status EXCEPT !.completed = TRUE]
  BY DEF Active, Transactions, Status, Ended
<1>2. status' \in Status /\ status'.completed
  BY <1>1 DEF Status
<1>3. FieldIsOpen'
  BY <1>2 DEF FieldIsOpen, Active
<1>4. CASE status.new
  <2>1. /\ writes' = [writes EXCEPT ![status.conn] = None]
        /\ bound' = [o \in Thread |->
                       IF o = th THEN None
                       ELSE IF bound[o] = status.conn THEN Stale
                       ELSE bound[o]]
        /\ saved' = [o \in Thread |-> IF o \in writes[status.conn]
                                      THEN verdict ELSE saved[o]]
    BY <1>4 DEF Ended
  <2>2. writes' \in [Conn -> (SUBSET Thread) \cup {None}]
    BY <1>1, <2>1 DEF Transactions
  <2>3. Open \ {status.conn} \subseteq Open'
    BY <1>1, <2>1 DEF Open, Transactions
  <2>4. bound' \in [Thread -> Open' \cup {None, Stale}]
    BY <2>1, <2>3 DEF Transactions
  <2>5. saved' \in [Thread -> {"nothing", "yes", "no"}]
    BY <2>1 DEF Transactions
  <2>6. QED
    BY <1>2, <1>3, <2>2, <2>4, <2>5 DEF Transactions
<1>5. CASE ~status.new
  BY <1>2, <1>3, <1>5 DEF Ended, Transactions, Open
<1>6. QED
  BY <1>1, <1>4, <1>5

\* A request writes in the transaction that is bound to its thread.
LEMMA WroteTransactions ==
  ASSUME Transactions, NEW th \in Thread, bound[th] \in Conn,
         UNCHANGED <<status, bound>>,
         writes' = [writes EXCEPT ![bound[th]] = @ \cup {th}],
         saved' = [saved EXCEPT ![th] = "no"]
  PROVE  Transactions'
<1>1. bound[th] \in Open
  BY RequestAssumption DEF Transactions
<1>2. writes[bound[th]] \in SUBSET Thread
  BY <1>1 DEF Open, Transactions
<1>3. /\ writes' \in [Conn -> (SUBSET Thread) \cup {None}]
      /\ writes'[bound[th]] = writes[bound[th]] \cup {th}
  BY <1>2 DEF Transactions
<1>4. writes[bound[th]] \cup {th} # None
  BY <1>2, RequestAssumption
<1>5. Open' = Open
  BY <1>1, <1>3, <1>4 DEF Open, Transactions
<1>6. saved' \in [Thread -> {"nothing", "yes", "no"}]
  BY DEF Transactions
<1>7. QED
  BY <1>3, <1>5, <1>6 DEF Transactions, FieldIsOpen, Active

\* The parts of OverlapInv: transactions, control and the record of a request.
LEMMA OverlapParts ==
  OverlapInv <=>
    /\ Transactions /\ OnlyTheCatchChecks
    /\ pc \in [Thread -> Statement] /\ phase \in [Thread -> Phase]
    /\ found \in [Thread -> BOOLEAN] /\ outcome \in [Thread -> Outcome]
  BY DEF OverlapInv, TypeOK, Transactions

\* A request is received while others are being served.
LEMMA ReceiveOverlaps ==
  ASSUME OverlapInv, NEW th \in Thread, Receive(th)
  PROVE  /\ OverlapInv'
         /\ pc[th] = "idle"
         /\ \A o \in Thread \ {th} : StatementsLeft'[o] = StatementsLeft[o]
<1>1. /\ pc' \in [Thread -> Statement] /\ phase' \in [Thread -> Phase]
      /\ pc'[th] = "start"
      /\ \A o \in Thread \ {th} : pc'[o] = pc[o] /\ phase'[o] = phase[o]
  BY GotoFacts DEF Receive, OverlapInv, Phase, Statement
<1>2. OnlyTheCatchChecks'
  BY <1>1 DEF OnlyTheCatchChecks, OverlapInv
<1>3. Transactions'
  <2>1. /\ UNCHANGED <<status, bound, writes>>
        /\ saved' = [saved EXCEPT ![th] = "nothing"]
    BY DEF Receive
  <2>2. QED
    BY <2>1, OverlapParts DEF Transactions, FieldIsOpen, Active, Open
<1>4. found' \in [Thread -> BOOLEAN] /\ outcome' \in [Thread -> Outcome]
  BY DEF Receive, OverlapInv, TypeOK, Outcome
<1>5. OverlapInv'
  BY <1>1, <1>2, <1>3, <1>4, OverlapParts
     DEF OverlapInv, TypeOK, Transactions
<1>6. QED
  BY <1>1, <1>5 DEF StatementsLeft, Receive

\* A transaction is begun, or the thread takes part in one.
LEMMA StartOverlaps ==
  ASSUME OverlapInv, NEW th \in Thread, Start(th)
  PROVE  OverlapInv' /\ Descends(th)
<1>1. Transactions'
  BY BeganTransactions, OverlapParts DEF Start
<1>2. Left(phase[th], "serve") < Left(phase[th], "start")
  BY LeftTable DEF OverlapInv, TypeOK, Phase
<1>3. /\ pc' \in [Thread -> Statement] /\ phase' \in [Thread -> Phase]
      /\ OnlyTheCatchChecks' /\ Descends(th)
  BY <1>2, GotoDescends DEF Start, OverlapInv, TypeOK, Statement
<1>4. QED
  BY <1>1, <1>3 DEF Start, OverlapInv, TypeOK, Transactions

\* No transaction could be begun.
LEMMA StartFailsOverlaps ==
  ASSUME OverlapInv, NEW th \in Thread, StartFails(th)
  PROVE  OverlapInv' /\ Descends(th)
<1>1. Transactions'
  BY UntouchedTransactions, OverlapParts DEF StartFails
<1>2. /\ pc' \in [Thread -> Statement] /\ phase' \in [Thread -> Phase]
      /\ outcome' \in [Thread -> Outcome]
      /\ OnlyTheCatchChecks' /\ Descends(th)
  BY ThrowDescends DEF StartFails, OverlapInv
<1>3. QED
  BY <1>1, <1>2 DEF StartFails, OverlapInv, TypeOK, Transactions

\* The service is served.
LEMMA ServeOverlaps ==
  ASSUME OverlapInv, NEW th \in Thread, NEW result \in {"success", "errors"},
         Serve(th, result)
  PROVE  OverlapInv' /\ Descends(th)
<1>1. Transactions'
  BY WroteTransactions, OverlapParts DEF Serve
<1>2. /\ pc' \in [Thread -> Statement] /\ phase' \in [Thread -> Phase]
      /\ OnlyTheCatchChecks' /\ Descends(th)
  BY LeftTable, GotoDescends DEF Serve, OverlapInv, Phase, Statement
<1>3. found' \in [Thread -> BOOLEAN] /\ outcome' \in [Thread -> Outcome]
  BY DEF Serve, OverlapInv, TypeOK, Outcome
<1>4. QED
  BY <1>1, <1>2, <1>3 DEF OverlapInv, TypeOK, Transactions

\* The request or its service fails.
LEMMA ServeFailsOverlaps ==
  ASSUME OverlapInv, NEW th \in Thread, ServeFails(th)
  PROVE  OverlapInv' /\ Descends(th)
<1>1. Transactions' /\ found' \in [Thread -> BOOLEAN]
  <2>1. CASE /\ \E known \in BOOLEAN : found' = [found EXCEPT ![th] = known]
             /\ UNCHANGED <<writes, saved>>
    BY <2>1, UntouchedTransactions, OverlapParts
       DEF ServeFails
  <2>2. CASE /\ bound[th] \in Conn
             /\ found' = [found EXCEPT ![th] = TRUE]
             /\ writes' = [writes EXCEPT ![bound[th]] = @ \cup {th}]
             /\ saved' = [saved EXCEPT ![th] = "no"]
    BY <2>2, WroteTransactions, OverlapParts DEF ServeFails
  <2>3. QED
    BY <2>1, <2>2 DEF ServeFails
<1>2. /\ pc' \in [Thread -> Statement] /\ phase' \in [Thread -> Phase]
      /\ outcome' \in [Thread -> Outcome]
      /\ OnlyTheCatchChecks' /\ Descends(th)
  BY ThrowDescends DEF ServeFails, OverlapInv
<1>3. QED
  BY <1>1, <1>2 DEF OverlapInv, TypeOK, Transactions

\* onSuccess or onFailure returns or throws.
LEMMA NotifyOverlaps ==
  ASSUME OverlapInv, NEW th \in Thread, Notify(th) \/ NotifyFails(th)
  PROVE  OverlapInv' /\ Descends(th)
<1>1. Transactions'
  BY UntouchedTransactions, OverlapParts DEF Notify, NotifyFails
<1>2. /\ pc' \in [Thread -> Statement] /\ phase' \in [Thread -> Phase]
      /\ outcome' \in [Thread -> Outcome]
      /\ OnlyTheCatchChecks' /\ Descends(th)
  <2>1. CASE Notify(th)
    <3>1. Left(phase[th], "end") < Left(phase[th], "serve")
      BY LeftTable DEF OverlapInv, TypeOK, Phase
    <3>2. QED
      BY <2>1, <3>1, GotoDescends DEF Notify, OverlapInv, TypeOK, Statement
  <2>2. CASE NotifyFails(th)
    BY <2>2, ThrowDescends DEF NotifyFails, OverlapInv
  <2>3. QED
    BY <2>1, <2>2
<1>3. QED
  BY <1>1, <1>2 DEF Notify, NotifyFails, OverlapInv, TypeOK, Transactions

\* The commit or the rollback of whatever transaction the field holds.
LEMMA EndOverlaps ==
  ASSUME OverlapInv, NEW th \in Thread, End(th)
  PROVE  OverlapInv' /\ Descends(th)
<1>1. Transactions'
  <2>1. PICK verdict \in {"yes", "no"} : Ended(th, verdict)
    BY DEF End
  <2>2. QED
    BY <2>1, EndedTransactions, OverlapParts DEF End
<1>2. Left(phase[th], "clear") < Left(phase[th], "end")
  BY LeftTable DEF OverlapInv, TypeOK, Phase
<1>3. /\ pc' \in [Thread -> Statement] /\ phase' \in [Thread -> Phase]
      /\ OnlyTheCatchChecks' /\ Descends(th)
  BY <1>2, GotoDescends DEF End, OverlapInv, TypeOK, Statement
<1>4. QED
  BY <1>1, <1>3 DEF End, OverlapInv, TypeOK, Transactions

\* The commit throws, or finds nothing to commit.
LEMMA EndFailsOverlaps ==
  ASSUME OverlapInv, NEW th \in Thread, EndFails(th)
  PROVE  OverlapInv' /\ Descends(th)
<1>1. Transactions'
  BY UntouchedTransactions, EndedTransactions, OverlapParts DEF EndFails
<1>2. /\ pc' \in [Thread -> Statement] /\ phase' \in [Thread -> Phase]
      /\ outcome' \in [Thread -> Outcome]
      /\ OnlyTheCatchChecks' /\ Descends(th)
  BY ThrowDescends DEF EndFails, OverlapInv
<1>3. QED
  BY <1>1, <1>2 DEF EndFails, OverlapInv, TypeOK, Transactions

\* The field is set to null, also when another thread's status is in it.
LEMMA ClearOverlaps ==
  ASSUME OverlapInv, NEW th \in Thread, Clear(th)
  PROVE  OverlapInv' /\ Descends(th)
<1>1. Transactions'
  BY OverlapParts DEF Clear, Transactions, FieldIsOpen, Active, Open
<1>2. /\ pc' \in [Thread -> Statement] /\ phase' \in [Thread -> Phase]
      /\ outcome' \in [Thread -> Outcome]
      /\ OnlyTheCatchChecks' /\ Descends(th)
  <2>1. CASE phase[th] = "main" /\ Goto(th, "after", "start")
             /\ UNCHANGED outcome
    BY <2>1, LeftTable, GotoDescends
       DEF Clear, OverlapInv, TypeOK, Phase, Statement
  <2>2. CASE \E result \in Outcome : Reply(th, result)
    BY <2>2, ReplyDescends DEF Clear, OverlapInv
  <2>3. CASE phase[th] = "undo" /\ Goto(th, "recover", "start")
             /\ UNCHANGED outcome
    BY <2>3, LeftTable, GotoDescends
       DEF Clear, OverlapInv, TypeOK, Phase, Statement
  <2>4. CASE Throw(th)
    BY <2>4, ThrowDescends DEF Clear, OverlapInv
  <2>5. outcome[th] \in Outcome /\ "panic" \in Outcome
    BY DEF OverlapInv, TypeOK, Outcome
  <2>6. QED
    BY <2>1, <2>2, <2>3, <2>4, <2>5 DEF Clear
<1>3. QED
  BY <1>1, <1>2 DEF Clear, OverlapInv, TypeOK, Transactions

\* The catch block looks at the field, whoever wrote it.
LEMMA CheckOverlaps ==
  ASSUME OverlapInv, NEW th \in Thread, Check(th)
  PROVE  OverlapInv' /\ Descends(th)
<1>1. Transactions'
  BY UntouchedTransactions, OverlapParts DEF Check
<1>2. pc[th] = "check" /\ phase[th] = "undo"
  BY DEF Check, OverlapInv, OnlyTheCatchChecks
<1>3. /\ pc' \in [Thread -> Statement] /\ phase' \in [Thread -> Phase]
      /\ outcome' \in [Thread -> Outcome]
      /\ OnlyTheCatchChecks' /\ Descends(th)
  <2>1. CASE Goto(th, "undo", "rollback") /\ UNCHANGED outcome
    BY <1>2, <2>1, LeftTable, GotoDescends
       DEF OverlapInv, TypeOK, Phase, Statement
  <2>2. CASE Goto(th, "recover", "start") /\ UNCHANGED outcome
    BY <1>2, <2>2, LeftTable, GotoDescends
       DEF OverlapInv, TypeOK, Phase, Statement
  <2>3. CASE Reply(th, "panic")
    BY <1>2, <2>3, ReplyDescends DEF OverlapInv, Outcome
  <2>4. QED
    BY <2>1, <2>2, <2>3 DEF Check
<1>4. QED
  BY <1>1, <1>3 DEF Check, OverlapInv, TypeOK, Transactions

\* The catch block rolls back whatever the field holds by now.
LEMMA RollbackOverlaps ==
  ASSUME OverlapInv, NEW th \in Thread, Rollback(th)
  PROVE  OverlapInv' /\ Descends(th)
<1>1. Transactions'
  BY UntouchedTransactions, EndedTransactions, OverlapParts DEF Rollback
<1>2. pc[th] = "rollback" /\ phase[th] = "undo"
  BY DEF Rollback, OverlapInv, OnlyTheCatchChecks
<1>3. /\ pc' \in [Thread -> Statement] /\ phase' \in [Thread -> Phase]
      /\ outcome' \in [Thread -> Outcome]
      /\ OnlyTheCatchChecks' /\ Descends(th)
  <2>1. CASE Goto(th, "undo", "clear") /\ UNCHANGED outcome
    BY <1>2, <2>1, LeftTable, GotoDescends
       DEF OverlapInv, TypeOK, Phase, Statement
  <2>2. CASE Throw(th)
    BY <1>2, <2>2, ThrowDescends DEF OverlapInv
  <2>3. QED
    BY <2>1, <2>2 DEF Rollback
<1>4. QED
  BY <1>1, <1>3 DEF Rollback, OverlapInv, TypeOK, Transactions

\* Every statement, in any interleaving.
LEMMA StepOverlaps ==
  ASSUME OverlapInv, NEW th \in Thread, Step(th)
  PROVE  OverlapInv' /\ Descends(th)
  BY StartOverlaps, StartFailsOverlaps, ServeOverlaps, ServeFailsOverlaps,
     NotifyOverlaps, EndOverlaps, EndFailsOverlaps, ClearOverlaps,
     CheckOverlaps, RollbackOverlaps
  DEF Step

\* However requests overlap, no thread stays bound to a connection that is
\* back in the pool, and a status in the field that can still end a
\* transaction is that of an open one: no connection is returned twice.
THEOREM OverlapInductive == Spec => []OverlapInv
<1>1. Init => OverlapInv
  BY RequestAssumption
  DEF Init, OverlapInv, TypeOK, FieldIsOpen, OnlyTheCatchChecks, Active,
      Statement, Phase, Outcome
<1>2. OverlapInv /\ [Next]_vars => OverlapInv'
  <2>1. OverlapInv /\ UNCHANGED vars => OverlapInv'
    BY DEF vars, OverlapInv, TypeOK, FieldIsOpen, OnlyTheCatchChecks, Active,
           Open
  <2>2. QED
    BY <2>1, ReceiveOverlaps, StepOverlaps DEF Next
<1>3. QED
  BY <1>1, <1>2, PTL DEF Spec

\* Every state is of the declared types, whether requests overlap or not: a
\* transaction that is bound to a thread is open.
THEOREM TypeCorrect == Spec => []TypeOK
<1>1. OverlapInv => TypeOK
  BY DEF OverlapInv
<1>2. QED
  BY <1>1, OverlapInductive, PTL

\* handleRequest never goes back, however requests fail and overlap: a request
\* takes at most nineteen steps.
THEOREM RequestsAreBounded ==
  Spec => RequestsRunOut /\ [](StatementsLeft \in [Thread -> 0..19])
<1>1. OverlapInv => StatementsLeft \in [Thread -> 0..19]
  BY LeftBound DEF OverlapInv, TypeOK, StatementsLeft
<1>2. ASSUME OverlapInv, [Next]_vars
      PROVE  [\E th \in Thread :
                /\ pc[th] = "idle" \/ StatementsLeft'[th] < StatementsLeft[th]
                /\ \A o \in Thread \ {th} :
                     StatementsLeft'[o] = StatementsLeft[o]]_vars
  BY <1>2, ReceiveOverlaps, StepOverlaps DEF Next, Descends
<1>3. QED
  BY <1>1, <1>2, OverlapInductive, PTL DEF Spec, RequestsRunOut
===============================================================================
