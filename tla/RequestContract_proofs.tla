------------------------ MODULE RequestContract_proofs ------------------------
(***************************************************************************)
(* Requests that come one at a time keep RequestContract, for every number *)
(* of threads and connections.                                             *)
(***************************************************************************)
EXTENDS RequestTransactions_proofs

\* Only the request being served can be pending.
LEMMA OnlyOnePending ==
  ASSUME IInv, NEW th \in Thread, pc[th] # "idle"
  PROVE  \A c \in Open : writes[c] \subseteq {th}
<1>1. Quiet \/ Holds(th)
  BY DEF IInv, TypeOK, Place, Statement
<1>2. QED
  BY <1>1 DEF Quiet, Holds

\* How the effect of each request is read off the state.
LEMMA EffectValues ==
  /\ Effect =
       [th \in Thread |->
          IF saved[th] = "nothing" THEN "nothing"
          ELSE IF saved[th] = "yes" THEN "kept"
          ELSE IF Pending(th) THEN "pending" ELSE "dropped"]
  /\ Effect' =
       [th \in Thread |->
          IF saved'[th] = "nothing" THEN "nothing"
          ELSE IF saved'[th] = "yes" THEN "kept"
          ELSE IF Pending(th)' THEN "pending" ELSE "dropped"]
  BY DEF Effect, Pending

\* What a step of one thread has to show about that thread.
LEMMA StepKeepsContract ==
  ASSUME NEW th \in Thread,
         \A o \in Thread \ {th} :
           Effect'[o] = Effect[o] /\ Answered'[o] = Answered[o],
         \/ Effect'[th] = Effect[th] /\ Answered'[th] = Answered[th]
         \/ /\ Answered[th] # "working" /\ Answered'[th] = "working"
            /\ Effect'[th] = "nothing"
         \/ /\ Answered[th] = "working" /\ Answered'[th] = "working"
            /\ Effect[th] = "nothing" /\ Effect'[th] = "pending"
         \/ /\ Answered[th] = "working" /\ Answered'[th] = "working"
            /\ Effect[th] = "pending" /\ Effect'[th] \in {"kept", "dropped"}
         \/ /\ Answered[th] = "working"
            /\ Answered'[th] \in Contract!Answers
            /\ Contract!Truth(Answered'[th], Effect[th])
            /\ Effect'[th] = Effect[th]
  PROVE  Contract!Next \/ UNCHANGED Contract!vars
<1>1. /\ Effect = [o \in Thread |-> Effect[o]]
      /\ Effect' = [o \in Thread |-> Effect'[o]]
      /\ Answered = [o \in Thread |-> Answered[o]]
      /\ Answered' = [o \in Thread |-> Answered'[o]]
  BY DEF Effect, Answered
<1>2. /\ Effect' = [Effect EXCEPT ![th] = Effect'[th]]
      /\ Answered' = [Answered EXCEPT ![th] = Answered'[th]]
  BY <1>1
<1>3. CASE Effect'[th] = Effect[th] /\ Answered'[th] = Answered[th]
  BY <1>1, <1>2, <1>3 DEF Contract!vars
<1>4. CASE /\ Answered[th] # "working" /\ Answered'[th] = "working"
           /\ Effect'[th] = "nothing"
  <2>1. Contract!Ask(th)
    BY <1>2, <1>4 DEF Contract!Ask
  <2>2. QED
    BY <2>1 DEF Contract!Next
<1>5. CASE /\ Answered[th] = "working" /\ Answered'[th] = "working"
           /\ Effect[th] = "nothing" /\ Effect'[th] = "pending"
  <2>1. Contract!Write(th)
    BY <1>1, <1>2, <1>5 DEF Contract!Write
  <2>2. QED
    BY <2>1 DEF Contract!Next
<1>6. CASE /\ Answered[th] = "working" /\ Answered'[th] = "working"
           /\ Effect[th] = "pending" /\ Effect'[th] \in {"kept", "dropped"}
  <2>1. Contract!Decide(th, Effect'[th])
    BY <1>1, <1>2, <1>6 DEF Contract!Decide
  <2>2. QED
    BY <1>6, <2>1 DEF Contract!Next
<1>7. CASE /\ Answered[th] = "working"
           /\ Answered'[th] \in Contract!Answers
           /\ Contract!Truth(Answered'[th], Effect[th])
           /\ Effect'[th] = Effect[th]
  <2>1. Contract!Answer(th, Answered'[th])
    BY <1>1, <1>2, <1>7 DEF Contract!Answer
  <2>2. QED
    BY <1>7, <2>1 DEF Contract!Next
<1>8. QED
  BY <1>3, <1>4, <1>5, <1>6, <1>7

\* The same, read off the variables: the thread that serves a request moves on
\* and nobody else is concerned.
LEMMA MovesOn ==
  ASSUME IInv, Accounted, NEW th \in Thread, pc[th] # "idle", pc'[th] # "idle",
         \A o \in Thread \ {th} : /\ pc'[o] = pc[o]
                                  /\ outcome'[o] = outcome[o]
                                  /\ saved'[o] = saved[o],
         \A c \in Open' : writes'[c] \subseteq {th},
         Account(th)',
         \/ saved'[th] = saved[th] /\ (Pending(th)' <=> Pending(th))
         \/ saved[th] = "nothing" /\ saved'[th] = "no" /\ Pending(th)'
         \/ Pending(th) /\ saved'[th] \in {"yes", "no"} /\ ~Pending(th)'
  PROVE  Accounted' /\ (Contract!Next \/ UNCHANGED Contract!vars)
<1>1. \A o \in Thread \ {th} : ~Pending(o) /\ ~Pending(o)' /\ pc[o] = "idle"
  BY OnlyOnePending, OnlyOneServes DEF Pending
<1>2. \A o \in Thread \ {th} : Account(o)'
  BY <1>1 DEF Account
<1>3. \A o \in Thread \ {th} :
        Effect'[o] = Effect[o] /\ Answered'[o] = Answered[o]
  BY <1>1, EffectValues DEF Answered
<1>4. Answered[th] = "working" /\ Answered'[th] = "working"
  BY DEF Answered
<1>5. saved[th] \in {"nothing", "yes", "no"} /\ (Pending(th) => saved[th] = "no")
  BY DEF IInv, TypeOK, Accounted, Account
<1>6. CASE saved'[th] = saved[th] /\ (Pending(th)' <=> Pending(th))
  <2>1. Effect'[th] = Effect[th]
    BY <1>6, EffectValues
  <2>2. QED
    BY <1>2, <1>3, <1>4, <2>1, StepKeepsContract DEF Accounted
<1>7. CASE saved[th] = "nothing" /\ saved'[th] = "no" /\ Pending(th)'
  <2>1. Effect[th] = "nothing" /\ Effect'[th] = "pending"
    BY <1>7, EffectValues
  <2>2. QED
    BY <1>2, <1>3, <1>4, <2>1, StepKeepsContract DEF Accounted
<1>8. CASE Pending(th) /\ saved'[th] \in {"yes", "no"} /\ ~Pending(th)'
  <2>1. Effect[th] = "pending" /\ Effect'[th] \in {"kept", "dropped"}
    BY <1>5, <1>8, EffectValues
  <2>2. QED
    BY <1>2, <1>3, <1>4, <2>1, StepKeepsContract DEF Accounted
<1>9. QED
  BY <1>6, <1>7, <1>8

\* The thread replies when nothing of its request is pending.
LEMMA Replies ==
  ASSUME IInv, Accounted, NEW th \in Thread, pc[th] # "idle", pc'[th] = "idle",
         \A o \in Thread \ {th} : pc'[o] = pc[o] /\ outcome'[o] = outcome[o],
         saved' = saved, Open = {}, Open' = {},
         outcome'[th] \in {"success", "errors", "panic", "escaped"},
         outcome'[th] = "success" => saved[th] = "yes",
         outcome'[th] = "errors" => saved[th] = "no"
  PROVE  Accounted' /\ (Contract!Next \/ UNCHANGED Contract!vars)
<1>1. \A o \in Thread : ~Pending(o) /\ ~Pending(o)'
  BY DEF Pending
<1>2. \A o \in Thread : pc'[o] = "idle"
  BY OnlyOneServes
<1>3. Accounted'
  BY <1>1, <1>2 DEF Accounted, Account
<1>4. \A o \in Thread : Effect'[o] = Effect[o]
  BY <1>1, EffectValues
<1>5. \A o \in Thread \ {th} : Answered'[o] = Answered[o]
  BY DEF Answered
<1>6. Answered[th] = "working" /\ Answered'[th] = outcome'[th]
  BY DEF Answered
<1>7. saved[th] \in {"nothing", "yes", "no"}
  BY DEF IInv, TypeOK
<1>8. Contract!Truth(Answered'[th], Effect[th])
  BY <1>1, <1>6, <1>7, EffectValues DEF Contract!Truth
<1>9. QED
  BY <1>3, <1>4, <1>5, <1>6, <1>8, StepKeepsContract DEF Contract!Answers

\* Throwing while nothing is open: on to the catch block, or out of it.
LEMMA ThrowKeeps ==
  ASSUME IInv, Accounted, NEW th \in Thread, pc[th] # "idle", Throw(th),
         saved' = saved, Open = {}, Open' = {}
  PROVE  Accounted' /\ (Contract!Next \/ UNCHANGED Contract!vars)
<1>1. /\ \/ pc'[th] = "check" /\ phase'[th] = "undo"
         \/ pc'[th] = "idle" /\ outcome'[th] = "escaped"
      /\ \A o \in Thread \ {th} : pc'[o] = pc[o] /\ outcome'[o] = outcome[o]
  BY ThrowFacts DEF IInv
<1>2. ~Pending(th) /\ ~Pending(th)'
  BY DEF Pending
<1>3. CASE pc'[th] = "check" /\ phase'[th] = "undo"
  <2>1. Account(th)'
    BY <1>2, <1>3 DEF Account
  <2>2. QED
    BY <1>1, <1>2, <1>3, <2>1, MovesOn
<1>4. CASE pc'[th] = "idle" /\ outcome'[th] = "escaped"
  BY <1>1, <1>4, Replies
<1>5. QED
  BY <1>1, <1>3, <1>4

-----------------------------------------------------------------------------
(***************************************************************************)
(* Each step of a request.                                                 *)
(***************************************************************************)

\* A thread whose request is idle asks.
LEMMA ReceiveKeeps ==
  ASSUME IInv, Accounted, Serial, NEW th \in Thread, Receive(th)
  PROVE  Accounted' /\ (Contract!Next \/ UNCHANGED Contract!vars)
<1>1. (\A o \in Thread : pc[o] = "idle") /\ Open = {} /\ Open' = {}
  BY DEF Receive, IInv, Quiet, Open
<1>2. \A o \in Thread : ~Pending(o) /\ ~Pending(o)'
  BY <1>1 DEF Pending
<1>3. /\ pc'[th] = "start" /\ saved'[th] = "nothing"
      /\ \A o \in Thread \ {th} : /\ pc'[o] = "idle"
                                  /\ outcome'[o] = outcome[o]
                                  /\ saved'[o] = saved[o]
      /\ phase'[th] = "main"
  BY <1>1, GotoFacts DEF Receive, IInv, TypeOK, Phase, Statement
<1>4. Accounted'
  BY <1>2, <1>3 DEF Accounted, Account
<1>5. \A o \in Thread \ {th} :
        Effect'[o] = Effect[o] /\ Answered'[o] = Answered[o]
  BY <1>1, <1>2, <1>3, EffectValues DEF Answered
<1>6. Effect'[th] = "nothing" /\ Answered'[th] = "working"
  BY <1>3, EffectValues DEF Answered
<1>7. Answered[th] # "working"
  BY <1>1 DEF Answered, IInv, TypeOK, Outcome
<1>8. QED
  BY <1>4, <1>5, <1>6, <1>7, StepKeepsContract

\* A transaction begins, with nothing written.
LEMMA StartKeeps ==
  ASSUME IInv, Accounted, NEW th \in Thread, Start(th)
  PROVE  Accounted' /\ (Contract!Next \/ UNCHANGED Contract!vars)
<1>1. pc[th] = "start" /\ Quiet /\ saved' = saved /\ outcome' = outcome
  BY DEF Start, IInv, Place
<1>2. Holds(th)' /\ writes'[status'.conn] = {} /\ pc'[th] = "serve"
  BY StartStep, GotoFacts DEF Start, IInv, Place, TypeOK, Statement
<1>3. /\ phase'[th] = phase[th]
      /\ \A o \in Thread \ {th} : pc'[o] = pc[o]
  BY GotoFacts DEF Start, IInv, TypeOK, Statement
<1>4. Open = {} /\ \A c \in Open' : writes'[c] = {}
  BY <1>1, <1>2 DEF Quiet, Holds
<1>5. ~Pending(th) /\ ~Pending(th)'
  BY <1>4 DEF Pending
<1>6. Account(th)'
  BY <1>1, <1>2, <1>3, <1>5 DEF Accounted, Account
<1>7. QED
  BY <1>1, <1>2, <1>3, <1>4, <1>5, <1>6, MovesOn

\* No transaction could be begun.
LEMMA StartFailsKeeps ==
  ASSUME IInv, Accounted, NEW th \in Thread, StartFails(th)
  PROVE  Accounted' /\ (Contract!Next \/ UNCHANGED Contract!vars)
<1>1. pc[th] = "start" /\ Open = {} /\ Open' = {}
  BY DEF StartFails, IInv, Place, Quiet, Open
<1>2. QED
  BY <1>1, ThrowKeeps DEF StartFails

\* Writing makes the request pending, whether the service ends well or throws.
LEMMA WritingKeeps ==
  ASSUME IInv, Accounted, NEW th \in Thread, pc[th] = "serve",
         phase[th] = "main", pc'[th] # "idle",
         \A o \in Thread \ {th} : pc'[o] = pc[o] /\ outcome'[o] = outcome[o],
         UNCHANGED <<status, bound>>,
         writes' = [writes EXCEPT ![bound[th]] = @ \cup {th}],
         saved' = [saved EXCEPT ![th] = "no"],
         pc'[th] \in {"end", "check"}, phase'[th] \in {"main", "undo"}
  PROVE  Accounted' /\ (Contract!Next \/ UNCHANGED Contract!vars)
<1>1. Holds(th) /\ writes[status.conn] = {} /\ saved[th] = "nothing"
  BY DEF IInv, Place, Accounted, Account
<1>2. Holds(th)' /\ writes'[status.conn] = {th} /\ Open' = Open
  BY <1>1, WriteFacts DEF IInv
<1>3. Open' = {status.conn}
  BY <1>1, <1>2 DEF Holds
<1>4. Pending(th)' /\ \A c \in Open' : writes'[c] \subseteq {th}
  BY <1>2, <1>3 DEF Pending
<1>5. /\ saved'[th] = "no"
      /\ \A o \in Thread \ {th} : saved'[o] = saved[o]
  BY DEF IInv, TypeOK
<1>6. Account(th)'
  BY <1>5 DEF Account
<1>7. QED
  BY <1>1, <1>4, <1>5, <1>6, MovesOn

\* The service is served.
LEMMA ServeKeeps ==
  ASSUME IInv, Accounted, NEW th \in Thread,
         NEW result \in {"success", "errors"}, Serve(th, result)
  PROVE  Accounted' /\ (Contract!Next \/ UNCHANGED Contract!vars)
<1>1. /\ pc'[th] = "end" /\ phase'[th] = "main"
      /\ \A o \in Thread \ {th} : pc'[o] = pc[o] /\ outcome'[o] = outcome[o]
  BY GotoFacts DEF Serve, IInv, TypeOK, Statement, Phase
<1>2. QED
  BY <1>1, WritingKeeps DEF Serve

\* The request or its service fails, with or without having written.
LEMMA ServeFailsKeeps ==
  ASSUME IInv, Accounted, NEW th \in Thread, ServeFails(th)
  PROVE  Accounted' /\ (Contract!Next \/ UNCHANGED Contract!vars)
<1>1. pc[th] = "serve" /\ phase[th] = "main"
  BY DEF ServeFails
<1>2. /\ pc'[th] = "check" /\ phase'[th] = "undo"
      /\ \A o \in Thread \ {th} : pc'[o] = pc[o] /\ outcome'[o] = outcome[o]
  BY <1>1, ThrowFacts DEF ServeFails, IInv
<1>3. CASE UNCHANGED <<writes, saved>>
  <2>1. Open' = Open /\ (Pending(th)' <=> Pending(th))
    BY <1>3 DEF Open, Pending
  <2>2. \A c \in Open' : writes'[c] \subseteq {th}
    BY <1>1, <1>3, <2>1, OnlyOnePending
  <2>3. Account(th)'
    BY <1>2, <1>3, <2>1 DEF Accounted, Account
  <2>4. QED
    BY <1>1, <1>2, <1>3, <2>1, <2>2, <2>3, MovesOn
<1>4. CASE /\ writes' = [writes EXCEPT ![bound[th]] = @ \cup {th}]
           /\ saved' = [saved EXCEPT ![th] = "no"]
  BY <1>1, <1>2, <1>4, WritingKeeps DEF ServeFails
<1>5. QED
  BY <1>3, <1>4 DEF ServeFails

\* onSuccess or onFailure returns.
LEMMA NotifyKeeps ==
  ASSUME IInv, Accounted, NEW th \in Thread, Notify(th)
  PROVE  Accounted' /\ (Contract!Next \/ UNCHANGED Contract!vars)
<1>1. /\ pc[th] = "serve" /\ phase[th] # "main"
      /\ UNCHANGED <<writes, saved, outcome>>
  BY DEF Notify
<1>2. /\ pc'[th] = "end" /\ phase'[th] = phase[th]
      /\ \A o \in Thread \ {th} : pc'[o] = pc[o]
  BY GotoFacts DEF Notify, IInv, TypeOK, Statement
<1>3. Open' = Open /\ (Pending(th)' <=> Pending(th))
  BY <1>1 DEF Open, Pending
<1>4. \A c \in Open' : writes'[c] \subseteq {th}
  BY <1>1, <1>3, OnlyOnePending
<1>5. Account(th)'
  BY <1>1, <1>2, <1>3 DEF Accounted, Account
<1>6. QED
  BY <1>1, <1>2, <1>3, <1>4, <1>5, MovesOn

\* onSuccess throws.
LEMMA NotifyFailsKeeps ==
  ASSUME IInv, Accounted, NEW th \in Thread, NotifyFails(th)
  PROVE  Accounted' /\ (Contract!Next \/ UNCHANGED Contract!vars)
<1>1. pc[th] = "serve" /\ phase[th] = "after" /\ UNCHANGED <<writes, saved>>
  BY DEF NotifyFails
<1>2. /\ pc'[th] = "check" /\ phase'[th] = "undo"
      /\ \A o \in Thread \ {th} : pc'[o] = pc[o] /\ outcome'[o] = outcome[o]
  BY <1>1, ThrowFacts DEF NotifyFails, IInv
<1>3. Open' = Open /\ (Pending(th)' <=> Pending(th))
  BY <1>1 DEF Open, Pending
<1>4. \A c \in Open' : writes'[c] \subseteq {th}
  BY <1>1, <1>3, OnlyOnePending
<1>5. Account(th)'
  BY <1>1, <1>2, <1>3 DEF Accounted, Account
<1>6. QED
  BY <1>1, <1>2, <1>3, <1>4, <1>5, MovesOn

\* Ending the transaction that th holds decides on what it wrote there, and
\* th moves on.
LEMMA EndingKeeps ==
  ASSUME IInv, Accounted, NEW th \in Thread, pc[th] # "idle", Holds(th),
         NEW verdict \in {"yes", "no"}, Ended(th, verdict),
         pc'[th] \in {"clear", "check"}, phase'[th] # "main" \/ pc'[th] = "clear",
         (pc'[th] = "clear" /\ phase'[th] = "main") \/ phase'[th] = "after" =>
           outcome'[th] \in {"success", "errors"},
         \A o \in Thread \ {th} : pc'[o] = pc[o] /\ outcome'[o] = outcome[o]
  PROVE  Accounted' /\ (Contract!Next \/ UNCHANGED Contract!vars)
<1>1. /\ Open' = {}
      /\ saved'[th] = IF th \in writes[status.conn] THEN verdict ELSE saved[th]
      /\ \A o \in Thread \ {th} : saved'[o] = saved[o]
  BY EndedFacts DEF IInv
<1>2. Pending(th) <=> th \in writes[status.conn]
  BY DEF Pending, Holds
<1>3. ~Pending(th)'
  BY <1>1 DEF Pending
<1>4. Account(th)'
  BY <1>3 DEF Account
<1>5. CASE Pending(th)
  BY <1>1, <1>2, <1>3, <1>4, <1>5, MovesOn
<1>6. CASE ~Pending(th)
  BY <1>1, <1>2, <1>3, <1>4, <1>6, MovesOn
<1>7. QED
  BY <1>5, <1>6

\* commitTransaction or rollbackTransaction succeeds.
LEMMA EndKeeps ==
  ASSUME IInv, Accounted, NEW th \in Thread, End(th)
  PROVE  Accounted' /\ (Contract!Next \/ UNCHANGED Contract!vars)
<1> DEFINE verdict == IF phase[th] = "main" /\ outcome[th] = "errors"
                      THEN "no" ELSE "yes"
<1>1. /\ pc[th] = "end" /\ Holds(th) /\ outcome' = outcome
      /\ verdict \in {"yes", "no"} /\ Ended(th, verdict)
      /\ phase[th] = "main" => outcome[th] \in {"success", "errors"}
  BY DEF End, IInv, Place
<1>2. phase[th] = "after" => outcome[th] \in {"success", "errors"}
  BY <1>1 DEF Accounted, Account
<1>3. /\ pc'[th] = "clear" /\ phase'[th] = phase[th]
      /\ \A o \in Thread \ {th} : pc'[o] = pc[o]
  BY GotoFacts DEF End, IInv, TypeOK, Statement
<1> HIDE DEF verdict
<1>4. QED
  BY <1>1, <1>2, <1>3, EndingKeeps

\* The commit throws: in the main phase that drops what was written, in the
\* others nothing was.
LEMMA EndFailsKeeps ==
  ASSUME IInv, Accounted, NEW th \in Thread, EndFails(th)
  PROVE  Accounted' /\ (Contract!Next \/ UNCHANGED Contract!vars)
<1>1. /\ pc[th] = "end" /\ Holds(th)
      /\ phase[th] # "main" => writes[status.conn] = {}
  BY DEF EndFails, IInv, Place
<1>2. Ended(th, "no") /\ Throw(th)
  BY <1>1 DEF EndFails, Holds
<1>3. /\ \/ pc'[th] = "check" /\ phase'[th] = "undo"
         \/ /\ phase[th] \notin {"main", "after"}
            /\ pc'[th] = "idle" /\ outcome'[th] = "escaped"
      /\ \A o \in Thread \ {th} : pc'[o] = pc[o] /\ outcome'[o] = outcome[o]
  BY <1>2, ThrowFacts DEF IInv
<1>4. CASE pc'[th] = "check" /\ phase'[th] = "undo"
  BY <1>1, <1>2, <1>3, <1>4, EndingKeeps
<1>5. CASE phase[th] \notin {"main", "after"} /\ pc'[th] = "idle"
           /\ outcome'[th] = "escaped"
  <2>1. Open' = {} /\ saved' \in [Thread -> {"nothing", "yes", "no"}]
        /\ \A o \in Thread : saved'[o] = saved[o]
    BY <1>1, <1>2, <1>5, EndedFacts DEF IInv
  <2>2. \A o \in Thread : ~Pending(o) /\ ~Pending(o)'
    BY <1>1, <1>5, <2>1 DEF Pending, Holds
  <2>3. \A o \in Thread : pc'[o] = "idle"
    BY <1>1, <1>3, <1>5, OnlyOneServes
  <2>4. Accounted'
    BY <2>2, <2>3 DEF Accounted, Account
  <2>5. \A o \in Thread : Effect'[o] = Effect[o]
    BY <2>1, <2>2, EffectValues
  <2>6. \A o \in Thread \ {th} : Answered'[o] = Answered[o]
    BY <1>3 DEF Answered
  <2>7. Answered[th] = "working" /\ Answered'[th] = "escaped"
    BY <1>1, <1>5 DEF Answered
  <2>8. Contract!Truth(Answered'[th], Effect[th])
    BY <2>2, <2>7, EffectValues DEF Contract!Truth
  <2>9. QED
    BY <2>4, <2>5, <2>6, <2>7, <2>8, StepKeepsContract DEF Contract!Answers
<1>6. QED
  BY <1>3, <1>4, <1>5

\* The field is set to null: on to the next phase, or the reply.
LEMMA ClearKeeps ==
  ASSUME IInv, Accounted, NEW th \in Thread, Clear(th)
  PROVE  Accounted' /\ (Contract!Next \/ UNCHANGED Contract!vars)
<1>1. /\ pc[th] = "clear" /\ UNCHANGED <<writes, saved>>
      /\ Open = {} /\ Open' = {}
      /\ phase[th] \in {"main", "after"} => Truthful(th)
  BY DEF Clear, IInv, Place, Quiet, Open
<1>2. ~Pending(th) /\ ~Pending(th)'
  BY <1>1 DEF Pending
<1>3. phase[th] \in {"main", "after"} => outcome[th] \in {"success", "errors"}
  BY <1>1 DEF Accounted, Account
<1>4. CASE phase[th] = "main" /\ Goto(th, "after", "start") /\ UNCHANGED outcome
  <2>1. /\ pc'[th] = "start" /\ phase'[th] = "after"
        /\ \A o \in Thread \ {th} : pc'[o] = pc[o]
    BY <1>4, GotoFacts DEF IInv, Phase, Statement
  <2>2. Account(th)'
    BY <1>2, <1>3, <1>4, <2>1 DEF Account
  <2>3. QED
    BY <1>1, <1>2, <1>4, <2>1, <2>2, MovesOn
<1>5. CASE Goto(th, "recover", "start") /\ UNCHANGED outcome
  <2>1. /\ pc'[th] = "start" /\ phase'[th] = "recover"
        /\ \A o \in Thread \ {th} : pc'[o] = pc[o]
    BY <1>5, GotoFacts DEF IInv, Phase, Statement
  <2>2. Account(th)'
    BY <1>2, <2>1 DEF Account
  <2>3. QED
    BY <1>1, <1>2, <1>5, <2>1, <2>2, MovesOn
<1>6. CASE phase[th] = "after" /\ Reply(th, outcome[th])
  <2>1. /\ pc'[th] = "idle" /\ outcome'[th] = outcome[th]
        /\ \A o \in Thread \ {th} : pc'[o] = pc[o] /\ outcome'[o] = outcome[o]
    BY <1>3, <1>6, ReplyFacts DEF IInv, Outcome
  <2>2. QED
    BY <1>1, <1>3, <1>6, <2>1, Replies DEF Truthful
<1>7. CASE Reply(th, "panic")
  <2>1. /\ pc'[th] = "idle" /\ outcome'[th] = "panic"
        /\ \A o \in Thread \ {th} : pc'[o] = pc[o] /\ outcome'[o] = outcome[o]
    BY <1>7, ReplyFacts DEF IInv, Outcome
  <2>2. QED
    BY <1>1, <2>1, Replies
<1>8. CASE Throw(th)
  BY <1>1, <1>8, ThrowKeeps
<1>9. QED
  BY <1>4, <1>5, <1>6, <1>7, <1>8 DEF Clear

\* The catch block looks at the field: with nothing to undo it goes on to
\* onFailure or replies.
LEMMA CheckKeeps ==
  ASSUME IInv, Accounted, NEW th \in Thread, Check(th)
  PROVE  Accounted' /\ (Contract!Next \/ UNCHANGED Contract!vars)
<1>1. /\ pc[th] = "check" /\ UNCHANGED <<writes, saved>>
      /\ ~Active => Open = {}
  BY DEF Check, IInv, Place, Quiet, Holds
<1>2. Open' = Open /\ (Pending(th)' <=> Pending(th))
  BY <1>1 DEF Open, Pending
<1>3. /\ \A c \in Open' : writes'[c] \subseteq {th}
      /\ Pending(th) => saved[th] = "no"
  BY <1>1, <1>2, OnlyOnePending DEF Accounted, Account
<1>4. CASE \E ph \in {"undo", "recover"}, st \in {"rollback", "start"} :
             Goto(th, ph, st) /\ UNCHANGED outcome
  <2>1. /\ pc'[th] \in {"rollback", "start"} /\ phase'[th] \in {"undo", "recover"}
        /\ \A o \in Thread \ {th} : pc'[o] = pc[o]
    BY <1>4, GotoFacts DEF IInv, Phase, Statement
  <2>2. Account(th)'
    BY <1>1, <1>2, <1>3, <2>1 DEF Account
  <2>3. QED
    BY <1>1, <1>2, <1>3, <1>4, <2>1, <2>2, MovesOn
<1>5. CASE ~Active /\ Reply(th, "panic")
  <2>1. /\ pc'[th] = "idle" /\ outcome'[th] = "panic"
        /\ \A o \in Thread \ {th} : pc'[o] = pc[o] /\ outcome'[o] = outcome[o]
    BY <1>5, ReplyFacts DEF IInv, Outcome
  <2>2. QED
    BY <1>1, <1>2, <1>5, <2>1, Replies
<1>6. QED
  BY <1>4, <1>5 DEF Check

\* The catch block rolls back.
LEMMA RollbackKeeps ==
  ASSUME IInv, Accounted, NEW th \in Thread, Rollback(th)
  PROVE  Accounted' /\ (Contract!Next \/ UNCHANGED Contract!vars)
<1>1. pc[th] = "rollback" /\ Holds(th)
  BY DEF Rollback, IInv, Place
<1>2. Ended(th, "no") /\ Goto(th, "undo", "clear") /\ UNCHANGED outcome
  BY <1>1 DEF Rollback, Holds
<1>3. /\ pc'[th] = "clear" /\ phase'[th] = "undo"
      /\ \A o \in Thread \ {th} : pc'[o] = pc[o]
  BY <1>2, GotoFacts DEF IInv, Phase, Statement
<1>4. QED
  BY <1>1, <1>2, <1>3, EndingKeeps

-----------------------------------------------------------------------------
(***************************************************************************)
(* The refinement.                                                         *)
(***************************************************************************)

\* Requests one at a time implement RequestContract.
THEOREM SerialKeepsContract == Serial => (Spec => KeepsTheContract)
<1> SUFFICES ASSUME Serial PROVE Spec => Contract!Spec
  BY DEF KeepsTheContract
<1>1. Init => Accounted /\ Contract!Init
  BY DEF Init, Accounted, Account, Pending, Open, Contract!Init, Effect,
         Answered
<1>2. IInv /\ Accounted /\ [Next]_vars =>
        Accounted' /\ [Contract!Next]_Contract!vars
  <2>1. ASSUME IInv, Accounted, NEW th \in Thread, Receive(th) \/ Step(th)
        PROVE  Accounted' /\ (Contract!Next \/ UNCHANGED Contract!vars)
    BY <2>1, ReceiveKeeps, StartKeeps, StartFailsKeeps, ServeKeeps,
       ServeFailsKeeps, NotifyKeeps, NotifyFailsKeeps, EndKeeps, EndFailsKeeps,
       ClearKeeps, CheckKeeps, RollbackKeeps
    DEF Step
  <2>2. Accounted /\ UNCHANGED vars =>
          Accounted' /\ UNCHANGED Contract!vars
    BY DEF vars, Accounted, Account, Pending, Open, Contract!vars, Effect,
           Answered
  <2>3. QED
    BY <2>1, <2>2 DEF Next
<1>3. Spec => []IInv
  BY SerialInductive
<1>4. QED
  BY <1>1, <1>2, <1>3, PTL DEF Spec, Contract!Spec
===============================================================================
