--------------------------- MODULE RequestContract ----------------------------
(***************************************************************************)
(* What a request promises its client, whatever transactions serve it: the *)
(* fate of what it writes is decided once, before the reply leaves, and    *)
(* the reply is true to it.                                                *)
(***************************************************************************)
CONSTANT Thread

VARIABLES
  effect,     \* what became of the writes of the request of each thread
  reply       \* the reply of that request, or "working"

vars == <<effect, reply>>

Answers == {"success", "errors", "panic", "escaped"}

Init ==
  /\ effect = [th \in Thread |-> "nothing"]
  /\ reply = [th \in Thread |-> "none"]

Ask(th) ==
  /\ reply[th] # "working"
  /\ reply' = [reply EXCEPT ![th] = "working"]
  /\ effect' = [effect EXCEPT ![th] = "nothing"]

Write(th) ==
  /\ reply[th] = "working"
  /\ effect[th] = "nothing"
  /\ effect' = [effect EXCEPT ![th] = "pending"]
  /\ UNCHANGED reply

Decide(th, fate) ==
  /\ reply[th] = "working"
  /\ effect[th] = "pending"
  /\ effect' = [effect EXCEPT ![th] = fate]
  /\ UNCHANGED reply

\* A panic view says nothing about the writes (onSuccess may fail after they
\* were committed), but their fate is known.
Truth(answer, fate) ==
  /\ answer = "success" => fate = "kept"
  /\ answer = "errors" => fate = "dropped"
  /\ fate # "pending"

Answer(th, answer) ==
  /\ reply[th] = "working"
  /\ Truth(answer, effect[th])
  /\ reply' = [reply EXCEPT ![th] = answer]
  /\ UNCHANGED effect

Next ==
  \E th \in Thread :
    \/ Ask(th)
    \/ Write(th)
    \/ \E fate \in {"kept", "dropped"} : Decide(th, fate)
    \/ \E answer \in Answers : Answer(th, answer)

Spec == Init /\ [][Next]_vars
===============================================================================
