---------------------------- MODULE TurnService ----------------------------
(***************************************************************************)
(* What a session promises its clients, without queues, tasks or cancels:  *)
(* a message is accepted once, runs at most once, never beside another     *)
(* one, and leaves for good.  SessionActor implements it.                  *)
(***************************************************************************)
CONSTANT Messages

VARIABLE phase   \* where each message is in its life

Phases == {"absent", "waiting", "running", "done"}

Init == phase = [m \in Messages |-> "absent"]

Idle == \A m \in Messages : phase[m] # "running"

\* Messages of W that wait leave unrun; message x, if any, moves to `next`.
Leave(W, x, next) ==
  /\ \A w \in W : phase[w] = "waiting"
  /\ phase' = [m \in Messages |-> IF m = x THEN next
                                  ELSE IF m \in W THEN "done" ELSE phase[m]]

\* A new message is accepted; others may be preempted by it.
Accept(x, W) == phase[x] = "absent" /\ Leave(W, x, "waiting")

\* A new message is turned into something that is not a turn.
Refuse(x, W) == phase[x] = "absent" /\ Leave(W, x, "done")

\* With no turn running a waiting message starts; others may be folded into it.
Begin(x, W) == phase[x] = "waiting" /\ Idle /\ Leave(W, x, "running")

\* The running turn ends or is cancelled; others may be cancelled with it.
End(x, W) == phase[x] = "running" /\ Leave(W, x, "done")

\* Waiting messages are withdrawn.
Withdraw(x, W) == phase[x] = "waiting" /\ Leave(W, x, "done")

Next ==
  \E x \in Messages, W \in SUBSET Messages :
     Accept(x, W) \/ Refuse(x, W) \/ Begin(x, W) \/ End(x, W) \/ Withdraw(x, W)

Spec == Init /\ [][Next]_phase
=============================================================================
