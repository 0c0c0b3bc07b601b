---------------------- MODULE SessionPromotion_proofs ----------------------
(***************************************************************************)
(* What every start of a turn keeps to, by the loop and by the promoters   *)
(* outside it: Ctrl+C keeps the session quiet, no row and no interjection  *)
(* waits for a start that never comes, and the row a turn was started from *)
(* is not edited under it.  All of it for every set of prompts, wakes,     *)
(* clients, promoters and cancels.                                         *)
(***************************************************************************)
EXTENDS SessionActor_proofs

-----------------------------------------------------------------------------
(* The life of a prompt.                                                    *)

\* A status changes only on its way from new over waiting or deferred to an end, and
\* `ends` are the ends a step gives.
Moves(ends) ==
  \A x \in Ids :
     \/ status'[x] = status[x]
     \/ /\ status[x] \in {"new", "waiting", "deferred"}
        /\ status'[x] # "new" /\ (status'[x] = "waiting" => status[x] = "new")
        /\ status'[x] \in {"ok", "cancelled"} => status'[x] \in ends

\* The prompts a step accepts.
Entering == {x \in Ids : status[x] = "new" /\ status'[x] # "new"}

\* A step that leaves the statuses alone.
LEMMA MovesUnchanged == ASSUME UNCHANGED status PROVE Moves({}) /\ Entering = {}
BY DEF Moves, Entering

\* Resolving messages that wait or are deferred.
LEMMA MovesResolve ==
  ASSUME Inv, NEW S, NEW how, status' = Resolve(S, how),
         \A x \in S \cap Ids : status[x] \in {"waiting", "deferred"},
         how \notin {"new", "waiting", "ok", "cancelled"}
  PROVE  Moves({}) /\ Entering = {}
<1>1. Ids \subseteq All
  BY Kinds
<1>2. status' = [x \in All |-> IF x \in S THEN how ELSE status[x]]
  BY DEF Resolve
<1> QED BY <1>1, <1>2 DEF Moves, Entering

\* Updating one message.
LEMMA MovesExcept ==
  ASSUME Inv, NEW x \in All, NEW how, status' = [status EXCEPT ![x] = how],
         \/ status[x] = "new" /\ how = "waiting"
         \/ status[x] = "waiting" /\ how \notin {"new", "waiting", "ok", "cancelled"}
  PROVE  Moves({}) /\ Entering \subseteq {x}
<1>1. Ids \subseteq All /\ status \in [All -> Statuses]
  BY Kinds DEF Inv, StateTypeOK
<1> QED BY <1>1 DEF Moves, Entering

\* The prompts that are queued, buffered or about to be answered wait.
LEMMA HeldWait ==
  ASSUME Inv
  PROVE  /\ \A x \in Elems(queue) \cup Elems(interjections) :
              x \in Ids /\ status[x] = "waiting"
         /\ \A x \in cancel.doomed : x \in Ids /\ status[x] = "waiting"
         /\ cancel.popped # None => cancel.popped \in Ids /\ status[cancel.popped] = "waiting"
         /\ \A x \in Elems(notes) : status[x] = "deferred"
<1>1. Elems(queue) \subseteq Ids /\ Elems(interjections) \subseteq Ids
  BY Sequences
<1>2. cancel.doomed \subseteq Ids /\ cancel.popped \in Ids \cup {None}
  BY DEF Inv, StateTypeOK
<1>3. \A x \in Elems(notes) : status[x] = "deferred"
  BY NotesFacts
<1> QED BY <1>1, <1>2, <1>3 DEF Inv, UnansweredIsHeld

\* The statuses after notifications were pushed.
LEMMA MovesDefer ==
  ASSUME Inv, NEW ns \in Seq(Wakes \cup Notices),
         \A x \in Elems(ns) \cap Ids : status[x] \in {"new", "waiting"},
         status' = Deferred(Elems(ns), ns)
  PROVE  /\ Moves({}) /\ Entering \subseteq Elems(ns)
         /\ \A x \in Entering : status'[x] # "waiting"
<1>1. /\ \A x \in All \ (Elems(ns) \cup Elems(notes)) : status'[x] = status[x]
      /\ \A x \in All \cap (Elems(ns) \cup Elems(notes)) : status'[x] \in {"deferred", "evicted"}
  BY PushedFacts
<1>2. \A x \in Elems(notes) : status[x] = "deferred"
  BY HeldWait
<1>3. Ids \subseteq All
  BY Kinds
<1> QED BY <1>1, <1>2, <1>3 DEF Moves, Entering

\* The sweep of the monitor buffer, alone and with what a handler takes out.
LEMMA SweepLife ==
  ASSUME Inv, MonitorInv, NEW S, NEW R,
         R = Deferred(Elems(events), events) \/ R = Taken(S, "reported")
  PROVE  /\ R \in [All -> Statuses]
         /\ \A x \in Ids : \/ R[x] = status[x]
                           \/ status[x] = "deferred" /\ R[x] \in {"deferred", "evicted", "reported"}
<1> DEFINE D == Deferred(Elems(events), events)
<1>1. /\ events \in Seq(Wakes \cup Notices) /\ Elems(events) \cap Ids = {}
  BY EventsFacts
<1>2. /\ \A x \in All \ (Elems(events) \cup Elems(notes)) : D[x] = status[x]
      /\ \A x \in All \cap (Elems(events) \cup Elems(notes)) : D[x] \in {"deferred", "evicted"}
      /\ \A x \in All : D[x] = "deferred" <=> x \in Elems(Pending)
  BY <1>1, PushedFacts DEF Pending
<1>3. \A x \in Elems(notes) : status[x] = "deferred"
  BY HeldWait
<1>4. Ids \subseteq All
  BY Kinds
<1>5. \A x \in Ids : D[x] = status[x] \/ (status[x] = "deferred" /\ D[x] \in {"deferred", "evicted"})
  BY <1>1, <1>2, <1>3, <1>4
<1>6. \A x \in Ids : x \in Elems(Pending) => status[x] = "deferred"
  BY <1>2, <1>4, <1>5
<1>7. CASE R = D
  BY <1>5, <1>7, Sweeping
<1>8. CASE R = Taken(S, "reported")
  <2>1. R \in [All -> Statuses]
    BY <1>8, TakenFacts
  <2>2. \A x \in All : R[x] = IF x \in Elems(Pending) \cap S THEN "reported" ELSE D[x]
    BY <1>8 DEF Taken
  <2> HIDE DEF D
  <2> QED BY <1>4, <1>5, <1>6, <2>1, <2>2
<1> QED BY <1>7, <1>8

\* A sweep of the monitor buffer with which no prompt, or prompt n, is accepted.
LEMMA MovesSweep ==
  ASSUME Inv, MonitorInv, NEW S, NEW R,
         R = Deferred(Elems(events), events) \/ R = Taken(S, "reported"),
         NEW n \in Ids, status[n] = "new",
         status' = R \/ status' = [R EXCEPT ![n] = "waiting"]
  PROVE  Moves({}) /\ Entering \subseteq {n}
<1>1. /\ R \in [All -> Statuses]
      /\ \A x \in Ids : \/ R[x] = status[x]
                        \/ status[x] = "deferred" /\ R[x] \in {"deferred", "evicted", "reported"}
  BY SweepLife
<1>2. Ids \subseteq All
  BY Kinds
<1>3. CASE status' = R
  BY <1>1, <1>2, <1>3 DEF Moves, Entering
<1>4. CASE status' = [R EXCEPT ![n] = "waiting"]
  BY <1>1, <1>2, <1>4 DEF Moves, Entering
<1> QED BY <1>3, <1>4

LEMMA MovesSweepOnly ==
  ASSUME Inv, MonitorInv, NEW S, NEW R,
         R = Deferred(Elems(events), events) \/ R = Taken(S, "reported"), status' = R
  PROVE  Moves({}) /\ Entering = {}
<1>1. /\ \A x \in Ids : \/ R[x] = status[x]
                        \/ status[x] = "deferred" /\ R[x] \in {"deferred", "evicted", "reported"}
  BY SweepLife
<1> QED BY <1>1 DEF Moves, Entering

\* One prompt arrives at a time, by a command, a goal continuation, the idle drain or a
\* resumed plan.  Wakes, workflow wakes and notification turns are only queued while
\* nothing is suppressed, the last by the idle drain.
Guarded ==
  /\ \A x, y \in Entering : x = y
  /\ Entering # {} => \/ Command \/ TurnEnd \/ MaybeDrainNotifications
                      \/ \E r \in Promoters : PlanResumeQueue(r)
  /\ \A x \in Entering : status'[x] = "waiting" =>
       /\ x \in Wakes \cup Workflows \cup Drains => ~suppressed
       /\ x \in Drains => MaybeDrainNotifications

\* The kinds of ids exclude one another.
LEMMA Apart ==
  /\ Prompts \cap (Wakes \cup Workflows \cup Drains \cup PlanResumes \cup Nudges) = {}
  /\ Interjections \cap (Wakes \cup Workflows \cup Drains \cup PlanResumes \cup Nudges) = {}
  /\ (SubWakes \cup Crons \cup Nudges \cup PlanResumes) \cap (Wakes \cup Workflows \cup Drains) = {}
  /\ Workflows \cap Drains = {} /\ Wakes \cap Drains = {} /\ Wakes \cap Workflows = {}
  /\ User \cap (Wakes \cup Workflows \cup Drains) = {} /\ Prompts \cap Interjections = {}
  /\ User \cap Completion = {}
BY OriginAssumption DEF User, Synthetic, Completion

\* The life of a prompt under the commands.
LEMMA LifeCommand == ASSUME Inv, MonitorInv, Command PROVE Moves({}) /\ Guarded
<1>u. ASSUME UNCHANGED status PROVE Moves({}) /\ Guarded
  BY <1>u, MovesUnchanged DEF Guarded
<1>w. Elems(queue) \subseteq Ids /\ \A x \in Elems(queue) : status[x] = "waiting"
  BY HeldWait
<1>1. ASSUME NEW p \in Prompts, SubmitPrompt(p) PROVE Moves({}) /\ Guarded
  <2>1. status' = [x \in All |-> IF x = p THEN "waiting"
                                 ELSE IF x \in Preempted THEN "dropped" ELSE status[x]]
        /\ status[p] = "new"
    BY <1>1 DEF SubmitPrompt
  <2>2. Preempted \subseteq Elems(queue)
    BY DEF Preempted, Swept
  <2>3. Moves({}) /\ Entering \subseteq {p}
    BY <1>w, <2>1, <2>2, Kinds DEF Moves, Entering
  <2> QED BY <2>3, Apart DEF Guarded
<1>2. ASSUME NEW p \in Prompts, RemoveQueuedPrompt(p) PROVE Moves({}) /\ Guarded
  <2>1. p \in All /\ status[p] = "waiting" /\ status' = [status EXCEPT ![p] = "removed"]
    BY <1>2, <1>w, Kinds DEF RemoveQueuedPrompt, Row
  <2>2. Moves({}) /\ Entering \subseteq {p}
    BY <2>1, MovesExcept
  <2> QED BY <2>2, Apart DEF Guarded
<1>3. ASSUME NEW p \in Prompts,
             EditQueuedPrompt(p) \/ InterjectQueuedPrompt(p) \/ InterjectMissed(p)
      PROVE  Moves({}) /\ Guarded
  BY <1>3, <1>u DEF EditQueuedPrompt, InterjectQueuedPrompt, InterjectMissed
<1>4. ASSUME NEW p \in Editable, HoldCombineEdit(p) \/ ReleaseCombineEdit(p)
      PROVE  Moves({}) /\ Guarded
  BY <1>4, <1>u DEF HoldCombineEdit, ReleaseCombineEdit
<1>5. ASSUME NEW o \in Clients \cup {None}, ClearQueue(o) PROVE Moves({}) /\ Guarded
  <2> DEFINE C == {p \in Prompts : Row(p) /\ (o = None \/ Owner[p] = o)}
  <2>1. status' = Resolve(C, "removed")
    BY <1>5 DEF ClearQueue
  <2>2. \A x \in C \cap Ids : status[x] \in {"waiting", "deferred"}
    BY <1>w DEF Row
  <2> HIDE DEF C
  <2>3. Moves({}) /\ Entering = {}
    BY <2>1, <2>2, MovesResolve
  <2> QED BY <2>3 DEF Guarded
<1>6. ASSUME NEW s \in Orders, ReorderQueue(s) PROVE Moves({}) /\ Guarded
  BY <1>6, <1>u DEF ReorderQueue
<1>7. ASSUME NEW w \in Wakes, AdmitTaskWake(w) PROVE Moves({}) /\ Guarded
  <2>0. w \in All /\ w \in Ids /\ status[w] = "new"
    BY <1>7, Kinds DEF AdmitTaskWake
  <2>1. CASE PushBack(w) /\ ~suppressed
    <3>1. Moves({}) /\ Entering \subseteq {w}
      BY <2>0, <2>1, MovesExcept DEF PushBack
    <3> QED BY <2>1, <3>1, Apart DEF Guarded
  <2>2. CASE status' = Deferred({w}, <<w>>)
    <3>1. Elems(<<w>>) = {w} /\ <<w>> \in Seq(Wakes \cup Notices)
      BY DEF Elems
    <3>2. Moves({}) /\ Entering \subseteq {w} /\ \A x \in Entering : status'[x] # "waiting"
      BY <2>0, <2>2, <3>1, MovesDefer
    <3> QED BY <3>2 DEF Guarded
  <2> QED BY <1>7, <2>1, <2>2 DEF AdmitTaskWake
<1>8. ASSUME NEW x \in SubWakes \cup Crons \cup Workflows \cup Nudges, QueueSynthetic(x)
      PROVE  Moves({}) /\ Guarded
  <2>1. x \in All /\ status[x] = "new" /\ status' = [status EXCEPT ![x] = "waiting"]
        /\ (x \in Workflows => ~suppressed)
    BY <1>8, Kinds DEF QueueSynthetic, PushBack
  <2>2. Moves({}) /\ Entering \subseteq {x}
    BY <2>1, MovesExcept
  <2> QED BY <2>1, <2>2, Apart DEF Guarded
<1>9. ASSUME NEW n \in Notices, InjectNotification(n) PROVE Moves({}) /\ Guarded
  <2>1. Elems(<<n>>) = {n} /\ <<n>> \in Seq(Wakes \cup Notices)
    BY DEF Elems
  <2>2. status' = Deferred({n}, <<n>>) /\ status[n] = "new"
    BY <1>9 DEF InjectNotification
  <2>3. Moves({}) /\ Entering \subseteq {n} /\ \A x \in Entering : status'[x] # "waiting"
    BY <2>1, <2>2, MovesDefer
  <2> QED BY <2>3 DEF Guarded
<1>10. ASSUME NEW j \in Interjections, BufferInterjection(j) \/ QueueInterjection(j)
       PROVE  Moves({}) /\ Guarded
  <2>1. j \in All /\ status[j] = "new" /\ status' = [status EXCEPT ![j] = "waiting"]
    BY <1>10, Kinds DEF BufferInterjection, QueueInterjection
  <2>2. Moves({}) /\ Entering \subseteq {j}
    BY <2>1, MovesExcept
  <2> QED BY <2>2, Apart DEF Guarded
<1>11. ASSUME NEW o \in Cancels, CancelCommand(o) \/ CtrlCPanic(o) PROVE Moves({}) /\ Guarded
  <2>1. status' = Resolve(Elems(interjections), "cleared")
    BY <1>11 DEF CancelCommand, CtrlCPanic
  <2>2. Moves({}) /\ Entering = {}
    BY <2>1, HeldWait, MovesResolve
  <2> QED BY <2>2 DEF Guarded
<1>12. ASSUME NEW k \in Shutdowns, ShutdownCommand(k) PROVE Moves({}) /\ Guarded
  BY <1>12, <1>u DEF ShutdownCommand, historyVars
<1>13. ASSUME NEW m \in Monitors, BufferMonitorEvent(m) PROVE Moves({}) /\ Guarded
  <2>1. m \notin Ids /\ Elems(events) \cap Ids = {} /\ Ids \subseteq All
    BY EventsFacts, ParameterAssumption, OriginAssumption, Kinds
  <2>2. \A x \in Ids : status'[x] = status[x]
    BY <1>13, <2>1 DEF BufferMonitorEvent
  <2> QED BY <2>2 DEF Moves, Entering, Guarded
<1>14. ASSUME NEW w \in Wakes, DropMonitorNotifications(w) PROVE Moves({}) /\ Guarded
  <2>1. /\ status' = Resolve((Elems(notes) \cup Elems(events)) \cap EventsOf({w}), "dropped")
        /\ EventsOf({w}) \cap Ids = {}
    BY <1>14, ParameterAssumption, OriginAssumption DEF DropMonitorNotifications, EventsOf
  <2>2. Moves({}) /\ Entering = {}
    BY <2>1, MovesResolve
  <2> QED BY <2>2 DEF Guarded
<1> QED BY <1>1, <1>2, <1>3, <1>4, <1>5, <1>6, <1>7, <1>8, <1>9, <1>10, <1>11, <1>12, <1>13,
           <1>14
        DEF Command

\* The life of a prompt under a promotion.
LEMMA LifePromotion ==
  ASSUME Inv, NEW stale \in SUBSET Workflows,
         \/ NothingFresh(stale)
         \/ FreshQueue(stale) # <<>> /\ status' = PromotedStatus(stale)
  PROVE  Moves({}) /\ Entering = {}
<1>1. StaleFronts(stale) \subseteq Elems(queue)
  BY FreshQueueFacts
<1>2. \A x \in Elems(queue) : status[x] = "waiting"
  BY HeldWait
<1>3. CASE NothingFresh(stale)
  BY <1>1, <1>2, <1>3, MovesResolve DEF NothingFresh
<1>4. CASE FreshQueue(stale) # <<>> /\ status' = PromotedStatus(stale)
  <2>1. Folded(FreshQueue(stale)) \subseteq Elems(queue)
    BY <1>4, FreshQueueFacts
  <2>2. status' = [x \in All |-> IF x \in StaleFronts(stale) THEN "removed"
                                 ELSE IF x \in Folded(FreshQueue(stale)) THEN "merged"
                                 ELSE status[x]]
    BY <1>4 DEF PromotedStatus
  <2> QED BY <1>1, <1>2, <2>1, <2>2, Kinds DEF Moves, Entering
<1> QED BY <1>3, <1>4

\* The life of a prompt under the steps of a handler.
LEMMA LifeActorStep ==
  ASSUME Inv, MonitorInv, ActorStep
  PROVE  /\ Guarded
         /\ \/ Moves({})
            \/ HandleCompletion /\ Moves({"ok"})
            \/ CancelFinish /\ Moves({"cancelled"})
<1>u. ASSUME Entering = {} PROVE Guarded
  BY <1>u DEF Guarded
<1>w. Elems(queue) \subseteq Ids /\ \A x \in Elems(queue) : status[x] = "waiting"
  BY HeldWait
<1>1. CASE HandleCompletion
  <2> DEFINE t == Head(completions)
  <2>1. CASE UNCHANGED status
    BY <1>u, <2>1, MovesUnchanged
  <2>2. CASE status' = [status EXCEPT ![t] = "ok"] /\ queue # <<>> /\ Head(queue) = t
    <3>1. t \in Elems(queue) /\ status[t] = "waiting" /\ t \in Ids
      BY <2>2, <1>w, Sequences, TailFacts
    <3>2. status \in [All -> Statuses] /\ Ids \subseteq All
      BY Kinds DEF Inv, StateTypeOK
    <3> HIDE DEF t
    <3>3. Moves({"ok"}) /\ Entering = {}
      BY <2>2, <3>1, <3>2 DEF Moves, Entering
    <3> QED BY <1>1, <1>u, <3>3
  <2> QED BY <1>1, <2>1, <2>2 DEF HandleCompletion
<1>2. CASE TurnEnd
  <2>1. CASE status' = Deferred(Elems(events), events)
    BY <1>u, <2>1, MovesSweepOnly
  <2>2. ASSUME NEW n \in Nudges, status[n] = "new",
               status' = [Deferred(Elems(events), events) EXCEPT ![n] = "waiting"]
        PROVE  Moves({}) /\ Guarded
    <3>1. Moves({}) /\ Entering \subseteq {n}
      BY <2>2, MovesSweep, Kinds
    <3> QED BY <1>2, <3>1, Apart DEF Guarded
  <2> QED BY <1>2, <2>1, <2>2 DEF TurnEnd
<1>3. CASE MaybeDrainNotifications
  <2>1. CASE UNCHANGED status
    BY <1>u, <2>1, MovesUnchanged
  <2>2. CASE status' = Taken(All, "reported")
    BY <1>u, <2>2, MovesSweepOnly
  <2>3. ASSUME NEW d \in Drains, status[d] = "new", IdleForInjection,
               status' = [Taken(All, "reported") EXCEPT ![d] = "waiting"]
        PROVE  Moves({}) /\ Guarded
    <3>1. Moves({}) /\ Entering \subseteq {d}
      BY <2>3, MovesSweep, Kinds
    <3> QED BY <1>3, <2>3, <3>1 DEF Guarded, IdleForInjection
  <2> QED BY <1>3, <2>1, <2>2, <2>3 DEF MaybeDrainNotifications
<1>4. CASE FlushForSendNow \/ CancelAbort
  BY <1>4, <1>u, MovesUnchanged DEF FlushForSendNow, CancelAbort, historyVars
<1>5. CASE CancelRewind
  BY <1>5, <1>u, MovesSweepOnly DEF CancelRewind
<1>6. CASE CancelAll
  <2>1. status' = Resolve(Elems(notes) \cup Elems(events), "dropped")
    BY <1>6 DEF CancelAll
  <2>2. \A x \in (Elems(notes) \cup Elems(events)) \cap Ids : status[x] \in {"waiting", "deferred"}
    BY HeldWait, EventsFacts
  <2> QED BY <1>u, <2>1, <2>2, MovesResolve
<1>7. CASE CancelFront
  <2> DEFINE front == IF queue = <<>> THEN {} ELSE {Head(queue)}
             wakes == IF cancel.trigger = "ctrl_c"
                      THEN (Elems(queue) \cap (Wakes \cup Workflows)) \ front ELSE {}
             fallbacks == Retain(queue, wakes \cap Wakes)
             ns == events \o fallbacks
             F == Elems(events) \cup (wakes \cap Wakes)
  <2>1. status' = [x \in All |-> IF x \in wakes \cap Workflows THEN "removed"
                                 ELSE Deferred(F, ns)[x]]
    BY <1>7 DEF CancelFront
  <2>2. wakes \subseteq Elems(queue)
    OBVIOUS
  <2>3. queue \in Seq(Ids)
    BY Sequences
  <2> HIDE DEF wakes
  <2>4. fallbacks \in Seq(Ids) /\ Elems(fallbacks) = wakes \cap Wakes
    BY <2>2, <2>3, RetainElems
  <2> HIDE DEF fallbacks
  <2>5. fallbacks \in Seq(Wakes \cup Notices)
    <3>1. \A i \in 1..Len(fallbacks) : fallbacks[i] \in Wakes
      BY <2>4 DEF Elems
    <3> QED BY <2>4, <3>1
  <2>6. events \in Seq(Wakes \cup Notices) /\ Elems(events) \cap Ids = {}
    BY EventsFacts
  <2>7. ns \in Seq(Wakes \cup Notices) /\ Elems(ns) = F
    BY <2>4, <2>5, <2>6, ConcatFacts
  <2> HIDE DEF ns, F
  <2>8. /\ \A x \in All \ (F \cup Elems(notes)) : Deferred(F, ns)[x] = status[x]
        /\ \A x \in All \cap (F \cup Elems(notes)) : Deferred(F, ns)[x] \in {"deferred", "evicted"}
    BY <2>7, PushedFacts
  <2>9. \A x \in F \cap Ids : status[x] = "waiting"
    BY <1>w, <2>2, <2>6 DEF F
  <2>10. \A x \in Elems(notes) : status[x] = "deferred"
    BY HeldWait
  <2>11. Moves({}) /\ Entering = {}
    BY <1>w, <2>1, <2>2, <2>8, <2>9, <2>10, Kinds DEF Moves, Entering
  <2> QED BY <1>u, <2>11
<1>8. CASE CancelFinish
  <2>1. status' = [x \in All |-> IF x = cancel.popped THEN "rewound"
                                 ELSE IF x \in cancel.doomed THEN "cancelled" ELSE status[x]]
    BY <1>8 DEF CancelFinish
  <2>2. /\ \A x \in cancel.doomed : status[x] = "waiting"
        /\ \A x \in Ids : x = cancel.popped => status[x] = "waiting"
    BY HeldWait, Kinds
  <2>3. Moves({"cancelled"}) /\ Entering = {}
    BY <2>1, <2>2, Kinds DEF Moves, Entering
  <2> QED BY <1>8, <1>u, <2>3
<1>9. CASE CloseSession
  <2>1. status' = Resolve((Elems(queue) \cap Synthetic) \cup Elems(notes), "dropped")
    BY <1>9 DEF CloseSession
  <2>2. \A x \in ((Elems(queue) \cap Synthetic) \cup Elems(notes)) \cap Ids :
           status[x] \in {"waiting", "deferred"}
    BY HeldWait
  <2> QED BY <1>u, <2>1, <2>2, MovesResolve
<1>10. CASE MaybeStartRunningTask
  <2>1. CASE UNCHANGED status
    BY <1>u, <2>1, MovesUnchanged
  <2>2. ASSUME NEW stale \in SUBSET Workflows, StartFront(stale) PROVE Moves({}) /\ Guarded
    <3>1. CASE FreshQueue(stale) = <<>>
      BY <1>u, <2>2, <3>1, LifePromotion DEF StartFront
    <3>2. CASE FreshQueue(stale) # <<>>
      BY <1>u, <2>2, <3>2, LifePromotion DEF StartFront, PromotedStatus
    <3> QED BY <3>1, <3>2
  <2> QED BY <1>10, <2>1, <2>2 DEF MaybeStartRunningTask, historyVars
<1> QED BY <1>1, <1>2, <1>3, <1>4, <1>5, <1>6, <1>7, <1>8, <1>9, <1>10 DEF ActorStep

\* The life of a prompt under the steps of a turn.
LEMMA LifeTurn ==
  ASSUME Inv, MonitorInv, NEW t \in Ids, TurnStep(t) \/ TurnSideEffect(t)
  PROVE  Moves({}) /\ Entering = {}
<1>1. CASE TurnConsumeDeferred(t)
  <2>1. CASE UNCHANGED status
    BY <2>1, MovesUnchanged
  <2>2. ASSUME NEW S, status' = Taken(S, "reported") PROVE Moves({}) /\ Entering = {}
    BY <2>2, MovesSweepOnly
  <2> QED BY <1>1, <2>1, <2>2 DEF TurnConsumeDeferred
<1>2. CASE TurnCommit(t) \/ TurnHostCommand(t) \/ TurnFail(t) \/ TurnEmit(t)
  BY <1>2, MovesUnchanged DEF TurnCommit, TurnHostCommand, TurnFail, TurnEmit
<1>3. CASE TurnCloseScope(t) \/ TurnSendCompletion(t)
  BY <1>3, MovesUnchanged DEF TurnCloseScope, TurnSendCompletion, historyVars
<1>4. CASE TurnDrainInterjections(t)
  BY <1>4, HeldWait, MovesResolve DEF TurnDrainInterjections
<1>5. ASSUME NEW w, TurnConsumeCompletion(t, w) PROVE Moves({}) /\ Entering = {}
  <2> DEFINE G == Swept(queue, running, Completion \cap {w})
             S == Elems(notes) \cap ({w} \cup EventsOf({w}))
  <2>1. \A x \in G \cup S : status[x] \in {"waiting", "deferred"}
    BY HeldWait DEF Swept
  <2>2. status' = [x \in All |-> IF x \in S \cap {w} THEN "reported"
                                 ELSE IF x \in G \cup S THEN "dropped" ELSE status[x]]
    BY <1>5 DEF TurnConsumeCompletion
  <2> HIDE DEF G, S
  <2> QED BY <2>1, <2>2, Kinds DEF Moves, Entering
<1>6. CASE TurnInjectMonitorEvents(t)
  <2>1. \A x \in Elems(events) \cap Ids : status[x] \in {"waiting", "deferred"}
    BY EventsFacts
  <2> QED BY <1>6, <2>1, MovesResolve DEF TurnInjectMonitorEvents
<1> QED BY <1>1, <1>2, <1>3, <1>4, <1>5, <1>6 DEF TurnStep, TurnSideEffect

\* The life of a prompt under the steps of a promoter.
LEMMA LifePromoter ==
  ASSUME Inv, NEW r \in Promoters, PlanResumeQueue(r) \/ PromoterStep(r)
  PROVE  Moves({}) /\ Guarded
<1>u. ASSUME Entering = {} PROVE Guarded
  BY <1>u DEF Guarded
<1>1. CASE PlanResumeQueue(r)
  <2>1. r \in PlanResumes /\ r \in All /\ status[r] = "new"
        /\ status' = [status EXCEPT ![r] = "waiting"]
    BY <1>1, Kinds DEF PlanResumeQueue, PushBack, Inv, PlanResumeIsNew
  <2>2. Moves({}) /\ Entering \subseteq {r}
    BY <2>1, MovesExcept
  <2> QED BY <1>1, <2>1, <2>2, Apart DEF Guarded
<1>2. CASE PromoterBegin(r)
  <2>1. CASE UNCHANGED status
    BY <1>u, <2>1, MovesUnchanged
  <2>2. ASSUME NEW stale \in SUBSET Workflows,
               \/ NothingFresh(stale)
               \/ FreshQueue(stale) # <<>> /\ status' = PromotedStatus(stale)
        PROVE  Moves({}) /\ Guarded
    BY <1>u, <2>2, LifePromotion
  <2> QED BY <1>2, <2>1, <2>2 DEF PromoterBegin, PromotedStatus, historyVars
<1>3. CASE PromoterSpawn(r)
  BY <1>3, <1>u, MovesUnchanged DEF PromoterSpawn, historyVars
<1> QED BY <1>1, <1>2, <1>3 DEF PromoterStep

\* The life of a prompt: it is accepted once, and once it has its end it keeps it.
LEMMA LifeStep ==
  ASSUME Inv, MonitorInv, [Next]_vars
  PROVE  /\ Guarded
         /\ \/ Moves({})
            \/ HandleCompletion /\ Moves({"ok"})
            \/ CancelFinish /\ Moves({"cancelled"})
<1>1. CASE UNCHANGED vars
  BY <1>1, MovesUnchanged DEF vars, historyVars, Guarded
<1>2. ASSUME NEW t \in Ids, TurnStep(t) \/ TurnSideEffect(t) PROVE Moves({}) /\ Guarded
  BY <1>2, LifeTurn DEF Guarded
<1> QED BY <1>1, <1>2, LifeCommand, LifeActorStep, LifePromoter DEF Next, Halted

-----------------------------------------------------------------------------
(* What a step leaves alone.                                                *)

\* A command runs between handlers.  It starts no turn and touches no promoter, and the
\* queue and the texts only under the mutex.
CommandFrame ==
  /\ pc = "ready" /\ completions = <<>>
  /\ UNCHANGED <<running, pin, promoter, started, completions, terminals>>
  /\ Unlocked \/ UNCHANGED <<queue, version, suppressed>>
  /\ \/ UNCHANGED version
     \/ \E p \in Prompts : Row(p) /\ version' = [version EXCEPT ![p] = @ + 1]
  /\ suppressed' => suppressed \/ \E o \in Cancels : CancelCommand(o) /\ o.trigger = "ctrl_c"
  /\ \/ UNCHANGED <<interjections, cancel>>
        /\ pc' \in {"ready", "drain", "start", "sendnow", "closing"}
     \/ \E j \in Interjections : BufferInterjection(j)
     \/ \E o \in Cancels : CancelCommand(o) \/ CtrlCPanic(o)
     \/ \E k \in Shutdowns : ShutdownCommand(k) /\ k = "cancel"
  /\ pc' \in {"ready", "drain"} => Elems(queue') \subseteq Elems(queue)

LEMMA CommandFrames == ASSUME Inv, Command PROVE CommandFrame
<1>q. queue \in Seq(Ids) /\ Distinct(queue)
  BY Sequences
<1>b. suppressed \in BOOLEAN
  BY DEF Inv, StateTypeOK
<1>1. ASSUME NEW p \in Prompts, SubmitPrompt(p) PROVE CommandFrame
  BY <1>1 DEF SubmitPrompt, TakeCommand, CommandFrame
<1>2. ASSUME NEW p \in Prompts, RemoveQueuedPrompt(p) PROVE CommandFrame
  <2>1. Elems(queue') \subseteq Elems(queue)
    BY <1>2, <1>q, WithoutFacts DEF RemoveQueuedPrompt
  <2> QED BY <1>2, <2>1 DEF RemoveQueuedPrompt, ClientCommand, TakeCommand, CommandFrame
<1>3. ASSUME NEW p \in Prompts, EditQueuedPrompt(p) \/ InterjectMissed(p)
      PROVE  CommandFrame
  BY <1>3 DEF EditQueuedPrompt, InterjectMissed, ClientCommand, TakeCommand, CommandFrame
<1>4. ASSUME NEW p \in Prompts, InterjectQueuedPrompt(p) PROVE CommandFrame
  <2>1. /\ ClientCommand /\ Row(p) /\ pc' \in {"start", "sendnow"} /\ UNCHANGED <<held, status>>
        /\ version' = version \/ version' = [version EXCEPT ![p] = @ + 1]
    BY <1>4 DEF InterjectQueuedPrompt
  <2> QED BY <2>1 DEF ClientCommand, TakeCommand, CommandFrame
<1>5. ASSUME NEW p \in Editable, HoldCombineEdit(p) \/ ReleaseCombineEdit(p)
      PROVE  CommandFrame
  BY <1>5 DEF HoldCombineEdit, ReleaseCombineEdit, ClientCommand, TakeCommand, CommandFrame
<1>6. ASSUME NEW o \in Clients \cup {None}, ClearQueue(o) PROVE CommandFrame
  <2>1. Elems(queue') \subseteq Elems(queue)
    BY <1>6, <1>q, WithoutFacts DEF ClearQueue
  <2> QED BY <1>6, <2>1 DEF ClearQueue, ClientCommand, TakeCommand, CommandFrame
<1>7. ASSUME NEW s \in Orders, ReorderQueue(s) PROVE CommandFrame
  <2>1. s \in Seq(Prompts) /\ Distinct(s)
    BY DEF Orders
  <2>2. s \in Seq(Ids)
    BY <2>1, Kinds
  <2>3. Elems(queue') = Elems(queue)
    BY <1>7, <1>q, <2>1, <2>2, ReorderFacts DEF ReorderQueue
  <2> QED BY <1>7, <2>3 DEF ReorderQueue, ClientCommand, TakeCommand, CommandFrame
<1>8. ASSUME NEW w \in Wakes, AdmitTaskWake(w) PROVE CommandFrame
  BY <1>8 DEF AdmitTaskWake, TakeCommand, CommandFrame
<1>9. ASSUME NEW x \in SubWakes \cup Crons \cup Workflows \cup Nudges, QueueSynthetic(x)
      PROVE  CommandFrame
  BY <1>9 DEF QueueSynthetic, TakeCommand, CommandFrame
<1>10. ASSUME NEW n \in Notices, InjectNotification(n) PROVE CommandFrame
  BY <1>10 DEF InjectNotification, TakeCommand, CommandFrame
<1>11. ASSUME NEW m \in Monitors, BufferMonitorEvent(m) PROVE CommandFrame
  BY <1>11 DEF BufferMonitorEvent, TakeCommand, CommandFrame, lockVars
<1>12. ASSUME NEW w \in Wakes, DropMonitorNotifications(w) PROVE CommandFrame
  BY <1>12 DEF DropMonitorNotifications, TakeCommand, CommandFrame
<1>13. ASSUME NEW j \in Interjections, BufferInterjection(j) PROVE CommandFrame
  BY <1>13 DEF BufferInterjection, TakeCommand, CommandFrame, lockVars
<1>14. ASSUME NEW j \in Interjections, QueueInterjection(j) PROVE CommandFrame
  BY <1>14 DEF QueueInterjection, TakeCommand, CommandFrame
<1>15. ASSUME NEW o \in Cancels, CancelCommand(o) PROVE CommandFrame
  <2>1. /\ TakeCommand /\ (o.trigger = "ctrl_c" => Unlocked) /\ pc' = "cancel"
        /\ suppressed' = (suppressed \/ o.trigger = "ctrl_c")
        /\ UNCHANGED <<queue, running, version, pin, completions, promoter, terminals, started>>
    BY <1>15 DEF CancelCommand
  <2>2. o.trigger = "ctrl_c" \/ suppressed' = suppressed
    BY <1>b, <2>1
  <2> QED BY <1>15, <2>1, <2>2 DEF TakeCommand, CommandFrame
<1>16. ASSUME NEW o \in Cancels, CtrlCPanic(o) PROVE CommandFrame
  BY <1>16 DEF CtrlCPanic, TakeCommand, CommandFrame, lockVars
<1>17. ASSUME NEW k \in Shutdowns, ShutdownCommand(k) PROVE CommandFrame
  BY <1>17 DEF ShutdownCommand, TakeCommand, CommandFrame, lockVars, historyVars
<1> QED BY <1>1, <1>2, <1>3, <1>4, <1>5, <1>6, <1>7, <1>8, <1>9, <1>10, <1>11, <1>12, <1>13,
           <1>14, <1>15, <1>16, <1>17
        DEF Command

\* A turn moves no handler on and no row in: it touches the pin when its scope closes,
\* the buffer when it drains it, and takes read completions out of the queue.
TurnFrame(t) ==
  /\ UNCHANGED <<running, version, suppressed, pc, cancel, promoter, started, terminals, aimed>>
  /\ pin' \in {pin, None}
  /\ interjections' \in {interjections, <<>>}
  /\ Unlocked \/ UNCHANGED queue
  /\ Elems(queue') \subseteq Elems(queue)
  /\ queue # <<>> /\ Head(queue) \notin Completion \ {running} =>
       queue' # <<>> /\ Head(queue') = Head(queue)

LEMMA TurnFrames ==
  ASSUME Inv, NEW t \in Ids, TurnStep(t) \/ TurnSideEffect(t) PROVE TurnFrame(t)
<1>1. CASE TurnConsumeDeferred(t)
  BY <1>1 DEF TurnConsumeDeferred, TurnFrame
<1>2. CASE TurnCommit(t) \/ TurnHostCommand(t) \/ TurnFail(t) \/ TurnEmit(t)
  BY <1>2 DEF TurnCommit, TurnHostCommand, TurnFail, TurnEmit, TurnKeeps, TurnFrame
<1>3. CASE TurnCloseScope(t)
  BY <1>3 DEF TurnCloseScope, TurnKeeps, TurnFrame
<1>4. CASE TurnSendCompletion(t)
  BY <1>4 DEF TurnSendCompletion, TurnFrame, lockVars, historyVars
<1>5. CASE TurnDrainInterjections(t)
  BY <1>5 DEF TurnDrainInterjections, TurnKeeps, TurnFrame
<1>6. CASE TurnInjectMonitorEvents(t)
  BY <1>6 DEF TurnInjectMonitorEvents, TurnFrame, lockVars
<1>7. ASSUME NEW w, TurnConsumeCompletion(t, w) PROVE TurnFrame(t)
  <2> DEFINE G == Swept(queue, running, Completion \cap {w})
  <2>1. /\ Unlocked /\ queue' = Without(queue, G) /\ TurnKeeps /\ UNCHANGED <<pin, interjections>>
    BY <1>7 DEF TurnConsumeCompletion
  <2>2. G \subseteq Completion \ {running}
    BY DEF Swept
  <2>3. queue \in Seq(Ids)
    BY Sequences
  <2> HIDE DEF G
  <2>4. /\ Elems(queue') = Elems(queue) \ G
        /\ queue # <<>> /\ Head(queue) \notin G => queue' # <<>> /\ Head(queue') = Head(queue)
    BY <2>1, <2>3, WithoutFacts
  <2> QED BY <2>1, <2>2, <2>4 DEF TurnKeeps, TurnFrame
<1> QED BY <1>1, <1>2, <1>3, <1>4, <1>5, <1>6, <1>7 DEF TurnStep, TurnSideEffect

\* The steps of a handler leave the promoters and the texts alone, and all but the last
\* steps of a cancel need the mutex.
ActorFrame ==
  /\ UNCHANGED <<version, promoter>>
  /\ \/ Unlocked
     \/ (CancelAbort \/ CancelFinish) /\ UNCHANGED <<queue, running, started>>

LEMMA ActorFrames == ASSUME ActorStep PROVE ActorFrame
<1>1. ASSUME NEW stale, StartFront(stale) PROVE UNCHANGED version
  BY <1>1 DEF StartFront, NothingFresh
<1>2. CASE MaybeStartRunningTask
  BY <1>1, <1>2 DEF MaybeStartRunningTask, ActorFrame, lockVars
<1>3. CASE HandleCompletion \/ TurnEnd \/ MaybeDrainNotifications
  BY <1>3 DEF HandleCompletion, TurnEnd, MaybeDrainNotifications, ActorFrame
<1>4. CASE FlushForSendNow \/ CancelRewind \/ CancelAll \/ CancelFront \/ CloseSession
  BY <1>4 DEF FlushForSendNow, CancelRewind, CancelAll, CancelFront, CloseSession, ActorFrame
<1>5. CASE CancelAbort \/ CancelFinish
  BY <1>5 DEF CancelAbort, CancelFinish, ActorFrame, lockVars, historyVars
<1> QED BY <1>2, <1>3, <1>4, <1>5 DEF ActorStep

\* The locals of a cancel hold its prompts until it answers them.
LEMMA CancelKept ==
  ASSUME Inv, [Next]_vars, pc \in {"abort", "finish"}
  PROVE  cancel' = cancel \/ UNCHANGED <<queue, interjections>>
<1>1. CASE Command
  BY <1>1, CommandFrames DEF CommandFrame
<1>2. CASE ActorStep
  <2>1. CASE CancelAbort \/ CancelFinish
    BY <2>1 DEF CancelAbort, CancelFinish
  <2> QED BY <1>2, <2>1
          DEF ActorStep, HandleCompletion, TurnEnd, MaybeStartRunningTask, FlushForSendNow,
              MaybeDrainNotifications, CancelRewind, CancelAll, CancelFront, CloseSession
<1>3. ASSUME NEW t \in Ids, TurnStep(t) \/ TurnSideEffect(t) PROVE cancel' = cancel
  BY <1>3, TurnFrames DEF TurnFrame
<1>4. ASSUME NEW r \in Promoters, PlanResumeQueue(r) \/ PromoterStep(r) PROVE cancel' = cancel
  BY <1>4 DEF PlanResumeQueue, PromoterStep, PromoterBegin, PromoterSpawn
<1>5. CASE UNCHANGED vars
  BY <1>5 DEF vars
<1> QED BY <1>1, <1>2, <1>3, <1>4, <1>5 DEF Next, Halted

\* A row was queued or buffered before the step, or is accepted by it.
LEMMA RowsStep ==
  ASSUME Inv, MonitorInv, Inv', [Next]_vars
  PROVE  \A x \in Elems(queue') : x \in Elems(queue) \cup Elems(interjections) \cup Entering
<1> SUFFICES ASSUME NEW x \in Elems(queue'),
                    x \notin Elems(queue) \cup Elems(interjections) \cup Entering
             PROVE  FALSE
  OBVIOUS
<1>1. queue' \in Seq(Ids)
  BY DEF Inv, StateTypeOK
<1>2. x \in Ids
  BY <1>1 DEF Elems
<1>3. status'[x] = "waiting"
  BY <1>2 DEF Inv, UnansweredIsHeld
<1>4. status[x] = "waiting"
  BY <1>2, <1>3, LifeStep DEF Moves, Entering
<1>5. x \in cancel.doomed \/ x = cancel.popped
  BY <1>2, <1>4 DEF Inv, UnansweredIsHeld
<1>6. pc \in {"abort", "finish"}
  BY <1>2, <1>5, Kinds DEF Inv, CancelAtRest
<1>7. CASE cancel' = cancel
  BY <1>5, <1>7 DEF Inv, OnePlace
<1>8. CASE UNCHANGED <<queue, interjections>>
  BY <1>8
<1> QED BY <1>6, <1>7, <1>8, CancelKept

\* While a promoter holds the mutex the rows, the texts and the turn stand still, until
\* it starts the turn.
LEMMA LockedStep ==
  ASSUME Inv, [Next]_vars, ~Unlocked
  PROVE  \/ /\ UNCHANGED <<queue, running, version, started, promoter>>
            /\ pin' \in {pin, None}
         \/ \E r \in Promoters : PromoterSpawn(r)
<1>1. CASE Command
  BY <1>1, CommandFrames DEF CommandFrame
<1>2. CASE ActorStep
  <2>1. UNCHANGED <<queue, running, version, started, promoter>> /\ (CancelAbort \/ CancelFinish)
    BY <1>2, ActorFrames DEF ActorFrame
  <2>2. pin' \in {pin, None}
    BY <2>1 DEF CancelAbort, CancelFinish
  <2> QED BY <2>1, <2>2
<1>3. ASSUME NEW t \in Ids, TurnStep(t) \/ TurnSideEffect(t)
      PROVE  UNCHANGED <<queue, running, version, started, promoter>> /\ pin' \in {pin, None}
  BY <1>3, TurnFrames DEF TurnFrame
<1>4. ASSUME NEW r \in Promoters, PlanResumeQueue(r) \/ PromoterStep(r) PROVE PromoterSpawn(r)
  BY <1>4 DEF PlanResumeQueue, PromoterStep, PromoterBegin
<1>5. CASE UNCHANGED vars
  BY <1>5 DEF vars, lockVars, historyVars
<1> QED BY <1>1, <1>2, <1>3, <1>4, <1>5 DEF Next, Halted

\* What a promotion does to the front: the row it starts is the first that is not a
\* stale completion, its text is the one cloned, and it is pinned.
LEMMA PromotionFront ==
  ASSUME Inv, NEW stale \in SUBSET Workflows, FreshQueue(stale) # <<>>,
         Promote(FreshQueue(stale)), version' = version
  PROVE  /\ queue' # <<>> /\ Head(queue') = Head(FreshQueue(stale)) /\ Head(queue') \in Ids
         /\ Head(queue') \in Elems(queue)
         /\ Elems(queue') \subseteq Elems(queue)
         /\ pin' = Head(queue')
         /\ Head(queue') \in Prompts => version'[Head(queue')] = started'[Head(queue')]
         /\ queue # <<>> /\ Head(queue) \notin Workflows => Head(queue') = Head(queue)
         /\ suppressed' => suppressed
<1> DEFINE q == FreshQueue(stale)
<1>1. /\ q \in Seq(Ids) /\ Elems(q) = Elems(queue) \ StaleFronts(stale)
      /\ Head(q) \in Ids /\ Head(q) \notin Folded(q)
  BY FreshQueueFacts
<1>2. /\ q # <<>> /\ queue' = Without(q, Folded(q)) /\ pin' = Head(q)
      /\ started' = [p \in Prompts |-> IF p = Head(q) THEN version[p] ELSE started[p]]
      /\ suppressed' = (suppressed /\ Head(q) \notin User)
  BY DEF Promote
<1>3. ASSUME queue # <<>>, Head(queue) \notin Workflows PROVE Head(q) = Head(queue)
  <2>1. queue \in Seq(Ids) /\ Len(queue) \in Nat /\ DOMAIN queue = 1..Len(queue)
        /\ Len(queue) >= 1 /\ Head(queue) = queue[1] /\ Distinct(queue)
    BY <1>3, Sequences
  <2>2. Head(queue) \notin StaleFronts(stale)
    <3> DEFINE k == RunLength(queue, 1, stale)
    <3>1. k \in Nat /\ 1 + k <= Len(queue) + 1 /\ \A i \in 1..(1 + k - 1) : queue[i] \in stale
      BY <2>1, RunLengthFacts
    <3> HIDE DEF k
    <3>2. \A i \in 1..k : queue[i] \in stale
      BY <3>1
    <3> QED BY <1>3, <3>2 DEF StaleFronts, k
  <2> QED BY <1>3, <2>1, <2>2, WithoutFacts DEF FreshQueue
<1> HIDE DEF q
<1>4. /\ Elems(queue') = Elems(q) \ Folded(q) /\ queue' # <<>> /\ Head(queue') = Head(q)
  BY <1>1, <1>2, WithoutFacts
<1>5. Head(q) \in Elems(q)
  BY <1>1, <1>2, TailFacts
<1> QED BY <1>1, <1>2, <1>3, <1>4, <1>5 DEF q

-----------------------------------------------------------------------------
(* Starts.                                                                  *)

\* A promotion: the first row that is not stale stays in front, is pinned, and its text
\* is cloned.
Promotes ==
  /\ running = None /\ queue # <<>>
  /\ queue' # <<>> /\ Head(queue') \in Ids /\ Head(queue') \in Elems(queue)
  /\ Elems(queue') \subseteq Elems(queue)
  /\ pin' = Head(queue')
  /\ Head(queue') \in Prompts => version'[Head(queue')] = started'[Head(queue')]
  /\ queue # <<>> /\ Head(queue) \notin Workflows => Head(queue') = Head(queue)
  /\ (suppressed' => suppressed) /\ version' = version

\* A promotion that starts nothing.
PromotesNothing ==
  /\ UNCHANGED <<running, version, started, pin, suppressed, tasks>>
  /\ running = None => queue' = <<>>
  /\ running # None => UNCHANGED queue

\* What the loop's call does.
LEMMA StartStep ==
  ASSUME Inv, MaybeStartRunningTask
  PROVE  /\ UNCHANGED <<interjections, completions, cancel, promoter>> /\ Unlocked
         /\ pc \in {"start", "startdrain"} /\ pc' = IF pc = "start" THEN "ready" ELSE "drain"
         /\ \/ PromotesNothing
            \/ Promotes /\ running' = Head(queue')
               /\ tasks' = [tasks EXCEPT ![Head(queue')] = "spawned"]
<1>1. /\ UNCHANGED <<interjections, completions, cancel, promoter>> /\ Unlocked
      /\ pc \in {"start", "startdrain"} /\ pc' = IF pc = "start" THEN "ready" ELSE "drain"
  BY DEF MaybeStartRunningTask
<1>2. CASE running = None /\ queue # <<>>
  <2>1. PICK stale \in SUBSET Workflows : StartFront(stale)
    BY <1>2 DEF MaybeStartRunningTask
  <2>2. CASE FreshQueue(stale) = <<>>
    BY <1>1, <1>2, <2>1, <2>2 DEF StartFront, NothingFresh, PromotesNothing
  <2>3. CASE FreshQueue(stale) # <<>>
    <3>1. /\ Promote(FreshQueue(stale)) /\ Spawn(Head(FreshQueue(stale)))
          /\ UNCHANGED version
      BY <2>1, <2>3 DEF StartFront
    <3>2. Head(queue') = Head(FreshQueue(stale)) /\ Promotes
      BY <1>2, <2>3, <3>1, PromotionFront DEF Promotes
    <3> QED BY <1>1, <3>1, <3>2 DEF Spawn
  <2> QED BY <2>2, <2>3
<1>3. CASE ~(running = None /\ queue # <<>>)
  BY <1>1, <1>3 DEF MaybeStartRunningTask, lockVars, historyVars, PromotesNothing
<1> QED BY <1>2, <1>3

\* What a promoter's call does before the await.
LEMMA BeginStep ==
  ASSUME Inv, NEW r \in Promoters, PromoterBegin(r)
  PROVE  /\ UNCHANGED <<running, interjections, completions, pc, cancel, tasks>> /\ Unlocked
         /\ promoter[r] = "queued"
         /\ \/ PromotesNothing /\ promoter' = [promoter EXCEPT ![r] = "done"]
            \/ Promotes /\ promoter' = [promoter EXCEPT ![r] = "holding"]
<1>1. /\ UNCHANGED <<interjections, completions, pc, cancel>> /\ Unlocked
      /\ promoter[r] = "queued"
  BY DEF PromoterBegin
<1>2. CASE /\ running # None \/ queue = <<>>
           /\ promoter' = [promoter EXCEPT ![r] = "done"]
           /\ UNCHANGED <<lockVars, pin, tasks, historyVars>>
  BY <1>1, <1>2 DEF lockVars, historyVars, PromotesNothing
<1>3. ASSUME running = None, queue # <<>>, NEW stale \in SUBSET Workflows,
             FreshQueue(stale) = <<>>, NothingFresh(stale),
             promoter' = [promoter EXCEPT ![r] = "done"]
      PROVE  PromotesNothing /\ UNCHANGED <<running, tasks>>
  BY <1>3 DEF NothingFresh, PromotesNothing
<1>4. ASSUME running = None, queue # <<>>, NEW stale \in SUBSET Workflows,
             FreshQueue(stale) # <<>>, Promote(FreshQueue(stale)), UNCHANGED version
      PROVE  Promotes
  BY <1>4, PromotionFront DEF Promotes
<1>5. CASE ~(/\ running # None \/ queue = <<>>
             /\ promoter' = [promoter EXCEPT ![r] = "done"]
             /\ UNCHANGED <<lockVars, pin, tasks, historyVars>>)
  <2>1. /\ running = None /\ queue # <<>>
        /\ \E stale \in SUBSET Workflows :
             \/ /\ FreshQueue(stale) = <<>> /\ NothingFresh(stale)
                /\ promoter' = [promoter EXCEPT ![r] = "done"]
             \/ /\ FreshQueue(stale) # <<>> /\ Promote(FreshQueue(stale))
                /\ promoter' = [promoter EXCEPT ![r] = "holding"]
                /\ UNCHANGED <<running, version, tasks>>
    BY <1>5 DEF PromoterBegin
  <2> QED BY <1>1, <1>3, <1>4, <2>1
<1> QED BY <1>2, <1>5

\* How the running turn changes.
LEMMA RunningStep ==
  ASSUME Inv, [Next]_vars
  PROVE  \/ running' = running
         \/ /\ running' = None /\ Unlocked /\ UNCHANGED <<version, promoter>>
            /\ HandleCompletion \/ CancelRewind \/ CancelAll \/ CancelFront
         \/ MaybeStartRunningTask /\ Promotes /\ running' = Head(queue')
         \/ \E r \in Promoters : PromoterSpawn(r)
<1>1. CASE Command
  BY <1>1, CommandFrames DEF CommandFrame
<1>2. CASE ActorStep
  <2>1. CASE MaybeStartRunningTask
    BY <2>1, StartStep DEF PromotesNothing
  <2>2. CASE HandleCompletion
    BY <2>2 DEF HandleCompletion
  <2>3. CASE CancelRewind \/ CancelAll \/ CancelFront
    BY <2>3 DEF CancelRewind, CancelAll, CancelFront
  <2>4. CASE TurnEnd \/ MaybeDrainNotifications \/ FlushForSendNow \/ CancelAbort
               \/ CancelFinish \/ CloseSession
    BY <2>4 DEF TurnEnd, MaybeDrainNotifications, FlushForSendNow, CancelAbort, CancelFinish,
                CloseSession, lockVars
  <2> QED BY <1>2, <2>1, <2>2, <2>3, <2>4 DEF ActorStep
<1>3. ASSUME NEW t \in Ids, TurnStep(t) \/ TurnSideEffect(t) PROVE running' = running
  BY <1>3, TurnFrames DEF TurnFrame
<1>4. ASSUME NEW r \in Promoters, PlanResumeQueue(r) \/ PromoterStep(r)
      PROVE  running' = running \/ PromoterSpawn(r)
  BY <1>4, BeginStep DEF PlanResumeQueue, PromoterStep
<1>5. CASE UNCHANGED vars
  BY <1>5 DEF vars, lockVars
<1> QED BY <1>1, <1>2, <1>3, <1>4, <1>5 DEF Next, Halted

\* A promoter starts the front.
LEMMA SpawnStep ==
  ASSUME Inv, PromotionInv, NEW r \in Promoters, PromoterSpawn(r)
  PROVE  /\ ~Unlocked /\ Unlocked' /\ running = None /\ queue # <<>>
         /\ running' = Head(queue) /\ running' \in Ids /\ running' \in Elems(queue)
         /\ pin \in {None, Head(queue)}
         /\ tasks' = [tasks EXCEPT ![Head(queue)] = "spawned"]
         /\ promoter' = [promoter EXCEPT ![r] = "done"]
         /\ UNCHANGED <<queue, sendNow, held, version, notes, suppressed, rewindable, committed,
                        pin, interjections, events, completions, pc, cancel, status, terminals,
                        started, aimed>>
<1>1. /\ promoter[r] = "holding" /\ running' = Head(queue)
      /\ tasks' = [tasks EXCEPT ![Head(queue)] = "spawned"]
      /\ promoter' = [promoter EXCEPT ![r] = "done"]
      /\ UNCHANGED <<queue, sendNow, held, version, notes, suppressed, rewindable, committed,
                     pin, interjections, events, completions, pc, cancel, status, terminals,
                     started, aimed>>
  BY DEF PromoterSpawn, Spawn, historyVars
<1>2. ~Unlocked /\ queue # <<>>
  BY <1>1 DEF Unlocked, Inv, HolderHasFront
<1>3. Head(queue) \in Ids /\ Head(queue) \in Elems(queue)
  BY <1>2, Sequences, TailFacts
<1>4. running = None /\ pin \in {None, Head(queue)}
  BY <1>2 DEF PromotionInv, HolderPromotes
<1>5. promoter \in [Promoters -> {"init", "queued", "holding", "done"}]
  BY DEF Inv, StateTypeOK
<1>6. Unlocked'
  BY <1>1, <1>5 DEF Unlocked, PromotionInv, OneHolder
<1> QED BY <1>1, <1>2, <1>3, <1>4, <1>6

-----------------------------------------------------------------------------
(* Every step keeps the invariant of the promotions.                        *)

\* Only the promoters move themselves.
LEMMA PromotersStep ==
  ASSUME Inv, [Next]_vars
  PROVE  \/ promoter' = promoter
         \/ \E r \in Promoters : PlanResumeQueue(r) \/ PromoterBegin(r) \/ PromoterSpawn(r)
<1>1. CASE Command
  BY <1>1, CommandFrames DEF CommandFrame
<1>2. CASE ActorStep
  BY <1>2, ActorFrames DEF ActorFrame
<1>3. ASSUME NEW t \in Ids, TurnStep(t) \/ TurnSideEffect(t) PROVE promoter' = promoter
  BY <1>3, TurnFrames DEF TurnFrame
<1>4. CASE UNCHANGED vars
  BY <1>4 DEF vars
<1> QED BY <1>1, <1>2, <1>3, <1>4 DEF Next, Halted, PromoterStep

\* The mutex has one holder.
LEMMA OneHolderStep == ASSUME Inv, PromotionInv, [Next]_vars PROVE OneHolder'
<1>t. promoter \in [Promoters -> {"init", "queued", "holding", "done"}]
  BY DEF Inv, StateTypeOK
<1>1. CASE promoter' = promoter
  BY <1>1 DEF PromotionInv, OneHolder
<1>2. ASSUME NEW r \in Promoters, PlanResumeQueue(r) PROVE OneHolder'
  BY <1>t, <1>2 DEF PlanResumeQueue, PromotionInv, OneHolder
<1>3. ASSUME NEW r \in Promoters, PromoterBegin(r) PROVE OneHolder'
  <2>1. /\ \A s \in Promoters : promoter[s] # "holding"
        /\ \A s \in Promoters : s # r => promoter'[s] = promoter[s]
    BY <1>t, <1>3, BeginStep DEF Unlocked
  <2> QED BY <2>1 DEF OneHolder
<1>4. ASSUME NEW r \in Promoters, PromoterSpawn(r) PROVE OneHolder'
  BY <1>4, SpawnStep DEF Unlocked, OneHolder
<1> QED BY <1>1, <1>2, <1>3, <1>4, PromotersStep

\* Under the mutex no turn runs and the front is the pinned row, with the text cloned.
LEMMA HolderPromotesStep == ASSUME Inv, PromotionInv, [Next]_vars PROVE HolderPromotes'
<1>t. promoter \in [Promoters -> {"init", "queued", "holding", "done"}]
  BY DEF Inv, StateTypeOK
<1>1. CASE ~Unlocked
  <2>1. CASE UNCHANGED <<queue, running, version, started, promoter>> /\ pin' \in {pin, None}
    BY <1>1, <2>1 DEF PromotionInv, HolderPromotes
  <2>2. ASSUME NEW r \in Promoters, PromoterSpawn(r) PROVE HolderPromotes'
    BY <2>2, SpawnStep DEF HolderPromotes
  <2> QED BY <1>1, <2>1, <2>2, LockedStep
<1>2. CASE Unlocked
  <2>1. CASE promoter' = promoter
    BY <1>2, <2>1 DEF Unlocked, HolderPromotes
  <2>2. ASSUME NEW r \in Promoters, PlanResumeQueue(r) PROVE HolderPromotes'
    BY <1>t, <1>2, <2>2 DEF PlanResumeQueue, Unlocked, HolderPromotes
  <2>3. ASSUME NEW r \in Promoters, PromoterBegin(r) PROVE HolderPromotes'
    <3>1. CASE promoter' = [promoter EXCEPT ![r] = "done"]
      BY <1>t, <1>2, <3>1 DEF Unlocked, HolderPromotes
    <3>2. CASE Promotes /\ running' = running
      BY <3>2 DEF Promotes, HolderPromotes
    <3> QED BY <2>3, <3>1, <3>2, BeginStep
  <2>4. ASSUME NEW r \in Promoters, PromoterSpawn(r) PROVE HolderPromotes'
    BY <2>4, SpawnStep DEF HolderPromotes
  <2> QED BY <2>1, <2>2, <2>3, <2>4, PromotersStep
<1> QED BY <1>1, <1>2

\* How the texts change: an edit of a row that is not running, and the clone of a start.
LEMMA TextStep ==
  ASSUME Inv, [Next]_vars
  PROVE  /\ \/ version' = version
            \/ /\ UNCHANGED <<running, started>>
               /\ \E p \in Prompts : p # running /\ version' = [version EXCEPT ![p] = @ + 1]
         /\ started' = started \/ MaybeStartRunningTask \/ \E r \in Promoters : PromoterBegin(r)
<1>1. CASE Command
  BY <1>1, CommandFrames DEF CommandFrame, Row
<1>2. CASE ActorStep
  <2>1. version' = version
    BY <1>2, ActorFrames DEF ActorFrame
  <2>2. started' = started \/ MaybeStartRunningTask
    BY <1>2 DEF ActorStep, HandleCompletion, TurnEnd, MaybeDrainNotifications, FlushForSendNow,
                CancelRewind, CancelAll, CancelFront, CancelAbort, CancelFinish, CloseSession,
                historyVars
  <2> QED BY <2>1, <2>2
<1>3. ASSUME NEW t \in Ids, TurnStep(t) \/ TurnSideEffect(t) PROVE UNCHANGED <<version, started>>
  BY <1>3, TurnFrames DEF TurnFrame
<1>4. ASSUME NEW r \in Promoters, PromoterBegin(r) PROVE version' = version
  BY <1>4, BeginStep DEF Promotes, PromotesNothing
<1>5. ASSUME NEW r \in Promoters, PlanResumeQueue(r) \/ PromoterSpawn(r)
      PROVE  UNCHANGED <<version, started>>
  BY <1>5 DEF PlanResumeQueue, PromoterSpawn, historyVars
<1>6. CASE UNCHANGED vars
  BY <1>6 DEF vars, lockVars, historyVars
<1> QED BY <1>1, <1>2, <1>3, <1>4, <1>5, <1>6 DEF Next, Halted, PromoterStep

\* The running turn's row keeps the text it was started with.
LEMMA RunningTextStep == ASSUME Inv, PromotionInv, [Next]_vars PROVE RunningText'
<1>n. None \notin Prompts
  BY Kinds
<1>1. CASE running' = running
  <2>1. CASE MaybeStartRunningTask
    <3>1. CASE PromotesNothing
      BY <1>1, <3>1 DEF PromotesNothing, PromotionInv, RunningText
    <3>2. CASE Promotes
      BY <1>1, <1>n, <3>2 DEF Promotes, RunningText
    <3> QED BY <2>1, <3>1, <3>2, StartStep
  <2>2. ASSUME NEW r \in Promoters, PromoterBegin(r) PROVE RunningText'
    <3>1. CASE PromotesNothing
      BY <1>1, <3>1 DEF PromotesNothing, PromotionInv, RunningText
    <3>2. CASE Promotes
      BY <1>1, <1>n, <3>2 DEF Promotes, RunningText
    <3> QED BY <2>2, <3>1, <3>2, BeginStep
  <2>3. CASE started' = started
    <3>1. CASE version' = version
      BY <1>1, <2>3, <3>1 DEF PromotionInv, RunningText
    <3>2. ASSUME NEW p \in Prompts, p # running, version' = [version EXCEPT ![p] = @ + 1]
          PROVE  RunningText'
      <4>1. running \in Prompts => version'[running] = version[running]
        BY <3>2 DEF Inv, StateTypeOK
      <4> QED BY <1>1, <2>3, <4>1 DEF PromotionInv, RunningText
    <3> QED BY <3>1, <3>2, TextStep
  <2> QED BY <2>1, <2>2, <2>3, TextStep
<1>2. CASE running' = None
  BY <1>2, <1>n DEF RunningText
<1>3. CASE Promotes /\ running' = Head(queue')
  BY <1>3 DEF Promotes, RunningText
<1>4. ASSUME NEW r \in Promoters, PromoterSpawn(r) PROVE RunningText'
  BY <1>4, SpawnStep DEF RunningText, PromotionInv, HolderPromotes
<1> QED BY <1>1, <1>2, <1>3, <1>4, RunningStep

\* A cancel that has taken its rows only goes on to its end.
LEMMA EndingStep ==
  ASSUME Inv, [Next]_vars, pc \in {"abort", "finish"}
  PROVE  UNCHANGED <<pc, cancel>> \/ CancelAbort \/ CancelFinish
<1>1. CASE Command
  BY <1>1, CommandFrames DEF CommandFrame
<1>2. CASE ActorStep
  BY <1>2 DEF ActorStep, HandleCompletion, TurnEnd, MaybeStartRunningTask, FlushForSendNow,
              MaybeDrainNotifications, CancelRewind, CancelAll, CancelFront, CloseSession
<1>3. ASSUME NEW t \in Ids, TurnStep(t) \/ TurnSideEffect(t) PROVE UNCHANGED <<pc, cancel>>
  BY <1>3, TurnFrames DEF TurnFrame
<1>4. ASSUME NEW r \in Promoters, PlanResumeQueue(r) \/ PromoterStep(r)
      PROVE  UNCHANGED <<pc, cancel>>
  BY <1>4 DEF PlanResumeQueue, PromoterStep, PromoterBegin, PromoterSpawn
<1>5. CASE UNCHANGED vars
  BY <1>5 DEF vars
<1> QED BY <1>1, <1>2, <1>3, <1>4, <1>5 DEF Next, Halted

\* How the pin changes.
LEMMA PinStep ==
  ASSUME Inv, [Next]_vars
  PROVE  pin' \in {pin, None} \/ MaybeStartRunningTask \/ \E r \in Promoters : PromoterBegin(r)
<1>1. CASE Command
  BY <1>1, CommandFrames DEF CommandFrame
<1>2. CASE ActorStep
  BY <1>2 DEF ActorStep, HandleCompletion, TurnEnd, MaybeDrainNotifications, FlushForSendNow,
              CancelRewind, CancelAll, CancelFront, CancelAbort, CancelFinish, CloseSession
<1>3. ASSUME NEW t \in Ids, TurnStep(t) \/ TurnSideEffect(t) PROVE pin' \in {pin, None}
  BY <1>3, TurnFrames DEF TurnFrame
<1>4. ASSUME NEW r \in Promoters, PlanResumeQueue(r) \/ PromoterSpawn(r) PROVE pin' = pin
  BY <1>4 DEF PlanResumeQueue, PromoterSpawn
<1>5. CASE UNCHANGED vars
  BY <1>5 DEF vars
<1> QED BY <1>1, <1>2, <1>3, <1>4, <1>5 DEF Next, Halted, PromoterStep

\* A completion clears the pin of the turn it ends.
LEMMA CompletionClearsPin ==
  ASSUME Inv, PromotionInv, HandleCompletion, running' # running PROVE pin' = None
<1> DEFINE t == Head(completions)
<1>1. /\ pc = "ready" /\ Unlocked /\ pin' = IF pin = t THEN None ELSE pin
      /\ running' = IF running = t \/ (queue # <<>> /\ Head(queue) = t) THEN None ELSE running
  BY DEF HandleCompletion
<1>2. pin # None => pin = running
  BY <1>1 DEF PromotionInv, PinIsCurrent
<1>3. running # None => queue # <<>> /\ Head(queue) = running
  BY <1>1 DEF Inv, FrontIsRunning
<1> HIDE DEF t
<1> QED BY <1>1, <1>2, <1>3

\* The pin is the running turn's, the one about to start or the one being cancelled.
LEMMA PinIsCurrentStep == ASSUME Inv, PromotionInv, [Next]_vars PROVE PinIsCurrent'
<1>t. promoter \in [Promoters -> {"init", "queued", "holding", "done"}]
  BY DEF Inv, StateTypeOK
<1>1. CASE pin' = None
  BY <1>1 DEF PinIsCurrent
<1>2. CASE MaybeStartRunningTask
  <2>1. Unlocked /\ pc \notin {"abort", "finish"}
    BY <1>2, StartStep
  <2>2. CASE PromotesNothing
    BY <2>1, <2>2 DEF PromotesNothing, PromotionInv, PinIsCurrent
  <2>3. CASE Promotes /\ running' = Head(queue')
    BY <2>3 DEF Promotes, PinIsCurrent
  <2> QED BY <1>2, <2>2, <2>3, StartStep
<1>3. ASSUME NEW r \in Promoters, PromoterBegin(r) PROVE PinIsCurrent'
  <2>1. Unlocked /\ UNCHANGED <<running, pc>>
    BY <1>3, BeginStep
  <2>2. CASE PromotesNothing
    BY <2>1, <2>2 DEF PromotesNothing, PromotionInv, PinIsCurrent
  <2>3. CASE Promotes /\ promoter' = [promoter EXCEPT ![r] = "holding"]
    BY <1>t, <2>3 DEF Promotes, PinIsCurrent, Unlocked
  <2> QED BY <1>3, <2>2, <2>3, BeginStep
<1>4. ASSUME NEW r \in Promoters, PromoterSpawn(r) PROVE PinIsCurrent'
  BY <1>4, SpawnStep DEF PinIsCurrent
<1>5. CASE /\ pin' = pin /\ pin # None /\ ~MaybeStartRunningTask
           /\ \A r \in Promoters : ~PromoterBegin(r) /\ ~PromoterSpawn(r)
  <2>1. CASE pc \in {"abort", "finish"}
    <3>1. CASE UNCHANGED <<pc, cancel>>
      BY <2>1, <3>1 DEF PinIsCurrent
    <3>2. CASE CancelAbort
      BY <3>2 DEF CancelAbort, PinIsCurrent
    <3>3. CASE CancelFinish
      BY <3>3 DEF CancelFinish, PinIsCurrent
    <3> QED BY <2>1, <3>1, <3>2, <3>3, EndingStep
  <2>2. CASE ~Unlocked /\ pc \notin {"abort", "finish"}
    <3>1. UNCHANGED <<queue, running, promoter>>
      BY <1>5, <2>2, LockedStep
    <3> QED BY <1>5, <2>2, <3>1 DEF Unlocked, PromotionInv, PinIsCurrent
  <2>3. CASE Unlocked /\ pc \notin {"abort", "finish"}
    <3>1. pin = running
      BY <1>5, <2>3 DEF PromotionInv, PinIsCurrent
    <3>2. CASE running' = running
      BY <1>5, <3>1, <3>2 DEF PinIsCurrent
    <3>3. CASE HandleCompletion
      BY <1>5, <3>1, <3>2, <3>3, CompletionClearsPin DEF PinIsCurrent
    <3>4. CASE CancelRewind \/ CancelAll \/ CancelFront
      BY <3>4 DEF CancelRewind, CancelAll, CancelFront, PinIsCurrent
    <3> QED BY <1>5, <3>2, <3>3, <3>4, RunningStep
  <2> QED BY <2>1, <2>2, <2>3
<1> QED BY <1>1, <1>2, <1>3, <1>4, <1>5, PinStep

\* A buffered interjection keeps its turn, or the handler that empties the buffer.
LEMMA BufferHasTurnStep == ASSUME Inv, PromotionInv, [Next]_vars PROVE BufferHasTurn'
<1>n. None \notin Ids
  BY Kinds
<1>1. CASE Command
  <2>1. /\ pc = "ready" /\ UNCHANGED <<running, promoter>>
        /\ interjections # <<>> => running # None \/ ~Unlocked
    BY <1>1, CommandFrames
       DEF CommandFrame, PromotionInv, BufferHasTurn, Cancelling, Stopped
  <2>2. CASE /\ UNCHANGED <<interjections, cancel>>
             /\ pc' \in {"ready", "drain", "start", "sendnow", "closing"}
    BY <2>1, <2>2 DEF BufferHasTurn, Cancelling, Unlocked
  <2>3. ASSUME NEW j \in Interjections, BufferInterjection(j) PROVE BufferHasTurn'
    <3>1. pin # None /\ pc' = "ready"
      BY <2>1, <2>3 DEF BufferInterjection
    <3>2. running # None \/ ~Unlocked
      BY <2>1, <3>1 DEF PromotionInv, PinIsCurrent
    <3> QED BY <2>1, <3>1, <3>2 DEF BufferHasTurn, Cancelling, Unlocked
  <2>4. ASSUME NEW o \in Cancels, CancelCommand(o) \/ CtrlCPanic(o) PROVE BufferHasTurn'
    BY <2>4 DEF CancelCommand, CtrlCPanic, BufferHasTurn
  <2>5. ASSUME NEW k \in Shutdowns, ShutdownCommand(k), k = "cancel" PROVE BufferHasTurn'
    <3>1. pc' = "cancel" /\ cancel'.trigger = "shutdown"
      BY <2>5 DEF ShutdownCommand, CancelLocals, NoCancel
    <3> QED BY <3>1 DEF BufferHasTurn, Cancelling
  <2> QED BY <1>1, <2>2, <2>3, <2>4, <2>5, CommandFrames DEF CommandFrame
<1>2. CASE ActorStep
  <2>1. CASE HandleCompletion
    BY <2>1 DEF HandleCompletion, BufferHasTurn, Cancelling
  <2>2. CASE TurnEnd \/ FlushForSendNow
    BY <2>2 DEF TurnEnd, FlushForSendNow, BufferHasTurn
  <2>3. CASE MaybeStartRunningTask
    <3>1. /\ pc \in {"start", "startdrain"} /\ Unlocked /\ pc' \in {"ready", "drain"}
          /\ UNCHANGED <<interjections, cancel>>
          /\ running # None => running' = running
      BY <2>3, StartStep DEF Promotes, PromotesNothing
    <3>2. interjections # <<>> => running # None
      BY <3>1 DEF PromotionInv, BufferHasTurn, Cancelling, Stopped
    <3> QED BY <3>1, <3>2 DEF BufferHasTurn, Cancelling
  <2>4. CASE MaybeDrainNotifications
    <3>1. /\ pc = "drain" /\ Unlocked /\ pc' \in {"ready", "start"}
          /\ UNCHANGED <<interjections, cancel, running>>
      BY <2>4 DEF MaybeDrainNotifications
    <3>2. interjections # <<>> => running # None
      BY <3>1 DEF PromotionInv, BufferHasTurn, Cancelling, Stopped
    <3> QED BY <3>1, <3>2 DEF BufferHasTurn, Cancelling
  <2>5. CASE CancelRewind \/ CancelAll \/ CancelFront \/ CancelAbort
    <3>1. /\ pc \in {"cancel", "abort"} /\ pc' \in {"abort", "finish"}
          /\ UNCHANGED interjections /\ cancel'.trigger = cancel.trigger
      <4>1. CASE CancelAbort
        BY <4>1 DEF CancelAbort
      <4>2. CASE CancelRewind \/ CancelAll \/ CancelFront
        BY <4>2 DEF CancelRewind, CancelAll, CancelFront, Inv, StateTypeOK
      <4> QED BY <2>5, <4>1, <4>2
    <3> QED BY <3>1 DEF PromotionInv, BufferHasTurn, Cancelling
  <2>6. CASE CancelFinish
    <3>1. /\ pc = "finish" /\ UNCHANGED interjections
          /\ pc' = CASE cancel.trigger = "none" -> "startdrain"
                     [] cancel.trigger \in {"ctrl_c", "send_now"} -> "start"
                     [] cancel.trigger = "shutdown" -> "closing"
      BY <2>6 DEF CancelFinish
    <3>2. interjections # <<>> => pc' = "closing"
      BY <3>1 DEF PromotionInv, BufferHasTurn, Cancelling
    <3>3. pc' \in {"startdrain", "start", "closing"}
      BY <3>1 DEF Inv, StateTypeOK, Triggers
    <3> QED BY <3>1, <3>2, <3>3 DEF BufferHasTurn, Cancelling, Stopped
  <2>7. CASE CloseSession
    BY <2>7 DEF CloseSession, BufferHasTurn, Cancelling, Stopped
  <2> QED BY <1>2, <2>1, <2>2, <2>3, <2>4, <2>5, <2>6, <2>7 DEF ActorStep
<1>3. ASSUME NEW t \in Ids, TurnStep(t) \/ TurnSideEffect(t) PROVE BufferHasTurn'
  BY <1>3, TurnFrames DEF TurnFrame, PromotionInv, BufferHasTurn, Cancelling, Stopped, Unlocked
<1>4. ASSUME NEW r \in Promoters, PlanResumeQueue(r) \/ PromoterBegin(r) PROVE BufferHasTurn'
  <2>1. Unlocked /\ UNCHANGED <<running, interjections, pc, cancel>>
    BY <1>4, BeginStep DEF PlanResumeQueue
  <2> QED BY <2>1 DEF PromotionInv, BufferHasTurn, Cancelling, Stopped
<1>5. ASSUME NEW r \in Promoters, PromoterSpawn(r) PROVE BufferHasTurn'
  BY <1>n, <1>5, SpawnStep DEF PromotionInv, BufferHasTurn, Cancelling
<1>6. CASE UNCHANGED vars
  BY <1>6 DEF vars, lockVars, PromotionInv, BufferHasTurn, Cancelling, Stopped, Unlocked
<1> QED BY <1>1, <1>2, <1>3, <1>4, <1>5, <1>6 DEF Next, Halted, PromoterStep

\* A cancel before its lock section only goes on to one of its outcomes.
LEMMA CancellingStep ==
  ASSUME Inv, [Next]_vars, pc = "cancel"
  PROVE  UNCHANGED <<pc, cancel>> \/ CancelRewind \/ CancelAll \/ CancelFront
<1>1. CASE Command
  BY <1>1, CommandFrames DEF CommandFrame
<1>2. CASE ActorStep
  BY <1>2 DEF ActorStep, HandleCompletion, TurnEnd, MaybeStartRunningTask, FlushForSendNow,
              MaybeDrainNotifications, CancelAbort, CancelFinish, CloseSession
<1>3. ASSUME NEW t \in Ids, TurnStep(t) \/ TurnSideEffect(t) PROVE UNCHANGED <<pc, cancel>>
  BY <1>3, TurnFrames DEF TurnFrame
<1>4. ASSUME NEW r \in Promoters, PlanResumeQueue(r) \/ PromoterStep(r)
      PROVE  UNCHANGED <<pc, cancel>>
  BY <1>4 DEF PlanResumeQueue, PromoterStep, PromoterBegin, PromoterSpawn
<1>5. CASE UNCHANGED vars
  BY <1>5 DEF vars
<1> QED BY <1>1, <1>2, <1>3, <1>4, <1>5 DEF Next, Halted

\* Only Ctrl+C suppresses.
LEMMA SuppressStep ==
  ASSUME Inv, [Next]_vars, suppressed', ~suppressed
  PROVE  pc' = "cancel" /\ cancel'.trigger = "ctrl_c"
<1>b. suppressed \in BOOLEAN
  BY DEF Inv, StateTypeOK
<1>1. CASE Command
  <2>1. PICK o \in Cancels : CancelCommand(o) /\ o.trigger = "ctrl_c"
    BY <1>1, CommandFrames DEF CommandFrame
  <2> QED BY <2>1 DEF CancelCommand, CancelLocals, NoCancel
<1>2. CASE ActorStep
  <2>1. CASE MaybeStartRunningTask
    BY <2>1, StartStep DEF Promotes, PromotesNothing
  <2>2. CASE CancelFinish
    BY <2>2 DEF CancelFinish
  <2> QED BY <1>2, <2>1, <2>2
          DEF ActorStep, HandleCompletion, TurnEnd, MaybeDrainNotifications, FlushForSendNow,
              CancelRewind, CancelAll, CancelFront, CancelAbort, CloseSession, lockVars
<1>3. ASSUME NEW t \in Ids, TurnStep(t) \/ TurnSideEffect(t) PROVE suppressed' = suppressed
  BY <1>3, TurnFrames DEF TurnFrame
<1>4. ASSUME NEW r \in Promoters, PromoterBegin(r) PROVE suppressed' => suppressed
  BY <1>4, BeginStep DEF Promotes, PromotesNothing
<1>5. ASSUME NEW r \in Promoters, PlanResumeQueue(r) \/ PromoterSpawn(r)
      PROVE  suppressed' = suppressed
  BY <1>5 DEF PlanResumeQueue, PromoterSpawn
<1>6. CASE UNCHANGED vars
  BY <1>6 DEF vars, lockVars
<1> QED BY <1>1, <1>2, <1>3, <1>4, <1>5, <1>6 DEF Next, Halted, PromoterStep

\* The front cancel takes the running row out, and with Ctrl+C the queued wakes.
LEMMA CancelFrontRows ==
  ASSUME Inv, CancelFront
  PROVE  /\ queue # <<>> => Head(queue) \notin Elems(queue')
         /\ cancel.trigger = "ctrl_c" => Elems(queue') \cap (Wakes \cup Workflows) = {}
         /\ Elems(queue') \subseteq Elems(queue)
         /\ \A x \in Elems(queue) : x \notin Elems(queue') => x = Head(queue) \/ x \in Completion
<1> DEFINE front == IF queue = <<>> THEN {} ELSE {Head(queue)}
           wakes == IF cancel.trigger = "ctrl_c"
                    THEN (Elems(queue) \cap (Wakes \cup Workflows)) \ front ELSE {}
<1>1. queue' = Without(queue, front \cup wakes)
  BY DEF CancelFront
<1>2. queue \in Seq(Ids)
  BY Sequences
<1>3. Elems(queue') = Elems(queue) \ (front \cup wakes)
  BY <1>1, <1>2, WithoutFacts
<1>4. queue = <<>> => Elems(queue) = {}
  BY DEF Elems
<1> QED BY <1>3, <1>4 DEF Completion

\* A completion that ends the running turn pops its row.
LEMMA CompletionPops ==
  ASSUME Inv, HandleCompletion, running' # running
  PROVE  running \notin Elems(queue') /\ running = Head(completions) /\ queue' = Tail(queue)
         /\ queue # <<>> /\ Head(queue) = running
<1> DEFINE t == Head(completions)
<1>1. /\ pc = "ready" /\ queue' = IF queue # <<>> /\ Head(queue) = t THEN Tail(queue) ELSE queue
      /\ running' = IF running = t \/ (queue # <<>> /\ Head(queue) = t) THEN None ELSE running
  BY DEF HandleCompletion
<1>2. running # None => queue # <<>> /\ Head(queue) = running
  BY <1>1 DEF Inv, FrontIsRunning
<1> HIDE DEF t
<1>3. running # None /\ running = t /\ queue' = Tail(queue) /\ queue # <<>> /\ Head(queue) = t
  BY <1>1, <1>2
<1>4. t \notin Elems(queue')
  BY <1>3, Sequences, TailFacts
<1> QED BY <1>3, <1>4 DEF t

\* A notification turn stays the front.
LEMMA DrainInFrontStep ==
  ASSUME Inv, MonitorInv, Inv', PromotionInv, [Next]_vars PROVE DrainInFront'
<1> SUFFICES ASSUME NEW d \in Drains, d \in Elems(queue')
             PROVE  running' = d \/ (pc' = "start" /\ Head(queue') = d)
  BY DEF DrainInFront
<1>1. d \in Ids /\ d # None /\ d \notin Workflows /\ d \notin Completion
  BY Kinds, OriginAssumption DEF Completion
<1>2. d \notin Elems(interjections)
  <2>1. Elems(interjections) \subseteq Interjections
    BY DEF Elems, Inv, StateTypeOK
  <2> QED BY <2>1, Apart
<1>3. CASE d \in Entering
  <2>0. status'[d] = "waiting"
    BY <1>1 DEF Inv, UnansweredIsHeld
  <2>1. MaybeDrainNotifications /\ status[d] = "new"
    <3>1. Guarded
      BY LifeStep
    <3> QED BY <1>3, <2>0, <3>1 DEF Guarded, Entering
  <2>2. d \notin Elems(queue)
    BY <1>1, <2>1, NewIsNowhere
  <2>3. PICK e \in Drains : queue' = Append(queue, e) /\ queue = <<>> /\ pc' = "start"
    BY <2>1, <2>2 DEF MaybeDrainNotifications, IdleForInjection
  <2>4. queue' = <<e>>
    BY <2>3
  <2>5. Elems(queue') = {e} /\ Head(queue') = e
    BY <2>4 DEF Elems
  <2> QED BY <2>3, <2>5
<1>4. CASE d \in Elems(queue) /\ running = d
  <2>1. CASE running' = running
    BY <1>4, <2>1
  <2>2. CASE HandleCompletion /\ running' = None
    BY <1>1, <1>4, <2>2, CompletionPops
  <2>3. CASE CancelRewind \/ CancelAll \/ CancelFront
    <3>1. pc = "cancel" /\ queue # <<>> /\ Head(queue) = d
      BY <1>1, <1>4, <2>3 DEF CancelRewind, CancelAll, CancelFront, Inv, FrontIsRunning
    <3>2. CASE CancelRewind
      BY <3>1, <3>2, Sequences, TailFacts DEF CancelRewind
    <3>3. CASE CancelAll
      BY <3>3 DEF CancelAll, Elems
    <3>4. CASE CancelFront
      BY <3>1, <3>4, CancelFrontRows
    <3> QED BY <2>3, <3>2, <3>3, <3>4
  <2>4. CASE Promotes
    BY <1>1, <1>4, <2>4 DEF Promotes
  <2>5. ASSUME NEW r \in Promoters, PromoterSpawn(r) PROVE FALSE
    BY <1>1, <1>4, <2>5, SpawnStep
  <2> QED BY <2>1, <2>2, <2>3, <2>4, <2>5, RunningStep
<1>5. CASE d \in Elems(queue) /\ running # d /\ pc = "start" /\ Head(queue) = d
  <2>0. queue # <<>> /\ running = None
    <3>1. queue # <<>>
      BY <1>5 DEF Elems
    <3> QED BY <1>5, <3>1 DEF Inv, FrontIsRunning
  <2>1. CASE Command
    BY <1>5, <2>1, CommandFrames DEF CommandFrame
  <2>2. CASE ActorStep
    <3>1. MaybeStartRunningTask
      BY <1>5, <2>2 DEF ActorStep, HandleCompletion, TurnEnd, FlushForSendNow, CancelAbort,
         MaybeDrainNotifications, CancelRewind, CancelAll, CancelFront, CancelFinish, CloseSession
    <3>2. CASE PromotesNothing
      BY <2>0, <3>2 DEF PromotesNothing, Elems
    <3>3. CASE Promotes /\ running' = Head(queue')
      BY <1>1, <1>5, <3>3 DEF Promotes
    <3> QED BY <3>1, <3>2, <3>3, StartStep
  <2>3. ASSUME NEW t \in Ids, TurnStep(t) \/ TurnSideEffect(t)
        PROVE  pc' = "start" /\ Head(queue') = d
    BY <1>1, <1>5, <2>0, <2>3, TurnFrames DEF TurnFrame
  <2>4. ASSUME NEW r \in Promoters, PlanResumeQueue(r) PROVE pc' = "start" /\ Head(queue') = d
    <3>1. queue' = Append(queue, r) /\ pc' = pc /\ r \in Ids
      BY <2>4, Kinds DEF PlanResumeQueue, PushBack
    <3> QED BY <1>5, <2>0, <3>1, Sequences, AppendFacts
  <2>5. ASSUME NEW r \in Promoters, PromoterBegin(r) PROVE pc' = "start" /\ Head(queue') = d
    <3>1. CASE PromotesNothing
      BY <2>0, <3>1 DEF PromotesNothing, Elems
    <3>2. CASE Promotes
      BY <1>1, <1>5, <2>5, <3>2, BeginStep DEF Promotes
    <3> QED BY <2>5, <3>1, <3>2, BeginStep
  <2>6. ASSUME NEW r \in Promoters, PromoterSpawn(r) PROVE running' = d
    BY <1>5, <2>6, SpawnStep
  <2>7. CASE UNCHANGED vars
    BY <1>5, <2>7 DEF vars, lockVars
  <2> QED BY <2>1, <2>2, <2>3, <2>4, <2>5, <2>6, <2>7 DEF Next, Halted, PromoterStep
<1>6. d \in Elems(queue) => running = d \/ (pc = "start" /\ Head(queue) = d)
  BY DEF PromotionInv, DrainInFront
<1> QED BY <1>2, <1>3, <1>4, <1>5, <1>6, RowsStep

\* After Ctrl+C no wake and no notification turn comes back.
LEMMA QuietKept ==
  ASSUME Inv, MonitorInv, Inv', PromotionInv, [Next]_vars PROVE Quiet'
<1> SUFFICES ASSUME suppressed', ~(pc' = "cancel" /\ cancel'.trigger = "ctrl_c"),
                    NEW x \in Wakes \cup Workflows \cup Drains,
                    x \in Elems(queue') \cup {running'}
             PROVE  FALSE
  BY DEF Quiet
<1>1. suppressed
  BY SuppressStep
<1>2. x \in Ids /\ x # None /\ x \notin Elems(interjections)
  <2>1. Elems(interjections) \subseteq Interjections
    BY DEF Elems, Inv, StateTypeOK
  <2> QED BY <2>1, Apart, Kinds
<1>3. x \in Elems(queue') \/ (x = running /\ running' = running)
  <2>1. CASE Promotes /\ running' = Head(queue')
    BY <2>1, TailFacts DEF Promotes, Inv, StateTypeOK
  <2>2. ASSUME NEW r \in Promoters, PromoterSpawn(r) PROVE running' \in Elems(queue')
    BY <2>2, SpawnStep
  <2> QED BY <1>2, <2>1, <2>2, RunningStep
<1>4. x \in Elems(queue') => x \notin Entering
  <2>1. x \in Elems(queue') => status'[x] = "waiting"
    BY <1>2 DEF Inv, UnansweredIsHeld
  <2>2. Guarded
    BY LifeStep
  <2> QED BY <1>1, <2>1, <2>2 DEF Guarded
<1>5. x \in Elems(queue) \cup {running}
  BY <1>2, <1>3, <1>4, RowsStep
<1>6. pc = "cancel" /\ cancel.trigger = "ctrl_c"
  BY <1>1, <1>5 DEF PromotionInv, Quiet
<1>7. CASE CancelRewind
  BY <1>7 DEF CancelRewind
<1>8. CASE CancelAll
  <2>1. queue' = <<>> /\ running' = None
    BY <1>8 DEF CancelAll
  <2> QED BY <1>2, <2>1 DEF Elems
<1>9. CASE CancelFront
  <2>1. running' = None
    BY <1>9 DEF CancelFront
  <2>2. x \in Elems(queue') /\ x \in Elems(queue) /\ x \in Drains
    BY <1>2, <1>3, <1>6, <1>9, <2>1, CancelFrontRows
  <2>3. running = x
    BY <1>6, <2>2 DEF PromotionInv, DrainInFront
  <2>4. queue # <<>> /\ Head(queue) = x
    BY <1>2, <1>6, <2>3 DEF Inv, FrontIsRunning
  <2> QED BY <1>9, <2>2, <2>4, CancelFrontRows
<1> QED BY <1>6, <1>7, <1>8, <1>9, CancellingStep

\* Rows without a running turn keep someone who is about to start them.
LEMMA BacklogStep == ASSUME Inv, Inv', PromotionInv, [Next]_vars PROVE BacklogMoves'
<1> DEFINE Coming == \E r \in Promoters : promoter[r] \in {"queued", "holding"}
<1> SUFFICES ASSUME running' = None, queue' # <<>>, pc' \in {"ready", "drain"}
             PROVE  Coming'
  BY DEF BacklogMoves
<1>n. None \notin Ids
  BY Kinds
<1>t. promoter \in [Promoters -> {"init", "queued", "holding", "done"}]
  BY DEF Inv, StateTypeOK
<1>e. /\ queue = <<>> => Elems(queue) = {}
      /\ \E x : x \in Elems(queue')
  <2>1. queue' \in Seq(Ids)
    BY DEF Inv, StateTypeOK
  <2>2. Head(queue') \in Elems(queue')
    BY <2>1, TailFacts
  <2> QED BY <2>2 DEF Elems
<1>k. ASSUME Elems(queue') \subseteq Elems(queue), running' = running, promoter' = promoter,
             pc \in {"ready", "drain"}
      PROVE  Coming'
  BY <1>e, <1>k DEF PromotionInv, BacklogMoves
<1>1. CASE Command
  BY <1>1, <1>k, CommandFrames DEF CommandFrame
<1>2. CASE ActorStep
  <2>1. CASE MaybeStartRunningTask
    <3>1. CASE PromotesNothing
      BY <3>1 DEF PromotesNothing
    <3>2. CASE Promotes /\ running' = Head(queue')
      BY <1>n, <3>2 DEF Promotes
    <3> QED BY <2>1, <3>1, <3>2, StartStep
  <2>2. CASE MaybeDrainNotifications
    <3>1. UNCHANGED <<queue, running, promoter>> /\ pc = "drain"
      BY <2>2 DEF MaybeDrainNotifications
    <3> QED BY <1>k, <3>1
  <2>3. CASE CancelFinish
    <3>1. pc' = CASE cancel.trigger = "none" -> "startdrain"
                  [] cancel.trigger \in {"ctrl_c", "send_now"} -> "start"
                  [] cancel.trigger = "shutdown" -> "closing"
      BY <2>3 DEF CancelFinish
    <3> QED BY <3>1 DEF Inv, StateTypeOK, Triggers
  <2> QED BY <1>2, <2>1, <2>2, <2>3
          DEF ActorStep, HandleCompletion, TurnEnd, FlushForSendNow, CancelRewind, CancelAll,
              CancelFront, CancelAbort, CloseSession
<1>3. ASSUME NEW t \in Ids, TurnStep(t) \/ TurnSideEffect(t) PROVE Coming'
  BY <1>3, <1>k, TurnFrames DEF TurnFrame
<1>4. ASSUME NEW r \in Promoters, PlanResumeQueue(r) PROVE Coming'
  BY <1>t, <1>4 DEF PlanResumeQueue
<1>5. ASSUME NEW r \in Promoters, PromoterBegin(r) PROVE Coming'
  <2>1. CASE PromotesNothing
    BY <2>1 DEF PromotesNothing
  <2>2. CASE promoter' = [promoter EXCEPT ![r] = "holding"]
    BY <1>t, <2>2
  <2> QED BY <1>5, <2>1, <2>2, BeginStep
<1>6. ASSUME NEW r \in Promoters, PromoterSpawn(r) PROVE Coming'
  BY <1>n, <1>6, SpawnStep
<1>7. CASE UNCHANGED vars
  BY <1>7, <1>k DEF vars, lockVars
<1> QED BY <1>1, <1>2, <1>3, <1>4, <1>5, <1>6, <1>7 DEF Next, Halted, PromoterStep

\* The initial state.
LEMMA InitPromotion == Init => PromotionInv
<1> SUFFICES ASSUME Init PROVE PromotionInv
  OBVIOUS
<1>1. /\ queue = <<>> /\ running = None /\ pin = None /\ interjections = <<>> /\ pc = "ready"
      /\ suppressed = FALSE
      /\ promoter = [r \in Promoters |-> IF r \in Mcp THEN "queued" ELSE "init"]
  BY DEF Init
<1>2. Unlocked
  BY <1>1 DEF Unlocked
<1>3. BacklogMoves /\ HolderPromotes /\ PinIsCurrent
  BY <1>1, <1>2 DEF BacklogMoves, HolderPromotes, PinIsCurrent
<1>4. OneHolder
  BY <1>2 DEF Unlocked, OneHolder
<1>5. RunningText
  BY <1>1, Kinds DEF RunningText
<1>6. BufferHasTurn
  BY <1>1 DEF BufferHasTurn
<1>7. DrainInFront /\ Quiet
  BY <1>1 DEF DrainInFront, Quiet, Elems
<1> QED BY <1>3, <1>4, <1>5, <1>6, <1>7 DEF PromotionInv

LEMMA NextPromotion ==
  ASSUME Inv, MonitorInv, PromotionInv, [Next]_vars PROVE PromotionInv'
<1>1. Inv'
  BY NextInv
<1> QED BY <1>1, BacklogStep, OneHolderStep, HolderPromotesStep, RunningTextStep,
           PinIsCurrentStep, BufferHasTurnStep, DrainInFrontStep, QuietKept
        DEF PromotionInv

-----------------------------------------------------------------------------
(* What the promotions promise.                                             *)

\* PromotionInv holds in every behaviour, whatever promoters, cancels and commands
\* interleave: what maybe_start_running_task relies on when it is called from the loop
\* and from tasks outside it.
THEOREM PromotionInvariance == Spec => []PromotionInv
<1>1. Init => PromotionInv
  BY InitPromotion
<1>2. Inv /\ MonitorInv /\ PromotionInv /\ [Next]_vars => PromotionInv'
  BY NextPromotion
<1>3. Spec => [](Inv /\ MonitorInv)
  BY Invariance
<1> QED BY <1>1, <1>2, <1>3, PTL DEF Spec

\* Ctrl+C keeps the session quiet: no task wake, workflow wake or notification turn is
\* queued or running until the user re-engages.
THEOREM CtrlCQuiet == Spec => []QuietAfterCtrlC
<1>1. PromotionInv => QuietAfterCtrlC
  BY DEF PromotionInv, Quiet, QuietAfterCtrlC
<1> QED BY <1>1, PromotionInvariance, PTL

\* An idle loop leaves no row behind: maybe_start_running_task follows every handler that
\* queues one or ends a turn, or a promoter is on its way.
THEOREM NoBacklogIdle == Spec => []NoIdleBacklog
<1>1. PromotionInv => NoIdleBacklog
  BY DEF PromotionInv, BacklogMoves, NoIdleBacklog
<1> QED BY <1>1, PromotionInvariance, PTL

\* The text a turn runs with is the text of its row until the turn is gone: no edit and no
\* interject command slips in between the clone of the blocks and the end of the turn.
THEOREM RunningTextKept == Spec => []RunningTextFixed
<1>1. Inv /\ PromotionInv => RunningTextFixed
  <2> SUFFICES ASSUME Inv, PromotionInv, NEW p \in Prompts, p \in Elems(queue),
                      p = running \/ (~Unlocked /\ p = pin)
               PROVE  version[p] = started[p]
    BY DEF RunningTextFixed
  <2>1. CASE p = running
    BY <2>1 DEF PromotionInv, RunningText
  <2>2. CASE ~Unlocked /\ p = pin
    <3>1. p = Head(queue)
      BY <2>2, Kinds DEF PromotionInv, HolderPromotes
    <3> QED BY <2>2, <3>1 DEF PromotionInv, HolderPromotes
  <2> QED BY <2>1, <2>2
<1>2. Spec => [](Inv /\ MonitorInv)
  BY Invariance
<1> QED BY <1>1, <1>2, PromotionInvariance, PTL

\* A buffered interjection has a turn that drains it or whose end flushes it: the pin that
\* Interject reads outlives its turn only inside a cancel.
THEOREM NoInterjectionStranded == Spec => []NoStrandedInterjection
<1>1. PromotionInv => NoStrandedInterjection
  BY DEF PromotionInv, BufferHasTurn, NoStrandedInterjection, Cancelling, Stopped
<1> QED BY <1>1, PromotionInvariance, PTL
=============================================================================
