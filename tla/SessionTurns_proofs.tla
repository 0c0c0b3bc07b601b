------------------------ MODULE SessionTurns_proofs ------------------------
(***************************************************************************)
(* The turns of a session.  First, whoever starts them: how far two turns  *)
(* overlap, one terminal per turn, and the flush at a turn's end.  Then,   *)
(* when only the loop starts them (Promoters = {}): one live turn,         *)
(* send-now, the promise to the clients (TurnService), and at the end what *)
(* the idle drain delivers.  A promoter can start a turn beside one that a *)
(* cancel has not aborted yet, as the run commit_flag shows.               *)
(***************************************************************************)
EXTENDS SessionPromotion_proofs

-----------------------------------------------------------------------------
(* How the tasks change.                                                    *)

\* The step of a turn task: a live task goes on, and never back to its intake.
TaskGoesOn(t) ==
  \/ tasks' = tasks
  \/ /\ Alive(t)
     /\ \E s \in {"intake", "live", "ending", "over"} :
          /\ tasks' = [tasks EXCEPT ![t] = s]
          /\ s = "intake" => tasks[t] = "spawned"
          /\ s = "live" => tasks[t] = "intake"

LEMMA TurnTasks ==
  ASSUME NEW t \in Ids, TurnStep(t) \/ TurnSideEffect(t)
  PROVE  /\ TaskGoesOn(t) /\ Alive(t)
         /\ UNCHANGED completions \/ TurnSendCompletion(t)
         /\ UNCHANGED committed \/ TurnCommit(t) \/ TurnHostCommand(t)
<1>1. CASE TurnConsumeDeferred(t)
  BY <1>1 DEF TurnConsumeDeferred, TaskGoesOn, Alive
<1>2. CASE TurnCommit(t) \/ TurnHostCommand(t) \/ TurnFail(t)
  BY <1>2 DEF TurnCommit, TurnHostCommand, TurnFail, TurnKeeps, TaskGoesOn, Alive
<1>3. CASE TurnCloseScope(t)
  BY <1>3 DEF TurnCloseScope, TurnKeeps, TaskGoesOn, Alive
<1>4. CASE TurnSendCompletion(t)
  BY <1>4 DEF TurnSendCompletion, TaskGoesOn, Alive, lockVars
<1>5. CASE TurnEmit(t) \/ TurnDrainInterjections(t)
  BY <1>5 DEF TurnEmit, TurnDrainInterjections, TurnKeeps, TaskGoesOn, Alive
<1>6. CASE TurnInjectMonitorEvents(t)
  BY <1>6 DEF TurnInjectMonitorEvents, TaskGoesOn, Alive, lockVars
<1>7. ASSUME NEW w, TurnConsumeCompletion(t, w)
      PROVE  UNCHANGED <<tasks, completions, committed>> /\ Alive(t)
  BY <1>7 DEF TurnConsumeCompletion, TurnKeeps, Alive
<1> QED BY <1>1, <1>2, <1>3, <1>4, <1>5, <1>6, <1>7 DEF TurnStep, TurnSideEffect, TaskGoesOn

\* What the steps of a handler do to the tasks.
LEMMA ActorTasks ==
  ASSUME Inv, ActorStep
  PROVE  \/ UNCHANGED tasks
         \/ CancelRewind /\ tasks' = Abort(running)
         \/ CancelAbort /\ tasks' = Abort(cancel.victim)
         \/ /\ MaybeStartRunningTask /\ Promotes /\ running' = Head(queue')
            /\ tasks' = [tasks EXCEPT ![Head(queue')] = "spawned"]
<1>1. CASE MaybeStartRunningTask
  BY <1>1, StartStep DEF PromotesNothing
<1>2. CASE ~MaybeStartRunningTask
  BY <1>2 DEF ActorStep, HandleCompletion, TurnEnd, MaybeDrainNotifications, FlushForSendNow,
              CancelRewind, CancelAll, CancelFront, CancelAbort, CancelFinish, CloseSession
<1> QED BY <1>1, <1>2

\* What the commands do to the tasks and the commit flag.
LEMMA CommandTasks ==
  ASSUME Inv, Command
  PROVE  /\ tasks' = tasks \/ (tasks' = Abort(running) /\ Entering = {})
         /\ UNCHANGED committed
         /\ UNCHANGED aimed \/ \E j \in Interjections : BufferInterjection(j)
<1>1. ASSUME NEW p \in Prompts, SubmitPrompt(p) PROVE UNCHANGED <<tasks, committed, aimed>>
  BY <1>1 DEF SubmitPrompt
<1>2. ASSUME NEW p \in Prompts,
             \/ RemoveQueuedPrompt(p) \/ EditQueuedPrompt(p)
             \/ InterjectQueuedPrompt(p) \/ InterjectMissed(p)
      PROVE  UNCHANGED <<tasks, committed, aimed>>
  BY <1>2 DEF RemoveQueuedPrompt, EditQueuedPrompt, InterjectQueuedPrompt, InterjectMissed,
              ClientCommand
<1>3. ASSUME NEW p \in Editable, HoldCombineEdit(p) \/ ReleaseCombineEdit(p)
      PROVE  UNCHANGED <<tasks, committed, aimed>>
  BY <1>3 DEF HoldCombineEdit, ReleaseCombineEdit, ClientCommand
<1>4. ASSUME NEW o, ClearQueue(o) \/ ReorderQueue(o) PROVE UNCHANGED <<tasks, committed, aimed>>
  BY <1>4 DEF ClearQueue, ReorderQueue, ClientCommand
<1>5. ASSUME NEW w, AdmitTaskWake(w) \/ QueueSynthetic(w) \/ InjectNotification(w)
                      \/ BufferMonitorEvent(w) \/ DropMonitorNotifications(w)
      PROVE  UNCHANGED <<tasks, committed, aimed>>
  BY <1>5 DEF AdmitTaskWake, QueueSynthetic, InjectNotification, BufferMonitorEvent,
              DropMonitorNotifications, lockVars
<1>6. ASSUME NEW j, BufferInterjection(j) \/ QueueInterjection(j)
      PROVE  UNCHANGED <<tasks, committed>> /\ (UNCHANGED aimed \/ BufferInterjection(j))
  BY <1>6 DEF BufferInterjection, QueueInterjection, lockVars
<1>7. ASSUME NEW o, CancelCommand(o) \/ CtrlCPanic(o) \/ ShutdownCommand(o)
      PROVE  /\ tasks' = tasks \/ (tasks' = Abort(running) /\ Entering = {})
             /\ UNCHANGED <<committed, aimed>>
  <2>1. status' = status \/ status' = Resolve(Elems(interjections), "cleared")
    BY <1>7 DEF CancelCommand, CtrlCPanic, ShutdownCommand, historyVars
  <2>2. Entering = {}
    BY <2>1, HeldWait, MovesResolve, MovesUnchanged
  <2> QED BY <1>7, <2>2 DEF CancelCommand, CtrlCPanic, ShutdownCommand, lockVars, historyVars
<1> QED BY <1>1, <1>2, <1>3, <1>4, <1>5, <1>6, <1>7 DEF Command
\* The steps that spawn a turn's task: the loop's and a promoter's.
Starts ==
  \/ MaybeStartRunningTask /\ Promotes /\ running' = Head(queue')
  \/ \E r \in Promoters : PromoterSpawn(r)

\* How the task of a prompt changes: a live task goes on or is aborted, and a start
\* spawns the front's.
LEMMA TaskStep ==
  ASSUME Inv, [Next]_vars, NEW x \in Ids
  PROVE  \/ tasks'[x] = tasks[x]
         \/ /\ Alive(x) /\ tasks'[x] \in {"intake", "live", "ending", "over"}
            /\ tasks'[x] = "intake" => tasks[x] = "spawned"
         \/ Starts /\ x = running' /\ tasks'[x] = "spawned"
<1>t. tasks \in [Ids -> TaskStates]
  BY DEF Inv, StateTypeOK
<1>a. ASSUME NEW y, tasks' = Abort(y)
      PROVE  tasks'[x] = tasks[x] \/ (Alive(x) /\ tasks'[x] = "over")
  BY <1>a DEF Abort
<1>1. CASE Command
  BY <1>1, <1>a, CommandTasks
<1>2. CASE ActorStep
  <2>1. CASE MaybeStartRunningTask /\ Promotes /\ running' = Head(queue')
             /\ tasks' = [tasks EXCEPT ![Head(queue')] = "spawned"]
    BY <1>t, <2>1 DEF Starts
  <2> QED BY <1>2, <1>a, <2>1, ActorTasks
<1>3. ASSUME NEW t \in Ids, TurnStep(t) \/ TurnSideEffect(t)
      PROVE  \/ tasks'[x] = tasks[x]
             \/ /\ Alive(x) /\ tasks'[x] \in {"intake", "live", "ending", "over"}
                /\ tasks'[x] = "intake" => tasks[x] = "spawned"
  BY <1>t, <1>3, TurnTasks DEF TaskGoesOn
<1>4. ASSUME NEW r \in Promoters, PlanResumeQueue(r) \/ PromoterStep(r)
      PROVE  tasks'[x] = tasks[x] \/ (Starts /\ x = running' /\ tasks'[x] = "spawned")
  <2>1. CASE PromoterSpawn(r)
    <3>1. running' = Head(queue) /\ tasks' = [tasks EXCEPT ![Head(queue)] = "spawned"]
      BY <2>1 DEF PromoterSpawn, Spawn
    <3> QED BY <1>t, <2>1, <3>1 DEF Starts
  <2>2. CASE PlanResumeQueue(r) \/ PromoterBegin(r)
    BY <2>2, BeginStep DEF PlanResumeQueue
  <2> QED BY <1>4, <2>1, <2>2 DEF PromoterStep
<1>5. CASE UNCHANGED vars
  BY <1>5 DEF vars
<1> QED BY <1>1, <1>2, <1>3, <1>4, <1>5 DEF Next, Halted

\* A start finds the slot empty and takes a queued row.
LEMMA StartsQueued ==
  ASSUME Inv, PromotionInv, Starts
  PROVE  /\ running = None /\ running' \in Ids /\ running' \in Elems(queue)
         /\ tasks' = [tasks EXCEPT ![running'] = "spawned"]
         /\ UNCHANGED <<completions, cancel>>
<1>1. CASE MaybeStartRunningTask /\ Promotes /\ running' = Head(queue')
  <2>1. running = None /\ running' \in Ids /\ running' \in Elems(queue)
    BY <1>1 DEF Promotes
  <2>2. ~PromotesNothing
    BY <1>1, <2>1, Kinds DEF PromotesNothing
  <2> QED BY <1>1, <2>1, <2>2, StartStep
<1>2. ASSUME NEW r \in Promoters, PromoterSpawn(r)
      PROVE  /\ running = None /\ running' \in Ids /\ running' \in Elems(queue)
             /\ tasks' = [tasks EXCEPT ![running'] = "spawned"]
             /\ UNCHANGED <<completions, cancel>>
  BY <1>2, SpawnStep
<1> QED BY <1>1, <1>2 DEF Starts

\* How the slot changes: it is emptied, or a start fills it.
LEMMA SlotStep ==
  ASSUME Inv, [Next]_vars
  PROVE  \/ running' = running
         \/ /\ running' = None /\ Unlocked /\ Unlocked'
            /\ HandleCompletion \/ CancelRewind \/ CancelAll \/ CancelFront
         \/ Starts
BY RunningStep DEF Starts, Unlocked

-----------------------------------------------------------------------------
(* The live tasks and whose they are.                                       *)

\* Outside the two last steps of a cancel the only live task is the running turn's.
LEMMA LiveIsRunning ==
  ASSUME TaskInv, NEW t \in Ids, Alive(t), pc # "abort" PROVE t = running
BY DEF TaskInv, OverlapIsVictim

\* A queued prompt other than the running one has no task.
LEMMA QueuedHasNoTask ==
  ASSUME Inv, TaskInv, NEW x \in Elems(queue), x # running
  PROVE  x \in Ids /\ tasks[x] = "none"
<1>1. x \in Ids /\ status[x] = "waiting"
  BY HeldWait
<1>2. x \notin cancel.doomed /\ x # cancel.popped
  BY DEF Inv, OnePlace
<1> QED BY <1>1, <1>2 DEF TaskInv, TaskOfTurn

\* A completion that ends the running turn: its task is over, and it is answered.
LEMMA CompletedTurn ==
  ASSUME Inv, TaskInv, HandleCompletion, running' # running
  PROVE  /\ running \in Ids /\ tasks[running] = "over" /\ tasks' = tasks
         /\ status'[running] = "ok"
<1>1. /\ running = Head(completions) /\ queue # <<>> /\ Head(queue) = running
  BY CompletionPops
<1>2. completions \in Seq(Ids) /\ completions # <<>>
  BY DEF HandleCompletion, Inv, StateTypeOK
<1>3. running \in Elems(completions) /\ running \in Ids
  BY <1>1, <1>2, TailFacts
<1>4. status' = [status EXCEPT ![running] = "ok"] /\ tasks' = tasks
  BY <1>1 DEF HandleCompletion
<1>5. status \in [All -> Statuses] /\ running \in All
  BY <1>3, Kinds DEF Inv, StateTypeOK
<1> QED BY <1>3, <1>4, <1>5 DEF TaskInv, TaskOfTurn

\* The live tasks.
LEMMA OverlapStep ==
  ASSUME Inv, PromotionInv, TaskInv, [Next]_vars PROVE OverlapIsVictim'
<1>n. None \notin Ids
  BY Kinds
<1> SUFFICES ASSUME NEW t \in Ids, Alive(t)'
             PROVE  t = running' \/ (pc' = "abort" /\ t = cancel'.victim)
  BY DEF OverlapIsVictim
<1>1. CASE t = running'
  BY <1>1
<1>2. CASE Alive(t) /\ pc = "abort" /\ t = cancel.victim
  <2>1. CASE UNCHANGED <<pc, cancel>>
    BY <1>2, <2>1
  <2>2. CASE CancelAbort
    BY <1>2, <2>2 DEF CancelAbort, Abort, Alive
  <2>3. CASE CancelFinish
    BY <1>2, <2>3 DEF CancelFinish
  <2> QED BY <1>2, <2>1, <2>2, <2>3, EndingStep
<1>3. CASE Alive(t) /\ t = running
  <2>1. CASE running' = running
    BY <1>3, <2>1
  <2>2. CASE HandleCompletion /\ running' # running
    BY <1>3, <2>2, CompletedTurn DEF Alive
  <2>3. CASE CancelRewind
    BY <1>3, <2>3 DEF CancelRewind, Abort, Alive
  <2>4. CASE CancelAll \/ CancelFront
    <3>1. pc' = "abort" /\ cancel'.victim = running
      BY <2>4 DEF CancelAll, CancelFront, Inv, StateTypeOK
    <3> QED BY <1>3, <3>1
  <2>5. CASE Starts
    BY <1>n, <1>3, <2>5, StartsQueued
  <2> QED BY <2>1, <2>2, <2>3, <2>4, <2>5, SlotStep
<1> QED BY <1>1, <1>2, <1>3, TaskStep DEF Alive, TaskInv, OverlapIsVictim

\* Whose tasks there are.
LEMMA TaskOfTurnStep ==
  ASSUME Inv, MonitorInv, Inv', PromotionInv, TaskInv, [Next]_vars PROVE TaskOfTurn'
<1>n. None \notin Ids
  BY Kinds
<1>r. running \in Ids \cup {None} /\ running' \in Ids \cup {None}
  BY DEF Inv, StateTypeOK
<1>o. ASSUME NEW x \in Ids, tasks[x] # "none" PROVE tasks'[x] # "none"
  BY <1>o, TaskStep DEF Alive
<1>s. ASSUME NEW x \in Ids, tasks[x] = "none", tasks'[x] # "none"
      PROVE  x = running' /\ x \in Elems(queue)
  BY <1>s, TaskStep, StartsQueued DEF Alive
<1>1. ASSUME running' # None PROVE tasks'[running'] # "none"
  <2>1. CASE running' = running
    BY <1>1, <1>r, <1>o, <2>1 DEF TaskInv, TaskOfTurn
  <2>2. CASE Starts
    BY <2>2, StartsQueued DEF Inv, StateTypeOK
  <2> QED BY <1>1, <2>1, <2>2, SlotStep
<1>2. ASSUME NEW x \in Ids, status'[x] = "new" PROVE tasks'[x] = "none"
  <2>1. status[x] = "new"
    BY <1>2, LifeStep DEF Moves
  <2>2. tasks[x] = "none" /\ x \notin Elems(queue)
    BY <2>1, NewIsNowhere DEF TaskInv, TaskOfTurn
  <2> QED BY <1>s, <2>2
<1>3. ASSUME NEW x \in Ids, tasks'[x] # "none", status'[x] = "waiting"
      PROVE  x = running' \/ x \in cancel'.doomed \/ x = cancel'.popped
  <2>1. CASE tasks[x] = "none"
    BY <1>3, <1>s, <2>1
  <2>2. CASE tasks[x] # "none" /\ x = running
    <3>1. CASE running' = running
      BY <2>2, <3>1
    <3>2. CASE HandleCompletion /\ running' # running
      BY <1>3, <2>2, <3>2, CompletedTurn
    <3>3. CASE CancelRewind \/ CancelAll \/ CancelFront
      <4>1. queue # <<>> /\ Head(queue) = x
        BY <1>n, <2>2, <3>3 DEF CancelRewind, CancelAll, CancelFront, Inv, FrontIsRunning
      <4>2. x \in Elems(queue)
        BY <4>1, Sequences, TailFacts
      <4>3. CASE CancelRewind
        BY <4>1, <4>3 DEF CancelRewind, Inv, StateTypeOK
      <4>4. CASE CancelAll
        BY <4>2, <4>4 DEF CancelAll, Inv, StateTypeOK
      <4>5. CASE CancelFront
        <5>1. cancel' = [cancel EXCEPT !.victim = running, !.doomed = {Head(queue)}]
          BY <4>1, <4>5 DEF CancelFront
        <5> QED BY <4>1, <5>1 DEF Inv, StateTypeOK
      <4> QED BY <3>3, <4>3, <4>4, <4>5
    <3>4. CASE Starts
      BY <1>n, <2>2, <3>4, StartsQueued
    <3> QED BY <3>1, <3>2, <3>3, <3>4, SlotStep
  <2>3. CASE x \in cancel.doomed \/ x = cancel.popped
    <3>1. pc \in {"abort", "finish"}
      BY <1>n, <2>3 DEF Inv, CancelAtRest
    <3>2. CASE UNCHANGED cancel
      BY <2>3, <3>2
    <3>3. CASE CancelFinish
      <4>1. x \in All
        BY Kinds
      <4> QED BY <1>3, <2>3, <3>3, <4>1 DEF CancelFinish
    <3> QED BY <3>1, <3>2, <3>3, EndingStep DEF CancelAbort
  <2>4. status[x] = "waiting" \/ status[x] = "new"
    BY <1>3, LifeStep DEF Moves
  <2> QED BY <2>1, <2>2, <2>3, <2>4 DEF TaskInv, TaskOfTurn
<1>4. ASSUME NEW x \in Elems(completions') PROVE tasks'[x] = "over"
  <2>0. completions \in Seq(Ids) /\ tasks \in [Ids -> TaskStates]
    BY DEF Inv, StateTypeOK
  <2>1. ASSUME x \in Elems(completions) PROVE tasks'[x] = "over"
    <3>1. tasks[x] = "over" /\ x \in Ids
      BY <2>0, <2>1 DEF TaskInv, TaskOfTurn, Elems
    <3>2. CASE Starts /\ x = running'
      <4>1. x \in Elems(queue) /\ x # running
        BY <1>n, <3>1, <3>2, StartsQueued
      <4> QED BY <3>1, <4>1, QueuedHasNoTask
    <3> QED BY <3>1, <3>2, TaskStep DEF Alive
  <2>2. CASE Command \/ UNCHANGED vars
    <3>1. UNCHANGED completions
      BY <2>2, CommandFrames DEF CommandFrame, vars
    <3> QED BY <2>1, <3>1
  <2>3. CASE ActorStep
    <3>1. CASE HandleCompletion
      <4>1. completions' = Tail(completions) /\ completions # <<>>
        BY <3>1 DEF HandleCompletion
      <4>2. \A i \in DOMAIN completions' : \E k \in DOMAIN completions :
               completions'[i] = completions[k]
        BY <2>0, <4>1
      <4>3. x \in Elems(completions)
        BY <4>2 DEF Elems
      <4> QED BY <2>1, <4>3
    <3>2. CASE MaybeStartRunningTask
      BY <2>1, <3>2, StartStep
    <3> QED BY <2>1, <2>3, <3>1, <3>2
            DEF ActorStep, TurnEnd, MaybeDrainNotifications, FlushForSendNow, CancelRewind,
                CancelAll, CancelFront, CancelAbort, CancelFinish, CloseSession
  <2>4. ASSUME NEW t \in Ids, TurnStep(t) \/ TurnSideEffect(t) PROVE tasks'[x] = "over"
    <3>1. CASE TurnSendCompletion(t)
      <4>1. completions' = Append(completions, t) /\ tasks'[t] = "over"
        BY <2>0, <3>1 DEF TurnSendCompletion
      <4>2. Elems(completions') = Elems(completions) \cup {t}
        BY <2>0, <4>1, AppendFacts
      <4> QED BY <2>1, <4>1, <4>2
    <3>2. CASE UNCHANGED completions
      BY <2>1, <3>2
    <3> QED BY <2>4, <3>1, <3>2, TurnTasks
  <2>5. ASSUME NEW r \in Promoters, PlanResumeQueue(r) \/ PromoterStep(r)
        PROVE  UNCHANGED completions
    BY <2>5 DEF PlanResumeQueue, PromoterStep, PromoterBegin, PromoterSpawn
  <2> QED BY <2>1, <2>2, <2>3, <2>4, <2>5 DEF Next, Halted
<1> QED BY <1>1, <1>2, <1>3, <1>4 DEF TaskOfTurn

-----------------------------------------------------------------------------
(* Where a handler goes.                                                    *)

\* Where a cancel ends.
LEMMA FinishPlace ==
  ASSUME Inv, CancelFinish
  PROVE  /\ pc = "finish" /\ pc' \in {"startdrain", "start", "closing"}
         /\ pc' = "startdrain" => cancel.trigger = "none"
         /\ pc' = "start" => cancel.trigger \in {"ctrl_c", "send_now"}
<1>1. pc = "finish" /\ pc' = CASE cancel.trigger = "none" -> "startdrain"
                             [] cancel.trigger \in {"ctrl_c", "send_now"} -> "start"
                             [] cancel.trigger = "shutdown" -> "closing"
  BY DEF CancelFinish
<1> QED BY <1>1 DEF Inv, StateTypeOK, Triggers

\* Which steps lead to a place.
LEMMA Arriving ==
  ASSUME Inv, [Next]_vars, pc' # pc
  PROVE  /\ Command \/ ActorStep
         /\ pc' = "ready" => MaybeStartRunningTask \/ MaybeDrainNotifications
         /\ pc' = "turnend" => HandleCompletion
         /\ pc' = "startdrain" => TurnEnd \/ CancelFinish
         /\ pc' = "sendnow" => Command
         /\ pc' = "cancel" => \/ FlushForSendNow
                              \/ \E o \in Cancels : CancelCommand(o)
                              \/ \E k \in Shutdowns : ShutdownCommand(k) /\ k = "cancel"
         /\ pc' = "abort" => CancelAll \/ CancelFront
         /\ pc' = "finish" => CancelRewind \/ CancelAbort
         /\ pc' = "start" => Command \/ MaybeDrainNotifications \/ CancelFinish
         /\ pc' = "drain" => Command \/ MaybeStartRunningTask
<1>1. CASE Command
  BY <1>1, CommandFrames
     DEF CommandFrame, BufferInterjection, CancelCommand, CtrlCPanic, ShutdownCommand
<1>2. CASE ActorStep
  <2>1. CASE MaybeStartRunningTask
    BY <1>2, <2>1 DEF MaybeStartRunningTask
  <2>2. CASE CancelFinish
    BY <1>2, <2>2, FinishPlace
  <2>3. CASE HandleCompletion \/ TurnEnd \/ MaybeDrainNotifications \/ FlushForSendNow
    BY <1>2, <2>3 DEF HandleCompletion, TurnEnd, MaybeDrainNotifications, FlushForSendNow
  <2>4. CASE CancelRewind \/ CancelAll \/ CancelFront \/ CancelAbort \/ CloseSession
    BY <1>2, <2>4 DEF CancelRewind, CancelAll, CancelFront, CancelAbort, CloseSession
  <2> QED BY <1>2, <2>1, <2>2, <2>3, <2>4 DEF ActorStep
<1>3. ASSUME NEW t \in Ids, TurnStep(t) \/ TurnSideEffect(t) PROVE FALSE
  BY <1>3, TurnFrames DEF TurnFrame
<1>4. ASSUME NEW r \in Promoters, PlanResumeQueue(r) \/ PromoterStep(r) PROVE FALSE
  BY <1>4 DEF PlanResumeQueue, PromoterStep, PromoterBegin, PromoterSpawn
<1>5. CASE UNCHANGED vars
  BY <1>5 DEF vars
<1> QED BY <1>1, <1>2, <1>3, <1>4, <1>5 DEF Next, Halted

-----------------------------------------------------------------------------
(* The current turn.                                                        *)

\* It is given up by a completion or a cancel, and replaced only when there is none.
LEMMA CurrentStep ==
  ASSUME Inv, PromotionInv, [Next]_vars
  PROVE  \/ CurrentTurn' = CurrentTurn
         \/ /\ CurrentTurn' = None /\ Unlocked
            /\ HandleCompletion \/ CancelRewind \/ CancelAll \/ CancelFront
         \/ MaybeStartRunningTask /\ Promotes
         \/ Unlocked /\ running = None /\ \E r \in Promoters : PromoterBegin(r)
<1>p. promoter \in [Promoters -> {"init", "queued", "holding", "done"}]
  BY DEF Inv, StateTypeOK
<1>1. CASE \E r \in Promoters : PromoterSpawn(r)
  <2>1. PICK r \in Promoters : PromoterSpawn(r)
    BY <1>1
  <2>2. ~Unlocked /\ Unlocked' /\ running' = Head(queue)
    BY <2>1, SpawnStep
  <2> QED BY <2>2 DEF CurrentTurn
<1>2. CASE ~Unlocked /\ ~\E r \in Promoters : PromoterSpawn(r)
  <2>1. UNCHANGED <<queue, promoter>>
    BY <1>2, LockedStep
  <2>2. ~Unlocked'
    BY <1>2, <2>1 DEF Unlocked
  <2> QED BY <1>2, <2>1, <2>2 DEF CurrentTurn
<1>3. CASE Unlocked /\ ~\E r \in Promoters : PromoterSpawn(r)
  <2>1. ASSUME NEW r \in Promoters, PromoterBegin(r)
        PROVE  (Unlocked' /\ running' = running) \/ running = None
    <3>1. running' = running /\ (promoter' = [promoter EXCEPT ![r] = "done"] \/ running = None)
      BY <2>1, BeginStep DEF Promotes
    <3>2. promoter' = [promoter EXCEPT ![r] = "done"] => Unlocked'
      BY <1>p, <1>3 DEF Unlocked
    <3> QED BY <3>1, <3>2
  <2>2. ASSUME NEW r \in Promoters, PlanResumeQueue(r) PROVE Unlocked' /\ running' = running
    BY <1>p, <1>3, <2>2 DEF PlanResumeQueue, Unlocked
  <2>3. CASE promoter' = promoter
    <3>1. Unlocked'
      BY <1>3, <2>3 DEF Unlocked
    <3> QED BY <1>3, <3>1, RunningStep DEF CurrentTurn
  <2> QED BY <1>3, <2>1, <2>2, <2>3, PromotersStep DEF CurrentTurn
<1> QED BY <1>1, <1>2, <1>3

\* The pin names it, except inside a cancel.
LEMMA PinIsCurrentTurn ==
  ASSUME PromotionInv, pc \notin {"abort", "finish"}
  PROVE  pin \in {None, CurrentTurn}
BY DEF PromotionInv, PinIsCurrent, HolderPromotes, CurrentTurn

-----------------------------------------------------------------------------
(* The terminals.                                                           *)

\* The records a cancel starts with and the place it takes its pin from.
LEMMA CancelBegins ==
  ASSUME Inv, PromotionInv, [Next]_vars, pc' = "cancel", pc # "cancel"
  PROVE  /\ cancel'.pinned \in {None, CurrentTurn'} /\ running' = running
         /\ cancel'.trigger = "send_now" => FlushForSendNow
<1>0. ASSUME UNCHANGED <<queue, running, promoter>> \/ (Unlocked /\ UNCHANGED <<running, promoter>>)
      PROVE  CurrentTurn' = CurrentTurn
  BY <1>0 DEF CurrentTurn, Unlocked
<1>1. CASE FlushForSendNow
  <2>1. pin \in {None, CurrentTurn}
    BY <1>1, PinIsCurrentTurn DEF FlushForSendNow
  <2>2. CurrentTurn' = CurrentTurn
    BY <1>0, <1>1 DEF FlushForSendNow
  <2> QED BY <1>1, <2>1, <2>2 DEF FlushForSendNow, CancelLocals, NoCancel
<1>2. ASSUME NEW o \in Cancels, CancelCommand(o) PROVE
           /\ cancel'.pinned \in {None, CurrentTurn'} /\ running' = running
           /\ cancel'.trigger # "send_now"
  <2>1. pin \in {None, CurrentTurn} /\ o.trigger # "send_now"
    BY <1>2, PinIsCurrentTurn, ParameterAssumption DEF CancelCommand, TakeCommand
  <2>2. CurrentTurn' = CurrentTurn
    BY <1>0, <1>2 DEF CancelCommand
  <2> QED BY <1>2, <2>1, <2>2 DEF CancelCommand, CancelLocals, NoCancel
<1>3. ASSUME NEW k \in Shutdowns, ShutdownCommand(k), k = "cancel" PROVE
           /\ cancel'.pinned \in {None, CurrentTurn'} /\ running' = running
           /\ cancel'.trigger # "send_now"
  <2>1. pin \in {None, CurrentTurn}
    BY <1>3, PinIsCurrentTurn DEF ShutdownCommand, TakeCommand
  <2>2. CurrentTurn' = CurrentTurn
    BY <1>0, <1>3 DEF ShutdownCommand, lockVars
  <2> QED BY <1>3, <2>1, <2>2 DEF ShutdownCommand, CancelLocals, NoCancel, lockVars
<1> QED BY <1>1, <1>2, <1>3, Arriving

\* The one prompt a cancel emits its terminal for.
LEMMA CancelNamesTurnStep ==
  ASSUME Inv, PromotionInv, TaskInv, [Next]_vars PROVE CancelNamesTurn'
<1>n. None \notin Ids
  BY Kinds
<1>c. cancel \in [trigger : Triggers, rewind : BOOLEAN, kill : BOOLEAN,
                  pinned : Ids \cup {None}, victim : Ids \cup {None},
                  popped : Ids \cup {None}, doomed : SUBSET Ids]
  BY DEF Inv, StateTypeOK
<1>1. CASE pc' = "cancel"
  <2>1. CASE pc = "cancel"
    <3>1. UNCHANGED <<pc, cancel>>
      BY <1>1, <2>1, CancellingStep DEF CancelRewind, CancelAll, CancelFront
    <3>2. CurrentTurn' = CurrentTurn \/ CurrentTurn = None
      BY <1>1, <2>1, CurrentStep
         DEF HandleCompletion, CancelRewind, CancelAll, CancelFront, MaybeStartRunningTask,
             CurrentTurn
    <3> QED BY <1>1, <2>1, <3>1, <3>2 DEF TaskInv, CancelNamesTurn
  <2>2. CASE pc # "cancel"
    BY <1>1, <2>2, CancelBegins DEF CancelNamesTurn
  <2> QED BY <2>1, <2>2
<1>2. CASE pc' \in {"abort", "finish"} /\ pc \in {"abort", "finish"}
  <2>1. cancel' = cancel
    BY <1>2, EndingStep, FinishPlace DEF CancelAbort
  <2>2. ASSUME NEW x \in Ids, x \in cancel.doomed
        PROVE  tasks'[x] # "none" <=> tasks[x] # "none"
    <3>1. x \notin Elems(queue)
      BY <2>2 DEF Inv, OnePlace
    <3> QED BY <3>1, TaskStep, StartsQueued DEF Alive
  <2>3. CancelledId' = CancelledId
    BY <2>1 DEF CancelledId
  <2>4. pc = "finish" => pc' = "finish"
    BY <1>2, EndingStep, FinishPlace DEF CancelAbort
  <2> QED BY <1>2, <2>1, <2>2, <2>3, <2>4 DEF TaskInv, CancelNamesTurn
<1>3. CASE pc' \in {"abort", "finish"} /\ pc \notin {"abort", "finish"}
  <2>1. pc = "cancel" /\ (CancelRewind \/ CancelAll \/ CancelFront)
    BY <1>3, Arriving DEF CancelAbort, CancelRewind, CancelAll, CancelFront
  <2>2. /\ cancel.doomed = {} /\ cancel.popped = None /\ cancel.pinned \in {None, running}
        /\ running # None => queue # <<>> /\ Head(queue) = running /\ running \in Elems(queue)
    <3>1. running # None => queue # <<>> /\ Head(queue) = running
      BY <2>1 DEF Inv, FrontIsRunning
    <3>2. running # None => running \in Elems(queue)
      BY <3>1, Sequences, TailFacts
    <3>3. CurrentTurn = running
      BY <2>1 DEF CancelRewind, CancelAll, CancelFront, CurrentTurn
    <3> QED BY <2>1, <3>1, <3>2, <3>3 DEF Inv, CancelAtRest, TaskInv, CancelNamesTurn
  <2>3. CASE CancelRewind
    <3>1. cancel' = [cancel EXCEPT !.popped = Head(queue)] /\ queue # <<>> /\ pc' = "finish"
      BY <2>3 DEF CancelRewind, Rewinds
    <3>2. Head(queue) \in Ids
      BY <3>1, Sequences, TailFacts
    <3> QED BY <1>n, <1>c, <2>2, <3>1, <3>2 DEF CancelNamesTurn
  <2>4. CASE CancelAll \/ CancelFront
    <3> DEFINE front == IF queue = <<>> THEN {} ELSE {Head(queue)}
    <3>0. \/ cancel' = [cancel EXCEPT !.victim = running, !.doomed = Elems(queue)]
          \/ cancel' = [cancel EXCEPT !.victim = running, !.doomed = front]
      BY <2>4 DEF CancelAll, CancelFront
    <3>1. /\ cancel'.victim = running /\ cancel'.popped = None /\ cancel'.pinned = cancel.pinned
          /\ cancel'.doomed \subseteq Elems(queue)
          /\ running # None => running \in cancel'.doomed
      <4>1. queue # <<>> => Head(queue) \in Elems(queue)
        BY Sequences, TailFacts
      <4>2. front \subseteq Elems(queue) /\ (running # None => running \in front)
        BY <2>2, <4>1
      <4> HIDE DEF front
      <4> QED BY <1>c, <2>2, <3>0, <4>2
    <3>2. UNCHANGED tasks /\ pc' = "abort"
      BY <2>4 DEF CancelAll, CancelFront
    <3>3. CancelledId' = running
      BY <2>2, <3>1 DEF CancelledId
    <3>4. ASSUME NEW x \in Ids
          PROVE  (x \in cancel'.doomed /\ tasks'[x] # "none") <=> x = running
      <4>1. ASSUME x \in cancel'.doomed, x # running PROVE tasks'[x] = "none"
        BY <3>1, <3>2, <4>1, QueuedHasNoTask
      <4>2. ASSUME x = running PROVE x \in cancel'.doomed /\ tasks'[x] # "none"
        BY <1>n, <3>1, <3>2, <4>2 DEF TaskInv, TaskOfTurn
      <4> QED BY <4>1, <4>2
    <3> QED BY <3>1, <3>2, <3>3, <3>4 DEF CancelNamesTurn
  <2> QED BY <2>1, <2>3, <2>4
<1>4. CASE pc' \notin {"cancel", "abort", "finish"}
  BY <1>4 DEF CancelNamesTurn
<1> QED BY <1>1, <1>2, <1>3, <1>4
\* Which steps emit a terminal.
LEMMA TerminalStep ==
  ASSUME Inv, [Next]_vars
  PROVE  terminals' = terminals \/ HandleCompletion \/ CancelFinish
<1>1. CASE Command
  BY <1>1, CommandFrames DEF CommandFrame
<1>2. CASE ActorStep
  <2>1. ASSUME NEW stale, StartFront(stale) PROVE UNCHANGED terminals
    BY <2>1 DEF StartFront, NothingFresh
  <2>2. CASE MaybeStartRunningTask
    BY <2>1, <2>2 DEF MaybeStartRunningTask, historyVars
  <2> QED BY <1>2, <2>2
          DEF ActorStep, TurnEnd, MaybeDrainNotifications, FlushForSendNow, CancelRewind,
              CancelAll, CancelFront, CancelAbort, CloseSession, historyVars
<1>3. ASSUME NEW t \in Ids, TurnStep(t) \/ TurnSideEffect(t) PROVE terminals' = terminals
  BY <1>3, TurnFrames DEF TurnFrame
<1>4. ASSUME NEW r \in Promoters, PlanResumeQueue(r) \/ PromoterStep(r)
      PROVE  terminals' = terminals
  BY <1>4 DEF PlanResumeQueue, PromoterStep, PromoterBegin, PromoterSpawn, NothingFresh,
              historyVars
<1>5. CASE UNCHANGED vars
  BY <1>5 DEF vars, historyVars
<1> QED BY <1>1, <1>2, <1>3, <1>4, <1>5 DEF Next, Halted

\* One terminal for each turn that was answered.
LEMMA TerminalPerTurnStep ==
  ASSUME Inv, MonitorInv, Inv', PromotionInv, TaskInv, [Next]_vars PROVE TerminalPerTurn'
<1> SUFFICES ASSUME NEW x \in Ids
             PROVE  terminals'[x] =
                      IF status'[x] \in {"ok", "cancelled"} /\ tasks'[x] # "none" THEN 1 ELSE 0
  BY DEF TerminalPerTurn
<1>0. /\ terminals[x] = IF status[x] \in {"ok", "cancelled"} /\ tasks[x] # "none" THEN 1 ELSE 0
      /\ x \in All /\ terminals \in [Ids -> Nat] /\ status \in [All -> Statuses]
  BY Kinds DEF TaskInv, TerminalPerTurn, Inv, StateTypeOK
<1>1. CASE HandleCompletion
  <2> DEFINE t == Head(completions)
  <2>0. completions \in Seq(Ids) /\ completions # <<>> /\ tasks' = tasks
    BY <1>1 DEF HandleCompletion, Inv, StateTypeOK
  <2>1. t \in Elems(completions) /\ t \in Ids
    BY <2>0, TailFacts
  <2>2. tasks[t] = "over"
    BY <2>1 DEF TaskInv, TaskOfTurn
  <2>3. CASE queue # <<>> /\ Head(queue) = t
    <3>1. /\ status' = [status EXCEPT ![t] = "ok"]
          /\ terminals' = [terminals EXCEPT ![t] = @ + 1]
      BY <1>1, <2>3 DEF HandleCompletion
    <3>2. t \in Elems(queue)
      BY <2>3, Sequences, TailFacts
    <3>3. status[t] = "waiting"
      BY <3>2, HeldWait
    <3> HIDE DEF t
    <3> QED BY <1>0, <2>0, <2>1, <2>2, <3>1, <3>3
  <2>4. CASE ~(queue # <<>> /\ Head(queue) = t)
    BY <1>0, <1>1, <2>0, <2>4 DEF HandleCompletion
  <2> QED BY <2>3, <2>4
<1>2. CASE CancelFinish
  <2>1. /\ pc = "finish" /\ tasks' = tasks
        /\ terminals'[x] = IF x = CancelledId /\ cancel.popped = None
                           THEN terminals[x] + 1 ELSE terminals[x]
        /\ status'[x] = IF x = cancel.popped THEN "rewound"
                        ELSE IF x \in cancel.doomed THEN "cancelled" ELSE status[x]
    BY <1>0, <1>2 DEF CancelFinish
  <2>2. CASE x \in cancel.doomed
    <3>1. status[x] = "waiting" /\ cancel.popped = None
      BY <2>1, <2>2, HeldWait DEF TaskInv, CancelNamesTurn
    <3>2. tasks[x] # "none" <=> x = CancelledId
      BY <2>1, <2>2, <3>1 DEF TaskInv, CancelNamesTurn
    <3>3. x # cancel.popped
      BY <3>1, Kinds
    <3> QED BY <1>0, <2>1, <2>2, <3>1, <3>2, <3>3
  <2>3. CASE x = cancel.popped
    <3>1. status[x] = "waiting" /\ cancel.popped # None
      BY <2>3, HeldWait, Kinds
    <3> QED BY <1>0, <2>1, <2>3, <3>1
  <2>4. CASE x \notin cancel.doomed /\ x # cancel.popped
    <3>1. ~(x = CancelledId /\ cancel.popped = None)
      BY <2>1, <2>4 DEF TaskInv, CancelNamesTurn
    <3> QED BY <1>0, <2>1, <2>4, <3>1
  <2> QED BY <2>2, <2>3, <2>4
<1>3. CASE ~HandleCompletion /\ ~CancelFinish
  <2>1. terminals' = terminals /\ Moves({})
    BY <1>3, TerminalStep, LifeStep
  <2>2. status'[x] \in {"ok", "cancelled"} <=> status[x] \in {"ok", "cancelled"}
    BY <2>1 DEF Moves
  <2>3. CASE Starts /\ x = running'
    <3>1. x \in Elems(queue)
      BY <2>3, StartsQueued
    <3>2. status[x] = "waiting"
      BY <3>1, HeldWait
    <3> QED BY <1>0, <2>1, <2>2, <3>2
  <2> QED BY <1>0, <2>1, <2>2, <2>3, TaskStep DEF Alive
<1> QED BY <1>1, <1>2, <1>3

-----------------------------------------------------------------------------
(* Send-now and the commit of the front's message.                          *)
-----------------------------------------------------------------------------
(* The interjection buffer and the turn it is meant for.                    *)

\* A step buffers one interjection, keeps the buffer or empties it.
LEMMA BufferStep ==
  ASSUME Inv, [Next]_vars
  PROVE  \/ interjections' \in {interjections, <<>>} /\ UNCHANGED aimed
         \/ \E j \in Interjections : BufferInterjection(j)
<1>1. CASE Command
  <2>1. interjections' \in {interjections, <<>>} \/ \E j \in Interjections : BufferInterjection(j)
    BY <1>1, CommandFrames
       DEF CommandFrame, CancelCommand, CtrlCPanic, ShutdownCommand
  <2> QED BY <1>1, <2>1, CommandTasks
<1>2. CASE ActorStep
  <2>1. ASSUME NEW stale \in SUBSET Workflows, StartFront(stale) PROVE UNCHANGED aimed
    BY <2>1 DEF StartFront, NothingFresh
  <2>2. CASE MaybeStartRunningTask
    BY <2>1, <2>2 DEF MaybeStartRunningTask, historyVars
  <2> QED BY <1>2, <2>2
          DEF ActorStep, HandleCompletion, TurnEnd, MaybeDrainNotifications, FlushForSendNow,
              CancelRewind, CancelAll, CancelFront, CancelAbort, CancelFinish, CloseSession,
              historyVars
<1>3. ASSUME NEW t \in Ids, TurnStep(t) \/ TurnSideEffect(t)
      PROVE  interjections' \in {interjections, <<>>} /\ UNCHANGED aimed
  BY <1>3, TurnFrames DEF TurnFrame
<1>4. ASSUME NEW r \in Promoters, PlanResumeQueue(r) \/ PromoterStep(r)
      PROVE  UNCHANGED <<interjections, aimed>>
  BY <1>4 DEF PlanResumeQueue, PromoterStep, PromoterBegin, PromoterSpawn, NothingFresh,
              historyVars
<1>5. CASE UNCHANGED vars
  BY <1>5 DEF vars, historyVars
<1> QED BY <1>1, <1>2, <1>3, <1>4, <1>5 DEF Next, Halted

\* The places of the loop at which buffered interjections are those of the current turn.
Listening == pc \in {"ready", "start", "startdrain", "drain", "sendnow"}

\* Between two such places a buffered interjection keeps its turn, and no completion but
\* Between two such places a buffered interjection keeps its turn, and no completion but
\* that turn's is sent.
LEMMA ListeningStep ==
  ASSUME Inv, PromotionInv, TaskInv, [Next]_vars, Listening, Listening',
         interjections # <<>>, interjections' # <<>>, Elems(completions) \subseteq {CurrentTurn}
  PROVE  CurrentTurn' = CurrentTurn /\ Elems(completions') \subseteq {CurrentTurn}
<1>0. completions \in Seq(Ids)
  BY DEF Inv, StateTypeOK
<1>r. running # None \/ ~Unlocked
  BY DEF PromotionInv, BufferHasTurn, Stopped, Cancelling, Listening
<1>c. CurrentTurn' = CurrentTurn
  <2>1. ~HandleCompletion /\ ~CancelRewind /\ ~CancelAll /\ ~CancelFront
    BY DEF HandleCompletion, CancelRewind, CancelAll, CancelFront, Listening
  <2>2. ~(MaybeStartRunningTask /\ Promotes)
    BY <1>r, StartStep DEF Promotes
  <2> QED BY <1>r, <2>1, <2>2, CurrentStep
<1>1. CASE Command
  BY <1>c, <1>1, CommandFrames DEF CommandFrame
<1>2. CASE MaybeStartRunningTask
  BY <1>c, <1>2, StartStep
<1>3. CASE ActorStep /\ ~MaybeStartRunningTask
  BY <1>c, <1>3
     DEF ActorStep, HandleCompletion, TurnEnd, MaybeDrainNotifications, FlushForSendNow,
         CancelRewind, CancelAll, CancelFront, CancelAbort, CancelFinish, CloseSession,
         Listening
<1>4. ASSUME NEW t \in Ids, TurnStep(t) \/ TurnSideEffect(t)
      PROVE  Elems(completions') \subseteq {CurrentTurn}
  <2>1. Alive(t)
    BY <1>4, TurnTasks
  <2>2. t = running
    BY <2>1, LiveIsRunning DEF Listening
  <2>3. t = CurrentTurn
    BY <2>2, Kinds DEF CurrentTurn, PromotionInv, HolderPromotes
  <2>4. CASE TurnSendCompletion(t)
    <3>1. completions' = Append(completions, t)
      BY <2>4 DEF TurnSendCompletion
    <3>2. Elems(completions') = Elems(completions) \cup {t}
      BY <1>0, <3>1, AppendFacts
    <3> QED BY <2>3, <3>2
  <2>5. CASE UNCHANGED completions
    BY <2>5
  <2> QED BY <1>4, <2>4, <2>5, TurnTasks
<1>5. ASSUME NEW r \in Promoters, PlanResumeQueue(r) \/ PromoterStep(r)
      PROVE  UNCHANGED completions
  BY <1>5 DEF PlanResumeQueue, PromoterStep, PromoterBegin, PromoterSpawn
<1>6. CASE UNCHANGED vars
  BY <1>c, <1>6 DEF vars
<1> QED BY <1>c, <1>1, <1>2, <1>3, <1>4, <1>5, <1>6 DEF Next, Halted

\* A handler that returns to the loop leaves the buffer empty, unless it leaves it alone.
LEMMA ListenAgain ==
  ASSUME Inv, PromotionInv, [Next]_vars, ~Listening, Listening'
  PROVE  interjections' = <<>>
<1>1. pc' # pc
  BY DEF Listening
<1>2. CASE TurnEnd
  BY <1>2 DEF TurnEnd
<1>3. CASE CancelFinish
  <2>1. pc = "finish" /\ cancel.trigger # "shutdown" /\ UNCHANGED interjections
    BY <1>3, FinishPlace DEF CancelFinish, Listening
  <2> QED BY <2>1 DEF PromotionInv, BufferHasTurn, Cancelling
<1>4. ~MaybeStartRunningTask /\ ~MaybeDrainNotifications /\ ~Command
  BY StartStep, CommandFrames DEF MaybeDrainNotifications, CommandFrame, Listening
<1> QED BY <1>1, <1>2, <1>3, <1>4, Arriving DEF Listening

\* The interjections in the buffer are the current turn's.
LEMMA AimIsCurrentStep ==
  ASSUME Inv, PromotionInv, TaskInv, [Next]_vars PROVE AimIsCurrent'
<1>0. /\ interjections \in Seq(Interjections) /\ aimed \in [Interjections -> Ids \cup {None}]
      /\ pin \in Ids \cup {None}
  BY DEF Inv, StateTypeOK
<1>a. \A j \in Elems(interjections) : aimed[j] \in Ids
  BY DEF TaskInv, AimIsCurrent
<1>b. Listening /\ interjections # <<>> =>
        /\ \A j \in Elems(interjections) : aimed[j] = CurrentTurn
        /\ Elems(completions) \subseteq {CurrentTurn}
  BY DEF TaskInv, AimIsCurrent, Listening
<1>e. Elems(<<>>) = {}
  BY DEF Elems
<1>1. CASE interjections' \in {interjections, <<>>} /\ UNCHANGED aimed
  <2>1. \A j \in Elems(interjections') : aimed'[j] \in Ids
    BY <1>a, <1>e, <1>1
  <2>2. ASSUME Listening', interjections' # <<>>
        PROVE  /\ \A j \in Elems(interjections') : aimed'[j] = CurrentTurn'
               /\ Elems(completions') \subseteq {CurrentTurn'}
    <3>1. Listening /\ interjections' = interjections
      BY <1>1, <2>2, ListenAgain
    <3> QED BY <1>b, <1>1, <2>2, <3>1, ListeningStep
  <2> QED BY <2>1, <2>2 DEF AimIsCurrent, Listening
<1>2. ASSUME NEW j \in Interjections, BufferInterjection(j) PROVE AimIsCurrent'
  <2>1. /\ pc = "ready" /\ completions = <<>> /\ pin # None
        /\ interjections' = Append(interjections, j) /\ aimed' = [aimed EXCEPT ![j] = pin]
        /\ UNCHANGED <<queue, running, promoter, completions>>
    BY <1>2 DEF BufferInterjection, TakeCommand, lockVars
  <2>2. pin = CurrentTurn /\ CurrentTurn' = CurrentTurn
    BY <2>1, PinIsCurrentTurn DEF CurrentTurn, Unlocked
  <2>3. Elems(interjections') = Elems(interjections) \cup {j}
    BY <1>0, <2>1, AppendFacts
  <2>4. Elems(interjections) \subseteq Interjections
    BY <1>0 DEF Elems
  <2>5. \A i \in Elems(interjections) : aimed[i] = CurrentTurn
    BY <1>b, <1>e, <2>1 DEF Listening
  <2>6. \A i \in Elems(interjections') : aimed'[i] = CurrentTurn
    BY <1>0, <2>1, <2>2, <2>3, <2>4, <2>5
  <2>7. Elems(completions') = {} /\ CurrentTurn \in Ids
    BY <1>0, <1>e, <2>1, <2>2
  <2> QED BY <2>1, <2>2, <2>6, <2>7 DEF AimIsCurrent
<1> QED BY <1>1, <1>2, BufferStep

\* The flush at a turn's end.
LEMMA FlushSeesStep ==
  ASSUME Inv, MonitorInv, PromotionInv, TaskInv, [Next]_vars PROVE FlushSeesCompletedTurn'
<1> SUFFICES ASSUME pc' = "turnend", NEW j \in Elems(interjections')
             PROVE  tasks'[aimed'[j]] = "over" /\ status'[aimed'[j]] = "ok"
  BY DEF FlushSeesCompletedTurn
<1>e. Elems(<<>>) = {}
  BY DEF Elems
<1>1. CASE pc' = pc
  <2>1. interjections' \in {interjections, <<>>} /\ UNCHANGED aimed
    BY <1>1, BufferStep DEF BufferInterjection, TakeCommand
  <2>2. j \in Elems(interjections) /\ aimed'[j] = aimed[j]
    BY <1>e, <2>1
  <2>3. aimed[j] \in Ids /\ tasks[aimed[j]] = "over" /\ status[aimed[j]] = "ok"
    BY <1>1, <2>2 DEF TaskInv, AimIsCurrent, FlushSeesCompletedTurn
  <2>4. tasks'[aimed[j]] = "over"
    <3>1. aimed[j] \notin Elems(queue)
      BY <2>3, HeldWait
    <3> QED BY <2>3, <3>1, TaskStep, StartsQueued DEF Alive
  <2>5. Moves({})
    BY <1>1, LifeStep DEF HandleCompletion, CancelFinish
  <2> QED BY <2>2, <2>3, <2>4, <2>5 DEF Moves
<1>2. CASE pc' # pc
  <2>1. HandleCompletion
    BY <1>2, Arriving
  <2>2. /\ pc = "ready" /\ completions \in Seq(Ids) /\ completions # <<>>
        /\ UNCHANGED <<interjections, aimed>>
    BY <2>1 DEF HandleCompletion, Inv, StateTypeOK
  <2>3. interjections # <<>> /\ j \in Elems(interjections)
    BY <1>e, <2>2
  <2>4. aimed[j] = running /\ running \in Ids /\ Elems(completions) \subseteq {running}
    <3>1. CurrentTurn = running
      BY <2>1 DEF HandleCompletion, CurrentTurn
    <3> QED BY <2>2, <2>3, <3>1 DEF TaskInv, AimIsCurrent
  <2>5. Head(completions) = running
    BY <2>2, <2>4, TailFacts
  <2>6. running' # running
    BY <2>1, <2>4, <2>5, Kinds DEF HandleCompletion
  <2> QED BY <2>1, <2>2, <2>4, <2>6, CompletedTurn
<1> QED BY <1>1, <1>2

-----------------------------------------------------------------------------
(* The invariant of the tasks, and what it promises.                        *)

LEMMA InitTask == Init => TaskInv
<1> SUFFICES ASSUME Init PROVE TaskInv
  OBVIOUS
<1>1. /\ running = None /\ interjections = <<>> /\ completions = <<>> /\ pc = "ready"
      /\ tasks = [x \in Ids |-> "none"]
      /\ status = [x \in All |-> "new"] /\ terminals = [x \in Ids |-> 0]
  BY DEF Init
<1>2. Elems(interjections) = {} /\ Elems(completions) = {}
  BY <1>1 DEF Elems
<1>3. OverlapIsVictim
  BY <1>1 DEF OverlapIsVictim, Alive
<1>4. TaskOfTurn
  BY <1>1, <1>2 DEF TaskOfTurn
<1>5. CancelNamesTurn /\ FlushSeesCompletedTurn
  BY <1>1 DEF CancelNamesTurn, FlushSeesCompletedTurn
<1>6. TerminalPerTurn
  BY <1>1, Kinds DEF TerminalPerTurn
<1>7. AimIsCurrent
  BY <1>1, <1>2 DEF AimIsCurrent
<1> QED BY <1>3, <1>4, <1>5, <1>6, <1>7 DEF TaskInv

LEMMA NextTask ==
  ASSUME Inv, MonitorInv, PromotionInv, TaskInv, [Next]_vars PROVE TaskInv'
<1>1. Inv'
  BY NextInv
<1> QED BY <1>1, OverlapStep, TaskOfTurnStep, CancelNamesTurnStep, TerminalPerTurnStep,
           AimIsCurrentStep, FlushSeesStep
        DEF TaskInv

\* TaskInv holds in every behaviour, whoever starts the turns: which tasks are alive, which
\* prompt a cancel speaks for, whose the buffered interjections are.
THEOREM TaskInvariance == Spec => []TaskInv
<1>1. Init => TaskInv
  BY InitTask
<1>2. Inv /\ MonitorInv /\ PromotionInv /\ TaskInv /\ [Next]_vars => TaskInv'
  BY NextTask
<1>3. Spec => [](Inv /\ MonitorInv)
  BY Invariance
<1>4. Spec => []PromotionInv
  BY PromotionInvariance
<1> QED BY <1>1, <1>2, <1>3, <1>4, PTL DEF Spec

\* Two turns overlap only between the lock section of cancel_running_task and its abort,
\* and then one of them is the turn that is being cancelled.
THEOREM OverlapBounded == Spec => []OverlapIsVictim
<1>1. TaskInv => OverlapIsVictim
  BY DEF TaskInv
<1> QED BY <1>1, TaskInvariance, PTL

\* Every turn that was answered has one durable TurnCompleted and no other prompt has one,
\* whether it ended, was cancelled or was cancelled after its scope had cleared the pin,
\* and also when a promoter started the next turn in the middle of the cancel.
THEOREM OneTerminalPerTurn == Spec => []TerminalPerTurn
<1>1. TaskInv => TerminalPerTurn
  BY DEF TaskInv
<1> QED BY <1>1, TaskInvariance, PTL

\* flush_stranded_interjections at a turn's end takes only what was buffered for the turn
\* that just completed.
THEOREM FlushAfterCompletion == Spec => []FlushSeesCompletedTurn
<1>1. TaskInv => FlushSeesCompletedTurn
  BY DEF TaskInv
<1> QED BY <1>1, TaskInvariance, PTL

-----------------------------------------------------------------------------
(* Steps without promoters.                                                 *)

\* Nobody holds the mutex across an await, and only the loop starts turns.
LEMMA LoopOnly ==
  ASSUME Promoters = {} PROVE Unlocked /\ Unlocked' /\ PlanResumes = {}
BY DEF Unlocked, Promoters

\* How the running turn changes: it ends, is cancelled, or the loop starts the front.
LEMMA LoopRunning ==
  ASSUME Promoters = {}, Inv, [Next]_vars
  PROVE  \/ running' = running
         \/ running' = None /\ (HandleCompletion \/ CancelRewind \/ CancelAll \/ CancelFront)
         \/ MaybeStartRunningTask /\ Promotes /\ running' = Head(queue')
BY RunningStep

\* Every step of a handler moves it on; a handler in progress stands still only while a
\* turn takes a step.
LEMMA Staying ==
  ASSUME Promoters = {}, Inv, [Next]_vars, pc' = pc, pc # "ready"
  PROVE  \/ UNCHANGED vars
         \/ \E t \in Ids : TurnStep(t) \/ TurnSideEffect(t)
<1>1. CASE Command
  BY <1>1, CommandFrames DEF CommandFrame
<1>2. CASE ActorStep
  <2>1. CASE MaybeStartRunningTask
    BY <2>1 DEF MaybeStartRunningTask
  <2>2. CASE CancelFinish
    BY <2>2, FinishPlace
  <2> QED BY <1>2, <2>1, <2>2
          DEF ActorStep, HandleCompletion, TurnEnd, MaybeDrainNotifications, FlushForSendNow,
              CancelRewind, CancelAll, CancelFront, CancelAbort, CloseSession
<1> QED BY <1>1, <1>2 DEF Next, Halted

(* Send-now and the commit of the front's message.                          *)

\* An unanswered prompt that is not in the buffer is in the queue, outside the two last
\* steps of a cancel.
LEMMA WaitsInQueue ==
  ASSUME Inv', NEW x \in Ids, status'[x] = "waiting", x \notin Elems(interjections'),
         pc' \notin {"abort", "finish"}
  PROVE  x \in Elems(queue')
<1>1. cancel'.doomed = {} /\ cancel'.popped = None
  BY DEF Inv, CancelAtRest
<1>2. x # None
  BY Kinds
<1> QED BY <1>1, <1>2 DEF Inv, UnansweredIsHeld

\* A command goes on to a send-now cancel only past a committed front, and has queued
\* or moved the row that is to run next.
LEMMA IntoSendNow ==
  ASSUME Inv, Inv', Command, pc' = "sendnow"
  PROVE  /\ running # None /\ committed
         /\ \E p \in Prompts : p # running /\ p \in Elems(queue')
<1>0. pc = "ready"
  BY CommandFrames DEF CommandFrame
<1>1. ASSUME NEW p \in Prompts, SubmitPrompt(p)
      PROVE  running # None /\ committed /\ p # running /\ p \in Elems(queue')
  <2> DEFINE q == Without(queue, Preempted)
  <2>1. /\ \E goal : SendNowCancels(q, goal)
        /\ status[p] = "new" /\ UNCHANGED <<running, interjections>>
        /\ status' = [x \in All |-> IF x = p THEN "waiting"
                                  ELSE IF x \in Preempted THEN "dropped" ELSE status[x]]
    BY <1>1 DEF SubmitPrompt
  <2>2. running # None /\ ~FrontAwaitingCommit(q)
    BY <2>1 DEF SendNowCancels
  <2>3. queue # <<>> /\ Head(queue) = running
    BY <1>0, <2>2 DEF Inv, FrontIsRunning
  <2>4. running \notin Preempted
    BY DEF Preempted, Swept
  <2>5. q # <<>> /\ Head(q) = running
    BY <2>3, <2>4, Sequences, WithoutFacts
  <2>6. committed
    BY <2>2, <2>5 DEF FrontAwaitingCommit, Inv, StateTypeOK
  <2>7. p \in Ids /\ p \in All /\ p \notin Elems(queue) \cup Elems(interjections)
    BY <2>1, Kinds, NewIsNowhere
  <2>8. p # running
    BY <2>3, <2>7, Sequences, TailFacts
  <2>9. p \in Elems(queue')
    BY <2>1, <2>7, WaitsInQueue
  <2> QED BY <2>2, <2>6, <2>8, <2>9
<1>2. ASSUME NEW p \in Prompts, InterjectQueuedPrompt(p)
      PROVE  running # None /\ committed /\ p # running /\ p \in Elems(queue')
  <2>1. /\ \E goal : SendNowCancels(queue, goal)
        /\ p \in Elems(queue) /\ p # running /\ UNCHANGED <<status, interjections>>
    BY <1>2 DEF InterjectQueuedPrompt, ClientCommand, Row
  <2>2. running # None /\ ~FrontAwaitingCommit(queue)
    BY <2>1 DEF SendNowCancels
  <2>3. committed
    BY <1>0, <2>2 DEF FrontAwaitingCommit, Inv, FrontIsRunning, StateTypeOK
  <2>4. p \in Ids /\ status'[p] = "waiting" /\ p \notin Elems(interjections')
    BY <2>1, HeldWait, Sequences
  <2>5. p \in Elems(queue')
    BY <2>4, WaitsInQueue
  <2> QED BY <2>1, <2>2, <2>3, <2>5
<1>3. \E p \in Prompts : SubmitPrompt(p) \/ InterjectQueuedPrompt(p)
  BY <1>0
     DEF Command, RemoveQueuedPrompt, EditQueuedPrompt, InterjectMissed, HoldCombineEdit,
         ReleaseCombineEdit,
         ClearQueue, ReorderQueue, AdmitTaskWake, QueueSynthetic, InjectNotification,
         BufferMonitorEvent, DropMonitorNotifications, BufferInterjection, QueueInterjection,
         CancelCommand, CtrlCPanic, ShutdownCommand
<1> QED BY <1>1, <1>2, <1>3

\* The commit flag is cleared by a start and set by the commit of a live task's message.
LEMMA CommitStep ==
  ASSUME Promoters = {}, Inv, [Next]_vars
  PROVE  \/ UNCHANGED committed
         \/ MaybeStartRunningTask /\ Promotes /\ running' = Head(queue') /\ committed' = FALSE
         \/ \E t \in Ids : TurnCommit(t) \/ TurnHostCommand(t)
<1>1. CASE Command
  BY <1>1, CommandTasks
<1>2. CASE ActorStep
  <2>1. ASSUME NEW stale \in SUBSET Workflows, StartFront(stale)
        PROVE  UNCHANGED committed \/ committed' = FALSE
    BY <2>1 DEF StartFront, NothingFresh, Promote
  <2>2. CASE MaybeStartRunningTask
    <3>1. UNCHANGED committed \/ committed' = FALSE
      BY <2>1, <2>2 DEF MaybeStartRunningTask, lockVars
    <3>2. CASE PromotesNothing
      <4>1. ASSUME NEW stale \in SUBSET Workflows, StartFront(stale), FreshQueue(stale) # <<>>,
                   running = None, queue # <<>>
            PROVE  FALSE
        <5>1. Spawn(Head(FreshQueue(stale))) /\ Head(FreshQueue(stale)) \in Ids
          BY <4>1, FreshQueueFacts DEF StartFront
        <5> QED BY <3>2, <4>1, <5>1, Kinds DEF Spawn, PromotesNothing
      <4>2. ASSUME NEW stale \in SUBSET Workflows, StartFront(stale), FreshQueue(stale) = <<>>
            PROVE  UNCHANGED committed
        BY <4>2 DEF StartFront, NothingFresh
      <4> QED BY <2>2, <4>1, <4>2 DEF MaybeStartRunningTask, lockVars
    <3> QED BY <2>2, <3>1, <3>2, StartStep
  <2> QED BY <1>2, <2>2
          DEF ActorStep, HandleCompletion, TurnEnd, MaybeDrainNotifications, FlushForSendNow,
              CancelRewind, CancelAll, CancelFront, CancelAbort, CancelFinish, CloseSession,
              lockVars
<1>3. ASSUME NEW t \in Ids, TurnStep(t) \/ TurnSideEffect(t)
      PROVE  UNCHANGED committed \/ TurnCommit(t) \/ TurnHostCommand(t)
  BY <1>3, TurnTasks
<1>4. CASE UNCHANGED vars
  BY <1>4 DEF vars, lockVars
<1> QED BY <1>1, <1>2, <1>3, <1>4 DEF Next, Halted

\* A task past its intake stays past it.
LEMMA PastIntake ==
  ASSUME Promoters = {}, Inv, [Next]_vars, running # None, running' = running,
         tasks[running] \notin {"spawned", "intake"}
  PROVE  tasks'[running] \notin {"spawned", "intake"}
<1>1. running \in Ids
  BY DEF Inv, StateTypeOK
<1> QED BY <1>1, TaskStep DEF Starts, Promotes

\* The commit flag.
LEMMA CommitIsRunningStep ==
  ASSUME Promoters = {}, Inv, TaskInv, TurnInv, [Next]_vars PROVE CommitIsRunning'
<1> SUFFICES ASSUME committed', running' # None
             PROVE  tasks'[running'] \notin {"spawned", "intake"}
  BY DEF CommitIsRunning
<1>0. tasks \in [Ids -> TaskStates] /\ running \in Ids \cup {None}
  BY DEF Inv, StateTypeOK
<1>1. CASE UNCHANGED committed
  <2>1. CASE running' = running
    BY <1>1, <2>1, PastIntake DEF TurnInv, CommitIsRunning
  <2>2. CASE MaybeStartRunningTask /\ Promotes /\ running' = Head(queue')
    <3>1. ASSUME NEW stale \in SUBSET Workflows, StartFront(stale), running = None
          PROVE  committed' = FALSE
      BY <2>2, <3>1 DEF StartFront, NothingFresh, Promote
    <3> QED BY <2>2, <3>1 DEF MaybeStartRunningTask, Promotes
  <2> QED BY <2>1, <2>2, LoopRunning
<1>2. ASSUME NEW t \in Ids, TurnCommit(t) \/ TurnHostCommand(t)
      PROVE  tasks'[running'] \notin {"spawned", "intake"}
  <2>1. /\ running' = running /\ Alive(t)
        /\ tasks' = [tasks EXCEPT ![t] = "live"] \/ tasks' = [tasks EXCEPT ![t] = "ending"]
    BY <1>2 DEF TurnCommit, TurnHostCommand, TurnKeeps, Alive
  <2>2. t = running
    BY <2>1, <1>0, Kinds DEF TaskInv, OverlapIsVictim, TurnInv, SlotStaysEmpty
  <2> QED BY <1>0, <2>1, <2>2
<1> QED BY <1>1, <1>2, CommitStep

\* Send-now spares the turn whose message the model has not seen.
LEMMA SendNowSparesStep ==
  ASSUME Promoters = {}, Inv, Inv', PromotionInv, TurnInv, [Next]_vars
  PROVE  SendNowSparesUncommitted'
<1> SUFFICES ASSUME running' # None,
                    pc' = "sendnow" \/ (pc' = "cancel" /\ cancel'.trigger = "send_now")
             PROVE  tasks'[running'] \notin {"spawned", "intake"}
  BY DEF SendNowSparesUncommitted
<1>1. CASE pc' = pc
  <2>1. running' = running /\ cancel' = cancel
    BY <1>1, Staying, TurnFrames DEF TurnFrame, vars, lockVars
  <2> QED BY <1>1, <2>1, PastIntake DEF TurnInv, SendNowSparesUncommitted
<1>2. CASE pc' # pc /\ pc' = "sendnow"
  <2>1. Command
    BY <1>2, Arriving
  <2>2. running # None /\ committed /\ running' = running
    BY <1>2, <2>1, IntoSendNow, CommandFrames DEF CommandFrame
  <2> QED BY <2>2, PastIntake DEF TurnInv, CommitIsRunning
<1>3. CASE pc' # pc /\ pc' = "cancel"
  <2>1. FlushForSendNow
    BY <1>3, CancelBegins
  <2>2. running' = running /\ pc = "sendnow"
    BY <2>1 DEF FlushForSendNow
  <2> QED BY <2>2, PastIntake DEF TurnInv, SendNowSparesUncommitted
<1> QED BY <1>1, <1>2, <1>3

\* The slot that a cancel has emptied.
LEMMA SlotStaysEmptyStep ==
  ASSUME Promoters = {}, Inv, TurnInv, [Next]_vars PROVE SlotStaysEmpty'
<1> SUFFICES ASSUME pc' \in {"abort", "finish"} PROVE running' = None
  BY DEF SlotStaysEmpty
<1>1. CASE pc \in {"abort", "finish"}
  <2>1. running = None /\ ~MaybeStartRunningTask
    BY <1>1 DEF TurnInv, SlotStaysEmpty, MaybeStartRunningTask
  <2> QED BY <2>1, LoopRunning
<1>2. CASE pc \notin {"abort", "finish"}
  BY <1>2, Arriving DEF CancelRewind, CancelAll, CancelFront, CancelAbort
<1> QED BY <1>1, <1>2

-----------------------------------------------------------------------------
(* The invariant of the loop's turns, and what it promises.                 *)

LEMMA InitTurn == Init => TurnInv
BY DEF Init, TurnInv, SlotStaysEmpty, CommitIsRunning, SendNowSparesUncommitted

LEMMA NextTurn ==
  ASSUME Promoters = {}, Inv, MonitorInv, PromotionInv, TaskInv, TurnInv, [Next]_vars
  PROVE  TurnInv'
<1>1. Inv'
  BY NextInv
<1> QED BY <1>1, SlotStaysEmptyStep, CommitIsRunningStep, SendNowSparesStep DEF TurnInv

\* TurnInv holds in every behaviour of a session whose turns only the loop starts: the slot
\* stays empty under a cancel, and the commit flag is the running turn's.
THEOREM TurnInvariance == ASSUME Promoters = {} PROVE Spec => []TurnInv
<1>1. Init => TurnInv
  BY InitTurn
<1>2. Inv /\ MonitorInv /\ PromotionInv /\ TaskInv /\ TurnInv /\ [Next]_vars => TurnInv'
  BY NextTurn
<1>3. Spec => [](Inv /\ MonitorInv)
  BY Invariance
<1>4. Spec => []PromotionInv
  BY PromotionInvariance
<1>5. Spec => []TaskInv
  BY TaskInvariance
<1> QED BY <1>1, <1>2, <1>3, <1>4, <1>5, PTL DEF Spec

\* Two turn tasks never touch the conversation at the same time: a cancel aborts its victim
\* before the loop starts the next front.
THEOREM OneTurnAtATime == ASSUME Promoters = {} PROVE Spec => []OneLiveTurn
<1>1. TaskInv /\ TurnInv => OneLiveTurn
  <2> SUFFICES ASSUME TaskInv, TurnInv, NEW t \in Ids, NEW u \in Ids, Alive(t), Alive(u)
               PROVE  t = u
    BY DEF OneLiveTurn
  <2> QED BY Kinds DEF TaskInv, OverlapIsVictim, TurnInv, SlotStaysEmpty
<1>2. Spec => []TaskInv
  BY TaskInvariance
<1>3. Spec => []TurnInv
  BY TurnInvariance
<1> QED BY <1>1, <1>2, <1>3, PTL

\* send_now_cancels_running_turn never destroys a message the model has not seen, although
\* the commit flag it reads is one for the whole session.
THEOREM SendNowSpares == ASSUME Promoters = {} PROVE Spec => []SendNowSparesUncommitted
<1>1. TurnInv => SendNowSparesUncommitted
  BY DEF TurnInv
<1>2. Spec => []TurnInv
  BY TurnInvariance
<1> QED BY <1>1, <1>2, PTL

-----------------------------------------------------------------------------
(* The promise to the clients.                                              *)

\* At most one message is between the start of its turn and its answer.
LEMMA OneRunningPhase ==
  ASSUME Inv, TaskInv, TurnInv, NEW x \in Ids, NEW y \in Ids,
         TurnPhase(x) = "running", TurnPhase(y) = "running"
  PROVE  x = y
<1>n. None \notin Ids
  BY Kinds
<1>1. \A z \in Ids : TurnPhase(z) = "running" =>
         tasks[z] # "none" /\ (Alive(z) \/ status[z] = "waiting")
  BY DEF TurnPhase, Alive
<1>2. \A z \in Ids : Alive(z) => z = running \/ (pc = "abort" /\ z = cancel.victim)
  BY DEF TaskInv, OverlapIsVictim
<1>3. \A z \in Ids : tasks[z] # "none" /\ status[z] = "waiting" =>
         z = running \/ z \in cancel.doomed \/ z = cancel.popped
  BY DEF TaskInv, TaskOfTurn
<1>4. CASE pc \notin {"abort", "finish"}
  <2>1. cancel.doomed = {} /\ cancel.popped = None
    BY <1>4 DEF Inv, CancelAtRest
  <2> QED BY <1>n, <1>1, <1>2, <1>3, <1>4, <2>1
<1>5. CASE pc \in {"abort", "finish"} /\ cancel.popped # None
  <2>1. running = None /\ pc = "finish" /\ cancel.doomed = {}
    BY <1>5 DEF TaskInv, CancelNamesTurn, TurnInv, SlotStaysEmpty
  <2> QED BY <1>n, <1>1, <1>2, <1>3, <2>1
<1>6. CASE pc \in {"abort", "finish"} /\ cancel.popped = None
  <2>1. running = None /\ \A z \in Ids : z \in cancel.doomed /\ tasks[z] # "none" => z = CancelledId
    BY <1>6 DEF TaskInv, CancelNamesTurn, TurnInv, SlotStaysEmpty
  <2>2. \A z \in Ids : z = cancel.victim => z = CancelledId
    BY <1>n DEF CancelledId
  <2> QED BY <1>n, <1>1, <1>2, <1>3, <1>6, <2>1, <2>2
<1> QED BY <1>4, <1>5, <1>6

\* The phases a message can go through in one step.
LEMMA PhaseMoves ==
  ASSUME Promoters = {}, Inv, MonitorInv, TaskInv, [Next]_vars, NEW x \in Ids
  PROVE  \/ TurnPhase(x)' = TurnPhase(x)
         \/ TurnPhase(x) = "absent" /\ x \in Entering /\ TurnPhase(x)' \in {"waiting", "done"}
         \/ TurnPhase(x) = "waiting" /\ TurnPhase(x)' = "done"
         \/ /\ TurnPhase(x) = "waiting" /\ TurnPhase(x)' = "running"
            /\ MaybeStartRunningTask /\ Promotes /\ x = running'
         \/ TurnPhase(x) = "running" /\ TurnPhase(x)' = "done"
<1>1. \/ status'[x] = status[x]
      \/ /\ status[x] \in {"new", "waiting", "deferred"} /\ status'[x] # "new"
         /\ status'[x] = "waiting" => status[x] = "new"
  BY LifeStep DEF Moves
<1>2. /\ status[x] = "new" => tasks[x] = "none"
      /\ x \in Elems(queue) => status[x] = "waiting"
      /\ tasks[x] \in TaskStates
  BY HeldWait DEF TaskInv, TaskOfTurn, Inv, StateTypeOK
<1>3. CASE tasks'[x] = tasks[x]
  <2>1. Alive(x)' <=> Alive(x)
    BY <1>3 DEF Alive
  <2>2. Alive(x) => tasks[x] # "none"
    BY DEF Alive
  <2> QED BY <1>1, <1>2, <1>3, <2>1, <2>2 DEF TurnPhase, Entering
<1>4. CASE Alive(x) /\ tasks'[x] \in {"intake", "live", "ending", "over"}
  <2>1. TurnPhase(x) = "running" /\ status'[x] # "new"
    BY <1>1, <1>2, <1>4 DEF TurnPhase, Alive
  <2> QED BY <1>4, <2>1 DEF TurnPhase
<1>5. CASE /\ MaybeStartRunningTask /\ Promotes /\ running' = Head(queue') /\ x = running'
           /\ tasks'[x] = "spawned"
  <2>1. x \in Elems(queue) /\ x # running
    BY <1>5, Kinds DEF Promotes
  <2>2. status[x] = "waiting" /\ tasks[x] = "none"
    BY <1>2, <2>1, QueuedHasNoTask
  <2> QED BY <1>1, <1>5, <2>2 DEF TurnPhase, Alive
<1> QED BY <1>3, <1>4, <1>5, TaskStep DEF Starts

\* While a message arrives no turn ends.
LEMMA ArrivalSparesTurn ==
  ASSUME Promoters = {}, Inv, MonitorInv, Inv', TaskInv, [Next]_vars, Entering # {},
         NEW x \in Ids, TurnPhase(x) = "running"
  PROVE  TurnPhase(x)' = "running"
<1>1. Command \/ TurnEnd \/ MaybeDrainNotifications
  BY LifeStep DEF Guarded
<1>2. /\ UNCHANGED <<tasks, running>> /\ pc \in {"ready", "turnend", "drain"} /\ pc' # "closed"
  <2>1. CASE Command
    BY <2>1, CommandTasks, CommandFrames
       DEF CommandFrame, BufferInterjection, CancelCommand, CtrlCPanic, ShutdownCommand
  <2>2. CASE TurnEnd \/ MaybeDrainNotifications
    BY <2>2 DEF TurnEnd, MaybeDrainNotifications
  <2> QED BY <1>1, <2>1, <2>2
<1>3. cancel.doomed = {} /\ cancel.popped = None
  BY <1>2 DEF Inv, CancelAtRest
<1>4. x = running
  BY <1>2, <1>3, Kinds DEF TurnPhase, TaskInv, OverlapIsVictim, TaskOfTurn
<1>5. queue' # <<>> /\ Head(queue') = x
  BY <1>2, <1>4, Kinds DEF Inv, FrontIsRunning
<1>6. x \in Elems(queue')
  BY <1>5, TailFacts DEF Inv, StateTypeOK
<1>7. status'[x] = "waiting"
  BY <1>6 DEF Inv, UnansweredIsHeld
<1>8. tasks'[x] # "none"
  BY <1>2, <1>4, Kinds DEF TaskInv, TaskOfTurn
<1> QED BY <1>7, <1>8 DEF TurnPhase

\* A turn is only started when no other one is on.
LEMMA StartsWhenIdle ==
  ASSUME Promoters = {}, Inv, TaskInv, MaybeStartRunningTask, Promotes, NEW x \in Ids
  PROVE  TurnPhase(x) # "running"
<1>1. pc \in {"start", "startdrain"} /\ running = None
  BY DEF MaybeStartRunningTask, Promotes
<1>2. cancel.doomed = {} /\ cancel.popped = None
  BY <1>1 DEF Inv, CancelAtRest
<1> QED BY <1>1, <1>2, Kinds DEF TurnPhase, TaskInv, OverlapIsVictim, TaskOfTurn

\* Every step of the session is a step of the turn service, or none.
LEMMA ServiceStep ==
  ASSUME Promoters = {}, Inv, MonitorInv, Inv', TaskInv, TurnInv, [Next]_vars
  PROVE  [Service!Next]_([x \in Ids |-> TurnPhase(x)])
<1> DEFINE Gone == {x \in Ids : TurnPhase(x) = "waiting" /\ TurnPhase(x)' = "done"}
<1>g. Gone \in SUBSET Ids
  OBVIOUS
<1>1. ASSUME NEW a \in Ids, NEW next, TurnPhase(a)' = next,
             \A x \in Ids : x # a => TurnPhase(x)' = TurnPhase(x) \/ x \in Gone
      PROVE  Service!Leave(Gone, a, next)
  <2>1. \A x \in Gone : x \in Ids /\ TurnPhase(x) = "waiting" /\ TurnPhase(x)' = "done"
    OBVIOUS
  <2> HIDE DEF Gone
  <2>2. \A m \in Ids : TurnPhase(m)' = IF m = a THEN next
                                       ELSE IF m \in Gone THEN "done" ELSE TurnPhase(m)
    BY <1>1, <2>1
  <2> QED BY <1>g, <2>1, <2>2 DEF Service!Leave
<1>2. \A x \in Ids : \/ TurnPhase(x)' = TurnPhase(x)
                     \/ x \in Gone
                     \/ x \in Entering /\ TurnPhase(x) = "absent"
                        /\ TurnPhase(x)' \in {"waiting", "done"}
                     \/ /\ TurnPhase(x) = "waiting" /\ TurnPhase(x)' = "running"
                        /\ MaybeStartRunningTask /\ Promotes /\ x = running'
                     \/ TurnPhase(x) = "running" /\ TurnPhase(x)' = "done"
  BY PhaseMoves
<1> HIDE DEF Gone
<1>3. CASE Entering # {}
  <2>1. PICK a \in Ids : a \in Entering /\ \A x \in Entering : x = a
    BY <1>3, LifeStep DEF Guarded, Entering
  <2>2. ~(MaybeStartRunningTask /\ Promotes)
    BY <1>3, LifeStep, CommandFrames
       DEF Guarded, MaybeStartRunningTask, CommandFrame, TurnEnd, MaybeDrainNotifications
  <2>3. \A x \in Ids : x # a => TurnPhase(x)' = TurnPhase(x) \/ x \in Gone
    BY <1>2, <1>3, <2>1, <2>2, ArrivalSparesTurn
  <2>4. TurnPhase(a) = "absent" /\ TurnPhase(a)' \in {"waiting", "done"}
    <3>1. status[a] = "new" /\ status'[a] # "new"
      BY <2>1 DEF Entering
    <3> QED BY <1>2, <2>2, <3>1 DEF TurnPhase, Gone
  <2>5. Service!Leave(Gone, a, TurnPhase(a)')
    BY <1>1, <2>3
  <2>6. Service!Accept(a, Gone) \/ Service!Refuse(a, Gone)
    BY <2>4, <2>5 DEF Service!Accept, Service!Refuse
  <2> QED BY <1>g, <2>6 DEF Service!Next
<1>4. CASE Entering = {} /\ MaybeStartRunningTask /\ Promotes
           /\ \E x \in Ids : TurnPhase(x) = "waiting" /\ TurnPhase(x)' = "running" /\ x = running'
  <2>1. PICK b \in Ids : TurnPhase(b) = "waiting" /\ TurnPhase(b)' = "running" /\ b = running'
    BY <1>4
  <2>2. \A x \in Ids : TurnPhase(x) # "running"
    BY <1>4, StartsWhenIdle
  <2>3. \A x \in Ids : x # b => TurnPhase(x)' = TurnPhase(x) \/ x \in Gone
    BY <1>2, <1>4, <2>1, <2>2
  <2>4. Service!Leave(Gone, b, "running")
    BY <1>1, <2>1, <2>3
  <2>5. Service!Idle
    BY <2>2 DEF Service!Idle
  <2>6. Service!Begin(b, Gone)
    BY <2>1, <2>4, <2>5 DEF Service!Begin
  <2> QED BY <1>g, <2>6 DEF Service!Next
<1>5. CASE /\ Entering = {}
           /\ ~\E x \in Ids : /\ TurnPhase(x) = "waiting" /\ TurnPhase(x)' = "running"
                              /\ MaybeStartRunningTask /\ Promotes /\ x = running'
  <2>0. \A x \in Ids : \/ TurnPhase(x)' = TurnPhase(x)
                       \/ x \in Gone
                       \/ TurnPhase(x) = "running" /\ TurnPhase(x)' = "done"
    BY <1>2, <1>5
  <2>1. ASSUME NEW e \in Ids, TurnPhase(e) = "running", TurnPhase(e)' = "done"
        PROVE  Service!Next
    <3>1. \A x \in Ids : x # e => TurnPhase(x)' = TurnPhase(x) \/ x \in Gone
      BY <2>0, <2>1, OneRunningPhase
    <3>2. Service!Leave(Gone, e, "done")
      BY <1>1, <2>1, <3>1
    <3>3. Service!End(e, Gone)
      BY <2>1, <3>2 DEF Service!End
    <3> QED BY <1>g, <3>3 DEF Service!Next
  <2>2. ASSUME NEW w \in Gone, \A x \in Ids : TurnPhase(x)' = TurnPhase(x) \/ x \in Gone
        PROVE  Service!Next
    <3>1. w \in Ids /\ TurnPhase(w) = "waiting" /\ TurnPhase(w)' = "done"
      BY DEF Gone
    <3>2. Service!Leave(Gone, w, "done")
      BY <1>1, <2>2, <3>1
    <3>3. Service!Withdraw(w, Gone)
      BY <3>1, <3>2 DEF Service!Withdraw
    <3> QED BY <1>g, <3>1, <3>3 DEF Service!Next
  <2>3. ASSUME \A x \in Ids : TurnPhase(x)' = TurnPhase(x)
        PROVE  [x \in Ids |-> TurnPhase(x)]' = [x \in Ids |-> TurnPhase(x)]
    BY <2>3
  <2> QED BY <2>0, <2>1, <2>2, <2>3
<1> QED BY <1>3, <1>4, <1>5

\* The session is a turn service: one turn at a time, each message at most once and each
\* end final, whatever preemptions, combines, flushes, send-nows, cancels and shutdowns do
\* to queue, tasks and buffers.
THEOREM TurnServiceImplemented == ASSUME Promoters = {} PROVE Spec => ImplementsTurnService
<1>1. Init => Service!Init
  BY Kinds DEF Init, Service!Init, TurnPhase
<1>2. Inv /\ MonitorInv /\ Inv' /\ TaskInv /\ TurnInv /\ [Next]_vars
        => [Service!Next]_([x \in Ids |-> TurnPhase(x)])
  BY ServiceStep
<1>3. Spec => [](Inv /\ MonitorInv)
  BY Invariance
<1>4. Spec => []TaskInv
  BY TaskInvariance
<1>5. Spec => []TurnInv
  BY TurnInvariance
<1> QED BY <1>1, <1>2, <1>3, <1>4, <1>5, PTL DEF Spec, ImplementsTurnService, Service!Spec

-----------------------------------------------------------------------------
(* The deliveries of the idle drain: an idle session that is not           *)
(* suppressed has nothing left to report.  Besides Promoters = {} the      *)
(* theorem assumes that the bridge waits for the answer to a wake, and     *)
(* that no Ctrl+C asks for a rewind: both leave a notification behind with *)
(* nothing to drain it.                                                    *)

\* The bridge is answered in time, and Ctrl+C does not rewind.
Punctual == /\ Promoters = {} /\ "late" \notin Admissions
            /\ \A o \in Cancels : ~(o.trigger = "ctrl_c" /\ o.rewind)

-----------------------------------------------------------------------------
(* A cancel in progress.                                                    *)

\* The steps of a cancel keep its trigger and its options.
LEMMA CancelGoesOn ==
  ASSUME Promoters = {}, Inv, [Next]_vars, Cancelling, Cancelling'
  PROVE  /\ \/ UNCHANGED <<pc, running, suppressed, cancel>>
            \/ CancelRewind \/ CancelAll \/ CancelFront \/ CancelAbort
         /\ cancel'.trigger = cancel.trigger /\ cancel'.rewind = cancel.rewind
         /\ cancel'.kill = cancel.kill
<1>c. cancel \in [trigger : Triggers, rewind : BOOLEAN, kill : BOOLEAN,
                  pinned : Ids \cup {None}, victim : Ids \cup {None},
                  popped : Ids \cup {None}, doomed : SUBSET Ids]
  BY DEF Inv, StateTypeOK
<1>1. CASE pc' = pc
  BY <1>1, Staying, TurnFrames DEF TurnFrame, Cancelling, vars, lockVars
<1>2. CASE pc' # pc
  <2>1. CancelRewind \/ CancelAll \/ CancelFront \/ CancelAbort
    BY <1>2, Arriving
       DEF Cancelling, FlushForSendNow, CancelCommand, ShutdownCommand, TakeCommand
  <2>2. CASE CancelRewind
    BY <1>c, <2>2 DEF CancelRewind
  <2>3. CASE CancelAll
    BY <1>c, <2>3 DEF CancelAll
  <2>4. CASE CancelFront
    <3>1. \E S : cancel' = [cancel EXCEPT !.victim = running, !.doomed = S]
      BY <2>4 DEF CancelFront
    <3> QED BY <1>c, <2>4, <3>1
  <2>5. CASE CancelAbort
    BY <2>5 DEF CancelAbort
  <2> QED BY <2>1, <2>2, <2>3, <2>4, <2>5
<1> QED BY <1>1, <1>2

\* How a cancel begins.
LEMMA CancelStarts ==
  ASSUME Promoters = {}, Inv, [Next]_vars, ~Cancelling, Cancelling'
  PROVE  /\ pc' = "cancel"
         /\ \/ FlushForSendNow
            \/ \E o \in Cancels : CancelCommand(o)
            \/ \E k \in Shutdowns : ShutdownCommand(k) /\ k = "cancel"
BY Arriving DEF Cancelling, CancelAll, CancelFront, CancelAbort, CancelRewind

\* Ctrl+C suppresses, and stays so to its end.
LEMMA CtrlCSuppressesStep ==
  ASSUME Punctual, Inv, CtrlCSuppresses, [Next]_vars PROVE CtrlCSuppresses'
<1> SUFFICES ASSUME Cancelling', cancel'.trigger = "ctrl_c" PROVE suppressed' /\ ~cancel'.rewind
  BY DEF CtrlCSuppresses
<1>0. Promoters = {}
  BY DEF Punctual
<1>1. CASE Cancelling
  <2>1. suppressed /\ ~cancel.rewind /\ ~cancel'.rewind
    BY <1>0, <1>1, CancelGoesOn DEF CtrlCSuppresses
  <2>2. ~CancelRewind
    BY <2>1 DEF CancelRewind, Rewinds
  <2>3. suppressed' = suppressed
    BY <1>0, <1>1, <2>2, CancelGoesOn DEF CancelAll, CancelFront, CancelAbort, lockVars
  <2> QED BY <2>1, <2>3
<1>2. CASE ~Cancelling
  <2>1. ASSUME NEW o \in Cancels, CancelCommand(o) PROVE suppressed' /\ ~cancel'.rewind
    <3>1. cancel'.trigger = o.trigger /\ cancel'.rewind = o.rewind
          /\ suppressed' = (suppressed \/ o.trigger = "ctrl_c")
      BY <2>1 DEF CancelCommand, CancelLocals, NoCancel
    <3> QED BY <3>1 DEF Punctual
  <2>2. CASE FlushForSendNow
    BY <2>2 DEF FlushForSendNow, CancelLocals, NoCancel
  <2>3. ASSUME NEW k \in Shutdowns, ShutdownCommand(k), k = "cancel" PROVE FALSE
    BY <2>3 DEF ShutdownCommand, CancelLocals, NoCancel
  <2> QED BY <1>0, <1>2, <2>1, <2>2, <2>3, CancelStarts
<1> QED BY <1>1, <1>2

-----------------------------------------------------------------------------
(* The row a send-now starts.                                               *)

\* A turn takes no user's row out of the queue.
LEMMA TurnKeepsUsers ==
  ASSUME Inv, NEW t \in Ids, TurnStep(t) \/ TurnSideEffect(t),
         NEW u \in User \cap Elems(queue)
  PROVE  u \in Elems(queue')
<1>1. ASSUME NEW w, TurnConsumeCompletion(t, w) PROVE u \in Elems(queue')
  <2> DEFINE gone == Swept(queue, running, Completion \cap {w})
  <2>1. u \notin gone
    BY Apart DEF Swept
  <2>2. queue' = Without(queue, gone)
    BY <1>1 DEF TurnConsumeCompletion
  <2> HIDE DEF gone
  <2> QED BY <2>1, <2>2, Sequences, WithoutFacts
<1>2. CASE TurnStep(t)
  BY <1>2 DEF TurnStep, TurnConsumeDeferred, TurnCommit, TurnHostCommand, TurnFail,
              TurnCloseScope, TurnSendCompletion, lockVars
<1> QED BY <1>1, <1>2
        DEF TurnSideEffect, TurnEmit, TurnDrainInterjections, TurnInjectMonitorEvents, lockVars

\* A send-now has its row until its cancel is done.
LEMMA SendNowHasRowStep ==
  ASSUME Promoters = {}, Inv, Inv', SendNowHasRow, [Next]_vars PROVE SendNowHasRow'
<1> SUFFICES ASSUME SendingNow'
             PROVE  /\ \E u \in User \cap Elems(queue') : u # running'
                    /\ pc' \in {"sendnow", "cancel"} => running' # None
                    /\ pc' # "sendnow" => ~cancel'.rewind /\ ~cancel'.kill
  BY DEF SendNowHasRow
<1>n. \A u \in User : u # None
  BY Kinds
<1>1. CASE pc' = pc
  <2>1. UNCHANGED <<running, cancel>>
    BY <1>1, Staying, TurnFrames DEF SendingNow, Cancelling, TurnFrame, vars, lockVars
  <2>2. SendingNow
    BY <1>1, <2>1 DEF SendingNow, Cancelling
  <2>3. PICK u \in User \cap Elems(queue) : u # running
    BY <2>2 DEF SendNowHasRow
  <2>4. u \in Elems(queue')
    <3>1. CASE UNCHANGED vars
      BY <3>1 DEF vars, lockVars
    <3>2. ASSUME NEW t \in Ids, TurnStep(t) \/ TurnSideEffect(t) PROVE u \in Elems(queue')
      BY <3>2, TurnKeepsUsers
    <3> QED BY <1>1, <3>1, <3>2, Staying DEF SendingNow, Cancelling
  <2> QED BY <1>1, <2>1, <2>2, <2>3, <2>4 DEF SendNowHasRow
<1>2. CASE pc' # pc /\ pc' = "sendnow"
  <2>1. Command
    BY <1>2, Arriving
  <2>2. running' = running
    BY <2>1, CommandFrames DEF CommandFrame
  <2> QED BY <1>2, <2>1, <2>2, IntoSendNow DEF User
<1>3. CASE pc' # pc /\ pc' = "cancel"
  <2>1. FlushForSendNow
    <3>1. \A o \in Cancels : o.trigger # "send_now"
      BY ParameterAssumption
    <3> QED BY <1>3, <3>1, Arriving
            DEF SendingNow, CancelCommand, ShutdownCommand, CancelLocals, NoCancel
  <2>2. /\ pc = "sendnow" /\ queue' = InsertAll(queue, RunningOffset(queue, running), interjections)
        /\ running' = running /\ ~cancel'.rewind /\ ~cancel'.kill
    BY <2>1 DEF FlushForSendNow, Flushed, CancelLocals, NoCancel
  <2>3. RunningOffset(queue, running) \in 0..Len(queue)
    BY Sequences, RunningOffsetFacts
  <2>4. Elems(queue') = Elems(queue) \cup Elems(interjections)
    BY <2>2, <2>3, Sequences, InsertAllFacts
  <2> QED BY <1>3, <2>2, <2>4 DEF SendNowHasRow, SendingNow
<1>4. CASE pc' # pc /\ pc' \in {"abort", "finish"}
  <2>1. Cancelling /\ Cancelling'
    BY <1>4, Arriving DEF Cancelling, CancelAll, CancelFront, CancelAbort, CancelRewind
  <2>2. SendingNow /\ ~cancel.rewind /\ ~cancel.kill /\ cancel.trigger = "send_now"
    BY <1>4, <2>1, CancelGoesOn DEF SendingNow, SendNowHasRow, Cancelling
  <2>3. ~cancel'.rewind /\ ~cancel'.kill
    BY <2>1, <2>2, CancelGoesOn
  <2>4. PICK u \in User \cap Elems(queue) : u # running
    BY <2>2 DEF SendNowHasRow
  <2>5. CASE CancelFront
    <3>1. pc = "cancel" /\ running # None /\ running' = None
      BY <2>2, <2>5 DEF CancelFront, SendNowHasRow
    <3>2. Head(queue) = running
      BY <3>1 DEF Inv, FrontIsRunning
    <3>3. u \in Elems(queue')
      BY <2>4, <2>5, <3>2, CancelFrontRows, Apart
    <3> QED BY <1>n, <1>4, <2>3, <3>1, <3>3
  <2>6. CASE CancelAbort
    <3>1. UNCHANGED <<queue, running>>
      BY <2>6 DEF CancelAbort, lockVars
    <3> QED BY <1>4, <2>3, <2>4, <3>1
  <2> QED BY <1>4, <2>2, <2>5, <2>6, Arriving DEF CancelAll, CancelRewind, Rewinds
<1> QED BY <1>1, <1>2, <1>3, <1>4 DEF SendingNow, Cancelling

-----------------------------------------------------------------------------
(* What is buffered has something that will deliver it.                     *)

\* A stopped session stays stopped.
LEMMA StoppedStep ==
  ASSUME Promoters = {}, Inv, [Next]_vars, Stopped PROVE Stopped'
<1>1. CASE pc' # pc
  <2>1. ~Command
    BY CommandFrames DEF CommandFrame, Stopped
  <2>2. ActorStep
    BY <1>1, <2>1, Arriving
  <2> QED BY <2>2
          DEF ActorStep, HandleCompletion, TurnEnd, MaybeDrainNotifications, FlushForSendNow,
              CancelRewind, CancelAll, CancelFront, CancelAbort, CancelFinish, CloseSession,
              MaybeStartRunningTask, Stopped
<1> QED BY <1>1 DEF Stopped

\* The steps that leave the monitor buffer filled.
LEMMA EventsStep ==
  ASSUME Promoters = {}, Inv, MonitorInv, [Next]_vars, events' # <<>>
  PROVE  \/ events # <<>> /\ ~TurnEnd /\ ~CancelRewind /\ ~CancelAll /\ ~CancelFront
         \/ \E m \in Monitors : BufferMonitorEvent(m)
<1>0. events \in Seq(Monitors)
  BY DEF MonitorInv, EventTypeOK
<1>1. CASE Command
  <2>1. ASSUME NEW w, DropMonitorNotifications(w) PROVE events # <<>>
    <3>1. events' = Without(events, EventsOf({w}))
      BY <2>1 DEF DropMonitorNotifications
    <3>2. events' \in Seq(Monitors) /\ Elems(events') \subseteq Elems(events)
      BY <1>0, <3>1, WithoutFacts
    <3>3. Head(events') \in Elems(events')
      BY <3>2, TailFacts
    <3>4. Elems(<<>>) = {}
      BY DEF Elems
    <3> QED BY <3>2, <3>3, <3>4
  <2>2. pc = "ready"
    BY <1>1, CommandFrames DEF CommandFrame
  <2>3. UNCHANGED events \/ (\E w : DropMonitorNotifications(w))
        \/ \E m \in Monitors : BufferMonitorEvent(m)
    BY <1>1
       DEF Command, SubmitPrompt, RemoveQueuedPrompt, EditQueuedPrompt, InterjectQueuedPrompt,
           InterjectMissed,
           HoldCombineEdit, ReleaseCombineEdit, ClearQueue, ReorderQueue, ClientCommand,
           AdmitTaskWake, QueueSynthetic, InjectNotification, BufferInterjection,
           QueueInterjection, CancelCommand, CtrlCPanic, ShutdownCommand
  <2> QED BY <2>1, <2>2, <2>3 DEF TurnEnd, CancelRewind, CancelAll, CancelFront
<1>2. CASE ActorStep
  <2>1. UNCHANGED events \/ events' = <<>>
    BY <1>2 DEF ActorStep, HandleCompletion, TurnEnd, MaybeDrainNotifications, FlushForSendNow,
                CancelRewind, CancelAll, CancelFront, CancelAbort, CancelFinish, CloseSession,
                MaybeStartRunningTask
  <2> QED BY <2>1 DEF TurnEnd, CancelRewind, CancelAll, CancelFront
<1>3. ASSUME NEW t \in Ids, TurnStep(t) \/ TurnSideEffect(t)
      PROVE  /\ events # <<>> /\ pc' = pc
  <2>1. UNCHANGED events \/ events' = <<>>
    BY <1>3 DEF TurnStep, TurnSideEffect, TurnConsumeDeferred, TurnCommit, TurnHostCommand,
                TurnFail, TurnCloseScope, TurnSendCompletion, TurnEmit, TurnDrainInterjections,
                TurnInjectMonitorEvents, TurnConsumeCompletion, TurnKeeps
  <2> QED BY <1>3, <2>1, TurnFrames DEF TurnFrame
<1>4. CASE UNCHANGED vars
  BY <1>4 DEF vars, TurnEnd, CancelRewind, CancelAll, CancelFront
<1> QED BY <1>1, <1>2, <1>3, <1>4
        DEF Next, Halted, TurnEnd, CancelRewind, CancelAll, CancelFront

\* Monitor events wait for a turn, or for the handler that sweeps them.
LEMMA EventsMoveStep ==
  ASSUME Promoters = {}, Inv, MonitorInv, TaskInv, EventsMove, [Next]_vars PROVE EventsMove'
<1> SUFFICES ASSUME events' # <<>>
             PROVE  running' # None \/ pc' \in {"turnend", "cancel"} \/ Stopped'
  BY DEF EventsMove
<1>1. ASSUME NEW m \in Monitors, BufferMonitorEvent(m) PROVE running' # None
  <2>1. pc = "ready" /\ running' = running /\ \E t \in Ids : Alive(t)
    BY <1>1 DEF BufferMonitorEvent, TakeCommand, lockVars
  <2> QED BY <2>1, LiveIsRunning, Kinds
<1>2. CASE events # <<>> /\ ~TurnEnd /\ ~CancelRewind /\ ~CancelAll /\ ~CancelFront
  <2>1. CASE running # None
    BY <1>2, <2>1, LoopRunning DEF Promotes, HandleCompletion
  <2>2. CASE pc \in {"turnend", "cancel"}
    <3>1. CASE pc' = pc
      BY <2>2, <3>1
    <3>2. CASE pc' # pc
      <4>1. ~Command
        BY <2>2, CommandFrames DEF CommandFrame
      <4>2. ActorStep
        BY <3>2, <4>1, Arriving
      <4> QED BY <1>2, <2>2, <4>2
              DEF ActorStep, HandleCompletion, MaybeDrainNotifications, FlushForSendNow,
                  CancelAbort, CancelFinish, CloseSession, MaybeStartRunningTask
    <3> QED BY <3>1, <3>2
  <2> QED BY <1>2, <2>1, <2>2, StoppedStep DEF EventsMove
<1> QED BY <1>1, <1>2, EventsStep

\* Only workflow completions are popped as stale: any other row is started.
LEMMA StartsFresh ==
  ASSUME Inv, MaybeStartRunningTask, running = None, NEW x \in Elems(queue), x \notin Workflows
  PROVE  running' # None
<1>1. queue # <<>>
  BY DEF Elems
<1>2. PICK stale \in SUBSET Workflows : StartFront(stale)
  BY <1>1 DEF MaybeStartRunningTask
<1>3. StaleFronts(stale) \subseteq stale
  <2> DEFINE k == RunLength(queue, 1, stale)
  <2>1. queue \in Seq(Ids) /\ Len(queue) \in Nat
    BY Sequences
  <2>2. k \in Nat /\ \A i \in 1..(1 + k - 1) : queue[i] \in stale
    BY <2>1, RunLengthFacts
  <2> HIDE DEF k
  <2>3. \A i \in 1..k : queue[i] \in stale
    BY <2>2
  <2> QED BY <2>3 DEF StaleFronts, k
<1>4. x \in Elems(FreshQueue(stale))
  BY <1>3, FreshQueueFacts
<1>5. FreshQueue(stale) # <<>>
  BY <1>4 DEF Elems
<1>6. running' = Head(FreshQueue(stale)) /\ Head(FreshQueue(stale)) \in Ids
  BY <1>2, <1>5, FreshQueueFacts DEF StartFront, Spawn
<1> QED BY <1>6, Kinds

\* What a command does to the notifications.
LEMMA CommandNotes ==
  ASSUME Punctual, Inv, Inv', Command, notes' # <<>>
  PROVE  \/ notes # <<>> /\ UNCHANGED <<running, suppressed>>
         \/ suppressed' \/ Cancelling' \/ Stopped' \/ pc' \in {"drain", "sendnow"}
         \/ pc' = "start" /\ \E x \in Elems(queue') : x \notin Workflows
<1>1. ASSUME NEW p \in Prompts, SubmitPrompt(p)
      PROVE  pc' = "sendnow" \/ (pc' = "start" /\ p \in Elems(queue') /\ p \notin Workflows)
  <2>1. /\ status[p] = "new" /\ UNCHANGED interjections /\ pc' \in {"sendnow", "start"}
        /\ status' = [x \in All |-> IF x = p THEN "waiting"
                                  ELSE IF x \in Preempted THEN "dropped" ELSE status[x]]
    BY <1>1 DEF SubmitPrompt
  <2>2. p \in Ids /\ p \in All /\ p \notin Elems(interjections)
    BY <2>1, Kinds, NewIsNowhere
  <2>3. p \in Elems(queue')
    BY <2>1, <2>2, WaitsInQueue
  <2> QED BY <2>1, <2>3, Apart
<1>2. ASSUME NEW w \in Wakes, AdmitTaskWake(w)
      PROVE  suppressed' \/ UNCHANGED <<notes, running, suppressed>>
  BY <1>2 DEF AdmitTaskWake, Punctual
<1>3. ASSUME NEW n, InjectNotification(n) PROVE pc' = "drain"
  BY <1>3 DEF InjectNotification
<1>4. ASSUME NEW w, DropMonitorNotifications(w)
      PROVE  notes # <<>> /\ UNCHANGED <<running, suppressed>>
  <2>0. notes \in Seq(Wakes \cup Notices)
    BY DEF Inv, StateTypeOK
  <2>1. notes' = Without(notes, EventsOf({w})) /\ UNCHANGED <<running, suppressed>>
    BY <1>4 DEF DropMonitorNotifications
  <2>2. notes' \in Seq(Wakes \cup Notices) /\ Elems(notes') \subseteq Elems(notes)
    BY <2>0, <2>1, WithoutFacts
  <2>3. Head(notes') \in Elems(notes')
    BY <2>2, TailFacts
  <2>4. Elems(<<>>) = {}
    BY DEF Elems
  <2> QED BY <2>1, <2>2, <2>3, <2>4
<1>5. ASSUME NEW o, CancelCommand(o) \/ CtrlCPanic(o) \/ ShutdownCommand(o)
      PROVE  Cancelling' \/ Stopped'
  BY <1>5 DEF CancelCommand, CtrlCPanic, ShutdownCommand, Cancelling, Stopped
<1>6. ASSUME NEW p, \/ RemoveQueuedPrompt(p) \/ EditQueuedPrompt(p) \/ InterjectQueuedPrompt(p)
                    \/ HoldCombineEdit(p) \/ ReleaseCombineEdit(p) \/ ClearQueue(p)
                    \/ ReorderQueue(p) \/ QueueSynthetic(p) \/ BufferMonitorEvent(p)
                    \/ BufferInterjection(p) \/ QueueInterjection(p) \/ InterjectMissed(p)
      PROVE  UNCHANGED <<notes, running, suppressed>>
  BY <1>6 DEF RemoveQueuedPrompt, EditQueuedPrompt, InterjectQueuedPrompt, HoldCombineEdit,
              ReleaseCombineEdit, ClearQueue, ReorderQueue, ClientCommand, QueueSynthetic,
              BufferMonitorEvent, BufferInterjection, QueueInterjection, InterjectMissed,
              lockVars
<1> QED BY <1>1, <1>2, <1>3, <1>4, <1>5, <1>6 DEF Command

\* Notifications wait for a turn, a suppression, or the handler that drains them.
LEMMA NotesMoveStep ==
  ASSUME Punctual, Inv, MonitorInv, Inv', PromotionInv, TaskInv, DrainInv, [Next]_vars
  PROVE  NotesMove'
<1>0. Promoters = {}
  BY DEF Punctual
<1> DEFINE Moving == \/ running # None \/ suppressed \/ Cancelling \/ Stopped
                     \/ pc \in {"turnend", "startdrain", "drain"}
                     \/ pc = "start" /\ \E x \in Elems(queue) : x \notin Workflows
<1> SUFFICES ASSUME notes' # <<>> PROVE Moving'
  BY DEF NotesMove
<1>m. notes # <<>> => Moving
  BY DEF DrainInv, NotesMove
<1>1. CASE Command
  <2>0. pc = "ready" /\ running' = running
    BY <1>1, CommandFrames DEF CommandFrame
  <2>1. CASE notes # <<>> /\ UNCHANGED <<running, suppressed>>
    BY <1>m, <2>0, <2>1 DEF Cancelling, Stopped
  <2>2. CASE pc' = "sendnow"
    BY <1>1, <2>0, <2>2, IntoSendNow
  <2> QED BY <1>1, <2>1, <2>2, CommandNotes
<1>2. CASE MaybeStartRunningTask
  <2>0. /\ pc \in {"start", "startdrain"} /\ pc' = IF pc = "start" THEN "ready" ELSE "drain"
        /\ PromotesNothing \/ (Promotes /\ running' = Head(queue'))
    BY <1>2, StartStep
  <2>1. UNCHANGED notes
    <3>1. ASSUME NEW stale, StartFront(stale) PROVE UNCHANGED notes
      BY <3>1 DEF StartFront, NothingFresh
    <3> QED BY <1>2, <3>1 DEF MaybeStartRunningTask, lockVars
  <2>2. CASE Promotes /\ running' = Head(queue')
    BY <2>2, Kinds DEF Promotes
  <2>3. CASE PromotesNothing
    <3>1. UNCHANGED <<running, suppressed>>
      BY <2>3 DEF PromotesNothing
    <3>2. CASE pc = "start" /\ running = None /\ \E x \in Elems(queue) : x \notin Workflows
      BY <1>2, <3>2, StartsFresh
    <3> QED BY <1>m, <2>0, <2>1, <3>1, <3>2 DEF Cancelling, Stopped
  <2> QED BY <2>0, <2>2, <2>3
<1>3. CASE MaybeDrainNotifications
  <2>1. /\ pc = "drain" /\ notes' = notes /\ UNCHANGED <<running, suppressed>>
        /\ ~IdleForInjection \/ Pending = <<>>
    BY <1>3 DEF MaybeDrainNotifications
  <2>2. Pending # <<>>
    <3>1. notes \in Seq(Wakes \cup Notices) /\ events \in Seq(Wakes \cup Notices)
      BY EventsFacts DEF Inv, StateTypeOK
    <3> QED BY <2>1, <3>1, PushNotesEmpty, ParameterAssumption DEF Pending
  <2>3. running = None => queue = <<>>
    BY <1>0, <2>1 DEF PromotionInv, BacklogMoves
  <2> QED BY <2>1, <2>2, <2>3 DEF IdleForInjection
<1>4. CASE CancelFinish
  <2>1. /\ pc = "finish" /\ pc' \in {"startdrain", "start", "closing"}
        /\ pc' = "start" => cancel.trigger \in {"ctrl_c", "send_now"}
        /\ suppressed' = (suppressed /\ cancel.trigger # "send_now") /\ UNCHANGED queue
    BY <1>4, FinishPlace DEF CancelFinish
  <2>2. CASE cancel.trigger = "ctrl_c"
    BY <2>1, <2>2 DEF DrainInv, CtrlCSuppresses, Cancelling
  <2>3. CASE cancel.trigger = "send_now"
    <3>1. PICK u \in User \cap Elems(queue) : u # running
      BY <2>1, <2>3 DEF DrainInv, SendNowHasRow, SendingNow, Cancelling
    <3>2. u \in Elems(queue') /\ u \notin Workflows
      BY <2>1, <3>1, Apart
    <3> QED BY <2>1, <3>2 DEF Stopped
  <2> QED BY <2>1, <2>2, <2>3 DEF Stopped
<1>5. CASE ActorStep /\ ~MaybeStartRunningTask /\ ~MaybeDrainNotifications /\ ~CancelFinish
  BY <1>5 DEF ActorStep, HandleCompletion, TurnEnd, FlushForSendNow, CancelRewind, CancelAll,
              CancelFront, CancelAbort, CloseSession, Cancelling, Stopped
<1>6. ASSUME NEW t \in Ids, TurnStep(t) \/ TurnSideEffect(t) PROVE Moving'
  <2>1. UNCHANGED <<pc, running>> /\ Alive(t)
    BY <1>6, TurnFrames, TurnTasks DEF TurnFrame
  <2>2. running # None \/ pc = "abort"
    BY <2>1, LiveIsRunning, Kinds
  <2> QED BY <2>1, <2>2 DEF Cancelling
<1>7. CASE UNCHANGED vars
  BY <1>m, <1>7 DEF vars, lockVars, Cancelling, Stopped
<1> QED BY <1>0, <1>1, <1>2, <1>3, <1>4, <1>5, <1>6, <1>7 DEF Next, Halted

-----------------------------------------------------------------------------
(* What the idle drain promises.                                            *)

LEMMA InitDrain == Init => DrainInv
BY DEF Init, DrainInv, SendNowHasRow, SendingNow, CtrlCSuppresses, NotesMove, EventsMove,
       Cancelling

LEMMA NextDrain ==
  ASSUME Punctual, Inv, MonitorInv, PromotionInv, TaskInv, DrainInv, [Next]_vars
  PROVE  DrainInv'
<1>1. Inv' /\ Promoters = {}
  BY NextInv DEF Punctual
<1> QED BY <1>1, SendNowHasRowStep, CtrlCSuppressesStep, NotesMoveStep, EventsMoveStep
        DEF DrainInv

\* An idle session that is not suppressed has delivered every notification and every monitor
\* event: each handler that buffers one, ends a turn or lifts a suppression goes on to a turn
\* or to maybe_drain_notifications.
THEOREM IdleDrained ==
  ASSUME Promoters = {}, "late" \notin Admissions,
         \A o \in Cancels : ~(o.trigger = "ctrl_c" /\ o.rewind)
  PROVE  Spec => []IdleIsDrained
<1>1. Init => DrainInv
  BY InitDrain
<1>2. Punctual
  BY DEF Punctual
<1>3. Inv /\ MonitorInv /\ PromotionInv /\ TaskInv /\ DrainInv /\ [Next]_vars => DrainInv'
  BY <1>2, NextDrain
<1>4. DrainInv => IdleIsDrained
  BY DEF DrainInv, NotesMove, EventsMove, IdleIsDrained, IdleForInjection, Cancelling, Stopped
<1>5. Spec => [](Inv /\ MonitorInv)
  BY Invariance
<1>6. Spec => []PromotionInv
  BY PromotionInvariance
<1>7. Spec => []TaskInv
  BY TaskInvariance
<1> QED BY <1>1, <1>3, <1>4, <1>5, <1>6, <1>7, PTL DEF Spec
=============================================================================
