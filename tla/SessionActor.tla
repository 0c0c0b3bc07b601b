---------------------------- MODULE SessionActor ----------------------------
(***************************************************************************)
(* The session actor of the agent runtime: the serialized command loop     *)
(* that owns the prompt queue, at most one running turn task, the          *)
(* interjection buffer and the notification buffer.                        *)
(*                                                                         *)
(* Three kinds of process interleave at the await points of one LocalSet:  *)
(*   - the actor loop (run_session): one command or one turn completion at *)
(*     a time, each handler a sequence of steps named by pc;               *)
(*   - the turn tasks (run_task / handle_prompt) the actor spawns;         *)
(*   - promoters: spawned tasks that call maybe_start_running_task from    *)
(*     outside the loop (MCP initialisation, a resumed plan decision).     *)
(* They share State under an async mutex and current_prompt_id (`pin`)     *)
(* under a mutex of its own.                                               *)
(***************************************************************************)
EXTENDS PromptQueue

CONSTANTS
  Prompts,        \* user prompts submitted by clients (rows with queue_meta)
  Interjections,  \* mid-turn interjections; also the id of their fallback prompt
  Wakes,          \* "task-completed-" prompts of background tasks
  SubWakes,       \* "subagent-completed-" prompts
  Workflows,      \* "workflow-completed-" prompts
  Crons,          \* "scheduler-fired-" prompts, submitted by a client
  Nudges,         \* "goal-summary-" continuation prompts
  PlanResumes,    \* "plan-resume-" prompts, each queued by its own promoter
  Drains,         \* "notifications-" prompts made by the idle drain
  Notices,        \* what the bridge injects as notifications: task completions and
  Monitors,       \* output events of monitors
  Source,         \* the completion of the task each monitor event comes from
  Clients,        \* clients attached to the session
  Owner,          \* the client that submitted each prompt
  Plain,          \* rows the combine gate accepts as a front
  Images,         \* rows that carry images (never a follower)
  Editable,       \* rows some client opens in its composer
  CombineQueued,  \* [ui].combine_queued_prompts
  Mcp,            \* the MCP-initialisation promoter (a one-element set, or {})
  Cancels,        \* the option records of SessionCommand::Cancel
  Shutdowns,      \* the ShutdownKinds that arrive
  Admissions,     \* how the bridge waits for a wake: "in_time", "late"
  MaxNotes,       \* MAX_PENDING_NOTIFICATIONS
  MaxEvents,      \* MAX_BUFFER_EVENTS
  MaxEdits,       \* bound: edits per row
  None

User       == Prompts \cup Interjections
Completion == Wakes \cup SubWakes \cup Workflows
Synthetic  == Completion \cup Crons \cup Nudges \cup PlanResumes \cup Drains
Ids        == User \cup Synthetic
All        == Ids \cup Notices
Promoters  == Mcp \cup PlanResumes

\* Prompts whose client awaits the answer of its session/prompt call.
Awaited == Prompts \cup Crons

\* Every prompt id names one origin, and no id is the null value or a promoter.
ASSUME OriginAssumption ==
  /\ None \notin Ids \cup Notices \cup Mcp
  /\ Notices \cap Ids = {} /\ Mcp \cap Ids = {}
  /\ User \cap Synthetic = {} /\ Prompts \cap Interjections = {}
  /\ Completion \cap (Crons \cup Nudges \cup PlanResumes \cup Drains) = {}
  /\ Wakes \cap (SubWakes \cup Workflows) = {} /\ SubWakes \cap Workflows = {}
  /\ Crons \cap (Nudges \cup PlanResumes \cup Drains) = {}
  /\ Nudges \cap (PlanResumes \cup Drains) = {} /\ PlanResumes \cap Drains = {}

Triggers == {"none", "ctrl_c", "send_now", "shutdown"}

\* The other constants have the types the code gives them.
ASSUME ParameterAssumption ==
  /\ Plain \subseteq Prompts /\ Images \subseteq Prompts /\ Editable \subseteq Prompts
  /\ Owner \in [Prompts -> Clients] /\ None \notin Clients
  /\ CombineQueued \in BOOLEAN
  /\ Cancels \subseteq [trigger : {"none", "ctrl_c"}, rewind : BOOLEAN,
                        early : BOOLEAN, kill : BOOLEAN]
  /\ \A o \in Cancels : ~(o.rewind /\ o.kill)
  /\ Shutdowns \subseteq {"graceful", "cancel"}
  /\ Admissions \subseteq {"in_time", "late"}
  /\ Monitors \subseteq Notices
  /\ Source \in [Monitors -> Wakes \cup (Notices \ Monitors)]
  /\ MaxNotes \in Nat \ {0} /\ MaxEvents \in Nat \ {0} /\ MaxEdits \in Nat

VARIABLES
  queue,          \* State::pending_inputs
  running,        \* State::running_task, by prompt id
  sendNow,        \* rows whose InputItem::send_now is set
  held,           \* State::combine_edit_holds
  version,        \* QueueEntryMeta::version
  notes,          \* State::pending_notifications
  suppressed,     \* State::notifications_suppressed
  rewindable,     \* State::rewindable
  committed,      \* State::front_message_committed
  pin,            \* current_prompt_id
  interjections,  \* pending_interjections
  events,         \* this session's entries of the MonitorEventBuffer
  tasks,          \* the turn task of each prompt id
  completions,    \* the completion channel
  pc,             \* where the actor loop is
  cancel,         \* the locals of a cancel in progress
  promoter,       \* where each promoter is
  status,         \* history: how each prompt's respond_to was resolved
  terminals,      \* history: TurnCompleted notifications emitted per prompt
  started,        \* history: version of the row when its blocks were cloned
  aimed           \* history: the turn an interjection was buffered for

lockVars    == <<queue, running, sendNow, held, version, notes, suppressed,
                 rewindable, committed>>
historyVars == <<status, terminals, started, aimed>>
vars == <<lockVars, pin, interjections, events, tasks, completions, pc, cancel, promoter,
          historyVars>>

TaskStates == {"none", "spawned", "intake", "live", "ending", "over"}
Statuses   == {"new", "waiting", "ok", "cancelled", "removed", "rewound", "dropped",
               "merged", "interjected", "cleared", "held", "deferred", "evicted",
               "reported"}
Places     == {"ready", "turnend", "start", "startdrain", "drain", "sendnow",
               "cancel", "abort", "finish", "closing", "closed", "panicked"}

NoCancel == [trigger |-> "none", rewind |-> FALSE, kill |-> FALSE, pinned |-> None,
             victim |-> None, popped |-> None, doomed |-> {}]

\* `suppressed` stands for the actor flag and for the task_wake_suppressed gate: the
\* gate is only set together with the flag and cleared with it or before it, and
\* every reader takes their disjunction, which is the flag.
Init ==
  /\ queue = <<>> /\ running = None /\ sendNow = {} /\ held = {}
  /\ version = [p \in Prompts |-> 0]
  /\ notes = <<>> /\ suppressed = FALSE /\ rewindable = FALSE /\ committed = FALSE
  /\ pin = None /\ interjections = <<>> /\ events = <<>>
  /\ tasks = [x \in Ids |-> "none"]
  /\ completions = <<>> /\ pc = "ready" /\ cancel = NoCancel
  /\ promoter = [r \in Promoters |-> IF r \in Mcp THEN "queued" ELSE "init"]
  /\ status = [x \in All |-> "new"]
  /\ terminals = [x \in Ids |-> 0]
  /\ started = [p \in Prompts |-> 0]
  /\ aimed = [j \in Interjections |-> None]

-----------------------------------------------------------------------------
(* The state mutex and the select loop.                                    *)

\* Only a promoter holds the mutex across an await that others can observe.
Unlocked == \A r \in Promoters : promoter[r] # "holding"

\* A turn task that can still take a step.
Alive(t) == tasks[t] \in {"spawned", "intake", "live", "ending"}

\* Mutant: the select! without `biased`.
TakeCommandUnbiased == pc = "ready"

\* The select! is biased: the completion arm is polled before the command arm.
TakeCommand == pc = "ready" /\ completions = <<>>

Resolve(S, how) == [x \in All |-> IF x \in S THEN how ELSE status[x]]

\* A row enters the queue at its end.
PushBack(x) ==
  /\ queue' = Append(queue, x)
  /\ status' = [status EXCEPT ![x] = "waiting"]

\* Mutant: the buffer is replaced rather than extended.
DeferReplaces(ns) == notes' = PushNotes(<<>>, ns, MaxNotes)

\* push_pending_notification of each entry of ns; what the cap pushes out is gone.
Defer(ns) == notes' = PushNotes(notes, ns, MaxNotes)
Evicted(ns) == Elems(notes \o ns) \ Elems(PushNotes(notes, ns, MaxNotes))
Deferred(S, ns) ==
  [x \in All |-> IF x \in Evicted(ns) THEN "evicted"
                 ELSE IF x \in S THEN "deferred" ELSE status[x]]

\* sweep_monitor_buffer_into_pending leaves these notifications: the session's buffered
\* monitor events are drained and pushed in order.
Pending == PushNotes(notes, events, MaxNotes)

\* The statuses after a sweep of which the handler takes S out of the notifications.
Taken(S, how) ==
  [x \in All |-> IF x \in Elems(Pending) \cap S THEN how
                 ELSE Deferred(Elems(events), events)[x]]

\* The monitor events of the tasks whose completions are in S.
EventsOf(S) == {m \in Monitors : Source[m] \in S}

-----------------------------------------------------------------------------
(* maybe_start_running_task                                                *)

\* Workflow completions at the front that the workflow tracker already reported
\* (`stale` is the tracker's answer) are popped and answered.
StaleFronts(stale) == {queue[i] : i \in 1..RunLength(queue, 1, stale)}
FreshQueue(stale)  == Without(queue, StaleFronts(stale))
\* Mutant: every hold is treated as stale.
NoHolds(q) == {}

LiveHolds(q)       == held \cap Elems(q)

\* combine_front_pending_inputs, with the rows under edit held out.
Folded(q) ==
  IF CombineQueued
  THEN MergedAway(q, Plain, (Plain \ Images) \ LiveHolds(q))
  ELSE {}

\* Everything the promotion does under the lock before the task is spawned.
Promote(q) ==
  LET front == Head(q) IN
  /\ queue' = Without(q, Folded(q))
  /\ sendNow' = sendNow \cap Elems(q)   \* the flag is gone with its row
  /\ held' = LiveHolds(q)
  /\ suppressed' = (suppressed /\ front \notin User)
  /\ pin' = front
  /\ rewindable' = TRUE
  /\ committed' = FALSE
  /\ started' = [p \in Prompts |-> IF p = front THEN version[p] ELSE started[p]]

\* AgentTask::new_prompt.
Spawn(front) ==
  /\ running' = front
  /\ tasks' = [tasks EXCEPT ![front] = "spawned"]

\* The stale fronts were the whole queue: no turn starts.
NothingFresh(stale) ==
  /\ queue' = <<>>
  /\ held' = {}
  /\ status' = Resolve(StaleFronts(stale), "removed")
  /\ UNCHANGED <<running, sendNow, version, notes, suppressed, rewindable, committed,
                 pin, tasks, terminals, started, aimed>>

\* A whole promotion by the actor, which no one can observe half done.
StartFront(stale) ==
  LET q == FreshQueue(stale) IN
  IF q = <<>> THEN NothingFresh(stale)
  ELSE /\ Promote(q)
       /\ Spawn(Head(q))
       /\ status' = [x \in All |-> IF x \in StaleFronts(stale) THEN "removed"
                                   ELSE IF x \in Folded(q) THEN "merged" ELSE status[x]]
       /\ UNCHANGED <<version, notes, terminals, aimed>>

\* Mutants: the drain after a turn end is forgotten; the suppression of wakes also
\* holds back user prompts.
MaybeStartNoDrain ==
  /\ pc \in {"start", "startdrain"} /\ Unlocked
  /\ pc' = "ready"
  /\ IF running = None /\ queue # <<>>
     THEN \E stale \in SUBSET Workflows : StartFront(stale)
     ELSE UNCHANGED <<lockVars, pin, tasks, historyVars>>
  /\ UNCHANGED <<interjections, events, completions, cancel, promoter>>
MaybeStartUnlessSuppressed ==
  /\ pc \in {"start", "startdrain"} /\ Unlocked
  /\ pc' = IF pc = "start" THEN "ready" ELSE "drain"
  /\ IF running = None /\ queue # <<>> /\ ~suppressed
     THEN \E stale \in SUBSET Workflows : StartFront(stale)
     ELSE UNCHANGED <<lockVars, pin, tasks, historyVars>>
  /\ UNCHANGED <<interjections, events, completions, cancel, promoter>>

\* The actor's call, at the end of most handlers.
MaybeStartRunningTask ==
  /\ pc \in {"start", "startdrain"} /\ Unlocked
  /\ pc' = IF pc = "start" THEN "ready" ELSE "drain"
  /\ IF running = None /\ queue # <<>>
     THEN \E stale \in SUBSET Workflows : StartFront(stale)
     ELSE UNCHANGED <<lockVars, pin, tasks, historyVars>>
  /\ UNCHANGED <<interjections, events, completions, cancel, promoter>>

\* maybe_drain_notifications: when idle and not suppressed the monitor buffer is swept
\* and the notifications become one turn, or are dropped while a goal is active/complete.
IdleForInjection == running = None /\ queue = <<>> /\ ~suppressed

MaybeDrainNotifications ==
  /\ pc = "drain" /\ Unlocked
  /\ \/ /\ ~IdleForInjection \/ Pending = <<>>
        /\ pc' = "ready"
        /\ UNCHANGED <<queue, notes, events, status>>
     \/ /\ IdleForInjection /\ Pending # <<>>
        /\ notes' = <<>> /\ events' = <<>>
        /\ \/ /\ pc' = "ready"
              /\ status' = Taken(All, "reported")
              /\ UNCHANGED queue
           \/ \E d \in Drains :
                /\ status[d] = "new"
                /\ queue' = Append(queue, d)
                /\ status' = [Taken(All, "reported") EXCEPT ![d] = "waiting"]
                /\ pc' = "start"
  /\ UNCHANGED <<running, sendNow, held, version, suppressed, rewindable, committed, pin,
                 interjections, tasks, completions, cancel, promoter, terminals, started,
                 aimed>>

-----------------------------------------------------------------------------
(* Prompt intake.                                                          *)

\* A send-now cancel would destroy a message the model has not seen.
FrontAwaitingCommit(q) == ~committed /\ q # <<>> /\ Head(q) = running

\* Mutant: the commit guard is dropped.
SendNowCancelsAny(q, goal) == running # None /\ ~goal

\* send_now_cancels_running_turn; a goal turn is promoted past, not cancelled.
SendNowCancels(q, goal) == running # None /\ ~goal /\ ~FrontAwaitingCommit(q)

\* Mutant: the preemption sweeps every queued row.
PreemptedAll ==
  IF \E x \in Elems(queue) \cap Completion : x # running
  THEN Swept(queue, running, Ids)
  ELSE {}

\* A user prompt preempts the queued synthetics, but only when one of them
\* carries a completion id.
Preempted ==
  IF \E x \in Elems(queue) \cap Completion : x # running
  THEN Swept(queue, running, Synthetic)
  ELSE {}

\* SessionCommand::Prompt of a user prompt: queue_input and the send-now decision.
\* `blocked` and `goal` are what the turn's wait depth and goal gate say.
SubmitPrompt(p) ==
  \E now, blocked, goal \in BOOLEAN :
    LET q     == Without(queue, Preempted)
        alone == Elems(q) \cap User \subseteq {running}
        jump  == now \/ (running # None /\ blocked /\ alone)
    IN  /\ TakeCommand /\ Unlocked /\ status[p] = "new"
        /\ suppressed' = FALSE
        /\ status' = [x \in All |-> IF x = p THEN "waiting"
                                    ELSE IF x \in Preempted THEN "dropped" ELSE status[x]]
        /\ IF jump
           THEN /\ queue' = Insert(q, SendNowIndex(q, running, sendNow), p)
                /\ sendNow' = sendNow \cup {p}
           ELSE /\ queue' = Append(q, p)
                /\ UNCHANGED sendNow
        /\ pc' = IF jump /\ SendNowCancels(q, goal) THEN "sendnow" ELSE "start"
        /\ UNCHANGED <<running, held, version, notes, rewindable, committed, pin,
                       interjections, tasks, events, completions, cancel, promoter, terminals,
                       started, aimed>>

\* Mutant: the suppression is not consulted.
AdmitTaskWakeUngated(w) ==
  \E answer \in Admissions :
    /\ TakeCommand /\ Unlocked /\ status[w] = "new"
    /\ IF answer = "late"
       THEN /\ Defer(<<w>>)
            /\ status' = Deferred({w}, <<w>>)
            /\ UNCHANGED <<queue, pc>>
       ELSE PushBack(w) /\ pc' = "start" /\ UNCHANGED notes
    /\ UNCHANGED <<running, sendNow, held, version, suppressed, rewindable, committed, pin,
                   interjections, tasks, events, completions, cancel, promoter, terminals,
                   started, aimed>>

\* SessionCommand::Prompt of a task wake: admitted only while wakes are not
\* suppressed and the bridge still waits for the answer; otherwise the wake's
\* fallback is buffered as a notification.
AdmitTaskWake(w) ==
  \E answer \in Admissions :
    /\ TakeCommand /\ Unlocked /\ status[w] = "new"
    /\ IF suppressed \/ answer = "late"
       THEN /\ Defer(<<w>>)
            /\ status' = Deferred({w}, <<w>>)
            /\ UNCHANGED <<queue, pc>>
       ELSE PushBack(w) /\ pc' = "start" /\ UNCHANGED notes
    /\ UNCHANGED <<running, sendNow, held, version, suppressed, rewindable, committed, pin,
                   interjections, tasks, events, completions, cancel, promoter, terminals, started,
                   aimed>>

\* Mutants: the gates of a workflow wake are dropped; the start is forgotten.
QueueSyntheticUngated(x) ==
  /\ TakeCommand /\ Unlocked /\ status[x] = "new"
  /\ PushBack(x)
  /\ pc' = "start"
  /\ UNCHANGED <<running, sendNow, held, version, notes, suppressed, rewindable, committed,
                 pin, interjections, tasks, events, completions, cancel, promoter, terminals,
                 started, aimed>>
QueueSyntheticNoStart(x) ==
  /\ TakeCommand /\ Unlocked /\ status[x] = "new"
  /\ x \in Workflows => ~suppressed /\ Elems(queue) \cap Workflows = {}
  /\ PushBack(x)
  /\ UNCHANGED <<running, sendNow, held, version, notes, suppressed, rewindable, committed,
                 pin, interjections, tasks, events, completions, pc, cancel, promoter, terminals,
                 started, aimed>>

\* Synthetic prompts that are queued unconditionally: subagent completions and
\* scheduled prompts (SessionCommand::Prompt), goal summaries (GoalSummaryTurn).
\* A workflow completion (WorkflowCompletionTurn) is queued unless wakes are
\* suppressed or another one is queued.
QueueSynthetic(x) ==
  /\ TakeCommand /\ Unlocked /\ status[x] = "new"
  /\ x \in Workflows => ~suppressed /\ Elems(queue) \cap Workflows = {}
  /\ PushBack(x)
  /\ pc' = "start"
  /\ UNCHANGED <<running, sendNow, held, version, notes, suppressed, rewindable, committed,
                 pin, interjections, tasks, events, completions, cancel, promoter, terminals,
                 started, aimed>>

\* SessionCommand::InjectNotification of a completion (priority Later), or of a monitor
\* event while is_turn_active is clear.  A turn sets the flag early in its intake and
\* clears it when handle_prompt returns: before and after, either value can be read.
\* So it can in a turn a promoter started, since the end of a cancel clears the flag.
InjectNotification(n) ==
  /\ TakeCommand /\ Unlocked /\ status[n] = "new"
  /\ n \in Monitors => \/ \A t \in Ids : tasks[t] \notin {"intake", "live"}
                      \/ \E r \in Promoters : promoter[r] = "done"
  /\ Defer(<<n>>)
  /\ status' = Deferred({n}, <<n>>)
  /\ pc' = "drain"
  /\ UNCHANGED <<queue, running, sendNow, held, version, suppressed, rewindable, committed,
                 pin, interjections, tasks, events, completions, cancel, promoter, terminals,
                 started, aimed>>

\* A monitor event (priority Next) while is_turn_active is set goes to the monitor
\* buffer, for the turn to pick up; no lock is taken and no drain follows.
BufferMonitorEvent(m) ==
  /\ TakeCommand /\ status[m] = "new" /\ \E t \in Ids : Alive(t)
  /\ events' = PushNotes(events, <<m>>, MaxEvents)
  /\ status' = [x \in All |-> IF x \in Elems(events) \ Elems(events') THEN "evicted"
                              ELSE IF x = m THEN "held" ELSE status[x]]
  /\ UNCHANGED <<lockVars, pin, interjections, tasks, completions, pc, cancel, promoter,
                 terminals, started, aimed>>

\* Mutant: the whole monitor buffer is drained.
DropMonitorNotificationsAll(w) ==
  /\ TakeCommand /\ Unlocked /\ status[w] # "new"
  /\ notes' = Without(notes, EventsOf({w}))
  /\ events' = <<>>
  /\ status' = Resolve((Elems(notes) \cup Elems(events)) \cap EventsOf({w}), "dropped")
  /\ UNCHANGED <<queue, running, sendNow, held, version, suppressed, rewindable, committed, pin,
                 interjections, tasks, completions, pc, cancel, promoter, terminals, started,
                 aimed>>

\* SessionCommand::DropMonitorNotifications, which the bridge sends once a monitor's
\* completion woke the session: the task's events are dropped wherever they are buffered.
DropMonitorNotifications(w) ==
  /\ TakeCommand /\ Unlocked /\ status[w] # "new"
  /\ notes' = Without(notes, EventsOf({w}))
  /\ events' = Without(events, EventsOf({w}))
  /\ status' = Resolve((Elems(notes) \cup Elems(events)) \cap EventsOf({w}), "dropped")
  /\ UNCHANGED <<queue, running, sendNow, held, version, suppressed, rewindable, committed, pin,
                 interjections, tasks, completions, pc, cancel, promoter, terminals, started,
                 aimed>>

\* Mutant: buffered even when no turn is pinned.
BufferInterjectionAlways(j) ==
  /\ TakeCommand /\ status[j] = "new"
  /\ interjections' = Append(interjections, j)
  /\ status' = [status EXCEPT ![j] = "waiting"]
  /\ aimed' = [aimed EXCEPT ![j] = pin]
  /\ UNCHANGED <<lockVars, pin, tasks, events, completions, pc, cancel, promoter, terminals, started>>

\* SessionCommand::Interject: buffered for the pinned turn; with no turn pinned it
\* becomes a prompt of its own, at the front but never before the running row.
\* The test reads the pin, not running_task, and takes no lock.
BufferInterjection(j) ==
  /\ TakeCommand /\ status[j] = "new" /\ pin # None
  /\ interjections' = Append(interjections, j)
  /\ status' = [status EXCEPT ![j] = "waiting"]
  /\ aimed' = [aimed EXCEPT ![j] = pin]
  /\ UNCHANGED <<lockVars, pin, tasks, events, completions, pc, cancel, promoter, terminals, started>>

\* Mutant: the fallback prompt is queued but nothing starts it.
QueueInterjectionNoStart(j) ==
  /\ TakeCommand /\ Unlocked /\ status[j] = "new" /\ pin = None
  /\ queue' = Insert(queue, RunningOffset(queue, running), j)
  /\ sendNow' = sendNow \cup {j}
  /\ status' = [status EXCEPT ![j] = "waiting"]
  /\ UNCHANGED <<running, held, version, notes, suppressed, rewindable, committed, pin,
                 interjections, tasks, events, completions, pc, cancel, promoter, terminals, started,
                 aimed>>

QueueInterjection(j) ==
  /\ TakeCommand /\ Unlocked /\ status[j] = "new" /\ pin = None
  /\ queue' = Insert(queue, RunningOffset(queue, running), j)
  /\ sendNow' = sendNow \cup {j}
  /\ status' = [status EXCEPT ![j] = "waiting"]
  /\ pc' = "start"
  /\ UNCHANGED <<running, held, version, notes, suppressed, rewindable, committed, pin,
                 interjections, tasks, events, completions, cancel, promoter, terminals, started,
                 aimed>>

-----------------------------------------------------------------------------
(* Queue edits by clients.  A command whose guard fails (row drained, stale *)
(* version, other owner, running row) only rebroadcasts, a stuttering step, *)
(* except that of send-now (InterjectMissed).                               *)

\* Mutant: the running turn's row passes for a queued one.
RowOrRunning(p) == p \in Elems(queue)

\* A queued row of a client: has queue metadata and is not the running turn.
Row(p) == p \in Elems(queue) /\ p # running

ClientCommand ==
  /\ TakeCommand /\ Unlocked
  /\ UNCHANGED <<running, notes, suppressed, rewindable, committed, pin, interjections,
                 tasks, events, completions, cancel, promoter, terminals, started, aimed>>

\* handle_remove_queued_prompt.
RemoveQueuedPrompt(p) ==
  /\ ClientCommand /\ Row(p)
  /\ queue' = Without(queue, {p})
  /\ status' = [status EXCEPT ![p] = "removed"]
  /\ UNCHANGED <<sendNow, held, version, pc>>

\* handle_clear_queue: one client's rows, or every row when no owner is given.
ClearQueue(o) ==
  LET cleared == {p \in Prompts : Row(p) /\ (o = None \/ Owner[p] = o)} IN
  /\ ClientCommand
  /\ queue' = Without(queue, cleared)
  /\ status' = Resolve(cleared, "removed")
  /\ UNCHANGED <<sendNow, held, version, pc>>

\* handle_reorder_queue.
ReorderQueue(order) ==
  /\ ClientCommand
  /\ queue' = Reorder(queue, {p \in Prompts : Row(p)}, order)
  /\ UNCHANGED <<sendNow, held, version, pc, status>>

\* Mutant: the edit does not look at what is running.
EditRunningPromptToo(p) ==
  /\ ClientCommand /\ p \in Elems(queue) /\ version[p] < MaxEdits
  /\ version' = [version EXCEPT ![p] = @ + 1]
  /\ held' = held \ {p}
  /\ UNCHANGED <<queue, sendNow, pc, status>>

\* handle_edit_queued_prompt: last write wins, and the edit ends the hold.
EditQueuedPrompt(p) ==
  /\ ClientCommand /\ Row(p) /\ version[p] < MaxEdits
  /\ version' = [version EXCEPT ![p] = @ + 1]
  /\ held' = held \ {p}
  /\ UNCHANGED <<queue, sendNow, pc, status>>

\* HoldCombineEdit and ReleaseCombineEdit.
HoldCombineEdit(p) ==
  /\ ClientCommand /\ status[p] # "new"
  /\ held' = held \cup {p}
  /\ UNCHANGED <<queue, sendNow, version, pc, status>>

ReleaseCombineEdit(p) ==
  /\ ClientCommand
  /\ held' = held \ {p}
  /\ UNCHANGED <<queue, sendNow, version, pc, status>>

\* handle_interject_queued_prompt: the row, edited or not, moves behind the running
\* front and the earlier send-now rows, and may cancel the running turn.
InterjectQueuedPrompt(p) ==
  \E edited, goal \in BOOLEAN :
    LET q == Without(queue, {p}) IN
    /\ ClientCommand /\ Row(p)
    /\ edited => version[p] < MaxEdits
    /\ version' = IF edited THEN [version EXCEPT ![p] = @ + 1] ELSE version
    /\ queue' = Insert(q, SendNowIndex(q, running, sendNow), p)
    /\ sendNow' = sendNow \cup {p}
    /\ pc' = IF SendNowCancels(queue, goal) THEN "sendnow" ELSE "start"
    /\ UNCHANGED <<held, status>>

\* The same command for a row that is gone or running, or not at this version or of
\* this owner, changes no row, and the loop still calls maybe_start_running_task.
InterjectMissed(p) ==
  /\ ClientCommand /\ status[p] # "new"
  /\ pc' = "start"
  /\ UNCHANGED <<queue, sendNow, held, version, status>>

-----------------------------------------------------------------------------
(* Turn completion (the completion arm of the loop).                       *)

\* Mutant: the front is popped whatever completed.
HandleCompletionPopsFront ==
  /\ pc = "ready" /\ completions # <<>> /\ Unlocked
  /\ LET t == Head(completions) IN
     /\ pin' = IF pin = t THEN None ELSE pin
     /\ queue' = IF queue # <<>> THEN Tail(queue) ELSE queue
     /\ status' = [status EXCEPT ![t] = "ok"]
     /\ running' = IF running = t THEN None ELSE running
     /\ terminals' = [terminals EXCEPT ![t] = @ + 1]
  /\ completions' = Tail(completions)
  /\ pc' = "turnend"
  /\ UNCHANGED <<sendNow, held, version, notes, suppressed, rewindable, committed,
                 interjections, events, tasks, cancel, promoter, started, aimed>>

\* handle_completion: pops and answers the front only when it is the completed
\* prompt; a stale completion must not disturb a turn promoted since.
HandleCompletion ==
  /\ pc = "ready" /\ completions # <<>> /\ Unlocked
  /\ LET t     == Head(completions)
         owned == queue # <<>> /\ Head(queue) = t
     IN  /\ pin' = IF pin = t THEN None ELSE pin
         /\ queue' = IF owned THEN Tail(queue) ELSE queue
         /\ status' = IF owned THEN [status EXCEPT ![t] = "ok"] ELSE status
         /\ running' = IF running = t \/ owned THEN None ELSE running
         /\ terminals' = IF owned THEN [terminals EXCEPT ![t] = @ + 1] ELSE terminals
  /\ completions' = Tail(completions)
  /\ pc' = "turnend"
  /\ UNCHANGED <<sendNow, held, version, notes, suppressed, rewindable, committed,
                 interjections, events, tasks, cancel, promoter, started, aimed>>

\* flush_stranded_interjections.
Flushed(q) == InsertAll(q, RunningOffset(q, running), interjections)

\* The monitor events that missed the turn become notifications; handle_turn_end may
\* queue a goal continuation (never a second one); then the interjections that missed
\* the turn's last drain become prompts.
TurnEnd ==
  /\ pc = "turnend" /\ Unlocked
  /\ Defer(events) /\ events' = <<>>
  /\ \/ /\ queue' = Flushed(queue)
        /\ status' = Deferred(Elems(events), events)
     \/ \E n \in Nudges :
          /\ status[n] = "new" /\ Elems(queue) \cap Nudges = {}
          /\ queue' = Flushed(Append(queue, n))
          /\ status' = [Deferred(Elems(events), events) EXCEPT ![n] = "waiting"]
  /\ sendNow' = sendNow \cup Elems(interjections)
  /\ interjections' = <<>>
  /\ pc' = "startdrain"
  /\ UNCHANGED <<running, held, version, suppressed, rewindable, committed, pin, tasks,
                 completions, cancel, promoter, terminals, started, aimed>>

-----------------------------------------------------------------------------
(* Cancellation.                                                           *)

\* Mutant: a task that has not reached its turn scope is not aborted.
AbortLiveOnly(x) == [t \in Ids |-> IF t = x /\ tasks[t] = "live" THEN "over" ELSE tasks[t]]

\* AgentTask::abort, a no-op on a finished task.
Abort(x) == [t \in Ids |-> IF t = x /\ Alive(t) THEN "over" ELSE tasks[t]]

CancelLocals(trigger, rewind, kill) ==
  [NoCancel EXCEPT !.trigger = trigger, !.rewind = rewind, !.kill = kill, !.pinned = pin]

\* Mutant: the buffer is converted but not emptied.
FlushForSendNowKeeps ==
  /\ pc = "sendnow" /\ Unlocked
  /\ queue' = Flushed(queue)
  /\ sendNow' = sendNow \cup Elems(interjections)
  /\ cancel' = CancelLocals("send_now", FALSE, FALSE)
  /\ pc' = "cancel"
  /\ UNCHANGED <<running, held, version, notes, suppressed, rewindable, committed, pin, tasks,
                 interjections, events, completions, promoter, historyVars>>

\* cancel_turn_for_send_now: flush (not clear) the buffered interjections, then
\* enter cancel_running_task with the SendNow trigger.
FlushForSendNow ==
  /\ pc = "sendnow" /\ Unlocked
  /\ queue' = Flushed(queue)
  /\ sendNow' = sendNow \cup Elems(interjections)
  /\ interjections' = <<>>
  /\ cancel' = CancelLocals("send_now", FALSE, FALSE)
  /\ pc' = "cancel"
  /\ UNCHANGED <<running, held, version, notes, suppressed, rewindable, committed, pin, tasks,
                 events, completions, promoter, historyVars>>

\* SessionCommand::Cancel: clear (not flush) the interjections.  Ctrl+C raises the
\* suppression barrier; cancel_subagents (`early`) aborts the turn at once.
CancelCommand(o) ==
  /\ TakeCommand
  /\ o.early \/ o.trigger = "ctrl_c" => Unlocked
  /\ interjections' = <<>>
  /\ status' = Resolve(Elems(interjections), "cleared")
  /\ suppressed' = (suppressed \/ o.trigger = "ctrl_c")
  /\ tasks' = IF o.early THEN Abort(running) ELSE tasks
  /\ cancel' = CancelLocals(o.trigger, o.rewind, o.kill)
  /\ pc' = "cancel"
  /\ UNCHANGED <<queue, running, sendNow, held, version, notes, rewindable, committed, pin,
                 events, completions, promoter, terminals, started, aimed>>

\* The Ctrl+C barrier takes the state mutex with try_lock().expect(..).
CtrlCPanic(o) ==
  /\ TakeCommand /\ o.trigger = "ctrl_c" /\ ~Unlocked
  /\ interjections' = <<>>
  /\ status' = Resolve(Elems(interjections), "cleared")
  /\ pc' = "panicked"
  /\ UNCHANGED <<lockVars, pin, tasks, events, completions, cancel, promoter, terminals, started, aimed>>

\* The lock section of cancel_running_task sweeps the monitor buffer, then has three
\* outcomes.  A pristine user front is taken back: popped, its task aborted, the suppression lifted.
Rewinds == cancel.rewind /\ rewindable /\ queue # <<>> /\ Head(queue) \in Prompts

CancelRewind ==
  /\ pc = "cancel" /\ Unlocked /\ Rewinds
  /\ tasks' = Abort(running)
  /\ running' = None /\ suppressed' = FALSE /\ rewindable' = FALSE
  /\ queue' = Tail(queue)
  /\ Defer(events) /\ events' = <<>>
  /\ status' = Deferred(Elems(events), events)
  /\ cancel' = [cancel EXCEPT !.popped = Head(queue)]
  /\ pc' = "finish"
  /\ UNCHANGED <<sendNow, held, version, committed, pin, interjections, completions, promoter,
                 terminals, started, aimed>>

\* Mutant: only the running prompt is answered.
CancelAllAnswersOne ==
  /\ pc = "cancel" /\ Unlocked /\ ~Rewinds /\ cancel.kill
  /\ cancel' = [cancel EXCEPT !.victim = running, !.doomed = Elems(queue) \cap {running}]
  /\ running' = None /\ queue' = <<>> /\ notes' = <<>> /\ events' = <<>>
  /\ status' = Resolve(Elems(notes) \cup Elems(events), "dropped")
  /\ pc' = "abort"
  /\ UNCHANGED <<sendNow, held, version, suppressed, rewindable, committed, pin, interjections,
                 tasks, completions, promoter, terminals, started, aimed>>

\* Hard teardown: the whole queue and the notifications go.
CancelAll ==
  /\ pc = "cancel" /\ Unlocked /\ ~Rewinds /\ cancel.kill
  /\ cancel' = [cancel EXCEPT !.victim = running, !.doomed = Elems(queue)]
  /\ running' = None /\ queue' = <<>> /\ notes' = <<>> /\ events' = <<>>
  /\ status' = Resolve(Elems(notes) \cup Elems(events), "dropped")
  /\ pc' = "abort"
  /\ UNCHANGED <<sendNow, held, version, suppressed, rewindable, committed, pin, interjections,
                 tasks, completions, promoter, terminals, started, aimed>>

\* Otherwise the front is cancelled, whether or not its task is alive; Ctrl+C also
\* takes the queued wakes out, leaving the task wakes' fallbacks as notifications.
CancelFront ==
  /\ pc = "cancel" /\ Unlocked /\ ~Rewinds /\ ~cancel.kill
  /\ LET front == IF queue = <<>> THEN {} ELSE {Head(queue)}
         wakes == IF cancel.trigger = "ctrl_c"
                  THEN (Elems(queue) \cap (Wakes \cup Workflows)) \ front ELSE {}
         fallbacks == Retain(queue, wakes \cap Wakes)
     IN  /\ cancel' = [cancel EXCEPT !.victim = running, !.doomed = front]
         /\ queue' = Without(queue, front \cup wakes)
         /\ Defer(events \o fallbacks)
         /\ status' = [x \in All |->
              IF x \in wakes \cap Workflows THEN "removed"
              ELSE Deferred(Elems(events) \cup (wakes \cap Wakes), events \o fallbacks)[x]]
  /\ running' = None /\ events' = <<>>
  /\ pc' = "abort"
  /\ UNCHANGED <<sendNow, held, version, suppressed, rewindable, committed, pin, interjections,
                 tasks, completions, promoter, terminals, started, aimed>>

\* Mutant: the handle is dropped without aborting the task.
CancelDetaches ==
  /\ pc = "abort"
  /\ pc' = "finish"
  /\ UNCHANGED <<lockVars, pin, interjections, tasks, events, completions, cancel, promoter,
                 historyVars>>

\* Only after further awaits is the turn's task aborted.
CancelAbort ==
  /\ pc = "abort"
  /\ tasks' = Abort(cancel.victim)
  /\ pc' = "finish"
  /\ UNCHANGED <<lockVars, pin, interjections, events, completions, cancel, promoter, historyVars>>

\* Mutant: the terminal follows the pin alone.
CancelledPin == cancel.pinned

\* Mutant: the slot is read again after the awaits.
CancelledSlot == IF running # None THEN running
                 ELSE IF cancel.victim # None THEN cancel.victim ELSE cancel.pinned

\* The prompt the terminal is emitted for: the task torn down, else the pin.
CancelledId == IF cancel.victim # None THEN cancel.victim ELSE cancel.pinned

\* The pin is cleared, the durable terminal emitted, the removed prompts answered.
\* A send-now lifts the suppression; only other triggers than Ctrl+C and send-now
\* go on to the idle drain.
CancelFinish ==
  /\ pc = "finish"
  /\ cancel.trigger = "send_now" => Unlocked
  /\ pin' = None
  /\ terminals' = [x \in Ids |-> IF x = CancelledId /\ cancel.popped = None
                                 THEN terminals[x] + 1 ELSE terminals[x]]
  /\ status' = [x \in All |-> IF x = cancel.popped THEN "rewound"
                              ELSE IF x \in cancel.doomed THEN "cancelled" ELSE status[x]]
  /\ suppressed' = (suppressed /\ cancel.trigger # "send_now")
  /\ pc' = CASE cancel.trigger = "none" -> "startdrain"
             [] cancel.trigger \in {"ctrl_c", "send_now"} -> "start"
             [] cancel.trigger = "shutdown" -> "closing"
  /\ cancel' = NoCancel
  /\ UNCHANGED <<queue, running, sendNow, held, version, notes, rewindable, committed,
                 interjections, tasks, events, completions, promoter, started, aimed>>

-----------------------------------------------------------------------------
(* Shutdown.                                                               *)

ShutdownCommand(kind) ==
  /\ TakeCommand
  /\ IF kind = "cancel"
     THEN /\ Unlocked
          /\ tasks' = Abort(running)
          /\ cancel' = CancelLocals("shutdown", FALSE, TRUE)
          /\ pc' = "cancel"
     ELSE pc' = "closing" /\ UNCHANGED <<tasks, cancel>>
  /\ UNCHANGED <<lockVars, pin, interjections, events, completions, promoter, historyVars>>

\* drop_pending_synthetic_items; then the loop returns.
CloseSession ==
  /\ pc = "closing" /\ Unlocked
  /\ queue' = Without(queue, Synthetic)
  /\ notes' = <<>>
  /\ status' = Resolve((Elems(queue) \cap Synthetic) \cup Elems(notes), "dropped")
  /\ pc' = "closed"
  /\ UNCHANGED <<running, sendNow, held, version, suppressed, rewindable, committed, pin,
                 interjections, tasks, events, completions, cancel, promoter, terminals, started,
                 aimed>>

-----------------------------------------------------------------------------
(* The turn task of prompt t (run_task / handle_prompt).  The sampling and  *)
(* tool loop itself is abstracted to when it touches the shared state.      *)

\* A user turn takes the deferred completions into its context, with the monitor
\* events of their tasks; the events of tasks still going stay notifications.
TurnConsumeDeferred(t) ==
  LET done     == Elems(Pending) \ Monitors
      consumed == done \cup EventsOf(done)
  IN
  /\ tasks[t] = "spawned"
  /\ tasks' = [tasks EXCEPT ![t] = "intake"]
  /\ IF t \in User
     THEN /\ Unlocked
          /\ notes' = Without(Pending, consumed) /\ events' = <<>>
          /\ status' = Taken(consumed, "reported")
     ELSE UNCHANGED <<notes, events, status>>
  /\ UNCHANGED <<queue, running, sendNow, held, version, suppressed, rewindable, committed, pin,
                 interjections, completions, pc, cancel, promoter, terminals, started, aimed>>

TurnKeeps ==
  UNCHANGED <<running, sendNow, held, version, suppressed, events, completions, pc, cancel, promoter,
              terminals, started, aimed>>

\* mark_front_message_committed sets the one flag of the session.  The message may
\* also fail to be acknowledged, and the turn goes on uncommitted.
TurnCommit(t) ==
  /\ tasks[t] = "intake" /\ Unlocked
  /\ tasks' = [tasks EXCEPT ![t] = "live"]
  /\ committed' \in {committed, TRUE}
  /\ TurnKeeps /\ UNCHANGED <<queue, notes, rewindable, pin, interjections, status>>

\* A slash command answered by the host commits and returns before the turn scope.
TurnHostCommand(t) ==
  /\ tasks[t] = "spawned" /\ t \in Prompts /\ Unlocked
  /\ tasks' = [tasks EXCEPT ![t] = "ending"]
  /\ committed' = TRUE
  /\ TurnKeeps /\ UNCHANGED <<queue, notes, rewindable, pin, interjections, status>>

\* An error before the turn scope opens ends the turn with the pin still set.
TurnFail(t) ==
  /\ tasks[t] \in {"spawned", "intake"}
  /\ tasks' = [tasks EXCEPT ![t] = "ending"]
  /\ TurnKeeps /\ UNCHANGED <<queue, notes, rewindable, committed, pin, interjections, status>>

\* close_rewind_window, on the first event the turn sends out.
TurnEmit(t) ==
  /\ tasks[t] \in {"spawned", "intake", "live"} /\ rewindable /\ Unlocked
  /\ rewindable' = FALSE
  /\ TurnKeeps /\ UNCHANGED <<queue, notes, committed, pin, interjections, tasks, status>>

\* drain_pending_interjections, between model calls.
TurnDrainInterjections(t) ==
  /\ tasks[t] = "live" /\ interjections # <<>>
  /\ interjections' = <<>>
  /\ status' = Resolve(Elems(interjections), "interjected")
  /\ TurnKeeps /\ UNCHANGED <<queue, notes, rewindable, committed, pin, tasks>>

\* inject_pending_monitor_events, between model calls.
TurnInjectMonitorEvents(t) ==
  /\ tasks[t] = "live" /\ events # <<>>
  /\ events' = <<>>
  /\ status' = Resolve(Elems(events), "reported")
  /\ UNCHANGED <<lockVars, pin, interjections, tasks, completions, pc, cancel, promoter,
                 terminals, started, aimed>>

\* drop_pending_items_for_consumed_completions: the model read the result of w.  The
\* notified events of the task go too; those still in the monitor buffer do not.
TurnConsumeCompletion(t, w) ==
  LET gone == Swept(queue, running, Completion \cap {w})
      read == Elems(notes) \cap ({w} \cup EventsOf({w}))
  IN
  /\ tasks[t] = "live" /\ Unlocked
  /\ gone \cup read # {}
  /\ queue' = Without(queue, gone)
  /\ notes' = Without(notes, read)
  /\ status' = [x \in All |-> IF x \in read \cap {w} THEN "reported"
                              ELSE IF x \in gone \cup read THEN "dropped" ELSE status[x]]
  /\ TurnKeeps /\ UNCHANGED <<rewindable, committed, pin, interjections, tasks>>

\* The turn scope guard drops: the pin is cleared if it is still this turn's.
TurnCloseScope(t) ==
  /\ tasks[t] = "live"
  /\ tasks' = [tasks EXCEPT ![t] = "ending"]
  /\ pin' = IF pin = t THEN None ELSE pin
  /\ TurnKeeps /\ UNCHANGED <<queue, notes, rewindable, committed, interjections, status>>

\* run_task sends the result to the actor loop.
TurnSendCompletion(t) ==
  /\ tasks[t] = "ending"
  /\ tasks' = [tasks EXCEPT ![t] = "over"]
  /\ completions' = Append(completions, t)
  /\ UNCHANGED <<lockVars, pin, interjections, events, pc, cancel, promoter, historyVars>>

-----------------------------------------------------------------------------
(* Promoters.                                                              *)

\* start_resume_turn: queue_input of a synthetic prompt from outside the loop.
PlanResumeQueue(r) ==
  /\ r \in PlanResumes /\ promoter[r] = "init" /\ Unlocked
  /\ PushBack(r)
  /\ promoter' = [promoter EXCEPT ![r] = "queued"]
  /\ UNCHANGED <<running, sendNow, held, version, notes, suppressed, rewindable, committed, pin,
                 interjections, tasks, events, completions, pc, cancel, terminals, started, aimed>>

\* maybe_start_running_task from outside the loop: the mutex stays held over the
\* update_resource await between pinning the front and arming running_task.
PromoterBegin(r) ==
  /\ promoter[r] = "queued" /\ Unlocked
  /\ \/ /\ running # None \/ queue = <<>>
        /\ promoter' = [promoter EXCEPT ![r] = "done"]
        /\ UNCHANGED <<lockVars, pin, tasks, historyVars>>
     \/ /\ running = None /\ queue # <<>>
        /\ \E stale \in SUBSET Workflows :
             LET q == FreshQueue(stale) IN
             IF q = <<>>
             THEN /\ NothingFresh(stale)
                  /\ promoter' = [promoter EXCEPT ![r] = "done"]
             ELSE /\ Promote(q)
                  /\ status' = [x \in All |-> IF x \in StaleFronts(stale) THEN "removed"
                                      ELSE IF x \in Folded(q) THEN "merged" ELSE status[x]]
                  /\ promoter' = [promoter EXCEPT ![r] = "holding"]
                  /\ UNCHANGED <<running, version, notes, tasks, terminals, aimed>>
  /\ UNCHANGED <<interjections, events, completions, pc, cancel>>

PromoterSpawn(r) ==
  /\ promoter[r] = "holding"
  /\ Spawn(Head(queue))
  /\ promoter' = [promoter EXCEPT ![r] = "done"]
  /\ UNCHANGED <<queue, sendNow, held, version, notes, suppressed, rewindable, committed, pin,
                 interjections, events, completions, pc, cancel, historyVars>>

-----------------------------------------------------------------------------
(* The specification.                                                      *)

\* The orders a client can ask for.
Orders == {s \in UNION {[1..n -> Prompts] : n \in 1..Cardinality(Prompts)} : Distinct(s)}

Command ==
  \/ \E p \in Prompts : \/ SubmitPrompt(p) \/ RemoveQueuedPrompt(p)
                        \/ EditQueuedPrompt(p) \/ InterjectQueuedPrompt(p)
                        \/ InterjectMissed(p)
  \/ \E p \in Editable : HoldCombineEdit(p) \/ ReleaseCombineEdit(p)
  \/ \E o \in Clients \cup {None} : ClearQueue(o)
  \/ \E s \in Orders : ReorderQueue(s)
  \/ \E w \in Wakes : AdmitTaskWake(w)
  \/ \E x \in SubWakes \cup Crons \cup Workflows \cup Nudges : QueueSynthetic(x)
  \/ \E n \in Notices : InjectNotification(n)
  \/ \E m \in Monitors : BufferMonitorEvent(m)
  \/ \E w \in Wakes : DropMonitorNotifications(w)
  \/ \E j \in Interjections : BufferInterjection(j) \/ QueueInterjection(j)
  \/ \E o \in Cancels : CancelCommand(o) \/ CtrlCPanic(o)
  \/ \E k \in Shutdowns : ShutdownCommand(k)

\* The steps that carry a handler on to its end.
ActorStep ==
  \/ HandleCompletion \/ TurnEnd \/ MaybeStartRunningTask \/ MaybeDrainNotifications
  \/ FlushForSendNow \/ CancelRewind \/ CancelAll \/ CancelFront \/ CancelAbort
  \/ CancelFinish \/ CloseSession

\* The steps that carry a turn on to its end.
TurnStep(t) ==
  \/ TurnConsumeDeferred(t) \/ TurnCommit(t) \/ TurnHostCommand(t) \/ TurnFail(t)
  \/ TurnCloseScope(t) \/ TurnSendCompletion(t)

TurnSideEffect(t) ==
  \/ TurnEmit(t) \/ TurnDrainInterjections(t) \/ TurnInjectMonitorEvents(t)
  \/ \E w \in Completion \cup (Notices \ Monitors) : TurnConsumeCompletion(t, w)

PromoterStep(r) == PromoterBegin(r) \/ PromoterSpawn(r)

\* After the loop returned (or panicked) the system may be at rest.
Halted == pc \in {"closed", "panicked"} /\ UNCHANGED vars

Next ==
  \/ Command
  \/ ActorStep
  \/ \E t \in Ids : TurnStep(t) \/ TurnSideEffect(t)
  \/ \E r \in Promoters : PlanResumeQueue(r) \/ PromoterStep(r)
  \/ Halted

\* The loop runs a handler to its end, a spawned turn ends (a model call times out when
\* its stream idles; that the tools and the model stop is assumed), a spawned promoter
\* gets scheduled.  No command is ever promised.
Fairness ==
  /\ WF_vars(ActorStep)
  /\ \A t \in Ids : WF_vars(TurnStep(t))
  /\ \A r \in Promoters : WF_vars(PromoterStep(r))

Spec == Init /\ [][Next]_vars /\ Fairness

-----------------------------------------------------------------------------
(* Properties.                                                             *)

\* The types of State, of the actor's locals and of the history variables, and of the
\* monitor buffer.
StateTypeOK ==
  /\ queue \in Seq(Ids)
  /\ running \in Ids \cup {None}
  /\ sendNow \subseteq Ids
  /\ held \subseteq Prompts
  /\ version \in [Prompts -> 0..MaxEdits]
  /\ notes \in Seq(Wakes \cup Notices) /\ Len(notes) <= MaxNotes
  /\ suppressed \in BOOLEAN /\ rewindable \in BOOLEAN /\ committed \in BOOLEAN
  /\ pin \in Ids \cup {None}
  /\ interjections \in Seq(Interjections)
  /\ tasks \in [Ids -> TaskStates]
  /\ completions \in Seq(Ids)
  /\ pc \in Places
  /\ cancel \in [trigger : Triggers, rewind : BOOLEAN, kill : BOOLEAN,
                 pinned : Ids \cup {None}, victim : Ids \cup {None},
                 popped : Ids \cup {None}, doomed : SUBSET Ids]
  /\ promoter \in [Promoters -> {"init", "queued", "holding", "done"}]
  /\ status \in [All -> Statuses]
  /\ terminals \in [Ids -> Nat]
  /\ started \in [Prompts -> 0..MaxEdits]
  /\ aimed \in [Interjections -> Ids \cup {None}]

EventTypeOK == events \in Seq(Monitors) /\ Len(events) <= MaxEvents

TypeOK == StateTypeOK /\ EventTypeOK

\* While a turn runs, its row stays at the front of the queue, whatever sweeps,
\* removals, reorders, send-now inserts, flushes and stale completions do: the
\* invariant that cancel_running_task and handle_completion pop by.
FrontIsRunning ==
  running # None /\ pc # "closed" => queue # <<>> /\ Head(queue) = running

\* A message is in one place: no prompt id occupies two rows, and none is both
\* queued and buffered as an interjection (it would reach the model twice).
OnePlace ==
  /\ Distinct(queue) /\ Distinct(interjections)
  /\ Elems(queue) \cap Elems(interjections) = {}
  /\ (Elems(queue) \cup Elems(interjections)) \cap (cancel.doomed \cup {cancel.popped}) = {}

\* A prompt is unanswered exactly as long as the actor still holds it: in the queue,
\* in the interjection buffer, or in the locals of a cancel.  No handler drops a
\* row without resolving it or resolves a row it keeps.
UnansweredIsHeld ==
  \A x \in Ids : status[x] = "waiting" <=>
      \/ x \in Elems(queue) \cup Elems(interjections)
      \/ x \in cancel.doomed \/ x = cancel.popped

\* No sweep drops a user's message unanswered.
UserPromptNeverDropped == \A x \in User : status[x] # "dropped"

\* The same for every prompt a client awaits.
AwaitedPromptNeverDropped == \A x \in Awaited : status[x] # "dropped"

\* A turn that ran and was answered has exactly one durable TurnCompleted, and no
\* other prompt has one: cancels in the window after the pin is cleared, stale
\* completions and the pin fallback included.
TerminalPerTurn ==
  \A x \in Ids : terminals[x] =
      IF status[x] \in {"ok", "cancelled"} /\ tasks[x] # "none" THEN 1 ELSE 0

\* Two turn tasks never touch the conversation at the same time.
OneLiveTurn ==
  \A t, u \in Ids : Alive(t) /\ Alive(u) => t = u

\* Whoever starts turns: a second live task is never more than the victim that a cancel
\* has taken out of the slot under the lock and is about to abort.
OverlapIsVictim ==
  \A t \in Ids : Alive(t) => t = running \/ (pc = "abort" /\ t = cancel.victim)

\* A send-now never cancels a turn whose message the model has not seen.
SendNowSparesUncommitted ==
  /\ running # None
  /\ pc = "sendnow" \/ (pc = "cancel" /\ cancel.trigger = "send_now")
  => tasks[running] \notin {"spawned", "intake"}

\* After Ctrl+C no task wake, workflow wake or notification turn is queued or running
\* until the user re-engages.
QuietAfterCtrlC ==
  suppressed /\ pc # "cancel" =>
     (Elems(queue) \cup {running}) \cap (Wakes \cup Workflows \cup Drains) = {}

\* A queued prompt never waits for a completion that will not come: when the loop is
\* idle and no promoter is on its way, a non-empty queue has a running turn.
NoIdleBacklog ==
  /\ pc = "ready" /\ running = None
  /\ \A r \in Promoters : promoter[r] \in {"init", "done"}
  => queue = <<>>

\* An interjection never strands in the buffer: between handlers it has a turn (being)
\* started that will drain it or whose end flushes it.
NoStrandedInterjection ==
  pc = "ready" /\ interjections # <<>> => running # None \/ ~Unlocked

\* The flush at a turn's end only sees interjections aimed at the turn that just
\* completed, never those of a live turn.
FlushSeesCompletedTurn ==
  pc = "turnend" =>
     \A j \in Elems(interjections) : /\ tasks[aimed[j]] = "over"
                                     /\ status[aimed[j]] = "ok"

\* The row a turn was started from is never edited under it.
RunningTextFixed ==
  \A p \in Prompts : p \in Elems(queue) /\ (p = running \/ (~Unlocked /\ p = pin))
                     => version[p] = started[p]

\* A deferred completion stays buffered until it is reported to the model, read by
\* it, pushed out by the cap or dropped with the session.
DeferredIsBuffered == \A x \in All : status[x] = "deferred" <=> x \in Elems(notes)

\* A monitor event stays in the monitor buffer until a turn injects it, a sweep makes it
\* a notification, newer events push it out or its task's completion supersedes it: no
\* end, abort or early failure of the turn it was buffered for loses it.
HeldIsBuffered == \A m \in Notices : status[m] = "held" <=> m \in Elems(events)

\* An idle session that is not suppressed has no undelivered notification, and no
\* monitor event waits in the buffer of a turn that is gone.
IdleIsDrained ==
  /\ pc = "ready" /\ completions = <<>> /\ IdleForInjection
  => notes = <<>> /\ events = <<>>

\* A row under a composer edit is never folded into another turn.
HeldRowNotFolded ==
  [][\A p \in Prompts : status[p] = "waiting" /\ status'[p] = "merged" => p \notin held]_vars

\* Ctrl+C leaves the notifications suppressed.
CtrlCLeavesSuppressed ==
  [][pc = "finish" /\ cancel.trigger = "ctrl_c" => suppressed']_vars

\* The Ctrl+C barrier finds the state mutex free.
StateIsActorOwned == pc # "panicked"

\* Every prompt of a client is answered (and not by being dropped), unless the
\* session closes first.
EveryPromptAnswered ==
  \A p \in Prompts :
     status[p] = "waiting" ~> (status[p] \notin {"waiting", "dropped"} \/ pc = "closed")

\* Every interjection is merged, run as a prompt or cleared by a cancel.
EveryInterjectionHandled ==
  \A j \in Interjections : status[j] = "waiting" ~> (status[j] # "waiting" \/ pc = "closed")

-----------------------------------------------------------------------------
(* The promise to the clients.  A message runs from the spawn of its turn   *)
(* task until its answer; a task that outlives its answer still runs.       *)

TurnPhase(x) ==
  IF status[x] = "new" THEN "absent"
  ELSE IF Alive(x) THEN "running"
  ELSE IF status[x] # "waiting" THEN "done"
  ELSE IF tasks[x] = "none" THEN "waiting" ELSE "running"

Service == INSTANCE TurnService WITH Messages <- Ids, phase <- [x \in Ids |-> TurnPhase(x)]

\* Without promoters the actor implements the turn service: one turn at a time,
\* each message at most once, whatever the cancels, flushes and preemptions do.
ImplementsTurnService == Service!Spec

-----------------------------------------------------------------------------
(* The inductive invariant of the proofs.                                  *)

\* A promoter that holds the mutex has a front to start.
HolderHasFront == \A r \in Promoters : promoter[r] = "holding" => queue # <<>>

\* Outside the two last steps of a cancel its locals hold no prompt.
CancelAtRest ==
  pc \notin {"abort", "finish"} => cancel.doomed = {} /\ cancel.popped = None

\* A resumed plan decision is queued once.
PlanResumeIsNew == \A r \in PlanResumes : promoter[r] = "init" => status[r] = "new"

Inv ==
  /\ StateTypeOK /\ OnePlace /\ UnansweredIsHeld /\ DeferredIsBuffered
  /\ FrontIsRunning /\ HolderHasFront /\ CancelAtRest /\ PlanResumeIsNew

\* The books of the monitor buffer.
MonitorInv == EventTypeOK /\ HeldIsBuffered

-----------------------------------------------------------------------------
(* What the promotions keep to, by the actor and from outside the loop.    *)

\* Rows without a running turn: a handler or a promoter is about to start them.
BacklogMoves ==
  running = None /\ queue # <<>> /\ pc \in {"ready", "drain"} =>
     \E r \in Promoters : promoter[r] \in {"queued", "holding"}

OneHolder ==
  \A r, s \in Promoters : promoter[r] = "holding" /\ promoter[s] = "holding" => r = s

\* While the mutex is held across the await no turn runs, and the row to be started
\* is the one whose blocks were cloned.
HolderPromotes ==
  ~Unlocked => /\ running = None /\ pin \in {None, Head(queue)}
               /\ Head(queue) \in Prompts => version[Head(queue)] = started[Head(queue)]

RunningText == running \in Prompts => version[running] = started[running]

\* The pin outlives its turn only inside a cancel.
PinIsCurrent ==
  pin # None => \/ pin = running
                \/ ~Unlocked /\ pin = Head(queue)
                \/ pc \in {"abort", "finish"}

Cancelling == pc \in {"cancel", "abort", "finish"}
Stopped    == pc \in {"closing", "closed", "panicked"}

\* A buffered interjection has a turn, or the handler that empties the buffer runs.
BufferHasTurn ==
  /\ interjections # <<>> => \/ running # None \/ ~Unlocked \/ pc = "turnend" \/ Stopped
                             \/ Cancelling /\ cancel.trigger = "shutdown"
  /\ Cancelling => interjections = <<>> \/ cancel.trigger = "shutdown"

\* A notification turn is the front as soon as it is queued.
DrainInFront ==
  \A d \in Drains \cap Elems(queue) : running = d \/ (pc = "start" /\ Head(queue) = d)

\* QuietAfterCtrlC with the cancels that find the session already quiet.
Quiet ==
  suppressed /\ ~(pc = "cancel" /\ cancel.trigger = "ctrl_c") =>
     (Elems(queue) \cup {running}) \cap (Wakes \cup Workflows \cup Drains) = {}

PromotionInv ==
  /\ BacklogMoves /\ OneHolder /\ HolderPromotes /\ RunningText
  /\ PinIsCurrent /\ BufferHasTurn /\ DrainInFront /\ Quiet

-----------------------------------------------------------------------------
(* The turn tasks, whoever starts them.                                    *)

\* The turn that runs or that a promoter is about to spawn.
CurrentTurn == IF Unlocked THEN running ELSE Head(queue)

\* A prompt has a turn task from its promotion on and never before it is queued.
TaskOfTurn ==
  /\ running # None => tasks[running] # "none"
  /\ \A x \in Ids : status[x] = "new" => tasks[x] = "none"
  /\ \A x \in Ids : tasks[x] # "none" /\ status[x] = "waiting" =>
                      x = running \/ x \in cancel.doomed \/ x = cancel.popped
  /\ \A x \in Elems(completions) : tasks[x] = "over"

\* A cancel emits its terminal for the one prompt it answers that had a turn.
CancelNamesTurn ==
  /\ pc = "cancel" => cancel.pinned \in {None, CurrentTurn}
  /\ pc \in {"abort", "finish"} /\ cancel.popped # None =>
       pc = "finish" /\ cancel.doomed = {}
  /\ pc \in {"abort", "finish"} /\ cancel.popped = None =>
       \A x \in Ids : (x \in cancel.doomed /\ tasks[x] # "none") <=> x = CancelledId

\* Buffered interjections are aimed at the current turn, and only its completion can
\* be on its way.
AimIsCurrent ==
  /\ \A j \in Elems(interjections) : aimed[j] \in Ids
  /\ pc \in {"ready", "start", "startdrain", "drain", "sendnow"} /\ interjections # <<>> =>
       /\ \A j \in Elems(interjections) : aimed[j] = CurrentTurn
       /\ Elems(completions) \subseteq {CurrentTurn}

TaskInv ==
  /\ OverlapIsVictim /\ TaskOfTurn /\ CancelNamesTurn /\ TerminalPerTurn
  /\ AimIsCurrent /\ FlushSeesCompletedTurn

-----------------------------------------------------------------------------
(* Turns when only the loop starts them (Promoters = {}).                  *)

\* Nothing takes the slot that a cancel has emptied before the cancel ends.
SlotStaysEmpty == pc \in {"abort", "finish"} => running = None

\* The commit flag is that of the running turn.
CommitIsRunning == committed /\ running # None => tasks[running] \notin {"spawned", "intake"}

TurnInv == SlotStaysEmpty /\ CommitIsRunning /\ SendNowSparesUncommitted

-----------------------------------------------------------------------------
(* Deliveries when besides every wake is admitted or deferred in time and   *)
(* no Ctrl+C rewinds.                                                       *)

SendingNow == pc = "sendnow" \/ (Cancelling /\ cancel.trigger = "send_now")

\* A send-now has a row to start once the turn is gone.
SendNowHasRow ==
  SendingNow => /\ \E u \in User \cap Elems(queue) : u # running
                /\ pc \in {"sendnow", "cancel"} => running # None
                /\ pc # "sendnow" => ~cancel.rewind /\ ~cancel.kill

CtrlCSuppresses == Cancelling /\ cancel.trigger = "ctrl_c" => suppressed /\ ~cancel.rewind

\* What is buffered has a turn, a suppression or a handler that will drain it.
NotesMove ==
  notes # <<>> => \/ running # None \/ suppressed \/ Cancelling \/ Stopped
                  \/ pc \in {"turnend", "startdrain", "drain"}
                  \/ pc = "start" /\ \E x \in Elems(queue) : x \notin Workflows

EventsMove == events # <<>> => running # None \/ pc \in {"turnend", "cancel"} \/ Stopped

DrainInv == SendNowHasRow /\ CtrlCSuppresses /\ NotesMove /\ EventsMove
=============================================================================
