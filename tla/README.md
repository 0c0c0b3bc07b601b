# Verification of the IntelliHelper agent runtime

This directory holds TLA+ models of the agent runtime of `intellihelper-cli`, the TLC
configurations that check them on small instances, and TLAPS proofs of the central
invariants for instances of every size. Three parts are modelled: the session actor, the
relocation of a session's directory, and the election of the leader process. Paths below are
relative to `src/`; `shell/` stands for `crates/codegen/intellihelper-shell/src/` and `impl/`
for `shell/session/acp_session_impl/`.

## 1. The system

IntelliHelper is a coding agent. A terminal client (the *pager*) or an editor talks the
Agent Client Protocol to a *shell* process; the shell runs one **session actor** per
conversation. The session actor is where concurrency meets user-visible promises: it
accepts prompts, decides what runs next, runs one turn at a time, and must cope with
cancels, interjections, background completions and shutdown arriving in any order. A session
is stored in a directory named after its working directory; when the session moves, the store
*relocates* that directory under a journal that survives crashes. Several clients can share
one shell process, the *leader*, which they elect with a file lock and reach over a socket.

| Component | State it keeps | Operations | Hard behaviour |
|---|---|---|---|
| Prompt queue (`impl/prompt_queue.rs`, `crates/codegen/intellihelper-prompt-queue`) | `State::pending_inputs`, per-row `send_now`, `version`, owner; `combine_edit_holds` | submit, remove, clear, reorder, edit, hold, interject-queued, combine on promote | edits race with promotion; every sweep must spare the running row, which *stays in the queue* until its turn ends |
| Turn start / completion / cancel (`impl/tasks_cancel.rs`, `impl/turn_end.rs`, `impl/notification_drain.rs`) | `running_task`, `current_prompt_id` (the *pin*), `rewindable`, `front_message_committed`, the completion channel | promote, spawn, complete, cancel (Esc, Ctrl+C, send-now, rewind, teardown) | a cancel spans many awaits; completions of cancelled turns arrive late; pin and task slot are cleared at different times |
| Interjections (`impl/interjection.rs`, `crates/common/interjection-core`) | `pending_interjections` | buffer, drain mid-turn, flush into prompts, clear | an interjection can miss its turn's last drain |
| Notifications and wakes (`impl/notification_drain.rs`, `impl/run_loop.rs`, `session/../tools/notification_bridge.rs`) | `pending_notifications` (capped), `notifications_suppressed`, the monitor-event buffer (capped), `is_turn_active` | admit or defer a wake, inject, buffer an event mid-turn, drain when idle, consume in a user turn, drop what a completion supersedes | Ctrl+C must keep the session quiet without losing completions; the bridge gives up after 250 ms; an event is routed by a flag that a cancel clears later |
| Actor loop (`impl/run_loop.rs`) | a `biased` `select!` over completions and commands | one handler at a time | promoters outside the loop also start turns |
| Turn task (`impl/turn.rs`, `impl/tool_calls.rs`) | its place in `handle_prompt` | consume deferred completions, commit the message, drain interjections, consume completions, finish | runs between the awaits of every other process |
| Goal loop, workflow engine, subagents, scheduler | own state machines | produce synthetic prompts | seen by the actor only through the prompts they queue |
| Session relocation (`shell/session/storage/relocation/`) | a journal with a phase, a lease, the source, staged and target directories | stage, publish, commit, roll back, recover, finalise, read a view | any step can fail, a process or the machine can die anywhere, readers take no lease |
| Leader election (`shell/leader/lock.rs`, `shell/leader/`, `shell/agent/app.rs`) | `leader.lock` with its flock, `leader.sock`, the lock's pid and version | connect or spawn, adopt, evict, serve, shut down | several processes; lock and socket are two files removed in two steps |
| Circuit breaker, occurrence journal, auth refresh, sampler, chat state, hub SDK pool | own state machines | see the plan | time, crashes, several processes |
| Pager UI, rendering, voice, telemetry, update, sandbox, MCP, hooks | mostly I/O | | not modelled |

How they interact: clients and background producers send `SessionCommand`s over a channel.
The loop takes one command or one completion at a time. Handlers share `State` with turn
tasks and promoters through one async mutex, and the pin through a second one. A turn task
reports its end over the completion channel. All of it runs on one `LocalSet`, so
interleaving happens only at awaits.

What makes it correct: a message is in one place, runs at most once, is never lost without an
answer and never destroyed by somebody else's cancel; one turn runs at a time; every turn
that ran has exactly one durable `TurnCompleted`; after Ctrl+C nothing starts behind the
user's back, yet no completion and no monitor event is lost; and everything accepted is
eventually answered. A relocated session has exactly one complete home, on disk too, and
recovery settles whatever a crash left. A leader's socket is never taken from it while it
serves.
`PROJECT.json` lists the hazards at the lines where they bite.

## 2. Modules

* `PromptQueue.tla`: the pure queue algorithms (sweep, send-now index, insert, flush,
  combine prefix, reorder, capped push) in closed form, without recursion.
* `QueueLoops.tla`: the loops of the code that those closed forms replace, each as a recursive
  function from the number of rounds to what has been built by then, and a small state machine
  that walks through the inputs. It EXTENDS `PromptQueue`.
* `SessionActor.tla`: the actor, its turn tasks and its promoters, with all properties and
  the inductive invariants (`Inv`, `MonitorInv`, `PromotionInv`, `TaskInv`, `TurnInv`,
  `DrainInv`).
* `TurnService.tla`: the abstract promise: a message is accepted once, runs at most once,
  never beside another, and leaves for good. `SessionActor` implements it through
  `Service`, an instance with a refinement mapping (`TurnPhase`).
* `SessionHome.tla`: the abstract promise of a relocation: one home, which moves from one
  directory to another and is never lost, doubled or taken back.
* `Relocation.tla`: the journalled relocation with its callers, failing steps, crashes and
  power loss, and its inductive invariant. `RelocationView.tla` adds the readers that take no
  lease, with the invariant of a read; it EXTENDS `Relocation`.
* `LeaderElection.tla`: clients and leaders around `leader.lock` and `leader.sock`.
* `MCSessionActor.tla`, `MCRelocation.tla`, `MCLeaderElection.tla`: instances for TLC.
* `PromptQueue_proofs.tla` and `QueueLoops_proofs.tla`; `SessionActor_proofs.tla`,
  `SessionPromotion_proofs.tla` and `SessionTurns_proofs.tla`, each of which EXTENDS the one
  before; `Relocation_proofs.tla` and `RelocationView_proofs.tla`;
  `LeaderElection_proofs.tla`: the theorems.

### How `SessionActor` corresponds to the code

| Variable | Code |
|---|---|
| `queue`, `sendNow`, `version`, `held` | `pending_inputs`, `InputItem::send_now`, `QueueEntryMeta::version`, `combine_edit_holds` |
| `running`, `pin` | `State::running_task` by prompt id, `current_prompt_id` |
| `notes`, `suppressed` | `pending_notifications`, `notifications_suppressed` together with the `task_wake_suppressed` gate |
| `events` | this session's entries of the `MonitorEventBuffer` |
| `rewindable`, `committed` | the `State` flags of these names (`front_message_committed`) |
| `interjections`, `completions` | `pending_interjections`, the completion channel |
| `tasks` | where each turn task is: spawned, intake (before its message is committed), live, ending, over |
| `pc`, `cancel` | where the loop is inside a handler, and the locals of `cancel_running_task` |
| `promoter` | where each spawned caller of `maybe_start_running_task` is; `holding` means it owns the mutex across its await |
| `status`, `terminals`, `started`, `aimed` | history only: how `respond_to` was resolved, emitted `TurnCompleted`s, the version a turn was started from, the turn an interjection was buffered for |

A handler is one action when nothing it does can be observed half done, and a sequence of
actions named by `pc` when other processes can run in between. `cancel_running_task` is the
long one: `CancelCommand` (barrier, early abort), the lock section (`CancelRewind`,
`CancelAll` or `CancelFront`), `CancelAbort` (the task is aborted only after further awaits)
and `CancelFinish` (pin cleared, terminal emitted, prompts answered), then
`MaybeStartRunningTask` and, except after Ctrl+C and send-now, `MaybeDrainNotifications`.

Prompts are model values partitioned by `PromptOrigin` (the code derives the origin from a
prefix of the id). An id is used once. Text, images and metadata of a row are reduced to
membership in `Plain`, `Images`, `Editable` and `Owner`. Nondeterministic inputs stand for
what the actor reads elsewhere: whether a blocking wait or a goal loop is active, which
workflow completions the tracker already reported, whether a goal swallows the drained
notifications, whether an admission is still awaited, whether the chat-state actor
acknowledged the message.

`is_turn_active` is not a variable: it is derived from `tasks`. A turn sets it when it enters
`handle_prompt` and clears it when its scope guard drops, and a cancel clears it at its end, so
it is set while a turn is in `intake` or `live`, may have either value in `spawned` and
`ending`, and may be clear beside a turn that a promoter started. A monitor event is
buffered (`BufferMonitorEvent`) while the flag may be set and injected as a notification while
it may be clear. One session is modelled: in leader mode several sessions share the flag and
the buffer of the process, and that sharing is not modelled.

Simplifications, and why they are sound:

* `flush_stranded_interjections` takes the lock once per entry, and
  `maybe_start_running_task` once to look and once, after reading the configuration, to act.
  Both are one action. An uncontended async lock does not yield, and the second section of
  the promotion re-checks everything the first one looked at except the sampled queue length,
  which is only read to skip a needless configuration read.
* `handle_completion` clears the pin before it takes the lock. Both happen in one action:
  only the loop itself reads the pin, and a promoter sets it only while no turn runs.
* A command whose guard fails (stale version, other owner, drained row) only rebroadcasts:
  it is a stuttering step and has no action. The exception is `InterjectQueuedPrompt`, after
  which the loop calls `maybe_start_running_task` whether or not a row matched:
  `InterjectMissed` is that case.
* The version check of a removal is dropped, so the model allows more removals than the code.
* The actor's own promotion also holds the mutex over an await, but nobody who could run then
  reads what it changes, so it is atomic; the promoters' promotion is not, because the loop can.

### How `Relocation` corresponds to the code

Every durable thing has two values: what a process reads now (the page cache) and what was
last synced. These are the journal (`journal`, `djournal`), the session directory under each
working directory (`home`, `dhome`) and its staging sibling (`stage`, `dstage`). A directory is
absent, whole, or what an interrupted removal leaves: one that still has its summary (`part`) or
has lost it (`stub`). After a power loss an entry that was not synced may be the new one, the
old one or a leftover of the old one. `lease` is the lock file; `pc`, `loc`, `handle`,
`undoing` and `proof` are where each process is and the values its call and its caller hold.

A transaction walks through the journal's phases. Each part that can fail or be interrupted on
its own is one action, with its error path: `Prepare`, `Copy`, `WriteStaged`, `Publish`,
`WritePublished`; `MarkReady`; `CommitSync` to `CommitWrite`; `Rollback` to `RollbackWrite`;
`Finalize`. Recovery is `ListJournals`, `AcquireListed` and `Recover`, by any process.
`MaxTx` caps the leases and transactions of callers, `MaxFaults` the failed steps, crashes and
power losses.

The caller is external: nothing in `src/` but tests calls `stage_and_publish`. Its discipline is
read from the types: a handle dies with its lease, and a caller that began to take a relocation
back does not mark its target ready.

A reader (`RelocationView`) loads the journals, scans the working directories one by one and
then selects a path. It takes no lease, so any step of a relocation can fall between.
`MaxReadFaults` caps the faults up to the end of a read.

### How `LeaderElection` corresponds to the code

The lock file is an inode plus a name, because the code unlinks the name while descriptors on
the inode are still locked. Variables say which inode `leader.lock` names (`path`), which
inode a process has open and flocked (`fd`, `holds`), whose listener `leader.sock` names
(`sock`), whether its server task serves (`srv`) and where every process is in
`connect_or_spawn` or `run_leader`. Deadlines are nondeterministic choices. Versions are a set
`Old` of processes that are to be evicted. `Exit` is an end without `Drop` (SIGTERM, crash). Not modelled: reuse of pids and
`MAX_ZOMBIE_EVICT_ATTEMPTS` (a kill always succeeds), a cancel inside an await of
`connect_or_spawn`, a process that leads twice. The check of `/proc/locks` and the signal that
follows are one step.

## 3. Runs

All runs of the actor use distinct ids and at most two clients. Deadlock is checked in them:
the loop stops only in `closed` or `panicked` (`Halted`). It is not checked in `relocation` and
`single_leader`: a store with no transaction left, and processes that all exited, are at rest.

| Run | Instance | What it shows |
|---|---|---|
| `turns` | 2 prompts, 1 interjection, Esc, Esc with rewind, Ctrl+C with and without `cancel_subagents`; send-now from every state | `OnePlace`, `TerminalPerTurn`, `OneLiveTurn`, `SendNowSparesUncommitted`, `NoStrandedInterjection`, `FlushSeesCompletedTurn`, and the refinement `ImplementsTurnService` |
| `wakes` | 1 prompt, a task wake, a completion notification, a monitor event of each, 1 drain prompt, both caps 1 (3.0 million states) | `TypeOK`, `QuietAfterCtrlC`, `DeferredIsBuffered`, `HeldIsBuffered`, `IdleIsDrained` |
| `queue_edits` | 3 combinable prompts of 2 clients, one with images, one under edit | `FrontIsRunning`, `RunningTextFixed`, `HeldRowNotFolded` |
| `promoters` | 1 prompt, a workflow completion, a goal summary, a resumed plan and the MCP promoter, Ctrl+C and teardown, both shutdowns (2.2 million states) | `FrontIsRunning`, `UnansweredIsHeld`, `NoIdleBacklog`, `QuietAfterCtrlC`, `OverlapIsVictim`, `TerminalPerTurn` |
| `answered` | 1 prompt, 1 interjection, a task wake (in time or late), a subagent completion, Ctrl+C | `UserPromptNeverDropped`, `EveryPromptAnswered`, `EveryInterjectionHandled` |
| `queue_algorithms` | every queue of up to 4 rows with every running row, marked set and buffer of up to 2 | the closed forms of `PromptQueue` equal the loops of the code |
| `relocation` | 3 working directories, 1 process that relocates and recovers, 1 that only recovers, 1 reader; 3 transactions, 2 failures, crashes or power losses (243,068 states) | `ViewTypeOK`, `AuthoritativeIsWhole`, `LocalIsCurrent`, `RefusedOnlyWhenWedged`, `ReaderNotMisled`, `MissedOnlyDuringRelocation`, the refinement `ImplementsSessionHome`, and `RecoverySettles` (liveness) |
| `cron_dropped`, `ctrl_c_rewind`, `barrier_lock`, `commit_flag`, `single_leader` | the smallest instance that shows it | the five disagreements of section 6 |

Bounds. Two queued messages besides a running one are enough for every pairwise race (a
cancel, a flush and a promotion involve the front, the next row and one buffered message);
three rows are used where the order of rows matters. `MaxNotes = 1` puts the notification
buffer at its cap with the first push. `MaxEdits` caps the edits of a row; one edit is enough
to make a version stale. Each id is submitted once, which bounds every counter. `MaxEvents = 1`
does the same for the monitor-event buffer. For `relocation`, three directories let a second
transaction go back to the first source or on to a third place, a third transaction meets what
recovery of the second left, and two faults are a failure followed by a crash of its handling.
Larger instances were checked once and are not part of the project's runs: two relocating
processes with four transactions and three faults (two directories), two faults up to the end of a
read with three directories (`ViewInv`, 3.6 million states; in the run readers see only fault-free
relocations), two drain prompts and caps of 2 in `wakes`, the MCP promoter in the instance of
`turns` (`TaskInv`, 392,863 states). The proofs remove
these bounds for the properties they cover.

Fairness in `answered`: weak fairness of the loop's continuation steps, of each
turn task and of each promoter. The loop awaits only its own handler once it has taken a
command; a spawned local task is polled when it is ready; a model call fails when its stream
idles for longer than its timeout. That a turn finally stops calling tools is an assumption.
Fairness is stated on the disjunction of a process's steps, so it never forces a turn to
take one path rather than another, and no command is ever assumed to arrive.

Fairness in `relocation` (for `RecoverySettles`): weak fairness of a call's steps and of those of
`recover_all`, because a call runs to its end once it is made and the session list is opened again and again,
and strong fairness of `Release`, because a caller makes finitely many calls under one lease and
the lease is dropped with its guard. Crashes, failures and new transactions are never assumed to happen.

## 4. Proofs

`PromptQueue_proofs` proves what each queue operator preserves, for sequences of every
length: types, the set of ids, distinctness, the front row, lengths. The base is
`PosBijection`: numbering the kept indices of a sweep is a bijection, which makes `Retain` a
sequence with the expected rows.

`QueueLoops_proofs` proves that the closed forms are what the code's loops compute, for queues,
buffers and caps of every size. It assumes only `LoopAssumption` (the cap is a natural number and
"no turn" is not a row):

| Theorem | Statement |
|---|---|
| `SweepCorrect` | `Spec => []SweepIsFilter` |
| `ScansCorrect` | `Spec => []ScansMatchLoops` |
| `FlushCorrect` | `Spec => []FlushIsReverseInserts` |
| `ReorderCorrect` | `Spec => []ReorderIsStableSort` |
| `NotesCorrect` | `Spec => []NotesMatchPushes` |

Each loop is a recursive function, that is, a CHOOSE of a function with the loop's equation. Its
lemma (`SweepLoopSweeps`, `ScanLoopCounts`, `FlushLoopInserts`, `PushLoopPushes`) first shows
that the closed form of every prefix of the input satisfies the equation, so such a function
exists, and then that two functions with the equation agree (`SameLoop`), so the one chosen is
the closed form. The induction is over the number of rounds. It is done with a set of rounds in
place of a predicate: a nonempty set of natural numbers has a least element (`LeastElement`, from
the well-foundedness of `<`), which gives `Rounds` and `SameLoop`. `ScanLoop` counts down from
the end of the queue, `FlushLoop` from the end of the buffer. `FlushLoop` looks up the running
front in every round, and `FlushOffset` shows that the insertions do not move it. `ReorderSorts`
rests on the order of kept rows being the order of the queue.

`SessionActor_proofs` proves, from `OriginAssumption` (every id has one origin and is not the
null value) and `ParameterAssumption` (types of the constants) only:

| Theorem | Statement |
|---|---|
| `Invariance` | `Spec => [](Inv /\ MonitorInv)` |
| `TypeCorrectness` | `Spec => []TypeOK` |
| `RunningFront` | `Spec => []FrontIsRunning` |
| `MessageInOnePlace` | `Spec => []OnePlace` |
| `NoMessageLost` | `Spec => []UnansweredIsHeld` |
| `NoNotificationLost` | `Spec => []DeferredIsBuffered` |
| `NoMonitorEventLost` | `Spec => []HeldIsBuffered` |
| `NoUserPromptDropped` | `Spec => []UserPromptNeverDropped` |
| `NoHeldRowFolded` | `Spec => HeldRowNotFolded` |

The properties are not inductive one by one, so they are proved together as `Inv`. "Unanswered
means held" needs "one place": popping a row that occurs twice would answer a prompt still
queued. "One place" in turn needs the books: a submitted id is new, hence nowhere
(`NewIsNowhere`), hence its insertion keeps the queue distinct. The running row can only be
shown to stay in front if sweeps remove distinct rows. Three parts are added:
`HolderHasFront` (a promoter that holds the mutex finds a front to spawn, because nothing else
can change the queue meanwhile), `CancelAtRest` (outside its last two steps a cancel holds no
prompt, so a new cancel overwrites nothing) and `PlanResumeIsNew`. `MonitorInv` (the types of
the monitor-event buffer and `HeldIsBuffered`) is proved jointly with `Inv`: a sweep turns held
events into notifications, and the notification books need to know that those events were
nowhere else. There is one lemma per
action. Actions that change the books go through a few shared lemmas: `BooksStep` (a row
enters), `DepartBooks` (rows leave and are resolved), `PermuteBooks`, `NotesBooks`.
`NoUserPromptDropped` and `NoHeldRowFolded` rest on `UserMessageStep`: except for a promotion,
no action turns a user's status into `dropped` or `merged` (`Calm`), and a promotion folds only
rows that are not held (`PromotionFolds`).

`SessionPromotion_proofs` proves, from the same assumptions and for any set of promoters:

| Theorem | Statement |
|---|---|
| `PromotionInvariance` | `Spec => []PromotionInv` |
| `CtrlCQuiet` | `Spec => []QuietAfterCtrlC` |
| `NoBacklogIdle` | `Spec => []NoIdleBacklog` |
| `RunningTextKept` | `Spec => []RunningTextFixed` |
| `NoInterjectionStranded` | `Spec => []NoStrandedInterjection` |

`PromotionInv` says what holds where a turn is about to start. At most one promoter holds the
mutex, the slot is empty while it does, and the row it cloned is unchanged (`OneHolder`,
`HolderPromotes`, `RunningText`). The pin is the running turn, or the row a holder has pinned,
or belongs to a cancel (`PinIsCurrent`), so a buffered interjection has a turn (`BufferHasTurn`).
A drain prompt is running or next (`DrainInFront`), which is why it cannot be left behind a
Ctrl+C. `Quiet` is the property with the one gap it has inside the lock section of a cancel.

`SessionTurns_proofs` proves, again for any set of promoters:

| Theorem | Statement |
|---|---|
| `TaskInvariance` | `Spec => []TaskInv` |
| `OverlapBounded` | `Spec => []OverlapIsVictim` |
| `OneTerminalPerTurn` | `Spec => []TerminalPerTurn` |
| `FlushAfterCompletion` | `Spec => []FlushSeesCompletedTurn` |

`TaskInv` rests on `OverlapIsVictim`: a task that can still take a step is the running turn's or the
victim a cancel is about to abort. `CurrentTurn` is the turn that runs or that a promoter, which
holds the mutex, is about to spawn. Outside the last steps of a cancel the pin names it, and it is
replaced only when there is none (`CurrentStep`), so a cancel that read the pin under a half-done
promotion still speaks for the right prompt (`CancelNamesTurn`), and an interjection that was
buffered then is that turn's (`AimIsCurrent`). A turn that a promoter starts inside a cancel cannot disturb the
cancel's terminal: its row was queued, so it is not among the rows the cancel has taken. The
completion of a victim that ended before its abort is handled before any command, so no
interjection can be aimed at the new turn while it is on its way.

The same module assumes `Promoters = {}`, that is, only the loop starts turns, for:

| Theorem | Statement |
|---|---|
| `TurnInvariance` | `Spec => []TurnInv` |
| `OneTurnAtATime` | `Spec => []OneLiveTurn` |
| `SendNowSpares` | `Spec => []SendNowSparesUncommitted` |
| `TurnServiceImplemented` | `Spec => ImplementsTurnService` |

The hypothesis is needed: the run `commit_flag` shows a promoter that starts a turn beside one
that a cancel has not aborted yet. A session that resumes no plan and
starts no turn from its MCP initialisation satisfies it. `TurnInv` adds that nothing takes the slot a
cancel has emptied (`SlotStaysEmpty`) and whose the commit flag is (`CommitIsRunning`). The
refinement has one step per action: a start, an end or a departure of `TurnService`, or a stutter.

Its last part proves `IdleDrained`, `Spec => []IdleIsDrained`, if moreover no admission is late and no Ctrl+C rewinds; section 5 says what happens otherwise. The invariant `DrainInv`
says that what is buffered has a turn, a suppression or a handler in progress that will drain it
(`NotesMove`, `EventsMove`), and that a send-now, which skips the drain after its cancel, has a
row to start instead (`SendNowHasRow`).

`Relocation_proofs` proves, for any number of processes, directories, transactions and faults:

| Theorem | Statement |
|---|---|
| `Invariance`, `TypeCorrect` | `Spec => []Inv`, `Spec => []TypeOK` |
| `AuthorityIsSafe` | `Spec => []AuthoritativeIsWhole` |
| `LocalSafe` | `Spec => []LocalIsCurrent` |
| `RecoveryRefusedOnlyWhenWedged` | `Spec => []RefusedOnlyWhenWedged` |
| `Refinement` | `Spec => ImplementsSessionHome` |

The invariant treats the journal as read now and the journal on disk alike. Each pins what
every directory holds, in the cache and on disk (`Consistent`). The two are equal, or two
records of one transaction of which one continues the other (`Continues`), or the directories
are settled. It is needed in this form because a power loss makes the disk record the current
one at any moment, so whatever the code did between a write and its sync must suit both. `CallInv`
adds where each process is inside its call, and `HandleInv` what a live handle may still do.

`RelocationView_proofs` proves of the store with a reader, for as many directories, relocations
and faults during a read:

| Theorem | Statement |
|---|---|
| `ViewInvariance`, `ViewTypeCorrect` | `ViewSpec => []ViewInv`, `ViewSpec => []ViewTypeOK` |
| `ReaderSound` | `ViewSpec => ReaderNotMisled` |
| `ReaderFinds` | `ViewSpec => MissedOnlyDuringRelocation` |
| `ReaderDisturbsNothing` | `ViewSpec => Spec` |

`ViewInv` follows a read that found no journal (`Traced`): as long as at most one transaction
touched the read, there are two directories, the home s at the start and the target d, such that
nothing is anywhere else, and s is scanned or still to be scanned until d takes over. It needs
two facts about the store: directories are still while there is no journal, up to the step that
writes one and from the step that removes one (`HomeStill`), and a record never comes back from
an older transaction with other directories under the nonce of a newer one (`Records`), not even
by a power loss.

`LeaderElection_proofs` proves under `UndroppedSpec`, the behaviours in which no leader runs its
`Drop` (processes may still be killed or crash at any point):

| Theorem | Statement |
|---|---|
| `FlockProtocol` | the lock file keeps one inode, one process holds it, only the holder touches the socket |
| `SingleLeaderWithoutDrop` | `UndroppedSpec => []SingleLeader` |

Together with the run `single_leader` this locates the disagreement: the lock protocol is right,
and the order of removals in `Drop` (and the server task's late removal) is what breaks it.

Only model-checked: the liveness properties (`EveryPromptAnswered`, `EveryInterjectionHandled`,
`RecoverySettles`), because the prover has no rules for fairness. Every other property of a
passing run, invariants, action properties and refinements, is a theorem. The inductive invariants were model-checked before they were proved,
on the instances of the runs and, `ViewInv`, with faults during the read.

## 5. Where the properties stop

* `OneLiveTurn`, `SendNowSparesUncommitted` and `ImplementsTurnService` are checked and proved
  without promoters. With the MCP promoter they fail: `cancel_running_task` gives up the task slot
  under the lock and aborts the task several awaits later, and a promoter that runs in between
  starts the next queued prompt beside the turn being cancelled. `OverlapIsVictim` bounds this
  overlap, with promoters: it ends with the abort, and the second live task is always the
  cancel's victim. `commit_flag` shows a consequence.
* `IdleIsDrained` is checked and proved with admissions in time. When the admission of a wake comes after
  the bridge gave up, its fallback goes to the notification buffer and nothing drains it until
  the next turn ends or the next notification arrives. It is proved without a Ctrl+C that
  rewinds: that one lifts the suppression it has just set (section 6) and, like every Ctrl+C,
  skips the drain, so notifications that waited for the user stay where they are.
* A turn task that panics sends no completion. This is not modelled; the liveness run assumes
  that turns end.
* `RefusedOnlyWhenWedged` names a state that recovery cannot leave: when the removal of a target
  is interrupted during a rollback, validation refuses the partial target and every later
  recovery is refused as well. The session's source is complete in that state.
* `ReaderNotMisled` exempts a reader that two relocations overtake during one read: with three
  directories such a reader can return a path that was not the home at any moment of its read.
  A reader may miss the session, or report an error, while a relocation is under way
  (`MissedOnlyDuringRelocation` says: only then).
* The properties of `Relocation` hold for callers that keep the discipline described in section 2.
* The monitor events of several sessions in one leader process are not modelled: they share one
  `is_turn_active`.
* When the cap evicts a notification or a monitor event, it is gone for the model, which
  records it as `evicted`.

## 6. Disagreements between code and comments

* **`cron_dropped`.** `sweep_pending_inputs` says that dropping synthetic rows unanswered is
  right because no client awaits them. A scheduled prompt is synthetic by its id but is sent by
  a client that awaits the answer, and the preemption in `queue_input` sweeps it.
* **`ctrl_c_rewind`.** The Cancel handler says that Ctrl+C leaves notifications suppressed. A
  Ctrl+C that rewinds a pristine prompt lifts the suppression in `cancel_running_task`.
* **`barrier_lock`.** The Ctrl+C barrier expects the state mutex to be free because it is
  actor-owned. A promoter holds it across an await.
* **`commit_flag`.** The documentation of `handle_interject_queued_prompt` says that an
  uncommitted front is never cancelled. The commit flag belongs to the session and can be set
  by the previous turn.
* **`single_leader`.** `run_leader` says that only the holder of the flock creates or removes the
  socket, so that a racing leader never clobbers a live one. The `Drop` of `LeaderLock` unlinks
  `leader.lock` before it removes `leader.sock`. Another leader can lock a fresh file and bind in
  between, and its socket is then removed; it serves on a path no client can find. The server task
  of a cancelled `run_leader` can remove the path even later.

Seen while reading, without a run: the comment on `handle_interject_queued_prompt` still
describes the row as moved into the interjection buffer, and
`crates/codegen/intellihelper-prompt-queue/src/types.rs:13` says that an edit against a stale
version is a no-op, while `handle_edit_queued_prompt` is last-write-wins.

## 7. Plan

Done: the session actor with its queue algorithms, monitor events and abstract turn service; the
relocation of a session with its readers and the abstract session home; the election of a leader;
the theorems of section 4. Next, in this order:

1. Proofs: `IdleIsDrained` with a promoter (the open case is one that finds only stale workflow
   completions and starts nothing); the lock protocol of a leader that runs its `Drop` without a
   rival.
2. **Leader mode**: several sessions that share `is_turn_active` and the monitor-event buffer, and
   idle unload against the busy predicate of the session actor (a composition with
   `SessionActor`).
3. **Occurrence journal** of the scheduler: a crash between firing and recording.
4. **Circuit breaker** (`crates/common/circuit-breaker`): window, half-open probes, permits
   dropped without an outcome; abstract specification of admission.
5. **Goal loop** and **subagent coordinator** as far as they drive the queue.

## 8. Not modelled

* The pager, rendering, voice, telemetry and self-update: presentation and I/O. The pager matters
  only as the source of the commands that the actor receives.
* MCP, hooks, sandbox and plugins: processes and network services outside the program.
* Workspace, worktrees and file tracking: their state is the file system's and git's.
* The sampling loop's content, the chat store and the workflow engine: the actor model takes
  their answers as nondeterministic inputs.
* The rest of the session store (appends, summaries, pruning), the server side of the leader
  (client sessions, relay, reconnect, idle unload), authentication refresh and the hub client: the
  first two are candidates for extending `Relocation` and `LeaderElection`, the last two
  for modules of their own.
* Vendored and generated code.
