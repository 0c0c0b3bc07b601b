------------------------ MODULE SessionActor_proofs ------------------------
(***************************************************************************)
(* Safety of the session actor for every set of prompts, wakes, clients    *)
(* and promoters and every cap: type correctness, the running front, and   *)
(* the books (no message is lost, doubled or resolved while held).         *)
(***************************************************************************)
EXTENDS SessionActor, PromptQueue_proofs

\* The kinds of ids, as the proofs use them.
LEMMA Kinds ==
  /\ Prompts \subseteq Ids /\ Interjections \subseteq Ids /\ User \subseteq Ids
  /\ Wakes \subseteq Ids /\ SubWakes \subseteq Ids /\ Workflows \subseteq Ids
  /\ Crons \subseteq Ids /\ Nudges \subseteq Ids /\ PlanResumes \subseteq Ids
  /\ Drains \subseteq Ids /\ Synthetic \subseteq Ids /\ Completion \subseteq Ids
  /\ Ids \subseteq All /\ Notices \subseteq All
  /\ PlanResumes \subseteq Promoters
  /\ None \notin Ids
BY OriginAssumption DEF User, Synthetic, Completion, Ids, All, Promoters

\* The part of the invariant that the bookkeeping variables carry.
Books == OnePlace /\ UnansweredIsHeld /\ DeferredIsBuffered

\* A step that touches none of the bookkeeping variables keeps the books.
LEMMA BooksUnchanged ==
  ASSUME Books, UNCHANGED <<queue, interjections, notes, status, cancel>>
  PROVE  Books'
BY DEF Books, OnePlace, UnansweredIsHeld, DeferredIsBuffered

\* The initial state satisfies the invariant.
LEMMA InitInv == Init => Inv
<1> SUFFICES ASSUME Init PROVE Inv
  OBVIOUS
<1> USE DEF Init
<1>1. /\ queue \in Seq(Ids) /\ interjections \in Seq(Interjections)
      /\ completions \in Seq(Ids)
      /\ notes \in Seq(Wakes \cup Notices) /\ Len(notes) <= MaxNotes
  BY ParameterAssumption
<1>2. /\ version \in [Prompts -> 0..MaxEdits] /\ started \in [Prompts -> 0..MaxEdits]
  BY ParameterAssumption
<1>3. tasks \in [Ids -> TaskStates] /\ pc \in Places /\ status \in [All -> Statuses]
  BY DEF TaskStates, Places, Statuses
<1>4. cancel \in [trigger : Triggers, rewind : BOOLEAN, kill : BOOLEAN,
                  pinned : Ids \cup {None}, victim : Ids \cup {None},
                  popped : Ids \cup {None}, doomed : SUBSET Ids]
  BY DEF Triggers, NoCancel
<1>5. promoter \in [Promoters -> {"init", "queued", "holding", "done"}]
  OBVIOUS
<1>6. terminals \in [Ids -> Nat] /\ aimed \in [Interjections -> Ids \cup {None}]
  OBVIOUS
<1>7. StateTypeOK
  BY <1>1, <1>2, <1>3, <1>4, <1>5, <1>6 DEF StateTypeOK
<1>8. Elems(queue) = {} /\ Elems(interjections) = {} /\ Elems(notes) = {}
      /\ cancel.doomed = {} /\ cancel.popped = None
  BY DEF Elems, NoCancel
<1>9. OnePlace
  BY <1>8 DEF OnePlace, Distinct
<1>10. UnansweredIsHeld
  BY <1>8, Kinds DEF UnansweredIsHeld
<1>11. DeferredIsBuffered
  BY <1>8 DEF DeferredIsBuffered
<1>12. FrontIsRunning /\ CancelAtRest
  BY <1>8 DEF FrontIsRunning, CancelAtRest
<1>13. HolderHasFront
  BY DEF HolderHasFront
<1>14. PlanResumeIsNew
  BY Kinds DEF PlanResumeIsNew
<1> QED BY <1>7, <1>9, <1>10, <1>11, <1>12, <1>13, <1>14 DEF Inv

-----------------------------------------------------------------------------
(* Steps that leave queue, buffers and statuses alone.                     *)

\* With books, cancel locals, promoters and the running turn unchanged, only the
\* types are left to show.
LEMMA QuietStep ==
  ASSUME Inv, StateTypeOK', UNCHANGED <<queue, interjections, notes, status, cancel, promoter>>,
         running' = running, pc' = pc
  PROVE  Inv'
<1>1. Books'
  BY BooksUnchanged DEF Inv, Books
<1> QED BY <1>1
        DEF Inv, Books, FrontIsRunning, HolderHasFront, CancelAtRest, PlanResumeIsNew

\* The commit of the front's message.
LEMMA TurnCommitStep == ASSUME Inv, NEW t \in Ids, TurnCommit(t) PROVE Inv'
<1>1. StateTypeOK'
  BY DEF Inv, StateTypeOK, TurnCommit, TurnKeeps, TaskStates
<1> QED BY <1>1, QuietStep DEF TurnCommit, TurnKeeps

\* A slash command answered by the host.
LEMMA TurnHostCommandStep == ASSUME Inv, NEW t \in Ids, TurnHostCommand(t) PROVE Inv'
<1>1. StateTypeOK'
  BY DEF Inv, StateTypeOK, TurnHostCommand, TurnKeeps, TaskStates
<1> QED BY <1>1, QuietStep DEF TurnHostCommand, TurnKeeps

\* An early failure of the turn.
LEMMA TurnFailStep == ASSUME Inv, NEW t \in Ids, TurnFail(t) PROVE Inv'
<1>1. StateTypeOK'
  BY DEF Inv, StateTypeOK, TurnFail, TurnKeeps, TaskStates
<1> QED BY <1>1, QuietStep DEF TurnFail, TurnKeeps

\* The first event of a turn.
LEMMA TurnEmitStep == ASSUME Inv, NEW t \in Ids, TurnEmit(t) PROVE Inv'
<1>1. StateTypeOK'
  BY DEF Inv, StateTypeOK, TurnEmit, TurnKeeps
<1> QED BY <1>1, QuietStep DEF TurnEmit, TurnKeeps

\* The drop of the turn scope.
LEMMA TurnCloseScopeStep == ASSUME Inv, NEW t \in Ids, TurnCloseScope(t) PROVE Inv'
<1>1. StateTypeOK'
  BY DEF Inv, StateTypeOK, TurnCloseScope, TurnKeeps, TaskStates
<1> QED BY <1>1, QuietStep DEF TurnCloseScope, TurnKeeps

\* The completion message of a turn.
LEMMA TurnSendCompletionStep == ASSUME Inv, NEW t \in Ids, TurnSendCompletion(t) PROVE Inv'
<1>1. completions' \in Seq(Ids)
  BY DEF Inv, StateTypeOK, TurnSendCompletion
<1>2. tasks' \in [Ids -> TaskStates]
  BY DEF Inv, StateTypeOK, TurnSendCompletion, TaskStates
<1>3. StateTypeOK'
  BY <1>1, <1>2 DEF Inv, StateTypeOK, TurnSendCompletion, lockVars, historyVars
<1> QED BY <1>3, QuietStep DEF TurnSendCompletion, lockVars, historyVars

\* The commands on combine holds and texts of queued rows.
LEMMA HoldCombineEditStep == ASSUME Inv, NEW p \in Editable, HoldCombineEdit(p) PROVE Inv'
<1>1. StateTypeOK'
  BY ParameterAssumption DEF Inv, StateTypeOK, HoldCombineEdit, ClientCommand
<1> QED BY <1>1, QuietStep DEF HoldCombineEdit, ClientCommand

\* A hold ends.
LEMMA ReleaseCombineEditStep ==
  ASSUME Inv, NEW p \in Editable, ReleaseCombineEdit(p) PROVE Inv'
<1>1. StateTypeOK'
  BY DEF Inv, StateTypeOK, ReleaseCombineEdit, ClientCommand
<1> QED BY <1>1, QuietStep DEF ReleaseCombineEdit, ClientCommand

\* An edit of a queued row.
LEMMA EditQueuedPromptStep == ASSUME Inv, NEW p \in Prompts, EditQueuedPrompt(p) PROVE Inv'
<1>1. version' \in [Prompts -> 0..MaxEdits]
  BY ParameterAssumption DEF Inv, StateTypeOK, EditQueuedPrompt
<1>2. StateTypeOK'
  BY <1>1 DEF Inv, StateTypeOK, EditQueuedPrompt, ClientCommand
<1> QED BY <1>2, QuietStep DEF EditQueuedPrompt, ClientCommand

-----------------------------------------------------------------------------
(* Steps that move messages into and out of the queue and the buffer.      *)

\* The sequences of the state, as the queue lemmas want them.
LEMMA Sequences ==
  ASSUME Inv
  PROVE  /\ queue \in Seq(Ids) /\ interjections \in Seq(Ids)
         /\ Distinct(queue) /\ Distinct(interjections)
         /\ Elems(queue) \subseteq Ids /\ Elems(interjections) \subseteq Ids
         /\ Elems(queue) \cap Elems(interjections) = {}
<1>1. queue \in Seq(Ids) /\ interjections \in Seq(Interjections)
  BY DEF Inv, StateTypeOK
<1>2. interjections \in Seq(Ids)
  BY <1>1, Kinds
<1>3. Elems(queue) \subseteq Ids /\ Elems(interjections) \subseteq Ids
  BY <1>1, <1>2 DEF Elems
<1> QED BY <1>1, <1>2, <1>3 DEF Inv, OnePlace

\* InsertFacts for a new row of a queue of ids.
LEMMA InsertRow ==
  ASSUME NEW q \in Seq(Ids), NEW n \in 0..Len(q), NEW x \in Ids,
         Distinct(q), x \notin Elems(q)
  PROVE  /\ Insert(q, n, x) \in Seq(Ids) /\ Distinct(Insert(q, n, x))
         /\ Elems(Insert(q, n, x)) = Elems(q) \cup {x}
         /\ Insert(q, n, x) # <<>>
         /\ n >= 1 => Head(Insert(q, n, x)) = Head(q)
<1> DEFINE X == Ids
<1>1. q \in Seq(X) /\ x \in X
  OBVIOUS
<1> HIDE DEF X
<1>2. /\ Insert(q, n, x) \in Seq(X)
      /\ Elems(Insert(q, n, x)) = Elems(q) \cup {x}
      /\ Distinct(q) /\ x \notin Elems(q) => Distinct(Insert(q, n, x))
      /\ Insert(q, n, x) # <<>>
      /\ n >= 1 => q # <<>> /\ Head(Insert(q, n, x)) = Head(q)
  BY <1>1, InsertFacts
<1> QED BY <1>2 DEF X

\* The books balance when the arrivals A become "waiting", the departures G are
\* resolved, and nothing else changes hands.
LEMMA BooksStep ==
  ASSUME Inv, NEW A \in SUBSET Ids, NEW G,
         \A x \in A : status[x] = "new" /\ status'[x] = "waiting",
         G \subseteq Elems(queue) \cup Elems(interjections),
         \A x \in G : status'[x] \notin {"waiting", "deferred"},
         \A x \in All \ (A \cup G) : status'[x] = status[x],
         Distinct(queue'), Distinct(interjections'),
         Elems(queue') \cap Elems(interjections') = {},
         Elems(queue') \cup Elems(interjections') =
            ((Elems(queue) \cup Elems(interjections)) \ G) \cup A,
         notes' = notes, cancel'.doomed = cancel.doomed, cancel'.popped = cancel.popped
  PROVE  /\ Books'
         /\ \A x \in All \ A : status[x] = "new" => status'[x] = "new"
<1> DEFINE H == Elems(queue) \cup Elems(interjections)
           C == cancel.doomed \cup {cancel.popped}
<1>1. \A x \in Ids : status[x] = "waiting" <=> x \in H \cup C
  BY DEF Inv, UnansweredIsHeld
<1>2. H \subseteq Ids /\ H \cap C = {} /\ G \subseteq H
  BY Sequences DEF Inv, OnePlace
<1>3. \A x \in G : status[x] = "waiting"
  BY <1>1, <1>2
<1>4. \A x \in A : x \notin H \cup C
  BY <1>1
<1>5. H' = (H \ G) \cup A /\ C' = C
  OBVIOUS
<1>a. Distinct(queue)' /\ Distinct(interjections)'
      /\ (Elems(queue) \cap Elems(interjections) = {})'
  BY DEF Distinct, Elems
<1> HIDE DEF H, C
<1>6. (H \cap C = {})'
  BY <1>2, <1>4, <1>5
<1>7. OnePlace'
  BY <1>6, <1>a DEF OnePlace, H, C
<1>8. \A x \in Ids : status'[x] = "waiting" <=> x \in H' \cup C'
  BY <1>1, <1>2, <1>3, <1>4, <1>5, Kinds
<1>9. UnansweredIsHeld'
  BY <1>8 DEF UnansweredIsHeld, H, C
<1>10. \A x \in All : status'[x] = "deferred" <=> status[x] = "deferred"
  BY <1>3
<1>11. DeferredIsBuffered'
  BY <1>10 DEF DeferredIsBuffered, Inv
<1>12. \A x \in All \ A : status[x] = "new" => status'[x] = "new"
  BY <1>3
<1> QED BY <1>7, <1>9, <1>11, <1>12 DEF Books

\* A message that has not arrived is held nowhere.
LEMMA NewIsNowhere ==
  ASSUME Inv, NEW x \in Ids, status[x] = "new"
  PROVE  x \notin Elems(queue) \cup Elems(interjections)
BY DEF Inv, UnansweredIsHeld

\* Between two steps that need the mutex no promoter holds it: with the promoters
\* unchanged the holder's front is not at stake.
LEMMA FreeMutex ==
  ASSUME Unlocked, promoter' = promoter PROVE HolderHasFront'
BY DEF Unlocked, HolderHasFront

\* A submitted prompt is appended or jumps the queue; preempted synthetics leave.
LEMMA SubmitPromptStep == ASSUME Inv, NEW p \in Prompts, SubmitPrompt(p) PROVE Inv'
<1> DEFINE q == Without(queue, Preempted)
           n == SendNowIndex(q, running, sendNow)
<1>1. /\ pc = "ready" /\ Unlocked /\ status[p] = "new"
      /\ \/ queue' = Insert(q, n, p) /\ sendNow' = sendNow \cup {p}
         \/ queue' = Append(q, p) /\ sendNow' = sendNow
      /\ status' = [x \in All |-> IF x = p THEN "waiting"
                                  ELSE IF x \in Preempted THEN "dropped" ELSE status[x]]
      /\ suppressed' = FALSE /\ pc' \in {"sendnow", "start"}
      /\ UNCHANGED <<running, held, version, notes, rewindable, committed, pin,
                     interjections, tasks, completions, cancel, promoter, terminals,
                     started, aimed>>
  BY DEF SubmitPrompt, TakeCommand
<1>2. Preempted \subseteq Elems(queue) /\ running \notin Preempted
  BY DEF Preempted, Swept
<1>3. p \in Ids /\ p \notin Elems(queue) \cup Elems(interjections)
  BY <1>1, Kinds, NewIsNowhere
<1>4. /\ q \in Seq(Ids) /\ Elems(q) = Elems(queue) \ Preempted /\ Distinct(q)
      /\ queue # <<>> /\ Head(queue) = running => q # <<>> /\ Head(q) = running
  BY <1>2, Sequences, WithoutFacts
<1> HIDE DEF q
<1>5. n \in 0..Len(q) /\ (q # <<>> /\ Head(q) = running => n >= 1)
  BY <1>4, SendNowIndexFacts
<1> HIDE DEF n
<1>6. /\ queue' \in Seq(Ids) /\ Distinct(queue')
      /\ Elems(queue') = (Elems(queue) \ Preempted) \cup {p}
      /\ q # <<>> /\ Head(q) = running => queue' # <<>> /\ Head(queue') = running
  <2> p \notin Elems(q)
    BY <1>3, <1>4
  <2>1. CASE queue' = Insert(q, n, p)
    <3>1. /\ Insert(q, n, p) \in Seq(Ids)
          /\ Elems(Insert(q, n, p)) = Elems(q) \cup {p} /\ Distinct(Insert(q, n, p))
          /\ Insert(q, n, p) # <<>> /\ (n >= 1 => Head(Insert(q, n, p)) = Head(q))
      BY <1>3, <1>4, <1>5, InsertRow
    <3> QED BY <1>4, <1>5, <2>1, <3>1
  <2>2. CASE queue' = Append(q, p)
    BY <1>3, <1>4, <2>2, AppendFacts
  <2> QED BY <1>1, <2>1, <2>2
<1>7. StateTypeOK'
  <2>1. status' \in [All -> Statuses]
    BY <1>1 DEF Inv, StateTypeOK, Statuses
  <2>2. sendNow' \subseteq Ids /\ pc' \in Places /\ suppressed' \in BOOLEAN
    BY <1>1, <1>3 DEF Inv, StateTypeOK, Places
  <2> QED BY <1>1, <1>6, <2>1, <2>2 DEF Inv, StateTypeOK
<1>8. Books' /\ \A x \in All \ {p} : status[x] = "new" => status'[x] = "new"
  <2>1. Elems(queue') \cap Elems(interjections') = {}
    BY <1>1, <1>3, <1>6, Sequences
  <2>2. Elems(queue') \cup Elems(interjections') =
           ((Elems(queue) \cup Elems(interjections)) \ Preempted) \cup {p}
    BY <1>1, <1>2, <1>6, Sequences
  <2>3. \A x \in Preempted : x \in All /\ x # p /\ status'[x] = "dropped"
    BY <1>1, <1>2, <1>3, Sequences, Kinds
  <2>4. p \in All /\ status'[p] = "waiting"
    BY <1>1, <1>3, Kinds
  <2>5. \A x \in All \ ({p} \cup Preempted) : status'[x] = status[x]
    BY <1>1
  <2>6. Distinct(interjections')
    BY <1>1, Sequences
  <2>7. {p} \in SUBSET Ids /\ Preempted \subseteq Elems(queue) \cup Elems(interjections)
    BY <1>2, <1>3
  <2>8. \A x \in {p} : status[x] = "new" /\ status'[x] = "waiting"
    BY <1>1, <2>4
  <2>9. /\ \A x \in Preempted : status'[x] \notin {"waiting", "deferred"}
        /\ notes' = notes /\ cancel'.doomed = cancel.doomed
        /\ cancel'.popped = cancel.popped
    BY <1>1, <2>3
  <2> QED BY <1>6, <2>1, <2>2, <2>5, <2>6, <2>7, <2>8, <2>9, BooksStep
<1>9. PlanResumeIsNew'
  BY <1>1, <1>8, Kinds, OriginAssumption DEF Inv, PlanResumeIsNew, User, Synthetic
<1> QED BY <1>1, <1>4, <1>6, <1>7, <1>8, <1>9, FreeMutex
        DEF Inv, Books, FrontIsRunning, CancelAtRest

\* A new row at the end of the queue.
LEMMA PushBackBooks ==
  ASSUME Inv, NEW x \in Ids, status[x] = "new", PushBack(x),
         UNCHANGED <<interjections, notes, cancel>>
  PROVE  /\ queue' \in Seq(Ids) /\ status' \in [All -> Statuses]
         /\ queue' # <<>> /\ (queue # <<>> => Head(queue') = Head(queue))
         /\ Books' /\ \A y \in All \ {x} : status[y] = "new" => status'[y] = "new"
<1>1. x \notin Elems(queue) \cup Elems(interjections) /\ x \in All
  BY NewIsNowhere, Kinds
<1>2. /\ queue' \in Seq(Ids) /\ Elems(queue') = Elems(queue) \cup {x} /\ Distinct(queue')
      /\ queue' # <<>> /\ (queue # <<>> => Head(queue') = Head(queue))
  BY <1>1, Sequences, AppendFacts DEF PushBack
<1>3. status' \in [All -> Statuses] /\ status'[x] = "waiting"
      /\ \A y \in All \ {x} : status'[y] = status[y]
  BY <1>1 DEF Inv, StateTypeOK, PushBack, Statuses
<1>4. /\ Distinct(interjections') /\ Elems(queue') \cap Elems(interjections') = {}
      /\ Elems(queue') \cup Elems(interjections') =
            ((Elems(queue) \cup Elems(interjections)) \ {}) \cup {x}
  BY <1>1, <1>2, Sequences
<1>5. /\ {x} \in SUBSET Ids /\ \A y \in {x} : status[y] = "new" /\ status'[y] = "waiting"
      /\ \A y \in All \ ({x} \cup {}) : status'[y] = status[y]
      /\ {} \subseteq Elems(queue) \cup Elems(interjections)
      /\ \A y \in {} : status'[y] \notin {"waiting", "deferred"}
  BY <1>3
<1>6. Books' /\ \A y \in All \ {x} : status[y] = "new" => status'[y] = "new"
  BY <1>2, <1>4, <1>5, BooksStep
<1> QED BY <1>2, <1>3, <1>6

\* A synthetic prompt of another origin is queued.
LEMMA QueueSyntheticStep ==
  ASSUME Inv, NEW x \in SubWakes \cup Crons \cup Workflows \cup Nudges, QueueSynthetic(x)
  PROVE  Inv'
<1>1. /\ pc = "ready" /\ Unlocked /\ status[x] = "new" /\ PushBack(x) /\ pc' = "start"
      /\ UNCHANGED <<running, sendNow, held, version, notes, suppressed, rewindable,
                     committed, pin, interjections, tasks, completions, cancel, promoter,
                     terminals, started, aimed>>
  BY DEF QueueSynthetic, TakeCommand
<1>2. x \in Ids /\ x \notin PlanResumes
  BY Kinds, OriginAssumption DEF Completion
<1>3. /\ queue' \in Seq(Ids) /\ status' \in [All -> Statuses]
      /\ queue' # <<>> /\ (queue # <<>> => Head(queue') = Head(queue))
      /\ Books' /\ \A y \in All \ {x} : status[y] = "new" => status'[y] = "new"
  BY <1>1, <1>2, PushBackBooks
<1>4. StateTypeOK'
  BY <1>1, <1>3 DEF Inv, StateTypeOK, Places
<1>5. PlanResumeIsNew'
  BY <1>1, <1>2, <1>3, Kinds DEF Inv, PlanResumeIsNew
<1> QED BY <1>1, <1>3, <1>4, <1>5, FreeMutex
        DEF Inv, Books, FrontIsRunning, CancelAtRest

\* A resumed plan decision is queued by its promoter.
LEMMA PlanResumeQueueStep == ASSUME Inv, NEW r \in Promoters, PlanResumeQueue(r) PROVE Inv'
<1>1. /\ r \in PlanResumes /\ promoter[r] = "init" /\ Unlocked /\ PushBack(r)
      /\ promoter' = [promoter EXCEPT ![r] = "queued"]
      /\ UNCHANGED <<running, sendNow, held, version, notes, suppressed, rewindable,
                     committed, pin, interjections, tasks, completions, pc, cancel,
                     terminals, started, aimed>>
  BY DEF PlanResumeQueue
<1>2. r \in Ids /\ status[r] = "new"
  BY <1>1, Kinds DEF Inv, PlanResumeIsNew
<1>3. /\ queue' \in Seq(Ids) /\ status' \in [All -> Statuses]
      /\ queue' # <<>> /\ (queue # <<>> => Head(queue') = Head(queue))
      /\ Books' /\ \A y \in All \ {r} : status[y] = "new" => status'[y] = "new"
  BY <1>1, <1>2, PushBackBooks
<1>4. promoter' \in [Promoters -> {"init", "queued", "holding", "done"}]
  BY <1>1 DEF Inv, StateTypeOK
<1>5. StateTypeOK'
  BY <1>1, <1>3, <1>4 DEF Inv, StateTypeOK
<1>6. PlanResumeIsNew'
  BY <1>1, <1>3, Kinds DEF Inv, StateTypeOK, PlanResumeIsNew
<1>7. HolderHasFront'
  BY <1>3 DEF HolderHasFront
<1> QED BY <1>1, <1>3, <1>5, <1>6, <1>7 DEF Inv, Books, FrontIsRunning, CancelAtRest

\* An interjection is buffered for the pinned turn.
LEMMA BufferInterjectionStep ==
  ASSUME Inv, NEW j \in Interjections, BufferInterjection(j) PROVE Inv'
<1>1. /\ pc = "ready" /\ status[j] = "new" /\ pin # None
      /\ interjections' = Append(interjections, j)
      /\ status' = [status EXCEPT ![j] = "waiting"]
      /\ aimed' = [aimed EXCEPT ![j] = pin]
      /\ UNCHANGED <<lockVars, pin, tasks, completions, pc, cancel, promoter, terminals,
                     started>>
  BY DEF BufferInterjection, TakeCommand
<1>2. j \in Ids /\ j \in All /\ j \notin PlanResumes
  BY Kinds, OriginAssumption DEF User, Synthetic
<1>3. j \notin Elems(queue) \cup Elems(interjections)
  BY <1>1, <1>2, NewIsNowhere
<1>4. /\ interjections' \in Seq(Interjections)
      /\ Elems(interjections') = Elems(interjections) \cup {j}
      /\ Distinct(interjections')
  <2>1. interjections \in Seq(Interjections) /\ Distinct(interjections)
    BY DEF Inv, StateTypeOK, OnePlace
  <2> QED BY <1>1, <1>3, <2>1, AppendFacts
<1>5. /\ status' \in [All -> Statuses] /\ status'[j] = "waiting"
      /\ \A y \in All \ {j} : status'[y] = status[y]
  BY <1>1, <1>2 DEF Inv, StateTypeOK, Statuses
<1>6. aimed' \in [Interjections -> Ids \cup {None}]
  BY <1>1 DEF Inv, StateTypeOK
<1>7. StateTypeOK'
  BY <1>1, <1>4, <1>5, <1>6 DEF Inv, StateTypeOK, lockVars
<1>8. UNCHANGED <<queue, running, notes, cancel, promoter, pc>>
  BY <1>1 DEF lockVars
<1>9. Books' /\ \A y \in All \ {j} : status[y] = "new" => status'[y] = "new"
  <2>1. /\ Distinct(queue') /\ Elems(queue') \cap Elems(interjections') = {}
        /\ Elems(queue') \cup Elems(interjections') =
              ((Elems(queue) \cup Elems(interjections)) \ {}) \cup {j}
    BY <1>3, <1>4, <1>8, Sequences
  <2>2. /\ {j} \in SUBSET Ids /\ \A y \in {j} : status[y] = "new" /\ status'[y] = "waiting"
        /\ \A y \in All \ ({j} \cup {}) : status'[y] = status[y]
        /\ {} \subseteq Elems(queue) \cup Elems(interjections)
        /\ \A y \in {} : status'[y] \notin {"waiting", "deferred"}
        /\ notes' = notes /\ cancel'.doomed = cancel.doomed /\ cancel'.popped = cancel.popped
    BY <1>1, <1>2, <1>5, <1>8
  <2> QED BY <1>4, <2>1, <2>2, BooksStep
<1>10. PlanResumeIsNew'
  BY <1>2, <1>8, <1>9, Kinds DEF Inv, PlanResumeIsNew
<1> QED BY <1>7, <1>8, <1>9, <1>10
        DEF Inv, Books, FrontIsRunning, CancelAtRest, HolderHasFront

\* With no turn pinned an interjection becomes a row behind the running front.
LEMMA QueueInterjectionStep ==
  ASSUME Inv, NEW j \in Interjections, QueueInterjection(j) PROVE Inv'
<1> DEFINE n == RunningOffset(queue, running)
<1>1. /\ pc = "ready" /\ Unlocked /\ status[j] = "new"
      /\ queue' = Insert(queue, n, j) /\ sendNow' = sendNow \cup {j}
      /\ status' = [status EXCEPT ![j] = "waiting"] /\ pc' = "start"
      /\ UNCHANGED <<running, held, version, notes, suppressed, rewindable, committed, pin,
                     interjections, tasks, completions, cancel, promoter, terminals,
                     started, aimed>>
  BY DEF QueueInterjection, TakeCommand
<1>2. j \in Ids /\ j \in All /\ j \notin PlanResumes
  BY Kinds, OriginAssumption DEF User, Synthetic
<1>3. j \notin Elems(queue) \cup Elems(interjections)
  BY <1>1, <1>2, NewIsNowhere
<1>4. n \in 0..Len(queue) /\ (queue # <<>> /\ Head(queue) = running => n = 1)
  BY Sequences, RunningOffsetFacts
<1> HIDE DEF n
<1>5. /\ queue' \in Seq(Ids) /\ Distinct(queue') /\ Elems(queue') = Elems(queue) \cup {j}
      /\ queue' # <<>> /\ (n >= 1 => Head(queue') = Head(queue))
  BY <1>1, <1>2, <1>3, <1>4, Sequences, InsertRow
<1>6. /\ status' \in [All -> Statuses] /\ status'[j] = "waiting"
      /\ \A y \in All \ {j} : status'[y] = status[y]
  BY <1>1, <1>2 DEF Inv, StateTypeOK, Statuses
<1>7. StateTypeOK'
  BY <1>1, <1>2, <1>5, <1>6 DEF Inv, StateTypeOK, Places
<1>8. Books' /\ \A y \in All \ {j} : status[y] = "new" => status'[y] = "new"
  <2>1. /\ Distinct(interjections') /\ Elems(queue') \cap Elems(interjections') = {}
        /\ Elems(queue') \cup Elems(interjections') =
              ((Elems(queue) \cup Elems(interjections)) \ {}) \cup {j}
    BY <1>1, <1>3, <1>5, Sequences
  <2>2. /\ {j} \in SUBSET Ids /\ \A y \in {j} : status[y] = "new" /\ status'[y] = "waiting"
        /\ \A y \in All \ ({j} \cup {}) : status'[y] = status[y]
        /\ {} \subseteq Elems(queue) \cup Elems(interjections)
        /\ \A y \in {} : status'[y] \notin {"waiting", "deferred"}
        /\ notes' = notes /\ cancel'.doomed = cancel.doomed /\ cancel'.popped = cancel.popped
    BY <1>1, <1>2, <1>6
  <2> QED BY <1>5, <2>1, <2>2, BooksStep
<1>9. PlanResumeIsNew'
  BY <1>1, <1>2, <1>8, Kinds DEF Inv, PlanResumeIsNew
<1>10. FrontIsRunning'
  BY <1>1, <1>4, <1>5 DEF Inv, FrontIsRunning
<1> QED BY <1>1, <1>7, <1>8, <1>9, <1>10, FreeMutex DEF Inv, Books, CancelAtRest

\* Rows that leave the queue are resolved; the front stays unless it is one of them.
LEMMA DepartBooks ==
  ASSUME Inv, NEW G \in SUBSET Elems(queue), queue' = Without(queue, G),
         status' \in [All -> Statuses],
         \A x \in G : status'[x] \notin {"waiting", "deferred"},
         \A x \in All \ G : status'[x] = status[x],
         UNCHANGED <<interjections, notes, cancel>>
  PROVE  /\ queue' \in Seq(Ids)
         /\ queue # <<>> /\ Head(queue) \notin G => queue' # <<>> /\ Head(queue') = Head(queue)
         /\ Books' /\ \A x \in All : status[x] = "new" => status'[x] = "new"
<1>1. /\ queue' \in Seq(Ids) /\ Elems(queue') = Elems(queue) \ G /\ Distinct(queue')
      /\ queue # <<>> /\ Head(queue) \notin G => queue' # <<>> /\ Head(queue') = Head(queue)
  BY Sequences, WithoutFacts
<1>2. /\ Distinct(interjections') /\ Elems(queue') \cap Elems(interjections') = {}
      /\ Elems(queue') \cup Elems(interjections') =
            ((Elems(queue) \cup Elems(interjections)) \ G) \cup {}
  BY <1>1, Sequences
<1>3. /\ {} \in SUBSET Ids /\ \A x \in {} : status[x] = "new" /\ status'[x] = "waiting"
      /\ \A x \in All \ ({} \cup G) : status'[x] = status[x]
      /\ G \subseteq Elems(queue) \cup Elems(interjections)
      /\ notes' = notes /\ cancel'.doomed = cancel.doomed /\ cancel'.popped = cancel.popped
  OBVIOUS
<1>4. Books' /\ \A x \in All \ {} : status[x] = "new" => status'[x] = "new"
  BY <1>1, <1>2, <1>3, BooksStep
<1> QED BY <1>1, <1>4

\* A client removes a queued row.
LEMMA RemoveQueuedPromptStep ==
  ASSUME Inv, NEW p \in Prompts, RemoveQueuedPrompt(p) PROVE Inv'
<1>1. /\ pc = "ready" /\ Unlocked /\ p \in Elems(queue) /\ p # running
      /\ queue' = Without(queue, {p}) /\ status' = [status EXCEPT ![p] = "removed"]
      /\ UNCHANGED <<sendNow, held, version, pc, running, notes, suppressed, rewindable,
                     committed, pin, interjections, tasks, completions, cancel, promoter,
                     terminals, started, aimed>>
  BY DEF RemoveQueuedPrompt, ClientCommand, TakeCommand, Row
<1>2. /\ status' \in [All -> Statuses] /\ status'[p] = "removed"
      /\ \A x \in All \ {p} : status'[x] = status[x]
  BY <1>1, Kinds DEF Inv, StateTypeOK, Statuses
<1>3. /\ queue' \in Seq(Ids)
      /\ queue # <<>> /\ Head(queue) \notin {p} => queue' # <<>> /\ Head(queue') = Head(queue)
      /\ Books' /\ \A x \in All : status[x] = "new" => status'[x] = "new"
  <2>1. /\ {p} \in SUBSET Elems(queue)
        /\ \A x \in {p} : status'[x] \notin {"waiting", "deferred"}
    BY <1>1, <1>2
  <2> QED BY <1>1, <1>2, <2>1, DepartBooks
<1>4. StateTypeOK'
  BY <1>1, <1>2, <1>3 DEF Inv, StateTypeOK
<1>5. PlanResumeIsNew'
  BY <1>1, <1>3, Kinds DEF Inv, PlanResumeIsNew
<1>6. FrontIsRunning'
  BY <1>1, <1>3 DEF Inv, FrontIsRunning
<1> QED BY <1>1, <1>3, <1>4, <1>5, <1>6, FreeMutex DEF Inv, Books, CancelAtRest

\* A client clears its rows, or everyone's.
LEMMA ClearQueueStep == ASSUME Inv, NEW o, ClearQueue(o) PROVE Inv'
<1> DEFINE cleared == {p \in Prompts : Row(p) /\ (o = None \/ Owner[p] = o)}
<1>1. /\ pc = "ready" /\ Unlocked
      /\ queue' = Without(queue, cleared) /\ status' = Resolve(cleared, "removed")
      /\ UNCHANGED <<sendNow, held, version, pc, running, notes, suppressed, rewindable,
                     committed, pin, interjections, tasks, completions, cancel, promoter,
                     terminals, started, aimed>>
  BY DEF ClearQueue, ClientCommand, TakeCommand
<1>2. cleared \in SUBSET Elems(queue) /\ running \notin cleared
  BY DEF Row
<1> HIDE DEF cleared
<1>3. /\ status' \in [All -> Statuses]
      /\ \A x \in cleared : x \in All /\ status'[x] = "removed"
      /\ \A x \in All \ cleared : status'[x] = status[x]
  BY <1>1, <1>2, Sequences, Kinds DEF Inv, StateTypeOK, Statuses, Resolve
<1>4. /\ queue' \in Seq(Ids)
      /\ queue # <<>> /\ Head(queue) \notin cleared =>
            queue' # <<>> /\ Head(queue') = Head(queue)
      /\ Books' /\ \A x \in All : status[x] = "new" => status'[x] = "new"
  BY <1>1, <1>2, <1>3, DepartBooks
<1>5. StateTypeOK'
  BY <1>1, <1>3, <1>4 DEF Inv, StateTypeOK
<1>6. PlanResumeIsNew'
  BY <1>1, <1>4, Kinds DEF Inv, PlanResumeIsNew
<1>7. FrontIsRunning'
  BY <1>1, <1>2, <1>4 DEF Inv, FrontIsRunning
<1> QED BY <1>1, <1>4, <1>5, <1>6, <1>7, FreeMutex DEF Inv, Books, CancelAtRest

\* A permutation of the queue keeps the books.
LEMMA PermuteBooks ==
  ASSUME Inv, Elems(queue') = Elems(queue), Distinct(queue'),
         UNCHANGED <<interjections, notes, status, cancel>>
  PROVE  Books'
<1>1. /\ Distinct(interjections') /\ Elems(queue') \cap Elems(interjections') = {}
      /\ Elems(queue') \cup Elems(interjections') =
            ((Elems(queue) \cup Elems(interjections)) \ {}) \cup {}
  BY Sequences
<1>2. /\ {} \in SUBSET Ids /\ \A x \in {} : status[x] = "new" /\ status'[x] = "waiting"
      /\ \A x \in All \ ({} \cup {}) : status'[x] = status[x]
      /\ {} \subseteq Elems(queue) \cup Elems(interjections)
      /\ \A x \in {} : status'[x] \notin {"waiting", "deferred"}
      /\ notes' = notes /\ cancel'.doomed = cancel.doomed /\ cancel'.popped = cancel.popped
  OBVIOUS
<1> QED BY <1>1, <1>2, BooksStep

\* A client reorders its rows.
LEMMA ReorderQueueStep == ASSUME Inv, NEW s \in Orders, ReorderQueue(s) PROVE Inv'
<1> DEFINE rows == {p \in Prompts : Row(p)}
<1>1. /\ pc = "ready" /\ Unlocked /\ queue' = Reorder(queue, rows, s)
      /\ UNCHANGED <<sendNow, held, version, pc, status, running, notes, suppressed,
                     rewindable, committed, pin, interjections, tasks, completions, cancel,
                     promoter, terminals, started, aimed>>
  BY DEF ReorderQueue, ClientCommand, TakeCommand
<1>2. s \in Seq(Ids) /\ Distinct(s)
  <2>1. PICK n \in 1..Cardinality(Prompts) : s \in [1..n -> Prompts]
    BY DEF Orders
  <2>2. s \in [1..n -> Ids] /\ n \in Nat
    BY <2>1, Kinds
  <2> QED BY <2>2 DEF Orders
<1>3. running \notin rows
  BY DEF Row
<1> HIDE DEF rows
<1>4. /\ queue' \in Seq(Ids) /\ Elems(queue') = Elems(queue) /\ Distinct(queue')
      /\ queue # <<>> /\ Head(queue) \notin rows => queue' # <<>> /\ Head(queue') = Head(queue)
  BY <1>1, <1>2, Sequences, ReorderFacts
<1>5. Books'
  BY <1>1, <1>4, PermuteBooks
<1>6. StateTypeOK'
  BY <1>1, <1>4 DEF Inv, StateTypeOK
<1>7. FrontIsRunning'
  BY <1>1, <1>3, <1>4 DEF Inv, FrontIsRunning
<1> QED BY <1>1, <1>5, <1>6, <1>7, FreeMutex DEF Inv, Books, CancelAtRest, PlanResumeIsNew

\* A send-now that finds no row only moves on to the promotion.
LEMMA InterjectMissedStep == ASSUME Inv, NEW p \in Prompts, InterjectMissed(p) PROVE Inv'
<1>1. /\ pc = "ready" /\ pc' = "start" /\ Unlocked
      /\ UNCHANGED <<queue, sendNow, held, version, status, running, notes, suppressed,
                     rewindable, committed, pin, interjections, tasks, completions, cancel,
                     promoter, terminals, started, aimed>>
  BY DEF InterjectMissed, ClientCommand, TakeCommand
<1>2. pc' \in Places
  BY <1>1 DEF Places
<1>3. StateTypeOK'
  BY <1>1, <1>2 DEF Inv, StateTypeOK
<1>4. Elems(queue') = Elems(queue) /\ Distinct(queue')
  BY <1>1, Sequences
<1>5. Books'
  BY <1>1, <1>4, PermuteBooks
<1>6. FrontIsRunning'
  BY <1>1 DEF Inv, FrontIsRunning
<1> QED BY <1>1, <1>3, <1>5, <1>6, FreeMutex
        DEF Inv, Books, CancelAtRest, PlanResumeIsNew

\* A queued row becomes a send-now row behind the running front.
LEMMA InterjectQueuedPromptStep ==
  ASSUME Inv, NEW p \in Prompts, InterjectQueuedPrompt(p) PROVE Inv'
<1> DEFINE q == Without(queue, {p})
           n == SendNowIndex(q, running, sendNow)
<1>1. /\ pc = "ready" /\ Unlocked /\ p \in Elems(queue) /\ p # running
      /\ \/ version' = version
         \/ version[p] < MaxEdits /\ version' = [version EXCEPT ![p] = @ + 1]
      /\ queue' = Insert(q, n, p) /\ sendNow' = sendNow \cup {p}
      /\ pc' \in {"sendnow", "start"}
      /\ UNCHANGED <<held, status, running, notes, suppressed, rewindable, committed, pin,
                     interjections, tasks, completions, cancel, promoter, terminals,
                     started, aimed>>
  BY DEF InterjectQueuedPrompt, ClientCommand, TakeCommand, Row
<1>2. p \in Ids
  BY Kinds
<1>3. /\ q \in Seq(Ids) /\ Elems(q) = Elems(queue) \ {p} /\ Distinct(q)
      /\ queue # <<>> /\ Head(queue) # p => q # <<>> /\ Head(q) = Head(queue)
  BY Sequences, WithoutFacts
<1> HIDE DEF q
<1>4. n \in 0..Len(q) /\ (q # <<>> /\ Head(q) = running => n >= 1)
  BY <1>3, SendNowIndexFacts
<1> HIDE DEF n
<1>5. p \notin Elems(q)
  BY <1>3
<1>6. /\ queue' \in Seq(Ids) /\ Distinct(queue') /\ Elems(queue') = Elems(q) \cup {p}
      /\ queue' # <<>> /\ (n >= 1 => Head(queue') = Head(q))
  BY <1>1, <1>2, <1>3, <1>4, <1>5, InsertRow
<1>7. Elems(queue') = Elems(queue)
  BY <1>1, <1>3, <1>6
<1>8. Books'
  BY <1>1, <1>6, <1>7, PermuteBooks
<1>9. StateTypeOK'
  <2>a. version \in [Prompts -> 0..MaxEdits]
    BY DEF Inv, StateTypeOK
  <2>b. ASSUME version[p] < MaxEdits PROVE version[p] + 1 \in 0..MaxEdits
    BY <2>a, <2>b, ParameterAssumption
  <2>1. version' \in [Prompts -> 0..MaxEdits]
    BY <1>1, <2>a, <2>b
  <2>2. sendNow' \subseteq Ids /\ pc' \in Places
    BY <1>1, <1>2 DEF Inv, StateTypeOK, Places
  <2> QED BY <1>1, <1>6, <2>1, <2>2 DEF Inv, StateTypeOK
<1>10. FrontIsRunning'
  BY <1>1, <1>3, <1>4, <1>6 DEF Inv, FrontIsRunning
<1> QED BY <1>1, <1>8, <1>9, <1>10, FreeMutex DEF Inv, Books, CancelAtRest, PlanResumeIsNew

-----------------------------------------------------------------------------
(* Promotion.                                                              *)

\* What is popped as stale, what is left, and what folds into the front.
LEMMA FreshQueueFacts ==
  ASSUME Inv, NEW stale
  PROVE  /\ StaleFronts(stale) \subseteq Elems(queue)
         /\ FreshQueue(stale) \in Seq(Ids) /\ Distinct(FreshQueue(stale))
         /\ Elems(FreshQueue(stale)) = Elems(queue) \ StaleFronts(stale)
         /\ FreshQueue(stale) # <<>> =>
              /\ Head(FreshQueue(stale)) \in Ids
              /\ Folded(FreshQueue(stale)) \subseteq Elems(FreshQueue(stale))
              /\ Head(FreshQueue(stale)) \notin Folded(FreshQueue(stale))
<1> DEFINE q == FreshQueue(stale)
           k == RunLength(queue, 1, stale)
<1>1. queue \in Seq(Ids) /\ Distinct(queue) /\ Len(queue) \in Nat /\ DOMAIN queue = 1..Len(queue)
  BY Sequences
<1>2. k \in Nat /\ 1 + k <= Len(queue) + 1
  BY <1>1, RunLengthFacts
<1> HIDE DEF k
<1>3. \A i \in 1..k : i \in DOMAIN queue
  BY <1>1, <1>2
<1>4. StaleFronts(stale) \subseteq Elems(queue)
  BY <1>3 DEF StaleFronts, Elems, k
<1>5. q \in Seq(Ids) /\ Distinct(q) /\ Elems(q) = Elems(queue) \ StaleFronts(stale)
  BY <1>1, WithoutFacts DEF FreshQueue
<1> HIDE DEF q
<1>6. ASSUME q # <<>>
      PROVE  Head(q) \in Ids /\ Folded(q) \subseteq Elems(q) /\ Head(q) \notin Folded(q)
  <2>1. Head(q) \in Ids
    BY <1>5, <1>6
  <2>2. LET m == MergedAway(q, Plain, (Plain \ Images) \ LiveHolds(q))
        IN  m \subseteq Elems(q) /\ Head(q) \notin m
    BY <1>5, <1>6, MergedAwayFacts
  <2> QED BY <2>1, <2>2 DEF Folded
<1> QED BY <1>4, <1>5, <1>6 DEF q

\* A promotion that finds only stale completions.
LEMMA NothingFreshBooks ==
  ASSUME Inv, NEW stale, FreshQueue(stale) = <<>>, NothingFresh(stale),
         UNCHANGED <<interjections, cancel>>
  PROVE  /\ status' \in [All -> Statuses] /\ Books'
         /\ \A x \in All : status[x] = "new" => status'[x] = "new"
<1> DEFINE G == StaleFronts(stale)
<1>1. G \subseteq Elems(queue) /\ Elems(queue) \ G = {}
  BY FreshQueueFacts DEF Elems
<1>2. queue' = <<>> /\ status' = Resolve(G, "removed") /\ notes' = notes
  BY DEF NothingFresh
<1>3. Elems(queue') = {} /\ Distinct(queue')
  BY <1>2 DEF Elems, Distinct
<1> HIDE DEF G
<1>4. /\ status' \in [All -> Statuses]
      /\ \A x \in G : status'[x] = "removed"
      /\ \A x \in All \ ({} \cup G) : status'[x] = status[x]
  BY <1>1, <1>2, Sequences, Kinds DEF Inv, StateTypeOK, Statuses, Resolve
<1>5. /\ Distinct(interjections') /\ Elems(queue') \cap Elems(interjections') = {}
      /\ Elems(queue') \cup Elems(interjections') =
            ((Elems(queue) \cup Elems(interjections)) \ G) \cup {}
  BY <1>1, <1>3, Sequences
<1>6. /\ {} \in SUBSET Ids /\ \A x \in {} : status[x] = "new" /\ status'[x] = "waiting"
      /\ G \subseteq Elems(queue) \cup Elems(interjections)
      /\ \A x \in G : status'[x] \notin {"waiting", "deferred"}
      /\ cancel'.doomed = cancel.doomed /\ cancel'.popped = cancel.popped
  BY <1>1, <1>4
<1>7. Books' /\ \A x \in All \ {} : status[x] = "new" => status'[x] = "new"
  BY <1>2, <1>3, <1>4, <1>5, <1>6, BooksStep
<1> QED BY <1>4, <1>7

\* The status update of a promotion: stale rows answered, followers merged.
PromotedStatus(stale) ==
  [x \in All |-> IF x \in StaleFronts(stale) THEN "removed"
                 ELSE IF x \in Folded(FreshQueue(stale)) THEN "merged" ELSE status[x]]

\* A promotion leaves the promoted row at the front and the books balanced.
LEMMA PromoteBooks ==
  ASSUME Inv, NEW stale, FreshQueue(stale) # <<>>, Promote(FreshQueue(stale)),
         status' = PromotedStatus(stale), UNCHANGED <<interjections, notes, cancel>>
  PROVE  /\ queue' \in Seq(Ids) /\ queue' # <<>>
         /\ Head(queue') = Head(FreshQueue(stale)) /\ Head(queue') \in Ids
         /\ sendNow' \subseteq Ids /\ held' \subseteq Prompts
         /\ suppressed' \in BOOLEAN /\ rewindable' \in BOOLEAN /\ committed' \in BOOLEAN
         /\ pin' \in Ids /\ started' \in [Prompts -> 0..MaxEdits]
         /\ status' \in [All -> Statuses] /\ Books'
         /\ \A x \in All : status[x] = "new" => status'[x] = "new"
<1> DEFINE q == FreshQueue(stale)
           G == StaleFronts(stale) \cup Folded(q)
<1>1. /\ StaleFronts(stale) \subseteq Elems(queue)
      /\ q \in Seq(Ids) /\ Distinct(q) /\ Elems(q) = Elems(queue) \ StaleFronts(stale)
      /\ Head(q) \in Ids /\ Folded(q) \subseteq Elems(q) /\ Head(q) \notin Folded(q)
  BY FreshQueueFacts
<1>2. queue' = Without(q, Folded(q)) /\ q # <<>>
  BY DEF Promote
<1>3. /\ sendNow' \subseteq sendNow /\ held' \subseteq held
      /\ suppressed' \in BOOLEAN /\ rewindable' \in BOOLEAN /\ committed' \in BOOLEAN
      /\ pin' = Head(q)
      /\ started' = [p \in Prompts |-> IF p = Head(q) THEN version[p] ELSE started[p]]
  BY DEF Promote, LiveHolds
<1>4. status' = [x \in All |-> IF x \in StaleFronts(stale) THEN "removed"
                               ELSE IF x \in Folded(q) THEN "merged" ELSE status[x]]
  BY DEF PromotedStatus
<1> HIDE DEF q
<1>5. /\ queue' \in Seq(Ids) /\ Elems(queue') = Elems(q) \ Folded(q) /\ Distinct(queue')
      /\ queue' # <<>> /\ Head(queue') = Head(q)
  BY <1>1, <1>2, WithoutFacts
<1>6. G \subseteq Elems(queue) /\ Elems(queue') = Elems(queue) \ G
  BY <1>1, <1>5
<1>7. /\ status' \in [All -> Statuses]
      /\ \A x \in G : status'[x] \notin {"waiting", "deferred"}
      /\ \A x \in All \ ({} \cup G) : status'[x] = status[x]
  BY <1>4, <1>6, Sequences, Kinds DEF Inv, StateTypeOK, Statuses
<1> HIDE DEF G
<1>8. /\ Distinct(interjections') /\ Elems(queue') \cap Elems(interjections') = {}
      /\ Elems(queue') \cup Elems(interjections') =
            ((Elems(queue) \cup Elems(interjections)) \ G) \cup {}
  BY <1>6, Sequences
<1>9. /\ {} \in SUBSET Ids /\ \A x \in {} : status[x] = "new" /\ status'[x] = "waiting"
      /\ G \subseteq Elems(queue) \cup Elems(interjections)
      /\ cancel'.doomed = cancel.doomed /\ cancel'.popped = cancel.popped
  BY <1>6
<1>10. Books' /\ \A x \in All \ {} : status[x] = "new" => status'[x] = "new"
  BY <1>5, <1>7, <1>8, <1>9, BooksStep
<1>11. started' \in [Prompts -> 0..MaxEdits] /\ sendNow' \subseteq Ids /\ held' \subseteq Prompts
  BY <1>3 DEF Inv, StateTypeOK
<1> QED BY <1>1, <1>3, <1>5, <1>7, <1>10, <1>11 DEF q

\* The actor promotes the front, or finds nothing to start.
LEMMA MaybeStartRunningTaskStep == ASSUME Inv, MaybeStartRunningTask PROVE Inv'
<1>1. /\ pc \in {"start", "startdrain"} /\ Unlocked /\ pc' \in {"ready", "drain"}
      /\ UNCHANGED <<interjections, completions, cancel, promoter>>
  BY DEF MaybeStartRunningTask
<1>2. CASE UNCHANGED <<lockVars, pin, tasks, historyVars>>
  <2>1. UNCHANGED <<queue, running, notes, status>>
    BY <1>2 DEF lockVars, historyVars
  <2>2. StateTypeOK'
    BY <1>1, <1>2 DEF Inv, StateTypeOK, lockVars, historyVars, Places
  <2>3. Books'
    BY <1>1, <2>1, BooksUnchanged DEF Inv, Books
  <2> QED BY <1>1, <2>1, <2>2, <2>3, FreeMutex
          DEF Inv, Books, FrontIsRunning, CancelAtRest, PlanResumeIsNew
<1>3. ASSUME running = None, NEW stale \in SUBSET Workflows, StartFront(stale) PROVE Inv'
  <2>1. CASE FreshQueue(stale) = <<>>
    <3>1. NothingFresh(stale)
      BY <1>3, <2>1 DEF StartFront
    <3>2. /\ status' \in [All -> Statuses] /\ Books'
          /\ \A x \in All : status[x] = "new" => status'[x] = "new"
      BY <1>1, <2>1, <3>1, NothingFreshBooks
    <3>3. StateTypeOK'
      BY <1>1, <3>1, <3>2 DEF Inv, StateTypeOK, NothingFresh, Places
    <3>4. PlanResumeIsNew'
      BY <1>1, <3>2, Kinds DEF Inv, PlanResumeIsNew
    <3> QED BY <1>1, <1>3, <3>1, <3>2, <3>3, <3>4, FreeMutex
            DEF Inv, Books, FrontIsRunning, CancelAtRest, NothingFresh
  <2>2. CASE FreshQueue(stale) # <<>>
    <3>1. /\ Promote(FreshQueue(stale)) /\ Spawn(Head(FreshQueue(stale)))
          /\ status' = PromotedStatus(stale)
          /\ UNCHANGED <<version, notes, terminals, aimed>>
      BY <1>3, <2>2 DEF StartFront, PromotedStatus
    <3>2. /\ queue' \in Seq(Ids) /\ queue' # <<>>
          /\ Head(queue') = Head(FreshQueue(stale)) /\ Head(queue') \in Ids
          /\ sendNow' \subseteq Ids /\ held' \subseteq Prompts
          /\ suppressed' \in BOOLEAN /\ rewindable' \in BOOLEAN /\ committed' \in BOOLEAN
          /\ pin' \in Ids /\ started' \in [Prompts -> 0..MaxEdits]
          /\ status' \in [All -> Statuses] /\ Books'
          /\ \A x \in All : status[x] = "new" => status'[x] = "new"
      BY <1>1, <2>2, <3>1, PromoteBooks
    <3>3. running' = Head(queue') /\ tasks' = [tasks EXCEPT ![Head(queue')] = "spawned"]
      BY <3>1, <3>2 DEF Spawn
    <3>4. tasks' \in [Ids -> TaskStates] /\ pc' \in Places
      BY <1>1, <3>3 DEF Inv, StateTypeOK, TaskStates, Places
    <3>5. StateTypeOK'
      BY <1>1, <3>1, <3>2, <3>3, <3>4 DEF Inv, StateTypeOK
    <3>6. PlanResumeIsNew'
      BY <1>1, <3>2, Kinds DEF Inv, PlanResumeIsNew
    <3> QED BY <1>1, <3>2, <3>3, <3>5, <3>6, FreeMutex
            DEF Inv, Books, FrontIsRunning, CancelAtRest
  <2> QED BY <2>1, <2>2
<1> QED BY <1>2, <1>3 DEF MaybeStartRunningTask

\* A promoter begins: it finds nothing to do, or pins the front and keeps the mutex.
LEMMA PromoterBeginStep == ASSUME Inv, NEW r \in Promoters, PromoterBegin(r) PROVE Inv'
<1>1. /\ promoter[r] = "queued" /\ Unlocked
      /\ UNCHANGED <<interjections, completions, pc, cancel>>
  BY DEF PromoterBegin
<1>2. ASSUME NEW next \in {"done", "holding"}, promoter' = [promoter EXCEPT ![r] = next],
             \A x \in All : status[x] = "new" => status'[x] = "new"
      PROVE  /\ promoter' \in [Promoters -> {"init", "queued", "holding", "done"}]
             /\ PlanResumeIsNew'
             /\ \A s \in Promoters : promoter'[s] = "holding" => s = r /\ next = "holding"
  BY <1>1, <1>2, Kinds DEF Inv, StateTypeOK, PlanResumeIsNew, Unlocked
<1>3. CASE /\ promoter' = [promoter EXCEPT ![r] = "done"]
           /\ UNCHANGED <<lockVars, pin, tasks, historyVars>>
  <2>1. UNCHANGED <<queue, running, notes, status>>
    BY <1>3 DEF lockVars, historyVars
  <2>2. /\ promoter' \in [Promoters -> {"init", "queued", "holding", "done"}]
        /\ PlanResumeIsNew' /\ \A s \in Promoters : promoter'[s] # "holding"
    BY <1>2, <1>3, <2>1
  <2>3. StateTypeOK'
    BY <1>1, <1>3, <2>2 DEF Inv, StateTypeOK, lockVars, historyVars
  <2>4. Books'
    BY <1>1, <2>1, BooksUnchanged DEF Inv, Books
  <2> QED BY <1>1, <2>1, <2>2, <2>3, <2>4
          DEF Inv, Books, FrontIsRunning, CancelAtRest, HolderHasFront
<1>4. ASSUME running = None, NEW stale \in SUBSET Workflows, FreshQueue(stale) = <<>>,
             NothingFresh(stale), promoter' = [promoter EXCEPT ![r] = "done"]
      PROVE  Inv'
  <2>1. /\ status' \in [All -> Statuses] /\ Books'
        /\ \A x \in All : status[x] = "new" => status'[x] = "new"
    BY <1>1, <1>4, NothingFreshBooks
  <2>2. /\ promoter' \in [Promoters -> {"init", "queued", "holding", "done"}]
        /\ PlanResumeIsNew' /\ \A s \in Promoters : promoter'[s] # "holding"
    BY <1>2, <1>4, <2>1
  <2>3. StateTypeOK'
    BY <1>1, <1>4, <2>1, <2>2 DEF Inv, StateTypeOK, NothingFresh
  <2> QED BY <1>1, <1>4, <2>1, <2>2, <2>3
          DEF Inv, Books, FrontIsRunning, CancelAtRest, HolderHasFront, NothingFresh
<1>5. ASSUME running = None, NEW stale \in SUBSET Workflows, FreshQueue(stale) # <<>>,
             Promote(FreshQueue(stale)), status' = PromotedStatus(stale),
             promoter' = [promoter EXCEPT ![r] = "holding"],
             UNCHANGED <<running, version, notes, tasks, terminals, aimed>>
      PROVE  Inv'
  <2>1. /\ queue' \in Seq(Ids) /\ queue' # <<>>
        /\ sendNow' \subseteq Ids /\ held' \subseteq Prompts
        /\ suppressed' \in BOOLEAN /\ rewindable' \in BOOLEAN /\ committed' \in BOOLEAN
        /\ pin' \in Ids /\ started' \in [Prompts -> 0..MaxEdits]
        /\ status' \in [All -> Statuses] /\ Books'
        /\ \A x \in All : status[x] = "new" => status'[x] = "new"
    BY <1>1, <1>5, PromoteBooks
  <2>2. /\ promoter' \in [Promoters -> {"init", "queued", "holding", "done"}]
        /\ PlanResumeIsNew'
    BY <1>2, <1>5, <2>1
  <2>3. StateTypeOK'
    BY <1>1, <1>5, <2>1, <2>2 DEF Inv, StateTypeOK
  <2> QED BY <1>1, <1>5, <2>1, <2>2, <2>3
          DEF Inv, Books, FrontIsRunning, CancelAtRest, HolderHasFront
<1> QED BY <1>3, <1>4, <1>5 DEF PromoterBegin, PromotedStatus

\* A promoter arms the running task of the front it pinned and frees the mutex.
LEMMA PromoterSpawnStep == ASSUME Inv, NEW r \in Promoters, PromoterSpawn(r) PROVE Inv'
<1>1. /\ promoter[r] = "holding" /\ running' = Head(queue)
      /\ tasks' = [tasks EXCEPT ![Head(queue)] = "spawned"]
      /\ promoter' = [promoter EXCEPT ![r] = "done"]
      /\ UNCHANGED <<queue, sendNow, held, version, notes, suppressed, rewindable, committed,
                     pin, interjections, completions, pc, cancel, historyVars>>
  BY DEF PromoterSpawn, Spawn
<1>2. queue # <<>> /\ Head(queue) \in Ids
  BY <1>1, Sequences, TailFacts DEF Inv, HolderHasFront
<1>3. /\ tasks' \in [Ids -> TaskStates]
      /\ promoter' \in [Promoters -> {"init", "queued", "holding", "done"}]
  BY <1>1, <1>2 DEF Inv, StateTypeOK, TaskStates
<1>4. StateTypeOK'
  BY <1>1, <1>2, <1>3 DEF Inv, StateTypeOK, historyVars
<1>5. Books'
  BY <1>1, BooksUnchanged DEF Inv, Books, historyVars
<1>6. PlanResumeIsNew' /\ HolderHasFront'
  BY <1>1, <1>2, Kinds DEF Inv, StateTypeOK, PlanResumeIsNew, HolderHasFront, historyVars
<1> QED BY <1>1, <1>2, <1>4, <1>5, <1>6 DEF Inv, Books, FrontIsRunning, CancelAtRest

-----------------------------------------------------------------------------
(* Turn completion, flushes and the entry into a cancel.                   *)

\* The completion of the front's turn pops and answers it; a stale one does not.
LEMMA HandleCompletionStep == ASSUME Inv, HandleCompletion PROVE Inv'
<1> DEFINE t == Head(completions)
           owned == queue # <<>> /\ Head(queue) = t
<1>1. /\ pc = "ready" /\ completions # <<>> /\ Unlocked
      /\ pin' = (IF pin = t THEN None ELSE pin)
      /\ queue' = (IF owned THEN Tail(queue) ELSE queue)
      /\ status' = (IF owned THEN [status EXCEPT ![t] = "ok"] ELSE status)
      /\ running' = (IF running = t \/ owned THEN None ELSE running)
      /\ terminals' = (IF owned THEN [terminals EXCEPT ![t] = @ + 1] ELSE terminals)
      /\ completions' = Tail(completions) /\ pc' = "turnend"
      /\ UNCHANGED <<sendNow, held, version, notes, suppressed, rewindable, committed,
                     interjections, tasks, cancel, promoter, started, aimed>>
  BY DEF HandleCompletion
<1>2. t \in Ids /\ completions' \in Seq(Ids)
  BY <1>1, TailFacts DEF Inv, StateTypeOK
<1> HIDE DEF t
<1>3. CASE owned
  <2>1. queue # <<>> /\ Head(queue) = t /\ queue' = Tail(queue) /\ running' = None
        /\ status' = [status EXCEPT ![t] = "ok"]
        /\ terminals' = [terminals EXCEPT ![t] = @ + 1]
    BY <1>1, <1>3
  <2>2. /\ t \in Elems(queue) /\ queue' \in Seq(Ids) /\ Distinct(queue')
        /\ Elems(queue') = Elems(queue) \ {t}
    BY <2>1, Sequences, TailFacts
  <2>3. /\ status' \in [All -> Statuses] /\ status'[t] = "ok"
        /\ \A x \in All \ {t} : status'[x] = status[x]
    BY <1>2, <2>1, Kinds DEF Inv, StateTypeOK, Statuses
  <2>4. terminals' \in [Ids -> Nat]
    BY <1>2, <2>1 DEF Inv, StateTypeOK
  <2>5. StateTypeOK'
    BY <1>1, <1>2, <2>1, <2>2, <2>3, <2>4 DEF Inv, StateTypeOK, Places
  <2>6. Books' /\ \A x \in All \ {} : status[x] = "new" => status'[x] = "new"
    <3>1. /\ Distinct(interjections') /\ Elems(queue') \cap Elems(interjections') = {}
          /\ Elems(queue') \cup Elems(interjections') =
                ((Elems(queue) \cup Elems(interjections)) \ {t}) \cup {}
      BY <1>1, <2>2, Sequences
    <3>2. /\ {} \in SUBSET Ids /\ \A x \in {} : status[x] = "new" /\ status'[x] = "waiting"
          /\ \A x \in All \ ({} \cup {t}) : status'[x] = status[x]
          /\ {t} \subseteq Elems(queue) \cup Elems(interjections)
          /\ \A x \in {t} : status'[x] \notin {"waiting", "deferred"}
          /\ notes' = notes /\ cancel'.doomed = cancel.doomed
          /\ cancel'.popped = cancel.popped
      BY <1>1, <2>2, <2>3
    <3> QED BY <2>2, <3>1, <3>2, BooksStep
  <2>7. PlanResumeIsNew'
    BY <1>1, <2>6, Kinds DEF Inv, PlanResumeIsNew
  <2> QED BY <1>1, <2>1, <2>5, <2>6, <2>7, FreeMutex
          DEF Inv, Books, FrontIsRunning, CancelAtRest
<1>4. CASE ~owned
  <2>1. UNCHANGED <<queue, status, terminals>> /\ running' \in {running, None}
    BY <1>1, <1>4
  <2>2. StateTypeOK'
    BY <1>1, <1>2, <2>1 DEF Inv, StateTypeOK, Places
  <2>3. Books'
    BY <1>1, <2>1, BooksUnchanged DEF Inv, Books
  <2> QED BY <1>1, <2>1, <2>2, <2>3, FreeMutex
          DEF Inv, Books, FrontIsRunning, CancelAtRest, PlanResumeIsNew
<1> QED BY <1>3, <1>4

\* The flushed interjections join the queue behind the running front.
LEMMA FlushFacts ==
  ASSUME Inv, NEW q \in Seq(Ids), Distinct(q), Elems(q) \cap Elems(interjections) = {}
  PROVE  /\ Flushed(q) \in Seq(Ids) /\ Distinct(Flushed(q))
         /\ Elems(Flushed(q)) = Elems(q) \cup Elems(interjections)
         /\ q # <<>> /\ Head(q) = running => Flushed(q) # <<>> /\ Head(Flushed(q)) = running
<1> DEFINE n == RunningOffset(q, running)
           xs == interjections
           X == Ids
<1>1. n \in 0..Len(q) /\ (q # <<>> /\ Head(q) = running => n = 1)
  BY RunningOffsetFacts
<1>2. q \in Seq(X) /\ xs \in Seq(X) /\ Distinct(xs)
  BY Sequences
<1>3. Flushed(q) = InsertAll(q, n, xs) /\ Elems(q) \cap Elems(xs) = {}
  BY DEF Flushed
<1> HIDE DEF n, X, xs
<1>4. /\ InsertAll(q, n, xs) \in Seq(X)
      /\ Elems(InsertAll(q, n, xs)) = Elems(q) \cup Elems(xs)
      /\ Distinct(q) /\ Distinct(xs) /\ Elems(q) \cap Elems(xs) = {} =>
           Distinct(InsertAll(q, n, xs))
      /\ n >= 1 => /\ q # <<>> /\ InsertAll(q, n, xs) # <<>>
                   /\ Head(InsertAll(q, n, xs)) = Head(q)
  BY <1>1, <1>2, InsertAllFacts
<1> QED BY <1>1, <1>2, <1>3, <1>4 DEF X, xs

\* An empty buffer.
LEMMA EmptyBuffer ==
  ASSUME interjections' = <<>>
  PROVE  /\ interjections' \in Seq(Interjections) /\ Elems(interjections') = {}
         /\ Distinct(interjections')
BY DEF Elems, Distinct

\* The records a cancel starts with.
LEMMA CancelLocalsFacts ==
  ASSUME StateTypeOK, NEW trigger \in Triggers, NEW rewind \in BOOLEAN, NEW kill \in BOOLEAN
  PROVE  /\ CancelLocals(trigger, rewind, kill) \in
              [trigger : Triggers, rewind : BOOLEAN, kill : BOOLEAN,
               pinned : Ids \cup {None}, victim : Ids \cup {None},
               popped : Ids \cup {None}, doomed : SUBSET Ids]
         /\ CancelLocals(trigger, rewind, kill).doomed = {}
         /\ CancelLocals(trigger, rewind, kill).popped = None
BY DEF CancelLocals, NoCancel, StateTypeOK

\* A send-now flushes the buffer and enters the cancel.
LEMMA FlushForSendNowStep == ASSUME Inv, FlushForSendNow PROVE Inv'
<1>1. /\ pc = "sendnow" /\ Unlocked /\ queue' = Flushed(queue)
      /\ sendNow' = sendNow \cup Elems(interjections) /\ interjections' = <<>>
      /\ cancel' = CancelLocals("send_now", FALSE, FALSE) /\ pc' = "cancel"
      /\ UNCHANGED <<running, held, version, notes, suppressed, rewindable, committed, pin,
                     tasks, completions, promoter, status, terminals, started, aimed>>
  BY DEF FlushForSendNow, historyVars
<1>2. /\ queue' \in Seq(Ids) /\ Distinct(queue')
      /\ Elems(queue') = Elems(queue) \cup Elems(interjections)
      /\ queue # <<>> /\ Head(queue) = running => queue' # <<>> /\ Head(queue') = running
  BY <1>1, FlushFacts, Sequences
<1>3. /\ interjections' \in Seq(Interjections) /\ Elems(interjections') = {}
      /\ Distinct(interjections')
  BY <1>1, EmptyBuffer
<1>4. /\ cancel' \in [trigger : Triggers, rewind : BOOLEAN, kill : BOOLEAN,
                      pinned : Ids \cup {None}, victim : Ids \cup {None},
                      popped : Ids \cup {None}, doomed : SUBSET Ids]
      /\ cancel'.doomed = {} /\ cancel'.popped = None
  BY <1>1, CancelLocalsFacts DEF Inv, Triggers
<1>5. cancel'.doomed = cancel.doomed /\ cancel'.popped = cancel.popped
  BY <1>1, <1>4 DEF Inv, CancelAtRest
<1>6. sendNow' \subseteq Ids
  BY <1>1, Sequences DEF Inv, StateTypeOK
<1>7. StateTypeOK'
  BY <1>1, <1>2, <1>3, <1>4, <1>6 DEF Inv, StateTypeOK, Places
<1>8. Books'
  <2>1. /\ Elems(queue') \cap Elems(interjections') = {}
        /\ Elems(queue') \cup Elems(interjections') =
              ((Elems(queue) \cup Elems(interjections)) \ {}) \cup {}
    BY <1>2, <1>3
  <2>2. /\ {} \in SUBSET Ids /\ {} \subseteq Elems(queue) \cup Elems(interjections)
        /\ \A x \in {} : status[x] = "new" /\ status'[x] = "waiting"
        /\ \A x \in All \ ({} \cup {}) : status'[x] = status[x]
        /\ \A x \in {} : status'[x] \notin {"waiting", "deferred"}
        /\ notes' = notes
    BY <1>1
  <2> QED BY <1>2, <1>3, <1>5, <2>1, <2>2, BooksStep
<1>9. FrontIsRunning'
  BY <1>1, <1>2 DEF Inv, FrontIsRunning
<1> QED BY <1>1, <1>4, <1>7, <1>8, <1>9, FreeMutex
        DEF Inv, Books, CancelAtRest, PlanResumeIsNew

\* The buffer is emptied and its entries resolved.
LEMMA EmptyBufferBooks ==
  ASSUME Inv, NEW how \in {"interjected", "cleared"}, interjections' = <<>>,
         status' = Resolve(Elems(interjections), how), UNCHANGED <<queue, notes>>,
         cancel'.doomed = cancel.doomed, cancel'.popped = cancel.popped
  PROVE  /\ interjections' \in Seq(Interjections) /\ status' \in [All -> Statuses]
         /\ Books' /\ \A x \in All : status[x] = "new" => status'[x] = "new"
<1>1. /\ interjections' \in Seq(Interjections) /\ Elems(interjections') = {}
      /\ Distinct(interjections')
  BY EmptyBuffer
<1>2. /\ status' \in [All -> Statuses]
      /\ \A x \in Elems(interjections) : x \in All /\ status'[x] = how
      /\ \A x \in All \ ({} \cup Elems(interjections)) : status'[x] = status[x]
  BY Sequences, Kinds DEF Inv, StateTypeOK, Statuses, Resolve
<1>3. /\ Distinct(queue') /\ Elems(queue') \cap Elems(interjections') = {}
      /\ Elems(queue') \cup Elems(interjections') =
            ((Elems(queue) \cup Elems(interjections)) \ Elems(interjections)) \cup {}
  BY <1>1, Sequences
<1>4. /\ {} \in SUBSET Ids /\ \A x \in {} : status[x] = "new" /\ status'[x] = "waiting"
      /\ Elems(interjections) \subseteq Elems(queue) \cup Elems(interjections)
      /\ \A x \in Elems(interjections) : status'[x] \notin {"waiting", "deferred"}
  BY <1>2
<1>5. Books' /\ \A x \in All \ {} : status[x] = "new" => status'[x] = "new"
  BY <1>1, <1>2, <1>3, <1>4, BooksStep
<1> QED BY <1>1, <1>2, <1>5

\* The turn takes the buffered interjections into its context.
LEMMA TurnDrainInterjectionsStep ==
  ASSUME Inv, NEW t \in Ids, TurnDrainInterjections(t) PROVE Inv'
<1>1. /\ interjections' = <<>> /\ status' = Resolve(Elems(interjections), "interjected")
      /\ UNCHANGED <<queue, running, sendNow, held, version, notes, suppressed, rewindable,
                     committed, pin, tasks, completions, pc, cancel, promoter, terminals,
                     started, aimed>>
  BY DEF TurnDrainInterjections, TurnKeeps
<1>2. /\ interjections' \in Seq(Interjections) /\ status' \in [All -> Statuses]
      /\ Books' /\ \A x \in All : status[x] = "new" => status'[x] = "new"
  BY <1>1, EmptyBufferBooks
<1>3. StateTypeOK'
  BY <1>1, <1>2 DEF Inv, StateTypeOK
<1>4. PlanResumeIsNew'
  BY <1>1, <1>2, Kinds DEF Inv, PlanResumeIsNew
<1> QED BY <1>1, <1>2, <1>3, <1>4
        DEF Inv, Books, FrontIsRunning, CancelAtRest, HolderHasFront

\* An aborted task is over.
LEMMA AbortType ==
  ASSUME StateTypeOK, NEW x PROVE Abort(x) \in [Ids -> TaskStates]
BY DEF StateTypeOK, Abort, TaskStates

\* A cancel command clears the buffer and enters the cancel.
LEMMA CancelCommandStep == ASSUME Inv, NEW o \in Cancels, CancelCommand(o) PROVE Inv'
<1>1. /\ pc = "ready" /\ interjections' = <<>>
      /\ status' = Resolve(Elems(interjections), "cleared")
      /\ suppressed' = (suppressed \/ o.trigger = "ctrl_c")
      /\ tasks' = (IF o.early THEN Abort(running) ELSE tasks)
      /\ cancel' = CancelLocals(o.trigger, o.rewind, o.kill) /\ pc' = "cancel"
      /\ UNCHANGED <<queue, running, sendNow, held, version, notes, rewindable, committed,
                     pin, completions, promoter, terminals, started, aimed>>
  BY DEF CancelCommand, TakeCommand
<1>2. o.trigger \in Triggers /\ o.rewind \in BOOLEAN /\ o.kill \in BOOLEAN
  BY ParameterAssumption DEF Triggers
<1>3. /\ cancel' \in [trigger : Triggers, rewind : BOOLEAN, kill : BOOLEAN,
                      pinned : Ids \cup {None}, victim : Ids \cup {None},
                      popped : Ids \cup {None}, doomed : SUBSET Ids]
      /\ cancel'.doomed = {} /\ cancel'.popped = None
  BY <1>1, <1>2, CancelLocalsFacts DEF Inv
<1>4. cancel'.doomed = cancel.doomed /\ cancel'.popped = cancel.popped
  BY <1>1, <1>3 DEF Inv, CancelAtRest
<1>5. /\ interjections' \in Seq(Interjections) /\ status' \in [All -> Statuses]
      /\ Books' /\ \A x \in All : status[x] = "new" => status'[x] = "new"
  BY <1>1, <1>4, EmptyBufferBooks
<1>6. tasks' \in [Ids -> TaskStates] /\ suppressed' \in BOOLEAN
  BY <1>1, AbortType DEF Inv, StateTypeOK
<1>7. StateTypeOK'
  BY <1>1, <1>3, <1>5, <1>6 DEF Inv, StateTypeOK, Places
<1>8. PlanResumeIsNew'
  BY <1>1, <1>5, Kinds DEF Inv, PlanResumeIsNew
<1> QED BY <1>1, <1>3, <1>5, <1>7, <1>8
        DEF Inv, Books, FrontIsRunning, CancelAtRest, HolderHasFront

\* The panic of the Ctrl+C barrier.
LEMMA CtrlCPanicStep == ASSUME Inv, NEW o \in Cancels, CtrlCPanic(o) PROVE Inv'
<1>1. /\ pc = "ready" /\ pc' = "panicked" /\ interjections' = <<>>
      /\ status' = Resolve(Elems(interjections), "cleared")
      /\ UNCHANGED <<queue, running, sendNow, held, version, notes, suppressed, rewindable,
                     committed, pin, tasks, completions, cancel, promoter, terminals,
                     started, aimed>>
  BY DEF CtrlCPanic, TakeCommand, lockVars
<1>2. /\ interjections' \in Seq(Interjections) /\ status' \in [All -> Statuses]
      /\ Books' /\ \A x \in All : status[x] = "new" => status'[x] = "new"
  BY <1>1, EmptyBufferBooks
<1>3. StateTypeOK'
  BY <1>1, <1>2 DEF Inv, StateTypeOK, Places
<1>4. PlanResumeIsNew'
  BY <1>1, <1>2, Kinds DEF Inv, PlanResumeIsNew
<1> QED BY <1>1, <1>2, <1>3, <1>4
        DEF Inv, Books, FrontIsRunning, CancelAtRest, HolderHasFront

\* A shutdown enters the teardown cancel, or goes on to close the session.
LEMMA ShutdownCommandStep ==
  ASSUME Inv, NEW kind \in Shutdowns, ShutdownCommand(kind) PROVE Inv'
<1>1. /\ pc = "ready" /\ pc' \in {"cancel", "closing"}
      /\ \/ tasks' = Abort(running) /\ cancel' = CancelLocals("shutdown", FALSE, TRUE)
         \/ tasks' = tasks /\ cancel' = cancel
      /\ UNCHANGED <<queue, running, sendNow, held, version, notes, suppressed, rewindable,
                     committed, pin, interjections, completions, promoter, status,
                     terminals, started, aimed>>
  BY DEF ShutdownCommand, TakeCommand, lockVars, historyVars
<1>2. /\ cancel' \in [trigger : Triggers, rewind : BOOLEAN, kill : BOOLEAN,
                      pinned : Ids \cup {None}, victim : Ids \cup {None},
                      popped : Ids \cup {None}, doomed : SUBSET Ids]
      /\ cancel'.doomed = {} /\ cancel'.popped = None
  <2>1. CASE cancel' = CancelLocals("shutdown", FALSE, TRUE)
    BY <2>1, CancelLocalsFacts DEF Inv, Triggers
  <2>2. CASE cancel' = cancel
    BY <1>1, <2>2 DEF Inv, StateTypeOK, CancelAtRest
  <2> QED BY <1>1, <2>1, <2>2
<1>3. tasks' \in [Ids -> TaskStates]
  BY <1>1, AbortType DEF Inv, StateTypeOK
<1>4. StateTypeOK'
  BY <1>1, <1>2, <1>3 DEF Inv, StateTypeOK, Places
<1>5. cancel'.doomed = cancel.doomed /\ cancel'.popped = cancel.popped
  BY <1>1, <1>2 DEF Inv, CancelAtRest
<1>6. Books'
  BY <1>1, <1>5 DEF Inv, Books, OnePlace, UnansweredIsHeld, DeferredIsBuffered
<1> QED BY <1>1, <1>2, <1>4, <1>6
        DEF Inv, Books, FrontIsRunning, CancelAtRest, HolderHasFront, PlanResumeIsNew

-----------------------------------------------------------------------------
(* Steps that change the notification buffer.                              *)

\* The books when notifications come and go with the messages: the arrivals A
\* become "waiting", the departures G stop waiting, and the deferred are the buffered.
LEMMA NotesBooks ==
  ASSUME Inv, NEW A \in SUBSET Ids, NEW G,
         \A x \in A : status[x] # "waiting" /\ status'[x] = "waiting",
         G \subseteq Elems(queue) \cup Elems(interjections),
         \A x \in G : status'[x] # "waiting",
         \A x \in All \ (A \cup G) : status'[x] = "waiting" <=> status[x] = "waiting",
         \A x \in All : status'[x] = "deferred" <=> x \in Elems(notes'),
         Distinct(queue'), Distinct(interjections'),
         Elems(queue') \cap Elems(interjections') = {},
         Elems(queue') \cup Elems(interjections') =
            ((Elems(queue) \cup Elems(interjections)) \ G) \cup A,
         cancel'.doomed = cancel.doomed, cancel'.popped = cancel.popped
  PROVE  Books'
<1> DEFINE H == Elems(queue) \cup Elems(interjections)
           C == cancel.doomed \cup {cancel.popped}
<1>1. \A x \in Ids : status[x] = "waiting" <=> x \in H \cup C
  BY DEF Inv, UnansweredIsHeld
<1>2. H \subseteq Ids /\ H \cap C = {} /\ G \subseteq H
  BY Sequences DEF Inv, OnePlace
<1>3. \A x \in A : x \notin H \cup C
  BY <1>1
<1>4. H' = (H \ G) \cup A /\ C' = C
  OBVIOUS
<1>a. Distinct(queue)' /\ Distinct(interjections)'
      /\ (Elems(queue) \cap Elems(interjections) = {})'
  BY DEF Distinct, Elems
<1> HIDE DEF H, C
<1>5. (H \cap C = {})'
  BY <1>2, <1>3, <1>4
<1>6. OnePlace'
  BY <1>5, <1>a DEF OnePlace, H, C
<1>7. \A x \in Ids : status'[x] = "waiting" <=> x \in H' \cup C'
  BY <1>1, <1>2, <1>3, <1>4, Kinds
<1>8. UnansweredIsHeld'
  BY <1>7 DEF UnansweredIsHeld, H, C
<1>9. DeferredIsBuffered'
  BY DEF DeferredIsBuffered, Elems
<1> QED BY <1>6, <1>8, <1>9 DEF Books

\* What is buffered is deferred, so the actor holds it nowhere else.
LEMMA NotesFacts ==
  ASSUME Inv
  PROVE  /\ notes \in Seq(Wakes \cup Notices) /\ Len(notes) <= MaxNotes
         /\ Elems(notes) \subseteq All
         /\ \A x \in All : x \in Elems(notes) <=> status[x] = "deferred"
         /\ Elems(notes) \cap (Elems(queue) \cup Elems(interjections)) = {}
<1>1. notes \in Seq(Wakes \cup Notices) /\ Len(notes) <= MaxNotes
  BY DEF Inv, StateTypeOK
<1>2. Elems(notes) \subseteq Wakes \cup Notices
  BY <1>1 DEF Elems
<1>3. \A x \in All : x \in Elems(notes) <=> status[x] = "deferred"
  BY DEF Inv, DeferredIsBuffered
<1>4. \A x \in Elems(queue) \cup Elems(interjections) : x \in All /\ status[x] = "waiting"
  BY Sequences, Kinds DEF Inv, UnansweredIsHeld
<1> QED BY <1>1, <1>2, <1>3, <1>4, Kinds

\* Pushing the entries of ns: they and the buffered ones end up buffered or evicted.
LEMMA PushedFacts ==
  ASSUME Inv, NEW ns \in Seq(Wakes \cup Notices)
  PROVE  LET M == PushNotes(notes, ns, MaxNotes)
             R == Deferred(Elems(ns), ns)
         IN  /\ M \in Seq(Wakes \cup Notices) /\ Len(M) <= MaxNotes
             /\ Elems(M) \subseteq Elems(notes) \cup Elems(ns)
             /\ R \in [All -> Statuses]
             /\ \A x \in All : R[x] = "deferred" <=> x \in Elems(M)
             /\ \A x \in All \ (Elems(ns) \cup Elems(notes)) : R[x] = status[x]
             /\ \A x \in All \cap (Elems(ns) \cup Elems(notes)) :
                   R[x] \in {"deferred", "evicted"}
<1> DEFINE X == Wakes \cup Notices
           M == PushNotes(notes, ns, MaxNotes)
           N == Elems(M)
<1>1. notes \in Seq(X) /\ ns \in Seq(X) /\ MaxNotes \in Nat \ {0}
  BY NotesFacts, ParameterAssumption
<1> HIDE DEF X
<1>3. M \in Seq(X) /\ Len(M) <= MaxNotes /\ N \subseteq Elems(notes) \cup Elems(ns)
  BY <1>1, PushNotesFacts
<1>4. Evicted(ns) = (Elems(notes) \cup Elems(ns)) \ N
  BY <1>1, ConcatFacts DEF Evicted
<1> HIDE DEF M, N
<1>6. \A x \in All : x \in Elems(notes) <=> status[x] = "deferred"
  BY NotesFacts
<1>7. Deferred(Elems(ns), ns) =
        [x \in All |-> IF x \in Evicted(ns) THEN "evicted"
                       ELSE IF x \in Elems(ns) THEN "deferred" ELSE status[x]]
  BY DEF Deferred
<1>8. /\ Deferred(Elems(ns), ns) \in [All -> Statuses]
      /\ \A x \in All : Deferred(Elems(ns), ns)[x] = "deferred" <=> x \in N
      /\ \A x \in All \ (Elems(ns) \cup Elems(notes)) : Deferred(Elems(ns), ns)[x] = status[x]
      /\ \A x \in All \cap (Elems(ns) \cup Elems(notes)) :
            Deferred(Elems(ns), ns)[x] \in {"deferred", "evicted"}
  BY <1>3, <1>4, <1>6, <1>7 DEF Inv, StateTypeOK, Statuses
<1> QED BY <1>3, <1>8 DEF X, M, N

\* The same of the buffer after Defer.
LEMMA DeferFacts ==
  ASSUME Inv, NEW ns \in Seq(Wakes \cup Notices), Defer(ns)
  PROVE  /\ notes' \in Seq(Wakes \cup Notices) /\ Len(notes') <= MaxNotes
         /\ Elems(notes') \subseteq Elems(notes) \cup Elems(ns)
         /\ Deferred(Elems(ns), ns) \in [All -> Statuses]
         /\ \A x \in All : Deferred(Elems(ns), ns)[x] = "deferred" <=> x \in Elems(notes')
         /\ \A x \in All \ (Elems(ns) \cup Elems(notes)) :
               Deferred(Elems(ns), ns)[x] = status[x]
         /\ \A x \in All \cap (Elems(ns) \cup Elems(notes)) :
               Deferred(Elems(ns), ns)[x] \in {"deferred", "evicted"}
BY PushedFacts DEF Defer

\* What is in the monitor buffer: events of monitors, which are nobody's messages.
LEMMA EventsFacts ==
  ASSUME MonitorInv
  PROVE  /\ events \in Seq(Monitors) /\ events \in Seq(Wakes \cup Notices)
         /\ Elems(events) \subseteq Monitors /\ Elems(events) \subseteq Notices
         /\ Elems(events) \subseteq All /\ Elems(events) \cap Ids = {}
         /\ \A x \in Elems(events) : status[x] = "held"
         /\ \A x \in Notices : status[x] = "held" => x \in Elems(events)
<1>1. events \in Seq(Monitors) /\ Monitors \subseteq Notices
  BY ParameterAssumption DEF MonitorInv, EventTypeOK
<1>2. events \in Seq(Wakes \cup Notices)
  BY <1>1
<1>3. Elems(events) \subseteq Monitors
  BY <1>1 DEF Elems
<1>4. \A x \in Notices : status[x] = "held" <=> x \in Elems(events)
  BY DEF MonitorInv, HeldIsBuffered
<1> QED BY <1>1, <1>2, <1>3, <1>4, Kinds, OriginAssumption

\* A sweep: what was notified or buffered is notified or evicted, no event is held any
\* more, and no message is touched.
LEMMA Sweeping ==
  ASSUME Inv, MonitorInv
  PROVE  LET R == Deferred(Elems(events), events)
         IN  /\ Pending \in Seq(Wakes \cup Notices) /\ Len(Pending) <= MaxNotes
             /\ R \in [All -> Statuses]
             /\ \A x \in All : R[x] = "deferred" <=> x \in Elems(Pending)
             /\ \A x \in All : R[x] = "waiting" <=> status[x] = "waiting"
             /\ \A x \in All : status[x] = "new" => R[x] = "new"
             /\ \A x \in Notices : R[x] # "held"
             /\ \A x \in User : R[x] = status[x]
<1> DEFINE R == Deferred(Elems(events), events)
<1>1. /\ Pending \in Seq(Wakes \cup Notices) /\ Len(Pending) <= MaxNotes
      /\ R \in [All -> Statuses]
      /\ \A x \in All : R[x] = "deferred" <=> x \in Elems(Pending)
      /\ \A x \in All \ (Elems(events) \cup Elems(notes)) : R[x] = status[x]
      /\ \A x \in All \cap (Elems(events) \cup Elems(notes)) : R[x] \in {"deferred", "evicted"}
  BY EventsFacts, PushedFacts DEF Pending
<1>2. /\ \A x \in Elems(events) : x \in All /\ status[x] = "held"
      /\ \A x \in Notices : status[x] = "held" => x \in Elems(events)
      /\ Elems(events) \subseteq Notices
  BY EventsFacts
<1>3. /\ \A x \in All : x \in Elems(notes) => status[x] = "deferred"
      /\ Elems(notes) \subseteq Wakes \cup Notices
  BY NotesFacts DEF Elems
<1>4. User \subseteq All /\ Notices \subseteq All /\ User \cap (Wakes \cup Notices) = {}
  BY Kinds, OriginAssumption DEF Synthetic, Completion, Ids
<1> HIDE DEF R
<1>5. /\ \A x \in All : R[x] = "waiting" <=> status[x] = "waiting"
      /\ \A x \in All : status[x] = "new" => R[x] = "new"
  <2> SUFFICES ASSUME NEW x \in All
               PROVE  /\ R[x] = "waiting" <=> status[x] = "waiting"
                      /\ status[x] = "new" => R[x] = "new"
    OBVIOUS
  <2>1. CASE x \in Elems(events) \cup Elems(notes)
    BY <1>1, <1>2, <1>3, <2>1
  <2>2. CASE x \notin Elems(events) \cup Elems(notes)
    BY <1>1, <2>2
  <2> QED BY <2>1, <2>2
<1>6. \A x \in Notices : R[x] # "held"
  <2> SUFFICES ASSUME NEW x \in Notices PROVE R[x] # "held"
    OBVIOUS
  <2>1. CASE x \in Elems(events) \cup Elems(notes)
    BY <1>1, <1>4, <2>1
  <2>2. CASE x \notin Elems(events) \cup Elems(notes)
    BY <1>1, <1>2, <1>4, <2>2
  <2> QED BY <2>1, <2>2
<1>7. \A x \in User : R[x] = status[x]
  BY <1>1, <1>2, <1>3, <1>4
<1> QED BY <1>1, <1>5, <1>6, <1>7 DEF R

\* A sweep of which the notifications in S are then reported.
LEMMA TakenFacts ==
  ASSUME Inv, MonitorInv, NEW S
  PROVE  LET T == Taken(S, "reported")
         IN  /\ T \in [All -> Statuses]
             /\ \A x \in All : T[x] = "deferred" <=> x \in Elems(Pending) \ S
             /\ \A x \in All : T[x] = "waiting" <=> status[x] = "waiting"
             /\ \A x \in All : status[x] = "new" => T[x] = "new"
             /\ \A x \in Notices : T[x] # "held"
             /\ \A x \in User : T[x] = status[x]
<1> DEFINE R == Deferred(Elems(events), events)
           P == Elems(Pending)
<1>1. /\ R \in [All -> Statuses]
      /\ \A x \in All : R[x] = "deferred" <=> x \in P
      /\ \A x \in All : R[x] = "waiting" <=> status[x] = "waiting"
      /\ \A x \in All : status[x] = "new" => R[x] = "new"
      /\ \A x \in Notices : R[x] # "held"
      /\ \A x \in User : R[x] = status[x]
  BY Sweeping
<1>2. Taken(S, "reported") = [x \in All |-> IF x \in P \cap S THEN "reported" ELSE R[x]]
  BY DEF Taken
<1>3. P \cap User = {} /\ Notices \subseteq All /\ User \subseteq All
  <2>1. P \subseteq Wakes \cup Notices
    BY Sweeping DEF Elems
  <2> QED BY <2>1, Kinds, OriginAssumption DEF Synthetic, Completion, Ids
<1> HIDE DEF R, P
<1> QED BY <1>1, <1>2, <1>3 DEF Statuses, P

\* The books when only notifications change hands.
LEMMA NotesOnlyBooks ==
  ASSUME Inv, UNCHANGED <<queue, interjections>>,
         cancel'.doomed = cancel.doomed, cancel'.popped = cancel.popped,
         \A x \in All : status'[x] = "waiting" <=> status[x] = "waiting",
         \A x \in All : status'[x] = "deferred" <=> x \in Elems(notes')
  PROVE  Books'
<1>1. OnePlace'
  BY DEF Inv, OnePlace
<1>2. UnansweredIsHeld'
  BY Kinds DEF Inv, UnansweredIsHeld
<1>3. DeferredIsBuffered'
  BY DEF DeferredIsBuffered, Elems
<1> QED BY <1>1, <1>2, <1>3 DEF Books

\* The flush at the end of a turn, with or without a goal continuation.
LEMMA TurnEndStep == ASSUME Inv, MonitorInv, TurnEnd PROVE Inv'
<1>1. /\ pc = "turnend" /\ Unlocked /\ sendNow' = sendNow \cup Elems(interjections)
      /\ interjections' = <<>> /\ pc' = "startdrain" /\ notes' = Pending
      /\ UNCHANGED <<running, held, version, suppressed, rewindable, committed, pin,
                     tasks, completions, cancel, promoter, terminals, started, aimed>>
  BY DEF TurnEnd, Defer, Pending
<1> DEFINE R == Deferred(Elems(events), events)
<1>a. /\ notes' \in Seq(Wakes \cup Notices) /\ Len(notes') <= MaxNotes
      /\ R \in [All -> Statuses]
      /\ \A x \in All : R[x] = "deferred" <=> x \in Elems(notes')
      /\ \A x \in All : R[x] = "waiting" <=> status[x] = "waiting"
      /\ \A x \in All : status[x] = "new" => R[x] = "new"
  BY <1>1, Sweeping
<1>b. \/ queue' = Flushed(queue) /\ status' = R
      \/ \E n \in Nudges : /\ status[n] = "new" /\ queue' = Flushed(Append(queue, n))
                            /\ status' = [R EXCEPT ![n] = "waiting"]
  BY DEF TurnEnd
<1> HIDE DEF R
<1>2. ASSUME NEW q \in Seq(Ids), NEW A \in SUBSET (Ids \ PlanResumes), Distinct(q),
             Elems(q) \cap Elems(interjections) = {}, Elems(q) = Elems(queue) \cup A,
             queue # <<>> => q # <<>> /\ Head(q) = Head(queue),
             queue' = Flushed(q), status' \in [All -> Statuses],
             \A x \in A : status[x] = "new" /\ status'[x] = "waiting",
             \A x \in All \ A : status'[x] = R[x]
      PROVE  Inv'
  <2>1. /\ queue' \in Seq(Ids) /\ Distinct(queue')
        /\ Elems(queue') = Elems(q) \cup Elems(interjections)
        /\ q # <<>> /\ Head(q) = running => queue' # <<>> /\ Head(queue') = running
    BY <1>2, FlushFacts
  <2>2. /\ interjections' \in Seq(Interjections) /\ Elems(interjections') = {}
        /\ Distinct(interjections')
    BY <1>1, EmptyBuffer
  <2>3. sendNow' \subseteq Ids
    BY <1>1, Sequences DEF Inv, StateTypeOK
  <2>4. StateTypeOK'
    BY <1>1, <1>a, <1>2, <2>1, <2>2, <2>3 DEF Inv, StateTypeOK, Places
  <2>5. Books' /\ \A x \in All \ A : status[x] = "new" => status'[x] = "new"
    <3>1. /\ Elems(queue') \cap Elems(interjections') = {}
          /\ Elems(queue') \cup Elems(interjections') =
                ((Elems(queue) \cup Elems(interjections)) \ {}) \cup A
      BY <1>2, <2>1, <2>2
    <3>2. /\ A \in SUBSET Ids /\ {} \subseteq Elems(queue) \cup Elems(interjections)
          /\ \A x \in A : status[x] # "waiting" /\ status'[x] = "waiting"
          /\ \A x \in {} : status'[x] # "waiting"
          /\ \A x \in All \ (A \cup {}) : status'[x] = "waiting" <=> status[x] = "waiting"
          /\ cancel'.doomed = cancel.doomed /\ cancel'.popped = cancel.popped
      BY <1>1, <1>a, <1>2
    <3>3. \A x \in All : status'[x] = "deferred" <=> x \in Elems(notes')
      <4> SUFFICES ASSUME NEW x \in All PROVE status'[x] = "deferred" <=> x \in Elems(notes')
        OBVIOUS
      <4>1. CASE x \in A
        BY <1>a, <1>2, <4>1
      <4>2. CASE x \notin A
        BY <1>a, <1>2, <4>2
      <4> QED BY <4>1, <4>2
    <3>4. Books'
      BY <2>1, <2>2, <3>1, <3>2, <3>3, NotesBooks
    <3>5. \A x \in All \ A : status[x] = "new" => status'[x] = "new"
      BY <1>a, <1>2
    <3> QED BY <3>4, <3>5
  <2>6. PlanResumeIsNew'
    BY <1>1, <1>2, <2>5, Kinds DEF Inv, PlanResumeIsNew
  <2>7. FrontIsRunning'
    BY <1>1, <1>2, <2>1 DEF Inv, FrontIsRunning
  <2> QED BY <1>1, <2>4, <2>5, <2>6, <2>7, FreeMutex DEF Inv, Books, CancelAtRest
<1>3. CASE queue' = Flushed(queue) /\ status' = R
  <2>1. /\ {} \in SUBSET (Ids \ PlanResumes) /\ Elems(queue) = Elems(queue) \cup {}
        /\ status' \in [All -> Statuses]
        /\ \A x \in {} : status[x] = "new" /\ status'[x] = "waiting"
        /\ \A x \in All \ {} : status'[x] = R[x]
    BY <1>a, <1>3
  <2> QED BY <1>2, <1>3, <2>1, Sequences
<1>4. ASSUME NEW n \in Nudges, status[n] = "new", queue' = Flushed(Append(queue, n)),
             status' = [R EXCEPT ![n] = "waiting"]
      PROVE  Inv'
  <2>1. n \in Ids /\ n \in All /\ n \notin PlanResumes
    BY Kinds, OriginAssumption
  <2>2. n \notin Elems(queue) \cup Elems(interjections)
    BY <1>4, <2>1, NewIsNowhere
  <2> DEFINE q == Append(queue, n)
  <2>3. /\ q \in Seq(Ids) /\ Elems(q) = Elems(queue) \cup {n} /\ Distinct(q)
        /\ q # <<>> /\ (queue # <<>> => Head(q) = Head(queue))
    BY <2>1, <2>2, Sequences, AppendFacts
  <2>4. queue' = Flushed(q)
    BY <1>4
  <2> HIDE DEF q
  <2>5. Elems(q) \cap Elems(interjections) = {}
    BY <2>2, <2>3, Sequences
  <2>6. /\ status' \in [All -> Statuses]
        /\ \A x \in {n} : status[x] = "new" /\ status'[x] = "waiting"
        /\ \A x \in All \ {n} : status'[x] = R[x]
    BY <1>a, <1>4, <2>1 DEF Statuses
  <2>7. {n} \in SUBSET (Ids \ PlanResumes)
    BY <2>1
  <2> QED BY <1>2, <2>3, <2>4, <2>5, <2>6, <2>7
<1> QED BY <1>b, <1>3, <1>4

\* A new notification is buffered.
LEMMA DeferNewBooks ==
  ASSUME Inv, NEW n \in Wakes \cup Notices, status[n] = "new", Defer(<<n>>),
         status' = Deferred({n}, <<n>>), UNCHANGED <<queue, interjections, cancel>>
  PROVE  /\ notes' \in Seq(Wakes \cup Notices) /\ Len(notes') <= MaxNotes
         /\ status' \in [All -> Statuses] /\ Books'
         /\ \A x \in All \ {n} : status[x] = "new" => status'[x] = "new"
<1> DEFINE ns == <<n>>
<1>1. ns \in Seq(Wakes \cup Notices) /\ Elems(ns) = {n} /\ n \in All
  BY Kinds DEF Elems
<1>2. Defer(ns) /\ status' = Deferred(Elems(ns), ns)
  BY <1>1
<1> HIDE DEF ns
<1>3. /\ notes' \in Seq(Wakes \cup Notices) /\ Len(notes') <= MaxNotes
      /\ status' \in [All -> Statuses]
      /\ \A x \in All : status'[x] = "deferred" <=> x \in Elems(notes')
      /\ \A x \in All \ (Elems(ns) \cup Elems(notes)) : status'[x] = status[x]
      /\ \A x \in All \cap (Elems(ns) \cup Elems(notes)) :
            status'[x] \in {"deferred", "evicted"}
  <2> DEFINE R == Deferred(Elems(ns), ns)
  <2>1. /\ notes' \in Seq(Wakes \cup Notices) /\ Len(notes') <= MaxNotes
        /\ R \in [All -> Statuses]
        /\ \A x \in All : R[x] = "deferred" <=> x \in Elems(notes')
        /\ \A x \in All \ (Elems(ns) \cup Elems(notes)) : R[x] = status[x]
        /\ \A x \in All \cap (Elems(ns) \cup Elems(notes)) : R[x] \in {"deferred", "evicted"}
    BY <1>1, <1>2, DeferFacts
  <2>2. status' = R
    BY <1>2
  <2> HIDE DEF R
  <2> QED BY <2>1, <2>2
<1>4. \A x \in All : x \in Elems(notes) <=> status[x] = "deferred"
  BY NotesFacts
<1>5. \A x \in All : status'[x] = "waiting" <=> status[x] = "waiting"
  <2> SUFFICES ASSUME NEW x \in All PROVE status'[x] = "waiting" <=> status[x] = "waiting"
    OBVIOUS
  <2>1. CASE x \in Elems(ns) \cup Elems(notes)
    BY <1>1, <1>3, <1>4, <2>1
  <2>2. CASE x \notin Elems(ns) \cup Elems(notes)
    BY <1>3, <2>2
  <2> QED BY <2>1, <2>2
<1>6. Books'
  BY <1>3, <1>5, NotesOnlyBooks
<1>7. \A x \in All \ {n} : status[x] = "new" => status'[x] = "new"
  BY <1>1, <1>3, <1>4
<1> QED BY <1>3, <1>6, <1>7

\* A task wake is admitted, or its fallback buffered.
LEMMA AdmitTaskWakeStep == ASSUME Inv, NEW w \in Wakes, AdmitTaskWake(w) PROVE Inv'
<1>1. /\ pc = "ready" /\ Unlocked /\ status[w] = "new"
      /\ \/ Defer(<<w>>) /\ status' = Deferred({w}, <<w>>) /\ UNCHANGED <<queue, pc>>
         \/ PushBack(w) /\ pc' = "start" /\ UNCHANGED notes
      /\ UNCHANGED <<running, sendNow, held, version, suppressed, rewindable, committed, pin,
                     interjections, tasks, completions, cancel, promoter, terminals,
                     started, aimed>>
  BY DEF AdmitTaskWake, TakeCommand
<1>2. w \in Ids /\ w \notin PlanResumes
  BY Kinds, OriginAssumption DEF Completion
<1>3. /\ notes' \in Seq(Wakes \cup Notices) /\ Len(notes') <= MaxNotes
      /\ queue' \in Seq(Ids) /\ status' \in [All -> Statuses] /\ pc' \in {"ready", "start"}
      /\ queue # <<>> => queue' # <<>> /\ Head(queue') = Head(queue)
      /\ Books' /\ \A x \in All \ {w} : status[x] = "new" => status'[x] = "new"
  <2>1. CASE Defer(<<w>>) /\ status' = Deferred({w}, <<w>>) /\ UNCHANGED <<queue, pc>>
    <3>1. /\ notes' \in Seq(Wakes \cup Notices) /\ Len(notes') <= MaxNotes
          /\ status' \in [All -> Statuses] /\ Books'
          /\ \A x \in All \ {w} : status[x] = "new" => status'[x] = "new"
      BY <1>1, <2>1, DeferNewBooks
    <3> QED BY <1>1, <2>1, <3>1, Sequences
  <2>2. CASE PushBack(w) /\ pc' = "start" /\ UNCHANGED notes
    <3>1. /\ queue' \in Seq(Ids) /\ status' \in [All -> Statuses]
          /\ queue' # <<>> /\ (queue # <<>> => Head(queue') = Head(queue))
          /\ Books' /\ \A y \in All \ {w} : status[y] = "new" => status'[y] = "new"
      BY <1>1, <1>2, <2>2, PushBackBooks
    <3> QED BY <2>2, <3>1, NotesFacts
  <2> QED BY <1>1, <2>1, <2>2
<1>a. UNCHANGED <<running, sendNow, held, version, suppressed, rewindable, committed, pin,
                  interjections, tasks, completions, cancel, promoter, terminals,
                  started, aimed>>
  BY <1>1
<1>4. StateTypeOK'
  BY <1>a, <1>3 DEF Inv, StateTypeOK, Places
<1>5. PlanResumeIsNew'
  BY <1>a, <1>2, <1>3, Kinds DEF Inv, PlanResumeIsNew
<1> QED BY <1>1, <1>3, <1>4, <1>5, FreeMutex
        DEF Inv, Books, FrontIsRunning, CancelAtRest

\* A completion is injected as a notification.
LEMMA InjectNotificationStep ==
  ASSUME Inv, NEW n \in Notices, InjectNotification(n) PROVE Inv'
<1>1. /\ pc = "ready" /\ Unlocked /\ status[n] = "new" /\ pc' = "drain"
      /\ Defer(<<n>>) /\ status' = Deferred({n}, <<n>>)
      /\ UNCHANGED <<queue, running, sendNow, held, version, suppressed, rewindable,
                     committed, pin, interjections, tasks, completions, cancel, promoter,
                     terminals, started, aimed>>
  BY DEF InjectNotification, TakeCommand
<1>2. n \notin PlanResumes
  BY Kinds, OriginAssumption
<1>3. /\ notes' \in Seq(Wakes \cup Notices) /\ Len(notes') <= MaxNotes
      /\ status' \in [All -> Statuses] /\ Books'
      /\ \A x \in All \ {n} : status[x] = "new" => status'[x] = "new"
  BY <1>1, DeferNewBooks
<1>4. StateTypeOK'
  BY <1>1, <1>3 DEF Inv, StateTypeOK, Places
<1>5. PlanResumeIsNew'
  BY <1>1, <1>2, <1>3, Kinds DEF Inv, PlanResumeIsNew
<1> QED BY <1>1, <1>3, <1>4, <1>5, FreeMutex
        DEF Inv, Books, FrontIsRunning, CancelAtRest

\* The idle drain: nothing to do, dropped under a goal, or one new turn.
LEMMA MaybeDrainNotificationsStep == ASSUME Inv, MonitorInv, MaybeDrainNotifications PROVE Inv'
<1>1. /\ pc = "drain" /\ Unlocked /\ pc' \in {"ready", "start"}
      /\ UNCHANGED <<running, sendNow, held, version, suppressed, rewindable, committed, pin,
                     interjections, tasks, completions, cancel, promoter, terminals, started,
                     aimed>>
  BY DEF MaybeDrainNotifications
<1>2. ASSUME NEW d, queue' \in Seq(Ids), status' \in [All -> Statuses],
             notes' \in Seq(Wakes \cup Notices), Len(notes') <= MaxNotes,
             queue # <<>> => queue' # <<>> /\ Head(queue') = Head(queue),
             d \notin PlanResumes, Books',
             \A x \in All \ {d} : status[x] = "new" => status'[x] = "new"
      PROVE  Inv'
  <2>1. StateTypeOK'
    BY <1>1, <1>2 DEF Inv, StateTypeOK, Places
  <2>2. PlanResumeIsNew'
    BY <1>1, <1>2, Kinds DEF Inv, PlanResumeIsNew
  <2> QED BY <1>1, <1>2, <2>1, <2>2, FreeMutex
          DEF Inv, Books, FrontIsRunning, CancelAtRest
<1>3. CASE UNCHANGED <<queue, notes, status>>
  <2>1. Books'
    BY <1>1, <1>3, BooksUnchanged DEF Inv, Books
  <2>2. queue' \in Seq(Ids) /\ status' \in [All -> Statuses]
        /\ notes' \in Seq(Wakes \cup Notices) /\ Len(notes') <= MaxNotes
        /\ None \notin PlanResumes
    BY <1>3, Kinds DEF Inv, StateTypeOK
  <2> QED BY <1>2, <1>3, <2>1, <2>2
<1> DEFINE R == Taken(All, "reported")
<1>a. /\ R \in [All -> Statuses]
      /\ \A x \in All : R[x] # "deferred"
      /\ \A x \in All : R[x] = "waiting" <=> status[x] = "waiting"
      /\ \A x \in All : status[x] = "new" => R[x] = "new"
  BY TakenFacts
<1>b. notes' = <<>> => /\ notes' \in Seq(Wakes \cup Notices) /\ Len(notes') <= MaxNotes
                       /\ Elems(notes') = {}
  BY ParameterAssumption DEF Elems
<1>c. \/ UNCHANGED <<queue, notes, status>>
      \/ notes' = <<>> /\ status' = R /\ UNCHANGED queue
      \/ \E d \in Drains : /\ status[d] = "new" /\ notes' = <<>> /\ queue' = Append(queue, d)
                           /\ status' = [R EXCEPT ![d] = "waiting"]
  BY DEF MaybeDrainNotifications
<1> HIDE DEF R
<1>4. CASE notes' = <<>> /\ status' = R /\ UNCHANGED queue
  <2>1. Books'
    BY <1>1, <1>a, <1>b, <1>4, NotesOnlyBooks
  <2>2. queue' \in Seq(Ids) /\ None \notin PlanResumes
    BY <1>4, Kinds DEF Inv, StateTypeOK
  <2> QED BY <1>2, <1>a, <1>b, <1>4, <2>1, <2>2
<1>5. ASSUME NEW d \in Drains, status[d] = "new", notes' = <<>>,
             queue' = Append(queue, d), status' = [R EXCEPT ![d] = "waiting"]
      PROVE  Inv'
  <2>1. d \in Ids /\ d \in All /\ d \notin PlanResumes
    BY Kinds, OriginAssumption
  <2>2. d \notin Elems(queue) \cup Elems(interjections)
    BY <1>5, <2>1, NewIsNowhere
  <2>3. /\ queue' \in Seq(Ids) /\ Elems(queue') = Elems(queue) \cup {d} /\ Distinct(queue')
        /\ queue' # <<>> /\ (queue # <<>> => Head(queue') = Head(queue))
    BY <1>5, <2>1, <2>2, Sequences, AppendFacts
  <2>4. /\ notes' \in Seq(Wakes \cup Notices) /\ Len(notes') <= MaxNotes /\ Elems(notes') = {}
    BY <1>5, <1>b
  <2>5. /\ status' \in [All -> Statuses] /\ status'[d] = "waiting"
        /\ \A x \in All \ {d} : status'[x] = R[x]
    BY <1>5, <2>1, <1>a DEF Statuses
  <2>6. Books'
    <3>1. /\ {d} \in SUBSET Ids /\ {} \subseteq Elems(queue) \cup Elems(interjections)
          /\ \A x \in {d} : status[x] # "waiting" /\ status'[x] = "waiting"
          /\ \A x \in {} : status'[x] # "waiting"
      BY <1>5, <2>1, <2>5
    <3>2. /\ \A x \in All \ ({d} \cup {}) : status'[x] = "waiting" <=> status[x] = "waiting"
          /\ \A x \in All : status'[x] = "deferred" <=> x \in Elems(notes')
      BY <1>a, <2>4, <2>5
    <3>3. /\ Distinct(interjections') /\ Elems(queue') \cap Elems(interjections') = {}
          /\ Elems(queue') \cup Elems(interjections') =
                ((Elems(queue) \cup Elems(interjections)) \ {}) \cup {d}
          /\ cancel'.doomed = cancel.doomed /\ cancel'.popped = cancel.popped
      BY <1>1, <2>2, <2>3, Sequences
    <3> QED BY <2>3, <3>1, <3>2, <3>3, NotesBooks
  <2>7. \A x \in All \ {d} : status[x] = "new" => status'[x] = "new"
    BY <1>a, <2>5
  <2> QED BY <1>2, <2>1, <2>3, <2>4, <2>5, <2>6, <2>7
<1> QED BY <1>c, <1>3, <1>4, <1>5

\* A filtered buffer of notifications.
LEMMA WithoutNotes ==
  ASSUME NEW ns \in Seq(Wakes \cup Notices), Len(ns) <= MaxNotes, NEW S
  PROVE  LET M == Without(ns, S)
         IN  /\ M \in Seq(Wakes \cup Notices) /\ Len(M) <= MaxNotes
             /\ Elems(M) = Elems(ns) \ S
<1> DEFINE M == Without(ns, S)
<1>1. M \in Seq(Wakes \cup Notices) /\ Elems(M) = Elems(ns) \ S
  BY WithoutFacts
<1>2. Len(M) <= Len(ns)
  BY WithoutLen
<1>3. Len(M) \in Nat /\ Len(ns) \in Nat /\ MaxNotes \in Nat
  BY <1>1, ParameterAssumption
<1> HIDE DEF M
<1>4. Len(M) <= MaxNotes
  BY <1>2, <1>3
<1> QED BY <1>1, <1>4 DEF M

\* A user turn sweeps the monitor buffer and takes the completions into its context.
LEMMA TurnConsumeDeferredStep ==
  ASSUME Inv, MonitorInv, NEW t \in Ids, TurnConsumeDeferred(t) PROVE Inv'
<1>1. PICK S : /\ tasks' = [tasks EXCEPT ![t] = "intake"]
               /\ \/ notes' = Without(Pending, S) /\ status' = Taken(S, "reported")
                  \/ UNCHANGED <<notes, status>>
               /\ UNCHANGED <<queue, running, sendNow, held, version, suppressed, rewindable,
                              committed, pin, interjections, completions, pc, cancel, promoter,
                              terminals, started, aimed>>
  BY DEF TurnConsumeDeferred
<1>2. tasks' \in [Ids -> TaskStates]
  BY <1>1 DEF Inv, StateTypeOK, TaskStates
<1>3. /\ notes' \in Seq(Wakes \cup Notices) /\ Len(notes') <= MaxNotes
      /\ status' \in [All -> Statuses] /\ Books'
      /\ \A x \in All : status[x] = "new" => status'[x] = "new"
  <2>1. CASE notes' = Without(Pending, S) /\ status' = Taken(S, "reported")
    <3>1. Pending \in Seq(Wakes \cup Notices) /\ Len(Pending) <= MaxNotes
      BY Sweeping
    <3>2. /\ notes' \in Seq(Wakes \cup Notices) /\ Len(notes') <= MaxNotes
          /\ Elems(notes') = Elems(Pending) \ S
      BY <2>1, <3>1, WithoutNotes
    <3>3. /\ status' \in [All -> Statuses]
          /\ \A x \in All : status'[x] = "deferred" <=> x \in Elems(Pending) \ S
          /\ \A x \in All : status'[x] = "waiting" <=> status[x] = "waiting"
          /\ \A x \in All : status[x] = "new" => status'[x] = "new"
      BY <2>1, TakenFacts
    <3>4. Books'
      BY <1>1, <3>2, <3>3, NotesOnlyBooks
    <3> QED BY <3>2, <3>3, <3>4
  <2>2. CASE UNCHANGED <<notes, status>>
    BY <1>1, <2>2, BooksUnchanged DEF Inv, StateTypeOK, Books
  <2> QED BY <1>1, <2>1, <2>2
<1>a. UNCHANGED <<queue, running, sendNow, held, version, suppressed, rewindable, committed,
                  pin, interjections, completions, pc, cancel, promoter, terminals,
                  started, aimed>>
  BY <1>1
<1>4. StateTypeOK'
  BY <1>a, <1>2, <1>3 DEF Inv, StateTypeOK
<1>5. PlanResumeIsNew'
  BY <1>a, <1>3, Kinds DEF Inv, PlanResumeIsNew
<1> QED BY <1>a, <1>3, <1>4, <1>5
        DEF Inv, Books, FrontIsRunning, CancelAtRest, HolderHasFront

\* The model read the result of w: its row, its notification and the notified events of
\* its task go.
LEMMA TurnConsumeCompletionStep ==
  ASSUME Inv, NEW t \in Ids, NEW w, TurnConsumeCompletion(t, w)
  PROVE  Inv'
<1> DEFINE G == Swept(queue, running, Completion \cap {w})
           S == Elems(notes) \cap ({w} \cup EventsOf({w}))
<1>1. /\ Unlocked
      /\ queue' = Without(queue, G)
      /\ notes' = Without(notes, S)
      /\ status' = [x \in All |-> IF x \in S \cap {w} THEN "reported"
                                  ELSE IF x \in G \cup S THEN "dropped" ELSE status[x]]
      /\ UNCHANGED <<running, sendNow, held, version, suppressed, rewindable, committed, pin,
                     interjections, tasks, completions, pc, cancel, promoter, terminals,
                     started, aimed>>
  BY DEF TurnConsumeCompletion, TurnKeeps
<1>3. /\ queue' \in Seq(Ids) /\ Elems(queue') = Elems(queue) \ G /\ Distinct(queue')
      /\ queue # <<>> /\ Head(queue) = running => queue' # <<>> /\ Head(queue') = Head(queue)
  BY <1>1, Sequences, SweepFacts DEF Sweep
<1>6. G \subseteq Elems(queue) /\ S \subseteq Elems(notes)
  BY DEF Swept
<1> HIDE DEF G, S
<1>4. /\ notes' \in Seq(Wakes \cup Notices) /\ Len(notes') <= MaxNotes
      /\ Elems(notes') = Elems(notes) \ S
  BY <1>1, NotesFacts, WithoutNotes
<1>7. /\ status' \in [All -> Statuses]
      /\ \A x \in All : x \in G \cup S => status'[x] \in {"reported", "dropped"}
      /\ \A x \in All : x \notin G \cup S => status'[x] = status[x]
  BY <1>1 DEF Inv, StateTypeOK, Statuses
<1>8. /\ \A x \in All : x \in S => status[x] = "deferred"
      /\ \A x \in G : x \in All /\ status[x] = "waiting"
  BY <1>6, NotesFacts, Sequences, Kinds DEF Inv, UnansweredIsHeld
<1>9. Books'
  <2>1. /\ {} \in SUBSET Ids /\ G \subseteq Elems(queue) \cup Elems(interjections)
        /\ \A x \in {} : status[x] # "waiting" /\ status'[x] = "waiting"
        /\ \A x \in G : status'[x] # "waiting"
    BY <1>6, <1>7, <1>8
  <2>2. \A x \in All \ ({} \cup G) : status'[x] = "waiting" <=> status[x] = "waiting"
    BY <1>7, <1>8
  <2>3. \A x \in All : status'[x] = "deferred" <=> x \in Elems(notes')
    BY <1>4, <1>7, <1>8, NotesFacts
  <2>4. /\ Distinct(interjections') /\ Elems(queue') \cap Elems(interjections') = {}
        /\ Elems(queue') \cup Elems(interjections') =
              ((Elems(queue) \cup Elems(interjections)) \ G) \cup {}
        /\ cancel'.doomed = cancel.doomed /\ cancel'.popped = cancel.popped
    BY <1>1, <1>3, <1>6, Sequences
  <2> QED BY <1>3, <2>1, <2>2, <2>3, <2>4, NotesBooks
<1>10. StateTypeOK'
  BY <1>1, <1>3, <1>4, <1>7 DEF Inv, StateTypeOK
<1>11. \A x \in All : status[x] = "new" => status'[x] = "new"
  BY <1>7, <1>8
<1>12. PlanResumeIsNew'
  BY <1>1, <1>11, Kinds DEF Inv, PlanResumeIsNew
<1>13. FrontIsRunning'
  BY <1>1, <1>3 DEF Inv, FrontIsRunning
<1> QED BY <1>1, <1>9, <1>10, <1>12, <1>13, FreeMutex DEF Inv, Books, CancelAtRest

\* A step that moves no message, only notifications and monitor events.
LEMMA NotificationStep ==
  ASSUME Inv, UNCHANGED <<queue, running, sendNow, held, version, suppressed, rewindable,
                          committed, pin, interjections, tasks, completions, pc, cancel,
                          promoter, terminals, started, aimed>>,
         notes' \in Seq(Wakes \cup Notices), Len(notes') <= MaxNotes,
         status' \in [All -> Statuses],
         \A x \in All : status'[x] = "deferred" <=> x \in Elems(notes'),
         \A x \in All : status'[x] = "waiting" <=> status[x] = "waiting",
         \A x \in Ids : status[x] = "new" => status'[x] = "new"
  PROVE  Inv'
<1>1. Books'
  BY NotesOnlyBooks
<1>2. StateTypeOK'
  BY DEF Inv, StateTypeOK
<1>3. PlanResumeIsNew'
  BY Kinds DEF Inv, PlanResumeIsNew
<1> QED BY <1>1, <1>2, <1>3
        DEF Inv, Books, FrontIsRunning, CancelAtRest, HolderHasFront

\* A monitor event is buffered for the turn.
LEMMA BufferMonitorEventStep ==
  ASSUME Inv, MonitorInv, NEW m \in Monitors, BufferMonitorEvent(m) PROVE Inv'
<1> DEFINE E == Elems(events) \ Elems(events')
<1>1. /\ status[m] = "new"
      /\ status' = [x \in All |-> IF x \in E THEN "evicted"
                                  ELSE IF x = m THEN "held" ELSE status[x]]
      /\ UNCHANGED <<queue, running, sendNow, held, version, notes, suppressed, rewindable,
                     committed, pin, interjections, tasks, completions, pc, cancel, promoter,
                     terminals, started, aimed>>
  BY DEF BufferMonitorEvent, lockVars
<1>2. /\ \A x \in E : status[x] = "held" /\ x \notin Ids
      /\ m \in Notices /\ m \notin Ids
  BY EventsFacts, ParameterAssumption, OriginAssumption
<1> HIDE DEF E
<1>3. \A x \in All : x \in Elems(notes) <=> status[x] = "deferred"
  BY NotesFacts
<1>4. /\ status' \in [All -> Statuses]
      /\ \A x \in All : status'[x] = "deferred" <=> x \in Elems(notes')
      /\ \A x \in All : status'[x] = "waiting" <=> status[x] = "waiting"
      /\ \A x \in Ids : status[x] = "new" => status'[x] = "new"
  BY <1>1, <1>2, <1>3, Kinds DEF Inv, StateTypeOK, Statuses
<1>5. notes' \in Seq(Wakes \cup Notices) /\ Len(notes') <= MaxNotes
  BY <1>1, NotesFacts
<1> QED BY <1>1, <1>4, <1>5, NotificationStep

\* The events of a completed task are dropped.
LEMMA DropMonitorNotificationsStep ==
  ASSUME Inv, MonitorInv, NEW w \in Wakes, DropMonitorNotifications(w) PROVE Inv'
<1> DEFINE S == EventsOf({w})
<1>1. /\ notes' = Without(notes, S)
      /\ status' = [x \in All |-> IF x \in (Elems(notes) \cup Elems(events)) \cap S
                                  THEN "dropped" ELSE status[x]]
      /\ UNCHANGED <<queue, running, sendNow, held, version, suppressed, rewindable,
                     committed, pin, interjections, tasks, completions, pc, cancel, promoter,
                     terminals, started, aimed>>
  BY DEF DropMonitorNotifications, Resolve
<1> HIDE DEF S
<1>2. /\ notes' \in Seq(Wakes \cup Notices) /\ Len(notes') <= MaxNotes
      /\ Elems(notes') = Elems(notes) \ S
  BY <1>1, NotesFacts, WithoutNotes
<1>3. /\ \A x \in All : x \in Elems(notes) <=> status[x] = "deferred"
      /\ \A x \in Elems(events) : status[x] = "held"
  BY NotesFacts, EventsFacts
<1>4. /\ status' \in [All -> Statuses]
      /\ \A x \in All : status'[x] = "deferred" <=> x \in Elems(notes')
      /\ \A x \in All : status'[x] = "waiting" <=> status[x] = "waiting"
      /\ \A x \in Ids : status[x] = "new" => status'[x] = "new"
  BY <1>1, <1>2, <1>3, Kinds DEF Inv, StateTypeOK, Statuses
<1> QED BY <1>1, <1>2, <1>4, NotificationStep

\* The turn injects the buffered monitor events.
LEMMA TurnInjectMonitorEventsStep ==
  ASSUME Inv, MonitorInv, NEW t \in Ids, TurnInjectMonitorEvents(t) PROVE Inv'
<1>1. /\ status' = [x \in All |-> IF x \in Elems(events) THEN "reported" ELSE status[x]]
      /\ UNCHANGED <<queue, running, sendNow, held, version, notes, suppressed, rewindable,
                     committed, pin, interjections, tasks, completions, pc, cancel, promoter,
                     terminals, started, aimed>>
  BY DEF TurnInjectMonitorEvents, Resolve, lockVars
<1>2. /\ \A x \in All : x \in Elems(notes) <=> status[x] = "deferred"
      /\ \A x \in Elems(events) : status[x] = "held"
  BY NotesFacts, EventsFacts
<1>3. /\ status' \in [All -> Statuses]
      /\ \A x \in All : status'[x] = "deferred" <=> x \in Elems(notes')
      /\ \A x \in All : status'[x] = "waiting" <=> status[x] = "waiting"
      /\ \A x \in Ids : status[x] = "new" => status'[x] = "new"
  BY <1>1, <1>2, Kinds DEF Inv, StateTypeOK, Statuses
<1>4. notes' \in Seq(Wakes \cup Notices) /\ Len(notes') <= MaxNotes
  BY <1>1, NotesFacts
<1> QED BY <1>1, <1>3, <1>4, NotificationStep

\* The close drops the queued synthetics and the buffer.
LEMMA CloseSessionStep == ASSUME Inv, CloseSession PROVE Inv'
<1> DEFINE G == Elems(queue) \cap Synthetic
<1>1. /\ pc = "closing" /\ Unlocked /\ queue' = Without(queue, Synthetic) /\ notes' = <<>>
      /\ status' = Resolve(G \cup Elems(notes), "dropped") /\ pc' = "closed"
      /\ UNCHANGED <<running, sendNow, held, version, suppressed, rewindable, committed, pin,
                     interjections, tasks, completions, cancel, promoter, terminals, started,
                     aimed>>
  BY DEF CloseSession
<1>2. queue' \in Seq(Ids) /\ Elems(queue') = Elems(queue) \ Synthetic /\ Distinct(queue')
  BY <1>1, Sequences, WithoutFacts
<1>3. G \subseteq Elems(queue) /\ Elems(queue') = Elems(queue) \ G
  BY <1>2
<1> HIDE DEF G
<1>4. notes' \in Seq(Wakes \cup Notices) /\ Len(notes') <= MaxNotes /\ Elems(notes') = {}
  BY <1>1, ParameterAssumption DEF Elems
<1>5. /\ \A x \in All : x \in Elems(notes) <=> status[x] = "deferred"
      /\ \A x \in G : x \in All /\ status[x] = "waiting"
  BY <1>3, NotesFacts, Sequences, Kinds DEF Inv, UnansweredIsHeld
<1>6. /\ status' \in [All -> Statuses]
      /\ \A x \in All : x \in G \cup Elems(notes) => status'[x] = "dropped"
      /\ \A x \in All : x \notin G \cup Elems(notes) => status'[x] = status[x]
  BY <1>1 DEF Inv, StateTypeOK, Resolve, Statuses
<1>7. Books'
  <2>1. /\ {} \in SUBSET Ids /\ G \subseteq Elems(queue) \cup Elems(interjections)
        /\ \A x \in {} : status[x] # "waiting" /\ status'[x] = "waiting"
        /\ \A x \in G : status'[x] # "waiting"
    BY <1>3, <1>5, <1>6
  <2>2. \A x \in All \ ({} \cup G) : status'[x] = "waiting" <=> status[x] = "waiting"
    BY <1>5, <1>6
  <2>3. \A x \in All : status'[x] = "deferred" <=> x \in Elems(notes')
    BY <1>4, <1>5, <1>6
  <2>4. /\ Distinct(interjections') /\ Elems(queue') \cap Elems(interjections') = {}
        /\ Elems(queue') \cup Elems(interjections') =
              ((Elems(queue) \cup Elems(interjections)) \ G) \cup {}
        /\ cancel'.doomed = cancel.doomed /\ cancel'.popped = cancel.popped
    BY <1>1, <1>3, Sequences
  <2> QED BY <1>2, <2>1, <2>2, <2>3, <2>4, NotesBooks
<1>8. StateTypeOK'
  BY <1>1, <1>2, <1>4, <1>6 DEF Inv, StateTypeOK, Places
<1>9. \A x \in All : status[x] = "new" => status'[x] = "new"
  BY <1>5, <1>6
<1>10. PlanResumeIsNew'
  BY <1>1, <1>9, Kinds DEF Inv, PlanResumeIsNew
<1> QED BY <1>1, <1>7, <1>8, <1>10, FreeMutex DEF Inv, Books, CancelAtRest, FrontIsRunning

-----------------------------------------------------------------------------
(* The lock section of a cancel and what follows it.                       *)

\* The lock section takes the rows D into its locals and resolves the rows G.
LEMMA CancelTakes ==
  ASSUME Inv, pc = "cancel", NEW D \in SUBSET Elems(queue), NEW G \in SUBSET Elems(queue),
         D \cap G = {}, Distinct(queue'), Elems(queue') = Elems(queue) \ (D \cup G),
         cancel'.doomed \subseteq D, cancel'.popped \in D \cup {None},
         D \subseteq cancel'.doomed \cup {cancel'.popped}, interjections' = interjections,
         \A x \in G : status'[x] # "waiting",
         \A x \in All \ G : status'[x] = "waiting" <=> status[x] = "waiting",
         \A x \in All : status'[x] = "deferred" <=> x \in Elems(notes')
  PROVE  Books'
<1> DEFINE Q == Elems(queue)
           J == Elems(interjections)
           C == cancel'.doomed \cup {cancel'.popped}
<1>1. Q \subseteq Ids /\ J \subseteq Ids /\ Q \cap J = {} /\ None \notin Ids /\ Ids \subseteq All
  BY Sequences, Kinds
<1>2. \A x \in Ids : status[x] = "waiting" <=> x \in Q \cup J
  <2>1. cancel.doomed = {} /\ cancel.popped = None
    BY DEF Inv, CancelAtRest
  <2> QED BY <1>1, <2>1 DEF Inv, UnansweredIsHeld
<1>3. Elems(queue') = Q \ (D \cup G) /\ Elems(interjections') = J
  OBVIOUS
<1>4. D \subseteq C /\ C \subseteq D \cup {None} /\ D \subseteq Q /\ G \subseteq Q
  OBVIOUS
<1> HIDE DEF Q, J, C
<1>5. /\ Elems(queue') \cap Elems(interjections') = {}
      /\ (Elems(queue') \cup Elems(interjections')) \cap C = {}
  BY <1>1, <1>3, <1>4
<1>6. \A x \in Ids : status'[x] = "waiting" <=>
                        x \in Elems(queue') \cup Elems(interjections') \cup C
  BY <1>1, <1>2, <1>3, <1>4
<1>7. OnePlace'
  <2>1. Distinct(queue') /\ Distinct(interjections')
    BY Sequences
  <2> QED BY <1>5, <2>1 DEF OnePlace, C
<1>8. UnansweredIsHeld'
  BY <1>6 DEF UnansweredIsHeld, C
<1>9. DeferredIsBuffered'
  BY DEF DeferredIsBuffered
<1> QED BY <1>7, <1>8, <1>9 DEF Books

\* A pristine front is taken back.
LEMMA CancelRewindStep == ASSUME Inv, MonitorInv, CancelRewind PROVE Inv'
<1>1. /\ pc = "cancel" /\ Unlocked /\ queue # <<>> /\ tasks' = Abort(running)
      /\ running' = None /\ suppressed' = FALSE /\ rewindable' = FALSE
      /\ queue' = Tail(queue) /\ cancel' = [cancel EXCEPT !.popped = Head(queue)]
      /\ pc' = "finish" /\ notes' = Pending
      /\ UNCHANGED <<sendNow, held, version, committed, pin, interjections,
                     completions, promoter, terminals, started, aimed>>
  BY DEF CancelRewind, Rewinds, Defer, Pending
<1>a. /\ notes' \in Seq(Wakes \cup Notices) /\ Len(notes') <= MaxNotes
      /\ status' \in [All -> Statuses]
      /\ \A x \in All : status'[x] = "deferred" <=> x \in Elems(notes')
      /\ \A x \in All : status'[x] = "waiting" <=> status[x] = "waiting"
      /\ \A x \in All : status[x] = "new" => status'[x] = "new"
  <2>1. status' = Deferred(Elems(events), events)
    BY DEF CancelRewind
  <2> QED BY <1>1, <2>1, Sweeping
<1> DEFINE h == Head(queue)
<1>2. /\ h \in Ids /\ h \in Elems(queue) /\ queue' \in Seq(Ids) /\ Distinct(queue')
      /\ Elems(queue') = Elems(queue) \ {h}
  BY <1>1, Sequences, TailFacts
<1>3. cancel' = [cancel EXCEPT !.popped = h]
  BY <1>1
<1> HIDE DEF h
<1>4. cancel.doomed = {} /\ cancel.popped = None
  BY <1>1 DEF Inv, CancelAtRest
<1>5. /\ cancel' \in [trigger : Triggers, rewind : BOOLEAN, kill : BOOLEAN,
                      pinned : Ids \cup {None}, victim : Ids \cup {None},
                      popped : Ids \cup {None}, doomed : SUBSET Ids]
      /\ cancel'.doomed = {} /\ cancel'.popped = h
  BY <1>2, <1>3, <1>4 DEF Inv, StateTypeOK
<1>6. tasks' \in [Ids -> TaskStates]
  BY <1>1, AbortType DEF Inv
<1>7. StateTypeOK'
  BY <1>1, <1>2, <1>a, <1>5, <1>6 DEF Inv, StateTypeOK, Places
<1>8. Books'
  <2>1. /\ {h} \in SUBSET Elems(queue) /\ {} \in SUBSET Elems(queue) /\ {h} \cap {} = {}
        /\ Elems(queue') = Elems(queue) \ ({h} \cup {})
        /\ cancel'.doomed \subseteq {h} /\ cancel'.popped \in {h} \cup {None}
        /\ {h} \subseteq cancel'.doomed \cup {cancel'.popped}
    BY <1>2, <1>5
  <2>2. /\ \A x \in {} : status'[x] # "waiting"
        /\ \A x \in All \ {} : status'[x] = "waiting" <=> status[x] = "waiting"
        /\ \A x \in All : status'[x] = "deferred" <=> x \in Elems(notes')
    BY <1>a
  <2> QED BY <1>1, <1>2, <2>1, <2>2, CancelTakes
<1>9. PlanResumeIsNew'
  BY <1>1, <1>a, Kinds DEF Inv, PlanResumeIsNew
<1> QED BY <1>1, <1>7, <1>8, <1>9, FreeMutex
        DEF Inv, Books, FrontIsRunning, CancelAtRest

\* The hard teardown takes the whole queue and drops what is notified or buffered.
LEMMA CancelAllStep == ASSUME Inv, MonitorInv, CancelAll PROVE Inv'
<1> DEFINE D == Elems(queue)
           S == Elems(notes) \cup Elems(events)
<1>1. /\ pc = "cancel" /\ Unlocked
      /\ cancel' = [cancel EXCEPT !.victim = running, !.doomed = D]
      /\ running' = None /\ queue' = <<>> /\ notes' = <<>> /\ status' = Resolve(S, "dropped")
      /\ pc' = "abort"
      /\ UNCHANGED <<sendNow, held, version, suppressed, rewindable, committed, pin,
                     interjections, tasks, completions, promoter, terminals, started, aimed>>
  BY DEF CancelAll
<1>2. queue' \in Seq(Ids) /\ Elems(queue') = {} /\ Distinct(queue')
  BY <1>1 DEF Elems, Distinct
<1>3. D \subseteq Ids
  BY Sequences
<1>a. notes' \in Seq(Wakes \cup Notices) /\ Len(notes') <= MaxNotes /\ Elems(notes') = {}
  BY <1>1, ParameterAssumption DEF Elems
<1>b. \A x \in All : /\ x \in S => status[x] \in {"deferred", "held"}
                     /\ status[x] = "deferred" => x \in S
  BY NotesFacts, EventsFacts
<1> HIDE DEF S
<1>4. /\ status' \in [All -> Statuses]
      /\ \A x \in All : status'[x] # "deferred"
      /\ \A x \in All : status'[x] = "waiting" <=> status[x] = "waiting"
      /\ \A x \in All : status[x] = "new" => status'[x] = "new"
  <2>1. status' = [x \in All |-> IF x \in S THEN "dropped" ELSE status[x]]
    BY <1>1 DEF Resolve
  <2>2. status \in [All -> Statuses]
    BY DEF Inv, StateTypeOK
  <2>3. status' \in [All -> Statuses]
    BY <2>1, <2>2 DEF Statuses
  <2>4. ASSUME NEW x \in All
        PROVE  /\ status'[x] # "deferred" /\ (status'[x] = "waiting" <=> status[x] = "waiting")
               /\ status[x] = "new" => status'[x] = "new"
    <3>1. CASE x \in S
      BY <1>b, <2>1, <3>1
    <3>2. CASE x \notin S
      BY <1>b, <2>1, <3>2
    <3> QED BY <3>1, <3>2
  <2> QED BY <2>3, <2>4
<1>5. cancel.doomed = {} /\ cancel.popped = None
  BY <1>1 DEF Inv, CancelAtRest
<1>6. /\ cancel' \in [trigger : Triggers, rewind : BOOLEAN, kill : BOOLEAN,
                      pinned : Ids \cup {None}, victim : Ids \cup {None},
                      popped : Ids \cup {None}, doomed : SUBSET Ids]
      /\ cancel'.doomed = D /\ cancel'.popped = None
  <2> HIDE DEF D
  <2> QED BY <1>1, <1>3, <1>5 DEF Inv, StateTypeOK
<1>7. StateTypeOK'
  BY <1>1, <1>2, <1>a, <1>4, <1>6 DEF Inv, StateTypeOK, Places
<1>8. Books'
  <2>1. /\ D \in SUBSET Elems(queue) /\ {} \in SUBSET Elems(queue) /\ D \cap {} = {}
        /\ Elems(queue') = Elems(queue) \ (D \cup {})
        /\ cancel'.doomed \subseteq D /\ cancel'.popped \in D \cup {None}
        /\ D \subseteq cancel'.doomed \cup {cancel'.popped}
    BY <1>2, <1>6
  <2>2. /\ \A x \in {} : status'[x] # "waiting"
        /\ \A x \in All \ {} : status'[x] = "waiting" <=> status[x] = "waiting"
        /\ \A x \in All : status'[x] = "deferred" <=> x \in Elems(notes')
    BY <1>a, <1>4
  <2> HIDE DEF D
  <2> QED BY <1>1, <1>2, <2>1, <2>2, CancelTakes
<1>10. PlanResumeIsNew'
  BY <1>1, <1>4, Kinds DEF Inv, PlanResumeIsNew
<1> QED BY <1>1, <1>7, <1>8, <1>10, FreeMutex
        DEF Inv, Books, FrontIsRunning, CancelAtRest

\* The front is taken; under Ctrl+C the queued wakes leave or are deferred.
LEMMA CancelFrontStep == ASSUME Inv, MonitorInv, CancelFront PROVE Inv'
<1> DEFINE front == IF queue = <<>> THEN {} ELSE {Head(queue)}
           wakes == IF cancel.trigger = "ctrl_c"
                    THEN (Elems(queue) \cap (Wakes \cup Workflows)) \ front ELSE {}
           fallbacks == Retain(queue, wakes \cap Wakes)
           ns == events \o fallbacks
           F == Elems(events) \cup (wakes \cap Wakes)
           R == Deferred(F, ns)
<1>1. /\ pc = "cancel" /\ Unlocked
      /\ cancel' = [cancel EXCEPT !.victim = running, !.doomed = front]
      /\ queue' = Without(queue, front \cup wakes) /\ Defer(ns)
      /\ status' = [x \in All |-> IF x \in wakes \cap Workflows THEN "removed" ELSE R[x]]
      /\ running' = None /\ pc' = "abort"
      /\ UNCHANGED <<sendNow, held, version, suppressed, rewindable, committed, pin,
                     interjections, tasks, completions, promoter, terminals, started, aimed>>
  BY DEF CancelFront
<1>2. front \subseteq Elems(queue)
  BY Sequences, TailFacts
<1>3. wakes \subseteq Elems(queue) /\ wakes \subseteq Wakes \cup Workflows /\ front \cap wakes = {}
  OBVIOUS
<1> HIDE DEF front, wakes
<1>4. /\ queue' \in Seq(Ids) /\ Distinct(queue')
      /\ Elems(queue') = Elems(queue) \ (front \cup wakes)
  BY <1>1, Sequences, WithoutFacts
<1>5. Elems(fallbacks) = wakes \cap Wakes /\ fallbacks \in Seq(Ids)
  BY <1>3, Sequences, RetainElems
<1> HIDE DEF fallbacks
<1>6. ns \in Seq(Wakes \cup Notices) /\ Elems(ns) = F
  <2>1. \A i \in 1..Len(fallbacks) : fallbacks[i] \in Wakes \cup Notices
    BY <1>5 DEF Elems
  <2>2. fallbacks \in Seq(Wakes \cup Notices) /\ events \in Seq(Wakes \cup Notices)
    BY <1>5, <2>1, EventsFacts
  <2> QED BY <1>5, <2>2, ConcatFacts
<1> HIDE DEF ns
<1>b. /\ \A x \in Elems(events) : x \in All /\ status[x] = "held"
      /\ F = Elems(events) \cup (wakes \cap Wakes)
  BY EventsFacts
<1> HIDE DEF F
<1>7. /\ notes' \in Seq(Wakes \cup Notices) /\ Len(notes') <= MaxNotes
      /\ Elems(notes') \subseteq Elems(notes) \cup F
      /\ R \in [All -> Statuses]
      /\ \A x \in All : R[x] = "deferred" <=> x \in Elems(notes')
      /\ \A x \in All \ (F \cup Elems(notes)) : R[x] = status[x]
      /\ \A x \in All \cap (F \cup Elems(notes)) : R[x] \in {"deferred", "evicted"}
  <2> DEFINE T == Deferred(Elems(ns), ns)
  <2>1. /\ notes' \in Seq(Wakes \cup Notices) /\ Len(notes') <= MaxNotes
        /\ Elems(notes') \subseteq Elems(notes) \cup Elems(ns)
        /\ T \in [All -> Statuses]
        /\ \A x \in All : T[x] = "deferred" <=> x \in Elems(notes')
        /\ \A x \in All \ (Elems(ns) \cup Elems(notes)) : T[x] = status[x]
        /\ \A x \in All \cap (Elems(ns) \cup Elems(notes)) : T[x] \in {"deferred", "evicted"}
    BY <1>1, <1>6, DeferFacts
  <2>2. R = T /\ Elems(ns) = F
    BY <1>6
  <2> HIDE DEF R, T
  <2> QED BY <2>1, <2>2
<1> HIDE DEF R
<1>8. /\ \A x \in All : x \in Elems(notes) <=> status[x] = "deferred"
      /\ Elems(notes) \cap Elems(queue) = {}
      /\ Wakes \cap Workflows = {}
  BY NotesFacts, OriginAssumption
<1>9. /\ status' \in [All -> Statuses]
      /\ \A x \in All : x \in wakes \cap Workflows => status'[x] = "removed"
      /\ \A x \in All : x \notin wakes \cap Workflows => status'[x] = R[x]
  BY <1>1, <1>7 DEF Statuses
<1>10. cancel.doomed = {} /\ cancel.popped = None
  BY <1>1 DEF Inv, CancelAtRest
<1>11. /\ cancel' \in [trigger : Triggers, rewind : BOOLEAN, kill : BOOLEAN,
                       pinned : Ids \cup {None}, victim : Ids \cup {None},
                       popped : Ids \cup {None}, doomed : SUBSET Ids]
       /\ cancel'.doomed = front /\ cancel'.popped = None
  <2>1. front \subseteq Ids
    BY <1>2, Sequences
  <2> QED BY <1>1, <1>10, <2>1 DEF Inv, StateTypeOK
<1>12. StateTypeOK'
  BY <1>1, <1>4, <1>7, <1>9, <1>11 DEF Inv, StateTypeOK, Places
<1>13. wakes \subseteq All /\ \A x \in wakes : status[x] = "waiting"
  BY <1>3, Sequences, Kinds DEF Inv, UnansweredIsHeld
<1>c. (wakes \cap Workflows) \cap F = {}
  BY <1>8, <1>13, <1>b
<1>14. Books'
  <2>1. /\ front \in SUBSET Elems(queue) /\ wakes \in SUBSET Elems(queue)
        /\ front \cap wakes = {}
        /\ cancel'.doomed \subseteq front /\ cancel'.popped \in front \cup {None}
        /\ front \subseteq cancel'.doomed \cup {cancel'.popped}
    BY <1>2, <1>3, <1>11
  <2>2. \A x \in wakes : status'[x] # "waiting"
    BY <1>3, <1>b, <1>7, <1>9, <1>13
  <2>3. \A x \in All \ wakes : status'[x] = "waiting" <=> status[x] = "waiting"
    <3> SUFFICES ASSUME NEW x \in All \ wakes
                 PROVE  status'[x] = "waiting" <=> status[x] = "waiting"
      OBVIOUS
    <3>1. status'[x] = R[x]
      BY <1>9
    <3>2. CASE x \in Elems(notes) \cup F
      BY <1>b, <1>7, <1>8, <3>1, <3>2
    <3>3. CASE x \notin Elems(notes) \cup F
      BY <1>7, <3>1, <3>3
    <3> QED BY <3>2, <3>3
  <2>4. \A x \in All : status'[x] = "deferred" <=> x \in Elems(notes')
    BY <1>3, <1>7, <1>8, <1>9, <1>13, <1>c
  <2> QED BY <1>1, <1>4, <2>1, <2>2, <2>3, <2>4, CancelTakes
<1>15. \A x \in All : status[x] = "new" => status'[x] = "new"
  <2> SUFFICES ASSUME NEW x \in All, status[x] = "new" PROVE status'[x] = "new"
    OBVIOUS
  <2>1. x \notin wakes /\ x \notin Elems(notes) \cup F
    BY <1>b, <1>8, <1>13
  <2> QED BY <1>7, <1>9, <2>1
<1>16. PlanResumeIsNew'
  BY <1>1, <1>15, Kinds DEF Inv, PlanResumeIsNew
<1> QED BY <1>1, <1>12, <1>14, <1>16, FreeMutex
        DEF Inv, Books, FrontIsRunning, CancelAtRest

\* The task of the cancelled turn is aborted.
LEMMA CancelAbortStep == ASSUME Inv, CancelAbort PROVE Inv'
<1>1. /\ pc = "abort" /\ pc' = "finish" /\ tasks' = Abort(cancel.victim)
      /\ UNCHANGED <<queue, running, sendNow, held, version, notes, suppressed, rewindable,
                     committed, pin, interjections, completions, cancel, promoter, status,
                     terminals, started, aimed>>
  BY DEF CancelAbort, lockVars, historyVars
<1>2. tasks' \in [Ids -> TaskStates]
  BY <1>1, AbortType DEF Inv
<1>3. StateTypeOK'
  BY <1>1, <1>2 DEF Inv, StateTypeOK, Places
<1>4. Books'
  BY <1>1, BooksUnchanged DEF Inv, Books
<1> QED BY <1>1, <1>3, <1>4
        DEF Inv, Books, FrontIsRunning, CancelAtRest, HolderHasFront, PlanResumeIsNew

\* The cancel answers what it holds and goes back to rest.
LEMMA CancelFinishStep == ASSUME Inv, CancelFinish PROVE Inv'
<1> DEFINE C == cancel.doomed \cup {cancel.popped}
           H == Elems(queue) \cup Elems(interjections)
<1>1. /\ pc = "finish" /\ pin' = None /\ cancel' = NoCancel
      /\ terminals' = [x \in Ids |-> IF x = CancelledId /\ cancel.popped = None
                                     THEN terminals[x] + 1 ELSE terminals[x]]
      /\ status' = [x \in All |-> IF x = cancel.popped THEN "rewound"
                                  ELSE IF x \in cancel.doomed THEN "cancelled" ELSE status[x]]
      /\ suppressed' = (suppressed /\ cancel.trigger # "send_now")
      /\ UNCHANGED <<queue, running, sendNow, held, version, notes, rewindable, committed,
                     interjections, tasks, completions, promoter, started, aimed>>
  BY DEF CancelFinish
<1>2. pc' \in {"startdrain", "start", "closing"}
  <2>1. cancel.trigger \in {"none", "ctrl_c", "send_now", "shutdown"}
    BY DEF Inv, StateTypeOK, Triggers
  <2>2. pc' = CASE cancel.trigger = "none" -> "startdrain"
                [] cancel.trigger \in {"ctrl_c", "send_now"} -> "start"
                [] cancel.trigger = "shutdown" -> "closing"
    BY DEF CancelFinish
  <2> QED BY <2>1, <2>2
<1>3. cancel' \in [trigger : Triggers, rewind : BOOLEAN, kill : BOOLEAN,
                   pinned : Ids \cup {None}, victim : Ids \cup {None},
                   popped : Ids \cup {None}, doomed : SUBSET Ids]
      /\ cancel'.doomed = {} /\ cancel'.popped = None
  BY <1>1 DEF NoCancel, Triggers
<1>4. terminals' \in [Ids -> Nat]
  BY <1>1 DEF Inv, StateTypeOK
<1>5. /\ status' \in [All -> Statuses]
      /\ \A x \in All : x \in C => status'[x] \in {"rewound", "cancelled"}
      /\ \A x \in All : x \notin C => status'[x] = status[x]
  BY <1>1 DEF Inv, StateTypeOK, Statuses
<1>6. suppressed' \in BOOLEAN
  BY <1>1
<1>7. StateTypeOK'
  BY <1>1, <1>2, <1>3, <1>4, <1>5, <1>6 DEF Inv, StateTypeOK, Places
<1>8. /\ \A x \in Ids : status[x] = "waiting" <=> x \in H \cup C
      /\ H \cap C = {} /\ H \subseteq Ids /\ None \notin Ids /\ Ids \subseteq All
      /\ C \subseteq Ids \cup {None} /\ None \notin All
  BY Sequences, Kinds, OriginAssumption DEF Inv, UnansweredIsHeld, OnePlace, StateTypeOK, All
<1> HIDE DEF C, H
<1>9. \A x \in Ids : status'[x] = "waiting" <=> x \in H
  BY <1>5, <1>8
<1>10. OnePlace'
  BY <1>1, <1>3, <1>8 DEF Inv, OnePlace, H
<1>11. UnansweredIsHeld'
  BY <1>1, <1>3, <1>8, <1>9 DEF UnansweredIsHeld, H
<1>12. \A x \in All : status'[x] = "deferred" <=> status[x] = "deferred"
  BY <1>5, <1>8
<1>13. DeferredIsBuffered'
  BY <1>1, <1>12 DEF Inv, DeferredIsBuffered
<1>14. \A x \in All : status[x] = "new" => status'[x] = "new"
  BY <1>5, <1>8
<1>15. PlanResumeIsNew'
  BY <1>1, <1>14, Kinds DEF Inv, PlanResumeIsNew
<1> QED BY <1>1, <1>2, <1>3, <1>7, <1>10, <1>11, <1>13, <1>15
        DEF Inv, FrontIsRunning, CancelAtRest, HolderHasFront

-----------------------------------------------------------------------------
(* The invariant of the specification.                                     *)

\* Every command keeps the invariant.
LEMMA CommandStep == ASSUME Inv, MonitorInv, Command PROVE Inv'
<1>1. ASSUME NEW p \in Prompts,
             SubmitPrompt(p) \/ RemoveQueuedPrompt(p) \/ EditQueuedPrompt(p)
               \/ InterjectQueuedPrompt(p) \/ InterjectMissed(p)
      PROVE  Inv'
  BY <1>1, SubmitPromptStep, RemoveQueuedPromptStep, EditQueuedPromptStep,
     InterjectQueuedPromptStep, InterjectMissedStep
<1>2. ASSUME NEW p \in Editable, HoldCombineEdit(p) \/ ReleaseCombineEdit(p) PROVE Inv'
  BY <1>2, HoldCombineEditStep, ReleaseCombineEditStep
<1>3. ASSUME NEW o \in Clients \cup {None}, ClearQueue(o) PROVE Inv'
  BY <1>3, ClearQueueStep
<1>4. ASSUME NEW s \in Orders, ReorderQueue(s) PROVE Inv'
  BY <1>4, ReorderQueueStep
<1>5. ASSUME NEW w \in Wakes, AdmitTaskWake(w) PROVE Inv'
  BY <1>5, AdmitTaskWakeStep
<1>6. ASSUME NEW x \in SubWakes \cup Crons \cup Workflows \cup Nudges, QueueSynthetic(x)
      PROVE  Inv'
  BY <1>6, QueueSyntheticStep
<1>7. ASSUME NEW n \in Notices, InjectNotification(n) PROVE Inv'
  BY <1>7, InjectNotificationStep
<1>8. ASSUME NEW j \in Interjections, BufferInterjection(j) \/ QueueInterjection(j)
      PROVE  Inv'
  BY <1>8, BufferInterjectionStep, QueueInterjectionStep
<1>9. ASSUME NEW o \in Cancels, CancelCommand(o) \/ CtrlCPanic(o) PROVE Inv'
  BY <1>9, CancelCommandStep, CtrlCPanicStep
<1>10. ASSUME NEW k \in Shutdowns, ShutdownCommand(k) PROVE Inv'
  BY <1>10, ShutdownCommandStep
<1>11. ASSUME NEW m \in Monitors, BufferMonitorEvent(m) PROVE Inv'
  BY <1>11, BufferMonitorEventStep
<1>12. ASSUME NEW w \in Wakes, DropMonitorNotifications(w) PROVE Inv'
  BY <1>12, DropMonitorNotificationsStep
<1> QED BY <1>1, <1>2, <1>3, <1>4, <1>5, <1>6, <1>7, <1>8, <1>9, <1>10, <1>11, <1>12
        DEF Command

\* Every step of a handler keeps the invariant.
LEMMA ActorStepStep == ASSUME Inv, MonitorInv, ActorStep PROVE Inv'
BY HandleCompletionStep, TurnEndStep, MaybeStartRunningTaskStep,
   MaybeDrainNotificationsStep, FlushForSendNowStep, CancelRewindStep, CancelAllStep,
   CancelFrontStep, CancelAbortStep, CancelFinishStep, CloseSessionStep
   DEF ActorStep

\* Every step of a turn task keeps the invariant.
LEMMA TurnStepStep == ASSUME Inv, MonitorInv, NEW t \in Ids, TurnStep(t) PROVE Inv'
BY TurnConsumeDeferredStep, TurnCommitStep, TurnHostCommandStep, TurnFailStep,
   TurnCloseScopeStep, TurnSendCompletionStep
   DEF TurnStep

\* So do its side effects.
LEMMA TurnSideEffectStep == ASSUME Inv, MonitorInv, NEW t \in Ids, TurnSideEffect(t) PROVE Inv'
<1>1. ASSUME NEW w \in Completion \cup (Notices \ Monitors), TurnConsumeCompletion(t, w) PROVE Inv'
  BY <1>1, TurnConsumeCompletionStep
<1> QED BY <1>1, TurnEmitStep, TurnDrainInterjectionsStep, TurnInjectMonitorEventsStep
        DEF TurnSideEffect

\* The invariant is inductive, given the books of the monitor buffer.
LEMMA NextInv == Inv /\ MonitorInv /\ [Next]_vars => Inv'
<1> SUFFICES ASSUME Inv, MonitorInv, [Next]_vars PROVE Inv'
  OBVIOUS
<1>1. CASE Command
  BY <1>1, CommandStep
<1>2. CASE ActorStep
  BY <1>2, ActorStepStep
<1>3. ASSUME NEW t \in Ids, TurnStep(t) \/ TurnSideEffect(t) PROVE Inv'
  BY <1>3, TurnStepStep, TurnSideEffectStep
<1>4. ASSUME NEW r \in Promoters, PlanResumeQueue(r) \/ PromoterStep(r) PROVE Inv'
  BY <1>4, PlanResumeQueueStep, PromoterBeginStep, PromoterSpawnStep DEF PromoterStep
<1>5. CASE UNCHANGED vars
  <2>1. /\ UNCHANGED <<queue, running, sendNow, held, version, notes, suppressed, rewindable,
                       committed, pin, interjections, tasks, completions, pc, cancel,
                       promoter, status, terminals, started, aimed>>
    BY <1>5 DEF vars, lockVars, historyVars
  <2>2. StateTypeOK'
    BY <2>1 DEF Inv, StateTypeOK
  <2> QED BY <2>1, <2>2, QuietStep
<1> QED BY <1>1, <1>2, <1>3, <1>4, <1>5 DEF Next, Halted

-----------------------------------------------------------------------------
(* The books of the monitor buffer: the held events are the buffered ones. *)

\* Initially nothing is held.
LEMMA InitMonitor == Init => MonitorInv
<1> SUFFICES ASSUME Init PROVE MonitorInv
  OBVIOUS
<1>1. events = <<>> /\ status = [x \in All |-> "new"]
  BY DEF Init
<1>2. Elems(events) = {}
  BY <1>1 DEF Elems
<1> QED BY <1>1, <1>2, Kinds, ParameterAssumption DEF MonitorInv, EventTypeOK, HeldIsBuffered

\* The buffer is left alone, and no event starts or stops being held.
LEMMA EventsKept ==
  ASSUME MonitorInv, events' = events,
         \A x \in Notices : status'[x] = "held" <=> status[x] = "held"
  PROVE  MonitorInv'
BY DEF MonitorInv, EventTypeOK, HeldIsBuffered

\* The buffer is swept, and no event is held any more.
LEMMA EventsGone ==
  ASSUME MonitorInv, events' = <<>>, \A x \in Notices : status'[x] # "held"
  PROVE  MonitorInv'
<1>1. events' \in Seq(Monitors) /\ Len(events') <= MaxEvents /\ Elems(events') = {}
  BY ParameterAssumption DEF Elems
<1> QED BY <1>1 DEF MonitorInv, EventTypeOK, HeldIsBuffered

\* What a step does to the notifications of Notices, when the monitor buffer is left alone:
\* nothing, or it resolves other entries.
LEMMA EventsResolve ==
  ASSUME Inv, MonitorInv, events' = events, NEW S, NEW how, how # "held",
         status' = Resolve(S, how), S \cap Elems(events) = {}
  PROVE  MonitorInv'
<1>1. \A x \in Notices : x \in All /\ (status[x] = "held" <=> x \in Elems(events))
  BY Kinds DEF MonitorInv, HeldIsBuffered
<1>2. \A x \in Notices : status'[x] = "held" <=> status[x] = "held"
  BY <1>1 DEF Resolve
<1> QED BY <1>2, EventsKept

\* A step that updates the status of one message.
LEMMA EventsExcept ==
  ASSUME Inv, MonitorInv, events' = events, NEW x \in Ids, NEW how,
         status' = [status EXCEPT ![x] = how]
  PROVE  MonitorInv'
<1>1. status \in [All -> Statuses] /\ x \notin Notices /\ Notices \subseteq All
  BY Kinds, OriginAssumption DEF Inv, StateTypeOK
<1>2. \A y \in Notices : status'[y] = status[y]
  BY <1>1
<1> QED BY <1>2, EventsKept

\* The messages and the buffered notifications are not held events.
LEMMA EventsApart ==
  ASSUME Inv, MonitorInv
  PROVE  /\ Elems(events) \cap Ids = {} /\ Elems(events) \cap Elems(notes) = {}
         /\ Elems(events) \cap (Elems(queue) \cup Elems(interjections)) = {}
<1>1. \A x \in Elems(events) : x \in All /\ x \notin Ids /\ status[x] = "held"
  BY EventsFacts
<1> QED BY <1>1, NotesFacts, Sequences

\* A new notification that is deferred.
LEMMA EventsDefer ==
  ASSUME Inv, MonitorInv, events' = events, NEW n \in Wakes \cup Notices, status[n] = "new",
         status' = Deferred({n}, <<n>>)
  PROVE  MonitorInv'
<1>1. /\ \A x \in Notices : x \in All /\ (status[x] = "held" => x \notin Elems(notes))
      /\ \A x \in Notices : x \in Evicted(<<n>>) => x = n \/ x \in Elems(notes)
  <2>1. <<n>> \in Seq(Wakes \cup Notices) /\ Elems(<<n>>) = {n}
    BY DEF Elems
  <2>2. Elems(notes \o <<n>>) = Elems(notes) \cup {n}
    <3> DEFINE X == Wakes \cup Notices
               ns == <<n>>
    <3>1. notes \in Seq(X) /\ ns \in Seq(X) /\ Elems(ns) = {n}
      BY <2>1, NotesFacts
    <3> HIDE DEF X, ns
    <3>2. Elems(notes \o ns) = Elems(notes) \cup Elems(ns)
      BY <3>1, ConcatFacts
    <3> QED BY <3>1, <3>2 DEF ns
  <2> QED BY <2>2, NotesFacts, Kinds DEF Evicted
<1>2. \A x \in Notices : status'[x] = "held" <=> status[x] = "held"
  BY <1>1 DEF Deferred
<1> QED BY <1>2, EventsKept

\* A promotion concerns rows of the queue only.
LEMMA PromotionKeepsNotices ==
  ASSUME Inv, NEW stale \in SUBSET Workflows,
         \/ NothingFresh(stale)
         \/ FreshQueue(stale) # <<>> /\ status' = PromotedStatus(stale)
  PROVE  \A x \in Notices : status'[x] = status[x]
<1> DEFINE q == FreshQueue(stale)
<1>1. StaleFronts(stale) \subseteq Ids /\ q \in Seq(Ids)
  BY FreshQueueFacts, Sequences
<1>2. q # <<>> => Folded(q) \subseteq Ids
  BY FreshQueueFacts, Sequences
<1>3. Notices \subseteq All /\ Notices \cap Ids = {}
  BY Kinds, OriginAssumption
<1>4. CASE NothingFresh(stale)
  <2>1. status' = [x \in All |-> IF x \in StaleFronts(stale) THEN "removed" ELSE status[x]]
    BY <1>4 DEF NothingFresh, Resolve
  <2> QED BY <1>1, <1>3, <2>1
<1>5. CASE q # <<>> /\ status' = PromotedStatus(stale)
  <2>1. status' = [x \in All |-> IF x \in StaleFronts(stale) THEN "removed"
                                 ELSE IF x \in Folded(q) THEN "merged" ELSE status[x]]
    BY <1>5 DEF PromotedStatus
  <2> HIDE DEF q
  <2> QED BY <1>1, <1>2, <1>3, <1>5, <2>1
<1> QED BY <1>4, <1>5

\* The commands that leave the monitor buffer alone.
LEMMA MonitorCommand ==
  ASSUME Inv, MonitorInv, Command,
         ~(\E m \in Monitors : BufferMonitorEvent(m)),
         ~(\E w \in Wakes : DropMonitorNotifications(w))
  PROVE  MonitorInv'
<1>1. ASSUME NEW p \in Prompts, SubmitPrompt(p) PROVE MonitorInv'
  <2>1. /\ events' = events
        /\ status' = [x \in All |-> IF x = p THEN "waiting"
                                    ELSE IF x \in Preempted THEN "dropped" ELSE status[x]]
    BY <1>1 DEF SubmitPrompt
  <2>2. Preempted \subseteq Ids /\ p \in Ids /\ Ids \cap Notices = {} /\ Notices \subseteq All
    BY Sequences, Kinds, OriginAssumption DEF Preempted, Swept
  <2>3. \A x \in Notices : status'[x] = status[x]
    BY <2>1, <2>2
  <2> QED BY <2>1, <2>3, EventsKept
<1>2. ASSUME NEW p \in Prompts, RemoveQueuedPrompt(p) PROVE MonitorInv'
  BY <1>2, EventsExcept, Kinds DEF RemoveQueuedPrompt, ClientCommand
<1>3. ASSUME NEW p \in Prompts,
             EditQueuedPrompt(p) \/ InterjectQueuedPrompt(p) \/ InterjectMissed(p)
      PROVE  MonitorInv'
  BY <1>3, EventsKept
     DEF EditQueuedPrompt, InterjectQueuedPrompt, InterjectMissed, ClientCommand
<1>4. ASSUME NEW p \in Editable, HoldCombineEdit(p) \/ ReleaseCombineEdit(p) PROVE MonitorInv'
  BY <1>4, EventsKept DEF HoldCombineEdit, ReleaseCombineEdit, ClientCommand
<1>5. ASSUME NEW o \in Clients \cup {None}, ClearQueue(o) PROVE MonitorInv'
  <2> DEFINE S == {p \in Prompts : Row(p) /\ (o = None \/ Owner[p] = o)}
  <2>1. events' = events /\ status' = Resolve(S, "removed")
    BY <1>5 DEF ClearQueue, ClientCommand
  <2>2. S \subseteq Ids
    BY Kinds
  <2> HIDE DEF S
  <2> QED BY <2>1, <2>2, EventsApart, EventsResolve
<1>6. ASSUME NEW s \in Orders, ReorderQueue(s) PROVE MonitorInv'
  BY <1>6, EventsKept DEF ReorderQueue, ClientCommand
<1>7. ASSUME NEW w \in Wakes, AdmitTaskWake(w) PROVE MonitorInv'
  <2>1. /\ events' = events /\ status[w] = "new"
        /\ status' = Deferred({w}, <<w>>) \/ status' = [status EXCEPT ![w] = "waiting"]
    BY <1>7 DEF AdmitTaskWake, PushBack
  <2> QED BY <2>1, EventsDefer, EventsExcept, Kinds
<1>8. ASSUME NEW x \in SubWakes \cup Crons \cup Workflows \cup Nudges, QueueSynthetic(x)
      PROVE  MonitorInv'
  <2>1. events' = events /\ status' = [status EXCEPT ![x] = "waiting"] /\ x \in Ids
    BY <1>8, Kinds DEF QueueSynthetic, PushBack
  <2> QED BY <2>1, EventsExcept
<1>9. ASSUME NEW n \in Notices, InjectNotification(n) PROVE MonitorInv'
  BY <1>9, EventsDefer DEF InjectNotification
<1>10. ASSUME NEW j \in Interjections, BufferInterjection(j) \/ QueueInterjection(j)
       PROVE  MonitorInv'
  BY <1>10, EventsExcept, Kinds DEF BufferInterjection, QueueInterjection
<1>11. ASSUME NEW o \in Cancels, CancelCommand(o) \/ CtrlCPanic(o) PROVE MonitorInv'
  <2>1. events' = events /\ status' = Resolve(Elems(interjections), "cleared")
    BY <1>11 DEF CancelCommand, CtrlCPanic
  <2> QED BY <2>1, EventsApart, EventsResolve
<1>12. ASSUME NEW k \in Shutdowns, ShutdownCommand(k) PROVE MonitorInv'
  BY <1>12, EventsKept DEF ShutdownCommand, historyVars
<1> QED BY <1>1, <1>2, <1>3, <1>4, <1>5, <1>6, <1>7, <1>8, <1>9, <1>10, <1>11, <1>12
        DEF Command

\* The commands of the bridge that change it.
LEMMA MonitorBufferStep ==
  ASSUME Inv, MonitorInv, NEW m \in Monitors, BufferMonitorEvent(m) PROVE MonitorInv'
<1> DEFINE E == events'
<1>1. /\ status[m] = "new" /\ E = PushNotes(events, <<m>>, MaxEvents)
      /\ status' = [x \in All |-> IF x \in Elems(events) \ Elems(E) THEN "evicted"
                                  ELSE IF x = m THEN "held" ELSE status[x]]
  BY DEF BufferMonitorEvent
<1>2. /\ events \in Seq(Monitors) /\ <<m>> \in Seq(Monitors) /\ Elems(<<m>>) = {m}
      /\ MaxEvents \in Nat \ {0} /\ m \in Notices /\ Notices \subseteq All
  BY EventsFacts, ParameterAssumption, Kinds DEF Elems
<1>3. E \in Seq(Monitors) /\ Len(E) <= MaxEvents /\ Elems(E) \subseteq Elems(events) \cup {m}
  BY <1>1, <1>2, PushNotesFacts
<1>4. m \in Elems(E)
  BY <1>1, <1>2, PushNotesLast
<1>5. \A x \in Notices : status[x] = "held" <=> x \in Elems(events)
  BY DEF MonitorInv, HeldIsBuffered
<1> HIDE DEF E
<1>6. \A x \in Notices : status'[x] = "held" <=> x \in Elems(E)
  BY <1>1, <1>2, <1>3, <1>4, <1>5
<1> QED BY <1>3, <1>6 DEF E, MonitorInv, EventTypeOK, HeldIsBuffered

\* The events of a completed task leave the buffer.
LEMMA MonitorDropStep ==
  ASSUME Inv, MonitorInv, NEW w \in Wakes, DropMonitorNotifications(w) PROVE MonitorInv'
<1> DEFINE S == EventsOf({w})
<1>1. /\ events' = Without(events, S)
      /\ status' = [x \in All |-> IF x \in (Elems(notes) \cup Elems(events)) \cap S
                                  THEN "dropped" ELSE status[x]]
  BY DEF DropMonitorNotifications, Resolve
<1> HIDE DEF S
<1>2. /\ events' \in Seq(Monitors) /\ Elems(events') = Elems(events) \ S
  BY <1>1, EventsFacts, WithoutFacts
<1>3. Len(events') <= MaxEvents
  <2>1. Len(events') <= Len(events)
    BY <1>1, EventsFacts, WithoutLen
  <2>2. Len(events) <= MaxEvents /\ Len(events) \in Nat /\ Len(events') \in Nat
        /\ MaxEvents \in Nat
    BY <1>2, EventsFacts, ParameterAssumption DEF MonitorInv, EventTypeOK
  <2> QED BY <2>1, <2>2
<1>4. /\ \A x \in Notices : status[x] = "held" <=> x \in Elems(events)
      /\ Notices \subseteq All
  BY Kinds DEF MonitorInv, HeldIsBuffered
<1>5. \A x \in Notices : status'[x] = "held" <=> x \in Elems(events')
  BY <1>1, <1>2, <1>4
<1> QED BY <1>2, <1>3, <1>5 DEF MonitorInv, EventTypeOK, HeldIsBuffered

\* The steps of the actor's handlers.
LEMMA MonitorActorStep == ASSUME Inv, MonitorInv, ActorStep PROVE MonitorInv'
<1> DEFINE R == Deferred(Elems(events), events)
<1>1. CASE HandleCompletion
  <2>1. completions # <<>> /\ Head(completions) \in Ids /\ events' = events
    BY <1>1, TailFacts DEF HandleCompletion, Inv, StateTypeOK
  <2>2. CASE UNCHANGED status
    BY <2>1, <2>2, EventsKept
  <2>3. CASE status' = [status EXCEPT ![Head(completions)] = "ok"]
    BY <2>1, <2>3, EventsExcept
  <2> QED BY <1>1, <2>2, <2>3 DEF HandleCompletion
<1>2. CASE TurnEnd
  <2>1. /\ events' = <<>>
        /\ status' = R \/ \E n \in Nudges : status' = [R EXCEPT ![n] = "waiting"]
    BY <1>2 DEF TurnEnd
  <2>2. /\ R \in [All -> Statuses] /\ (\A x \in Notices : R[x] # "held")
        /\ Nudges \cap Notices = {} /\ Notices \subseteq All
    BY Sweeping, Kinds, OriginAssumption
  <2> HIDE DEF R
  <2>3. \A x \in Notices : status'[x] # "held"
    BY <2>1, <2>2
  <2> QED BY <2>1, <2>3, EventsGone
<1>3. CASE MaybeStartRunningTask
  <2>1. events' = events
    BY <1>3 DEF MaybeStartRunningTask
  <2>2. \A x \in Notices : status'[x] = status[x]
    <3>1. CASE UNCHANGED status
      BY <3>1
    <3>2. ASSUME NEW stale \in SUBSET Workflows, StartFront(stale)
          PROVE  \A x \in Notices : status'[x] = status[x]
      BY <3>2, PromotionKeepsNotices DEF StartFront, PromotedStatus
    <3> QED BY <1>3, <3>1, <3>2 DEF MaybeStartRunningTask, historyVars
  <2> QED BY <2>1, <2>2, EventsKept
<1>4. CASE MaybeDrainNotifications
  <2> DEFINE T == Taken(All, "reported")
  <2>1. \/ events' = events /\ status' = status
        \/ events' = <<>> /\ status' = T
        \/ events' = <<>> /\ \E d \in Drains : status' = [T EXCEPT ![d] = "waiting"]
    BY <1>4 DEF MaybeDrainNotifications
  <2>2. /\ T \in [All -> Statuses] /\ (\A x \in Notices : T[x] # "held")
        /\ Drains \cap Notices = {} /\ Notices \subseteq All
    BY TakenFacts, Kinds, OriginAssumption
  <2> HIDE DEF T
  <2>3. CASE events' = events /\ status' = status
    BY <2>3, EventsKept
  <2>4. CASE events' = <<>> /\ status' = T
    BY <2>2, <2>4, EventsGone
  <2>5. ASSUME NEW d \in Drains, events' = <<>>, status' = [T EXCEPT ![d] = "waiting"]
        PROVE  MonitorInv'
    <3>1. \A x \in Notices : status'[x] # "held"
      BY <2>2, <2>5
    <3> QED BY <2>5, <3>1, EventsGone
  <2> QED BY <2>1, <2>3, <2>4, <2>5
<1>5. CASE FlushForSendNow \/ CancelAbort
  BY <1>5, EventsKept DEF FlushForSendNow, CancelAbort, historyVars
<1>6. CASE CancelRewind
  <2>1. events' = <<>> /\ status' = R
    BY <1>6 DEF CancelRewind
  <2> QED BY <2>1, Sweeping, EventsGone
<1>7. CASE CancelAll
  <2>1. events' = <<>> /\ status' = Resolve(Elems(notes) \cup Elems(events), "dropped")
    BY <1>7 DEF CancelAll
  <2>2. \A x \in Notices : x \in All /\ (status[x] = "held" => x \in Elems(events))
    BY EventsFacts, Kinds
  <2>3. \A x \in Notices : status'[x] # "held"
    BY <2>1, <2>2 DEF Resolve
  <2> QED BY <2>1, <2>3, EventsGone
<1>8. CASE CancelFront
  <2> DEFINE front == IF queue = <<>> THEN {} ELSE {Head(queue)}
             wakes == IF cancel.trigger = "ctrl_c"
                      THEN (Elems(queue) \cap (Wakes \cup Workflows)) \ front ELSE {}
             ns == events \o Retain(queue, wakes \cap Wakes)
             F == Elems(events) \cup (wakes \cap Wakes)
  <2>1. /\ events' = <<>>
        /\ status' = [x \in All |-> IF x \in wakes \cap Workflows THEN "removed"
                                    ELSE Deferred(F, ns)[x]]
    BY <1>8 DEF CancelFront
  <2>2. \A x \in Notices : /\ x \in All /\ (status[x] = "held" => x \in F)
    BY EventsFacts, Kinds
  <2> HIDE DEF wakes, ns, F
  <2>3. \A x \in Notices : status'[x] # "held"
    BY <2>1, <2>2 DEF Deferred
  <2> QED BY <2>1, <2>3, EventsGone
<1>9. CASE CancelFinish
  <2>1. /\ events' = events
        /\ status' = [x \in All |-> IF x = cancel.popped THEN "rewound"
                                    ELSE IF x \in cancel.doomed THEN "cancelled" ELSE status[x]]
    BY <1>9 DEF CancelFinish
  <2>2. /\ cancel.popped \in Ids \cup {None} /\ cancel.doomed \subseteq Ids
        /\ Notices \subseteq All /\ Notices \cap (Ids \cup {None}) = {}
    BY Kinds, OriginAssumption DEF Inv, StateTypeOK
  <2>3. \A x \in Notices : status'[x] = status[x]
    BY <2>1, <2>2
  <2> QED BY <2>1, <2>3, EventsKept
<1>10. CASE CloseSession
  <2> DEFINE S == (Elems(queue) \cap Synthetic) \cup Elems(notes)
  <2>1. events' = events /\ status' = Resolve(S, "dropped")
    BY <1>10 DEF CloseSession
  <2>2. S \cap Elems(events) = {}
    BY EventsApart
  <2> HIDE DEF S
  <2> QED BY <2>1, <2>2, EventsResolve
<1> QED BY <1>1, <1>2, <1>3, <1>4, <1>5, <1>6, <1>7, <1>8, <1>9, <1>10 DEF ActorStep

\* The steps of a turn.
LEMMA MonitorTurnStep ==
  ASSUME Inv, MonitorInv, NEW t \in Ids, TurnStep(t) \/ TurnSideEffect(t) PROVE MonitorInv'
<1>1. CASE TurnConsumeDeferred(t)
  <2>1. PICK S : \/ events' = events /\ status' = status
                 \/ events' = <<>> /\ status' = Taken(S, "reported")
    BY <1>1 DEF TurnConsumeDeferred
  <2>2. CASE events' = events /\ status' = status
    BY <2>2, EventsKept
  <2>3. CASE events' = <<>> /\ status' = Taken(S, "reported")
    BY <2>3, TakenFacts, EventsGone
  <2> QED BY <2>1, <2>2, <2>3
<1>2. CASE TurnCommit(t) \/ TurnHostCommand(t) \/ TurnFail(t) \/ TurnEmit(t)
  BY <1>2, EventsKept DEF TurnCommit, TurnHostCommand, TurnFail, TurnEmit, TurnKeeps
<1>3. CASE TurnCloseScope(t) \/ TurnSendCompletion(t)
  BY <1>3, EventsKept DEF TurnCloseScope, TurnSendCompletion, TurnKeeps, historyVars
<1>4. CASE TurnDrainInterjections(t)
  <2>1. events' = events /\ status' = Resolve(Elems(interjections), "interjected")
    BY <1>4 DEF TurnDrainInterjections, TurnKeeps
  <2> QED BY <2>1, EventsApart, EventsResolve
<1>5. CASE TurnInjectMonitorEvents(t)
  <2>1. events' = <<>> /\ status' = Resolve(Elems(events), "reported")
    BY <1>5 DEF TurnInjectMonitorEvents
  <2>2. \A x \in Notices : x \in All /\ (status[x] = "held" => x \in Elems(events))
    BY EventsFacts, Kinds
  <2>3. \A x \in Notices : status'[x] # "held"
    BY <2>1, <2>2 DEF Resolve
  <2> QED BY <2>1, <2>3, EventsGone
<1>6. ASSUME NEW w, TurnConsumeCompletion(t, w) PROVE MonitorInv'
  <2> DEFINE G == Swept(queue, running, Completion \cap {w})
             S == Elems(notes) \cap ({w} \cup EventsOf({w}))
  <2>1. /\ events' = events
        /\ status' = [x \in All |-> IF x \in S \cap {w} THEN "reported"
                                    ELSE IF x \in G \cup S THEN "dropped" ELSE status[x]]
    BY <1>6 DEF TurnConsumeCompletion, TurnKeeps
  <2>2. /\ (G \cup S) \cap Elems(events) = {}
        /\ \A x \in Notices : x \in All /\ (status[x] = "held" <=> x \in Elems(events))
    BY EventsApart, Kinds DEF Swept, MonitorInv, HeldIsBuffered
  <2> HIDE DEF G, S
  <2>3. \A x \in Notices : status'[x] = "held" <=> status[x] = "held"
    BY <2>1, <2>2
  <2> QED BY <2>1, <2>3, EventsKept
<1> QED BY <1>1, <1>2, <1>3, <1>4, <1>5, <1>6 DEF TurnStep, TurnSideEffect

\* The books of the monitor buffer are kept by every step.
LEMMA NextMonitor == Inv /\ MonitorInv /\ [Next]_vars => MonitorInv'
<1> SUFFICES ASSUME Inv, MonitorInv, [Next]_vars PROVE MonitorInv'
  OBVIOUS
<1>1. CASE Command
  BY <1>1, MonitorCommand, MonitorBufferStep, MonitorDropStep
<1>2. CASE ActorStep
  BY <1>2, MonitorActorStep
<1>3. ASSUME NEW t \in Ids, TurnStep(t) \/ TurnSideEffect(t) PROVE MonitorInv'
  BY <1>3, MonitorTurnStep
<1>4. ASSUME NEW r \in Promoters, PlanResumeQueue(r) PROVE MonitorInv'
  <2>1. r \in Ids /\ events' = events /\ status' = [status EXCEPT ![r] = "waiting"]
    BY <1>4, Kinds DEF PlanResumeQueue, PushBack
  <2> QED BY <2>1, EventsExcept
<1>5. ASSUME NEW r \in Promoters, PromoterBegin(r) PROVE MonitorInv'
  <2>1. events' = events
    BY <1>5 DEF PromoterBegin
  <2>2. CASE UNCHANGED status
    BY <2>1, <2>2, EventsKept
  <2>3. ASSUME NEW stale \in SUBSET Workflows,
               \/ NothingFresh(stale)
               \/ FreshQueue(stale) # <<>> /\ status' = PromotedStatus(stale)
        PROVE  MonitorInv'
    BY <2>1, <2>3, PromotionKeepsNotices, EventsKept
  <2> QED BY <1>5, <2>2, <2>3 DEF PromoterBegin, PromotedStatus, historyVars
<1>6. ASSUME NEW r \in Promoters, PromoterSpawn(r) PROVE MonitorInv'
  BY <1>6, EventsKept DEF PromoterSpawn, historyVars
<1>7. CASE UNCHANGED vars
  BY <1>7, EventsKept DEF vars, historyVars
<1> QED BY <1>1, <1>2, <1>3, <1>4, <1>5, <1>6, <1>7 DEF Next, Halted, PromoterStep

-----------------------------------------------------------------------------
(* The theorems.                                                           *)

\* The inductive invariant holds in every reachable state.
THEOREM Invariance == Spec => [](Inv /\ MonitorInv)
<1>1. Init => Inv /\ MonitorInv
  BY InitInv, InitMonitor
<1>2. Inv /\ MonitorInv /\ [Next]_vars => (Inv /\ MonitorInv)'
  BY NextInv, NextMonitor
<1> QED BY <1>1, <1>2, PTL DEF Spec

\* Type correctness.
THEOREM TypeCorrectness == Spec => []TypeOK
<1>1. Inv /\ MonitorInv => TypeOK
  BY DEF Inv, MonitorInv, TypeOK
<1> QED BY <1>1, Invariance, PTL

\* A monitor event is buffered until it is injected, swept into the notifications, pushed
\* out or superseded by its task's completion, whatever becomes of the turn.
THEOREM NoMonitorEventLost == Spec => []HeldIsBuffered
<1>1. Inv /\ MonitorInv => HeldIsBuffered
  BY DEF MonitorInv
<1> QED BY <1>1, Invariance, PTL

\* The row of the running turn is the front of the queue, so the pops of
\* handle_completion and cancel_running_task take the row they mean.
THEOREM RunningFront == Spec => []FrontIsRunning
<1>1. Inv => FrontIsRunning
  BY DEF Inv
<1> QED BY <1>1, Invariance, PTL

\* No message is in two places.
THEOREM MessageInOnePlace == Spec => []OnePlace
<1>1. Inv => OnePlace
  BY DEF Inv
<1> QED BY <1>1, Invariance, PTL

\* A message is unanswered exactly as long as the actor holds it.
THEOREM NoMessageLost == Spec => []UnansweredIsHeld
<1>1. Inv => UnansweredIsHeld
  BY DEF Inv
<1> QED BY <1>1, Invariance, PTL

\* A deferred completion is buffered until it is reported, read, evicted or dropped.
THEOREM NoNotificationLost == Spec => []DeferredIsBuffered
<1>1. Inv => DeferredIsBuffered
  BY DEF Inv
<1> QED BY <1>1, Invariance, PTL

-----------------------------------------------------------------------------
(* What may happen to a user's message: it is never dropped by a sweep, and *)
(* never folded into another turn while a client edits it.                  *)

\* No user message is newly dropped or folded by a step.
Calm == \A x \in User : status'[x] \in {"dropped", "merged"} => status'[x] = status[x]

\* The ids of users are no others'.
LEMMA Users ==
  ASSUME Inv
  PROVE  /\ User \subseteq All /\ Prompts \subseteq User /\ User \subseteq Ids
         /\ User \cap Synthetic = {} /\ User \cap Notices = {} /\ User \cap Completion = {}
         /\ Completion \subseteq Synthetic
         /\ User \cap Elems(notes) = {}
         /\ status \in [All -> Statuses]
<1>1. Elems(notes) \subseteq Wakes \cup Notices
  <2>1. notes \in Seq(Wakes \cup Notices)
    BY NotesFacts
  <2> QED BY <2>1 DEF Elems
<1> QED BY <1>1, Kinds, OriginAssumption DEF Inv, StateTypeOK, User, Synthetic, Completion

\* A step that leaves the statuses alone.
LEMMA CalmUnchanged == ASSUME UNCHANGED status PROVE Calm
BY DEF Calm

\* Resolving some messages in another way.
LEMMA CalmResolve ==
  ASSUME Inv, NEW S, NEW how, status' = Resolve(S, how),
         how \notin {"dropped", "merged"} \/ S \cap User = {}
  PROVE  Calm
<1>1. \A x \in User : x \in All
  BY Users
<1> QED BY <1>1 DEF Calm, Resolve

\* Updating one message in another way.
LEMMA CalmExcept ==
  ASSUME Inv, NEW x \in All, NEW how, status' = [status EXCEPT ![x] = how],
         how \notin {"dropped", "merged"} \/ x \notin User
  PROVE  Calm
<1>1. User \subseteq All /\ status \in [All -> Statuses]
  BY Users
<1> QED BY <1>1 DEF Calm

\* The commands.
LEMMA CalmCommand == ASSUME Inv, MonitorInv, Command PROVE Calm
<1>1. ASSUME NEW p \in Prompts, SubmitPrompt(p) PROVE Calm
  <2>1. status' = [x \in All |-> IF x = p THEN "waiting"
                                 ELSE IF x \in Preempted THEN "dropped" ELSE status[x]]
    BY <1>1 DEF SubmitPrompt
  <2>2. Preempted \cap User = {}
    BY Users DEF Preempted, Swept
  <2> QED BY <2>1, <2>2, Users DEF Calm
<1>2. ASSUME NEW p \in Prompts, RemoveQueuedPrompt(p) PROVE Calm
  BY <1>2, CalmExcept, Kinds DEF RemoveQueuedPrompt
<1>3. ASSUME NEW p \in Prompts,
             EditQueuedPrompt(p) \/ InterjectQueuedPrompt(p) \/ InterjectMissed(p)
      PROVE  Calm
  BY <1>3, CalmUnchanged DEF EditQueuedPrompt, InterjectQueuedPrompt, InterjectMissed
<1>4. ASSUME NEW p \in Editable, HoldCombineEdit(p) \/ ReleaseCombineEdit(p) PROVE Calm
  BY <1>4, CalmUnchanged DEF HoldCombineEdit, ReleaseCombineEdit
<1>5. ASSUME NEW o \in Clients \cup {None}, ClearQueue(o) PROVE Calm
  BY <1>5, CalmResolve DEF ClearQueue
<1>6. ASSUME NEW s \in Orders, ReorderQueue(s) PROVE Calm
  BY <1>6, CalmUnchanged DEF ReorderQueue
<1>7. ASSUME NEW w \in Wakes, AdmitTaskWake(w) PROVE Calm
  <2>1. CASE PushBack(w)
    BY <2>1, CalmExcept, Kinds DEF PushBack
  <2>2. CASE status' = Deferred({w}, <<w>>)
    BY <2>2, Users DEF Calm, Deferred
  <2> QED BY <1>7, <2>1, <2>2 DEF AdmitTaskWake
<1>8. ASSUME NEW x \in SubWakes \cup Crons \cup Workflows \cup Nudges, QueueSynthetic(x)
      PROVE  Calm
  BY <1>8, CalmExcept, Kinds DEF QueueSynthetic, PushBack
<1>9. ASSUME NEW n \in Notices, InjectNotification(n) PROVE Calm
  BY <1>9, Users DEF Calm, Deferred, InjectNotification
<1>10. ASSUME NEW j \in Interjections, BufferInterjection(j) \/ QueueInterjection(j)
       PROVE  Calm
  BY <1>10, CalmExcept, Kinds DEF BufferInterjection, QueueInterjection
<1>11. ASSUME NEW o \in Cancels, CancelCommand(o) \/ CtrlCPanic(o) PROVE Calm
  BY <1>11, CalmResolve DEF CancelCommand, CtrlCPanic
<1>12. ASSUME NEW k \in Shutdowns, ShutdownCommand(k) PROVE Calm
  BY <1>12, CalmUnchanged DEF ShutdownCommand, historyVars
<1>13. ASSUME NEW m \in Monitors, BufferMonitorEvent(m) PROVE Calm
  BY <1>13, Users DEF Calm, BufferMonitorEvent
<1>14. ASSUME NEW w \in Wakes, DropMonitorNotifications(w) PROVE Calm
  <2>1. ((Elems(notes) \cup Elems(events)) \cap EventsOf({w})) \cap User = {}
    BY Users, EventsFacts
  <2> QED BY <1>14, <2>1, CalmResolve DEF DropMonitorNotifications
<1> QED BY <1>1, <1>2, <1>3, <1>4, <1>5, <1>6, <1>7, <1>8, <1>9, <1>10, <1>11, <1>12, <1>13,
           <1>14
        DEF Command

\* The handler steps other than a promotion.
LEMMA CalmActorStep == ASSUME Inv, MonitorInv, ActorStep PROVE Calm \/ MaybeStartRunningTask
<1>1. CASE HandleCompletion
  <2>1. completions # <<>> /\ Head(completions) \in All
    BY <1>1, TailFacts, Kinds DEF HandleCompletion, Inv, StateTypeOK
  <2>2. CASE UNCHANGED status
    BY <2>2, CalmUnchanged
  <2>3. CASE status' = [status EXCEPT ![Head(completions)] = "ok"]
    BY <2>1, <2>3, CalmExcept
  <2> QED BY <1>1, <2>2, <2>3 DEF HandleCompletion
<1>2. CASE TurnEnd
  <2> DEFINE R == Deferred(Elems(events), events)
  <2>1. status' = R \/ \E n \in Nudges : status' = [R EXCEPT ![n] = "waiting"]
    BY <1>2 DEF TurnEnd
  <2>2. R \in [All -> Statuses] /\ \A x \in User : x \in All /\ R[x] = status[x]
    BY Sweeping, Users
  <2> HIDE DEF R
  <2> QED BY <2>1, <2>2 DEF Calm
<1>3. CASE MaybeDrainNotifications
  <2> DEFINE T == Taken(All, "reported")
  <2>1. \/ UNCHANGED status \/ status' = T
        \/ \E d \in Drains : status' = [T EXCEPT ![d] = "waiting"]
    BY <1>3 DEF MaybeDrainNotifications
  <2>2. T \in [All -> Statuses] /\ \A x \in User : x \in All /\ T[x] = status[x]
    BY TakenFacts, Users
  <2> HIDE DEF T
  <2> QED BY <2>1, <2>2 DEF Calm
<1>4. CASE FlushForSendNow \/ CancelAbort
  BY <1>4, CalmUnchanged DEF FlushForSendNow, CancelAbort, historyVars
<1>9. CASE CancelRewind
  <2>1. status' = Deferred(Elems(events), events)
    BY <1>9 DEF CancelRewind
  <2> QED BY <2>1, Sweeping DEF Calm
<1>5. CASE CancelAll
  <2>1. (Elems(notes) \cup Elems(events)) \cap User = {}
    BY Users, EventsFacts
  <2> QED BY <1>5, <2>1, CalmResolve DEF CancelAll
<1>6. CASE CancelFront
  <2> DEFINE front == IF queue = <<>> THEN {} ELSE {Head(queue)}
             wakes == IF cancel.trigger = "ctrl_c"
                      THEN (Elems(queue) \cap (Wakes \cup Workflows)) \ front ELSE {}
             ns == events \o Retain(queue, wakes \cap Wakes)
             F == Elems(events) \cup (wakes \cap Wakes)
  <2>1. status' = [x \in All |-> IF x \in wakes \cap Workflows THEN "removed"
                                 ELSE Deferred(F, ns)[x]]
    BY <1>6 DEF CancelFront
  <2> HIDE DEF wakes, ns, F
  <2> QED BY <2>1, Users DEF Calm, Deferred
<1>7. CASE CancelFinish
  BY <1>7, Users DEF Calm, CancelFinish
<1>8. CASE CloseSession
  <2>1. ((Elems(queue) \cap Synthetic) \cup Elems(notes)) \cap User = {}
    BY Users
  <2> QED BY <1>8, <2>1, CalmResolve DEF CloseSession
<1> QED BY <1>1, <1>2, <1>3, <1>4, <1>5, <1>6, <1>7, <1>8, <1>9 DEF ActorStep

\* The steps of a turn.
LEMMA CalmTurn ==
  ASSUME Inv, MonitorInv, NEW t \in Ids, TurnStep(t) \/ TurnSideEffect(t) PROVE Calm
<1>1. CASE TurnConsumeDeferred(t)
  <2>1. CASE UNCHANGED status
    BY <2>1, CalmUnchanged
  <2>2. ASSUME NEW S, status' = Taken(S, "reported") PROVE Calm
    BY <2>2, TakenFacts DEF Calm
  <2> QED BY <1>1, <2>1, <2>2 DEF TurnConsumeDeferred
<1>2. CASE TurnCommit(t) \/ TurnHostCommand(t) \/ TurnFail(t) \/ TurnEmit(t)
  BY <1>2, CalmUnchanged DEF TurnCommit, TurnHostCommand, TurnFail, TurnEmit
<1>3. CASE TurnCloseScope(t) \/ TurnSendCompletion(t)
  BY <1>3, CalmUnchanged DEF TurnCloseScope, TurnSendCompletion, historyVars
<1>4. CASE TurnDrainInterjections(t)
  BY <1>4, CalmResolve DEF TurnDrainInterjections
<1>5. ASSUME NEW w, TurnConsumeCompletion(t, w) PROVE Calm
  <2> DEFINE G == Swept(queue, running, Completion \cap {w})
             S == Elems(notes) \cap ({w} \cup EventsOf({w}))
  <2>1. (G \cup S) \cap User = {}
    BY Users DEF Swept
  <2>2. status' = [x \in All |-> IF x \in S \cap {w} THEN "reported"
                                 ELSE IF x \in G \cup S THEN "dropped" ELSE status[x]]
    BY <1>5 DEF TurnConsumeCompletion
  <2> HIDE DEF G, S
  <2> QED BY <2>1, <2>2, Users DEF Calm
<1>6. CASE TurnInjectMonitorEvents(t)
  BY <1>6, CalmResolve DEF TurnInjectMonitorEvents
<1> QED BY <1>1, <1>2, <1>3, <1>4, <1>5, <1>6 DEF TurnStep, TurnSideEffect

\* A promotion drops no message and folds no row under edit.
LEMMA PromotionFolds ==
  ASSUME Inv, NEW stale \in SUBSET Workflows,
         \/ UNCHANGED status
         \/ NothingFresh(stale)
         \/ FreshQueue(stale) # <<>> /\ status' = PromotedStatus(stale)
  PROVE  \A x \in User : /\ status'[x] = "dropped" => status[x] = "dropped"
                         /\ status'[x] = "merged" => status[x] = "merged" \/ x \notin held
<1>1. CASE UNCHANGED status
  BY <1>1
<1>2. CASE NothingFresh(stale)
  BY <1>2, CalmResolve DEF NothingFresh, Calm
<1>3. CASE FreshQueue(stale) # <<>> /\ status' = PromotedStatus(stale)
  <2> DEFINE q == FreshQueue(stale)
  <2>1. q \in Seq(Ids) /\ q # <<>>
    BY <1>3, FreshQueueFacts
  <2> HIDE DEF q
  <2>2. MergedAway(q, Plain, (Plain \ Images) \ LiveHolds(q))
           \subseteq Elems(q) \cap ((Plain \ Images) \ LiveHolds(q))
    BY <2>1, MergedAwayFacts
  <2>3. \A x \in Folded(q) : x \notin held
    BY <2>2 DEF Folded, LiveHolds
  <2>4. status' = [x \in All |-> IF x \in StaleFronts(stale) THEN "removed"
                                 ELSE IF x \in Folded(q) THEN "merged" ELSE status[x]]
    BY <1>3 DEF PromotedStatus, q
  <2> QED BY <2>3, <2>4, Users
<1> QED BY <1>1, <1>2, <1>3

\* The effect of any step on a user's message.
LEMMA UserMessageStep ==
  ASSUME Inv, MonitorInv, [Next]_vars
  PROVE  \A x \in User : /\ status'[x] = "dropped" => status[x] = "dropped"
                         /\ status'[x] = "merged" => status[x] = "merged" \/ x \notin held
<1> DEFINE P == \A x \in User :
                   /\ status'[x] = "dropped" => status[x] = "dropped"
                   /\ status'[x] = "merged" => status[x] = "merged" \/ x \notin held
<1>1. ASSUME Calm PROVE P
  BY <1>1 DEF Calm
<1>2. CASE MaybeStartRunningTask
  <2>1. CASE UNCHANGED status
    BY <2>1
  <2>2. ASSUME NEW stale \in SUBSET Workflows, StartFront(stale) PROVE P
    <3>1. CASE FreshQueue(stale) = <<>>
      BY <2>2, <3>1, PromotionFolds DEF StartFront
    <3>2. CASE FreshQueue(stale) # <<>>
      BY <2>2, <3>2, PromotionFolds DEF StartFront, PromotedStatus
    <3> QED BY <3>1, <3>2
  <2> QED BY <1>2, <2>1, <2>2 DEF MaybeStartRunningTask, historyVars
<1>3. ASSUME NEW r \in Promoters, PromoterBegin(r) PROVE P
  <2>1. CASE UNCHANGED status
    BY <2>1
  <2>2. ASSUME NEW stale \in SUBSET Workflows, NothingFresh(stale) PROVE P
    BY <2>2, PromotionFolds
  <2>3. ASSUME NEW stale \in SUBSET Workflows, FreshQueue(stale) # <<>>,
               status' = PromotedStatus(stale)
        PROVE  P
    BY <2>3, PromotionFolds
  <2> QED BY <1>3, <2>1, <2>2, <2>3 DEF PromoterBegin, PromotedStatus, historyVars
<1>4. ASSUME NEW r \in Promoters, PlanResumeQueue(r) \/ PromoterSpawn(r) PROVE P
  <2>1. CASE PlanResumeQueue(r)
    BY <1>1, <2>1, CalmExcept, Kinds DEF PlanResumeQueue, PushBack
  <2>2. CASE PromoterSpawn(r)
    BY <2>2 DEF PromoterSpawn, historyVars
  <2> QED BY <1>4, <2>1, <2>2
<1>5. ASSUME Command PROVE P
  BY <1>1, <1>5, CalmCommand
<1>6. ASSUME ActorStep PROVE P
  BY <1>1, <1>2, <1>6, CalmActorStep
<1>7. ASSUME NEW t \in Ids, TurnStep(t) \/ TurnSideEffect(t) PROVE P
  BY <1>1, <1>7, CalmTurn
<1>8. ASSUME UNCHANGED vars PROVE P
  BY <1>8 DEF vars, historyVars
<1>9. ASSUME NEW r \in Promoters, PlanResumeQueue(r) \/ PromoterStep(r) PROVE P
  BY <1>3, <1>4, <1>9 DEF PromoterStep
<1> HIDE DEF P
<1>10. P
  BY <1>5, <1>6, <1>7, <1>8, <1>9 DEF Next, Halted
<1> QED BY <1>10 DEF P

\* No sweep (preemption, consumed completion, teardown, close) drops a user's message.
THEOREM NoUserPromptDropped == Spec => []UserPromptNeverDropped
<1>1. Init => UserPromptNeverDropped
  BY Kinds DEF Init, UserPromptNeverDropped
<1>2. Inv /\ MonitorInv /\ UserPromptNeverDropped /\ [Next]_vars => UserPromptNeverDropped'
  BY UserMessageStep DEF UserPromptNeverDropped
<1> QED BY <1>1, <1>2, Invariance, PTL DEF Spec

\* combine_front_pending_inputs never folds a row that a client holds for an edit.
THEOREM NoHeldRowFolded == Spec => HeldRowNotFolded
<1>1. Inv /\ MonitorInv /\ [Next]_vars =>
        [\A p \in Prompts : status[p] = "waiting" /\ status'[p] = "merged" => p \notin held]_vars
  BY UserMessageStep DEF User
<1> QED BY <1>1, Invariance, PTL DEF Spec, HeldRowNotFolded
=============================================================================
