---------------------------- MODULE QueueLoops ----------------------------
(***************************************************************************)
(* The closed forms of PromptQueue against the loops of the code, over     *)
(* every queue, running turn, buffer and row set.  A loop is a function    *)
(* from the number of its rounds to the value it has built by then.        *)
(***************************************************************************)
EXTENDS PromptQueue

CONSTANTS Rows,      \* prompt ids
          Cap,       \* the notification cap
          MaxBuffer, \* bound: entries of the second sequence
          NoTurn

ASSUME LoopAssumption == Cap \in Nat /\ MaxBuffer \in Nat /\ NoTurn \notin Rows

-----------------------------------------------------------------------------
(* The loops.                                                              *)

\* sweep_pending_inputs: the deque `kept` after the first i rows.
SweepLoop(s, running, drop) ==
  LET kept[i \in 0..Len(s)] ==
        IF i = 0 THEN <<>>
        ELSE IF s[i] # running /\ s[i] \in drop THEN kept[i - 1]
        ELSE Append(kept[i - 1], s[i])
  IN  kept[Len(s)]

\* The while loop of send_now_insert_index and the for loop of
\* combine_prefix_len: the result once n rows are behind it.
ScanLoop(s, from, S) ==
  LET at[n \in 0..Len(s)] ==
        IF n < Len(s) /\ s[n + 1] \in S THEN at[n + 1] ELSE n
  IN  at[from]

CombineLoop(s, front, follower) ==
  IF s = <<>> THEN 0
  ELSE IF s[1] \notin front THEN 1
  ELSE ScanLoop(s, 1, follower)

\* flush_stranded_interjections: the queue after the last k entries, each
\* inserted with the offset of the queue it finds.
FlushLoop(s, running, xs) ==
  LET flushed[k \in 0..Len(xs)] ==
        IF k = 0 THEN s
        ELSE Insert(flushed[k - 1], RunningOffset(flushed[k - 1], running),
                    xs[Len(xs) + 1 - k])
  IN  flushed[Len(xs)]

\* push_pending_notification: the push, then drain(..excess).
Push(s, x, cap) ==
  LET excess == IF Len(s) + 1 > cap THEN Len(s) + 1 - cap ELSE 0
  IN  SubSeq(Append(s, x), excess + 1, Len(s) + 1)

PushLoop(s, ns, cap) ==
  LET pushed[i \in 0..Len(ns)] ==
        IF i = 0 THEN s ELSE Push(pushed[i - 1], ns[i], cap)
  IN  pushed[Len(ns)]

-----------------------------------------------------------------------------
(* The inputs.                                                             *)

VARIABLES q,         \* the queue
          turn,      \* the prompt id of the running turn
          marked,    \* a set of rows: those a sweep matches, send-now rows, gates
          buffer     \* interjections to flush, an order to apply, notes to push

vars == <<q, turn, marked, buffer>>

Init == q = <<>> /\ turn = NoTurn /\ marked = {} /\ buffer = <<>>

Queue(x) ==
  /\ x \notin Elems(q)
  /\ q' = Append(q, x)
  /\ UNCHANGED <<turn, marked, buffer>>

Mark(x) ==
  /\ x \notin marked
  /\ marked' = marked \cup {x}
  /\ UNCHANGED <<q, turn, buffer>>

Buffer(x) ==
  /\ x \notin Elems(buffer) /\ Len(buffer) < MaxBuffer
  /\ buffer' = Append(buffer, x)
  /\ UNCHANGED <<q, turn, marked>>

\* Usually the front, but the operators are also called on a desynced queue.
Run(x) == turn = NoTurn /\ turn' = x /\ UNCHANGED <<q, marked, buffer>>

Restart ==
  /\ Elems(q) = Rows /\ marked = Rows /\ turn # NoTurn /\ Len(buffer) = MaxBuffer
  /\ q' = <<>> /\ turn' = NoTurn /\ marked' = {} /\ buffer' = <<>>

Next == (\E x \in Rows : Queue(x) \/ Mark(x) \/ Buffer(x) \/ Run(x)) \/ Restart

Spec == Init /\ [][Next]_vars

-----------------------------------------------------------------------------
(* Properties.                                                             *)

\* sweep_pending_inputs keeps, in their order, exactly the rows that do not match and
\* the running turn's row wherever it is.
SweepIsFilter == Sweep(q, turn, marked) = SweepLoop(q, turn, marked)

\* The send-now index and the combine prefix are what the code's loops compute; the
\* buffer's elements play the rows under edit or with images.
ScansMatchLoops ==
  /\ SendNowIndex(q, turn, marked) = ScanLoop(q, RunningOffset(q, turn), marked)
  /\ CombinePrefixLen(q, marked, marked \ Elems(buffer)) =
       CombineLoop(q, marked, marked \ Elems(buffer))

\* Flushing the stranded interjections one by one, last first, each behind the running
\* front, puts them in arrival order before every queued row.
FlushIsReverseInserts ==
  turn \notin Elems(buffer) =>
    InsertAll(q, RunningOffset(q, turn), buffer) = FlushLoop(q, turn, buffer)

\* The index of x in s, and its place in an order that need not name it.
IndexOf(s, x) == CHOOSE i \in DOMAIN s : s[i] = x
Rank(order, x) == IF x \in Elems(order) THEN IndexOf(order, x) ELSE Len(order) + 1

\* handle_reorder_queue is a stable sort by rank behind the rows it may not move.
ReorderIsStableSort ==
  LET out  == Reorder(q, marked \ {turn}, buffer)
      kept == SweepLoop(q, turn, marked)
  IN  /\ Elems(out) = Elems(q) /\ Len(out) = Len(q)
      /\ SubSeq(out, 1, Len(kept)) = kept
      /\ \A i, j \in (Len(kept) + 1)..Len(out) : i < j =>
            \/ Rank(buffer, out[i]) < Rank(buffer, out[j])
            \/ /\ Rank(buffer, out[i]) = Rank(buffer, out[j])
               /\ IndexOf(q, out[i]) < IndexOf(q, out[j])

\* Pushing several notifications at once leaves what pushing each of them in turn and
\* draining the excess after each push leaves.
NotesMatchPushes == Len(q) <= Cap => PushNotes(q, buffer, Cap) = PushLoop(q, buffer, Cap)
=============================================================================
