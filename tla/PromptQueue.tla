---------------------------- MODULE PromptQueue ----------------------------
(***************************************************************************)
(* The pure queue algorithms of the session actor: what each handler does  *)
(* to State::pending_inputs (a VecDeque<InputItem>) and to                 *)
(* State::pending_notifications (a Vec).  A queue is a sequence of prompt  *)
(* ids; everything else an InputItem carries is a set of ids: the rows     *)
(* with the send_now flag, the rows with queue metadata, the rows the      *)
(* combine gate accepts.  No operator here is recursive: the proofs in     *)
(* PromptQueue_proofs reason about all of them for queues of every length. *)
(***************************************************************************)
EXTENDS Naturals, Sequences, FiniteSets

\* The ids in a queue.
Elems(q) == {q[i] : i \in DOMAIN q}

\* No prompt id occupies two rows.
Distinct(q) == \A i, j \in DOMAIN q : q[i] = q[j] => i = j

\* Queues over a set of ids in which no id occupies two rows.
Queues(S) == {q \in Seq(S) : Distinct(q)}

-----------------------------------------------------------------------------
(* Sweeps.  Every sweep in the code rebuilds the deque, keeping the rows   *)
(* that do not match in their order.                                       *)

\* The indices a sweep keeps, and the row that index i of them becomes.
Kept(q, S) == {i \in DOMAIN q : q[i] \in S}
Pos(K, i)  == Cardinality({k \in K : k <= i})

\* The rows of q in S, in their order.
Retain(q, S) ==
  LET K == Kept(q, S)
  IN  [n \in 1..Cardinality(K) |-> q[CHOOSE i \in K : Pos(K, i) = n]]

\* The rows of q not in S, in their order.
Without(q, S) == Retain(q, Elems(q) \ S)

\* Mutant: a sweep that forgets to spare the running turn's row.
SweptRunningToo(q, running, S) == Elems(q) \cap S

\* State::sweep_pending_inputs: rows matching the predicate leave, except the
\* running turn's own slot.  Swept is what leaves.
Swept(q, running, S) == (Elems(q) \cap S) \ {running}
Sweep(q, running, S) == Without(q, Swept(q, running, S))

-----------------------------------------------------------------------------
(* Send-now placement.                                                     *)

\* How many consecutive rows starting at index `from` are in S.
RunLength(q, from, S) ==
  Cardinality({j \in from..Len(q) : \A m \in from..j : q[m] \in S})

\* 1 when the running turn's row is at the front, else 0.
RunningOffset(q, running) == IF q # <<>> /\ Head(q) = running THEN 1 ELSE 0

\* Mutant: the scan starts at the front even when that row is running.
SendNowIndexFromFront(q, running, sendNow) == RunLength(q, 1, sendNow)

\* send_now_insert_index: behind the running front and behind the send-now
\* rows that follow it.  (The result is the number of rows kept in front.)
SendNowIndex(q, running, sendNow) ==
  LET o == RunningOffset(q, running) IN o + RunLength(q, o + 1, sendNow)

\* VecDeque::insert(n, x).
Insert(q, n, x) ==
  [i \in 1..(Len(q) + 1) |->
     IF i <= n THEN q[i] ELSE IF i = n + 1 THEN x ELSE q[i - 1]]

\* Mutant: the entries are inserted first to last at the same index.
InsertAllReversed(q, n, xs) ==
  [i \in 1..(Len(q) + Len(xs)) |->
     IF i <= n THEN q[i]
     ELSE IF i <= n + Len(xs) THEN xs[n + Len(xs) + 1 - i]
     ELSE q[i - Len(xs)]]

\* flush_stranded_interjections: the buffered entries land, in their order,
\* at the front or right behind the running front.  The code inserts them
\* one by one in reverse order at the same index.
InsertAll(q, n, xs) ==
  [i \in 1..(Len(q) + Len(xs)) |->
     IF i <= n THEN q[i]
     ELSE IF i <= n + Len(xs) THEN xs[i - n]
     ELSE q[i - Len(xs)]]

-----------------------------------------------------------------------------
(* Combine on promote.                                                     *)

\* combine_prefix_len: the front may carry images, its followers may not and
\* must not be under a composer edit.
CombinePrefixLen(q, front, follower) ==
  IF q = <<>> THEN 0
  ELSE IF Head(q) \notin front THEN 1
  ELSE 1 + RunLength(q, 2, follower)

\* combine_front_pending_inputs: the followers that fold into the front.
MergedAway(q, front, follower) ==
  {q[i] : i \in 2..CombinePrefixLen(q, front, follower)}

-----------------------------------------------------------------------------
(* Reorder.                                                                *)

\* Mutant: the rows that may not move are not partitioned off.
ReorderUnpinned(q, rows, order) ==
  Retain(order, rows \cap Elems(q)) \o Retain(q, Elems(q) \ (rows \cap Elems(order)))

\* handle_reorder_queue: rows that are not reorderable keep their order at the
\* front, then the named rows as requested, then the other rows as they were.
Reorder(q, rows, order) ==
  Retain(q, Elems(q) \ rows)
    \o Retain(order, rows \cap Elems(q))
    \o Retain(q, rows \ Elems(order))

-----------------------------------------------------------------------------
(* The notification buffer.                                                *)

\* Mutants: the excess is cut off the new end; the cap is not applied.
PushNotesKeepOldest(notes, ns, cap) ==
  LET all == notes \o ns IN IF Len(all) > cap THEN SubSeq(all, 1, cap) ELSE all
PushNotesUncapped(notes, ns, cap) == notes \o ns

\* push_pending_notification, once per entry of ns: append, then drop the
\* oldest entries beyond the cap.
PushNotes(notes, ns, cap) ==
  LET all    == notes \o ns
      excess == IF Len(all) > cap THEN Len(all) - cap ELSE 0
  IN  [i \in 1..(Len(all) - excess) |-> all[i + excess]]
=============================================================================
