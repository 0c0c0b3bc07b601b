------------------------- MODULE QueueLoops_proofs -------------------------
(***************************************************************************)
(* The loops of the code compute the closed forms of PromptQueue, for      *)
(* queues and buffers of every length.  Each proof has the same shape: the *)
(* closed form of a prefix satisfies the loop's equation, so the loop's    *)
(* function exists, and an induction over the rounds makes it the only one.*)
(***************************************************************************)
EXTENDS QueueLoops, PromptQueue_proofs, FunctionTheorems, WellFoundedInduction

-----------------------------------------------------------------------------
(* Induction with a set in the place of a predicate.                       *)

\* A set of naturals that is not empty has a least element.
LEMMA LeastElement ==
  ASSUME NEW T, T \subseteq Nat, T # {}
  PROVE  \E x \in T : \A y \in T : ~(y < x)
<1> DEFINE R == OpToRel(<, Nat)
<1>1. IsWellFoundedOn(R, Nat)
  BY NatLessThanWellFounded
<1>2. \A x, y \in Nat : y < x => <<y, x>> \in R
  BY DEF OpToRel
<1> HIDE DEF R
<1>3. \E x \in T : \A y \in T : ~ (<<y, x>> \in R)
  BY <1>1, WFMin
<1> QED BY <1>2, <1>3

\* A set that holds 0 and with every natural the next one holds them all.
LEMMA Rounds ==
  ASSUME NEW S, 0 \in S, \A n \in Nat : n \in S => n + 1 \in S
  PROVE  \A n \in Nat : n \in S
<1> DEFINE T == Nat \ S
<1> SUFFICES ASSUME T # {} PROVE FALSE
  OBVIOUS
<1>1. PICK x \in T : \A y \in T : ~(y < x)
  BY LeastElement
<1>2. x \in Nat /\ x # 0
  OBVIOUS
<1>3. x - 1 \in Nat /\ x - 1 < x /\ x = (x - 1) + 1
  BY <1>2
<1> QED BY <1>1, <1>2, <1>3

\* Two functions that agree at 0 and go on alike agree up to n.
LEMMA SameLoop ==
  ASSUME NEW n \in Nat, NEW f, NEW g, f[0] = g[0],
         \A i \in 1..n : f[i - 1] = g[i - 1] => f[i] = g[i]
  PROVE  \A i \in 0..n : f[i] = g[i]
<1> DEFINE S == {i \in Nat : i <= n => f[i] = g[i]}
<1>1. 0 \in S
  OBVIOUS
<1>2. ASSUME NEW i \in Nat, i \in S PROVE i + 1 \in S
  <2> SUFFICES ASSUME i + 1 <= n PROVE f[i + 1] = g[i + 1]
    OBVIOUS
  <2>1. i + 1 \in 1..n /\ (i + 1) - 1 = i /\ f[i] = g[i]
    BY <1>2
  <2> QED BY <2>1
<1> HIDE DEF S
<1>3. \A i \in Nat : i \in S
  BY <1>1, <1>2, Rounds
<1> QED BY <1>3 DEF S

-----------------------------------------------------------------------------
(* Prefixes.                                                               *)

\* A prefix is the prefix before it and the next row.
LEMMA PrefixStep ==
  ASSUME NEW X, NEW s \in Seq(X), NEW i \in 1..Len(s)
  PROVE  /\ SubSeq(s, 1, i - 1) \in Seq(X) /\ s[i] \in X
         /\ Len(SubSeq(s, 1, i - 1)) = i - 1
         /\ SubSeq(s, 1, i) = Append(SubSeq(s, 1, i - 1), s[i])
OBVIOUS

\* The first prefix is empty and the last one is the sequence.
LEMMA PrefixEnds ==
  ASSUME NEW X, NEW s \in Seq(X)
  PROVE  Len(s) \in Nat /\ SubSeq(s, 1, 0) = <<>> /\ SubSeq(s, 1, Len(s)) = s
OBVIOUS

-----------------------------------------------------------------------------
(* Sweeps.                                                                 *)

\* A sweep of one row more.
LEMMA RetainAppend ==
  ASSUME NEW X, NEW s \in Seq(X), NEW x \in X, NEW S
  PROVE  Retain(Append(s, x), S) =
           IF x \in S THEN Append(Retain(s, S), x) ELSE Retain(s, S)
<1>n. PICK n \in Nat : n = Len(s)
  OBVIOUS
<1>t. PICK t \in Seq(X) : t = Append(s, x)
  <2>1. Append(s, x) \in Seq(X)
    OBVIOUS
  <2> QED BY <2>1
<1>K. PICK K : K = Kept(s, S)
  OBVIOUS
<1>L. PICK L : L = Kept(t, S)
  OBVIOUS
<1>r. PICK r : r = Retain(s, S)
  OBVIOUS
<1>u. PICK u : u = Retain(t, S)
  OBVIOUS
<1>1. Len(t) = n + 1 /\ t[n + 1] = x /\ \A i \in 1..n : t[i] = s[i]
  BY <1>n, <1>t
<1>2. /\ K \in SUBSET (1..n) /\ Cardinality(K) \in Nat
      /\ DOMAIN r = 1..Cardinality(K) /\ r \in Seq(X) /\ Len(r) = Cardinality(K)
      /\ \A i \in K : Pos(K, i) \in DOMAIN r /\ r[Pos(K, i)] = s[i]
      /\ \A m \in DOMAIN r : \E i \in K : Pos(K, i) = m /\ r[m] = s[i]
  BY <1>n, <1>K, <1>r, RetainRows
<1>3. /\ L \in SUBSET (1..(n + 1)) /\ Cardinality(L) \in Nat
      /\ DOMAIN u = 1..Cardinality(L) /\ u \in Seq(X) /\ Len(u) = Cardinality(L)
      /\ \A i \in L : Pos(L, i) \in DOMAIN u /\ u[Pos(L, i)] = t[i]
  BY <1>1, <1>L, <1>u, RetainRows
<1>4. L = IF x \in S THEN K \cup {n + 1} ELSE K
  <2>1. DOMAIN s = 1..n /\ DOMAIN t = 1..(n + 1)
    BY <1>1, <1>n
  <2> QED BY <1>1, <1>K, <1>L, <2>1 DEF Kept
<1>5. K \subseteq L /\ \A i \in K : t[i] = s[i]
  BY <1>1, <1>2, <1>4
<1>6. \A i \in K : Pos(L, i) = Pos(K, i)
  <2> TAKE i \in K
  <2>1. {k \in L : k <= i} = {k \in K : k <= i}
    BY <1>1, <1>2, <1>4
  <2> QED BY <2>1 DEF Pos
<1>7. \A m \in 1..Cardinality(K) : m \in DOMAIN u /\ u[m] = r[m]
  <2> TAKE m \in 1..Cardinality(K)
  <2>1. PICK i \in K : Pos(K, i) = m /\ r[m] = s[i]
    BY <1>2
  <2>2. i \in L /\ Pos(L, i) = m /\ t[i] = s[i]
    BY <1>5, <1>6, <2>1
  <2> QED BY <1>3, <2>1, <2>2
<1>8. CASE x \notin S
  <2>1. L = K
    BY <1>4, <1>8
  <2>2. u = r
    BY <1>2, <1>3, <1>7, <2>1
  <2> QED BY <1>t, <1>r, <1>u, <1>8, <2>2, Zenon
<1>9. CASE x \in S
  <2>1. L = K \cup {n + 1} /\ n + 1 \notin K
    BY <1>1, <1>2, <1>4, <1>9
  <2>2. IsFiniteSet(K)
    BY <1>1, <1>2, PosBijection
  <2>3. Cardinality(L) = Cardinality(K) + 1
    BY <2>1, <2>2, FS_AddElement
  <2>4. {k \in L : k <= n + 1} = L
    <3>1. L \in SUBSET (1..(n + 1))
      BY <1>3
    <3>2. \A k \in L : k <= n + 1
      BY <3>1
    <3> QED BY <3>2, Zenon
  <2>5. Pos(L, n + 1) = Cardinality(K) + 1 /\ n + 1 \in L
    BY <2>1, <2>3, <2>4 DEF Pos
  <2>6. u[Cardinality(K) + 1] = x
    BY <1>1, <1>3, <2>5
  <2>7. u = Append(r, x)
    BY <1>2, <1>3, <1>7, <2>3, <2>6
  <2> QED BY <1>t, <1>r, <1>u, <1>9, <2>7, Zenon
<1> QED BY <1>8, <1>9

\* Nothing is kept of nothing.
LEMMA RetainNothing == ASSUME NEW S PROVE Retain(<<>>, S) = <<>>
<1>1. Kept(<<>>, S) = {}
  BY DEF Kept
<1>2. <<>> \in Seq({})
  OBVIOUS
<1>3. Retain(<<>>, S) \in Seq({}) /\ Len(Retain(<<>>, S)) = 0
  BY <1>1, <1>2, RetainRows, FS_EmptySet
<1> QED BY <1>3

\* The rounds of sweep_pending_inputs: what is kept of the first i rows.
LEMMA SweepRound ==
  ASSUME NEW X, NEW s \in Seq(X), NEW running, NEW drop, NEW i \in 1..Len(s),
         NEW Keep, Keep = Elems(s) \ Swept(s, running, drop)
  PROVE  Retain(SubSeq(s, 1, i), Keep) =
           IF s[i] # running /\ s[i] \in drop THEN Retain(SubSeq(s, 1, i - 1), Keep)
           ELSE Append(Retain(SubSeq(s, 1, i - 1), Keep), s[i])
<1>1. s[i] \in Keep <=> ~(s[i] # running /\ s[i] \in drop)
  BY DEF Swept, Elems
<1>2. /\ SubSeq(s, 1, i - 1) \in Seq(X) /\ s[i] \in X
      /\ SubSeq(s, 1, i) = Append(SubSeq(s, 1, i - 1), s[i])
  BY PrefixStep
<1>3. PICK t \in Seq(X) : t = SubSeq(s, 1, i - 1)
  BY <1>2
<1>4. PICK x \in X : x = s[i]
  BY <1>2
<1>5. Retain(Append(t, x), Keep) =
        IF x \in Keep THEN Append(Retain(t, Keep), x) ELSE Retain(t, Keep)
  BY RetainAppend
<1> QED BY <1>1, <1>2, <1>3, <1>4, <1>5, Zenon

\* sweep_pending_inputs computes Sweep, for a queue of every length.
THEOREM SweepLoopSweeps ==
  ASSUME NEW X, NEW s \in Seq(X), NEW running, NEW drop
  PROVE  SweepLoop(s, running, drop) = Sweep(s, running, drop)
<1>1. PICK n \in Nat : n = Len(s) /\ SubSeq(s, 1, 0) = <<>> /\ SubSeq(s, 1, n) = s
  BY PrefixEnds
<1>2. PICK Keep : Keep = Elems(s) \ Swept(s, running, drop)
  OBVIOUS
<1>3. PICK w : w = [i \in 0..n |-> Retain(SubSeq(s, 1, i), Keep)]
  OBVIOUS
<1>4. w[0] = <<>> /\ w[n] = Retain(s, Keep)
  BY <1>1, <1>3, RetainNothing
<1>5. \A i \in 1..n : w[i] = IF s[i] # running /\ s[i] \in drop THEN w[i - 1]
                             ELSE Append(w[i - 1], s[i])
  <2> TAKE i \in 1..n
  <2>1. i \in 0..n /\ i - 1 \in 0..n
    BY <1>1
  <2>2. w[i] = Retain(SubSeq(s, 1, i), Keep) /\ w[i - 1] = Retain(SubSeq(s, 1, i - 1), Keep)
    BY <1>3, <2>1
  <2> QED BY <1>1, <1>2, <2>2, SweepRound
<1>6. w = [i \in 0..n |-> IF i = 0 THEN <<>>
                          ELSE IF s[i] # running /\ s[i] \in drop THEN w[i - 1]
                          ELSE Append(w[i - 1], s[i])]
  <2>1. \A i \in 0..n : w[i] = IF i = 0 THEN <<>>
                               ELSE IF s[i] # running /\ s[i] \in drop THEN w[i - 1]
                               ELSE Append(w[i - 1], s[i])
    <3> TAKE i \in 0..n
    <3>1. CASE i = 0
      BY <1>4, <3>1
    <3>2. CASE i # 0
      <4>1. i \in 1..n
        BY <1>1, <3>2
      <4> QED BY <1>5, <3>2, <4>1, Zenon
    <3> QED BY <3>1, <3>2
  <2>2. w = [i \in 0..n |-> w[i]]
    BY <1>3
  <2> QED BY <2>1, <2>2, Zenon
<1>7. PICK f : f = CHOOSE g : g = [i \in 0..n |->
                          IF i = 0 THEN <<>>
                          ELSE IF s[i] # running /\ s[i] \in drop THEN g[i - 1]
                          ELSE Append(g[i - 1], s[i])]
  OBVIOUS
<1>8. SweepLoop(s, running, drop) = f[n]
  BY <1>1, <1>7, Zenon DEF SweepLoop
<1>9. f = [i \in 0..n |-> IF i = 0 THEN <<>>
                          ELSE IF s[i] # running /\ s[i] \in drop THEN f[i - 1]
                          ELSE Append(f[i - 1], s[i])]
  BY <1>6, <1>7, Zenon
<1>10. f[0] = <<>>
  BY <1>1, <1>9
<1>11. \A i \in 1..n : f[i] = IF s[i] # running /\ s[i] \in drop THEN f[i - 1]
                              ELSE Append(f[i - 1], s[i])
  <2> TAKE i \in 1..n
  <2>1. i \in 0..n /\ i # 0
    BY <1>1
  <2> QED BY <1>9, <2>1, Zenon
<1>12. \A i \in 0..n : f[i] = w[i]
  <2>1. \A i \in 1..n : f[i - 1] = w[i - 1] => f[i] = w[i]
    BY <1>5, <1>11, Zenon
  <2>2. f[0] = w[0]
    BY <1>4, <1>10
  <2> QED BY <2>1, <2>2, SameLoop, ZenonT(120)
<1>13. f[n] = Retain(s, Keep)
  BY <1>1, <1>4, <1>12
<1>14. Sweep(s, running, drop) = Retain(s, Keep)
  BY <1>2, Zenon DEF Sweep, Without
<1> QED BY <1>8, <1>13, <1>14

-----------------------------------------------------------------------------
(* Scans.                                                                  *)

\* A run of rows of S is its first row and the run behind that row.
LEMMA RunStep ==
  ASSUME NEW X, NEW s \in Seq(X), NEW S, NEW k \in 0..Len(s)
  PROVE  RunLength(s, k + 1, S) =
           IF k < Len(s) /\ s[k + 1] \in S THEN 1 + RunLength(s, (k + 1) + 1, S) ELSE 0
<1>1. PICK n \in Nat : n = Len(s)
  OBVIOUS
<1>2. PICK k1 \in Nat : k1 = k + 1
  BY <1>1
<1> DEFINE J == {j \in k1..n : \A m \in k1..j : s[m] \in S}
           L == {j \in (k1 + 1)..n : \A m \in (k1 + 1)..j : s[m] \in S}
<1>3. RunLength(s, k + 1, S) = Cardinality(J)
      /\ RunLength(s, (k + 1) + 1, S) = Cardinality(L)
  BY <1>1, <1>2, Zenon DEF RunLength
<1>4. IsFiniteSet(L) /\ Cardinality(L) \in Nat
  <2>1. L \subseteq (k1 + 1)..n
    OBVIOUS
  <2> HIDE DEF J, L
  <2>2. k1 + 1 \in Int /\ n \in Int
    BY <1>1, <1>2
  <2>3. IsFiniteSet((k1 + 1)..n)
    BY <2>2, FS_Interval
  <2> QED BY <2>1, <2>3, FS_Subset, FS_CardinalityType
<1>5. CASE k < n /\ s[k1] \in S
  <2>1. k1 \notin L
    BY <1>2
  <2>2. \A j \in J : j = k1 \/ j \in L
    BY <1>1, <1>2
  <2>3. k1 \in J
    BY <1>1, <1>2, <1>5
  <2>4. \A j \in L : j \in J
    BY <1>1, <1>2, <1>5
  <2> HIDE DEF J, L
  <2>5. J = L \cup {k1}
    BY <2>2, <2>3, <2>4
  <2>6. Cardinality(J) = Cardinality(L) + 1
    BY <1>4, <2>1, <2>5, FS_AddElement
  <2> QED BY <1>1, <1>2, <1>3, <1>4, <1>5, <2>6
<1>6. CASE ~(k < n /\ s[k1] \in S)
  <2>1. J = {}
    BY <1>1, <1>2, <1>6
  <2> HIDE DEF J, L
  <2>2. Cardinality(J) = 0
    BY <2>1, FS_EmptySet
  <2> QED BY <1>1, <1>2, <1>3, <1>6, <2>2
<1> QED BY <1>5, <1>6

\* The loop over the rows behind the first k of them ends where their run of S ends.
THEOREM ScanLoopCounts ==
  ASSUME NEW X, NEW s \in Seq(X), NEW S, NEW from \in 0..Len(s)
  PROVE  ScanLoop(s, from, S) = from + RunLength(s, from + 1, S)
<1>1. PICK n \in Nat : n = Len(s)
  OBVIOUS
<1>2. PICK w : w = [k \in 0..n |-> k + RunLength(s, k + 1, S)]
  OBVIOUS
<1>3. \A k \in 0..n : w[k] = IF k < n /\ s[k + 1] \in S THEN w[k + 1] ELSE k
  <2> TAKE k \in 0..n
  <2>1. RunLength(s, k + 1, S) =
          IF k < n /\ s[k + 1] \in S THEN 1 + RunLength(s, (k + 1) + 1, S) ELSE 0
    BY <1>1, RunStep
  <2>2. w[k] = k + RunLength(s, k + 1, S)
    BY <1>2, Zenon
  <2>3. CASE k < n /\ s[k + 1] \in S
    <3>1. PICK k1 \in 0..n : k1 = k + 1
      BY <1>1, <2>3
    <3>2. w[k1] = k1 + RunLength(s, k1 + 1, S)
      BY <1>2, Zenon
    <3>3. RunLength(s, k1 + 1, S) \in Nat
      <4>1. k1 + 1 \in Nat \ {0} /\ k1 + 1 <= Len(s) + 1
        BY <1>1
      <4> QED BY <4>1, RunLengthFacts
    <3>4. RunLength(s, k + 1, S) = 1 + RunLength(s, k1 + 1, S)
      BY <2>1, <2>3, <3>1, Zenon
    <3>5. w[k] = w[k1]
      BY <1>1, <2>2, <3>1, <3>2, <3>3, <3>4
    <3> QED BY <2>3, <3>1, <3>5
  <2>4. CASE ~(k < n /\ s[k + 1] \in S)
    <3>1. RunLength(s, k + 1, S) = 0
      BY <2>1, <2>4, Zenon
    <3>2. w[k] = k
      BY <1>1, <2>2, <3>1
    <3> QED BY <2>4, <3>2, Zenon
  <2> QED BY <2>3, <2>4
<1>4. w = [k \in 0..n |-> IF k < n /\ s[k + 1] \in S THEN w[k + 1] ELSE k]
  <2>1. w = [k \in 0..n |-> w[k]]
    BY <1>2
  <2> QED BY <1>3, <2>1, Zenon
<1>5. PICK f : f = CHOOSE g : g = [k \in 0..n |->
                     IF k < n /\ s[k + 1] \in S THEN g[k + 1] ELSE k]
  OBVIOUS
<1>6. ScanLoop(s, from, S) = f[from]
  BY <1>1, <1>5, Zenon DEF ScanLoop
<1>7. f = [k \in 0..n |-> IF k < n /\ s[k + 1] \in S THEN f[k + 1] ELSE k]
  BY <1>4, <1>5, Zenon
<1>8. \A k \in 0..n : f[k] = IF k < n /\ s[k + 1] \in S THEN f[k + 1] ELSE k
  BY <1>7, Zenon
<1>9. \A k \in 0..n : f[k] = w[k]
  <2>1. PICK F : F = [i \in 0..n |-> f[n - i]]
    OBVIOUS
  <2>2. PICK W : W = [i \in 0..n |-> w[n - i]]
    OBVIOUS
  <2>3. \A i \in 0..n : F[i] = f[n - i] /\ W[i] = w[n - i]
    BY <2>1, <2>2, Zenon
  <2>4. F[0] = W[0]
    <3>1. n \in 0..n /\ 0 \in 0..n /\ n - 0 = n /\ ~(n < n)
      OBVIOUS
    <3>2. f[n] = n /\ w[n] = n
      BY <1>3, <1>8, <3>1, Zenon
    <3> QED BY <2>3, <3>1, <3>2
  <2>5. ASSUME NEW i \in 1..n, F[i - 1] = W[i - 1] PROVE F[i] = W[i]
    <3>1. PICK k \in 0..n : k = n - i
      OBVIOUS
    <3>2. k + 1 = n - (i - 1) /\ i \in 0..n /\ i - 1 \in 0..n
      BY <3>1
    <3>3. f[k + 1] = w[k + 1]
      BY <2>3, <2>5, <3>2, Zenon
    <3>4. f[k] = w[k]
      BY <1>3, <1>8, <3>3, Zenon
    <3> QED BY <2>3, <3>1, <3>2, <3>4, Zenon
  <2>6. \A i \in 0..n : F[i] = W[i]
    BY <2>4, <2>5, SameLoop
  <2> TAKE k \in 0..n
  <2>7. PICK i \in 0..n : k = n - i
    <3>1. n - k \in 0..n /\ k = n - (n - k)
      OBVIOUS
    <3> QED BY <3>1
  <2> QED BY <2>3, <2>6, <2>7, Zenon
<1>10. w[from] = from + RunLength(s, from + 1, S)
  BY <1>1, <1>2, Zenon
<1> QED BY <1>1, <1>6, <1>9, <1>10

\* send_now_insert_index and combine_prefix_len compute the closed forms, for a queue
\* of every length.
THEOREM ScanLoopsMatch ==
  ASSUME NEW X, NEW s \in Seq(X), NEW running, NEW S, NEW front, NEW follower
  PROVE  /\ ScanLoop(s, RunningOffset(s, running), S) = SendNowIndex(s, running, S)
         /\ CombineLoop(s, front, follower) = CombinePrefixLen(s, front, follower)
<1>1. PICK o \in 0..Len(s) : o = RunningOffset(s, running)
  BY RunningOffsetFacts
<1>2. ScanLoop(s, o, S) = o + RunLength(s, o + 1, S)
  BY ScanLoopCounts
<1>3. SendNowIndex(s, running, S) = o + RunLength(s, o + 1, S)
  BY <1>1, Zenon DEF SendNowIndex
<1>4. CombineLoop(s, front, follower) = CombinePrefixLen(s, front, follower)
  <2>1. CASE s = <<>>
    BY <2>1, Zenon DEF CombineLoop, CombinePrefixLen
  <2>2. CASE s # <<>>
    <3>1. Head(s) = s[1] /\ 1 \in 0..Len(s) /\ 1 + 1 = 2
      BY <2>2
    <3>2. ScanLoop(s, 1, follower) = 1 + RunLength(s, 2, follower)
      BY <3>1, ScanLoopCounts
    <3> QED BY <2>2, <3>1, <3>2, Zenon DEF CombineLoop, CombinePrefixLen
  <2> QED BY <2>1, <2>2
<1> QED BY <1>1, <1>2, <1>3, <1>4

-----------------------------------------------------------------------------
(* Flushes.                                                                *)

\* One entry more, inserted in front of the entries that are already there.
LEMMA InsertBefore ==
  ASSUME NEW X, NEW s \in Seq(X), NEW ys \in Seq(X), NEW x \in X, NEW o \in 0..Len(s)
  PROVE  Insert(InsertAll(s, o, ys), o, x) = InsertAll(s, o, <<x>> \o ys)
<1>1. PICK n \in Nat : n = Len(s)
  OBVIOUS
<1>2. PICK m \in Nat : m = Len(ys)
  OBVIOUS
<1>3. PICK zs \in Seq(X) : zs = <<x>> \o ys
  <2>1. <<x>> \in Seq(X)
    OBVIOUS
  <2>2. <<x>> \o ys \in Seq(X)
    BY <2>1, ConcatFacts
  <2> QED BY <2>2
<1>4. Len(zs) = m + 1 /\ zs[1] = x /\ \A i \in 2..(m + 1) : zs[i] = ys[i - 1]
  BY <1>2, <1>3
<1>5. PICK r \in Seq(X) : r = InsertAll(s, o, ys)
  BY InsertAllFacts
<1>6. r = [i \in 1..(n + m) |->
             IF i <= o THEN s[i] ELSE IF i <= o + m THEN ys[i - o] ELSE s[i - m]]
  BY <1>1, <1>2, <1>5, Zenon DEF InsertAll
<1>7. Len(r) = n + m /\ \A i \in 1..(n + m) : r[i] =
        IF i <= o THEN s[i] ELSE IF i <= o + m THEN ys[i - o] ELSE s[i - m]
  <2>1. DOMAIN r = 1..(n + m) /\ n + m \in Nat
    BY <1>1, <1>2, <1>6
  <2>2. Len(r) = n + m
    BY <1>5, <2>1
  <2> QED BY <1>6, <2>2, Zenon
<1>8. Insert(r, o, x) =
        [i \in 1..((n + m) + 1) |->
           IF i <= o THEN r[i] ELSE IF i = o + 1 THEN x ELSE r[i - 1]]
  BY <1>7, Zenon DEF Insert
<1>9. InsertAll(s, o, zs) =
        [i \in 1..(n + (m + 1)) |->
           IF i <= o THEN s[i] ELSE IF i <= o + (m + 1) THEN zs[i - o]
           ELSE s[i - (m + 1)]]
  BY <1>1, <1>4, Zenon DEF InsertAll
<1>10. (n + m) + 1 = n + (m + 1)
  OBVIOUS
<1>11. \A i \in 1..(n + (m + 1)) :
         (IF i <= o THEN r[i] ELSE IF i = o + 1 THEN x ELSE r[i - 1]) =
         (IF i <= o THEN s[i] ELSE IF i <= o + (m + 1) THEN zs[i - o] ELSE s[i - (m + 1)])
  <2> TAKE i \in 1..(n + (m + 1))
  <2>1. CASE i <= o
    <3>1. i \in 1..(n + m)
      BY <1>1, <2>1
    <3> QED BY <1>7, <2>1, <3>1, Zenon
  <2>2. CASE i = o + 1
    <3>1. ~(i <= o) /\ i <= o + (m + 1) /\ i - o = 1
      BY <1>1, <2>2
    <3> QED BY <1>4, <2>2, <3>1, Zenon
  <2>3. CASE i > o + 1
    <3>1. PICK j \in 1..(n + m) : j = i - 1
      BY <1>1, <2>3
    <3>2. ~(i <= o) /\ i # o + 1 /\ ~(j <= o)
      BY <1>1, <2>3, <3>1
    <3>3. CASE j <= o + m
      <4>1. i <= o + (m + 1) /\ i - o \in 2..(m + 1) /\ (i - o) - 1 = j - o
        BY <1>1, <2>3, <3>1, <3>3
      <4>2. zs[i - o] = ys[j - o]
        BY <1>4, <4>1
      <4>3. r[j] = ys[j - o]
        BY <1>7, <3>2, <3>3, Zenon
      <4> QED BY <3>1, <3>2, <4>1, <4>2, <4>3, Zenon
    <3>4. CASE ~(j <= o + m)
      <4>1. ~(i <= o + (m + 1)) /\ i - (m + 1) = j - m
        BY <1>1, <3>1, <3>4
      <4>2. r[j] = s[j - m]
        BY <1>7, <3>2, <3>4, Zenon
      <4> QED BY <3>1, <3>2, <4>1, <4>2, Zenon
    <3> QED BY <3>3, <3>4
  <2> QED BY <1>1, <2>1, <2>2, <2>3
<1>12. Insert(r, o, x) = InsertAll(s, o, zs)
  BY <1>8, <1>9, <1>10, <1>11, Zenon
<1> QED BY <1>3, <1>5, <1>12

\* The running front stays the front: the offset of the next insert is the first one's.
LEMMA FlushOffset ==
  ASSUME NEW X, NEW s \in Seq(X), NEW ys \in Seq(X), NEW running,
         running \notin Elems(ys)
  PROVE  LET o == RunningOffset(s, running)
         IN  RunningOffset(InsertAll(s, o, ys), running) = o
<1>1. PICK o \in 0..Len(s) : o = RunningOffset(s, running)
  BY RunningOffsetFacts
<1>2. PICK r \in Seq(X) : r = InsertAll(s, o, ys)
  BY InsertAllFacts
<1>3. o = IF s # <<>> /\ Head(s) = running THEN 1 ELSE 0
  BY <1>1 DEF RunningOffset
<1>4. CASE s # <<>> /\ Head(s) = running
  <2>1. o = 1
    BY <1>3, <1>4
  <2>2. r # <<>> /\ Head(r) = running
    BY <1>2, <1>4, <2>1, InsertAllFacts
  <2>3. RunningOffset(r, running) = o
    BY <2>1, <2>2 DEF RunningOffset
  <2> QED BY <1>1, <1>2, <2>3
<1>5. CASE ~(s # <<>> /\ Head(s) = running)
  <2>1. o = 0 /\ Len(s) \in Nat /\ Len(ys) \in Nat
    BY <1>3, <1>5
  <2>2. r = [i \in 1..(Len(s) + Len(ys)) |->
               IF i <= o THEN s[i] ELSE IF i <= o + Len(ys) THEN ys[i - o]
               ELSE s[i - Len(ys)]]
    BY <1>2 DEF InsertAll
  <2>3. Len(r) = Len(s) + Len(ys)
    <3>1. DOMAIN r = 1..(Len(s) + Len(ys))
      BY <2>2
    <3> QED BY <2>1, <3>1
  <2>4. ASSUME r # <<>> PROVE Head(r) # running
    <3>1. 1 \in 1..(Len(s) + Len(ys)) /\ Head(r) = r[1]
      BY <2>1, <2>3, <2>4
    <3>2. CASE Len(ys) >= 1
      <4>1. ~(1 <= o) /\ 1 <= o + Len(ys) /\ 1 - o = 1 /\ 1 \in DOMAIN ys
        BY <2>1, <3>2
      <4>2. r[1] = ys[1]
        BY <2>2, <3>1, <4>1
      <4>3. ys[1] \in Elems(ys)
        BY <4>1 DEF Elems
      <4> QED BY <3>1, <4>2, <4>3
    <3>3. CASE Len(ys) = 0
      <4>1. ~(1 <= o) /\ ~(1 <= o + Len(ys)) /\ 1 - Len(ys) = 1
        BY <2>1, <3>3
      <4>2. r[1] = s[1]
        BY <2>2, <3>1, <4>1
      <4>3. s # <<>> /\ Head(s) = s[1]
        BY <2>1, <3>1, <3>3
      <4> QED BY <1>5, <3>1, <4>2, <4>3
    <3> QED BY <2>1, <3>2, <3>3
  <2>5. RunningOffset(r, running) = 0
    BY <2>4 DEF RunningOffset
  <2> QED BY <1>1, <1>2, <2>1, <2>5
<1> QED BY <1>4, <1>5

\* The last k entries are one entry and the last k - 1 entries.
LEMMA SuffixStep ==
  ASSUME NEW X, NEW xs \in Seq(X), NEW k \in 1..Len(xs)
  PROVE  LET m == Len(xs)
             t == SubSeq(xs, m + 1 - (k - 1), m)
         IN  /\ t \in Seq(X) /\ Elems(t) \subseteq Elems(xs)
             /\ xs[m + 1 - k] \in X
             /\ SubSeq(xs, m + 1 - k, m) = <<xs[m + 1 - k]>> \o t
<1>1. PICK m \in Nat : m = Len(xs)
  OBVIOUS
<1>2. PICK j \in 1..m : j = m + 1 - k /\ m + 1 - (k - 1) = j + 1
  <2>1. m + 1 - k \in 1..m /\ m + 1 - (k - 1) = (m + 1 - k) + 1
    BY <1>1
  <2> QED BY <2>1
<1>3. PICK t \in Seq(X) : t = SubSeq(xs, j + 1, m)
  <2>1. SubSeq(xs, j + 1, m) \in Seq(X)
    BY <1>1
  <2> QED BY <2>1
<1>4. \A i \in DOMAIN t : \E l \in DOMAIN xs : t[i] = xs[l]
  <2>1. \A i \in DOMAIN t : j + i \in DOMAIN xs /\ t[i] = xs[j + i]
    BY <1>1, <1>3, SMTT(30)
  <2> QED BY <2>1, Zenon
<1>5. Elems(t) \subseteq Elems(xs)
  BY <1>4 DEF Elems
<1>6. xs[j] \in X
  BY <1>1
<1>7. SubSeq(xs, j, m) = <<xs[j]>> \o SubSeq(xs, j + 1, m)
  BY <1>1, <1>6
<1> QED BY <1>1, <1>2, <1>3, <1>5, <1>6, <1>7, Zenon

\* flush_stranded_interjections, entry by entry from the last to the first, leaves the
\* entries in their order behind the running front, for a queue and a buffer of every
\* length.
THEOREM FlushLoopInserts ==
  ASSUME NEW X, NEW s \in Seq(X), NEW xs \in Seq(X), NEW running,
         running \notin Elems(xs)
  PROVE  FlushLoop(s, running, xs) = InsertAll(s, RunningOffset(s, running), xs)
<1>1. PICK m \in Nat : m = Len(xs)
  OBVIOUS
<1>2. PICK o \in 0..Len(s) : o = RunningOffset(s, running)
  BY RunningOffsetFacts
<1>3. PICK w : w = [k \in 0..m |-> InsertAll(s, o, SubSeq(xs, m + 1 - k, m))]
  OBVIOUS
<1>4. w[0] = s
  <2>1. 0 \in 0..m /\ SubSeq(xs, m + 1 - 0, m) = <<>> /\ <<>> \in Seq(X)
    BY <1>1
  <2>2. w[0] = InsertAll(s, o, <<>>)
    BY <1>3, <2>1, Zenon
  <2>3. PICK n \in Nat : n = Len(s)
    OBVIOUS
  <2>4. InsertAll(s, o, <<>>) =
          [i \in 1..(n + 0) |->
             IF i <= o THEN s[i] ELSE IF i <= o + 0 THEN <<>>[i - o] ELSE s[i - 0]]
    <3>1. PICK e : e = <<>>
      OBVIOUS
    <3>2. Len(e) = 0
      BY <3>1
    <3>3. InsertAll(s, o, e) =
            [i \in 1..(n + 0) |->
               IF i <= o THEN s[i] ELSE IF i <= o + 0 THEN e[i - o] ELSE s[i - 0]]
      BY <2>3, <3>2, Zenon DEF InsertAll
    <3> QED BY <3>1, <3>3, Zenon
  <2>5. \A i \in 1..n :
          (IF i <= o THEN s[i] ELSE IF i <= o + 0 THEN <<>>[i - o] ELSE s[i - 0]) = s[i]
    <3> TAKE i \in 1..n
    <3>1. i - 0 = i /\ o + 0 = o
      BY <2>3
    <3> QED BY <3>1, Zenon
  <2>6. n + 0 = n
    OBVIOUS
  <2>7. s = [i \in 1..n |-> s[i]]
    BY <2>3
  <2>8. InsertAll(s, o, <<>>) = s
    BY <2>4, <2>5, <2>6, <2>7, Zenon
  <2> QED BY <2>2, <2>8
<1>5. w[m] = InsertAll(s, o, xs)
  <2>1. m \in 0..m /\ m + 1 - m = 1 /\ SubSeq(xs, 1, m) = xs
    BY <1>1
  <2> QED BY <1>3, <2>1, Zenon
<1>6. ASSUME NEW k \in 1..m
      PROVE  w[k] = Insert(w[k - 1], RunningOffset(w[k - 1], running), xs[m + 1 - k])
  <2>1. k \in 0..m /\ k - 1 \in 0..m /\ k \in 1..Len(xs)
    BY <1>1
  <2>2. /\ SubSeq(xs, m + 1 - (k - 1), m) \in Seq(X)
        /\ Elems(SubSeq(xs, m + 1 - (k - 1), m)) \subseteq Elems(xs)
        /\ xs[m + 1 - k] \in X
        /\ SubSeq(xs, m + 1 - k, m) = <<xs[m + 1 - k]>> \o SubSeq(xs, m + 1 - (k - 1), m)
    BY <1>1, <2>1, SuffixStep
  <2>3. PICK t \in Seq(X) : t = SubSeq(xs, m + 1 - (k - 1), m)
    BY <2>2
  <2>4. PICK x \in X : x = xs[m + 1 - k]
    BY <2>2
  <2>5. w[k] = InsertAll(s, o, <<x>> \o t) /\ w[k - 1] = InsertAll(s, o, t)
    BY <1>3, <2>1, <2>2, <2>3, <2>4, Zenon
  <2>6. RunningOffset(InsertAll(s, o, t), running) = o
    <3>1. running \notin Elems(t)
      BY <2>2, <2>3
    <3> QED BY <1>2, <3>1, FlushOffset
  <2>7. Insert(InsertAll(s, o, t), o, x) = InsertAll(s, o, <<x>> \o t)
    BY InsertBefore
  <2> QED BY <2>4, <2>5, <2>6, <2>7, Zenon
<1>7. w = [k \in 0..m |->
             IF k = 0 THEN s
             ELSE Insert(w[k - 1], RunningOffset(w[k - 1], running), xs[m + 1 - k])]
  <2>1. \A k \in 0..m : w[k] =
          IF k = 0 THEN s
          ELSE Insert(w[k - 1], RunningOffset(w[k - 1], running), xs[m + 1 - k])
    <3> TAKE k \in 0..m
    <3>1. k # 0 => k \in 1..m
      BY <1>1
    <3> QED BY <1>4, <1>6, <3>1, Zenon
  <2>2. w = [k \in 0..m |-> w[k]]
    BY <1>3
  <2> QED BY <2>1, <2>2, Zenon
<1>8. PICK f : f = CHOOSE g : g = [k \in 0..m |->
             IF k = 0 THEN s
             ELSE Insert(g[k - 1], RunningOffset(g[k - 1], running), xs[m + 1 - k])]
  OBVIOUS
<1>9. FlushLoop(s, running, xs) = f[m]
  BY <1>1, <1>8, Zenon DEF FlushLoop
<1>10. f = [k \in 0..m |->
             IF k = 0 THEN s
             ELSE Insert(f[k - 1], RunningOffset(f[k - 1], running), xs[m + 1 - k])]
  BY <1>7, <1>8, Zenon
<1>11. f[0] = w[0]
  <2>1. 0 \in 0..m
    BY <1>1
  <2> QED BY <1>4, <1>10, <2>1, Zenon
<1>12. ASSUME NEW k \in 1..m, f[k - 1] = w[k - 1] PROVE f[k] = w[k]
  <2>1. k \in 0..m /\ k # 0
    BY <1>1
  <2>2. f[k] = Insert(f[k - 1], RunningOffset(f[k - 1], running), xs[m + 1 - k])
    BY <1>10, <2>1, Zenon
  <2> QED BY <1>6, <1>12, <2>2, Zenon
<1>13. \A k \in 0..m : f[k] = w[k]
  <2>1. \A k \in 1..m : f[k - 1] = w[k - 1] => f[k] = w[k]
    BY <1>12, Zenon
  <2> QED BY <1>11, <2>1, SameLoop, ZenonT(120)
<1>14. m \in 0..m
  OBVIOUS
<1> QED BY <1>2, <1>5, <1>9, <1>13, <1>14, Zenon

-----------------------------------------------------------------------------
(* Pushes.                                                                 *)

\* The excess of one push more is the excess so far and the excess of that push.
LEMMA PushCounts ==
  ASSUME NEW n \in Nat, NEW cap \in Nat,
         NEW e, e = IF n > cap THEN n - cap ELSE 0,
         NEW g, g = IF n + 1 > cap THEN (n + 1) - cap ELSE 0,
         NEW l, l = n - e,
         NEW h, h = IF l + 1 > cap THEN l + 1 - cap ELSE 0
  PROVE  /\ e \in Nat /\ g \in Nat /\ l \in Nat /\ h \in 0..1
         /\ g = e + h /\ n = l + e /\ l <= cap
<1>1. CASE n + 1 > cap
  <2>1. e = n - cap /\ g = (n + 1) - cap
    BY <1>1
  <2>2. l = cap
    BY <2>1
  <2>3. h = 1
    BY <2>2
  <2> QED BY <1>1, <2>1, <2>2, <2>3
<1>2. CASE ~(n + 1 > cap)
  <2>1. e = 0 /\ g = 0
    BY <1>2
  <2>2. l = n
    BY <2>1
  <2>3. h = 0
    BY <1>2, <2>2
  <2> QED BY <1>2, <2>1, <2>2, <2>3
<1> QED BY <1>1, <1>2

\* A push behind a concatenation.
LEMMA ConcatAppend ==
  ASSUME NEW X, NEW s \in Seq(X), NEW t \in Seq(X), NEW x \in X
  PROVE  /\ s \o Append(t, x) \in Seq(X)
         /\ s \o Append(t, x) = Append(s \o t, x)
OBVIOUS

\* The rows of a suffix.
LEMMA SuffixRows ==
  ASSUME NEW X, NEW v \in Seq(X), NEW l \in Nat, NEW h \in 0..1, Len(v) = l + 1
  PROVE  SubSeq(v, h + 1, l + 1) = [i \in 1..((l + 1) - h) |-> v[i + h]]
OBVIOUS

\* One push more: what a push and its drain leave of a buffer within the cap.
LEMMA PushOne ==
  ASSUME NEW X, NEW s \in Seq(X), NEW t \in Seq(X), NEW x \in X, NEW cap \in Nat
  PROVE  Push(PushNotes(s, t, cap), x, cap) = PushNotes(s, Append(t, x), cap)
<1>1. PICK all \in Seq(X) : all = s \o t
  BY ConcatFacts
<1>2. PICK n \in Nat : n = Len(all) /\ n = Len(s) + Len(t)
  BY <1>1
<1>3. PICK u \in Seq(X) : u = Append(t, x)
  <2>1. Append(t, x) \in Seq(X)
    OBVIOUS
  <2> QED BY <2>1
<1>4. PICK more \in Seq(X) : more = s \o u /\ more = Append(all, x)
  <2>1. s \o Append(t, x) \in Seq(X) /\ s \o Append(t, x) = Append(s \o t, x)
    BY ConcatAppend
  <2>2. s \o u \in Seq(X) /\ s \o u = Append(all, x)
    BY <1>1, <1>3, <2>1, Zenon
  <2> QED BY <2>2, Zenon
<1>5. Len(more) = n + 1 /\ more[n + 1] = x /\ \A i \in 1..n : more[i] = all[i]
  <2>1. more = Append(all, x) /\ Len(all) = n
    BY <1>2, <1>4
  <2> QED BY <2>1
<1>6. PICK e : e = IF n > cap THEN n - cap ELSE 0
  OBVIOUS
<1>c. PICK g : g = IF n + 1 > cap THEN (n + 1) - cap ELSE 0
  OBVIOUS
<1>d. PICK l : l = n - e
  OBVIOUS
<1>e. PICK h : h = IF l + 1 > cap THEN l + 1 - cap ELSE 0
  OBVIOUS
<1>a. /\ e \in Nat /\ g \in Nat /\ l \in Nat /\ h \in 0..1
      /\ g = e + h /\ n = l + e
  BY <1>6, <1>c, <1>d, <1>e, PushCounts
<1>7. PICK r : r = PushNotes(s, t, cap)
  OBVIOUS
<1>8. r = [i \in 1..l |-> all[i + e]]
  BY <1>1, <1>2, <1>6, <1>7, <1>d, Zenon DEF PushNotes
<1>9. PushNotes(s, u, cap) = [i \in 1..((n + 1) - g) |-> more[i + g]]
  <2>1. g = IF n + 1 > cap THEN (n + 1) - cap ELSE 0
    BY <1>c
  <2>2. Len(s \o u) = n + 1 /\ more = s \o u
    BY <1>4, <1>5, Zenon
  <2> QED BY <2>1, <2>2, Zenon DEF PushNotes
<1>10. \A i \in 1..l : i + e \in 1..n
  BY <1>a
<1>11. r \in Seq(X) /\ Len(r) = l
  <2>1. \A i \in 1..l : all[i + e] \in X
    <3>1. \A i \in 1..Len(all) : all[i] \in X
      OBVIOUS
    <3> QED BY <1>2, <1>10, <3>1, Zenon
  <2> QED BY <1>8, <1>a, <2>1
<1>12. PICK v \in Seq(X) : v = Append(r, x)
  <2>1. Append(r, x) \in Seq(X)
    BY <1>11
  <2> QED BY <2>1
<1>13. Len(v) = l + 1 /\ v[l + 1] = x /\ \A i \in 1..l : v[i] = r[i]
  BY <1>11, <1>12
<1>14. Push(r, x, cap) = SubSeq(v, h + 1, l + 1)
  BY <1>11, <1>12, <1>e, Zenon DEF Push
<1>15. SubSeq(v, h + 1, l + 1) = [i \in 1..((l + 1) - h) |-> v[i + h]]
  <2>1. l \in Nat /\ h \in 0..1 /\ Len(v) = l + 1
    BY <1>a, <1>13
  <2> QED BY <2>1, SuffixRows, SMTT(30)
<1>16. (l + 1) - h = (n + 1) - g
  BY <1>a
<1>17. ASSUME NEW i \in 1..((l + 1) - h) PROVE v[i + h] = more[i + g]
  <2>0. i \in Nat /\ 1 <= i /\ i + h <= l + 1
    BY <1>a
  <2>1. CASE i + h = l + 1
    <3>1. i + g = n + 1
      BY <1>a, <2>0, <2>1
    <3> QED BY <1>5, <1>13, <2>1, <3>1, Zenon
  <2>2. CASE i + h # l + 1
    <3>1. i + h \in 1..l /\ (i + h) + e = i + g
      BY <1>a, <2>0, <2>2
    <3>2. PICK j \in 1..l : j = i + h
      BY <3>1
    <3>3. j + e \in 1..n /\ j + e = i + g
      BY <1>10, <3>1, <3>2
    <3>4. r[j] = all[j + e]
      BY <1>8, Zenon
    <3> QED BY <1>5, <1>13, <3>2, <3>3, <3>4, Zenon
  <2> QED BY <2>1, <2>2
<1> QED BY <1>3, <1>7, <1>9, <1>14, <1>15, <1>16, <1>17, Zenon

\* push_pending_notification, push by push, leaves what appending all the entries and
\* dropping the oldest beyond the cap leaves, for buffers of every length.
THEOREM PushLoopPushes ==
  ASSUME NEW X, NEW s \in Seq(X), NEW ns \in Seq(X), NEW cap \in Nat, Len(s) <= cap
  PROVE  PushLoop(s, ns, cap) = PushNotes(s, ns, cap)
<1>1. PICK m \in Nat : m = Len(ns) /\ SubSeq(ns, 1, 0) = <<>> /\ SubSeq(ns, 1, m) = ns
  BY PrefixEnds
<1>2. PICK w : w = [i \in 0..m |-> PushNotes(s, SubSeq(ns, 1, i), cap)]
  OBVIOUS
<1>3. w[0] = s
  <2>1. PICK n \in Nat : n = Len(s)
    OBVIOUS
  <2>2. s \o <<>> = s
    OBVIOUS
  <2>3. PushNotes(s, <<>>, cap) =
          [i \in 1..(n - (IF n > cap THEN n - cap ELSE 0)) |->
             s[i + (IF n > cap THEN n - cap ELSE 0)]]
    BY <2>1, <2>2, Zenon DEF PushNotes
  <2>4. PICK e : e = IF n > cap THEN n - cap ELSE 0
    OBVIOUS
  <2>5. e = 0 /\ n - e = n /\ \A i \in 1..n : i + e = i
    BY <2>1, <2>4
  <2>6. PushNotes(s, <<>>, cap) = [i \in 1..n |-> s[i]]
    BY <2>3, <2>4, <2>5, Zenon
  <2>7. s = [i \in 1..n |-> s[i]]
    BY <2>1
  <2>8. 0 \in 0..m
    BY <1>1
  <2> QED BY <1>1, <1>2, <2>6, <2>7, <2>8, Zenon
<1>4. w[m] = PushNotes(s, ns, cap)
  <2>1. m \in 0..m
    BY <1>1
  <2> QED BY <1>1, <1>2, <2>1, Zenon
<1>5. ASSUME NEW i \in 1..m PROVE w[i] = Push(w[i - 1], ns[i], cap)
  <2>1. i \in 0..m /\ i - 1 \in 0..m /\ i \in 1..Len(ns)
    BY <1>1
  <2>2. /\ SubSeq(ns, 1, i - 1) \in Seq(X) /\ ns[i] \in X
        /\ SubSeq(ns, 1, i) = Append(SubSeq(ns, 1, i - 1), ns[i])
    BY <2>1, PrefixStep
  <2>3. PICK t \in Seq(X) : t = SubSeq(ns, 1, i - 1)
    BY <2>2
  <2>4. PICK x \in X : x = ns[i]
    BY <2>2
  <2>5. w[i] = PushNotes(s, Append(t, x), cap) /\ w[i - 1] = PushNotes(s, t, cap)
    BY <1>2, <2>1, <2>2, <2>3, <2>4, Zenon
  <2>6. Push(PushNotes(s, t, cap), x, cap) = PushNotes(s, Append(t, x), cap)
    BY PushOne
  <2> QED BY <2>4, <2>5, <2>6, Zenon
<1>6. w = [i \in 0..m |-> IF i = 0 THEN s ELSE Push(w[i - 1], ns[i], cap)]
  <2>1. \A i \in 0..m : w[i] = IF i = 0 THEN s ELSE Push(w[i - 1], ns[i], cap)
    <3> TAKE i \in 0..m
    <3>1. i # 0 => i \in 1..m
      BY <1>1
    <3> QED BY <1>3, <1>5, <3>1, Zenon
  <2>2. w = [i \in 0..m |-> w[i]]
    BY <1>2
  <2> QED BY <2>1, <2>2, Zenon
<1>7. PICK f : f = CHOOSE g : g = [i \in 0..m |->
                     IF i = 0 THEN s ELSE Push(g[i - 1], ns[i], cap)]
  OBVIOUS
<1>8. PushLoop(s, ns, cap) = f[m]
  BY <1>1, <1>7, Zenon DEF PushLoop
<1>9. f = [i \in 0..m |-> IF i = 0 THEN s ELSE Push(f[i - 1], ns[i], cap)]
  BY <1>6, <1>7, Zenon
<1>10. f[0] = w[0]
  <2>1. 0 \in 0..m
    BY <1>1
  <2> QED BY <1>3, <1>9, <2>1, Zenon
<1>11. ASSUME NEW i \in 1..m, f[i - 1] = w[i - 1] PROVE f[i] = w[i]
  <2>1. i \in 0..m /\ i # 0
    BY <1>1
  <2>2. f[i] = Push(f[i - 1], ns[i], cap)
    BY <1>9, <2>1, Zenon
  <2> QED BY <1>5, <1>11, <2>2, Zenon
<1>12. \A i \in 0..m : f[i] = w[i]
  <2>1. \A i \in 1..m : f[i - 1] = w[i - 1] => f[i] = w[i]
    BY <1>11, Zenon
  <2> QED BY <1>10, <2>1, SameLoop, ZenonT(120)
<1>13. m \in 0..m
  BY <1>1
<1> QED BY <1>4, <1>8, <1>12, <1>13, Zenon

-----------------------------------------------------------------------------
(* Reorder.                                                                *)

\* The index of a row of a queue without duplicates.
LEMMA IndexOfRow ==
  ASSUME NEW s, Distinct(s), NEW i \in DOMAIN s
  PROVE  IndexOf(s, s[i]) = i
<1>1. \A j \in DOMAIN s : s[j] = s[i] => j = i
  BY DEF Distinct
<1> QED BY <1>1 DEF IndexOf

\* A sweep keeps the order of what it keeps.
LEMMA RetainOrder ==
  ASSUME NEW X, NEW s \in Seq(X), Distinct(s), NEW S,
         NEW i \in DOMAIN Retain(s, S), NEW j \in DOMAIN Retain(s, S), i < j
  PROVE  IndexOf(s, Retain(s, S)[i]) < IndexOf(s, Retain(s, S)[j])
<1>1. PICK K : K = Kept(s, S)
  OBVIOUS
<1>2. PICK r : r = Retain(s, S)
  OBVIOUS
<1>3. /\ K \in SUBSET (1..Len(s)) /\ Cardinality(K) \in Nat
      /\ DOMAIN r = 1..Cardinality(K)
      /\ \A n \in DOMAIN r : \E k \in K : Pos(K, k) = n /\ r[n] = s[k]
  BY <1>1, <1>2, RetainRows
<1>4. PICK k \in K : Pos(K, k) = i /\ r[i] = s[k]
  BY <1>2, <1>3
<1>5. PICK l \in K : Pos(K, l) = j /\ r[j] = s[l]
  BY <1>2, <1>3
<1>6. IsFiniteSet(K)
  <2>1. Len(s) \in Nat
    OBVIOUS
  <2> QED BY <1>3, <2>1, PosBijection
<1>7. k \in Int /\ l \in Int /\ k \in DOMAIN s /\ l \in DOMAIN s
  BY <1>3, <1>4, <1>5
<1>8. ASSUME l <= k PROVE FALSE
  <2> DEFINE A == {m \in K : m <= l}
             B == {m \in K : m <= k}
  <2>1. A \subseteq B /\ B \subseteq K
    BY <1>3, <1>7, <1>8
  <2>2. Cardinality(A) = j /\ Cardinality(B) = i
    BY <1>4, <1>5 DEF Pos
  <2>3. i \in Int /\ j \in Int
    BY <1>2, <1>3
  <2> HIDE DEF A, B
  <2>4. IsFiniteSet(B)
    BY <1>6, <2>1, FS_Subset
  <2>5. Cardinality(A) <= Cardinality(B)
    BY <2>1, <2>4, FS_Subset
  <2> QED BY <2>2, <2>3, <2>5
<1>9. IndexOf(s, s[k]) = k /\ IndexOf(s, s[l]) = l
  BY <1>7, IndexOfRow
<1>10. k < l
  BY <1>7, <1>8
<1> QED BY <1>2, <1>4, <1>5, <1>9, <1>10, Zenon

\* A row that a sweep keeps is a row of the queue, and its index is one of the queue's.
LEMMA RetainIndex ==
  ASSUME NEW X, NEW s \in Seq(X), Distinct(s), NEW S, NEW i \in DOMAIN Retain(s, S)
  PROVE  /\ Retain(s, S)[i] \in Elems(s) \cap S
         /\ IndexOf(s, Retain(s, S)[i]) \in 1..Len(s)
<1>1. PICK r : r = Retain(s, S)
  OBVIOUS
<1>2. PICK k \in Kept(s, S) : r[i] = s[k]
  BY <1>1, RetainRows
<1>3. k \in DOMAIN s /\ s[k] \in S /\ DOMAIN s = 1..Len(s)
  BY <1>2 DEF Kept
<1>4. IndexOf(s, s[k]) = k /\ s[k] \in Elems(s)
  BY <1>3, IndexOfRow DEF Elems
<1> QED BY <1>1, <1>2, <1>3, <1>4

\* A queue without duplicates has as many rows as elements.
LEMMA DistinctLen ==
  ASSUME NEW X, NEW s \in Seq(X), Distinct(s)
  PROVE  Cardinality(Elems(s)) = Len(s)
<1>1. Len(s) \in Nat /\ DOMAIN s = 1..Len(s)
  OBVIOUS
<1>2. s \in Bijection(1..Len(s), Elems(s))
  <2>1. s \in [1..Len(s) -> Elems(s)]
    BY <1>1 DEF Elems
  <2>2. \A a, b \in 1..Len(s) : s[a] = s[b] => a = b
    BY <1>1 DEF Distinct
  <2>3. \A y \in Elems(s) : \E a \in 1..Len(s) : s[a] = y
    BY <1>1 DEF Elems
  <2> QED BY <2>1, <2>2, <2>3, Fun_IsBij
<1>3. ExistsBijection(1..Len(s), Elems(s))
  BY <1>2, Fun_ExistsBij
<1>4. IsFiniteSet(1..Len(s)) /\ Cardinality(1..Len(s)) = Len(s)
  <2>1. Len(s) \in Int /\ 1 \in Int
    BY <1>1
  <2>2. Cardinality(1..Len(s)) = IF 1 > Len(s) THEN 0 ELSE Len(s) - 1 + 1
    BY <2>1, FS_Interval
  <2> QED BY <1>1, <2>1, <2>2, FS_Interval
<1> QED BY <1>3, <1>4, FS_Bijection

\* The rows of a concatenation of two sequences, and of three.
LEMMA ConcatRows ==
  ASSUME NEW X, NEW a \in Seq(X), NEW b \in Seq(X)
  PROVE  /\ a \o b \in Seq(X)
         /\ Len(a \o b) = Len(a) + Len(b)
         /\ \A i \in 1..Len(a) : (a \o b)[i] = a[i]
         /\ \A i \in (Len(a) + 1)..(Len(a) + Len(b)) : (a \o b)[i] = b[i - Len(a)]
OBVIOUS

Parts(r, a, b, c, la, lb, lc) ==
  /\ Len(r) = (la + lb) + lc
  /\ \A i \in 1..la : r[i] = a[i]
  /\ \A i \in (la + 1)..(la + lb) : r[i] = b[i - la]
  /\ \A i \in ((la + lb) + 1)..((la + lb) + lc) : r[i] = c[i - (la + lb)]

LEMMA ThreeParts ==
  ASSUME NEW X, NEW a \in Seq(X), NEW b \in Seq(X), NEW c \in Seq(X)
  PROVE  Parts(a \o b \o c, a, b, c, Len(a), Len(b), Len(c))
<1>1. PICK d \in Seq(X) : d = a \o b
  BY ConcatRows
<1>2. /\ Len(d) = Len(a) + Len(b)
      /\ \A i \in 1..Len(a) : d[i] = a[i]
      /\ \A i \in (Len(a) + 1)..(Len(a) + Len(b)) : d[i] = b[i - Len(a)]
  BY <1>1, ConcatRows
<1>3. /\ Len(d \o c) = Len(d) + Len(c)
      /\ \A i \in 1..Len(d) : (d \o c)[i] = d[i]
      /\ \A i \in (Len(d) + 1)..(Len(d) + Len(c)) : (d \o c)[i] = c[i - Len(d)]
  BY ConcatRows
<1>4. /\ \A i \in 1..Len(a) : i \in 1..(Len(a) + Len(b))
      /\ \A i \in (Len(a) + 1)..(Len(a) + Len(b)) : i \in 1..(Len(a) + Len(b))
  <2>1. Len(a) \in Nat /\ Len(b) \in Nat
    OBVIOUS
  <2> QED BY <2>1
<1> QED BY <1>1, <1>2, <1>3, <1>4, Zenon DEF Parts

\* handle_reorder_queue loses and adds no row, leaves the rows it may not move in front
\* and in their order, and sorts the others by rank, rows of equal rank as they were:
\* for a queue and an order of every length.
THEOREM ReorderSorts ==
  ASSUME NEW X, NEW s \in Seq(X), Distinct(s), NEW order \in Seq(X), Distinct(order),
         NEW running, NEW drop,
         NEW out, out = Reorder(s, drop \ {running}, order),
         NEW kept, kept = SweepLoop(s, running, drop)
  PROVE  /\ Elems(out) = Elems(s) /\ Len(out) = Len(s)
         /\ SubSeq(out, 1, Len(kept)) = kept
         /\ \A i, j \in (Len(kept) + 1)..Len(out) : i < j =>
               \/ Rank(order, out[i]) < Rank(order, out[j])
               \/ /\ Rank(order, out[i]) = Rank(order, out[j])
                  /\ IndexOf(s, out[i]) < IndexOf(s, out[j])
<1>1. PICK rows : rows = drop \ {running}
  OBVIOUS
<1>2. PICK a \in Seq(X) : a = Retain(s, Elems(s) \ rows)
  BY RetainElems
<1>3. PICK b \in Seq(X) : b = Retain(order, rows \cap Elems(s))
  BY RetainElems
<1>4. PICK c \in Seq(X) : c = Retain(s, rows \ Elems(order))
  BY RetainElems
<1>5. out \in Seq(X) /\ Elems(out) = Elems(s) /\ Distinct(out)
  BY <1>1, ReorderFacts
<1>6. Len(out) = Len(s)
  <2>1. Cardinality(Elems(out)) = Len(out) /\ Cardinality(Elems(s)) = Len(s)
    BY <1>5, DistinctLen
  <2> QED BY <1>5, <2>1
<1>7. kept = a
  <2>1. Elems(s) \ Swept(s, running, drop) = Elems(s) \ rows
    BY <1>1 DEF Swept
  <2>2. kept = Sweep(s, running, drop)
    BY SweepLoopSweeps
  <2> QED BY <1>2, <2>1, <2>2, Zenon DEF Sweep, Without
<1>8. out = a \o b \o c
  BY <1>1, <1>2, <1>3, <1>4, Zenon DEF Reorder
<1>9. PICK la, lb, lc \in Nat : la = Len(a) /\ lb = Len(b) /\ lc = Len(c)
  OBVIOUS
<1>10. /\ Len(out) = (la + lb) + lc
       /\ \A i \in 1..la : out[i] = a[i]
       /\ \A i \in (la + 1)..(la + lb) : out[i] = b[i - la]
       /\ \A i \in ((la + lb) + 1)..((la + lb) + lc) : out[i] = c[i - (la + lb)]
  <2>1. Parts(a \o b \o c, a, b, c, Len(a), Len(b), Len(c))
    BY ThreeParts
  <2>2. Parts(out, a, b, c, la, lb, lc)
    BY <1>8, <1>9, <2>1, Zenon
  <2> QED BY <2>2, Zenon DEF Parts
<1>11. SubSeq(out, 1, Len(kept)) = kept
  <2>1. SubSeq(out, 1, la) = [i \in 1..la |-> out[i]]
    BY <1>5, <1>9, <1>10
  <2>2. a = [i \in 1..la |-> a[i]]
    BY <1>9
  <2>3. SubSeq(out, 1, la) = a
    BY <1>10, <2>1, <2>2, Zenon
  <2> QED BY <1>7, <1>9, <2>3
\* The ranks of the rows the order names, and of those it does not.
<1>12. \A i \in 1..lb : /\ b[i] \in Elems(order)
                        /\ Rank(order, b[i]) = IndexOf(order, b[i])
                        /\ Rank(order, b[i]) \in 1..Len(order)
  <2> TAKE i \in 1..lb
  <2>1. i \in DOMAIN b
    BY <1>9
  <2>2. b[i] \in Elems(order) /\ IndexOf(order, b[i]) \in 1..Len(order)
    BY <1>3, <2>1, RetainIndex
  <2> QED BY <2>2 DEF Rank
<1>13. \A i \in 1..lc : Rank(order, c[i]) = Len(order) + 1
  <2> TAKE i \in 1..lc
  <2>1. i \in DOMAIN c
    BY <1>9
  <2>2. c[i] \notin Elems(order)
    BY <1>4, <2>1, RetainIndex
  <2> QED BY <2>2 DEF Rank
<1>14. \A i, j \in 1..lb : i < j => Rank(order, b[i]) < Rank(order, b[j])
  <2> SUFFICES ASSUME NEW i \in 1..lb, NEW j \in 1..lb, i < j
               PROVE  Rank(order, b[i]) < Rank(order, b[j])
    OBVIOUS
  <2>1. i \in DOMAIN b /\ j \in DOMAIN b
    BY <1>9
  <2>2. IndexOf(order, b[i]) < IndexOf(order, b[j])
    BY <1>3, <2>1, RetainOrder
  <2> QED BY <1>12, <2>2
<1>15. \A i, j \in 1..lc : i < j => IndexOf(s, c[i]) < IndexOf(s, c[j])
  <2> SUFFICES ASSUME NEW i \in 1..lc, NEW j \in 1..lc, i < j
               PROVE  IndexOf(s, c[i]) < IndexOf(s, c[j])
    OBVIOUS
  <2>1. i \in DOMAIN c /\ j \in DOMAIN c
    BY <1>9
  <2> QED BY <1>4, <2>1, RetainOrder
<1>16. ASSUME NEW i \in (la + 1)..Len(out), NEW j \in (la + 1)..Len(out), i < j
       PROVE  \/ Rank(order, out[i]) < Rank(order, out[j])
              \/ /\ Rank(order, out[i]) = Rank(order, out[j])
                 /\ IndexOf(s, out[i]) < IndexOf(s, out[j])
  <2>0. i \in Int /\ j \in Int /\ la + 1 <= i /\ j <= (la + lb) + lc
    BY <1>9, <1>10
  <2>1. CASE j <= la + lb
    <3>1. i \in (la + 1)..(la + lb) /\ j \in (la + 1)..(la + lb)
      BY <1>9, <1>16, <2>0, <2>1
    <3>2. i - la \in 1..lb /\ j - la \in 1..lb /\ i - la < j - la
      BY <1>9, <1>16, <3>1
    <3>3. Rank(order, b[i - la]) < Rank(order, b[j - la])
      BY <1>14, <3>2
    <3> QED BY <1>10, <3>1, <3>3, Zenon
  <2>2. CASE i <= la + lb /\ ~(j <= la + lb)
    <3>1. i \in (la + 1)..(la + lb) /\ j \in ((la + lb) + 1)..((la + lb) + lc)
      BY <1>9, <2>0, <2>2
    <3>2. i - la \in 1..lb /\ j - (la + lb) \in 1..lc
      BY <1>9, <3>1
    <3>3. Rank(order, b[i - la]) \in 1..Len(order)
          /\ Rank(order, c[j - (la + lb)]) = Len(order) + 1
      BY <1>12, <1>13, <3>2, Zenon
    <3>4. Rank(order, b[i - la]) < Rank(order, c[j - (la + lb)])
      BY <3>3
    <3> QED BY <1>10, <3>1, <3>4, Zenon
  <2>3. CASE ~(i <= la + lb)
    <3>1. /\ i \in ((la + lb) + 1)..((la + lb) + lc)
          /\ j \in ((la + lb) + 1)..((la + lb) + lc)
      BY <1>9, <1>16, <2>0, <2>3
    <3>2. /\ i - (la + lb) \in 1..lc /\ j - (la + lb) \in 1..lc
          /\ i - (la + lb) < j - (la + lb)
      BY <1>9, <1>16, <3>1
    <3>3. /\ Rank(order, c[i - (la + lb)]) = Rank(order, c[j - (la + lb)])
          /\ IndexOf(s, c[i - (la + lb)]) < IndexOf(s, c[j - (la + lb)])
      BY <1>13, <1>15, <3>2, Zenon
    <3> QED BY <1>10, <3>1, <3>3, Zenon
  <2> QED BY <2>1, <2>2, <2>3
<1>17. Len(kept) = la
  BY <1>7, <1>9
<1> QED BY <1>5, <1>6, <1>11, <1>16, <1>17, Zenon

-----------------------------------------------------------------------------
(* The properties of the state machine.                                    *)

\* What the enumeration keeps of its inputs: queues and buffers of prompt ids without
\* duplicates.
Inputs == q \in Queues(Rows) /\ buffer \in Queues(Rows)

\* Every reachable queue and buffer is one.
THEOREM InputsInvariant == Spec => []Inputs
<1>1. Init => Inputs
  <2> SUFFICES ASSUME Init PROVE Inputs
    OBVIOUS
  <2>1. <<>> \in Seq(Rows) /\ Distinct(<<>>)
    BY DEF Distinct
  <2> QED BY <2>1, Zenon DEF Init, Inputs, Queues
<1>2. Inputs /\ [Next]_vars => Inputs'
  <2> SUFFICES ASSUME Inputs, [Next]_vars PROVE Inputs'
    OBVIOUS
  <2>0. /\ q \in Seq(Rows) /\ Distinct(q)
        /\ buffer \in Seq(Rows) /\ Distinct(buffer)
    BY DEF Inputs, Queues
  <2>1. ASSUME NEW x \in Rows, Queue(x) PROVE Inputs'
    <3>1. Append(q, x) \in Seq(Rows) /\ Distinct(Append(q, x))
      BY <2>0, <2>1, AppendFacts DEF Queue
    <3> QED BY <2>0, <2>1, <3>1, Zenon DEF Queue, Inputs, Queues
  <2>2. ASSUME NEW x \in Rows, Mark(x) PROVE Inputs'
    BY <2>0, <2>2, Zenon DEF Mark, Inputs, Queues
  <2>3. ASSUME NEW x \in Rows, Buffer(x) PROVE Inputs'
    <3>1. Append(buffer, x) \in Seq(Rows) /\ Distinct(Append(buffer, x))
      BY <2>0, <2>3, AppendFacts DEF Buffer
    <3> QED BY <2>0, <2>3, <3>1, Zenon DEF Buffer, Inputs, Queues
  <2>4. ASSUME NEW x \in Rows, Run(x) PROVE Inputs'
    BY <2>0, <2>4, Zenon DEF Run, Inputs, Queues
  <2>5. CASE Restart
    <3>1. <<>> \in Seq(Rows) /\ Distinct(<<>>)
      BY DEF Distinct
    <3> QED BY <2>5, <3>1, Zenon DEF Restart, Inputs, Queues
  <2>6. CASE UNCHANGED vars
    BY <2>0, <2>6, Zenon DEF vars, Inputs, Queues
  <2> QED BY <2>1, <2>2, <2>3, <2>4, <2>5, <2>6, Zenon DEF Next
<1> QED BY <1>1, <1>2, PTL DEF Spec

\* sweep_pending_inputs keeps exactly the rows that do not match and the running turn's
\* row, for every queue.
THEOREM SweepCorrect == Spec => []SweepIsFilter
<1>1. Inputs => SweepIsFilter
  <2> SUFFICES ASSUME Inputs PROVE SweepIsFilter
    OBVIOUS
  <2>1. q \in Seq(Rows)
    BY DEF Inputs, Queues
  <2> QED BY <2>1, SweepLoopSweeps DEF SweepIsFilter
<1> QED BY <1>1, InputsInvariant, PTL

\* send_now_insert_index and combine_prefix_len are the closed forms, for every queue.
THEOREM ScansCorrect == Spec => []ScansMatchLoops
<1>1. Inputs => ScansMatchLoops
  <2> SUFFICES ASSUME Inputs PROVE ScansMatchLoops
    OBVIOUS
  <2>1. q \in Seq(Rows)
    BY DEF Inputs, Queues
  <2>2. PICK follower : follower = marked \ Elems(buffer)
    OBVIOUS
  <2>3. /\ ScanLoop(q, RunningOffset(q, turn), marked) = SendNowIndex(q, turn, marked)
        /\ CombineLoop(q, marked, follower) = CombinePrefixLen(q, marked, follower)
    BY <2>1, ScanLoopsMatch
  <2> QED BY <2>2, <2>3, Zenon DEF ScansMatchLoops
<1> QED BY <1>1, InputsInvariant, PTL

\* flush_stranded_interjections keeps the arrival order and stays behind the running
\* front, for every queue and buffer.
THEOREM FlushCorrect == Spec => []FlushIsReverseInserts
<1>1. Inputs => FlushIsReverseInserts
  <2> SUFFICES ASSUME Inputs, turn \notin Elems(buffer)
               PROVE  InsertAll(q, RunningOffset(q, turn), buffer) =
                        FlushLoop(q, turn, buffer)
    BY DEF FlushIsReverseInserts
  <2>1. q \in Seq(Rows) /\ buffer \in Seq(Rows)
    BY DEF Inputs, Queues
  <2> QED BY <2>1, FlushLoopInserts
<1> QED BY <1>1, InputsInvariant, PTL

\* handle_reorder_queue is a stable sort by rank behind the rows it may not move, for
\* every queue and order without duplicates.
THEOREM ReorderCorrect == Spec => []ReorderIsStableSort
<1>1. Inputs => ReorderIsStableSort
  <2> SUFFICES ASSUME Inputs PROVE ReorderIsStableSort
    OBVIOUS
  <2>1. q \in Seq(Rows) /\ Distinct(q) /\ buffer \in Seq(Rows) /\ Distinct(buffer)
    BY DEF Inputs, Queues
  <2>2. PICK out : out = Reorder(q, marked \ {turn}, buffer)
    OBVIOUS
  <2>3. PICK kept : kept = SweepLoop(q, turn, marked)
    OBVIOUS
  <2>4. /\ Elems(out) = Elems(q) /\ Len(out) = Len(q)
        /\ SubSeq(out, 1, Len(kept)) = kept
        /\ \A i, j \in (Len(kept) + 1)..Len(out) : i < j =>
              \/ Rank(buffer, out[i]) < Rank(buffer, out[j])
              \/ /\ Rank(buffer, out[i]) = Rank(buffer, out[j])
                 /\ IndexOf(q, out[i]) < IndexOf(q, out[j])
    BY <2>1, <2>2, <2>3, ReorderSorts
  <2> QED BY <2>2, <2>3, <2>4, Zenon DEF ReorderIsStableSort
<1> QED BY <1>1, InputsInvariant, PTL

\* push_pending_notification, push by push, is one append with the oldest entries beyond
\* the cap dropped, for every buffer within the cap.
THEOREM NotesCorrect == Spec => []NotesMatchPushes
<1>1. Inputs => NotesMatchPushes
  <2> SUFFICES ASSUME Inputs, Len(q) <= Cap
               PROVE  PushNotes(q, buffer, Cap) = PushLoop(q, buffer, Cap)
    BY DEF NotesMatchPushes
  <2>1. q \in Seq(Rows) /\ buffer \in Seq(Rows) /\ Cap \in Nat
    BY LoopAssumption DEF Inputs, Queues
  <2> QED BY <2>1, PushLoopPushes
<1> QED BY <1>1, InputsInvariant, PTL

=============================================================================
