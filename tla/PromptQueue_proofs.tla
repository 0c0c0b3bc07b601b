------------------------ MODULE PromptQueue_proofs ------------------------
(***************************************************************************)
(* What the queue operations return, for queues of every length: which     *)
(* rows are in the result, that no row is doubled, and that the running    *)
(* front stays where it is.                                                *)
(***************************************************************************)
EXTENDS PromptQueue, FiniteSetTheorems, TLAPS

-----------------------------------------------------------------------------
(* Pos numbers the elements of a finite set of indices from 1 upwards.     *)

\* A finite set of indices is counted by Pos: it maps the set one to one onto an
\* initial segment of the naturals.
LEMMA PosBijection ==
  ASSUME NEW n \in Nat, NEW K \in SUBSET (1..n)
  PROVE  /\ IsFiniteSet(K) /\ Cardinality(K) \in Nat
         /\ \A i \in K : Pos(K, i) \in 1..Cardinality(K)
         /\ \A i, j \in K : Pos(K, i) = Pos(K, j) => i = j
         /\ \A m \in 1..Cardinality(K) : \E i \in K : Pos(K, i) = m
<1> DEFINE Below(i) == {k \in K : k <= i}
<1>a. IsFiniteSet(1..n) /\ \A k \in K : k \in Int
  BY FS_Interval
<1>b. IsFiniteSet(K)
  BY <1>a, FS_Subset
<1>1. IsFiniteSet(K) /\ Cardinality(K) \in Nat
  BY <1>b, FS_CardinalityType
<1>2. \A i \in K : /\ IsFiniteSet(Below(i)) /\ Cardinality(Below(i)) \in Nat
                   /\ Cardinality(Below(i)) <= Cardinality(K)
                   /\ Cardinality(Below(i)) # 0
  <2> TAKE i \in K
  <2>1. Below(i) \in SUBSET K /\ i \in Below(i)
    OBVIOUS
  <2>2. /\ IsFiniteSet(Below(i)) /\ Cardinality(Below(i)) <= Cardinality(K)
    BY <1>1, <2>1, FS_Subset
  <2>3. Cardinality(Below(i)) \in Nat
    BY <2>2, FS_CardinalityType
  <2>4. Cardinality(Below(i)) # 0
    BY <2>1, <2>2, FS_EmptySet
  <2> QED BY <2>2, <2>3, <2>4
<1>3. \A i \in K : Pos(K, i) \in 1..Cardinality(K)
  BY <1>1, <1>2 DEF Pos
<1>4. \A i, j \in K : i < j => Pos(K, i) # Pos(K, j)
  <2> SUFFICES ASSUME NEW i \in K, NEW j \in K, i < j
               PROVE  Cardinality(Below(i)) # Cardinality(Below(j))
    BY DEF Pos
  <2>a. i \in Int /\ j \in Int /\ \A k \in K : k \in Int /\ (k <= i => k <= j)
    BY <1>a
  <2>b. \A k \in Below(i) : k \in Below(j)
    BY <2>a
  <2>c. j \in Below(j) /\ ~(j <= i)
    BY <2>a
  <2>1. Below(i) \in SUBSET Below(j) /\ j \in Below(j) /\ j \notin Below(i)
    BY <2>b, <2>c
  <2> HIDE DEF Below
  <2>2. Below(i) # Below(j)
    BY <2>1
  <2>3. IsFiniteSet(Below(j))
    BY <1>2
  <2>4. Cardinality(Below(j)) = Cardinality(Below(i)) => Below(j) = Below(i)
    BY <2>1, <2>3, FS_Subset
  <2> QED BY <2>2, <2>4
<1>5. \A i, j \in K : Pos(K, i) = Pos(K, j) => i = j
  BY <1>4
<1>6. \A m \in 1..Cardinality(K) : \E i \in K : Pos(K, i) = m
  <2> DEFINE f == [i \in K |-> Pos(K, i)]
             T == 1..Cardinality(K)
  <2>1. f \in Injection(K, T)
    BY <1>3, <1>5 DEF Injection, IsInjective
  <2>2. IsFiniteSet(T) /\ Cardinality(T) = Cardinality(K)
    BY <1>1, FS_Interval
  <2> HIDE DEF f, T
  <2>3. f \in Surjection(K, T)
    BY <2>1, <2>2, FS_Injection
  <2> QED BY <2>3 DEF Surjection, f, T
<1> QED BY <1>1, <1>3, <1>5, <1>6

-----------------------------------------------------------------------------
(* Retain and Without.                                                     *)

\* The result of a sweep, row by row: each row comes from exactly one kept index and
\* each kept index has exactly one row.
LEMMA RetainRows ==
  ASSUME NEW X, NEW q \in Seq(X), NEW S
  PROVE  LET K == Kept(q, S)
             r == Retain(q, S)
         IN  /\ K \in SUBSET (1..Len(q)) /\ Cardinality(K) \in Nat
             /\ DOMAIN r = 1..Cardinality(K)
             /\ r \in Seq(X) /\ Len(r) = Cardinality(K)
             /\ \A i \in K : Pos(K, i) \in DOMAIN r /\ r[Pos(K, i)] = q[i]
             /\ \A n \in DOMAIN r : \E i \in K : Pos(K, i) = n /\ r[n] = q[i]
<1> DEFINE K == Kept(q, S)
           r == Retain(q, S)
           at(n) == CHOOSE i \in K : Pos(K, i) = n
<1>1. K \in SUBSET (1..Len(q)) /\ Len(q) \in Nat
  BY DEF Kept
<1>2. /\ Cardinality(K) \in Nat
      /\ \A i \in K : Pos(K, i) \in 1..Cardinality(K)
      /\ \A i, j \in K : Pos(K, i) = Pos(K, j) => i = j
      /\ \A m \in 1..Cardinality(K) : \E i \in K : Pos(K, i) = m
  <2> HIDE DEF K
  <2> QED BY <1>1, PosBijection
<1>3. r = [n \in 1..Cardinality(K) |-> q[at(n)]]
  BY DEF Retain
<1> HIDE DEF K, r
<1>4. \A n \in 1..Cardinality(K) : at(n) \in K /\ Pos(K, at(n)) = n
  BY <1>2
<1>5. \A i \in K : at(Pos(K, i)) = i
  BY <1>2, <1>4
<1> HIDE DEF at
<1>6. \A n \in 1..Cardinality(K) : q[at(n)] \in X
  <2> TAKE n \in 1..Cardinality(K)
  <2>1. at(n) \in 1..Len(q)
    BY <1>1, <1>4
  <2> QED BY <2>1
<1>7. r \in Seq(X) /\ DOMAIN r = 1..Cardinality(K) /\ Len(r) = Cardinality(K)
  BY <1>2, <1>3, <1>6
<1>8. \A i \in K : Pos(K, i) \in DOMAIN r /\ r[Pos(K, i)] = q[i]
  BY <1>2, <1>3, <1>5
<1>9. \A n \in DOMAIN r : \E i \in K : Pos(K, i) = n /\ r[n] = q[i]
  BY <1>3, <1>4
<1> QED BY <1>1, <1>2, <1>7, <1>8, <1>9 DEF K, r

\* A sweep returns a queue of the kept rows, all of them and no others.
LEMMA RetainElems ==
  ASSUME NEW X, NEW q \in Seq(X), NEW S
  PROVE  /\ Retain(q, S) \in Seq(X)
         /\ Elems(Retain(q, S)) = Elems(q) \cap S
<1> DEFINE K == Kept(q, S)
           r == Retain(q, S)
<1>1. /\ r \in Seq(X)
      /\ \A i \in K : Pos(K, i) \in DOMAIN r /\ r[Pos(K, i)] = q[i]
      /\ \A n \in DOMAIN r : \E i \in K : r[n] = q[i]
  BY RetainRows
<1>2. K = {i \in DOMAIN q : q[i] \in S}
  BY DEF Kept
<1> HIDE DEF K, r
<1>3. Elems(r) \subseteq Elems(q) \cap S
  BY <1>1, <1>2 DEF Elems
<1>4. ASSUME NEW x \in Elems(q) \cap S PROVE x \in Elems(r)
  <2>1. PICK i \in DOMAIN q : x = q[i]
    BY DEF Elems
  <2>2. i \in K
    BY <1>2, <2>1
  <2> QED BY <1>1, <2>1, <2>2 DEF Elems
<1> QED BY <1>1, <1>3, <1>4 DEF r

\* A sweep doubles no row.
LEMMA RetainDistinct ==
  ASSUME NEW X, NEW q \in Seq(X), NEW S, Distinct(q)
  PROVE  Distinct(Retain(q, S))
<1> DEFINE K == Kept(q, S)
           r == Retain(q, S)
<1>1. \A n \in DOMAIN r : \E i \in K : Pos(K, i) = n /\ r[n] = q[i]
  BY RetainRows
<1>2. K \in SUBSET DOMAIN q
  BY DEF Kept
<1> HIDE DEF K, r
<1>3. Distinct(r)
  BY <1>1, <1>2 DEF Distinct
<1> QED BY <1>3 DEF r

\* A sweep that keeps the front leaves it at the front.
LEMMA RetainHead ==
  ASSUME NEW X, NEW q \in Seq(X), NEW S, q # <<>>, Head(q) \in S
  PROVE  Retain(q, S) # <<>> /\ Head(Retain(q, S)) = Head(q)
<1> DEFINE K == Kept(q, S)
           r == Retain(q, S)
<1>1. 1 \in K /\ q[1] = Head(q)
  BY DEF Kept
<1>2. /\ K \in SUBSET (1..Len(q))
      /\ r \in Seq(X)
      /\ Pos(K, 1) \in DOMAIN r /\ r[Pos(K, 1)] = q[1]
  BY <1>1, RetainRows
<1>3. {k \in K : k <= 1} = {1}
  BY <1>1, <1>2
<1>4. Pos(K, 1) = 1
  BY <1>3, FS_Singleton DEF Pos
<1> HIDE DEF K, r
<1>5. r # <<>> /\ Head(r) = q[1]
  BY <1>2, <1>4
<1> QED BY <1>1, <1>5 DEF r

\* The three facts for the complement form every handler uses.
LEMMA WithoutFacts ==
  ASSUME NEW X, NEW q \in Seq(X), NEW S
  PROVE  /\ Without(q, S) \in Seq(X)
         /\ Elems(Without(q, S)) = Elems(q) \ S
         /\ Distinct(q) => Distinct(Without(q, S))
         /\ q # <<>> /\ Head(q) \notin S =>
              Without(q, S) # <<>> /\ Head(Without(q, S)) = Head(q)
<1>1. /\ Without(q, S) \in Seq(X)
      /\ Elems(Without(q, S)) = Elems(q) \ S
  BY RetainElems DEF Without
<1>2. Distinct(q) => Distinct(Without(q, S))
  BY RetainDistinct DEF Without
<1>3. ASSUME q # <<>>, Head(q) \notin S
      PROVE  Without(q, S) # <<>> /\ Head(Without(q, S)) = Head(q)
  <2>1. Head(q) \in Elems(q) \ S
    BY <1>3 DEF Elems
  <2> QED BY <1>3, <2>1, RetainHead DEF Without
<1> QED BY <1>1, <1>2, <1>3

\* A sweep makes no queue longer.
LEMMA WithoutLen ==
  ASSUME NEW X, NEW q \in Seq(X), NEW S
  PROVE  Len(Without(q, S)) <= Len(q)
<1> DEFINE K == Kept(q, Elems(q) \ S)
<1>1. /\ K \in SUBSET (1..Len(q)) /\ Cardinality(K) \in Nat
      /\ Len(Without(q, S)) = Cardinality(K) /\ Len(q) \in Nat
  BY RetainRows DEF Without
<1> HIDE DEF K
<1>2. IsFiniteSet(1..Len(q)) /\ Cardinality(1..Len(q)) = Len(q)
  <2> DEFINE n == Len(q)
  <2>1. n \in Nat /\ n \in Int /\ 1 \in Int
    BY <1>1
  <2> HIDE DEF n
  <2>2. IsFiniteSet(1..n) /\ Cardinality(1..n) = IF 1 > n THEN 0 ELSE n - 1 + 1
    BY <2>1, FS_Interval
  <2>3. IsFiniteSet(1..n) /\ Cardinality(1..n) = n
    BY <2>1, <2>2
  <2> QED BY <2>3 DEF n
<1>3. Cardinality(K) <= Cardinality(1..Len(q))
  BY <1>1, <1>2, FS_Subset
<1> QED BY <1>1, <1>2, <1>3

\* A sweep that spares the running row leaves a running front where it is.
LEMMA SweepFacts ==
  ASSUME NEW X, NEW q \in Seq(X), NEW S, NEW running
  PROVE  /\ Sweep(q, running, S) \in Seq(X)
         /\ Elems(Sweep(q, running, S)) = Elems(q) \ Swept(q, running, S)
         /\ Distinct(q) => Distinct(Sweep(q, running, S))
         /\ q # <<>> /\ Head(q) = running =>
              Sweep(q, running, S) # <<>> /\ Head(Sweep(q, running, S)) = Head(q)
<1>1. running \notin Swept(q, running, S)
  BY DEF Swept
<1> QED BY <1>1, WithoutFacts DEF Sweep

-----------------------------------------------------------------------------
(* Appending, popping and concatenating.                                   *)

\* push_back adds one row at the end.
LEMMA AppendFacts ==
  ASSUME NEW X, NEW q \in Seq(X), NEW x \in X
  PROVE  /\ Append(q, x) \in Seq(X)
         /\ Elems(Append(q, x)) = Elems(q) \cup {x}
         /\ Distinct(q) /\ x \notin Elems(q) => Distinct(Append(q, x))
         /\ Append(q, x) # <<>>
         /\ q # <<>> => Head(Append(q, x)) = Head(q)
<1>1. /\ Append(q, x) \in Seq(X) /\ Len(Append(q, x)) = Len(q) + 1
      /\ \A i \in 1..Len(q) : Append(q, x)[i] = q[i]
      /\ Append(q, x)[Len(q) + 1] = x
  OBVIOUS
<1>2. DOMAIN q = 1..Len(q) /\ DOMAIN Append(q, x) = 1..(Len(q) + 1) /\ Len(q) \in Nat
  BY <1>1
<1>3. Elems(Append(q, x)) = Elems(q) \cup {x}
  BY <1>1, <1>2 DEF Elems
<1>4. Distinct(q) /\ x \notin Elems(q) => Distinct(Append(q, x))
  BY <1>1, <1>2 DEF Elems, Distinct
<1>5. Append(q, x) # <<>> /\ (q # <<>> => Head(Append(q, x)) = Head(q))
  BY <1>1, <1>2
<1> QED BY <1>1, <1>3, <1>4, <1>5

\* pop_front removes exactly the front.
LEMMA TailFacts ==
  ASSUME NEW X, NEW q \in Seq(X), q # <<>>
  PROVE  /\ Head(q) \in X /\ Head(q) \in Elems(q)
         /\ Tail(q) \in Seq(X)
         /\ Distinct(q) => Distinct(Tail(q)) /\ Elems(Tail(q)) = Elems(q) \ {Head(q)}
<1>1. /\ Len(q) \in Nat \ {0} /\ DOMAIN q = 1..Len(q)
      /\ Tail(q) \in Seq(X) /\ Len(Tail(q)) = Len(q) - 1
      /\ DOMAIN Tail(q) = 1..(Len(q) - 1)
      /\ \A i \in 1..(Len(q) - 1) : Tail(q)[i] = q[i + 1]
      /\ Head(q) = q[1] /\ Head(q) \in X
  OBVIOUS
<1>2. Head(q) \in Elems(q)
  BY <1>1 DEF Elems
<1>3. ASSUME Distinct(q) PROVE Distinct(Tail(q))
  BY <1>1, <1>3 DEF Distinct
<1>4. ASSUME Distinct(q) PROVE Elems(Tail(q)) \subseteq Elems(q) \ {Head(q)}
  BY <1>1, <1>4 DEF Distinct, Elems
<1>5. ASSUME NEW y \in Elems(q) \ {Head(q)} PROVE y \in Elems(Tail(q))
  <2>1. PICK i \in 1..Len(q) : y = q[i]
    BY <1>1 DEF Elems
  <2>2. i - 1 \in 1..(Len(q) - 1) /\ Tail(q)[i - 1] = y
    BY <1>1, <1>5, <2>1
  <2> QED BY <1>1, <2>2 DEF Elems
<1> QED BY <1>1, <1>2, <1>3, <1>4, <1>5

\* extend keeps the rows of both parts, and the front of a non-empty first part.
LEMMA ConcatFacts ==
  ASSUME NEW X, NEW a \in Seq(X), NEW b \in Seq(X)
  PROVE  /\ a \o b \in Seq(X)
         /\ Elems(a \o b) = Elems(a) \cup Elems(b)
         /\ Distinct(a) /\ Distinct(b) /\ Elems(a) \cap Elems(b) = {} => Distinct(a \o b)
         /\ a # <<>> => a \o b # <<>> /\ Head(a \o b) = Head(a)
<1>1. /\ a \o b \in Seq(X) /\ Len(a \o b) = Len(a) + Len(b)
      /\ Len(a) \in Nat /\ Len(b) \in Nat
      /\ DOMAIN a = 1..Len(a) /\ DOMAIN b = 1..Len(b)
      /\ DOMAIN (a \o b) = 1..(Len(a) + Len(b))
      /\ \A i \in 1..(Len(a) + Len(b)) :
           (a \o b)[i] = IF i <= Len(a) THEN a[i] ELSE b[i - Len(a)]
  OBVIOUS
<1>2. Elems(a \o b) \subseteq Elems(a) \cup Elems(b)
  BY <1>1 DEF Elems
<1>3. Elems(a) \subseteq Elems(a \o b)
  BY <1>1 DEF Elems
<1>4. ASSUME NEW y \in Elems(b) PROVE y \in Elems(a \o b)
  <2>1. PICK i \in 1..Len(b) : y = b[i]
    BY <1>1 DEF Elems
  <2>2. i + Len(a) \in 1..(Len(a) + Len(b)) /\ (a \o b)[i + Len(a)] = y
    BY <1>1, <2>1
  <2> QED BY <1>1, <2>2 DEF Elems
<1>5. ASSUME Distinct(a), Distinct(b), Elems(a) \cap Elems(b) = {}
      PROVE  Distinct(a \o b)
  <2> SUFFICES ASSUME NEW i \in 1..(Len(a) + Len(b)), NEW j \in 1..(Len(a) + Len(b)),
                      (a \o b)[i] = (a \o b)[j]
               PROVE  i = j
    BY <1>1 DEF Distinct
  <2>1. \A m \in 1..Len(a), n \in 1..Len(b) : a[m] # b[n]
    BY <1>1, <1>5 DEF Elems
  <2>2. CASE i <= Len(a) /\ j <= Len(a)
    BY <1>1, <1>5, <2>2 DEF Distinct
  <2>3. CASE i <= Len(a) /\ ~(j <= Len(a))
    BY <1>1, <2>1, <2>3
  <2>4. CASE ~(i <= Len(a)) /\ j <= Len(a)
    BY <1>1, <2>1, <2>4
  <2>5. CASE ~(i <= Len(a)) /\ ~(j <= Len(a))
    BY <1>1, <1>5, <2>5 DEF Distinct
  <2> QED BY <2>2, <2>3, <2>4, <2>5
<1>6. a # <<>> => a \o b # <<>> /\ Head(a \o b) = Head(a)
  BY <1>1
<1> QED BY <1>1, <1>2, <1>3, <1>4, <1>5, <1>6

-----------------------------------------------------------------------------
(* Scans.                                                                  *)

\* A scan counts a prefix: every index it counts carries a row of S, and it stays in
\* the queue.
LEMMA RunLengthFacts ==
  ASSUME NEW X, NEW q \in Seq(X), NEW S, NEW from \in Nat \ {0}, from <= Len(q) + 1
  PROVE  /\ RunLength(q, from, S) \in Nat
         /\ from + RunLength(q, from, S) <= Len(q) + 1
         /\ \A i \in from..(from + RunLength(q, from, S) - 1) : q[i] \in S
<1> DEFINE J == {j \in from..Len(q) : \A m \in from..j : q[m] \in S}
<1>a. Len(q) \in Nat /\ Len(q) \in Int /\ from \in Int
  OBVIOUS
<1>1. Len(q) \in Nat /\ IsFiniteSet(from..Len(q))
      /\ Cardinality(from..Len(q)) = IF from > Len(q) THEN 0 ELSE Len(q) - from + 1
  <2> HIDE DEF J
  <2> QED BY <1>a, FS_Interval
<1>2. J \in SUBSET (from..Len(q))
  OBVIOUS
<1>3. RunLength(q, from, S) = Cardinality(J)
  BY DEF RunLength
<1>4. IsFiniteSet(J) /\ Cardinality(J) <= Cardinality(from..Len(q))
  <2> HIDE DEF J
  <2> QED BY <1>1, <1>2, FS_Subset
<1>5. Cardinality(J) \in Nat
  BY <1>4, FS_CardinalityType
<1>6. from + Cardinality(J) <= Len(q) + 1
  <2> HIDE DEF J
  <2> QED BY <1>1, <1>4, <1>5
<1>7. ASSUME NEW i \in from..(from + Cardinality(J) - 1), q[i] \notin S
      PROVE  FALSE
  <2>1. i \in Int /\ from <= i /\ i - from < Cardinality(J)
    BY <1>5, <1>7
  <2>2. ASSUME NEW j \in J PROVE j \in from..(i - 1)
    <3>1. j \in Int /\ from <= j /\ \A m \in from..j : q[m] \in S
      BY <1>1
    <3>2. ~(i <= j)
      BY <1>7, <2>1, <3>1
    <3> QED BY <2>1, <3>1, <3>2
  <2> HIDE DEF J
  <2>a. from \in Int /\ i - 1 \in Int
    BY <2>1
  <2>b. /\ IsFiniteSet(from..(i - 1))
        /\ Cardinality(from..(i - 1)) = IF from > i - 1 THEN 0 ELSE i - 1 - from + 1
    BY <2>a, FS_Interval
  <2>3. IsFiniteSet(from..(i - 1)) /\ Cardinality(from..(i - 1)) = i - from
    BY <2>1, <2>b
  <2>4. Cardinality(J) <= i - from
    BY <2>2, <2>3, FS_Subset
  <2> QED BY <1>5, <2>1, <2>4
<1> HIDE DEF J
<1> QED BY <1>3, <1>5, <1>6, <1>7

\* A send-now row goes inside the queue and never before the running front.
LEMMA SendNowIndexFacts ==
  ASSUME NEW X, NEW q \in Seq(X), NEW S, NEW running
  PROVE  /\ SendNowIndex(q, running, S) \in 0..Len(q)
         /\ q # <<>> /\ Head(q) = running => SendNowIndex(q, running, S) >= 1
<1> DEFINE o == RunningOffset(q, running)
<1>1. o \in Nat /\ o + 1 <= Len(q) + 1 /\ Len(q) \in Nat
      /\ (q # <<>> /\ Head(q) = running => o = 1)
  BY DEF RunningOffset
<1> HIDE DEF o
<1>2. RunLength(q, o + 1, S) \in Nat /\ o + 1 + RunLength(q, o + 1, S) <= Len(q) + 1
  <2>1. o + 1 \in Nat \ {0}
    BY <1>1
  <2> QED BY <1>1, <2>1, RunLengthFacts
<1>3. SendNowIndex(q, running, S) = o + RunLength(q, o + 1, S)
  BY DEF SendNowIndex, o
<1> QED BY <1>1, <1>2, <1>3

\* The rows folded into a promoted front are queued followers, never the front itself.
LEMMA MergedAwayFacts ==
  ASSUME NEW X, NEW q \in Seq(X), NEW front, NEW follower, q # <<>>
  PROVE  /\ MergedAway(q, front, follower) \subseteq Elems(q) \cap follower
         /\ Distinct(q) => Head(q) \notin MergedAway(q, front, follower)
<1>1. Len(q) \in Nat \ {0} /\ DOMAIN q = 1..Len(q) /\ Head(q) = q[1]
  OBVIOUS
<1> DEFINE n == RunLength(q, 2, follower)
<1>2. n \in Nat /\ 2 + n <= Len(q) + 1 /\ \A i \in 2..(1 + n) : q[i] \in follower
  <2>1. /\ n \in Nat /\ 2 + n <= Len(q) + 1
        /\ \A i \in 2..(2 + n - 1) : q[i] \in follower
    BY <1>1, RunLengthFacts
  <2> QED BY <2>1
<1>3. CombinePrefixLen(q, front, follower) \in {1, 1 + n}
  BY DEF CombinePrefixLen
<1> HIDE DEF n
<1>4. \A i \in 2..CombinePrefixLen(q, front, follower) :
         i \in 2..Len(q) /\ q[i] \in follower
  BY <1>1, <1>2, <1>3
<1>5. MergedAway(q, front, follower) \subseteq Elems(q) \cap follower
  BY <1>1, <1>4 DEF MergedAway, Elems
<1>6. ASSUME Distinct(q) PROVE Head(q) \notin MergedAway(q, front, follower)
  BY <1>1, <1>4, <1>6 DEF MergedAway, Distinct
<1> QED BY <1>5, <1>6

-----------------------------------------------------------------------------
(* Inserts.                                                                *)

\* VecDeque::insert adds one row and moves nothing before its index.
LEMMA InsertFacts ==
  ASSUME NEW X, NEW q \in Seq(X), NEW n \in 0..Len(q), NEW x \in X
  PROVE  /\ Insert(q, n, x) \in Seq(X)
         /\ Elems(Insert(q, n, x)) = Elems(q) \cup {x}
         /\ Distinct(q) /\ x \notin Elems(q) => Distinct(Insert(q, n, x))
         /\ Insert(q, n, x) # <<>>
         /\ n >= 1 => q # <<>> /\ Head(Insert(q, n, x)) = Head(q)
<1> DEFINE r == Insert(q, n, x)
<1>1. Len(q) \in Nat /\ DOMAIN q = 1..Len(q)
  OBVIOUS
<1>2. /\ DOMAIN r = 1..(Len(q) + 1)
      /\ \A i \in 1..(Len(q) + 1) :
           r[i] = IF i <= n THEN q[i] ELSE IF i = n + 1 THEN x ELSE q[i - 1]
  BY <1>1 DEF Insert
<1>3. r \in Seq(X) /\ Len(r) = Len(q) + 1
  BY <1>1 DEF Insert
<1> HIDE DEF r
<1>4. ASSUME NEW i \in DOMAIN r PROVE r[i] \in Elems(q) \cup {x}
  <2>1. CASE i <= n
    BY <1>1, <1>2, <2>1 DEF Elems
  <2>2. CASE ~(i <= n) /\ i # n + 1
    <3>1. i - 1 \in DOMAIN q /\ r[i] = q[i - 1]
      BY <1>1, <1>2, <2>2
    <3> QED BY <3>1 DEF Elems
  <2> QED BY <1>2, <2>1, <2>2
<1>a. Elems(r) \subseteq Elems(q) \cup {x}
  BY <1>4 DEF Elems
<1>5. x \in Elems(r)
  <2>1. n + 1 \in DOMAIN r /\ r[n + 1] = x
    BY <1>1, <1>2
  <2> QED BY <2>1 DEF Elems
<1>6. ASSUME NEW y \in Elems(q) PROVE y \in Elems(r)
  <2>1. PICK i \in 1..Len(q) : y = q[i]
    BY <1>1 DEF Elems
  <2>2. CASE i <= n
    BY <1>1, <1>2, <2>1, <2>2 DEF Elems
  <2>3. CASE ~(i <= n)
    <3>1. i + 1 \in 1..(Len(q) + 1) /\ r[i + 1] = y
      BY <1>1, <1>2, <2>1, <2>3
    <3> QED BY <1>2, <3>1 DEF Elems
  <2> QED BY <2>2, <2>3
<1>7. ASSUME Distinct(q), x \notin Elems(q) PROVE Distinct(r)
  <2>1. \A i \in 1..Len(q) : q[i] # x
    BY <1>1, <1>7 DEF Elems
  <2>2. \A i, j \in 1..Len(q) : q[i] = q[j] => i = j
    BY <1>1, <1>7 DEF Distinct
  <2> QED BY <1>1, <1>2, <2>1, <2>2 DEF Distinct
<1>8. r # <<>> /\ (n >= 1 => q # <<>> /\ Head(r) = Head(q))
  BY <1>1, <1>2, <1>3
<1> QED BY <1>3, <1>a, <1>5, <1>6, <1>7, <1>8 DEF r

\* A flush adds the buffered entries and moves nothing before its index.
LEMMA InsertAllFacts ==
  ASSUME NEW X, NEW q \in Seq(X), NEW n \in 0..Len(q), NEW xs \in Seq(X)
  PROVE  /\ InsertAll(q, n, xs) \in Seq(X)
         /\ Elems(InsertAll(q, n, xs)) = Elems(q) \cup Elems(xs)
         /\ Distinct(q) /\ Distinct(xs) /\ Elems(q) \cap Elems(xs) = {} =>
              Distinct(InsertAll(q, n, xs))
         /\ n >= 1 => /\ q # <<>> /\ InsertAll(q, n, xs) # <<>>
                      /\ Head(InsertAll(q, n, xs)) = Head(q)
<1> DEFINE r == InsertAll(q, n, xs)
           L == Len(q)
           M == Len(xs)
<1>1. L \in Nat /\ M \in Nat /\ DOMAIN q = 1..L /\ DOMAIN xs = 1..M /\ n \in 0..L
  OBVIOUS
<1>2. /\ DOMAIN r = 1..(L + M)
      /\ \A i \in 1..(L + M) :
           r[i] = IF i <= n THEN q[i] ELSE IF i <= n + M THEN xs[i - n] ELSE q[i - M]
  BY <1>1 DEF InsertAll
<1>3. /\ \A i \in 1..L : q[i] \in X
      /\ \A i \in 1..M : xs[i] \in X
  OBVIOUS
<1>4. r = [i \in 1..(L + M) |->
             IF i <= n THEN q[i] ELSE IF i <= n + M THEN xs[i - n] ELSE q[i - M]]
  BY DEF InsertAll
<1> HIDE DEF r, L, M
<1>5. \A i \in 1..(L + M) : r[i] \in X
  BY <1>1, <1>2, <1>3
<1>6. r \in Seq(X) /\ Len(r) = L + M
  <2>1. r \in [1..(L + M) -> X] /\ L + M \in Nat
    BY <1>1, <1>4, <1>5
  <2> QED BY <2>1
<1>7. ASSUME NEW y \in Elems(r) PROVE y \in Elems(q) \cup Elems(xs)
  <2>1. PICK i \in 1..(L + M) : y = r[i]
    BY <1>2 DEF Elems
  <2>2. CASE i <= n
    <3>1. i \in 1..L /\ y = q[i]
      BY <1>1, <1>2, <2>1, <2>2
    <3> QED BY <1>1, <3>1 DEF Elems
  <2>3. CASE ~(i <= n) /\ i <= n + M
    <3>1. i - n \in 1..M /\ y = xs[i - n]
      BY <1>1, <1>2, <2>1, <2>3
    <3> QED BY <1>1, <3>1 DEF Elems
  <2>4. CASE ~(i <= n) /\ ~(i <= n + M)
    <3>1. i - M \in 1..L /\ y = q[i - M]
      BY <1>1, <1>2, <2>1, <2>4
    <3> QED BY <1>1, <3>1 DEF Elems
  <2> QED BY <2>2, <2>3, <2>4
<1>8. ASSUME NEW y \in Elems(q) PROVE y \in Elems(r)
  <2>1. PICK i \in 1..L : y = q[i]
    BY <1>1 DEF Elems
  <2>2. CASE i <= n
    BY <1>1, <1>2, <2>1, <2>2 DEF Elems
  <2>3. CASE ~(i <= n)
    <3>1. i + M \in 1..(L + M) /\ ~(i + M <= n) /\ ~(i + M <= n + M) /\ (i + M) - M = i
      BY <1>1, <2>1, <2>3
    <3>2. r[i + M] = y
      BY <1>2, <2>1, <3>1
    <3> QED BY <1>2, <3>1, <3>2 DEF Elems
  <2> QED BY <2>2, <2>3
<1>9. ASSUME NEW y \in Elems(xs) PROVE y \in Elems(r)
  <2>1. PICK i \in 1..M : y = xs[i]
    BY <1>1 DEF Elems
  <2>2. i + n \in 1..(L + M) /\ ~(i + n <= n) /\ i + n <= n + M /\ (i + n) - n = i
    BY <1>1, <2>1
  <2>3. r[i + n] = y
    BY <1>2, <2>1, <2>2
  <2> QED BY <1>2, <2>2, <2>3 DEF Elems
<1>10. ASSUME Distinct(q), Distinct(xs), Elems(q) \cap Elems(xs) = {} PROVE Distinct(r)
  <2>1. \A i \in 1..L, j \in 1..M : q[i] # xs[j]
    BY <1>1, <1>10 DEF Elems
  <2>2. /\ \A i, j \in 1..L : q[i] = q[j] => i = j
        /\ \A i, j \in 1..M : xs[i] = xs[j] => i = j
    BY <1>1, <1>10 DEF Distinct
  <2> SUFFICES ASSUME NEW i \in 1..(L + M), NEW j \in 1..(L + M), r[i] = r[j]
               PROVE  i = j
    BY <1>2 DEF Distinct
  <2>3. CASE i <= n
    BY <1>1, <1>2, <2>1, <2>2, <2>3
  <2>4. CASE ~(i <= n) /\ i <= n + M
    BY <1>1, <1>2, <2>1, <2>2, <2>4
  <2>5. CASE ~(i <= n) /\ ~(i <= n + M)
    BY <1>1, <1>2, <2>1, <2>2, <2>5
  <2> QED BY <2>3, <2>4, <2>5
<1>11. ASSUME n >= 1 PROVE q # <<>> /\ r # <<>> /\ Head(r) = Head(q)
  <2>1. 1 \in DOMAIN q /\ 1 \in DOMAIN r /\ r[1] = q[1]
    BY <1>1, <1>2, <1>11
  <2>2. Head(r) = r[1] /\ Head(q) = q[1]
    BY <1>6, <2>1
  <2> QED BY <2>1, <2>2
<1> QED BY <1>6, <1>7, <1>8, <1>9, <1>10, <1>11 DEF r

\* The index behind the running front, if there is one.
LEMMA RunningOffsetFacts ==
  ASSUME NEW X, NEW q \in Seq(X), NEW running
  PROVE  /\ RunningOffset(q, running) \in 0..Len(q)
         /\ q # <<>> /\ Head(q) = running => RunningOffset(q, running) = 1
BY DEF RunningOffset

-----------------------------------------------------------------------------
(* Reorder and the notification buffer.                                    *)

\* A reorder loses and doubles no row, and moves no front that may not move.
LEMMA ReorderFacts ==
  ASSUME NEW X, NEW q \in Seq(X), NEW rows, NEW order \in Seq(X), Distinct(order)
  PROVE  /\ Reorder(q, rows, order) \in Seq(X)
         /\ Elems(Reorder(q, rows, order)) = Elems(q)
         /\ Distinct(q) => Distinct(Reorder(q, rows, order))
         /\ q # <<>> /\ Head(q) \notin rows =>
              /\ Reorder(q, rows, order) # <<>>
              /\ Head(Reorder(q, rows, order)) = Head(q)
<1> DEFINE a == Retain(q, Elems(q) \ rows)
           b == Retain(order, rows \cap Elems(q))
           c == Retain(q, rows \ Elems(order))
<1>1. /\ a \in Seq(X) /\ b \in Seq(X) /\ c \in Seq(X)
      /\ Elems(a) = Elems(q) \ rows
      /\ Elems(b) = Elems(order) \cap rows \cap Elems(q)
      /\ Elems(c) = (Elems(q) \cap rows) \ Elems(order)
  BY RetainElems
<1>2. Distinct(b) /\ (Distinct(q) => Distinct(a) /\ Distinct(c))
  BY RetainDistinct
<1>3. q # <<>> /\ Head(q) \notin rows => a # <<>> /\ Head(a) = Head(q)
  <2>1. q # <<>> => Head(q) \in Elems(q)
    BY TailFacts
  <2> QED BY <2>1, RetainHead
<1>4. Reorder(q, rows, order) = (a \o b) \o c
  BY DEF Reorder
<1> HIDE DEF a, b, c
<1>5. /\ a \o b \in Seq(X)
      /\ Elems(a \o b) = Elems(a) \cup Elems(b)
      /\ Distinct(q) => Distinct(a \o b)
      /\ a # <<>> => a \o b # <<>> /\ Head(a \o b) = Head(a)
  BY <1>1, <1>2, ConcatFacts
<1> DEFINE d == a \o b
<1>6. /\ Elems(d) \cap Elems(c) = {}
      /\ Elems(d) \cup Elems(c) = Elems(q)
  BY <1>1, <1>5
<1>7. /\ d \in Seq(X) /\ c \in Seq(X)
      /\ Distinct(q) => Distinct(d) /\ Distinct(c)
      /\ a # <<>> => d # <<>> /\ Head(d) = Head(a)
  BY <1>1, <1>2, <1>5
<1>8. Reorder(q, rows, order) = d \o c
  BY <1>4
<1> HIDE DEF d
<1>9. /\ d \o c \in Seq(X)
      /\ Elems(d \o c) = Elems(d) \cup Elems(c)
      /\ Distinct(d) /\ Distinct(c) => Distinct(d \o c)
      /\ d # <<>> => d \o c # <<>> /\ Head(d \o c) = Head(d)
  BY <1>6, <1>7, ConcatFacts
<1> QED BY <1>3, <1>6, <1>7, <1>8, <1>9

\* The notification buffer never exceeds its cap and invents no entry.
LEMMA PushNotesFacts ==
  ASSUME NEW X, NEW notes \in Seq(X), NEW ns \in Seq(X), NEW cap \in Nat \ {0}
  PROVE  /\ PushNotes(notes, ns, cap) \in Seq(X)
         /\ Len(PushNotes(notes, ns, cap)) <= cap
         /\ Elems(PushNotes(notes, ns, cap)) \subseteq Elems(notes) \cup Elems(ns)
<1> DEFINE all == notes \o ns
           excess == IF Len(all) > cap THEN Len(all) - cap ELSE 0
           r == PushNotes(notes, ns, cap)
<1>1. all \in Seq(X) /\ Elems(all) = Elems(notes) \cup Elems(ns)
  BY ConcatFacts
<1>2. r = [i \in 1..(Len(all) - excess) |-> all[i + excess]]
  BY DEF PushNotes
<1> HIDE DEF all, r
<1>3. /\ Len(all) \in Nat /\ DOMAIN all = 1..Len(all) /\ excess \in Nat
      /\ Len(all) - excess \in Nat /\ Len(all) - excess <= cap
  BY <1>1
<1> HIDE DEF excess
<1>4. \A i \in 1..(Len(all) - excess) : i + excess \in DOMAIN all
  BY <1>3
<1>5. r \in [1..(Len(all) - excess) -> X]
  BY <1>1, <1>2, <1>3, <1>4
<1>6. r \in Seq(X) /\ Len(r) <= cap /\ DOMAIN r = 1..(Len(all) - excess)
  BY <1>3, <1>5
<1>7. Elems(r) \subseteq Elems(all)
  BY <1>2, <1>4, <1>6 DEF Elems
<1> QED BY <1>1, <1>6, <1>7 DEF r

\* The entry pushed last is kept.
LEMMA PushNotesLast ==
  ASSUME NEW X, NEW notes \in Seq(X), NEW n \in X, NEW cap \in Nat \ {0}
  PROVE  n \in Elems(PushNotes(notes, <<n>>, cap))
<1> DEFINE all == notes \o <<n>>
           excess == IF Len(all) > cap THEN Len(all) - cap ELSE 0
           r == PushNotes(notes, <<n>>, cap)
<1>1. all \in Seq(X) /\ Len(all) = Len(notes) + 1 /\ all[Len(all)] = n
  OBVIOUS
<1>2. r = [i \in 1..(Len(all) - excess) |-> all[i + excess]]
  BY DEF PushNotes
<1>3. Len(all) \in Nat \ {0} /\ excess \in Nat /\ Len(all) - excess \in Nat \ {0}
  BY <1>1
<1> HIDE DEF all, r, excess
<1>4. Len(all) - excess \in DOMAIN r /\ r[Len(all) - excess] = n
  BY <1>1, <1>2, <1>3
<1> QED BY <1>4 DEF Elems, r

\* Only the empty buffer stays empty.
LEMMA PushNotesEmpty ==
  ASSUME NEW X, NEW notes \in Seq(X), NEW ns \in Seq(X), NEW cap \in Nat \ {0},
         PushNotes(notes, ns, cap) = <<>>
  PROVE  notes = <<>> /\ ns = <<>>
<1> DEFINE all == notes \o ns
           excess == IF Len(all) > cap THEN Len(all) - cap ELSE 0
<1>1. all \in Seq(X) /\ Len(all) = Len(notes) + Len(ns)
  OBVIOUS
<1>2. <<>> = [i \in 1..(Len(all) - excess) |-> all[i + excess]]
  BY DEF PushNotes
<1> HIDE DEF all
<1>3. Len(all) \in Nat /\ excess \in Nat /\ (Len(all) # 0 => Len(all) - excess >= 1)
  BY <1>1
<1>4. DOMAIN <<>> = 1..(Len(all) - excess)
  BY <1>2
<1> HIDE DEF excess
<1>5. Len(all) = 0
  <2>1. DOMAIN <<>> = {}
    OBVIOUS
  <2>2. SUFFICES ASSUME Len(all) # 0 PROVE FALSE
    OBVIOUS
  <2>3. 1 \in 1..(Len(all) - excess)
    BY <1>3, <2>2
  <2> QED BY <1>4, <2>1, <2>3
<1>6. Len(notes) + Len(ns) = 0
  BY <1>1, <1>5, Zenon
<1> DEFINE n == Len(notes)
           m == Len(ns)
<1>7. n \in Nat /\ m \in Nat /\ n + m = 0
  BY <1>6
<1> HIDE DEF n, m
<1>8. n = 0 /\ m = 0
  BY <1>7
<1> QED BY <1>8 DEF n, m
=============================================================================
