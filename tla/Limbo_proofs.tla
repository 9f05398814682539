---------------------------- MODULE Limbo_proofs ----------------------------
(***************************************************************************)
(* Machine-checked proofs about Limbo.                                     *)
(***************************************************************************)
EXTENDS Limbo, FunctionTheorems, FiniteSetTheorems, SequenceTheorems,
        WellFoundedInduction, TLAPS

-----------------------------------------------------------------------------
(* Induction.  What holds of 0 and is passed on from n to n + 1 is stated   *)
(* with the least number of which it does not hold.                         *)

\* A set of numbers that is not empty has a least member.
LEMMA Least ==
    ASSUME NEW T, T \subseteq Nat, T # {}
    PROVE  \E n \in T : \A m \in T : n <= m
<1> DEFINE R == StrictSubsetOrdering(Nat)
           F == {0..n : n \in T}
<1>1. F \subseteq FiniteSubsetsOf(Nat) /\ F # {}
  <2>1. \A n \in T : 0..n \subseteq Nat /\ IsFiniteSet(0..n)
    BY FS_Interval
  <2> QED BY <2>1 DEF FiniteSubsetsOf
<1>2. IsWellFoundedOn(R, FiniteSubsetsOf(Nat))
  BY FS_StrictSubsetOrderingWellFounded
<1>3. PICK x \in F : \A y \in F : <<y, x>> \notin R
  <2> HIDE DEF R, F
  <2> QED BY <1>1, <1>2, WFMin
<1>4. PICK n \in T : x = 0..n
  OBVIOUS
<1>5. \A m \in T : n <= m
  <2> SUFFICES ASSUME NEW m \in T, m < n PROVE FALSE
    OBVIOUS
  <2>1. 0..m \subseteq 0..n /\ 0..m # 0..n
    <3>1. n \in 0..n /\ n \notin 0..m
      OBVIOUS
    <3> QED BY <3>1
  <2>2. <<0..m, 0..n>> \in R
    BY <2>1 DEF StrictSubsetOrdering
  <2> QED BY <1>3, <1>4, <2>2
<1> QED BY <1>5

\* The engine goes through the changes one by one.
LEMMA Turns ==
    ASSUME NEW s, NEW changes, Len(changes) \in Nat
    PROVE  \E run : /\ run[0] = s
                    /\ \A i \in 1..Len(changes) : run[i] = TrackChange(run[i - 1], changes[i])
                    /\ UpdateTrackedLimboDocuments(s, changes) = run[Len(changes)]
<1> DEFINE N == Len(changes)
           Runs(n, f) == f = [i \in 0..n |-> IF i = 0 THEN s
                                             ELSE TrackChange(f[i - 1], changes[i])]
           T == {n \in 0..N : ~ \E f : Runs(n, f)}
<1>1. T = {}
  <2> SUFFICES ASSUME T # {} PROVE FALSE
    OBVIOUS
  <2>1. PICK n \in T : \A m \in T : n <= m
    <3>1. T \subseteq Nat
      OBVIOUS
    <3> HIDE DEF T
    <3> QED BY <3>1, Least
  <2>2. n \in 0..N /\ ~ \E f : Runs(n, f)
    OBVIOUS
  <2>3. n # 0
    <3> DEFINE g == [i \in 0..0 |-> s]
    <3>1. g = [i \in 0..0 |-> IF i = 0 THEN s ELSE TrackChange(g[i - 1], changes[i])]
      OBVIOUS
    <3> QED BY <2>2, <3>1
  <2>4. n - 1 \in 0..N /\ n - 1 \notin T
    <3>1. n - 1 \in 0..N /\ ~(n <= n - 1)
      BY <2>2, <2>3
    <3> HIDE DEF T
    <3> QED BY <2>1, <3>1
  <2>5. PICK f : Runs(n - 1, f)
    BY <2>4
  <2> DEFINE g == [i \in 0..n |-> IF i = n THEN TrackChange(f[n - 1], changes[n]) ELSE f[i]]
  <2>6. Runs(n, g)
    <3>1. \A i \in 0..n : g[i] = IF i = 0 THEN s ELSE TrackChange(g[i - 1], changes[i])
      <4> SUFFICES ASSUME NEW i \in 0..n
                   PROVE  g[i] = IF i = 0 THEN s ELSE TrackChange(g[i - 1], changes[i])
        OBVIOUS
      <4>1. CASE i = n
        <5>1. n - 1 \in 0..n /\ n - 1 # n
          BY <2>2, <2>3
        <5>2. g[n - 1] = f[n - 1]
          BY <5>1
        <5> QED BY <2>3, <4>1, <5>2
      <4>2. CASE i # n
        <5>1. i \in 0..(n - 1) /\ g[i] = f[i]
          BY <2>2, <4>2
        <5>2. f[i] = IF i = 0 THEN s ELSE TrackChange(f[i - 1], changes[i])
          BY <2>5, <5>1
        <5>3. i # 0 => i - 1 \in 0..n /\ i - 1 # n
          BY <2>2, <4>2
        <5>4. i # 0 => g[i - 1] = f[i - 1]
          BY <5>3
        <5> QED BY <5>1, <5>2, <5>4
      <4> QED BY <4>1, <4>2
    <3>2. g = [i \in 0..n |-> g[i]]
      OBVIOUS
    <3> HIDE DEF g
    <3> QED BY <3>1, <3>2
  <2> QED BY <2>2, <2>6
<1>2. \E f : Runs(N, f)
  BY <1>1
<1> DEFINE run == CHOOSE f : Runs(N, f)
<1>3. Runs(N, run)
  BY <1>2
<1>4. UpdateTrackedLimboDocuments(s, changes) = run[N]
  BY DEF UpdateTrackedLimboDocuments
<1> HIDE DEF run
<1>5. run[0] = s /\ \A i \in 1..N : run[i] = TrackChange(run[i - 1], changes[i])
  BY <1>3
<1> QED BY <1>4, <1>5

-----------------------------------------------------------------------------
(* The queue: a sequence without repetition.                                *)

\* The least of two numbers.
LEMMA MinOfTwo ==
    ASSUME NEW a \in Nat, NEW b \in Nat
    PROVE  Min({a, b}) = IF a <= b THEN a ELSE b
  BY DEF Min

\* What follows the first n members of a sequence.
LEMMA Rest ==
    ASSUME NEW S, NEW q \in Seq(S), NEW n \in Nat, n <= Len(q)
    PROVE  LET rest == SubSeq(q, n + 1, Len(q))
           IN  /\ rest \in Seq(S)
               /\ Len(rest) = Len(q) - n
               /\ DOMAIN rest = 1..(Len(q) - n)
               /\ \A i \in 1..(Len(q) - n) : rest[i] = q[n + i]
<1> DEFINE rest == SubSeq(q, n + 1, Len(q))
           N == Len(q)
<1>1. N \in Nat /\ \A i \in (n + 1)..N : q[i] \in S
  OBVIOUS
<1>2. /\ rest \in Seq(S) /\ Len(rest) = (IF n + 1 <= N THEN N - (n + 1) + 1 ELSE 0)
      /\ \A i \in 1..(N - (n + 1) + 1) : rest[i] = q[n + 1 + i - 1]
  <2>1. n + 1 \in Int /\ N \in Int
    BY <1>1
  <2> QED BY <1>1, <2>1, SubSeqProperties
<1> HIDE DEF rest, N
<1>3. n <= N
  BY DEF N
<1>4. Len(rest) = N - n
  BY <1>1, <1>2, <1>3
<1>5. DOMAIN rest = 1..(N - n)
  BY <1>2, <1>4
<1>6. \A i \in 1..(N - n) : rest[i] = q[n + i]
  <2> TAKE i \in 1..(N - n)
  <2>1. i \in 1..(N - (n + 1) + 1) /\ n + 1 + i - 1 = n + i
    BY <1>1, <1>3
  <2>2. rest[i] = q[n + 1 + i - 1]
    BY <1>2, <2>1
  <2> QED BY <2>1, <2>2
<1> QED BY <1>2, <1>4, <1>5, <1>6 DEF rest, N

\* Splitting a queue after its first n members.
LEMMA Split ==
    ASSUME NEW S, NEW q \in Seq(S), IsInjective(q), NEW n \in 0..Len(q)
    PROVE  LET first == SubSeq(q, 1, n)
               rest == SubSeq(q, n + 1, Len(q))
           IN  /\ rest \in Seq(S)
               /\ IsInjective(rest)
               /\ Len(rest) = Len(q) - n
               /\ ToSet(first) \subseteq S
               /\ IsFiniteSet(ToSet(first))
               /\ Cardinality(ToSet(first)) = n
               /\ ToSet(first) \cup ToSet(rest) = ToSet(q)
               /\ ToSet(first) \cap ToSet(rest) = {}
<1> DEFINE first == SubSeq(q, 1, n)
           rest == SubSeq(q, n + 1, Len(q))
           N == Len(q)
<1>1. N \in Nat /\ n \in Nat /\ n <= N /\ DOMAIN q = 1..N /\ \A i \in 1..N : q[i] \in S
  OBVIOUS
<1>2. /\ first \in Seq(S) /\ DOMAIN first = 1..n
      /\ \A i \in 1..n : first[i] = q[i]
  <2>1. /\ first \in Seq(S) /\ Len(first) = (IF 1 <= n THEN n - 1 + 1 ELSE 0)
        /\ \A i \in 1..(n - 1 + 1) : first[i] = q[1 + i - 1]
    <3>1. \A i \in 1..n : q[i] \in S
      BY <1>1
    <3> QED BY <1>1, <3>1, SubSeqProperties
  <2>2. Len(first) = n
    BY <1>1, <2>1
  <2> HIDE DEF first
  <2> QED BY <1>1, <2>1, <2>2
<1>3. /\ rest \in Seq(S) /\ Len(rest) = N - n /\ DOMAIN rest = 1..(N - n)
      /\ \A i \in 1..(N - n) : rest[i] = q[n + i]
  BY <1>1, Rest
<1> HIDE DEF first, rest, N
<1>4. \A i, j \in 1..N : q[i] = q[j] => i = j
  BY <1>1 DEF IsInjective
<1>5. IsInjective(rest)
  BY <1>1, <1>3, <1>4 DEF IsInjective
<1>6. ToSet(first) = {q[i] : i \in 1..n}
  BY <1>1, <1>2 DEF ToSet
<1>7. ToSet(rest) = {q[i] : i \in (n + 1)..N}
  <2>1. \A i \in (n + 1)..N : i - n \in 1..(N - n) /\ q[i] = rest[i - n]
    BY <1>1, <1>3
  <2>2. \A i \in 1..(N - n) : n + i \in (n + 1)..N
    BY <1>1
  <2>3. ToSet(rest) = {rest[i] : i \in 1..(N - n)}
    BY <1>3 DEF ToSet
  <2>4. ToSet(rest) \subseteq {q[i] : i \in (n + 1)..N}
    BY <1>3, <2>2, <2>3
  <2>5. {q[i] : i \in (n + 1)..N} \subseteq ToSet(rest)
    BY <2>1, <2>3
  <2> QED BY <2>4, <2>5
<1>8. ToSet(q) = {q[i] : i \in 1..N}
  BY <1>1 DEF ToSet
<1>9. IsFiniteSet(ToSet(first)) /\ Cardinality(ToSet(first)) = n
  <2>1. IsFiniteSet(1..n) /\ Cardinality(1..n) = n
    BY <1>1, FS_Interval
  <2>2. first \in Bijection(1..n, ToSet(first))
    <3>1. first \in [1..n -> ToSet(first)]
      BY <1>2 DEF ToSet
    <3>2. \A i, j \in 1..n : first[i] = first[j] => i = j
      BY <1>1, <1>2, <1>4
    <3>3. \A x \in ToSet(first) : \E i \in 1..n : first[i] = x
      BY <1>2 DEF ToSet
    <3> QED BY <3>1, <3>2, <3>3, Fun_IsBij
  <2>3. ExistsBijection(1..n, ToSet(first))
    BY <2>2 DEF ExistsBijection
  <2> QED BY <2>1, <2>3, FS_Bijection
<1>10. ToSet(first) \subseteq S
  BY <1>1, <1>6
<1>11. ToSet(first) \cup ToSet(rest) = ToSet(q)
  BY <1>1, <1>6, <1>7, <1>8
<1>12. ToSet(first) \cap ToSet(rest) = {}
  BY <1>1, <1>4, <1>6, <1>7
<1> QED BY <1>3, <1>5, <1>9, <1>10, <1>11, <1>12 DEF first, rest, N

\* Taking one document out of a queue.
LEMMA Taken ==
    ASSUME NEW S, NEW q \in Seq(S), IsInjective(q), NEW k
    PROVE  /\ RemoveFirst(q, k) \in Seq(S)
           /\ IsInjective(RemoveFirst(q, k))
           /\ ToSet(RemoveFirst(q, k)) = ToSet(q) \ {k}
<1> DEFINE N == Len(q)
<1>1. N \in Nat /\ DOMAIN q = 1..N /\ \A i \in 1..N : q[i] \in S
  OBVIOUS
<1>2. \A i, j \in 1..N : q[i] = q[j] => i = j
  BY <1>1 DEF IsInjective
<1>3. CASE ~ \E i \in 1..N : q[i] = k
  <2>1. RemoveFirst(q, k) = q
    BY <1>3 DEF RemoveFirst
  <2>2. k \notin ToSet(q)
    BY <1>1, <1>3 DEF ToSet
  <2> QED BY <2>1, <2>2
<1>4. ASSUME NEW c \in 1..N, q[c] = k
      PROVE  /\ RemoveFirst(q, k) \in Seq(S)
             /\ IsInjective(RemoveFirst(q, k))
             /\ ToSet(RemoveFirst(q, k)) = ToSet(q) \ {k}
  <2> DEFINE I == {i \in 1..Len(q) : q[i] = k}
             a == SubSeq(q, 1, c - 1)
             b == SubSeq(q, c + 1, Len(q))
  <2>1. I = {c}
    BY <1>2, <1>4
  <2>2. Min({c}) = c
    BY DEF Min
  <2>3. SelectInSeq(q, LAMBDA v : v = k) = c
    <3>1. SelectInSeq(q, LAMBDA v : v = k) = IF I # {} THEN Min(I) ELSE 0
      BY DEF SelectInSeq
    <3> HIDE DEF I
    <3> QED BY <2>1, <2>2, <3>1
  <2>4. RemoveFirst(q, k) = a \o b
    BY <1>4, <2>3 DEF RemoveFirst, RemoveAt
  <2>5. /\ a \in Seq(S) /\ Len(a) = c - 1
        /\ \A i \in 1..(c - 1) : a[i] = q[i]
    <3>1. \A i \in 1..(c - 1) : q[i] \in S
      BY <1>1
    <3>2. /\ a \in Seq(S) /\ Len(a) = (IF 1 <= c - 1 THEN c - 1 - 1 + 1 ELSE 0)
          /\ \A i \in 1..(c - 1 - 1 + 1) : a[i] = q[1 + i - 1]
      BY <1>1, <3>1, SubSeqProperties
    <3> HIDE DEF a
    <3> QED BY <1>1, <3>2
  <2>6. /\ b \in Seq(S) /\ Len(b) = N - c
        /\ \A i \in 1..(N - c) : b[i] = q[c + i]
    <3>1. c \in Nat /\ c <= Len(q)
      BY <1>1
    <3> QED BY <3>1, Rest
  <2> HIDE DEF a, b, I, N
  <2> DEFINE r == a \o b
  <2>7. r \in Seq(S) /\ Len(r) = N - 1 /\ DOMAIN r = 1..(N - 1)
    <3>1. r \in Seq(S) /\ Len(r) = Len(a) + Len(b)
      BY <2>5, <2>6
    <3>2. Len(r) = N - 1
      BY <1>1, <2>5, <2>6, <3>1
    <3> HIDE DEF r
    <3> QED BY <3>1, <3>2
  <2>8. \A i \in 1..(N - 1) : r[i] = IF i < c THEN q[i] ELSE q[i + 1]
    <3> SUFFICES ASSUME NEW i \in 1..(N - 1)
                 PROVE  r[i] = IF i < c THEN q[i] ELSE q[i + 1]
      OBVIOUS
    <3>1. CASE i < c
      <4>1. i \in 1..(c - 1)
        BY <3>1
      <4>2. r[i] = a[i]
        BY <2>5, <2>6, <4>1
      <4> QED BY <2>5, <3>1, <4>1, <4>2
    <3>2. CASE i >= c
      <4>1. PICK j \in 1..(N - c) : i = (c - 1) + j
        <5>1. i - (c - 1) \in 1..(N - c) /\ i = (c - 1) + (i - (c - 1))
          BY <1>1, <3>2
        <5> QED BY <5>1
      <4>2. r[i] = b[j]
        <5>1. /\ i \in 1..(Len(a) + Len(b)) /\ ~(i <= Len(a)) /\ i - Len(a) = j
          BY <1>1, <2>5, <2>6, <4>1
        <5>2. r[i] = IF i <= Len(a) THEN a[i] ELSE b[i - Len(a)]
          BY <2>5, <2>6, <5>1, ConcatProperties
        <5> HIDE DEF r
        <5> QED BY <5>1, <5>2
      <4>3. c + j = i + 1 /\ ~(i < c)
        BY <1>1, <3>2, <4>1
      <4>4. b[j] = q[c + j]
        BY <2>6, <4>1
      <4>5. r[i] = q[i + 1]
        BY <4>2, <4>3, <4>4
      <4> QED BY <4>3, <4>5
    <3>3. i < c \/ i >= c
      BY <1>1
    <3> HIDE DEF r
    <3> QED BY <3>1, <3>2, <3>3
  <2> HIDE DEF r
  <2>9. IsInjective(r)
    <3> SUFFICES ASSUME NEW i \in 1..(N - 1), NEW j \in 1..(N - 1), r[i] = r[j] PROVE i = j
      BY <2>7 DEF IsInjective
    <3>1. \A m \in 1..(N - 1) : m \in 1..N /\ m + 1 \in 1..N
      BY <1>1
    <3>2. (IF i < c THEN i ELSE i + 1) = (IF j < c THEN j ELSE j + 1)
      BY <1>2, <2>8, <3>1
    <3> QED BY <1>1, <3>2
  <2>10. ToSet(r) = ToSet(q) \ {k}
    <3>1. ToSet(r) \subseteq ToSet(q) \ {k}
      <4> SUFFICES ASSUME NEW i \in 1..(N - 1) PROVE r[i] \in ToSet(q) \ {k}
        BY <2>7 DEF ToSet
      <4>1. PICK m \in 1..N : r[i] = q[m] /\ m # c
        <5>1. CASE i < c
          BY <1>1, <2>8, <5>1
        <5>2. CASE i >= c
          <6>1. i + 1 \in 1..N /\ i + 1 # c /\ ~(i < c)
            BY <1>1, <5>2
          <6> QED BY <2>8, <6>1
        <5> QED BY <1>1, <5>1, <5>2
      <4> QED BY <1>1, <1>2, <1>4, <4>1 DEF ToSet
    <3>2. ToSet(q) \ {k} \subseteq ToSet(r)
      <4> SUFFICES ASSUME NEW m \in 1..N, q[m] # k PROVE q[m] \in ToSet(r)
        BY <1>1 DEF ToSet
      <4>1. m # c
        BY <1>4
      <4>2. \E i \in 1..(N - 1) : r[i] = q[m]
        <5>1. CASE m < c
          BY <1>1, <2>8, <5>1
        <5>2. CASE m > c
          <6>1. m - 1 \in 1..(N - 1) /\ ~(m - 1 < c) /\ (m - 1) + 1 = m
            BY <1>1, <5>2
          <6> QED BY <2>8, <6>1
        <5> QED BY <1>1, <4>1, <5>1, <5>2
      <4> QED BY <2>7, <4>2 DEF ToSet
    <3> QED BY <3>1, <3>2
  <2> QED BY <2>4, <2>7, <2>9, <2>10 DEF r
<1> QED BY <1>3, <1>4

\* Adding one that is not in the queue.
LEMMA Added ==
    ASSUME NEW S, NEW q \in Seq(S), IsInjective(q), NEW k \in S, k \notin ToSet(q)
    PROVE  /\ Append(q, k) \in Seq(S)
           /\ IsInjective(Append(q, k))
           /\ ToSet(Append(q, k)) = ToSet(q) \cup {k}
<1> DEFINE N == Len(q)
           r == Append(q, k)
<1>1. /\ N \in Nat /\ DOMAIN q = 1..N
      /\ r \in Seq(S) /\ DOMAIN r = 1..(N + 1)
      /\ r[N + 1] = k /\ \A i \in 1..N : r[i] = q[i]
  OBVIOUS
<1> HIDE DEF N, r
<1>2. IsInjective(r)
  <2>1. \A i, j \in 1..N : q[i] = q[j] => i = j
    BY <1>1 DEF IsInjective
  <2>2. \A i \in 1..N : q[i] # k
    BY <1>1 DEF ToSet
  <2> SUFFICES ASSUME NEW i \in 1..(N + 1), NEW j \in 1..(N + 1), r[i] = r[j] PROVE i = j
    BY <1>1 DEF IsInjective
  <2>3. \A m \in 1..(N + 1) : m \in 1..N \/ m = N + 1
    BY <1>1
  <2> QED BY <1>1, <2>1, <2>2, <2>3
<1>3. ToSet(r) = ToSet(q) \cup {k}
  <2>1. \A m \in 1..(N + 1) : m \in 1..N \/ m = N + 1
    BY <1>1
  <2>2. N + 1 \in 1..(N + 1) /\ 1..N \subseteq 1..(N + 1)
    BY <1>1
  <2> QED BY <1>1, <2>1, <2>2 DEF ToSet
<1> QED BY <1>1, <1>2, <1>3 DEF r

-----------------------------------------------------------------------------
(* The engine.                                                              *)

SyncType == [refs : SUBSET (Docs \X Queries), queue : Seq(Docs), active : SUBSET Docs,
             listening : SUBSET Docs, ok : BOOLEAN, refused : SUBSET Docs]

\* The documents looked up or waiting for it.
Busy(s) == s.active \cup ToSet(s.queue)

\* What holds whenever lookups are started.
CanPump(s) ==
    /\ s \in SyncType
    /\ s.ok
    /\ s.listening = s.active
    /\ Cardinality(s.active) <= max_concurrent_limbo_resolutions
    /\ IsInjective(s.queue)
    /\ s.active \cap ToSet(s.queue) = {}

\* ... and once they are: documents wait only for lack of room.
Pumped(s) ==
    /\ CanPump(s)
    /\ s.queue # <<>> => Cardinality(s.active) = max_concurrent_limbo_resolutions

\* Documents are looked up for a view; those in "due" lost theirs and are
\* about to be dealt with.  What a view has in limbo is looked up unless the
\* server refused that.
Wanted(s, due) ==
    /\ \A k \in Busy(s) : HasReference(s, k) \/ k \in due
    /\ \A p \in s.refs : p[1] \in Busy(s) \cup s.refused

EngineOK(s, due) == Pumped(s) /\ Wanted(s, due)

\* Sets of documents are finite.
LEMMA ActiveFinite ==
    ASSUME NEW A \in SUBSET Docs
    PROVE  IsFiniteSet(A) /\ Cardinality(A) \in Nat
<1>1. IsFiniteSet(A)
  BY LimboAssumption, FS_Subset
<1> QED BY <1>1, FS_CardinalityType

\* PumpEnqueuedLimboResolutions moves documents from the queue to the lookups,
\* as many as there is room for, and loses none.
LEMMA PumpOK ==
    ASSUME NEW s, CanPump(s)
    PROVE  LET t == PumpEnqueuedLimboResolutions(s)
           IN  /\ Pumped(t) /\ Busy(t) = Busy(s)
               /\ t.refs = s.refs /\ t.refused = s.refused
<1> DEFINE room == max_concurrent_limbo_resolutions - Cardinality(s.active)
           n == Min({room, Len(s.queue)})
           first == SubSeq(s.queue, 1, n)
           rest == SubSeq(s.queue, n + 1, Len(s.queue))
           started == ToSet(first)
           t == PumpEnqueuedLimboResolutions(s)
<1>1. /\ s \in SyncType /\ s.queue \in Seq(Docs) /\ s.active \in SUBSET Docs
      /\ s.listening = s.active /\ IsInjective(s.queue) /\ s.ok
      /\ s.active \cap ToSet(s.queue) = {}
  BY DEF CanPump, SyncType
<1>2. IsFiniteSet(s.active) /\ Cardinality(s.active) \in Nat
  BY <1>1, ActiveFinite
<1>3. room \in Nat /\ Len(s.queue) \in Nat
  BY <1>1, <1>2, LimboAssumption DEF CanPump
<1>4. n = IF room <= Len(s.queue) THEN room ELSE Len(s.queue)
  <2> HIDE DEF room
  <2> QED BY <1>3, MinOfTwo
<1>5. n \in 0..Len(s.queue) /\ n <= room /\ (n < Len(s.queue) => n = room)
  <2> HIDE DEF n, room
  <2> QED BY <1>3, <1>4
<1>6. t = [s EXCEPT !.queue = rest, !.active = s.active \cup started,
                    !.listening = s.active \cup started]
  BY <1>1 DEF PumpEnqueuedLimboResolutions
<1> HIDE DEF n
<1>7. /\ rest \in Seq(Docs) /\ IsInjective(rest) /\ Len(rest) = Len(s.queue) - n
      /\ started \subseteq Docs /\ IsFiniteSet(started) /\ Cardinality(started) = n
      /\ started \cup ToSet(rest) = ToSet(s.queue)
      /\ started \cap ToSet(rest) = {}
  BY <1>1, <1>5, Split
<1> HIDE DEF first, rest, started, t
<1>8. /\ t.queue = rest /\ t.active = s.active \cup started /\ t.listening = t.active
      /\ t.ok = s.ok /\ t.refs = s.refs /\ t.refused = s.refused
  BY <1>1, <1>6 DEF SyncType
<1>9. t \in SyncType
  <2>1. s.active \cup started \in SUBSET Docs
    BY <1>1, <1>7
  <2> QED BY <1>1, <1>6, <1>7, <2>1 DEF SyncType
<1>10. Cardinality(t.active) = Cardinality(s.active) + n
  <2>1. s.active \cap started = {}
    BY <1>1, <1>7
  <2>2. /\ IsFiniteSet(s.active \cup started)
        /\ Cardinality(s.active \cup started) =
             Cardinality(s.active) + Cardinality(started) - Cardinality(s.active \cap started)
    BY <1>2, <1>7, FS_Union
  <2>3. Cardinality(s.active \cap started) = 0
    BY <2>1, FS_EmptySet
  <2> HIDE DEF room
  <2> QED BY <1>2, <1>5, <1>7, <1>8, <2>2, <2>3
<1>11. Cardinality(t.active) <= max_concurrent_limbo_resolutions
  BY <1>2, <1>3, <1>5, <1>10, LimboAssumption
<1>12. t.queue # <<>> => Cardinality(t.active) = max_concurrent_limbo_resolutions
  <2> SUFFICES ASSUME t.queue # <<>>
               PROVE  Cardinality(t.active) = max_concurrent_limbo_resolutions
    OBVIOUS
  <2>1. Len(rest) # 0
    BY <1>7, <1>8
  <2>2. n < Len(s.queue)
    <3> HIDE DEF room
    <3> QED BY <1>3, <1>5, <1>7, <2>1
  <2> QED BY <1>2, <1>5, <1>10, <2>2, LimboAssumption
<1>13. t.active \cap ToSet(t.queue) = {}
  BY <1>1, <1>7, <1>8
<1>14. Busy(t) = Busy(s)
  BY <1>7, <1>8 DEF Busy
<1>15. Pumped(t)
  BY <1>1, <1>7, <1>8, <1>9, <1>11, <1>12, <1>13 DEF Pumped, CanPump
<1> QED BY <1>8, <1>14, <1>15 DEF t

\* TrackLimboChange looks a document up, or queues it, unless that is done.
LEMMA TrackLimboChangeOK ==
    ASSUME NEW s, Pumped(s), NEW k \in Docs
    PROVE  LET t == TrackLimboChange(s, k)
           IN  /\ Pumped(t) /\ Busy(t) = Busy(s) \cup {k}
               /\ t.refs = s.refs /\ t.refused = s.refused
<1>1. CASE k \in Busy(s)
  BY <1>1 DEF TrackLimboChange, Busy
<1>2. CASE k \notin Busy(s)
  <2> DEFINE r == [s EXCEPT !.queue = Append(s.queue, k)]
  <2>1. TrackLimboChange(s, k) = PumpEnqueuedLimboResolutions(r)
    BY <1>2 DEF TrackLimboChange, Busy
  <2>2. /\ s \in SyncType /\ s.queue \in Seq(Docs) /\ IsInjective(s.queue)
        /\ k \notin ToSet(s.queue) /\ k \notin s.active
    BY <1>2 DEF Pumped, CanPump, SyncType, Busy
  <2>3. /\ Append(s.queue, k) \in Seq(Docs) /\ IsInjective(Append(s.queue, k))
        /\ ToSet(Append(s.queue, k)) = ToSet(s.queue) \cup {k}
    BY <2>2, Added
  <2>4. /\ r.queue = Append(s.queue, k) /\ r.active = s.active /\ r.listening = s.listening
        /\ r.ok = s.ok /\ r.refs = s.refs /\ r.refused = s.refused
    BY <2>2 DEF SyncType
  <2>5. r \in SyncType
    BY <2>2, <2>3 DEF SyncType
  <2> HIDE DEF r
  <2>6. r.active \cap ToSet(r.queue) = {}
    BY <2>2, <2>3, <2>4 DEF Pumped, CanPump
  <2>7. CanPump(r)
    BY <2>3, <2>4, <2>5, <2>6 DEF Pumped, CanPump
  <2>8. Busy(r) = Busy(s) \cup {k}
    BY <2>3, <2>4 DEF Busy
  <2> DEFINE t == PumpEnqueuedLimboResolutions(r)
  <2>9. /\ Pumped(t) /\ Busy(t) = Busy(r)
        /\ t.refs = r.refs /\ t.refused = r.refused
    BY <2>7, PumpOK
  <2> HIDE DEF t
  <2> QED BY <2>1, <2>4, <2>8, <2>9 DEF t
<1> QED BY <1>1, <1>2

\* RemoveLimboTarget ends the lookup of a document, or its wait, and starts
\* another in its place.
LEMMA RemoveLimboTargetOK ==
    ASSUME NEW s, Pumped(s), NEW k \in Docs
    PROVE  LET t == RemoveLimboTarget(s, k)
           IN  /\ Pumped(t) /\ Busy(t) = Busy(s) \ {k}
               /\ t.refs = s.refs /\ t.refused = s.refused
<1> DEFINE rest == RemoveFirst(s.queue, k)
           r == [s EXCEPT !.queue = rest]
<1>1. /\ s \in SyncType /\ s.queue \in Seq(Docs) /\ IsInjective(s.queue)
      /\ s.active \in SUBSET Docs /\ s.listening = s.active /\ s.ok
      /\ s.active \cap ToSet(s.queue) = {}
  BY DEF Pumped, CanPump, SyncType
<1>2. /\ rest \in Seq(Docs) /\ IsInjective(rest) /\ ToSet(rest) = ToSet(s.queue) \ {k}
  BY <1>1, Taken
<1> HIDE DEF rest
<1>3. /\ r.queue = rest /\ r.active = s.active /\ r.listening = s.listening
      /\ r.ok = s.ok /\ r.refs = s.refs /\ r.refused = s.refused
  BY <1>1 DEF SyncType
<1>4. r \in SyncType
  BY <1>1, <1>2 DEF SyncType
<1>5. RemoveLimboTarget(s, k) =
        IF k \notin r.active THEN r
        ELSE PumpEnqueuedLimboResolutions(
               [r EXCEPT !.active = r.active \ {k}, !.listening = r.listening \ {k},
                         !.ok = r.ok /\ k \in r.listening])
  BY <1>4 DEF RemoveLimboTarget, rest, SyncType
<1> HIDE DEF r
<1>6. CASE k \notin s.active
  <2>1. RemoveLimboTarget(s, k) = r
    BY <1>3, <1>5, <1>6
  <2>2. r.active \cap ToSet(r.queue) = {}
    BY <1>1, <1>2, <1>3
  <2>3. rest # <<>> => s.queue # <<>>
    <3> SUFFICES ASSUME s.queue = <<>>, rest # <<>> PROVE FALSE
      OBVIOUS
    <3>1. ToSet(s.queue) = {}
      BY DEF ToSet
    <3>2. rest[1] \in ToSet(rest)
      <4>1. Len(rest) \in Nat \ {0} /\ DOMAIN rest = 1..Len(rest)
        BY <1>2
      <4> QED BY <4>1 DEF ToSet
    <3> QED BY <1>2, <3>1, <3>2
  <2>4. Pumped(r)
    BY <1>2, <1>3, <1>4, <2>2, <2>3 DEF Pumped, CanPump
  <2>5. Busy(r) = Busy(s) \ {k}
    BY <1>2, <1>3, <1>6 DEF Busy
  <2> QED BY <1>3, <2>1, <2>4, <2>5
<1>7. CASE k \in s.active
  <2> DEFINE w == [r EXCEPT !.active = r.active \ {k}, !.listening = r.listening \ {k},
                            !.ok = r.ok /\ k \in r.listening]
             t == PumpEnqueuedLimboResolutions(w)
  <2>1. RemoveLimboTarget(s, k) = t
    BY <1>3, <1>5, <1>7
  <2>2. /\ w.queue = rest /\ w.active = s.active \ {k} /\ w.listening = s.active \ {k}
        /\ w.refs = s.refs /\ w.refused = s.refused
    BY <1>1, <1>3, <1>4 DEF SyncType
  <2>3. w.ok = (r.ok /\ k \in r.listening)
    BY <1>4 DEF SyncType
  <2>4. w.ok
    BY <1>1, <1>3, <1>7, <2>3
  <2>5. w \in SyncType
    <3>1. r.active \ {k} \in SUBSET Docs /\ r.listening \ {k} \in SUBSET Docs
      BY <1>4 DEF SyncType
    <3>2. (r.ok /\ k \in r.listening) \in BOOLEAN
      OBVIOUS
    <3> QED BY ZenonT(60), <1>4, <3>1, <3>2 DEF SyncType
  <2> HIDE DEF w
  <2>6. Cardinality(w.active) <= max_concurrent_limbo_resolutions
    <3>1. IsFiniteSet(s.active) /\ Cardinality(s.active) \in Nat
      BY <1>1, ActiveFinite
    <3>2. Cardinality(s.active \ {k}) = Cardinality(s.active) - 1
      BY <1>7, <3>1, FS_RemoveElement
    <3> QED BY <2>2, <3>1, <3>2, LimboAssumption DEF Pumped, CanPump
  <2>7. w.active \cap ToSet(w.queue) = {}
    BY <1>1, <1>2, <2>2
  <2>8. CanPump(w)
    BY <1>2, <2>2, <2>4, <2>5, <2>6, <2>7 DEF CanPump
  <2>9. Busy(w) = Busy(s) \ {k}
    BY <1>2, <2>2 DEF Busy
  <2>10. /\ Pumped(t) /\ Busy(t) = Busy(w) /\ t.refs = w.refs /\ t.refused = w.refused
    BY <2>8, PumpOK
  <2> HIDE DEF t
  <2> QED BY <2>1, <2>2, <2>9, <2>10
<1> QED BY <1>6, <1>7

-----------------------------------------------------------------------------
(* The loop of UpdateTrackedLimboDocuments.                                 *)

ChangeType == [type : {"Added", "Removed"}, key : Docs, query : Queries]

\* The reference a change is about.
Ref(change) == <<change.key, change.query>>

\* One turn: the reference is added or removed, and the document is looked up
\* exactly as long as it has one.
LEMMA TrackChangeOK ==
    ASSUME NEW s, NEW due, EngineOK(s, due), NEW change \in ChangeType
    PROVE  LET t == TrackChange(s, change)
           IN  /\ EngineOK(t, due \ {change.key})
               /\ t.refs = IF change.type = "Added" THEN s.refs \cup {Ref(change)}
                           ELSE s.refs \ {Ref(change)}
               /\ t.refused = s.refused
<1> DEFINE k == change.key
           ref == Ref(change)
           t == TrackChange(s, change)
<1>1. /\ k \in Docs /\ ref \in Docs \X Queries /\ ref[1] = k
      /\ change.type \in {"Added", "Removed"}
  BY DEF ChangeType, Ref
<1>2. Pumped(s) /\ s \in SyncType /\ s.refs \subseteq Docs \X Queries
  BY DEF EngineOK, Pumped, CanPump, SyncType
<1>3. /\ \A m \in Busy(s) : HasReference(s, m) \/ m \in due
      /\ \A p \in s.refs : p[1] \in Busy(s) \cup s.refused
  BY DEF EngineOK, Wanted
<1>4. CASE change.type = "Added"
  <2> DEFINE r == [s EXCEPT !.refs = s.refs \cup {ref}]
  <2>1. t = TrackLimboChange(r, k)
    BY <1>4 DEF TrackChange, Ref
  <2>2. /\ r.refs = s.refs \cup {ref} /\ r.queue = s.queue /\ r.active = s.active
        /\ r.listening = s.listening /\ r.ok = s.ok /\ r.refused = s.refused
    BY <1>2 DEF SyncType
  <2>3. r \in SyncType
    <3> HIDE DEF ref
    <3> QED BY <1>1, <1>2 DEF SyncType
  <2> HIDE DEF r, t, ref, k
  <2>4. Pumped(r)
    BY <1>2, <2>2, <2>3 DEF Pumped, CanPump
  <2>5. Busy(r) = Busy(s)
    BY <2>2 DEF Busy
  <2>6. /\ Pumped(t) /\ Busy(t) = Busy(s) \cup {k}
        /\ t.refs = s.refs \cup {ref} /\ t.refused = s.refused
    BY <1>1, <2>1, <2>2, <2>4, <2>5, TrackLimboChangeOK
  <2>7. \A m \in Busy(t) : HasReference(t, m) \/ m \in due \ {k}
    BY <1>1, <1>3, <2>6 DEF HasReference
  <2>8. \A p \in t.refs : p[1] \in Busy(t) \cup t.refused
    BY <1>1, <1>3, <2>6
  <2>9. EngineOK(t, due \ {k})
    BY <2>6, <2>7, <2>8 DEF EngineOK, Wanted
  <2> QED BY <1>4, <2>6, <2>9 DEF t, ref, k
<1>5. CASE change.type = "Removed"
  <2> DEFINE r == [s EXCEPT !.refs = s.refs \ {ref}]
  <2>1. t = IF HasReference(r, k) THEN r ELSE RemoveLimboTarget(r, k)
    BY <1>5 DEF TrackChange, Ref
  <2>2. /\ r.refs = s.refs \ {ref} /\ r.queue = s.queue /\ r.active = s.active
        /\ r.listening = s.listening /\ r.ok = s.ok /\ r.refused = s.refused
    BY <1>2 DEF SyncType
  <2>3. r \in SyncType
    <3> HIDE DEF ref
    <3> QED BY <1>1, <1>2 DEF SyncType
  <2> HIDE DEF r, t, ref, k
  <2>4. Pumped(r)
    BY <1>2, <2>2, <2>3 DEF Pumped, CanPump
  <2>5. Busy(r) = Busy(s)
    BY <2>2 DEF Busy
  <2>6. \A m \in Busy(s) \ {k} : HasReference(r, m) \/ m \in due \ {k}
    BY <1>1, <1>3, <2>2 DEF HasReference
  <2>7. CASE HasReference(r, k)
    <3>1. t = r
      BY <2>1, <2>7
    <3>2. Wanted(r, due \ {k})
      BY <1>3, <2>2, <2>5, <2>6, <2>7 DEF Wanted
    <3> QED BY <1>5, <2>2, <2>4, <3>1, <3>2 DEF EngineOK, t, ref, k
  <2>8. CASE ~HasReference(r, k)
    <3>1. /\ Pumped(t) /\ Busy(t) = Busy(s) \ {k}
          /\ t.refs = r.refs /\ t.refused = s.refused
      BY <1>1, <2>1, <2>2, <2>4, <2>5, <2>8, RemoveLimboTargetOK
    <3>2. \A p \in r.refs : p[1] # k
      BY <2>8 DEF HasReference
    <3>3. \A m : HasReference(t, m) <=> HasReference(r, m)
      BY <3>1 DEF HasReference
    <3>4. Wanted(t, due \ {k})
      BY <1>3, <2>2, <2>6, <3>1, <3>2, <3>3 DEF Wanted
    <3> QED BY <1>5, <2>2, <3>1, <3>4 DEF EngineOK, t, ref, k
  <2> QED BY <2>7, <2>8
<1> QED BY <1>1, <1>4, <1>5

\* The changes lead from the references "before" to the references "goal".
LeadTo(changes, before, goal) ==
    /\ \A i \in 1..Len(changes) : changes[i].type = "Added" <=> Ref(changes[i]) \in goal
    /\ \A p \in Docs \X Queries :
         (p \in before <=> p \in goal) \/ \E i \in 1..Len(changes) : Ref(changes[i]) = p

\* Every document that is due has its change.
AllDue(changes, due) == \A k \in due : \E i \in 1..Len(changes) : changes[i].key = k

\* What holds of the engine "s" after the first n changes.
After(n, s, changes, due, before, goal, refused) ==
    /\ EngineOK(s, due \ {changes[i].key : i \in 1..n})
    /\ s.refused = refused
    /\ \A p \in Docs \X Queries :
         p \in s.refs <=> IF \E i \in 1..n : Ref(changes[i]) = p THEN p \in goal
                          ELSE p \in before

\* The whole loop: the engine ends up with the references of the views, and
\* with nothing left due.
LEMMA TrackedOK ==
    ASSUME NEW s, NEW due, EngineOK(s, due),
           NEW changes \in Seq(ChangeType),
           NEW goal \in SUBSET (Docs \X Queries), LeadTo(changes, s.refs, goal),
           AllDue(changes, due)
    PROVE  LET t == UpdateTrackedLimboDocuments(s, changes)
           IN  EngineOK(t, {}) /\ t.refs = goal /\ t.refused = s.refused
<1> DEFINE N == Len(changes)
<1>1. N \in Nat /\ \A i \in 1..N : changes[i] \in ChangeType
  OBVIOUS
<1>2. PICK run : /\ run[0] = s
                 /\ \A i \in 1..N : run[i] = TrackChange(run[i - 1], changes[i])
                 /\ UpdateTrackedLimboDocuments(s, changes) = run[N]
  BY <1>1, Turns
<1> DEFINE Holds(n) == After(n, run[n], changes, due, s.refs, goal, s.refused)
           T == {n \in 0..N : ~Holds(n)}
<1>3. Holds(0)
  <2>1. 1..0 = {}
    OBVIOUS
  <2>2. due \ {changes[i].key : i \in 1..0} = due
    BY <2>1
  <2> QED BY <1>2, <2>1, <2>2 DEF After
<1>4. ASSUME NEW n \in 1..N, Holds(n - 1) PROVE Holds(n)
  <2> DEFINE a == run[n - 1]
             b == run[n]
             c == changes[n]
             left == due \ {changes[i].key : i \in 1..(n - 1)}
  <2>1. /\ EngineOK(a, left) /\ a.refused = s.refused
        /\ \A p \in Docs \X Queries :
             p \in a.refs <=> IF \E i \in 1..(n - 1) : Ref(changes[i]) = p THEN p \in goal
                              ELSE p \in s.refs
    BY <1>4 DEF After
  <2>2. b = TrackChange(a, c) /\ c \in ChangeType
    BY <1>1, <1>2
  <2>3. c.type = "Added" <=> Ref(c) \in goal
    BY DEF LeadTo
  <2>4. \A i : i \in 1..n <=> i \in 1..(n - 1) \/ i = n
    BY <1>1
  <2>5. left \ {c.key} = due \ {changes[i].key : i \in 1..n}
    <3>1. {changes[i].key : i \in 1..n} = {changes[i].key : i \in 1..(n - 1)} \cup {c.key}
      BY <2>4
    <3> QED BY <3>1
  <2> HIDE DEF a, b, c, left
  <2>6. /\ EngineOK(b, left \ {c.key}) /\ b.refused = s.refused
        /\ b.refs = IF c.type = "Added" THEN a.refs \cup {Ref(c)} ELSE a.refs \ {Ref(c)}
    BY <2>1, <2>2, TrackChangeOK
  <2>7. \A p \in Docs \X Queries :
          p \in b.refs <=> IF \E i \in 1..n : Ref(changes[i]) = p THEN p \in goal
                           ELSE p \in s.refs
    <3> TAKE p \in Docs \X Queries
    <3>1. CASE Ref(c) = p
      <4>1. \E i \in 1..n : Ref(changes[i]) = p
        BY <2>4, <3>1 DEF c
      <4>2. p \in b.refs <=> p \in goal
        BY <2>3, <2>6, <3>1
      <4> QED BY <4>1, <4>2
    <3>2. CASE Ref(c) # p
      <4>1. (\E i \in 1..n : Ref(changes[i]) = p) <=> \E i \in 1..(n - 1) : Ref(changes[i]) = p
        BY <2>4, <3>2 DEF c
      <4>2. p \in b.refs <=> p \in a.refs
        BY <2>6, <3>2
      <4> QED BY <2>1, <4>1, <4>2
    <3> QED BY <3>1, <3>2
  <2> QED BY <2>5, <2>6, <2>7 DEF After, b
<1>5. T = {}
  <2> SUFFICES ASSUME T # {} PROVE FALSE
    OBVIOUS
  <2>1. PICK n \in T : \A m \in T : n <= m
    <3>1. T \subseteq Nat
      OBVIOUS
    <3> HIDE DEF T
    <3> QED BY <3>1, Least
  <2>2. n \in 0..N /\ ~Holds(n)
    OBVIOUS
  <2>3. n # 0
    BY <1>3, <2>2
  <2>4. n \in 1..N /\ n - 1 \in 0..N /\ ~(n <= n - 1)
    BY <1>1, <2>2, <2>3
  <2>5. n - 1 \notin T
    <3> HIDE DEF T
    <3> QED BY <2>1, <2>4
  <2>6. Holds(n - 1)
    BY <2>4, <2>5
  <2> QED BY <1>4, <2>2, <2>4, <2>6
<1>6. Holds(N)
  <2>1. N \in 0..N /\ N \notin T
    BY <1>1, <1>5
  <2> QED BY <2>1
<1> DEFINE t == run[N]
<1>7. EngineOK(t, {})
  <2>1. due \ {changes[i].key : i \in 1..N} = {}
    BY DEF AllDue
  <2>2. EngineOK(t, due \ {changes[i].key : i \in 1..N})
    BY <1>6 DEF After
  <2> QED BY <2>1, <2>2
<1>8. t.refs = goal
  <2>1. t.refs \subseteq Docs \X Queries
    BY <1>7 DEF EngineOK, Pumped, CanPump, SyncType
  <2>2. \A p \in Docs \X Queries : p \in t.refs <=> p \in goal
    BY <1>6 DEF After, LeadTo
  <2> HIDE DEF t
  <2> QED BY <2>1, <2>2
<1>9. t.refused = s.refused
  BY <1>6 DEF After
<1> QED BY <1>2, <1>7, <1>8, <1>9

\* The orders in which a set of changes may be gone through: all of them have
\* every change.
LEMMA InSomeOrder ==
    ASSUME NEW C \in SUBSET ChangeType, NEW changes \in SetToSeqs(C)
    PROVE  /\ changes \in Seq(ChangeType)
           /\ \A i \in 1..Len(changes) : changes[i] \in C
           /\ \A c \in C : \E i \in 1..Len(changes) : changes[i] = c
<1> DEFINE N == Cardinality(C)
           kinds == {"Added", "Removed"}
           f == [c \in C |-> <<<<c.type, c.key>>, c.query>>]
<1>1. IsFiniteSet(C)
  <2>1. IsFiniteSet(kinds)
    <3>1. IsFiniteSet({"Added"}) /\ kinds = {"Added"} \cup {"Removed"}
      BY FS_Singleton
    <3> HIDE DEF kinds
    <3> QED BY <3>1, FS_AddElement
  <2> HIDE DEF kinds
  <2>2. IsFiniteSet((kinds \X Docs) \X Queries)
    <3>1. IsFiniteSet(kinds \X Docs)
      BY <2>1, LimboAssumption, FS_Product
    <3> QED BY <3>1, LimboAssumption, FS_Product
  <2>3. f \in Injection(C, (kinds \X Docs) \X Queries)
    <3>1. f \in [C -> (kinds \X Docs) \X Queries]
      BY DEF ChangeType, kinds
    <3>2. \A c, d \in C : f[c] = f[d] => c = d
      <4> SUFFICES ASSUME NEW c \in C, NEW d \in C, f[c] = f[d] PROVE c = d
        OBVIOUS
      <4>1. c.type = d.type /\ c.key = d.key /\ c.query = d.query
        OBVIOUS
      <4>2. c \in ChangeType /\ d \in ChangeType
        OBVIOUS
      <4> QED BY <4>1, <4>2 DEF ChangeType
    <3> HIDE DEF f
    <3> QED BY <3>1, <3>2, Fun_IsInj
  <2> HIDE DEF f
  <2> QED BY <2>2, <2>3, FS_Injection
<1>2. N \in Nat
  BY <1>1, FS_CardinalityType
<1>3. changes \in [1..N -> C] /\ \A i, j \in 1..N : i # j => changes[i] # changes[j]
  BY DEF SetToSeqs
<1> HIDE DEF N
<1>4. changes \in Seq(ChangeType) /\ Len(changes) = N
  BY <1>2, <1>3
<1>5. changes \in Injection(1..N, C)
  BY <1>3, Fun_IsInj
<1>6. changes \in Surjection(1..N, C)
  <2>1. Cardinality(1..N) = N
    BY <1>2, FS_Interval
  <2> QED BY <1>1, <1>5, <2>1, FS_Injection DEF N
<1>7. \A c \in C : \E i \in 1..N : changes[i] = c
  BY <1>6 DEF Surjection
<1> QED BY <1>3, <1>4, <1>7

-----------------------------------------------------------------------------
(* The views and the engine.                                                *)

ViewType == [open : BOOLEAN, synced : SUBSET Docs, current : BOOLEAN, limbo : SUBSET Docs]

\* The references the views call for.
Refs(v) == {p \in Docs \X Queries : p[1] \in v[p[2]].limbo}

\* A query nobody listens to has no document in limbo.
ClosedEmpty(v) == \A q \in Queries : ~v[q].open => v[q].limbo = {}

\* The inductive invariant: the views are typed, what the engine refers to is
\* what they have in limbo, and the engine is in order with nothing due.
LimboInv ==
    /\ cache \subseteq Docs
    /\ mutated \subseteq Docs
    /\ view \in [Queries -> ViewType]
    /\ ClosedEmpty(view)
    /\ EngineOK(sync, {})
    /\ sync.refs = Refs(view)

\* The limbo changes of all views lead from their old references to the new.
LEMMA ChangesLead ==
    ASSUME NEW v \in [Queries -> ViewType], NEW w \in [Queries -> ViewType],
           NEW changes \in SetToSeqs(UNION {LimboChanges(q, v[q].limbo, w[q].limbo) :
                                            q \in Queries})
    PROVE  changes \in Seq(ChangeType) /\ LeadTo(changes, Refs(v), Refs(w))
<1> DEFINE C == UNION {LimboChanges(q, v[q].limbo, w[q].limbo) : q \in Queries}
<1>1. \A q \in Queries : v[q].limbo \subseteq Docs /\ w[q].limbo \subseteq Docs
  BY DEF ViewType
<1>2. \A c \in C : /\ c \in ChangeType
                   /\ c.type = "Added" <=> c.key \in w[c.query].limbo
  BY <1>1 DEF LimboChanges, Change, ChangeType
<1>3. \A q \in Queries, k \in Docs :
        (k \in v[q].limbo <=> k \in w[q].limbo) \/ \E c \in C : c.key = k /\ c.query = q
  <2> SUFFICES ASSUME NEW q \in Queries, NEW k \in Docs, ~(k \in v[q].limbo <=> k \in w[q].limbo)
               PROVE  \E c \in C : c.key = k /\ c.query = q
    OBVIOUS
  <2>1. CASE k \in v[q].limbo \ w[q].limbo
    <3>1. Change("Removed", k, q) \in C
      BY <2>1 DEF LimboChanges
    <3>2. Change("Removed", k, q).key = k /\ Change("Removed", k, q).query = q
      BY DEF Change
    <3> HIDE DEF C
    <3> QED BY <3>1, <3>2
  <2>2. CASE k \in w[q].limbo \ v[q].limbo
    <3>1. Change("Added", k, q) \in C
      BY <2>2 DEF LimboChanges
    <3>2. Change("Added", k, q).key = k /\ Change("Added", k, q).query = q
      BY DEF Change
    <3> HIDE DEF C
    <3> QED BY <3>1, <3>2
  <2> QED BY <2>1, <2>2
<1>4. changes \in SetToSeqs(C)
  OBVIOUS
<1> HIDE DEF C
<1>5. /\ changes \in Seq(ChangeType)
      /\ \A i \in 1..Len(changes) : changes[i] \in C
      /\ \A c \in C : \E i \in 1..Len(changes) : changes[i] = c
  <2>1. C \in SUBSET ChangeType
    BY <1>2
  <2> QED BY <1>4, <2>1, InSomeOrder
<1>6. \A i \in 1..Len(changes) : changes[i].type = "Added" <=> Ref(changes[i]) \in Refs(w)
  <2> TAKE i \in 1..Len(changes)
  <2> DEFINE c == changes[i]
  <2>1. /\ c.type = "Added" <=> c.key \in w[c.query].limbo
        /\ c.key \in Docs /\ c.query \in Queries
    BY <1>2, <1>5 DEF ChangeType
  <2> HIDE DEF c
  <2>2. Ref(c) \in Refs(w) <=> c.key \in w[c.query].limbo
    BY <2>1 DEF Ref, Refs
  <2> QED BY <2>1, <2>2 DEF c
<1>7. \A p \in Docs \X Queries :
        (p \in Refs(v) <=> p \in Refs(w)) \/ \E i \in 1..Len(changes) : Ref(changes[i]) = p
  <2> TAKE p \in Docs \X Queries
  <2>1. PICK k \in Docs, q \in Queries : p = <<k, q>>
    OBVIOUS
  <2>2. /\ p \in Refs(v) <=> k \in v[q].limbo
        /\ p \in Refs(w) <=> k \in w[q].limbo
    BY <2>1 DEF Refs
  <2>3. ASSUME NEW c \in C, c.key = k, c.query = q
        PROVE  \E i \in 1..Len(changes) : Ref(changes[i]) = p
    BY <1>5, <2>1, <2>3 DEF Ref
  <2> QED BY <1>3, <2>2, <2>3
<1> QED BY <1>5, <1>6, <1>7 DEF LeadTo

\* UpdateLimboDocuments keeps the type of a view, whether it is open, and
\* gives nothing to one that is closed.
LEMMA UpdateLimboOK ==
    ASSUME NEW v \in ViewType, NEW docs \in SUBSET Docs, NEW local
    PROVE  LET w == UpdateLimboDocuments(v, docs, local)
           IN  w \in ViewType /\ w.open = v.open /\ (~w.open => w = v)
<1> DEFINE limbo == (docs \ v.synced) \ local
           w == UpdateLimboDocuments(v, docs, local)
<1>1. limbo \in SUBSET Docs
  OBVIOUS
<1>2. w = IF v.open /\ v.current THEN [v EXCEPT !.limbo = limbo] ELSE v
  BY DEF UpdateLimboDocuments
<1> HIDE DEF limbo, w
<1>3. CASE v.open /\ v.current
  BY <1>1, <1>2, <1>3 DEF ViewType, w
<1>4. CASE ~(v.open /\ v.current)
  BY <1>2, <1>4 DEF w
<1> QED BY <1>3, <1>4

\* A new set of snapshots: the engine follows the views.
LEMMA EmitOK ==
    ASSUME view \in [Queries -> ViewType], NEW vs \in [Queries -> ViewType],
           ClosedEmpty(vs), \A q \in Queries : vs[q].limbo = view[q].limbo,
           NEW s, EngineOK(s, {}), s.refs = Refs(view),
           cache' \subseteq Docs, mutated' \subseteq Docs,
           Emit(s, vs)
    PROVE  LimboInv'
<1> DEFINE w == view'
<1>1. w = [q \in Queries |-> UpdateLimboDocuments(vs[q], cache' \cup mutated', mutated')]
  BY DEF Emit
<1>2. PICK changes \in SetToSeqs(UNION {LimboChanges(q, view[q].limbo, w[q].limbo) :
                                        q \in Queries}) :
        sync' = UpdateTrackedLimboDocuments(s, changes)
  BY DEF Emit
<1> HIDE DEF w
<1>3. cache' \cup mutated' \in SUBSET Docs
  OBVIOUS
<1>4. \A q \in Queries : /\ w[q] \in ViewType /\ w[q].open = vs[q].open
                         /\ ~w[q].open => w[q] = vs[q]
  <2> TAKE q \in Queries
  <2>1. vs[q] \in ViewType
    OBVIOUS
  <2>2. w[q] = UpdateLimboDocuments(vs[q], cache' \cup mutated', mutated')
    BY <1>1
  <2> QED BY <1>3, <2>1, <2>2, UpdateLimboOK
<1>5. w \in [Queries -> ViewType]
  BY <1>1, <1>4
<1>6. ClosedEmpty(w)
  BY <1>4 DEF ClosedEmpty
<1>7. changes \in Seq(ChangeType) /\ LeadTo(changes, s.refs, Refs(w))
  BY <1>2, <1>5, ChangesLead
<1>8. EngineOK(sync', {}) /\ sync'.refs = Refs(w)
  <2>1. Refs(w) \in SUBSET (Docs \X Queries) /\ AllDue(changes, {})
    BY DEF Refs, AllDue
  <2> QED BY <1>2, <1>7, <2>1, TrackedOK
<1> QED BY <1>5, <1>6, <1>8 DEF LimboInv, w, EngineOK, Pumped, CanPump, Wanted, Refs,
                                ClosedEmpty, HasReference, Busy

\* The end of a query: its references go, and what only it had in limbo is no
\* longer looked up.
LEMMA CleanupOK ==
    ASSUME EngineOK(sync, {}), NEW q \in Queries, RemoveAndCleanupTarget(q)
    PROVE  /\ EngineOK(sync', {})
           /\ sync'.refs = {p \in sync.refs : p[2] # q}
<1> DEFINE keys == {k \in Docs : <<k, q>> \in sync.refs}
           left == {p \in sync.refs : p[2] # q}
           cleared == [sync EXCEPT !.refs = left]
           C == LimboChanges(q, keys, {})
<1>1. PICK changes \in SetToSeqs(C) : sync' = UpdateTrackedLimboDocuments(cleared, changes)
  BY DEF RemoveAndCleanupTarget
<1>2. Pumped(sync) /\ sync \in SyncType /\ sync.refs \subseteq Docs \X Queries
  BY DEF EngineOK, Pumped, CanPump, SyncType
<1>3. /\ \A m \in Busy(sync) : HasReference(sync, m)
      /\ \A p \in sync.refs : p[1] \in Busy(sync) \cup sync.refused
  BY DEF EngineOK, Wanted
<1>4. left \in SUBSET (Docs \X Queries)
  BY <1>2
<1>5. /\ cleared.refs = left /\ cleared.queue = sync.queue /\ cleared.active = sync.active
      /\ cleared.listening = sync.listening /\ cleared.ok = sync.ok
      /\ cleared.refused = sync.refused
  <2> HIDE DEF left
  <2> QED BY <1>2 DEF SyncType
<1>6. cleared \in SyncType
  <2> HIDE DEF left
  <2> QED BY <1>2, <1>4 DEF SyncType
<1>7. \A c \in C : /\ c \in ChangeType /\ c.type = "Removed" /\ c.query = q
  <2>1. keys \subseteq Docs
    OBVIOUS
  <2> HIDE DEF keys
  <2> SUFFICES ASSUME NEW c \in C
               PROVE  c \in ChangeType /\ c.type = "Removed" /\ c.query = q
    OBVIOUS
  <2>2. PICK k \in keys : c = Change("Removed", k, q)
    BY DEF LimboChanges
  <2> QED BY <2>1, <2>2 DEF Change, ChangeType
<1>8. \A k \in keys : \E c \in C : c.key = k
  <2> TAKE k \in keys
  <2>1. Change("Removed", k, q) \in C /\ Change("Removed", k, q).key = k
    BY DEF LimboChanges, Change
  <2> HIDE DEF C
  <2> QED BY <2>1
<1> HIDE DEF cleared, C
<1>9. Pumped(cleared)
  BY <1>2, <1>5, <1>6 DEF Pumped, CanPump
<1>10. Wanted(cleared, keys)
  <2>1. Busy(cleared) = Busy(sync)
    BY <1>5 DEF Busy
  <2>2. \A m \in Busy(sync) : HasReference(cleared, m) \/ m \in keys
    <3> TAKE m \in Busy(sync)
    <3>1. PICK p \in sync.refs : p[1] = m
      BY <1>3 DEF HasReference
    <3>2. p = <<m, p[2]>> /\ m \in Docs
      BY <1>2, <3>1
    <3>3. CASE p[2] = q
      BY <3>1, <3>2, <3>3
    <3>4. CASE p[2] # q
      BY <1>5, <3>1, <3>4 DEF HasReference
    <3> QED BY <3>3, <3>4
  <2>3. \A p \in left : p[1] \in Busy(sync) \cup sync.refused
    BY <1>3
  <2> HIDE DEF left, keys
  <2> QED BY <1>5, <2>1, <2>2, <2>3 DEF Wanted
<1>11. /\ changes \in Seq(ChangeType)
       /\ \A i \in 1..Len(changes) : changes[i] \in C
       /\ \A c \in C : \E i \in 1..Len(changes) : changes[i] = c
  <2>1. C \in SUBSET ChangeType
    BY <1>7
  <2> QED BY <1>1, <2>1, InSomeOrder
<1>12. LeadTo(changes, left, left)
  <2>1. \A i \in 1..Len(changes) : changes[i].type # "Added" /\ Ref(changes[i]) \notin left
    BY <1>7, <1>11 DEF Ref
  <2> HIDE DEF left
  <2> QED BY <2>1 DEF LeadTo
<1>13. AllDue(changes, keys)
  <2> HIDE DEF keys
  <2> QED BY <1>8, <1>11 DEF AllDue
<1>14. EngineOK(cleared, keys)
  BY <1>9, <1>10 DEF EngineOK
<1> HIDE DEF keys, left
<1>15. changes \in Seq(ChangeType) /\ LeadTo(changes, cleared.refs, left)
  BY <1>5, <1>11, <1>12
<1>16. EngineOK(sync', {}) /\ sync'.refs = left
  BY <1>1, <1>4, <1>13, <1>14, <1>15, TrackedOK
<1> QED BY <1>16 DEF left

-----------------------------------------------------------------------------
(* The steps.                                                               *)

\* It holds at first.
LEMMA InitOK == Init => LimboInv
<1> SUFFICES ASSUME Init PROVE LimboInv
  OBVIOUS
<1>1. /\ cache \subseteq Docs /\ mutated \subseteq Docs
      /\ view = [q \in Queries |-> NewView] /\ sync = NewSync
  BY DEF Init
<1>2. view \in [Queries -> ViewType]
  BY <1>1 DEF NewView, ViewType
<1>3. \A q \in Queries : view[q].limbo = {}
  BY <1>1 DEF NewView
<1>4. ClosedEmpty(view) /\ Refs(view) = {}
  BY <1>3 DEF ClosedEmpty, Refs
<1>5. sync \in SyncType
  <2>1. <<>> \in Seq(Docs)
    OBVIOUS
  <2> QED BY <1>1, <2>1 DEF NewSync, SyncType
<1>6. /\ sync.refs = {} /\ sync.queue = <<>> /\ sync.active = {}
      /\ sync.listening = {} /\ sync.ok /\ sync.refused = {}
  BY <1>1 DEF NewSync
<1>7. Cardinality({}) = 0 /\ ToSet(<<>>) = {} /\ IsInjective(<<>>)
  BY FS_EmptySet DEF ToSet, IsInjective
<1>8. Pumped(sync)
  BY <1>5, <1>6, <1>7, LimboAssumption DEF Pumped, CanPump
<1>9. Wanted(sync, {})
  BY <1>6, <1>7 DEF Wanted, Busy
<1> QED BY <1>1, <1>2, <1>4, <1>6, <1>8, <1>9 DEF LimboInv, EngineOK

\* A new view has nothing in limbo, and the query had nothing before.
LEMMA ListenOK ==
    ASSUME LimboInv, NEW q \in Queries, Listen(q)
    PROVE  LimboInv'
<1> DEFINE new == [NewView EXCEPT !.open = TRUE, !.synced = view[q].synced]
<1>1. /\ view \in [Queries -> ViewType] /\ ClosedEmpty(view) /\ ~view[q].open
      /\ view' = [view EXCEPT ![q] = new]
      /\ cache' = cache /\ mutated' = mutated /\ sync' = sync
  BY DEF LimboInv, Listen
<1>2. view[q] \in ViewType /\ view[q].limbo = {}
  BY <1>1 DEF ClosedEmpty
<1>3. new \in ViewType /\ new.limbo = {}
  BY <1>2 DEF NewView, ViewType
<1> HIDE DEF new
<1>4. view' \in [Queries -> ViewType]
  BY <1>1, <1>3
<1>5. \A p \in Queries : view'[p].limbo = view[p].limbo
  BY <1>1, <1>2, <1>3
<1>6. Refs(view') = Refs(view)
  BY <1>5 DEF Refs
<1>7. ClosedEmpty(view')
  BY <1>1, <1>3 DEF ClosedEmpty
<1> QED BY <1>1, <1>4, <1>6, <1>7 DEF LimboInv

\* The end of a query.
LEMMA StopListeningOK ==
    ASSUME LimboInv, NEW q \in Queries, StopListening(q)
    PROVE  LimboInv'
<1> DEFINE new == [NewView EXCEPT !.synced = view[q].synced]
<1>1. /\ view \in [Queries -> ViewType] /\ ClosedEmpty(view)
      /\ view' = [view EXCEPT ![q] = new]
      /\ cache' = cache /\ mutated' = mutated
      /\ sync.refs = Refs(view)
  BY DEF LimboInv, StopListening
<1>2. EngineOK(sync', {}) /\ sync'.refs = {p \in sync.refs : p[2] # q}
  BY CleanupOK DEF LimboInv, StopListening
<1>3. view[q] \in ViewType
  BY <1>1
<1>4. new \in ViewType /\ new.limbo = {}
  BY <1>3 DEF NewView, ViewType
<1> HIDE DEF new
<1>5. view' \in [Queries -> ViewType]
  BY <1>1, <1>4
<1>6. \A r \in Queries : view'[r] = IF r = q THEN new ELSE view[r]
  BY <1>1
<1>7. Refs(view') = {p \in Refs(view) : p[2] # q}
  <2>1. ASSUME NEW p \in Docs \X Queries
        PROVE  p[1] \in view'[p[2]].limbo <=> p[1] \in view[p[2]].limbo /\ p[2] # q
    <3>1. p[2] \in Queries
      OBVIOUS
    <3> QED BY <1>4, <1>6, <3>1
  <2> QED BY <2>1 DEF Refs
<1>8. ClosedEmpty(view')
  BY <1>1, <1>4, <1>6 DEF ClosedEmpty
<1> QED BY <1>1, <1>2, <1>5, <1>7, <1>8 DEF LimboInv

\* A remote event for a query.
LEMMA QueryEventOK ==
    ASSUME LimboInv, NEW q \in Queries, NEW now \in SUBSET Docs, NEW gone \in SUBSET Docs,
           NEW current \in BOOLEAN, QueryEvent(q, now, gone, current)
    PROVE  LimboInv'
<1> DEFINE vs == [view EXCEPT ![q].synced = now, ![q].current = current]
           new == [view[q] EXCEPT !.synced = now, !.current = current]
<1>1. /\ view \in [Queries -> ViewType] /\ ClosedEmpty(view)
      /\ EngineOK(sync, {}) /\ sync.refs = Refs(view)
      /\ Emit(sync, vs) /\ cache' \subseteq Docs /\ mutated' \subseteq Docs
  BY DEF LimboInv, QueryEvent
<1>2. vs = [view EXCEPT ![q] = new]
  BY <1>1
<1>3. view[q] \in ViewType
  BY <1>1
<1>4. new \in ViewType /\ new.limbo = view[q].limbo /\ new.open = view[q].open
  BY <1>3 DEF ViewType
<1> HIDE DEF vs, new
<1>5. vs \in [Queries -> ViewType]
  BY <1>1, <1>2, <1>4
<1>6. \A r \in Queries : vs[r].limbo = view[r].limbo /\ vs[r].open = view[r].open
  BY <1>1, <1>2, <1>4
<1>7. ClosedEmpty(vs)
  BY <1>1, <1>6 DEF ClosedEmpty
<1> QED BY <1>1, <1>5, <1>6, <1>7, EmitOK

\* What changes the cache or the local writes and leaves the views to be
\* computed again.
LEMMA RecomputeOK ==
    ASSUME LimboInv, cache' \subseteq Docs, mutated' \subseteq Docs,
           NEW s, EngineOK(s, {}), s.refs = sync.refs, Emit(s, view)
    PROVE  LimboInv'
<1>1. /\ view \in [Queries -> ViewType] /\ ClosedEmpty(view) /\ s.refs = Refs(view)
      /\ \A q \in Queries : view[q].limbo = view[q].limbo
  BY DEF LimboInv
<1> QED BY <1>1, EmitOK

\* A refused lookup makes room, and its document is no longer tracked.
LEMMA LimboRejectedOK ==
    ASSUME LimboInv, NEW k \in Docs, LimboRejected(k)
    PROVE  LimboInv'
<1> DEFINE r == [sync EXCEPT !.active = sync.active \ {k}, !.listening = sync.listening \ {k},
                             !.refused = sync.refused \cup {k}]
           t == PumpEnqueuedLimboResolutions(r)
<1>1. /\ sync \in SyncType /\ sync.ok /\ sync.listening = sync.active
      /\ sync.active \in SUBSET Docs /\ sync.queue \in Seq(Docs) /\ IsInjective(sync.queue)
      /\ sync.active \cap ToSet(sync.queue) = {}
      /\ Cardinality(sync.active) <= max_concurrent_limbo_resolutions
      /\ k \in sync.active
  BY DEF LimboInv, LimboRejected, EngineOK, Pumped, CanPump, SyncType
<1>2. /\ \A m \in Busy(sync) : HasReference(sync, m)
      /\ \A p \in sync.refs : p[1] \in Busy(sync) \cup sync.refused
  BY DEF LimboInv, EngineOK, Wanted
<1>3. Emit(t, view) /\ cache' \subseteq Docs /\ mutated' \subseteq Docs
  BY DEF LimboInv, LimboRejected
<1>4. /\ r.refs = sync.refs /\ r.queue = sync.queue /\ r.active = sync.active \ {k}
      /\ r.listening = sync.listening \ {k} /\ r.ok = sync.ok
      /\ r.refused = sync.refused \cup {k}
  BY <1>1 DEF SyncType
<1>5. r \in SyncType
  BY <1>1 DEF SyncType
<1> HIDE DEF r
<1>6. Cardinality(r.active) <= max_concurrent_limbo_resolutions
  <2>1. IsFiniteSet(sync.active) /\ Cardinality(sync.active) \in Nat
    BY <1>1, ActiveFinite
  <2>2. Cardinality(sync.active \ {k}) = Cardinality(sync.active) - 1
    BY <1>1, <2>1, FS_RemoveElement
  <2> QED BY <1>1, <1>4, <2>1, <2>2, LimboAssumption
<1>7. CanPump(r)
  BY <1>1, <1>4, <1>5, <1>6 DEF CanPump
<1>8. /\ Pumped(t) /\ Busy(t) = Busy(r) /\ t.refs = r.refs /\ t.refused = r.refused
  BY <1>7, PumpOK
<1> HIDE DEF t
<1>9. Busy(r) = Busy(sync) \ {k}
  BY <1>1, <1>4 DEF Busy
<1>10. \A m \in Busy(t) : HasReference(t, m)
  BY <1>2, <1>4, <1>8, <1>9 DEF HasReference
<1>11. \A p \in t.refs : p[1] \in Busy(t) \cup t.refused
  BY <1>2, <1>4, <1>8, <1>9
<1>12. EngineOK(t, {}) /\ t.refs = sync.refs
  BY <1>4, <1>8, <1>10, <1>11 DEF EngineOK, Wanted
<1> QED BY <1>3, <1>12, RecomputeOK

\* Views out of sync keep what they have in limbo.
LEMMA GoOfflineOK ==
    ASSUME LimboInv, GoOffline
    PROVE  LimboInv'
<1>1. /\ view \in [Queries -> ViewType] /\ ClosedEmpty(view)
      /\ view' = [q \in Queries |-> [view[q] EXCEPT !.current = FALSE]]
      /\ cache' = cache /\ mutated' = mutated /\ sync' = sync
  BY DEF LimboInv, GoOffline
<1>2. \A q \in Queries : /\ view'[q] \in ViewType /\ view'[q].open = view[q].open
                         /\ view'[q].limbo = view[q].limbo
  <2> TAKE q \in Queries
  <2>1. view[q] \in ViewType /\ view'[q] = [view[q] EXCEPT !.current = FALSE]
    BY <1>1
  <2> QED BY <2>1 DEF ViewType
<1>3. view' \in [Queries -> ViewType] /\ ClosedEmpty(view') /\ Refs(view') = Refs(view)
  BY <1>1, <1>2 DEF ClosedEmpty, Refs
<1> QED BY <1>1, <1>3 DEF LimboInv

\* Every step keeps the invariant.
LEMMA NextOK == LimboInv /\ [Next]_vars => LimboInv'
<1> SUFFICES ASSUME LimboInv, [Next]_vars PROVE LimboInv'
  OBVIOUS
<1>0. EngineOK(sync, {}) /\ cache \subseteq Docs /\ mutated \subseteq Docs
  BY DEF LimboInv
<1>1. ASSUME NEW q \in Queries, Listen(q) PROVE LimboInv'
  BY <1>1, ListenOK
<1>2. ASSUME NEW q \in Queries, StopListening(q) PROVE LimboInv'
  BY <1>2, StopListeningOK
<1>3. ASSUME NEW q \in Queries, NEW now \in SUBSET Docs, NEW gone \in SUBSET Docs,
             NEW current \in BOOLEAN, QueryEvent(q, now, gone, current)
      PROVE  LimboInv'
  BY <1>3, QueryEventOK
<1>4. ASSUME NEW k \in Docs, NEW found \in BOOLEAN, LimboAnswered(k, found) PROVE LimboInv'
  <2>1. cache' \subseteq Docs /\ mutated' \subseteq Docs /\ Emit(sync, view)
    BY <1>0, <1>4 DEF LimboAnswered
  <2> QED BY <1>0, <2>1, RecomputeOK
<1>5. ASSUME NEW k \in Docs, LimboRejected(k) PROVE LimboInv'
  BY <1>5, LimboRejectedOK
<1>6. CASE GoOffline
  BY <1>6, GoOfflineOK
<1>7. ASSUME NEW k \in Docs, WriteMutations(k) PROVE LimboInv'
  <2>1. cache' \subseteq Docs /\ mutated' \subseteq Docs /\ Emit(sync, view)
    BY <1>0, <1>7 DEF WriteMutations
  <2> QED BY <1>0, <2>1, RecomputeOK
<1>8. ASSUME NEW k \in Docs, HandleSuccessfulWrite(k) PROVE LimboInv'
  <2>1. cache' \subseteq Docs /\ mutated' \subseteq Docs /\ Emit(sync, view)
    BY <1>0, <1>8 DEF HandleSuccessfulWrite
  <2> QED BY <1>0, <2>1, RecomputeOK
<1>9. ASSUME NEW k \in Docs, HandleRejectedWrite(k) PROVE LimboInv'
  <2>1. cache' \subseteq Docs /\ mutated' \subseteq Docs /\ Emit(sync, view)
    BY <1>0, <1>9 DEF HandleRejectedWrite
  <2> QED BY <1>0, <2>1, RecomputeOK
<1>10. CASE UNCHANGED vars
  BY <1>10 DEF vars, LimboInv
<1> QED BY <1>1, <1>2, <1>3, <1>4, <1>5, <1>6, <1>7, <1>8, <1>9, <1>10 DEF Next

\* The invariant holds of every behaviour.
LEMMA Invariance == Spec => []LimboInv
  BY InitOK, NextOK, PTL DEF Spec

-----------------------------------------------------------------------------
(* The properties.                                                          *)

\* The state keeps its type, and there are never more lookups at a time than
\* max_concurrent_limbo_resolutions.
THEOREM TypeCorrect == Spec => []TypeOK
<1>1. LimboInv => TypeOK
  BY DEF LimboInv, TypeOK, EngineOK, Pumped, CanPump, SyncType, ViewType
<1> QED BY <1>1, Invariance, PTL

\* SyncEngine looks up the documents that some view has in limbo and no other,
\* each once, and the remote store listens to exactly those lookups: whatever
\* the order in which views, answers, refusals and writes change them.
THEOREM LookupsAreWanted == Spec => []LookupsWanted
<1>1. LimboInv => LookupsWanted
  BY DEF LimboInv, LookupsWanted, EngineOK, Pumped, CanPump, Wanted, Busy, Refs
<1> QED BY <1>1, Invariance, PTL

\* A lookup that ends, by an answer, a refusal or the end of its last query,
\* makes room for the next.
THEOREM RoomIsUsed == Spec => []NoIdleRoom
<1>1. LimboInv => NoIdleRoom
  BY DEF LimboInv, NoIdleRoom, EngineOK, Pumped
<1> QED BY <1>1, Invariance, PTL

\* A document that a view in sync holds in limbo is looked up, or waits for
\* it, unless the server refused its lookup.
THEOREM LimboIsTracked == Spec => []LimboTracked
<1>1. LimboInv => LimboTracked
  <2> SUFFICES ASSUME LimboInv, NEW q \in Queries, NEW k \in view[q].limbo
               PROVE  k \in Busy(sync) \cup sync.refused
    BY DEF LimboTracked, Busy
  <2>1. view[q] \in ViewType
    BY DEF LimboInv
  <2>2. k \in Docs
    BY <2>1 DEF ViewType
  <2>3. <<k, q>> \in sync.refs
    BY <2>2 DEF LimboInv, Refs
  <2> QED BY <2>3 DEF LimboInv, EngineOK, Wanted
<1> QED BY <1>1, Invariance, PTL

=============================================================================
