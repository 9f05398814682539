------------------------ MODULE WritePipeline_proofs ------------------------
(***************************************************************************)
(* Machine-checked proofs about WritePipeline.                             *)
(***************************************************************************)
EXTENDS WritePipeline, SequenceTheorems, WellFoundedInduction, TLAPS

-----------------------------------------------------------------------------
(* The inductive invariant.  Its parts about RemoteStore are predicates of  *)
(* a record and a queue, because the operations of RemoteStore are composed *)
(* of functions on such records.                                            *)

StoreType == [up : BOOLEAN, pipeline : Seq(Batch), handshake : BOOLEAN,
              ws : StreamType(Message, Message)]

\* A stream as its operations leave it: no assertion has failed, a token is
\* awaited and a timer runs only in the state that asked for it, and messages
\* are on their way only on an open call.
StreamOK(s) ==
    /\ s \in StreamType(Message, Message)
    /\ s.ok
    /\ "current" \in s.tokens => s.state = "Starting" /\ ~s.call
    /\ s.call => s.state \in {"Starting", "Open"}
    /\ IsOpen(s) => s.call
    /\ ~IsOpen(s) => s.in = <<>> /\ s.out = <<>> /\ s.end = NoEnd
    /\ "backoff" \in s.timers => s.state = "Backoff"
    /\ "idle" \in s.timers => IsOpen(s)

\* Batches flow on this stream.
Flowing(r) == IsOpen(r.ws) /\ r.handshake

\* The pipeline holds the oldest batches of the queue q.
PrefixOf(pipeline, q) ==
    /\ Len(pipeline) <= kMaxPendingWrites
    /\ Len(pipeline) <= Len(q)
    /\ pipeline = SubSeq(q, 1, Len(pipeline))

\* The stream is kept up for the pipeline: a stream that runs without batches
\* has done its handshake, and one that is marked idle has no batch.
StreamNeeded(r) ==
    /\ IsStarted(r.ws) => r.up
    /\ IsStarted(r.ws) /\ ~Flowing(r) => r.pipeline # <<>>
    /\ "idle" \in r.ws.timers => r.pipeline = <<>> /\ r.handshake
    /\ ~r.up => r.pipeline = <<>>

\* What is on its way, either way: the handshake alone, then exactly the
\* pipeline, of which the results not read yet are of writes applied.  A call
\* that ended ended with the refusal of the write it did not answer.
InFlight(r, done, denied) ==
    /\ IsOpen(r.ws) =>
         r.ws.in \o r.ws.out = IF r.handshake THEN r.pipeline ELSE <<Handshake>>
    /\ Flowing(r) => \A i \in DOMAIN r.ws.in : r.ws.in[i].write \in done
    /\ r.ws.end # NoEnd => /\ Flowing(r)
                           /\ r.ws.end = "permanent"
                           /\ r.ws.out # <<>>
                           /\ Head(r.ws.out).write \in denied

StoreOK(r, q, done, denied) ==
    /\ r \in StoreType
    /\ StreamOK(r.ws)
    /\ PrefixOf(r.pipeline, q)
    /\ StreamNeeded(r)
    /\ InFlight(r, done, denied)

\* The handshake is done only on an open stream.
HandshakeOpen == store.handshake => IsOpen(store.ws)

\* Batch ids increase along each queue and stay below the next one.
Ascending(q) == \A i, j \in DOMAIN q : i < j => q[i].id < q[j].id

IdsOrdered ==
    /\ \A u \in Users : Ascending(queue[u])
    /\ \A u \in Users : \A i \in DOMAIN queue[u] : queue[u][i].id < nextId
    /\ nextId <= issued + 1

\* A write is in one queue, at one place, and was issued; so was what the
\* server has seen.
WritesApart ==
    /\ \A u, v \in Users : \A i \in DOMAIN queue[u], j \in DOMAIN queue[v] :
         queue[u][i].write = queue[v][j].write => u = v /\ i = j
    /\ \A u \in Users : \A i \in DOMAIN queue[u] : queue[u][i].write <= issued
    /\ applied \subseteq 1..issued

PipelineInv ==
    /\ TypeOK
    /\ StoreOK(store, queue[user], applied, refused)
    /\ HandshakeOpen
    /\ IdsOrdered
    /\ WritesApart
    /\ CallbackOfItsWrite
    /\ NoWriteLost

-----------------------------------------------------------------------------
(* Facts about the operators of the model. *)

\* A bounded set of numbers has a largest element, which Max finds.
LEMMA MaxOfBounded ==
    ASSUME NEW S \in SUBSET Nat, S # {}, NEW n \in Nat, \A x \in S : x <= n
    PROVE  Max(S) \in S /\ \A x \in S : x <= Max(S)
<1> DEFINE R == OpToRel(<, Nat)
           T == {n - x : x \in S}
<1>1. T \subseteq Nat /\ T # {}
  <2>1. \A x \in S : n - x \in Nat
    OBVIOUS
  <2>2. PICK x \in S : TRUE
    OBVIOUS
  <2> QED BY <2>1, <2>2
<1>2. IsWellFoundedOn(R, Nat)
  BY NatLessThanWellFounded
<1>3. PICK m \in T : \A y \in T : ~(<<y, m>> \in R)
  <2> HIDE DEF R, T
  <2> QED BY <1>1, <1>2, WFMin
<1>4. \A y \in Nat : y < m => <<y, m>> \in R
  BY <1>1, <1>3 DEF OpToRel
<1>5. \A y \in T : ~(y < m)
  <2> HIDE DEF R, T
  <2> QED BY <1>1, <1>3, <1>4
<1>6. PICK x \in S : m = n - x
  BY <1>3
<1>7. \A y \in S : x >= y
  <2> SUFFICES ASSUME NEW y \in S PROVE x >= y
    OBVIOUS
  <2>1. n - y \in T
    OBVIOUS
  <2>2. ~(n - y < n - x)
    BY <1>5, <1>6, <2>1
  <2>3. x \in Nat /\ y \in Nat
    OBVIOUS
  <2> HIDE DEF T, R
  <2> QED BY <2>2, <2>3
<1>8. \A y \in S : y <= x
  BY <1>7
<1> QED BY <1>7, <1>8 DEF Max

\* Min of two numbers.
LEMMA MinOfTwo ==
    ASSUME NEW a \in Int, NEW b \in Int
    PROVE  Min({a, b}) = IF a <= b THEN a ELSE b
  BY DEF Min

\* A slice of a sequence.
LEMMA Slice ==
    ASSUME NEW S, NEW q \in Seq(S), NEW m \in 0..Len(q), NEW n \in m..Len(q)
    PROVE  /\ SubSeq(q, m + 1, n) \in Seq(S)
           /\ Len(SubSeq(q, m + 1, n)) = n - m
           /\ SubSeq(q, m + 1, n) = <<>> <=> n = m
<1>0. Len(q) \in Nat /\ m + 1 \in Int /\ n \in Int
  BY LenProperties
<1>1. \A i \in (m + 1)..n : q[i] \in S
  BY <1>0, ElementOfSeq
<1>2. SubSeq(q, m + 1, n) \in Seq(S) 
  BY <1>0, <1>1, SubSeqProperties
<1>3. Len(SubSeq(q, m + 1, n)) = IF m + 1 <= n THEN n - (m + 1) + 1 ELSE 0
  BY <1>0, <1>1, SubSeqProperties
<1>4. Len(SubSeq(q, m + 1, n)) = n - m
  BY <1>0, <1>3
<1>5. SubSeq(q, m + 1, n) = <<>> <=> n = m
  BY <1>0, <1>2, <1>4, EmptySeq
<1> QED BY <1>2, <1>4, <1>5

\* Concatenation is associative.
LEMMA Concat3 ==
    ASSUME NEW S, NEW a \in Seq(S), NEW b \in Seq(S), NEW c \in Seq(S)
    PROVE  a \o (b \o c) = (a \o b) \o c
  BY ConcatAssociative

\* How a sequence of one element splits.
LEMMA SplitOne ==
    ASSUME NEW S, NEW a \in Seq(S), NEW b \in Seq(S), NEW h, a \o b = <<h>>
    PROVE  (a = <<>> /\ b = <<h>>) \/ (a = <<h>> /\ b = <<>>)
<1>1. Len(a) \in Nat /\ Len(b) \in Nat /\ Len(a) + Len(b) = 1
  <2>1. Len(a \o b) = Len(a) + Len(b)
    BY ConcatProperties
  <2>2. Len(<<h>>) = 1
    OBVIOUS
  <2> QED BY <2>1, <2>2, LenProperties
<1>2. CASE Len(a) = 0
  <2>1. a = <<>>
    BY <1>2
  <2>2. a \o b = b
    BY <2>1, ConcatEmptySeq
  <2> QED BY <2>1, <2>2
<1>3. CASE Len(b) = 0
  <2>1. b = <<>>
    BY <1>3
  <2>2. a \o b = a
    BY <2>1, ConcatEmptySeq
  <2> QED BY <2>1, <2>2
<1> QED BY <1>1, <1>2, <1>3

\* Taking the first element of the first sequence.
LEMMA ConcatTail ==
    ASSUME NEW S, NEW a \in Seq(S), NEW b \in Seq(S), a # <<>>
    PROVE  /\ a \o b # <<>> /\ Head(a \o b) = Head(a)
           /\ Tail(a) \o b = Tail(a \o b)
           /\ Tail(a) \in Seq(S)
<1>1. Len(a) \in Nat \ {0} /\ Len(b) \in Nat
  BY EmptySeq, LenProperties
<1>2. /\ a \o b \in Seq(S) /\ Len(a \o b) = Len(a) + Len(b)
      /\ \A i \in 1..(Len(a) + Len(b)) :
           (a \o b)[i] = IF i <= Len(a) THEN a[i] ELSE b[i - Len(a)]
  BY ConcatProperties
<1>3. a \o b # <<>> /\ Head(a \o b) = Head(a)
  BY <1>1, <1>2
<1>4. /\ Tail(a) \in Seq(S) /\ Len(Tail(a)) = Len(a) - 1
      /\ \A i \in 1..(Len(a) - 1) : Tail(a)[i] = a[i + 1]
  BY HeadTailProperties
<1>5. /\ Tail(a \o b) \in Seq(S) /\ Len(Tail(a \o b)) = Len(a) + Len(b) - 1
      /\ \A i \in 1..(Len(a) + Len(b) - 1) : Tail(a \o b)[i] = (a \o b)[i + 1]
  BY <1>2, <1>3, HeadTailProperties
<1>6. /\ Tail(a) \o b \in Seq(S) /\ Len(Tail(a) \o b) = Len(a) - 1 + Len(b)
      /\ \A i \in 1..(Len(a) - 1 + Len(b)) :
           (Tail(a) \o b)[i] = IF i <= Len(a) - 1 THEN Tail(a)[i] ELSE b[i - (Len(a) - 1)]
  BY <1>4, ConcatProperties
<1> DEFINE x == Tail(a) \o b
           y == Tail(a \o b)
<1>7. \A i \in 1..Len(x) : x[i] = y[i]
  <2> SUFFICES ASSUME NEW i \in 1..Len(x) PROVE x[i] = y[i]
    OBVIOUS
  <2>1. i \in 1..(Len(a) + Len(b) - 1) /\ i + 1 \in 1..(Len(a) + Len(b))
    BY <1>1, <1>6
  <2>2. CASE i <= Len(a) - 1
    BY <1>1, <1>2, <1>4, <1>5, <1>6, <2>1, <2>2
  <2>3. CASE ~(i <= Len(a) - 1)
    <3>1. i - (Len(a) - 1) = i + 1 - Len(a) /\ ~(i + 1 <= Len(a))
      BY <1>1, <2>1, <2>3
    <3> QED BY <1>1, <1>2, <1>5, <1>6, <2>1, <2>3, <3>1
  <2> QED BY <2>2, <2>3
<1>8. x = y
  <2>1. x \in Seq(S) /\ y \in Seq(S) /\ Len(x) = Len(y)
    BY <1>1, <1>5, <1>6
  <2> HIDE DEF x, y
  <2> QED BY <1>7, <2>1, SeqEqual
<1> QED BY <1>3, <1>4, <1>8

\* Moving the first element of the second sequence to the end of the first.
LEMMA ConcatMove ==
    ASSUME NEW S, NEW a \in Seq(S), NEW b \in Seq(S), b # <<>>
    PROVE  /\ Append(a, Head(b)) \o Tail(b) = a \o b
           /\ Len(a) + 1 \in 1..Len(a \o b)
           /\ (a \o b)[Len(a) + 1] = Head(b)
           /\ Append(a, Head(b)) \in Seq(S) /\ Tail(b) \in Seq(S) /\ Head(b) \in S
<1>1. Head(b) \in S /\ Tail(b) \in Seq(S)
  BY HeadTailProperties
<1>2. Append(a, Head(b)) = a \o <<Head(b)>> /\ <<Head(b)>> \in Seq(S)
  BY <1>1, AppendIsConcat
<1>3. b = <<Head(b)>> \o Tail(b)
  <2>1. Len(b) \in Nat \ {0}
    BY EmptySeq
  <2>2. 1 \in 1..Len(b) /\ Len(b) \in 1..Len(b)
    BY <2>1
  <2>3. SubSeq(b, 1, Len(b)) = <<b[1]>> \o SubSeq(b, 2, Len(b))
    BY <2>2, SubSeqRecursiveFirst
  <2> QED BY <2>3, SubSeqFull, TailIsSubSeq
<1> DEFINE h == <<Head(b)>>
           t == Tail(b)
<1>4. (a \o h) \o t = a \o (h \o t)
  <2>1. h \in Seq(S) /\ t \in Seq(S)
    BY <1>1, <1>2
  <2> HIDE DEF h, t
  <2> QED BY <2>1, ConcatAssociative
<1>5. Len(b) \in Nat \ {0} /\ Len(a) \in Nat
  BY EmptySeq, LenProperties
<1>6. (a \o b)[Len(a) + 1] = b[1] /\ Len(a \o b) = Len(a) + Len(b)
  <2>1. Len(a) + 1 \in 1..(Len(a) + Len(b)) /\ ~(Len(a) + 1 <= Len(a)) /\ Len(a) + 1 - Len(a) = 1
    BY <1>5
  <2> QED BY <2>1, ConcatProperties
<1>7. Append(a, Head(b)) \in Seq(S)
  BY <1>1, AppendProperties
<1>8. b[1] = Head(b)
  OBVIOUS
<1> QED BY <1>1, <1>2, <1>3, <1>4, <1>5, <1>6, <1>7, <1>8

\* In a queue in the order of its ids, reading on from the last batch of a
\* prefix gives the rest.
LEMMA RestOfQueue ==
    ASSUME NEW q \in Seq(Batch), Ascending(q), NEW n \in 0..Len(q)
    PROVE  FirstAfter(q, LastIdOf(SubSeq(q, 1, n))) = n + 1
<1> DEFINE id == LastIdOf(SubSeq(q, 1, n))
<1>1. \A i \in 1..Len(q) : q[i].id \in Nat \ {0}
  <2>1. \A b \in Batch : b.id \in Nat \ {0}
    BY DEF Batch
  <2> QED BY <2>1, ElementOfSeq
<1>2. id = IF n = 0 THEN 0 ELSE q[n].id
  <2>1. Len(SubSeq(q, 1, n)) = n /\ (n > 0 => SubSeq(q, 1, n)[n] = q[n])
    OBVIOUS
  <2>2. SubSeq(q, 1, n) = <<>> <=> n = 0
    BY <2>1
  <2> QED BY <2>1, <2>2 DEF LastIdOf, kBatchIdUnknown
<1>3. \A i \in 1..Len(q) : q[i].id <= id <=> i <= n
  <2> SUFFICES ASSUME NEW i \in 1..Len(q) PROVE q[i].id <= id <=> i <= n
    OBVIOUS
  <2>1. CASE n = 0
    BY <1>1, <1>2, <2>1
  <2>2. CASE n > 0
    <3>1. id = q[n].id /\ id \in Nat /\ q[i].id \in Nat
      BY <1>1, <1>2, <2>2
    <3>2. i < n => q[i].id < q[n].id
      BY DEF Ascending
    <3>3. n < i => q[n].id < q[i].id
      BY <2>2 DEF Ascending
    <3> HIDE DEF id
    <3> QED BY <3>1, <3>2, <3>3
  <2> QED BY <2>1, <2>2
<1> DEFINE P(i) == /\ \A j \in 1..(i - 1) : q[j].id <= id
                   /\ i <= Len(q) => q[i].id > id
<1>4. n + 1 \in 1..(Len(q) + 1) /\ P(n + 1)
  <2>1. \A j \in 1..n : q[j].id <= id
    BY <1>3
  <2>2. n + 1 <= Len(q) => q[n + 1].id > id
    BY <1>1, <1>2, <1>3
  <2> QED BY <2>1, <2>2
<1>5. \A i \in 1..(Len(q) + 1) : P(i) => i = n + 1
  <2> SUFFICES ASSUME NEW i \in 1..(Len(q) + 1), P(i) PROVE i = n + 1
    OBVIOUS
  <2>1. ~(i <= n)
    BY <1>1, <1>2, <1>3
  <2>2. ~(n + 1 < i)
    BY <1>3
  <2> QED BY <2>1, <2>2
<1>6. FirstAfter(q, id) = CHOOSE i \in 1..(Len(q) + 1) : P(i)
  BY DEF FirstAfter
<1> HIDE DEF P
<1> QED BY <1>4, <1>5, <1>6

-----------------------------------------------------------------------------
(* The stream. *)

\* Starting a stream that is not started: no assertion fails, and it is not
\* open yet.
LEMMA StartOK ==
    ASSUME NEW s, StreamOK(s), ~IsStarted(s)
    PROVE  /\ StreamOK(Start(s))
           /\ IsStarted(Start(s)) /\ ~IsOpen(Start(s))
<1>1. s.state \in {"Initial", "Error"}
  BY DEF StreamOK, StreamType, States, IsStarted, IsOpen
<1> DEFINE t == Start(s)
<1>2. CASE s.state = "Error"
  <2>1. t = [s EXCEPT !.state = "Backoff", !.timers = @ \cup {"backoff"}]
    BY <1>2 DEF Start, BackoffAndTryRestarting
  <2>2. t \in StreamType(Message, Message)
    BY ZenonT(60), <2>1 DEF StreamOK, StreamType, States, Timers
  <2>3. /\ t.state = "Backoff" /\ t.timers = s.timers \cup {"backoff"}
        /\ t.tokens = s.tokens /\ t.call = s.call /\ t.ok = s.ok
        /\ t.in = s.in /\ t.out = s.out /\ t.end = s.end
    BY <2>1 DEF StreamOK, StreamType
  <2> HIDE DEF t
  <2>4. IsStarted(t) /\ ~IsOpen(t) /\ ~IsOpen(s)
    BY <1>2, <2>3 DEF IsStarted, IsOpen
  <2>5. StreamOK(t)
    BY <1>2, <2>2, <2>3, <2>4 DEF StreamOK
  <2> QED BY <2>4, <2>5 DEF t
<1>3. CASE s.state = "Initial"
  <2>1. t = [s EXCEPT !.ok = s.ok /\ TRUE, !.state = "Starting",
                      !.tokens = @ \cup {"current"}]
    BY <1>3 DEF Start, RequestCredentials, HardAssert, StreamOK, StreamType
  <2>2. t \in StreamType(Message, Message)
    BY ZenonT(60), <2>1 DEF StreamOK, StreamType, States
  <2>3. /\ t.state = "Starting" /\ t.tokens = s.tokens \cup {"current"}
        /\ t.timers = s.timers /\ t.call = s.call /\ t.ok
        /\ t.in = s.in /\ t.out = s.out /\ t.end = s.end
    BY <2>1 DEF StreamOK, StreamType
  <2> HIDE DEF t
  <2>4. IsStarted(t) /\ ~IsOpen(t) /\ ~IsOpen(s)
    BY <1>3, <2>3 DEF IsStarted, IsOpen
  <2>5. StreamOK(t)
    BY <1>3, <2>2, <2>3, <2>4 DEF StreamOK
  <2> QED BY <2>4, <2>5 DEF t
<1> QED BY <1>1, <1>2, <1>3

\* Closing a started stream: no assertion fails, and nothing is on its way.
LEMMA CloseOK ==
    ASSUME NEW s, StreamOK(s), IsStarted(s), NEW status
    PROVE  LET t == Close(s, status)
           IN  /\ StreamOK(t) /\ ~IsStarted(t) /\ ~IsOpen(t)
               /\ t.timers = {} /\ t.end = NoEnd
<1> DEFINE t == Close(s, status)
<1>1. t = [s EXCEPT !.ok = s.ok /\ TRUE, !.timers = {},
                    !.tokens = IF @ = {} THEN {} ELSE {"stale"},
                    !.call = FALSE, !.out = <<>>, !.in = <<>>, !.end = NoEnd,
                    !.state = IF status = "ok" THEN "Initial" ELSE "Error"]
  BY DEF Close, HardAssert, StreamOK, StreamType
<1>2. t.ok /\ t.state \in {"Initial", "Error"} /\ t.timers = {}
  BY <1>1 DEF StreamOK, StreamType
<1>3. t.tokens \subseteq {"stale"} /\ t.call = FALSE /\ t.out = <<>> /\ t.in = <<>> /\ t.end = NoEnd
  BY <1>1 DEF StreamOK, StreamType
<1>4. t \in StreamType(Message, Message)
  <2>1. /\ <<>> \in Seq(Message) /\ {} \in SUBSET Timers
        /\ (IF status = "ok" THEN "Initial" ELSE "Error") \in States
        /\ (IF s.tokens = {} THEN {} ELSE {"stale"}) \in SUBSET {"current", "stale"}
    BY DEF States
  <2> QED BY ZenonT(60), <1>1, <2>1 DEF StreamOK, StreamType
<1> HIDE DEF t
<1>5. ~IsStarted(t) /\ ~IsOpen(t)
  BY <1>2 DEF IsStarted, IsOpen
<1>6. StreamOK(t)
  BY <1>2, <1>3, <1>4, <1>5 DEF StreamOK
<1> QED BY <1>2, <1>3, <1>5, <1>6 DEF t

\* Skipping the backoff of a stream that is not started.
LEMMA InhibitOK ==
    ASSUME NEW s, StreamOK(s), ~IsStarted(s)
    PROVE  StreamOK(InhibitBackoff(s)) /\ ~IsStarted(InhibitBackoff(s))
<1> DEFINE t == InhibitBackoff(s)
<1>1. t = [s EXCEPT !.ok = s.ok /\ TRUE, !.state = "Initial"]
  BY DEF InhibitBackoff, HardAssert, StreamOK, StreamType
<1>2. t.ok /\ t.state = "Initial" /\ t \in StreamType(Message, Message)
  BY <1>1 DEF StreamOK, StreamType, States
<1> QED BY <1>1, <1>2 DEF StreamOK, IsStarted, IsOpen

-----------------------------------------------------------------------------
(* RemoteStore. *)

\* Replacing the stream of a record.
LEMMA WithStream ==
    ASSUME NEW r \in StoreType, NEW s \in StreamType(Message, Message)
    PROVE  LET t == [r EXCEPT !.ws = s]
           IN  /\ t \in StoreType /\ t.ws = s /\ t.up = r.up
               /\ t.pipeline = r.pipeline /\ t.handshake = r.handshake
  BY DEF StoreType

\* StartWriteStreamIfNeeded keeps StoreOK, and opens nothing.
LEMMA StartIfNeededOK ==
    ASSUME NEW r, NEW q, NEW done, NEW denied, StoreOK(r, q, done, denied)
    PROVE  LET t == StartWriteStreamIfNeeded(r)
           IN  /\ StoreOK(t, q, done, denied)
               /\ t.handshake = r.handshake /\ t.ws.in = r.ws.in
               /\ IsOpen(t.ws) <=> IsOpen(r.ws)
<1> DEFINE t == StartWriteStreamIfNeeded(r)
<1>1. CASE ~ShouldStartWriteStream(r)
  BY <1>1 DEF StartWriteStreamIfNeeded
<1>2. CASE ShouldStartWriteStream(r)
  <2>1. r.up /\ ~IsStarted(r.ws) /\ r.pipeline # <<>> /\ t = [r EXCEPT !.ws = Start(r.ws)]
    BY <1>2 DEF ShouldStartWriteStream, StartWriteStreamIfNeeded
  <2>2. StreamOK(Start(r.ws)) /\ IsStarted(Start(r.ws)) /\ ~IsOpen(Start(r.ws))
    BY <2>1, StartOK DEF StoreOK
  <2>3. /\ t \in StoreType /\ t.ws = Start(r.ws) /\ t.up = r.up
        /\ t.pipeline = r.pipeline /\ t.handshake = r.handshake
    <3>1. r \in StoreType /\ Start(r.ws) \in StreamType(Message, Message)
      BY <2>2 DEF StoreOK, StreamOK
    <3> HIDE DEF t
    <3> QED BY <2>1, <3>1 DEF StoreType
  <2>4. StreamNeeded(t)
    BY <2>1, <2>2, <2>3 DEF StreamNeeded, StreamOK
  <2>5. InFlight(t, done, denied)
    BY <2>2, <2>3 DEF InFlight, StreamOK, Flowing
  <2>6. ~IsOpen(r.ws)
    BY <2>1 DEF IsStarted
  <2>7. t.ws.in = r.ws.in
    BY <2>2, <2>3, <2>6 DEF StoreOK, StreamOK
  <2> QED BY <2>2, <2>3, <2>4, <2>5, <2>6, <2>7 DEF StoreOK
<1> QED BY <1>1, <1>2

\* Marking the stream idle when there is nothing to send.
LEMMA MarkIdleOK ==
    ASSUME NEW r, NEW q, NEW done, NEW denied, StoreOK(r, q, done, denied),
           r.pipeline = <<>>
    PROVE  LET t == [r EXCEPT !.ws = MarkIdle(@)]
           IN  /\ StoreOK(t, q, done, denied)
               /\ t.handshake = r.handshake /\ t.ws.in = r.ws.in
               /\ IsOpen(t.ws) <=> IsOpen(r.ws)
<1> DEFINE t == [r EXCEPT !.ws = MarkIdle(@)]
<1>1. CASE ~IsOpen(r.ws)
  <2>1. MarkIdle(r.ws) = r.ws
    BY <1>1 DEF MarkIdle
  <2>2. t = r
    BY <2>1 DEF StoreOK, StoreType
  <2> QED BY <2>2
<1>2. CASE IsOpen(r.ws)
  <2> DEFINE s == [r.ws EXCEPT !.timers = @ \cup {"idle"}]
  <2>1. MarkIdle(r.ws) = s
    BY <1>2 DEF MarkIdle
  <2>2. StreamOK(s) /\ IsOpen(s) /\ s.in = r.ws.in /\ s.out = r.ws.out /\ s.end = r.ws.end
    BY <1>2 DEF StoreOK, StreamOK, StreamType, Timers, IsOpen
  <2>3. /\ t \in StoreType /\ t.ws = s /\ t.up = r.up
        /\ t.pipeline = r.pipeline /\ t.handshake = r.handshake
    BY <2>1, <2>2, WithStream DEF StoreOK, StreamOK, StoreType
  <2>4. Flowing(r)
    BY <1>2 DEF StoreOK, StreamNeeded, IsStarted
  <2> HIDE DEF s
  <2>5. Flowing(t) /\ IsStarted(t.ws) /\ IsStarted(r.ws)
    BY <1>2, <2>2, <2>3, <2>4 DEF Flowing, IsStarted
  <2>6. StreamNeeded(t)
    BY <2>3, <2>4, <2>5 DEF StoreOK, StreamNeeded, Flowing
  <2>7. InFlight(t, done, denied)
    BY <1>2, <2>2, <2>3, <2>4, <2>5 DEF StoreOK, InFlight
  <2> QED BY <1>2, <2>2, <2>3, <2>6, <2>7 DEF StoreOK
<1> QED BY <1>1, <1>2

\* Sending batches on an open stream after the handshake.
LEMMA SendOK ==
    ASSUME NEW r \in StoreType, StreamOK(r.ws), Flowing(r), NEW batches \in Seq(Batch)
    PROVE  LET t == WriteMutations(r, batches)
           IN  /\ t \in StoreType /\ StreamOK(t.ws) /\ IsOpen(t.ws)
               /\ t.up = r.up /\ t.pipeline = r.pipeline /\ t.handshake = r.handshake
               /\ t.ws.out = r.ws.out \o batches
               /\ t.ws.in = r.ws.in /\ t.ws.end = r.ws.end
               /\ t.ws.timers \subseteq r.ws.timers
               /\ batches # <<>> => "idle" \notin t.ws.timers
<1> DEFINE ws == HardAssert(Send(r.ws, batches), batches = <<>> \/ r.handshake)
           t == WriteMutations(r, batches)
<1>0. batches \in Seq(Message) /\ r.ws \in StreamType(Message, Message)
  <2>1. Batch \subseteq Message
    BY DEF Message
  <2> QED BY <2>1, SeqMonotonic DEF StoreType
<1>1. CASE batches = <<>>
  <2>1. r.ws.out \o batches = r.ws.out
    BY <1>0, <1>1, ConcatEmptySeq DEF StreamType
  <2>2. ws = r.ws
    BY <1>0, <1>1 DEF HardAssert, Send, StreamOK, StreamType
  <2>3. t = r
    BY <2>2 DEF WriteMutations, StoreType
  <2> QED BY <1>1, <2>1, <2>3 DEF Flowing
<1>2. CASE batches # <<>>
  <2>1. ws = [r.ws EXCEPT !.ok = r.ws.ok /\ TRUE, !.out = r.ws.out \o batches,
                          !.timers = @ \ {"idle"}]
    BY <1>0, <1>2 DEF HardAssert, Send, StreamOK, StreamType, Flowing
  <2>2. r.ws.out \o batches \in Seq(Message)
    BY <1>0, ConcatProperties DEF StreamType
  <2>3. ws \in StreamType(Message, Message)
    BY ZenonT(60), <1>0, <2>1, <2>2 DEF StreamType
  <2>4. /\ ws.state = r.ws.state /\ ws.tokens = r.ws.tokens /\ ws.call = r.ws.call
        /\ ws.out = r.ws.out \o batches /\ ws.in = r.ws.in /\ ws.end = r.ws.end
        /\ ws.timers = r.ws.timers \ {"idle"} /\ ws.ok
    BY <1>0, <2>1 DEF StreamOK, StreamType
  <2>5. t = [r EXCEPT !.ws = ws]
    BY DEF WriteMutations
  <2> HIDE DEF ws
  <2>6. IsOpen(ws) /\ StreamOK(ws)
    BY <2>3, <2>4 DEF StreamOK, Flowing, IsOpen
  <2>7. /\ t \in StoreType /\ t.ws = ws
        /\ t.up = r.up /\ t.pipeline = r.pipeline /\ t.handshake = r.handshake
    <3> HIDE DEF t
    <3> QED BY <2>3, <2>5 DEF StoreType
  <2> QED BY <2>4, <2>6, <2>7
<1> QED BY <1>1, <1>2

\* Adding the next batches of the queue to the pipeline.
LEMMA AddOK ==
    ASSUME NEW r, NEW q \in Seq(Batch), NEW done, NEW denied, StoreOK(r, q, done, denied),
           NEW n \in Len(r.pipeline)..Len(q), n <= kMaxPendingWrites,
           ~r.up => n = Len(r.pipeline)
    PROVE  LET t == AddToWritePipeline(r, SubSeq(q, Len(r.pipeline) + 1, n))
           IN  /\ StoreOK(t, q, done, denied)
               /\ t.handshake = r.handshake /\ t.ws.in = r.ws.in
               /\ IsOpen(t.ws) <=> IsOpen(r.ws)
<1> DEFINE m == Len(r.pipeline)
           batches == SubSeq(q, m + 1, n)
           s == [r EXCEPT !.pipeline = @ \o batches]
           t == AddToWritePipeline(r, batches)
<1>0. r \in StoreType /\ r.pipeline \in Seq(Batch) /\ m \in Nat /\ m <= Len(q)
  BY DEF StoreOK, StoreType, PrefixOf
<1>1. batches \in Seq(Batch) /\ (batches = <<>> <=> n = m) /\ Len(batches) = n - m
  <2>1. m \in 0..Len(q) /\ n \in m..Len(q)
    BY <1>0
  <2> HIDE DEF m
  <2> QED BY <2>1, Slice
<1>2. r.pipeline \o batches = SubSeq(q, 1, n)
  <2>1. r.pipeline = SubSeq(q, 1, m)
    BY DEF StoreOK, PrefixOf
  <2>2. 1 \in 1..(Len(q) + 1) /\ m \in 0..Len(q) /\ n \in m..Len(q)
    BY <1>0
  <2> HIDE DEF m
  <2>3. SubSeq(q, 1, m) \o SubSeq(q, m + 1, n) = SubSeq(q, 1, n)
    BY <2>2, ConcatAdjacentSubSeq
  <2> QED BY <2>1, <2>3
<1>3. /\ SubSeq(q, 1, n) \in Seq(Batch) /\ Len(SubSeq(q, 1, n)) = n
      /\ SubSeq(q, 1, n) = <<>> <=> n = 0
  BY <1>0
<1>4. /\ s \in StoreType /\ s.up = r.up /\ s.handshake = r.handshake /\ s.ws = r.ws
      /\ s.pipeline = SubSeq(q, 1, n)
  BY <1>0, <1>2, <1>3 DEF StoreType
<1>5. StreamOK(s.ws) /\ (Flowing(s) <=> Flowing(r))
  BY <1>4 DEF StoreOK, Flowing
<1>6. ~s.up => s.pipeline = <<>>
  BY <1>0, <1>3, <1>4 DEF StoreOK, StreamNeeded
<1>7. r.pipeline # <<>> => s.pipeline # <<>>
  BY <1>0, <1>3, <1>4
<1>8. CASE ~Flowing(r)
  <2>1. t = s
    BY <1>8 DEF AddToWritePipeline, Flowing
  <2>2. StreamNeeded(s)
    BY <1>4, <1>5, <1>6, <1>7, <1>8 DEF StoreOK, StreamNeeded, StreamOK, Flowing
  <2>3. InFlight(s, done, denied)
    BY <1>4, <1>5, <1>8 DEF StoreOK, InFlight, Flowing
  <2>4. PrefixOf(s.pipeline, q)
    BY <1>0, <1>3, <1>4 DEF PrefixOf
  <2> HIDE DEF s, t
  <2> QED BY <1>4, <1>5, <2>1, <2>2, <2>3, <2>4 DEF StoreOK, t
<1>9. CASE Flowing(r)
  <2>1. t = WriteMutations(s, batches)
    BY <1>9 DEF AddToWritePipeline, Flowing
  <2> HIDE DEF s, t, batches
  <2>2. /\ t \in StoreType /\ StreamOK(t.ws) /\ IsOpen(t.ws)
        /\ t.up = s.up /\ t.pipeline = s.pipeline /\ t.handshake = s.handshake
        /\ t.ws.out = s.ws.out \o batches
        /\ t.ws.in = s.ws.in /\ t.ws.end = s.ws.end
        /\ t.ws.timers \subseteq s.ws.timers
        /\ batches # <<>> => "idle" \notin t.ws.timers
    BY <1>1, <1>4, <1>5, <1>9, <2>1, SendOK
  <2>3. Flowing(t) /\ IsStarted(t.ws) /\ IsStarted(r.ws) /\ IsOpen(r.ws)
    BY <1>4, <1>9, <2>2 DEF Flowing, IsStarted
  <2>4. StreamNeeded(t)
    <3>1. CASE batches = <<>>
      <4>1. s.pipeline = r.pipeline
        BY <1>0, <1>1, <1>4, <3>1 DEF StoreOK, PrefixOf
      <4> QED BY <1>4, <1>6, <2>2, <2>3, <4>1 DEF StoreOK, StreamNeeded, Flowing
    <3>2. CASE batches # <<>>
      BY <1>4, <1>6, <2>2, <2>3, <3>2 DEF StoreOK, StreamNeeded, Flowing
    <3> QED BY <3>1, <3>2
  <2>5. t.ws.in \o t.ws.out = t.pipeline
    <3>1. r.ws.in \o r.ws.out = r.pipeline
      BY <1>9 DEF StoreOK, InFlight, Flowing
    <3>2. r.ws.in \in Seq(Message) /\ r.ws.out \in Seq(Message) /\ batches \in Seq(Message)
      <4>1. Batch \subseteq Message
        BY DEF Message
      <4> QED BY <1>0, <1>1, <4>1, SeqMonotonic DEF StoreType, StreamType
    <3>3. r.ws.in \o (r.ws.out \o batches) = (r.ws.in \o r.ws.out) \o batches
      <4> DEFINE a == r.ws.in
                 b == r.ws.out
      <4>1. a \in Seq(Message) /\ b \in Seq(Message) /\ batches \in Seq(Message)
        BY <3>2
      <4> HIDE DEF a, b
      <4>2. a \o (b \o batches) = (a \o b) \o batches
        BY <4>1, Concat3
      <4> QED BY <4>2 DEF a, b
    <3> QED BY <1>2, <1>4, <2>2, <3>1, <3>3 DEF batches
  <2>6. t.ws.end # NoEnd => t.ws.out # <<>> /\ Head(t.ws.out) = Head(r.ws.out)
    <3> SUFFICES ASSUME t.ws.end # NoEnd
                 PROVE  t.ws.out # <<>> /\ Head(t.ws.out) = Head(r.ws.out)
      OBVIOUS
    <3>1. r.ws.out # <<>>
      BY <1>4, <2>2 DEF StoreOK, InFlight
    <3>2. r.ws.out \in Seq(Message) /\ batches \in Seq(Message)
      <4>1. Batch \subseteq Message
        BY DEF Message
      <4> QED BY <1>0, <1>1, <4>1, SeqMonotonic DEF StoreType, StreamType
    <3>3. Len(r.ws.out) >= 1 /\ Len(r.ws.out) \in Nat
      BY <3>1, <3>2
    <3>4. t.ws.out = r.ws.out \o batches
      BY <1>4, <2>2
    <3>5. Len(t.ws.out) >= 1 /\ t.ws.out[1] = r.ws.out[1] /\ t.ws.out \in Seq(Message)
      BY <3>2, <3>3, <3>4, ConcatProperties
    <3> QED BY <3>1, <3>2, <3>5
  <2>7. InFlight(t, done, denied)
    BY <1>4, <1>9, <2>2, <2>3, <2>5, <2>6 DEF StoreOK, InFlight, Flowing
  <2>8. PrefixOf(t.pipeline, q)
    BY <1>0, <1>3, <1>4, <2>2 DEF PrefixOf
  <2> QED BY <1>4, <2>2, <2>3, <2>4, <2>7, <2>8 DEF StoreOK, batches, t
<1> QED BY <1>8, <1>9

\* A prefix of a slice is a slice.
LEMMA SliceOfSlice ==
    ASSUME NEW S, NEW q \in Seq(S), NEW m \in 0..Len(q), NEW k \in 0..(Len(q) - m)
    PROVE  SubSeq(SubSeq(q, m + 1, Len(q)), 1, k) = SubSeq(q, m + 1, m + k)
<1> DEFINE rest == SubSeq(q, m + 1, Len(q))
           a == SubSeq(rest, 1, k)
           b == SubSeq(q, m + 1, m + k)
<1>0. Len(q) \in Nat /\ m + k \in m..Len(q) /\ Len(q) \in m..Len(q)
  BY LenProperties
<1>1. /\ rest \in Seq(S) /\ Len(rest) = Len(q) - m
      /\ b \in Seq(S) /\ Len(b) = k
  BY <1>0, Slice
<1>2. \A i \in 1..(Len(q) - m) : rest[i] = q[m + i]
  BY <1>0
<1>3. \A i \in 1..k : b[i] = q[m + i]
  BY <1>0
<1> HIDE DEF rest, b
<1>4. a \in Seq(S) /\ Len(a) = k /\ \A i \in 1..k : a[i] = rest[i]
  BY <1>0, <1>1
<1> HIDE DEF a
<1>5. \A i \in 1..Len(a) : a[i] = b[i]
  BY <1>0, <1>2, <1>3, <1>4
<1>6. a = b
  BY <1>1, <1>4, <1>5, SeqEqual
<1> QED BY <1>6 DEF a, b, rest

\* FillWritePipeline keeps StoreOK: it reads on where the pipeline ends.
LEMMA FillOK ==
    ASSUME NEW r, NEW q \in Seq(Batch), Ascending(q), NEW done, NEW denied,
           StoreOK(r, q, done, denied)
    PROVE  LET t == FillWritePipeline(r, q)
           IN  /\ StoreOK(t, q, done, denied)
               /\ t.handshake = r.handshake /\ t.ws.in = r.ws.in
               /\ IsOpen(t.ws) <=> IsOpen(r.ws)
<1> DEFINE m == Len(r.pipeline)
           room == IF r.up THEN kMaxPendingWrites - m ELSE 0
           rest == NextMutationBatchesAfter(q, LastIdOf(r.pipeline))
           k == Min({room, Len(rest)})
           filled == AddToWritePipeline(r, SubSeq(rest, 1, k))
           idled == IF r.up /\ filled.pipeline = <<>>
                    THEN [filled EXCEPT !.ws = MarkIdle(@)] ELSE filled
<1>0. /\ m \in 0..Len(q) /\ r.pipeline = SubSeq(q, 1, m) /\ Len(q) \in Nat
      /\ m <= kMaxPendingWrites /\ kMaxPendingWrites \in Nat
  <2>1. Len(q) \in Nat /\ kMaxPendingWrites \in Nat
    BY LenProperties, WritePipelineAssumption
  <2>2. r.pipeline \in Seq(Batch)
    BY DEF StoreOK, StoreType
  <2> QED BY <2>1, <2>2, LenProperties DEF StoreOK, PrefixOf
<1>1. rest = SubSeq(q, m + 1, Len(q))
  <2> HIDE DEF m
  <2> QED BY <1>0, RestOfQueue DEF NextMutationBatchesAfter
<1>2. Len(rest) = Len(q) - m
  <2>1. Len(q) \in m..Len(q)
    BY <1>0
  <2> HIDE DEF m, rest
  <2> QED BY <1>0, <1>1, <2>1, Slice
<1> HIDE DEF rest
<1>3. room \in Nat /\ k = IF room <= Len(rest) THEN room ELSE Len(rest)
  <2>1. room \in Nat /\ Len(rest) \in Nat
    BY <1>0, <1>2
  <2> HIDE DEF room
  <2> QED BY <2>1, MinOfTwo
<1>4. k \in 0..(Len(q) - m) /\ m + k <= kMaxPendingWrites /\ (~r.up => k = 0)
  <2>1. r.up => room = kMaxPendingWrites - m
    OBVIOUS
  <2>2. ~r.up => room = 0
    OBVIOUS
  <2> HIDE DEF k, room, m
  <2> QED BY <1>0, <1>2, <1>3, <2>1, <2>2
<1> HIDE DEF room, k
<1>5. SubSeq(rest, 1, k) = SubSeq(q, m + 1, m + k)
  <2> HIDE DEF m
  <2> QED BY <1>0, <1>1, <1>4, SliceOfSlice
<1>6. /\ StoreOK(filled, q, done, denied) /\ filled.handshake = r.handshake
      /\ filled.ws.in = r.ws.in
      /\ IsOpen(filled.ws) <=> IsOpen(r.ws)
  <2> DEFINE n == m + k
  <2>1. n \in Len(r.pipeline)..Len(q) /\ n <= kMaxPendingWrites /\ (~r.up => n = Len(r.pipeline))
    BY <1>0, <1>4
  <2>2. filled = AddToWritePipeline(r, SubSeq(q, Len(r.pipeline) + 1, n))
    BY <1>5
  <2> HIDE DEF n, filled
  <2> QED BY <2>1, <2>2, AddOK
<1>7. /\ StoreOK(idled, q, done, denied) /\ idled.handshake = r.handshake
      /\ idled.ws.in = r.ws.in
      /\ IsOpen(idled.ws) <=> IsOpen(r.ws)
  <2>1. CASE r.up /\ filled.pipeline = <<>>
    <3> DEFINE f == [filled EXCEPT !.ws = MarkIdle(@)]
    <3>1. idled = f
      BY <2>1
    <3> HIDE DEF filled, idled
    <3>2. /\ StoreOK(f, q, done, denied) /\ f.handshake = filled.handshake
          /\ f.ws.in = filled.ws.in
          /\ IsOpen(f.ws) <=> IsOpen(filled.ws)
      BY <1>6, <2>1, MarkIdleOK
    <3> QED BY <1>6, <3>1, <3>2
  <2>2. CASE ~(r.up /\ filled.pipeline = <<>>)
    <3>1. idled = filled
      BY <2>2
    <3> HIDE DEF filled, idled
    <3> QED BY <1>6, <3>1
  <2> QED BY <2>1, <2>2
<1>8. FillWritePipeline(r, q) = StartWriteStreamIfNeeded(idled)
  BY DEF FillWritePipeline, room, k, rest
<1> HIDE DEF idled
<1> QED BY <1>7, <1>8, StartIfNeededOK

\* While the stream is not started, nothing is asked of the connection.
LEMMA Stopped ==
    ASSUME NEW r \in StoreType, NEW q, NEW done, NEW denied,
           StreamOK(r.ws), ~IsStarted(r.ws), PrefixOf(r.pipeline, q),
           ~r.up => r.pipeline = <<>>
    PROVE  StoreOK(r, q, done, denied)
<1>1. ~IsOpen(r.ws)
  BY DEF IsStarted
<1>2. StreamNeeded(r)
  BY <1>1 DEF StreamNeeded, StreamOK
<1>3. InFlight(r, done, denied)
  BY <1>1 DEF InFlight, Flowing, StreamOK
<1> QED BY <1>2, <1>3 DEF StoreOK

\* An empty pipeline is a prefix of any queue.
LEMMA EmptyPrefix ==
    ASSUME NEW q \in Seq(Batch)
    PROVE  PrefixOf(<<>>, q)
<1>1. Len(q) \in Nat /\ kMaxPendingWrites \in Nat /\ Len(<<>>) = 0
  BY LenProperties, WritePipelineAssumption
<1>2. SubSeq(q, 1, 0) = <<>>
  BY SubSeqEmpty
<1> QED BY <1>1, <1>2 DEF PrefixOf

\* Closing the stream, before anybody is told.
LEMMA ClosedOK ==
    ASSUME NEW r, NEW q, NEW done, NEW denied, StoreOK(r, q, done, denied),
           IsStarted(r.ws), NEW status
    PROVE  LET t == [r EXCEPT !.ws = Close(@, status)]
           IN  /\ StoreOK(t, q, done, denied)
               /\ ~IsStarted(t.ws) /\ ~IsOpen(t.ws)
               /\ t.up = r.up /\ t.pipeline = r.pipeline /\ t.handshake = r.handshake
<1> DEFINE ws == Close(r.ws, status)
           t == [r EXCEPT !.ws = ws]
<1>1. StreamOK(ws) /\ ~IsStarted(ws) /\ ~IsOpen(ws)
  BY CloseOK DEF StoreOK
<1> HIDE DEF ws
<1>2. /\ t \in StoreType /\ t.ws = ws
      /\ t.up = r.up /\ t.pipeline = r.pipeline /\ t.handshake = r.handshake
  BY <1>1 DEF StoreOK, StoreType, StreamOK
<1> HIDE DEF t
<1>3. StoreOK(t, q, done, denied)
  BY <1>1, <1>2, Stopped DEF StoreOK, StreamNeeded
<1> QED BY <1>1, <1>2, <1>3 DEF t, ws

\* NotifyStreamClose: the stream is started again if it is needed, and the
\* handshake is forgotten.
LEMMA AfterCloseOK ==
    ASSUME NEW r, NEW q, NEW done, NEW denied, StoreOK(r, q, done, denied),
           ~IsOpen(r.ws)
    PROVE  LET t == AfterClose(r)
           IN  StoreOK(t, q, done, denied) /\ ~t.handshake /\ ~IsOpen(t.ws)
<1> DEFINE s == StartWriteStreamIfNeeded(r)
           t == [s EXCEPT !.handshake = FALSE]
<1>1. StoreOK(s, q, done, denied) /\ ~IsOpen(s.ws)
  BY StartIfNeededOK
<1> HIDE DEF s
<1>2. /\ t \in StoreType /\ t.ws = s.ws /\ t.up = s.up
      /\ t.pipeline = s.pipeline /\ t.handshake = FALSE
  BY <1>1 DEF StoreOK, StoreType
<1> HIDE DEF t
<1>3. ~Flowing(t) /\ ~Flowing(s)
  BY <1>1, <1>2 DEF Flowing
<1>4. StreamNeeded(t)
  BY <1>1, <1>2, <1>3 DEF StoreOK, StreamNeeded, StreamOK
<1>5. InFlight(t, done, denied)
  BY <1>1, <1>2, <1>3 DEF StoreOK, InFlight
<1>6. StoreOK(t, q, done, denied)
  BY <1>1, <1>2, <1>4, <1>5 DEF StoreOK
<1>7. AfterClose(r) = t
  BY DEF AfterClose, t, s
<1> QED BY <1>1, <1>2, <1>6, <1>7

\* Stopping a stream that is started where it will not be wanted again: the
\* assertion of OnWriteStreamClose holds.
LEMMA StopIs ==
    ASSUME NEW r \in StoreType, StreamOK(r.ws), IsStarted(r.ws),
           ~r.up \/ r.pipeline = <<>>
    PROVE  LET t == StopWriteStream(r)
           IN  /\ t \in StoreType /\ t.ws = Close(r.ws, "ok") /\ t.handshake = FALSE
               /\ t.up = r.up /\ t.pipeline = r.pipeline
<1> DEFINE ws == Close(r.ws, "ok")
           s == [r EXCEPT !.ws = ws]
           a == [s EXCEPT !.ws = HardAssert(@, ~ShouldStartWriteStream(s))]
<1>1. StreamOK(ws)
  BY CloseOK
<1>2. s \in StoreType /\ s.ws = ws /\ s.up = r.up /\ s.pipeline = r.pipeline
  BY <1>1 DEF StoreType, StreamOK
<1>3. ~ShouldStartWriteStream(s)
  BY <1>2 DEF ShouldStartWriteStream
<1>4. StopWriteStream(r) = AfterClose(a)
  BY DEF StopWriteStream
<1>5. a = s
  <2>1. HardAssert(ws, TRUE) = ws
    BY <1>1 DEF HardAssert, StreamOK, StreamType
  <2> HIDE DEF ws, s
  <2>2. a = [s EXCEPT !.ws = HardAssert(ws, TRUE)]
    BY <1>2, <1>3
  <2> QED BY <1>2, <2>1, <2>2 DEF StoreType
<1>6. AfterClose(a) = [s EXCEPT !.handshake = FALSE]
  BY <1>3, <1>5 DEF AfterClose, StartWriteStreamIfNeeded
<1> HIDE DEF s, a, ws
<1> QED BY <1>2, <1>4, <1>6 DEF StoreType, ws

\* Disabling the network empties the pipeline and stops the stream, whatever
\* queue is read next.
LEMMA DisableOK ==
    ASSUME NEW r, NEW q, NEW done, NEW denied, StoreOK(r, q, done, denied),
           r.handshake => IsOpen(r.ws), NEW p \in Seq(Batch)
    PROVE  LET t == DisableNetworkInternal(r)
           IN  /\ StoreOK(t, p, done, denied)
               /\ ~t.up /\ ~t.handshake /\ ~IsStarted(t.ws) /\ t.pipeline = <<>>
<1> DEFINE d == [r EXCEPT !.up = FALSE]
           s == StopWriteStream(d)
           t == [s EXCEPT !.pipeline = <<>>]
<1>1. d \in StoreType /\ d.up = FALSE /\ d.ws = r.ws /\ d.handshake = r.handshake
  BY DEF StoreOK, StoreType
<1>2. StreamOK(d.ws)
  BY <1>1 DEF StoreOK
<1> HIDE DEF d
<1>3. s \in StoreType /\ s.up = FALSE /\ s.handshake = FALSE /\ StreamOK(s.ws) /\ ~IsStarted(s.ws)
  <2>1. CASE IsStarted(d.ws)
    <3>1. /\ s \in StoreType /\ s.ws = Close(d.ws, "ok") /\ s.handshake = FALSE
          /\ s.up = d.up
      BY <1>1, <1>2, <2>1, StopIs
    <3> HIDE DEF s
    <3> QED BY <1>1, <1>2, <2>1, <3>1, CloseOK
  <2>2. CASE ~IsStarted(d.ws)
    <3>1. s = d
      BY <2>2 DEF StopWriteStream
    <3>2. ~IsOpen(d.ws)
      BY <2>2 DEF IsStarted
    <3>3. d.handshake = FALSE
      BY <1>1, <3>2 DEF StoreOK, StoreType
    <3> HIDE DEF s
    <3> QED BY <1>1, <1>2, <2>2, <3>1, <3>3
  <2> QED BY <2>1, <2>2
<1> HIDE DEF s
<1>4. /\ t \in StoreType /\ t.up = FALSE /\ t.handshake = FALSE /\ t.ws = s.ws
      /\ t.pipeline = <<>>
  <2>1. <<>> \in Seq(Batch)
    BY EmptySeq
  <2> QED BY <1>3, <2>1 DEF StoreType
<1> HIDE DEF t
<1>5. StoreOK(t, p, done, denied)
  BY <1>3, <1>4, EmptyPrefix, Stopped
<1>6. DisableNetworkInternal(r) = t
  BY DEF DisableNetworkInternal, t, s, d
<1> QED BY <1>3, <1>4, <1>5, <1>6

\* Enabling the network fills the pipeline.
LEMMA EnableOK ==
    ASSUME NEW r, NEW q \in Seq(Batch), Ascending(q), NEW done, NEW denied,
           StoreOK(r, q, done, denied)
    PROVE  LET t == EnableNetworkWith(r, q)
           IN  /\ StoreOK(t, q, done, denied)
               /\ t.handshake = r.handshake /\ t.ws.in = r.ws.in
               /\ IsOpen(t.ws) <=> IsOpen(r.ws)
<1> DEFINE s == [r EXCEPT !.up = TRUE]
<1>1. /\ s \in StoreType /\ s.up = TRUE /\ s.ws = r.ws /\ s.pipeline = r.pipeline
      /\ s.handshake = r.handshake
  BY DEF StoreOK, StoreType
<1>2. EnableNetworkWith(r, q) = FillWritePipeline(s, q)
  BY DEF EnableNetworkWith
<1> HIDE DEF s
<1>3. StoreOK(s, q, done, denied)
  BY <1>1 DEF StoreOK, StreamNeeded, InFlight, Flowing
<1> QED BY <1>1, <1>2, <1>3, FillOK

\* Restarting the network: another queue may be read from then on.
LEMMA RestartOK ==
    ASSUME NEW r, NEW q, NEW done, NEW denied, StoreOK(r, q, done, denied),
           r.handshake => IsOpen(r.ws), NEW p \in Seq(Batch), Ascending(p)
    PROVE  LET t == RestartNetwork(r, p)
           IN  StoreOK(t, p, done, denied) /\ ~t.handshake
<1> DEFINE d == DisableNetworkInternal(r)
           s == [d EXCEPT !.ws = InhibitBackoff(@)]
<1>1. /\ StoreOK(d, p, done, denied)
      /\ ~d.up /\ ~d.handshake /\ ~IsStarted(d.ws) /\ d.pipeline = <<>>
  BY DisableOK
<1>2. RestartNetwork(r, p) = EnableNetworkWith(s, p)
  BY DEF RestartNetwork
<1> HIDE DEF d
<1>3. StreamOK(InhibitBackoff(d.ws)) /\ ~IsStarted(InhibitBackoff(d.ws))
  BY <1>1, InhibitOK DEF StoreOK
<1>4. /\ s \in StoreType /\ s.ws = InhibitBackoff(d.ws) /\ s.pipeline = <<>>
      /\ ~s.handshake
  BY <1>1, <1>3 DEF StoreOK, StoreType, StreamOK
<1> HIDE DEF s
<1>5. StoreOK(s, p, done, denied)
  BY <1>3, <1>4, EmptyPrefix, Stopped
<1> QED BY <1>2, <1>4, <1>5, EnableOK

-----------------------------------------------------------------------------
(* Steps that leave the queues and the history alone. *)

\* The results the client has not read yet: "sent" of Outbox.
Sent == IF store.handshake THEN Len(store.ws.in) ELSE 0

\* What such a step may do in Outbox: nothing, or lose the connection.
Kept == user' = user /\ queue' = queue /\ Sent' \in {0, Sent}

\* They keep the invariant if they keep its parts about RemoteStore.
LEMMA StoreOnly ==
    ASSUME PipelineInv, UNCHANGED <<local, history>>,
           StoreOK(store', queue[user], applied, refused),
           store'.handshake => /\ IsOpen(store'.ws)
                               /\ \/ store'.ws.in = <<>>
                                  \/ store.handshake /\ store'.ws.in = store.ws.in
    PROVE  PipelineInv' /\ Kept
<1>1. /\ user' = user /\ queue' = queue /\ nextId' = nextId /\ callbacks' = callbacks
      /\ issued' = issued /\ told' = told /\ applied' = applied /\ refused' = refused
  BY DEF local, history
<1>2. TypeOK'
  BY <1>1 DEF PipelineInv, TypeOK, StoreOK, StoreType
<1>3. StoreOK(store, queue[user], applied, refused)'
  BY <1>1
<1>4. IdsOrdered' /\ WritesApart' /\ CallbackOfItsWrite' /\ NoWriteLost'
  BY <1>1 DEF PipelineInv, IdsOrdered, WritesApart, CallbackOfItsWrite, NoWriteLost
<1>5. Kept
  BY <1>1 DEF Kept, Sent
<1> QED BY <1>2, <1>3, <1>4, <1>5 DEF PipelineInv, HandshakeOpen

\* A step of the stream that neither opens nor closes it and leaves alone
\* what is on its way.
LEMMA SameFlow ==
    ASSUME NEW r, NEW q, NEW done, NEW denied, StoreOK(r, q, done, denied),
           NEW s, StreamOK(s),
           IsStarted(s) <=> IsStarted(r.ws), IsOpen(s) <=> IsOpen(r.ws),
           "idle" \in s.timers => "idle" \in r.ws.timers,
           s.in = r.ws.in, s.out = r.ws.out, s.end = r.ws.end
    PROVE  LET t == [r EXCEPT !.ws = s]
           IN  /\ StoreOK(t, q, done, denied) /\ t.ws = s
               /\ t.handshake = r.handshake
<1> DEFINE t == [r EXCEPT !.ws = s]
<1>1. /\ t \in StoreType /\ t.ws = s /\ t.up = r.up /\ t.pipeline = r.pipeline
      /\ t.handshake = r.handshake
  BY DEF StoreOK, StoreType, StreamOK
<1> HIDE DEF t
<1>2. Flowing(t) <=> Flowing(r)
  BY <1>1 DEF Flowing
<1>3. StreamNeeded(t)
  BY <1>1, <1>2 DEF StoreOK, StreamNeeded
<1>4. InFlight(t, done, denied)
  BY <1>1, <1>2 DEF StoreOK, InFlight
<1> QED BY <1>1, <1>3, <1>4 DEF StoreOK, t

\* A token request is answered.
LEMMA TokensDropped ==
    ASSUME NEW r, NEW q, NEW done, NEW denied, StoreOK(r, q, done, denied),
           NEW T, T \subseteq r.ws.tokens
    PROVE  LET s == [r.ws EXCEPT !.tokens = T]
               t == [r EXCEPT !.ws = s]
           IN  /\ StoreOK(t, q, done, denied) /\ t.handshake = r.handshake /\ t.ws = s
               /\ StreamOK(s) /\ s.state = r.ws.state /\ s.in = r.ws.in
<1> DEFINE s == [r.ws EXCEPT !.tokens = T]
<1>1. s \in StreamType(Message, Message)
  BY DEF StoreOK, StreamOK, StreamType
<1>2. /\ s.tokens = T /\ s.state = r.ws.state /\ s.timers = r.ws.timers
      /\ s.call = r.ws.call /\ s.ok = r.ws.ok
      /\ s.in = r.ws.in /\ s.out = r.ws.out /\ s.end = r.ws.end
  BY DEF StoreOK, StreamOK, StreamType
<1> HIDE DEF s
<1>3. (IsOpen(s) <=> IsOpen(r.ws)) /\ (IsStarted(s) <=> IsStarted(r.ws))
  BY <1>2 DEF IsOpen, IsStarted
<1>4. StreamOK(s)
  BY <1>1, <1>2, <1>3 DEF StoreOK, StreamOK
<1> DEFINE t == [r EXCEPT !.ws = s]
<1>5. StoreOK(t, q, done, denied) /\ t.ws = s /\ t.handshake = r.handshake
  BY <1>2, <1>3, <1>4, SameFlow
<1> QED BY <1>2, <1>4, <1>5 DEF s

\* The network, as the device or the app changes it.
LEMMA NetworkStep ==
    ASSUME PipelineInv, ConnectivityChanged \/ DisableNetwork \/ EnableNetwork
    PROVE  PipelineInv' /\ Kept
<1> DEFINE q == queue[user]
<1>1. /\ StoreOK(store, q, applied, refused)
      /\ store.handshake => IsOpen(store.ws)
      /\ q \in Seq(Batch) /\ Ascending(q)
  BY DEF PipelineInv, HandshakeOpen, TypeOK, IdsOrdered
<1> HIDE DEF q
<1>2. CASE ConnectivityChanged
  <2>1. store' = RestartNetwork(store, q) /\ UNCHANGED <<local, history>>
    BY <1>2 DEF ConnectivityChanged, q
  <2>2. StoreOK(store', q, applied, refused) /\ ~store'.handshake
    BY <1>1, <2>1, RestartOK
  <2> QED BY <2>1, <2>2, StoreOnly DEF q
<1>3. CASE DisableNetwork
  <2>1. store' = DisableNetworkInternal(store) /\ UNCHANGED <<local, history>>
    BY <1>3 DEF DisableNetwork
  <2>2. StoreOK(store', q, applied, refused) /\ ~store'.handshake
    BY <1>1, <2>1, DisableOK
  <2> QED BY <2>1, <2>2, StoreOnly DEF q
<1>4. CASE EnableNetwork
  <2>1. store' = EnableNetworkWith(store, q) /\ UNCHANGED <<local, history>>
    BY <1>4 DEF EnableNetwork, q
  <2>2. /\ StoreOK(store', q, applied, refused)
        /\ store'.handshake = store.handshake /\ store'.ws.in = store.ws.in
        /\ IsOpen(store'.ws) <=> IsOpen(store.ws)
    BY <1>1, <2>1, EnableOK
  <2> QED BY <1>1, <2>1, <2>2, StoreOnly DEF q
<1> QED BY <1>2, <1>3, <1>4

\* The answers to a request for a token.
LEMMA TokenStep ==
    ASSUME PipelineInv, TokenIgnored \/ TokenReceived \/ TokenFailed
    PROVE  PipelineInv' /\ Kept
<1> DEFINE q == queue[user]
<1>1. /\ StoreOK(store, q, applied, refused) /\ StreamOK(store.ws)
      /\ store.handshake => IsOpen(store.ws)
  BY DEF PipelineInv, HandshakeOpen, StoreOK
<1> HIDE DEF q
<1>2. CASE TokenIgnored
  <2> DEFINE T == store.ws.tokens \ {"stale"}
             s == [store.ws EXCEPT !.tokens = T]
  <2>1. store' = [store EXCEPT !.ws = s] /\ UNCHANGED <<local, history>>
    BY <1>2 DEF TokenIgnored, Stepped
  <2>2. /\ StoreOK(store', q, applied, refused) /\ store'.handshake = store.handshake
        /\ store'.ws = s /\ s.state = store.ws.state /\ s.in = store.ws.in
    BY <1>1, <2>1, TokensDropped
  <2> QED BY <1>1, <2>1, <2>2, StoreOnly DEF q, IsOpen
<1>3. ASSUME "current" \in store.ws.tokens
      PROVE  LET T == store.ws.tokens \ {"current"}
                 s == [store.ws EXCEPT !.tokens = T]
                 t == [store EXCEPT !.ws = s]
             IN  /\ StoreOK(t, q, applied, refused) /\ ~t.handshake /\ t.ws = s
                 /\ StreamOK(s) /\ s.state = "Starting" /\ IsStarted(s) /\ ~IsOpen(s)
  <2> DEFINE T == store.ws.tokens \ {"current"}
             s == [store.ws EXCEPT !.tokens = T]
             t == [store EXCEPT !.ws = s]
  <2>1. store.ws.state = "Starting"
    BY <1>1, <1>3 DEF StreamOK
  <2>2. /\ StoreOK(t, q, applied, refused) /\ t.handshake = store.handshake
        /\ t.ws = s /\ s.state = store.ws.state /\ StreamOK(s)
    BY <1>1, TokensDropped
  <2> HIDE DEF s, t
  <2>3. ~t.handshake
    BY <1>1, <2>1, <2>2 DEF IsOpen
  <2> QED BY <2>1, <2>2, <2>3 DEF s, t, IsStarted, IsOpen
<1>4. CASE TokenReceived
  <2> DEFINE s == [store.ws EXCEPT !.tokens = store.ws.tokens \ {"current"}]
             t == [store EXCEPT !.ws = s]
             u == CreateCall(s)
  <2>1. store' = [store EXCEPT !.ws = u] /\ UNCHANGED <<local, history>>
    BY <1>4 DEF TokenReceived, Stepped
  <2>2. /\ StoreOK(t, q, applied, refused) /\ ~t.handshake /\ t.ws = s
        /\ StreamOK(s) /\ s.state = "Starting" /\ IsStarted(s) /\ ~IsOpen(s)
    BY <1>3, <1>4 DEF TokenReceived
  <2>0. "current" \notin s.tokens
    BY <1>1 DEF StreamOK, StreamType
  <2>3. store' = [t EXCEPT !.ws = u]
    BY <2>1 DEF StoreOK, StoreType
  <2> HIDE DEF s, t
  <2>4. u = [s EXCEPT !.ok = s.ok /\ TRUE, !.call = TRUE]
    BY <2>2 DEF CreateCall, HardAssert, StreamOK, StreamType
  <2>5. u \in StreamType(Message, Message)
    BY <2>2, <2>4 DEF StreamOK, StreamType
  <2>6. /\ u.state = "Starting" /\ u.call = TRUE /\ u.ok /\ u.tokens = s.tokens
        /\ u.timers = s.timers /\ u.in = s.in /\ u.out = s.out /\ u.end = s.end
    BY <2>2, <2>4 DEF StreamOK, StreamType
  <2> HIDE DEF u
  <2>7. IsStarted(u) /\ ~IsOpen(u) /\ StreamOK(u)
    BY <2>0, <2>2, <2>5, <2>6 DEF StreamOK, IsStarted, IsOpen
  <2>8. StoreOK(store', q, applied, refused) /\ ~store'.handshake
    BY <2>2, <2>3, <2>6, <2>7, SameFlow
  <2> QED BY <2>1, <2>8, StoreOnly DEF q
<1>5. CASE TokenFailed
  <2> DEFINE s == [store.ws EXCEPT !.tokens = store.ws.tokens \ {"current"}]
             t == [store EXCEPT !.ws = s]
             c == [t EXCEPT !.ws = Close(@, "transient")]
  <2>0. store' = AfterClose([store EXCEPT !.ws = Close(s, "transient")])
    BY <1>5, Zenon DEF TokenFailed
  <2>1. UNCHANGED <<local, history>>
    BY <1>5 DEF TokenFailed
  <2>2. /\ StoreOK(t, q, applied, refused) /\ ~t.handshake /\ t.ws = s
        /\ StreamOK(s) /\ s.state = "Starting" /\ IsStarted(s) /\ ~IsOpen(s)
    BY <1>3, <1>5 DEF TokenFailed
  <2>3. c = [store EXCEPT !.ws = Close(s, "transient")]
    <3> HIDE DEF s
    <3> QED BY <1>1, <2>2 DEF StoreOK, StoreType
  <2> HIDE DEF s, t
  <2>4. StoreOK(c, q, applied, refused) /\ ~IsOpen(c.ws)
    BY <2>2, ClosedOK
  <2> HIDE DEF c
  <2>5. StoreOK(store', q, applied, refused) /\ ~store'.handshake
    BY <2>0, <2>3, <2>4, AfterCloseOK
  <2> QED BY <2>1, <2>5, StoreOnly DEF q
<1> QED BY <1>2, <1>4, <1>5

\* The facts every step of the stream starts from.
LEMMA StoreFacts ==
    ASSUME PipelineInv
    PROVE  /\ StoreOK(store, queue[user], applied, refused)
           /\ store \in StoreType /\ StreamOK(store.ws)
           /\ store.ws \in StreamType(Message, Message)
           /\ store.ws.in \in Seq(Message) /\ store.ws.out \in Seq(Message)
           /\ store.pipeline \in Seq(Batch)
           /\ store.handshake => IsOpen(store.ws)
           /\ queue[user] \in Seq(Batch) /\ Ascending(queue[user])
           /\ user \in Users
<1>1. StoreOK(store, queue[user], applied, refused) /\ (store.handshake => IsOpen(store.ws))
  BY DEF PipelineInv, HandshakeOpen
<1>2. store \in StoreType /\ StreamOK(store.ws) /\ store.ws \in StreamType(Message, Message)
  BY <1>1 DEF StoreOK, StreamOK
<1>3. store.ws.in \in Seq(Message) /\ store.ws.out \in Seq(Message) /\ store.pipeline \in Seq(Batch)
  BY <1>2 DEF StoreType, StreamType
<1>4. queue[user] \in Seq(Batch) /\ Ascending(queue[user]) /\ user \in Users
  BY DEF PipelineInv, TypeOK, IdsOrdered
<1> QED BY <1>1, <1>2, <1>3, <1>4

\* A handshake message is no batch, so it is never part of a pipeline.
LEMMA HandshakeNoBatch == Handshake \notin Batch
  BY DEF Handshake, Batch

\* Once batches flow, what the server has not read are batches.
LEMMA OutIsBatches ==
    ASSUME PipelineInv, store.handshake
    PROVE  /\ store.ws.in \in Seq(Batch) /\ store.ws.out \in Seq(Batch)
           /\ store.ws.in \o store.ws.out = store.pipeline
<1> DEFINE a == store.ws.in
           b == store.ws.out
<1>1. a \in Seq(Message) /\ b \in Seq(Message) /\ a \o b = store.pipeline
  BY StoreFacts DEF StoreOK, InFlight
<1>2. store.pipeline \in Seq(Batch)
  BY StoreFacts
<1> HIDE DEF a, b
<1>3. /\ a \o b \in Seq(Batch) /\ Len(a) \in Nat /\ Len(b) \in Nat
      /\ Len(a \o b) = Len(a) + Len(b)
      /\ \A i \in 1..(Len(a) + Len(b)) :
           (a \o b)[i] = IF i <= Len(a) THEN a[i] ELSE b[i - Len(a)]
  BY <1>1, <1>2, ConcatProperties, LenProperties
<1>4. \A i \in 1..Len(a) : a[i] \in Batch
  <2> SUFFICES ASSUME NEW i \in 1..Len(a) PROVE a[i] \in Batch
    OBVIOUS
  <2>1. i \in 1..Len(a \o b) /\ (a \o b)[i] = a[i]
    BY <1>3
  <2> QED BY <1>3, <2>1, ElementOfSeq
<1>5. \A i \in 1..Len(b) : b[i] \in Batch
  <2> SUFFICES ASSUME NEW i \in 1..Len(b) PROVE b[i] \in Batch
    OBVIOUS
  <2>1. Len(a) + i \in 1..(Len(a) + Len(b)) /\ ~(Len(a) + i <= Len(a)) /\ Len(a) + i - Len(a) = i
    BY <1>3
  <2>2. Len(a) + i \in 1..Len(a \o b) /\ (a \o b)[Len(a) + i] = b[i]
    BY <1>3, <2>1
  <2> QED BY <1>3, <2>2, ElementOfSeq
<1>6. a \in Seq(Batch) /\ b \in Seq(Batch)
  <2>1. a = [i \in 1..Len(a) |-> a[i]] /\ b = [i \in 1..Len(b) |-> b[i]]
    BY <1>1
  <2> QED BY <1>3, <1>4, <1>5, <2>1
<1> QED BY <1>1, <1>6 DEF a, b

\* The call is open: the handshake is sent.
LEMMA OpenedStep ==
    ASSUME PipelineInv, StreamOpened
    PROVE  PipelineInv' /\ Kept
<1> DEFINE s == store.ws
           o == Opened(s)
           ws == HardAssert(Send(o, <<Handshake>>), ~store.handshake)
<1>1. s.call /\ s.state = "Starting" /\ store' = [store EXCEPT !.ws = ws]
      /\ UNCHANGED <<local, history>>
  BY DEF StreamOpened, Stepped
<1>2. ~IsOpen(s) /\ IsStarted(s) /\ store.handshake = FALSE /\ ~Flowing(store)
  BY <1>1, StoreFacts DEF IsOpen, IsStarted, StoreType, Flowing
<1>3. /\ s \in StreamType(Message, Message) /\ StreamOK(s)
      /\ s.in = <<>> /\ s.out = <<>> /\ s.end = NoEnd /\ s.ok = TRUE
      /\ "idle" \notin s.timers /\ "backoff" \notin s.timers /\ "current" \notin s.tokens
  BY <1>1, <1>2, StoreFacts DEF StreamOK, StreamType
<1>4. <<Handshake>> \in Seq(Message) /\ <<>> \o <<Handshake>> = <<Handshake>>
  <2>1. Handshake \in Message
    BY DEF Message
  <2> QED BY <2>1
<1>5. ws = [s EXCEPT !.state = "Open", !.ok = TRUE, !.out = <<Handshake>>,
                     !.timers = @ \ {"idle"}]
  BY <1>2, <1>3, <1>4 DEF Opened, Send, HardAssert, IsOpen, StreamType
<1>6. /\ ws.state = "Open" /\ ws.call = TRUE /\ ws.ok /\ ws.in = <<>> /\ ws.end = NoEnd
      /\ ws.out = <<Handshake>> /\ ws.timers = s.timers \ {"idle"} /\ ws.tokens = s.tokens
  BY <1>1, <1>3, <1>5 DEF StreamType
<1> HIDE DEF ws
<1>7. ws \in StreamType(Message, Message)
  BY <1>3, <1>4, <1>5 DEF StreamType, States
<1>8. IsOpen(ws) /\ IsStarted(ws) /\ StreamOK(ws)
  BY <1>3, <1>6, <1>7 DEF StreamOK, IsOpen, IsStarted
<1>9. /\ store' \in StoreType /\ store'.ws = ws /\ store'.up = store.up
      /\ store'.pipeline = store.pipeline /\ store'.handshake = FALSE
  BY <1>1, <1>2, <1>7, StoreFacts DEF StoreType
<1>10. StreamNeeded(store')
  BY <1>2, <1>3, <1>6, <1>8, <1>9, StoreFacts DEF StoreOK, StreamNeeded, Flowing
<1>11. InFlight(store', applied, refused)
  BY <1>4, <1>6, <1>9 DEF InFlight, Flowing
<1>12. StoreOK(store', queue[user], applied, refused)
  BY <1>8, <1>9, <1>10, <1>11, StoreFacts DEF StoreOK
<1> QED BY <1>1, <1>9, <1>12, StoreOnly

\* The timers of the stream.
LEMMA TimerStep ==
    ASSUME PipelineInv, BackoffTimer \/ IdleTimer
    PROVE  PipelineInv' /\ Kept
<1> DEFINE s == store.ws
           q == queue[user]
<1>0. StoreOK(store, q, applied, refused) /\ store \in StoreType /\ StreamOK(s)
      /\ s \in StreamType(Message, Message) /\ q \in Seq(Batch)
      /\ (store.handshake => IsOpen(s))
  BY StoreFacts
<1>1. CASE BackoffTimer
  <2> DEFINE t == [HardAssert([s EXCEPT !.timers = @ \ {"backoff"}], s.state = "Backoff")
                   EXCEPT !.state = "Initial"]
             ws == Start(t)
  <2>1. store' = [store EXCEPT !.ws = ws] /\ UNCHANGED <<local, history>>
        /\ "backoff" \in s.timers
    BY <1>1 DEF BackoffTimer, Stepped, BackoffElapsed
  <2>2. /\ s.state = "Backoff" /\ ~IsOpen(s) /\ IsStarted(s) /\ s.ok = TRUE
        /\ s.in = <<>> /\ s.out = <<>> /\ s.end = NoEnd /\ s.call = FALSE
        /\ "current" \notin s.tokens /\ "idle" \notin s.timers
    BY <1>0, <2>1 DEF StreamOK, StreamType, IsOpen, IsStarted
  <2>3. t = [s EXCEPT !.timers = @ \ {"backoff"}, !.state = "Initial"]
    BY <1>0, <2>2 DEF HardAssert, StreamType
  <2>4. /\ t.state = "Initial" /\ t.timers = s.timers \ {"backoff"} /\ t.ok
        /\ t.in = <<>> /\ t.out = <<>> /\ t.end = NoEnd /\ t.call = FALSE
        /\ t.tokens = s.tokens
    BY <1>0, <2>2, <2>3 DEF StreamType
  <2> HIDE DEF t
  <2>5. t \in StreamType(Message, Message)
    BY <1>0, <2>3 DEF StreamType, States
  <2>6. StreamOK(t) /\ ~IsStarted(t)
    BY <2>2, <2>4, <2>5 DEF StreamOK, IsStarted, IsOpen
  <2>7. StreamOK(ws) /\ IsStarted(ws) /\ ~IsOpen(ws)
    BY <2>6, StartOK
  <2> HIDE DEF ws
  <2>8. ws.in = <<>> /\ ws.out = <<>> /\ ws.end = NoEnd /\ "idle" \notin ws.timers
    BY <2>7 DEF StreamOK
  <2> HIDE DEF q
  <2>9. StoreOK(store', q, applied, refused) /\ store'.handshake = store.handshake
    BY <1>0, <2>1, <2>2, <2>7, <2>8, SameFlow
  <2>10. ~store'.handshake
    BY <1>0, <2>2, <2>9
  <2> QED BY <2>1, <2>9, <2>10, StoreOnly DEF q
<1>2. CASE IdleTimer
  <2> DEFINE ws == [s EXCEPT !.timers = @ \ {"idle"}]
             r == [store EXCEPT !.ws = ws]
  <2>1. "idle" \in s.timers /\ store' = StopWriteStream(r) /\ UNCHANGED <<local, history>>
    <3>1. r = [store EXCEPT !.ws.timers = @ \ {"idle"}]
      BY <1>0 DEF StoreType
    <3> HIDE DEF r
    <3> QED BY <1>2, <3>1 DEF IdleTimer
  <2>2. IsOpen(s) /\ store.pipeline = <<>>
    BY <1>0, <2>1 DEF StreamOK, StoreOK, StreamNeeded
  <2>3. /\ ws \in StreamType(Message, Message) /\ ws.timers = s.timers \ {"idle"}
        /\ ws.state = s.state /\ ws.tokens = s.tokens /\ ws.call = s.call /\ ws.ok = s.ok
        /\ ws.in = s.in /\ ws.out = s.out /\ ws.end = s.end
    BY <1>0 DEF StreamType
  <2> HIDE DEF ws
  <2>4. StreamOK(ws) /\ IsOpen(ws) /\ IsStarted(ws)
    BY <1>0, <2>2, <2>3 DEF StreamOK, IsOpen, IsStarted
  <2>5. r \in StoreType /\ r.ws = ws /\ r.pipeline = <<>> /\ r.up = store.up
    BY <1>0, <2>2, <2>3 DEF StoreType
  <2> HIDE DEF r
  <2>6. /\ store' \in StoreType /\ store'.ws = Close(ws, "ok") /\ store'.handshake = FALSE
        /\ store'.pipeline = <<>>
    BY <2>1, <2>4, <2>5, StopIs
  <2>7. StreamOK(store'.ws) /\ ~IsStarted(store'.ws)
    BY <2>4, <2>6, CloseOK
  <2> HIDE DEF q
  <2>8. StoreOK(store', q, applied, refused)
    BY <1>0, <2>6, <2>7, EmptyPrefix, Stopped
  <2> QED BY <2>1, <2>6, <2>8, StoreOnly DEF q
<1> QED BY <1>1, <1>2

\* Until the handshake is done it is alone on its way, to the server or back.
LEMMA HandshakeAlone ==
    ASSUME PipelineInv, IsOpen(store.ws), ~store.handshake
    PROVE  \/ store.ws.in = <<>> /\ store.ws.out = <<Handshake>>
           \/ store.ws.in = <<Handshake>> /\ store.ws.out = <<>>
<1> DEFINE a == store.ws.in
           b == store.ws.out
<1>1. a \in Seq(Message) /\ b \in Seq(Message) /\ a \o b = <<Handshake>>
  BY StoreFacts DEF StoreOK, InFlight
<1> HIDE DEF a, b
<1>2. (a = <<>> /\ b = <<Handshake>>) \/ (a = <<Handshake>> /\ b = <<>>)
  BY <1>1, SplitOne
<1> QED BY <1>2 DEF a, b

\* The handshake is answered on the server.
LEMMA AnswersHandshakeStep ==
    ASSUME PipelineInv, ServerAnswersHandshake
    PROVE  PipelineInv' /\ Kept
<1> DEFINE s == store.ws
           ws == [s EXCEPT !.out = Tail(@), !.in = Append(@, Handshake)]
<1>0. /\ StoreOK(store, queue[user], applied, refused) /\ store \in StoreType /\ StreamOK(s)
      /\ s \in StreamType(Message, Message) /\ s.in \in Seq(Message) /\ s.out \in Seq(Message)
      /\ store.handshake => IsOpen(s)
  BY StoreFacts
<1>1. /\ s.call /\ s.end = NoEnd /\ s.out # <<>> /\ Head(s.out) = Handshake
      /\ store' = [store EXCEPT !.ws = ws] /\ UNCHANGED <<local, history>>
  BY DEF ServerAnswersHandshake, Alive, Stepped
<1>2. IsOpen(s)
  BY <1>0, <1>1 DEF StreamOK
<1>3. store.handshake = FALSE
  <2>1. ASSUME store.handshake PROVE FALSE
    <3>1. s.out \in Seq(Batch)
      BY <2>1, OutIsBatches
    <3>2. Head(s.out) \in Batch
      BY <1>1, <3>1, HeadTailProperties
    <3> QED BY <1>1, <3>2, HandshakeNoBatch
  <2> QED BY <1>0, <2>1 DEF StoreType
<1>5. s.in = <<>> /\ s.out = <<Handshake>>
  BY <1>1, <1>2, <1>3, HandshakeAlone
<1>6. /\ Append(s.in, Handshake) = <<Handshake>> /\ Tail(s.out) = <<>>
      /\ <<Handshake>> \o <<>> = <<Handshake>>
      /\ <<Handshake>> \in Seq(Message) /\ <<>> \in Seq(Message)
  <2>1. Handshake \in Message
    BY DEF Message
  <2> QED BY <1>5, <2>1
<1>7. ws = [s EXCEPT !.out = <<>>, !.in = <<Handshake>>]
  BY <1>0, <1>6 DEF StreamType
<1> HIDE DEF ws
<1>8. /\ ws \in StreamType(Message, Message)
      /\ ws.in = <<Handshake>> /\ ws.out = <<>> /\ ws.end = NoEnd /\ ws.state = s.state
      /\ ws.tokens = s.tokens /\ ws.timers = s.timers /\ ws.call = s.call /\ ws.ok = s.ok
  BY <1>0, <1>1, <1>6, <1>7 DEF StreamType
<1>9. StreamOK(ws) /\ IsOpen(ws) /\ (IsStarted(ws) <=> IsStarted(s))
  BY <1>0, <1>2, <1>8 DEF StreamOK, IsOpen, IsStarted
<1>10. /\ store' \in StoreType /\ store'.ws = ws /\ store'.up = store.up
       /\ store'.pipeline = store.pipeline /\ store'.handshake = FALSE
  BY <1>0, <1>1, <1>3, <1>8 DEF StoreType
<1>11. StreamNeeded(store')
  BY <1>0, <1>2, <1>3, <1>8, <1>9, <1>10 DEF StoreOK, StreamNeeded, Flowing
<1>12. InFlight(store', applied, refused)
  BY <1>6, <1>8, <1>9, <1>10 DEF InFlight, Flowing
<1>13. StoreOK(store', queue[user], applied, refused)
  BY <1>0, <1>9, <1>10, <1>11, <1>12 DEF StoreOK
<1> QED BY <1>1, <1>10, <1>13, StoreOnly

\* The client reads the answer to the handshake and sends the pipeline.
LEMMA HandshakeStep ==
    ASSUME PipelineInv, HandshakeComplete
    PROVE  PipelineInv' /\ Kept
<1> DEFINE s == store.ws
           ws == [s EXCEPT !.in = Tail(@)]
           r == [store EXCEPT !.ws = HardAssert(ws, IsStarted(ws)), !.handshake = TRUE]
           P == store.pipeline
<1>0. /\ StoreOK(store, queue[user], applied, refused) /\ store \in StoreType /\ StreamOK(s)
      /\ s \in StreamType(Message, Message) /\ s.in \in Seq(Message) /\ s.out \in Seq(Message)
      /\ P \in Seq(Batch)
  BY StoreFacts
<1>1. /\ s.in # <<>> /\ store.handshake = FALSE /\ UNCHANGED <<local, history>>
      /\ store' = WriteMutations(r, r.pipeline)
  BY <1>0 DEF HandshakeComplete, StoreType
<1>2. IsOpen(s) /\ IsStarted(s) /\ ~Flowing(store)
  BY <1>0, <1>1 DEF StreamOK, IsStarted, Flowing
<1>4. s.in = <<Handshake>> /\ s.out = <<>> /\ Tail(s.in) = <<>> /\ s.end = NoEnd
  <2>1. s.in = <<Handshake>> /\ s.out = <<>>
    BY <1>1, <1>2, HandshakeAlone
  <2>2. s.end = NoEnd
    BY <1>0, <1>2 DEF StoreOK, InFlight
  <2> QED BY <2>1, <2>2
<1>5. ws = [s EXCEPT !.in = <<>>]
  BY <1>0, <1>4 DEF StreamType
<1> HIDE DEF ws
<1>6. /\ ws \in StreamType(Message, Message)
      /\ ws.in = <<>> /\ ws.out = <<>> /\ ws.end = NoEnd /\ ws.state = s.state
      /\ ws.tokens = s.tokens /\ ws.timers = s.timers /\ ws.call = s.call /\ ws.ok = s.ok
  <2>1. <<>> \in Seq(Message)
    BY EmptySeq
  <2> QED BY <1>0, <1>4, <1>5, <2>1 DEF StreamType
<1>7. StreamOK(ws) /\ IsOpen(ws) /\ IsStarted(ws)
  BY <1>0, <1>2, <1>6 DEF StreamOK, IsOpen, IsStarted
<1>8. HardAssert(ws, IsStarted(ws)) = ws
  BY <1>6, <1>7 DEF HardAssert, StreamOK, StreamType
<1>9. /\ r \in StoreType /\ r.ws = ws /\ r.up = store.up /\ r.pipeline = P
      /\ r.handshake = TRUE
  BY <1>0, <1>6, <1>8 DEF StoreType
<1> HIDE DEF r
<1>10. Flowing(r)
  BY <1>7, <1>9 DEF Flowing
<1>11. /\ store' \in StoreType /\ StreamOK(store'.ws) /\ IsOpen(store'.ws)
       /\ store'.up = store.up /\ store'.pipeline = P /\ store'.handshake = TRUE
       /\ store'.ws.out = <<>> \o P /\ store'.ws.in = <<>> /\ store'.ws.end = NoEnd
       /\ store'.ws.timers \subseteq s.timers
  <2>1. StreamOK(r.ws) /\ r.pipeline \in Seq(Batch)
    BY <1>0, <1>7, <1>9
  <2> DEFINE t == WriteMutations(r, r.pipeline)
  <2>2. /\ t \in StoreType /\ StreamOK(t.ws) /\ IsOpen(t.ws)
        /\ t.up = r.up /\ t.pipeline = r.pipeline /\ t.handshake = r.handshake
        /\ t.ws.out = r.ws.out \o r.pipeline
        /\ t.ws.in = r.ws.in /\ t.ws.end = r.ws.end
        /\ t.ws.timers \subseteq r.ws.timers
    BY ZenonT(60), <1>9, <1>10, <2>1, SendOK
  <2> HIDE DEF t
  <2> QED BY <1>1, <1>6, <1>9, <2>2 DEF t
<1>12. <<>> \o P = P
  BY <1>0, ConcatEmptySeq
<1>13. "idle" \notin store'.ws.timers
  BY <1>0, <1>1, <1>11 DEF StoreOK, StreamNeeded
<1>14. StreamNeeded(store')
  BY <1>0, <1>2, <1>11, <1>13 DEF StoreOK, StreamNeeded, Flowing
<1>15. InFlight(store', applied, refused)
  BY <1>11, <1>12 DEF InFlight, Flowing
<1>16. StoreOK(store', queue[user], applied, refused)
  BY <1>0, <1>11, <1>14, <1>15 DEF StoreOK
<1> QED BY <1>1, <1>11, <1>16, StoreOnly

\* A call that ends without a refusal.
LEMMA FinishedStep ==
    ASSUME PipelineInv, NEW status, StreamFinished(status), ~Refuses(status),
           IsStarted(store.ws), UNCHANGED <<applied, refused>>
    PROVE  PipelineInv' /\ Kept
<1> DEFINE r == [store EXCEPT !.ws = Close(@, status)]
<1>1. store' = AfterClose(r) /\ UNCHANGED <<local, history>>
  BY DEF StreamFinished, history
<1>2. StoreOK(r, queue[user], applied, refused) /\ ~IsOpen(r.ws)
  BY StoreFacts, ClosedOK
<1> HIDE DEF r
<1>3. StoreOK(store', queue[user], applied, refused) /\ ~store'.handshake
  BY <1>1, <1>2, AfterCloseOK
<1> QED BY <1>1, <1>3, StoreOnly

\* Losing the call, or an error of the handshake, refuses nothing.
LEMMA BrokenStep ==
    ASSUME PipelineInv, NEW status \in Errors, CallBroken(status)
    PROVE  PipelineInv' /\ Kept /\ ~Refuses(status)
<1>1. store.ws.call /\ IsStarted(store.ws)
  BY StoreFacts DEF CallBroken, StreamOK, IsStarted, IsOpen
<1>2. ~Refuses(status)
  <2>1. CASE status \in {"transient", "aborted"}
    BY <2>1 DEF Refuses, IsPermanentWriteError, IsPermanentError
  <2>2. CASE store.ws.out # <<>> /\ Head(store.ws.out) = Handshake
    <3>1. ASSUME store.handshake PROVE FALSE
      <4>1. store.ws.out \in Seq(Batch)
        BY <3>1, OutIsBatches
      <4>2. Head(store.ws.out) \in Batch
        BY <2>2, <4>1, HeadTailProperties
      <4> QED BY <2>2, <4>2, HandshakeNoBatch
    <3> QED BY <3>1 DEF Refuses
  <2> QED BY <2>1, <2>2 DEF CallBroken
<1> QED BY <1>1, <1>2, FinishedStep DEF CallBroken

-----------------------------------------------------------------------------
(* The server reads a write. *)

\* The elements of a prefix.
LEMMA PrefixElements ==
    ASSUME NEW S, NEW q \in Seq(S), NEW p \in Seq(S), Len(p) <= Len(q),
           p = SubSeq(q, 1, Len(p))
    PROVE  \A i \in 1..Len(p) : i \in 1..Len(q) /\ p[i] = q[i]
<1> DEFINE n == Len(p)
<1>1. n \in Nat /\ Len(q) \in Nat /\ n <= Len(q)
  BY LenProperties
<1>2. p = SubSeq(q, 1, n)
  OBVIOUS
<1> HIDE DEF n
<1>3. \A i \in 1..n : i \in 1..Len(q) /\ SubSeq(q, 1, n)[i] = q[i]
  BY <1>1
<1> QED BY <1>2, <1>3 DEF n

\* The elements of a sequence with one more at its end.
LEMMA AppendElements ==
    ASSUME NEW S, NEW a \in Seq(S), NEW e \in S
    PROVE  /\ Append(a, e) \in Seq(S) /\ Len(Append(a, e)) = Len(a) + 1
           /\ Append(a, e)[Len(a) + 1] = e
           /\ \A i \in 1..Len(a) : Append(a, e)[i] = a[i]
           /\ \A i \in DOMAIN Append(a, e) : i \in 1..Len(a) \/ i = Len(a) + 1
  BY AppendProperties, LenProperties

\* What the server reads next, if it is not the handshake, is the oldest batch
\* of the queue that it has not answered on this call.
LEMMA ServerReads ==
    ASSUME PipelineInv, store.ws.out # <<>>, Head(store.ws.out) # Handshake
    PROVE  LET n == Len(store.ws.in) + 1
           IN  /\ store.handshake /\ IsOpen(store.ws)
               /\ store.ws.in \in Seq(Batch) /\ store.ws.out \in Seq(Batch)
               /\ Head(store.ws.out) \in Batch
               /\ n \in 1..Len(store.pipeline) /\ n \in DOMAIN queue[user]
               /\ queue[user][n] = Head(store.ws.out)
               /\ \A i \in 1..Len(store.ws.in) : queue[user][i].write \in applied
<1> DEFINE a == store.ws.in
           b == store.ws.out
           p == store.pipeline
           q == queue[user]
<1>1. IsOpen(store.ws)
  BY StoreFacts DEF StreamOK
<1>2. store.handshake
  <2>1. Head(<<Handshake>>) = Handshake
    OBVIOUS
  <2> QED BY <1>1, <2>1, HandshakeAlone
<1>3. a \in Seq(Batch) /\ b \in Seq(Batch) /\ a \o b = p
  BY <1>2, OutIsBatches
<1>4. \A i \in DOMAIN a : a[i].write \in applied
  BY <1>1, <1>2, StoreFacts DEF StoreOK, InFlight, Flowing
<1>5. q \in Seq(Batch) /\ p \in Seq(Batch) /\ Len(p) <= Len(q) /\ p = SubSeq(q, 1, Len(p))
  BY StoreFacts DEF StoreOK, PrefixOf
<1>6. b # <<>>
  OBVIOUS
<1> HIDE DEF a, b, p, q
<1>7. Head(b) \in Batch /\ Len(a) + 1 \in 1..Len(p) /\ p[Len(a) + 1] = Head(b)
  BY <1>3, <1>6, ConcatMove
<1>8. \A i \in 1..Len(p) : i \in 1..Len(q) /\ p[i] = q[i]
  BY <1>5, PrefixElements
<1>9. \A i \in 1..Len(a) : i \in 1..Len(p) /\ p[i] = a[i]
  <2>1. Len(a) \in Nat /\ Len(b) \in Nat /\ Len(p) = Len(a) + Len(b)
    BY <1>3, ConcatProperties, LenProperties
  <2> QED BY <1>3, <2>1, ConcatProperties
<1>10. \A i \in 1..Len(a) : q[i].write \in applied
  BY <1>3, <1>4, <1>8, <1>9, LenProperties
<1>11. DOMAIN q = 1..Len(q)
  BY <1>5, LenProperties
<1> QED BY <1>1, <1>2, <1>3, <1>7, <1>8, <1>10, <1>11 DEF a, b, p, q

\* The server applies a write and answers.
LEMMA AppliesStep ==
    ASSUME PipelineInv, ServerApplies
    PROVE  /\ PipelineInv'
           /\ user' = user /\ queue' = queue
           /\ Sent < Len(queue[user]) /\ Sent' = Sent + 1
<1> DEFINE s == store.ws
           e == Head(s.out)
           n == Len(s.in) + 1
           ws == [s EXCEPT !.out = Tail(@), !.in = Append(@, e)]
<1>0. /\ StoreOK(store, queue[user], applied, refused) /\ store \in StoreType /\ StreamOK(s)
      /\ s \in StreamType(Message, Message)
  BY StoreFacts
<1>1. /\ s.call /\ s.end = NoEnd /\ s.out # <<>> /\ e # Handshake
      /\ applied' = applied \cup {e.write}
      /\ UNCHANGED <<local, issued, told, refused>>
  BY DEF ServerApplies, Alive
<1>2. /\ store.handshake /\ IsOpen(s) /\ s.in \in Seq(Batch) /\ s.out \in Seq(Batch)
      /\ e \in Batch /\ n \in 1..Len(store.pipeline) /\ n \in DOMAIN queue[user]
      /\ queue[user][n] = e
      /\ \A i \in 1..Len(s.in) : queue[user][i].write \in applied
  BY <1>1, ServerReads
<1>3. store' = [store EXCEPT !.ws = ws]
  BY <1>0 DEF ServerApplies, StoreType, StreamType
<1>4. /\ Append(s.in, e) \o Tail(s.out) = s.in \o s.out
      /\ Append(s.in, e) \in Seq(Message) /\ Tail(s.out) \in Seq(Message)
      /\ \A i \in DOMAIN Append(s.in, e) : Append(s.in, e)[i].write \in applied'
  <2> DEFINE a == s.in
             b == s.out
  <2>1. a \in Seq(Message) /\ b \in Seq(Message) /\ b # <<>> /\ e = Head(b) /\ e \in Message
    BY <1>1, <1>2, StoreFacts DEF Message
  <2>2. \A i \in DOMAIN a : a[i].write \in applied
    BY <1>0, <1>2 DEF StoreOK, InFlight, Flowing
  <2> HIDE DEF a, b, e
  <2>3. /\ Append(a, e) \o Tail(b) = a \o b
        /\ Append(a, e) \in Seq(Message) /\ Tail(b) \in Seq(Message)
    BY <2>1, ConcatMove
  <2>4. \A i \in DOMAIN Append(a, e) : Append(a, e)[i].write \in applied'
    <3>1. DOMAIN a = 1..Len(a)
      BY <2>1, LenProperties
    <3> QED BY <1>1, <2>1, <2>2, <3>1, AppendElements
  <2> QED BY <2>3, <2>4 DEF a, b
<1>5. /\ ws \in StreamType(Message, Message)
      /\ ws.in = Append(s.in, e) /\ ws.out = Tail(s.out) /\ ws.end = NoEnd /\ ws.state = s.state
      /\ ws.tokens = s.tokens /\ ws.timers = s.timers /\ ws.call = s.call /\ ws.ok = s.ok
  <2> HIDE DEF e
  <2> QED BY <1>0, <1>1, <1>4 DEF StreamType
<1> HIDE DEF ws
<1>6. StreamOK(ws) /\ IsOpen(ws) /\ (IsStarted(ws) <=> IsStarted(s))
  BY <1>0, <1>2, <1>5 DEF StreamOK, IsOpen, IsStarted
<1>7. /\ store' \in StoreType /\ store'.ws = ws /\ store'.up = store.up
      /\ store'.pipeline = store.pipeline /\ store'.handshake = store.handshake
  BY <1>0, <1>3, <1>5 DEF StoreType
<1>8. Flowing(store) /\ Flowing(store')
  BY <1>2, <1>6, <1>7 DEF Flowing
<1>9. StreamNeeded(store')
  BY <1>0, <1>5, <1>6, <1>7, <1>8 DEF StoreOK, StreamNeeded
<1>10. InFlight(store', applied', refused)
  BY <1>0, <1>2, <1>4, <1>5, <1>7, <1>8 DEF StoreOK, InFlight
<1>11. StoreOK(store', queue[user], applied', refused)
  BY <1>0, <1>6, <1>7, <1>9, <1>10 DEF StoreOK
<1>12. /\ user' = user /\ queue' = queue /\ nextId' = nextId /\ callbacks' = callbacks
       /\ issued' = issued /\ told' = told /\ refused' = refused
  BY <1>1 DEF local
<1>13. e.write \in Writes /\ e.write <= issued /\ e.write \in 1..issued
  <2>1. e.write \in Writes
    BY <1>2 DEF Batch
  <2>2. e.write <= issued
    BY <1>2, StoreFacts DEF PipelineInv, WritesApart
  <2>3. issued \in Nat
    BY WritePipelineAssumption DEF PipelineInv, TypeOK
  <2> QED BY <2>1, <2>2, <2>3, WritePipelineAssumption DEF Writes
<1>14. TypeOK'
  BY <1>1, <1>7, <1>12, <1>13 DEF PipelineInv, TypeOK, StoreType
<1>15. IdsOrdered' /\ WritesApart' /\ CallbackOfItsWrite' /\ HandshakeOpen'
  <2>1. IdsOrdered'
    BY <1>12 DEF PipelineInv, IdsOrdered
  <2>0. applied' \subseteq 1..issued
    <3> HIDE DEF e
    <3> QED BY <1>1, <1>13 DEF PipelineInv, WritesApart
  <2>2. WritesApart'
    <3> HIDE DEF e, s, n
    <3> QED BY <1>12, <2>0 DEF PipelineInv, WritesApart
  <2>3. CallbackOfItsWrite'
    BY <1>1, <1>12 DEF PipelineInv, CallbackOfItsWrite
  <2>4. HandshakeOpen'
    BY <1>6, <1>7 DEF HandshakeOpen
  <2> QED BY <2>1, <2>2, <2>3, <2>4
<1>16. NoWriteLost'
  <2>1. ASSUME NEW u \in Users, NEW i \in DOMAIN queue[u], NEW j \in DOMAIN queue[u],
               i < j, queue[u][j].write \in applied'
        PROVE  queue[u][i].write \in applied'
    <3>1. CASE queue[u][j].write \in applied
      BY <1>1, <2>1, <3>1 DEF PipelineInv, NoWriteLost
    <3>2. CASE queue[u][j].write = e.write
      <4>1. u = user /\ j = n
        BY <1>2, <3>2, StoreFacts DEF PipelineInv, WritesApart
      <4>2. i \in 1..Len(s.in)
        <5>1. DOMAIN queue[u] = 1..Len(queue[u]) /\ Len(queue[u]) \in Nat /\ Len(s.in) \in Nat
          BY <1>2, <4>1, StoreFacts, LenProperties
        <5> QED BY <2>1, <4>1, <5>1
      <4> QED BY <1>1, <1>2, <4>1, <4>2
    <3> QED BY <1>1, <2>1, <3>1, <3>2
  <2>2. \A w \in 1..issued : w \in applied' \cup refused
                              \/ \E b \in UNION {Entries(queue[u]) : u \in Users} : b.write = w
    BY <1>1 DEF PipelineInv, NoWriteLost
  <2> HIDE DEF e, s
  <2> QED BY <1>12, <2>1, <2>2 DEF NoWriteLost
<1>17. Sent < Len(queue[user]) /\ Sent' = Sent + 1
  <2>1. Sent = Len(s.in) /\ Len(s.in) \in Nat /\ n \in 1..Len(queue[user])
    BY <1>2, StoreFacts, LenProperties DEF Sent
  <2>2. Len(Append(s.in, e)) = Len(s.in) + 1
    <3> HIDE DEF s, e
    <3> QED BY <1>2, AppendElements
  <2>3. Sent' = Len(s.in) + 1
    BY <1>2, <1>5, <1>7, <2>2 DEF Sent
  <2> QED BY <2>1, <2>3, StoreFacts, LenProperties
<1> QED BY <1>11, <1>12, <1>14, <1>15, <1>16, <1>17 DEF PipelineInv

\* The server refuses a write and ends the call.
LEMMA RefusesStep ==
    ASSUME PipelineInv, ServerRefuses
    PROVE  PipelineInv' /\ Kept
<1> DEFINE s == store.ws
           e == Head(s.out)
           ws == [s EXCEPT !.end = "permanent"]
<1>0. /\ StoreOK(store, queue[user], applied, refused) /\ store \in StoreType /\ StreamOK(s)
      /\ s \in StreamType(Message, Message)
  BY StoreFacts
<1>1. /\ s.call /\ s.end = NoEnd /\ s.out # <<>> /\ e # Handshake
      /\ refused' = refused \cup {e.write}
      /\ UNCHANGED <<local, issued, told, applied>>
  BY DEF ServerRefuses, Alive
<1>2. store.handshake /\ IsOpen(s) /\ e \in Batch
  BY <1>1, ServerReads
<1>3. store' = [store EXCEPT !.ws = ws]
  BY <1>0 DEF ServerRefuses, StoreType, StreamType
<1>4. /\ ws \in StreamType(Message, Message)
      /\ ws.in = s.in /\ ws.out = s.out /\ ws.end = "permanent" /\ ws.state = s.state
      /\ ws.tokens = s.tokens /\ ws.timers = s.timers /\ ws.call = s.call /\ ws.ok = s.ok
  BY <1>0 DEF StreamType, Errors
<1> HIDE DEF ws
<1>5. StreamOK(ws) /\ IsOpen(ws) /\ (IsStarted(ws) <=> IsStarted(s))
  BY <1>0, <1>2, <1>4 DEF StreamOK, IsOpen, IsStarted
<1>6. /\ store' \in StoreType /\ store'.ws = ws /\ store'.up = store.up
      /\ store'.pipeline = store.pipeline /\ store'.handshake = store.handshake
  BY <1>0, <1>3, <1>4 DEF StoreType
<1>7. Flowing(store) /\ Flowing(store')
  BY <1>2, <1>5, <1>6 DEF Flowing
<1>8. StreamNeeded(store')
  BY <1>0, <1>4, <1>5, <1>6, <1>7 DEF StoreOK, StreamNeeded
<1>9. InFlight(store', applied, refused')
  BY <1>0, <1>1, <1>2, <1>4, <1>6, <1>7 DEF StoreOK, InFlight
<1>10. StoreOK(store', queue[user], applied, refused')
  BY <1>0, <1>5, <1>6, <1>8, <1>9 DEF StoreOK
<1>11. /\ user' = user /\ queue' = queue /\ nextId' = nextId /\ callbacks' = callbacks
       /\ issued' = issued /\ told' = told /\ applied' = applied
  BY <1>1 DEF local
<1>12. e.write \in Writes
  BY <1>2 DEF Batch
<1>13. TypeOK'
  BY <1>1, <1>6, <1>11, <1>12 DEF PipelineInv, TypeOK, StoreType
<1>14. IdsOrdered' /\ WritesApart' /\ CallbackOfItsWrite' /\ HandshakeOpen' /\ NoWriteLost'
  <2>1. IdsOrdered' /\ WritesApart'
    BY <1>11 DEF PipelineInv, IdsOrdered, WritesApart
  <2>2. CallbackOfItsWrite'
    BY <1>1, <1>11 DEF PipelineInv, CallbackOfItsWrite
  <2>3. HandshakeOpen'
    BY <1>5, <1>6 DEF HandshakeOpen
  <2>4. NoWriteLost'
    BY <1>1, <1>11 DEF PipelineInv, NoWriteLost
  <2> QED BY <2>1, <2>2, <2>3, <2>4
<1>15. Kept
  BY <1>4, <1>6, <1>11 DEF Kept, Sent
<1> QED BY <1>10, <1>11, <1>13, <1>14, <1>15 DEF PipelineInv

-----------------------------------------------------------------------------
(* A batch leaves the queue. *)

\* Without their first elements, a prefix and its sequence are so again.
LEMMA TailPrefix ==
    ASSUME NEW S, NEW q \in Seq(S), NEW p \in Seq(S), p # <<>>, Len(p) <= Len(q),
           p = SubSeq(q, 1, Len(p))
    PROVE  /\ q # <<>> /\ Head(p) = q[1] /\ 1 \in DOMAIN q
           /\ Tail(p) \in Seq(S) /\ Tail(q) \in Seq(S)
           /\ Len(Tail(p)) = Len(p) - 1 /\ Len(Tail(p)) <= Len(Tail(q))
           /\ Tail(p) = SubSeq(Tail(q), 1, Len(Tail(p)))
<1>1. Len(p) \in Nat \ {0} /\ Len(q) \in Nat \ {0}
  BY EmptySeq, LenProperties
<1>2. q # <<>> /\ DOMAIN q = 1..Len(q) /\ 1 \in DOMAIN q
  BY <1>1, LenProperties, EmptySeq
<1>3. \A i \in 1..Len(p) : i \in 1..Len(q) /\ p[i] = q[i]
  BY PrefixElements
<1>4. Head(p) = q[1]
  BY <1>1, <1>3
<1>5. /\ Tail(p) \in Seq(S) /\ Len(Tail(p)) = Len(p) - 1
      /\ \A i \in 1..(Len(p) - 1) : Tail(p)[i] = p[i + 1]
  BY HeadTailProperties
<1>6. /\ Tail(q) \in Seq(S) /\ Len(Tail(q)) = Len(q) - 1
      /\ \A i \in 1..(Len(q) - 1) : Tail(q)[i] = q[i + 1]
  BY <1>2, HeadTailProperties
<1> DEFINE x == Tail(p)
           y == Tail(q)
           n == Len(p) - 1
           z == SubSeq(y, 1, n)
<1>7. /\ x \in Seq(S) /\ y \in Seq(S) /\ Len(x) = n /\ n \in 0..Len(y)
      /\ \A i \in 1..n : x[i] = y[i]
  BY <1>1, <1>3, <1>5, <1>6
<1> HIDE DEF x, y, n
<1>8. z \in Seq(S) /\ Len(z) = n /\ \A i \in 1..n : z[i] = y[i]
  <2>1. n \in Nat /\ Len(y) \in Nat
    BY <1>7, LenProperties
  <2>2. \A i \in 1..n : y[i] \in S
    BY <1>7, <2>1, ElementOfSeq
  <2> QED BY <1>7, <2>1, <2>2, SubSeqProperties
<1> HIDE DEF z
<1>9. x = z
  BY <1>7, <1>8, SeqEqual
<1>10. Len(x) <= Len(y)
  BY <1>7, LenProperties
<1> QED BY <1>2, <1>4, <1>5, <1>6, <1>9, <1>10 DEF x, y, n, z

\* Removing the first element.
LEMMA RemoveAtFirst ==
    ASSUME NEW S, NEW q \in Seq(S), q # <<>>
    PROVE  RemoveAt(q, 1) = Tail(q)
<1>1. Len(q) \in Nat \ {0}
  BY EmptySeq, LenProperties
<1>2. SubSeq(q, 1, 1 - 1) = <<>>
  BY SubSeqEmpty
<1>3. SubSeq(q, 1 + 1, Len(q)) = Tail(q)
  BY TailIsSubSeq
<1>4. Tail(q) \in Seq(S)
  BY HeadTailProperties
<1> QED BY <1>2, <1>3, <1>4, ConcatEmptySeq DEF RemoveAt

\* The oldest batch of the pipeline is the oldest of the queue, and it is the
\* one RemoveMutationBatch removes.
LEMMA OldestLeaves ==
    ASSUME PipelineInv, store.pipeline # <<>>
    PROVE  LET b == Head(store.pipeline)
               q == queue[user]
           IN  /\ b = q[1] /\ 1 \in DOMAIN q /\ b \in Batch /\ IsQueued(b)
               /\ Tail(q) \in Seq(Batch) /\ PrefixOf(Tail(store.pipeline), Tail(q))
               /\ Tail(store.pipeline) \in Seq(Batch)
               /\ RemoveMutationBatch(b) => queue' = [queue EXCEPT ![user] = Tail(q)]
<1> DEFINE b == Head(store.pipeline)
           q == queue[user]
           p == store.pipeline
<1>1. /\ q \in Seq(Batch) /\ p \in Seq(Batch) /\ Len(p) <= Len(q) /\ p = SubSeq(q, 1, Len(p))
      /\ Len(p) <= kMaxPendingWrites /\ Ascending(q) /\ user \in Users /\ p # <<>>
  BY StoreFacts DEF StoreOK, PrefixOf
<1>2. queue = [u \in Users |-> queue[u]]
  BY DEF PipelineInv, TypeOK
<1>3. /\ q # <<>> /\ b = q[1] /\ 1 \in DOMAIN q
      /\ Tail(p) \in Seq(Batch) /\ Tail(q) \in Seq(Batch)
      /\ Len(Tail(p)) = Len(p) - 1 /\ Len(Tail(p)) <= Len(Tail(q))
      /\ Tail(p) = SubSeq(Tail(q), 1, Len(Tail(p)))
  <2> HIDE DEF p, q
  <2> QED BY <1>1, TailPrefix DEF p
<1>4. b \in Batch /\ DOMAIN q = 1..Len(q)
  <2> HIDE DEF p, q, b
  <2> QED BY <1>1, <1>3, LenProperties, ElementOfSeq
<1>5. IsQueued(b)
  BY <1>3 DEF IsQueued
<1>6. PrefixOf(Tail(p), Tail(q))
  <2>1. Len(p) \in Nat /\ kMaxPendingWrites \in Nat
    BY <1>1, LenProperties, WritePipelineAssumption
  <2> HIDE DEF p, q
  <2> QED BY <1>1, <1>3, <2>1 DEF PrefixOf
<1>7. (CHOOSE i \in DOMAIN q : q[i].id = b.id) = 1
  <2>1. \A i \in DOMAIN q : q[i].id = b.id => i = 1
    <3> SUFFICES ASSUME NEW i \in DOMAIN q, q[i].id = b.id, i # 1 PROVE FALSE
      OBVIOUS
    <3> HIDE DEF q, b
    <3>1. 1 < i /\ i \in 1..Len(q) /\ Len(q) \in Nat
      BY <1>1, <1>4, LenProperties
    <3>2. q[1].id < q[i].id
      BY <1>1, <1>3, <3>1 DEF Ascending
    <3>3. q[1].id \in Nat
      BY <1>3, <1>4 DEF Batch
    <3> QED BY <1>3, <3>2, <3>3
  <2> HIDE DEF q, b
  <2> QED BY <1>3, <2>1
<1>8. RemoveAt(q, 1) = Tail(q)
  <2> HIDE DEF q
  <2> QED BY <1>1, <1>3, RemoveAtFirst
<1>9. RemoveMutationBatch(b) => queue' = [queue EXCEPT ![user] = Tail(q)]
  <2> SUFFICES ASSUME RemoveMutationBatch(b)
               PROVE  queue' = [queue EXCEPT ![user] = Tail(q)]
    OBVIOUS
  <2> HIDE DEF b
  <2>1. queue' = [queue EXCEPT ![user] = RemoveAt(q, CHOOSE i \in DOMAIN q : q[i].id = b.id)]
    BY <1>1, <1>2, <1>5, Zenon DEF RemoveMutationBatch
  <2> QED BY <1>7, <1>8, <2>1
<1> QED BY <1>3, <1>4, <1>5, <1>6, <1>9

\* The queues and the callbacks when the oldest batch leaves, applied and told
\* "ok" or refused and told "error": the other batches stay, and no callback
\* of another write is called.
LEMMA BatchLeaves ==
    ASSUME PipelineInv, store.pipeline # <<>>,
           NEW b, b = Head(store.pipeline), NEW status \in {"ok", "error"},
           RemoveMutationBatch(b), NotifyUser(b.id, status),
           status = "ok" => b.write \in applied,
           status = "error" => b.write \in refused,
           UNCHANGED <<user, nextId, issued, applied, refused>>
    PROVE  /\ queue' = [queue EXCEPT ![user] = Tail(queue[user])]
           /\ queue'[user] = Tail(queue[user]) /\ Ascending(Tail(queue[user]))
           /\ queue' \in [Users -> Seq(Batch)]
           /\ callbacks' \in [Users -> SUBSET Batch]
           /\ told' \in [Writes -> {"nothing", "ok", "error"}]
           /\ IdsOrdered' /\ WritesApart' /\ CallbackOfItsWrite' /\ NoWriteLost'
<1> DEFINE q == queue[user]
<1>1. /\ b = q[1] /\ 1 \in DOMAIN q /\ b \in Batch /\ Tail(q) \in Seq(Batch)
      /\ queue' = [queue EXCEPT ![user] = Tail(q)] /\ q \in Seq(Batch) /\ q # <<>>
  BY OldestLeaves, StoreFacts
<1>2. user \in Users /\ queue \in [Users -> Seq(Batch)] /\ queue' \in [Users -> Seq(Batch)]
  BY <1>1 DEF PipelineInv, TypeOK
<1>3. queue'[user] = Tail(q) /\ \A u \in Users : u # user => queue'[u] = queue[u]
  BY <1>1, <1>2
<1>4. /\ Len(Tail(q)) = Len(q) - 1 /\ Len(q) \in Nat \ {0}
      /\ \A i \in 1..(Len(q) - 1) : Tail(q)[i] = q[i + 1]
  <2> HIDE DEF q
  <2> QED BY <1>1, HeadTailProperties, LenProperties, EmptySeq
<1> DEFINE sh(u, i) == IF u = user THEN i + 1 ELSE i
<1>5. \A u \in Users : /\ DOMAIN queue[u] = 1..Len(queue[u]) /\ Len(queue[u]) \in Nat
                       /\ DOMAIN queue'[u] = 1..Len(queue'[u]) /\ Len(queue'[u]) \in Nat
  BY <1>2, LenProperties
<1>6. \A u \in Users : \A i \in DOMAIN queue'[u] :
        sh(u, i) \in DOMAIN queue[u] /\ queue'[u][i] = queue[u][sh(u, i)]
  <2> SUFFICES ASSUME NEW u \in Users, NEW i \in DOMAIN queue'[u]
               PROVE  sh(u, i) \in DOMAIN queue[u] /\ queue'[u][i] = queue[u][sh(u, i)]
    OBVIOUS
  <2>1. CASE u = user
    <3>1. i \in 1..(Len(q) - 1) /\ sh(u, i) = i + 1 /\ DOMAIN q = 1..Len(q)
      BY <1>3, <1>4, <1>5, <2>1
    <3>2. i + 1 \in 1..Len(q) /\ Tail(q)[i] = q[i + 1]
      BY <1>4, <3>1
    <3> QED BY <1>3, <2>1, <3>1, <3>2
  <2>2. CASE u # user
    BY <1>3, <2>2
  <2> QED BY <2>1, <2>2
<1>7. \A u \in Users : \A k \in DOMAIN queue[u] :
        \/ u = user /\ k = 1
        \/ \E i \in DOMAIN queue'[u] : queue'[u][i] = queue[u][k]
  <2> SUFFICES ASSUME NEW u \in Users, NEW k \in DOMAIN queue[u], ~(u = user /\ k = 1)
               PROVE  \E i \in DOMAIN queue'[u] : queue'[u][i] = queue[u][k]
    OBVIOUS
  <2>1. CASE u = user
    <3>1. k - 1 \in 1..(Len(q) - 1) /\ k - 1 + 1 = k
      BY <1>4, <1>5, <2>1
    <3>2. k - 1 \in DOMAIN queue'[u]
      BY <1>3, <1>4, <1>5, <2>1, <3>1
    <3>3. queue'[u][k - 1] = queue[u][k]
      BY <1>3, <1>4, <2>1, <3>1
    <3> QED BY <3>2, <3>3
  <2>2. CASE u # user
    BY <1>3, <2>2
  <2> QED BY <2>1, <2>2
<1>8. \A u \in Users : \A i, j \in DOMAIN queue'[u] :
        (i < j <=> sh(u, i) < sh(u, j)) /\ (i = j <=> sh(u, i) = sh(u, j))
  BY <1>5
<1>9. /\ user' = user /\ nextId' = nextId /\ issued' = issued
      /\ applied' = applied /\ refused' = refused
  OBVIOUS
<1>10. \A k \in DOMAIN q : q[k].id = b.id => k = 1
  <2> SUFFICES ASSUME NEW k \in DOMAIN q, q[k].id = b.id, k # 1 PROVE FALSE
    OBVIOUS
  <2>1. 1 < k
    BY <1>2, <1>5
  <2>2. q[1].id < q[k].id
    BY <1>1, <1>2, <2>1 DEF PipelineInv, IdsOrdered, Ascending
  <2>3. q[1].id \in Nat
    BY <1>1 DEF Batch
  <2> HIDE DEF q
  <2> QED BY <1>1, <2>2, <2>3
<1> HIDE DEF sh, q
<1>11. \A u \in Users : Ascending(queue'[u])
  <2> SUFFICES ASSUME NEW u \in Users, NEW i \in DOMAIN queue'[u], NEW j \in DOMAIN queue'[u],
                      i < j
               PROVE  queue'[u][i].id < queue'[u][j].id
    BY DEF Ascending
  <2>1. Ascending(queue[u])
    BY DEF PipelineInv, IdsOrdered
  <2> QED BY <1>6, <1>8, <2>1 DEF Ascending
<1>12. IdsOrdered'
  <2>1. \A u \in Users : \A i \in DOMAIN queue'[u] : queue'[u][i].id < nextId
    BY <1>6 DEF PipelineInv, IdsOrdered
  <2> QED BY <1>9, <1>11, <2>1 DEF PipelineInv, IdsOrdered
<1>13. WritesApart'
  <2>1. ASSUME NEW u \in Users, NEW v \in Users, NEW i \in DOMAIN queue'[u],
               NEW j \in DOMAIN queue'[v], queue'[u][i].write = queue'[v][j].write
        PROVE  u = v /\ i = j
    <3>1. u = v /\ sh(u, i) = sh(v, j)
      BY <1>6, <2>1 DEF PipelineInv, WritesApart
    <3> QED BY <1>8, <3>1
  <2>2. \A u \in Users : \A i \in DOMAIN queue'[u] : queue'[u][i].write <= issued
    BY <1>6 DEF PipelineInv, WritesApart
  <2>3. applied \subseteq 1..issued
    BY DEF PipelineInv, WritesApart
  <2> QED BY <1>9, <2>1, <2>2, <2>3 DEF WritesApart
<1> DEFINE called == {c \in callbacks[user] : c.id = b.id}
<1>14. /\ callbacks' = [callbacks EXCEPT ![user] = @ \ called]
       /\ told' = [w \in Writes |->
                     IF \E c \in called : c.write = w THEN status ELSE told[w]]
  BY DEF NotifyUser
<1>15. callbacks \in [Users -> SUBSET Batch] /\ told \in [Writes -> {"nothing", "ok", "error"}]
  BY DEF PipelineInv, TypeOK
<1>16. callbacks' \in [Users -> SUBSET Batch] /\ told' \in [Writes -> {"nothing", "ok", "error"}]
  <2> HIDE DEF called
  <2> QED BY <1>2, <1>14, <1>15
<1>17. \A u \in Users : callbacks[u] \subseteq Entries(queue[u])
  BY DEF PipelineInv, CallbackOfItsWrite
<1>18. \A c \in called : c = b
  <2> SUFFICES ASSUME NEW c \in callbacks[user], c.id = b.id PROVE c = b
    OBVIOUS
  <2>1. PICK k \in DOMAIN q : c = q[k]
    BY <1>2, <1>17 DEF Entries, q
  <2> QED BY <1>1, <1>10, <2>1
<1>19. \A u \in Users : callbacks'[u] \subseteq Entries(queue'[u])
  <2> SUFFICES ASSUME NEW u \in Users, NEW c \in callbacks'[u]
               PROVE  c \in Entries(queue'[u])
    OBVIOUS
  <2>1. c \in callbacks[u] /\ (u = user => c.id # b.id)
    BY <1>2, <1>14, <1>15
  <2>2. PICK k \in DOMAIN queue[u] : c = queue[u][k]
    BY <1>17, <2>1 DEF Entries
  <2>3. ~(u = user /\ k = 1)
    BY <1>1, <2>1, <2>2 DEF q
  <2> QED BY <1>7, <2>2, <2>3 DEF Entries
<1>20. CallbackOfItsWrite'
  <2>1. ASSUME NEW w \in Writes
        PROVE  (told'[w] = "ok" => w \in applied) /\ (told'[w] = "error" => w \in refused)
    <3>1. CASE \E c \in called : c.write = w
      <4>1. told'[w] = status /\ w = b.write
        <5> HIDE DEF called
        <5> QED BY <1>14, <1>18, <3>1
      <4> QED BY <4>1
    <3>2. CASE ~(\E c \in called : c.write = w)
      <4>1. told'[w] = told[w]
        <5> HIDE DEF called
        <5> QED BY <1>14, <3>2
      <4> QED BY <4>1 DEF PipelineInv, CallbackOfItsWrite
    <3> QED BY <3>1, <3>2
  <2> QED BY <1>9, <1>19, <2>1 DEF CallbackOfItsWrite
<1>21. NoWriteLost'
  <2>1. ASSUME NEW w \in 1..issued, w \notin applied \cup refused
        PROVE  \E c \in UNION {Entries(queue'[u]) : u \in Users} : c.write = w
    <3>0. PICK u \in Users : \E k \in DOMAIN queue[u] : queue[u][k].write = w
      BY <2>1 DEF PipelineInv, NoWriteLost, Entries
    <3>1. PICK k \in DOMAIN queue[u] : queue[u][k].write = w
      BY <3>0
    <3>2. ~(u = user /\ k = 1)
      BY <1>1, <2>1, <3>1 DEF q
    <3>3. PICK i \in DOMAIN queue'[u] : queue'[u][i].write = w
      BY <1>7, <3>1, <3>2
    <3>4. queue'[u][i] \in Entries(queue'[u])
      BY <3>3 DEF Entries
    <3> QED BY <3>3, <3>4
  <2>2. ASSUME NEW u \in Users, NEW i \in DOMAIN queue'[u], NEW j \in DOMAIN queue'[u],
               i < j, queue'[u][j].write \in applied
        PROVE  queue'[u][i].write \in applied
    BY <1>6, <1>8, <2>2 DEF PipelineInv, NoWriteLost
  <2> QED BY <1>9, <2>1, <2>2 DEF NoWriteLost
<1> QED BY <1>1, <1>2, <1>3, <1>11, <1>12, <1>13, <1>16, <1>20, <1>21 DEF q

\* The client reads a result: it is of the oldest batch of the pipeline, which
\* was applied.
LEMMA ResultStep ==
    ASSUME PipelineInv, MutationResult
    PROVE  /\ PipelineInv'
           /\ user' = user /\ queue' = [queue EXCEPT ![user] = Tail(queue[user])]
           /\ Sent > 0 /\ Sent' = Sent - 1
<1> DEFINE s == store.ws
           b == Head(store.pipeline)
           q == queue[user]
           ws == [s EXCEPT !.in = Tail(@)]
           r == [store EXCEPT !.pipeline = Tail(@),
                              !.ws = HardAssert(ws, IsStarted(ws) /\ IsQueued(b))]
<1>0. /\ StoreOK(store, q, applied, refused) /\ store \in StoreType /\ StreamOK(s)
      /\ s \in StreamType(Message, Message) /\ s.in \in Seq(Message)
      /\ store.handshake = TRUE /\ s.in # <<>> /\ IsOpen(s)
  BY StoreFacts DEF MutationResult, StoreType
<1>1. s.in \in Seq(Batch) /\ s.out \in Seq(Batch) /\ s.in \o s.out = store.pipeline
  BY <1>0, OutIsBatches
<1>2. /\ store.pipeline # <<>> /\ b = Head(s.in) /\ Tail(s.in) \o s.out = Tail(store.pipeline)
      /\ Tail(s.in) \in Seq(Batch)
  <2> DEFINE x == s.in
             y == s.out
  <2>0. x \in Seq(Batch) /\ y \in Seq(Batch) /\ x # <<>>
    BY <1>0, <1>1
  <2> HIDE DEF x, y
  <2>1. x \o y # <<>> /\ Head(x \o y) = Head(x) /\ Tail(x) \o y = Tail(x \o y)
        /\ Tail(x) \in Seq(Batch)
    BY <2>0, ConcatTail
  <2> QED BY <1>1, <2>1 DEF x, y
<1>3. /\ NotifyUser(b.id, "ok") /\ RemoveMutationBatch(b)
      /\ store' = FillWritePipeline(r, queue'[user])
      /\ UNCHANGED <<user, nextId, issued, applied, refused>>
  BY <1>2 DEF MutationResult
<1>4. /\ IsQueued(b) /\ Tail(q) \in Seq(Batch) /\ PrefixOf(Tail(store.pipeline), Tail(q))
      /\ Tail(store.pipeline) \in Seq(Batch)
  BY <1>2, OldestLeaves
<1>5. /\ \A i \in DOMAIN s.in : s.in[i].write \in applied
      /\ b.write \in applied
      /\ \A i \in DOMAIN Tail(s.in) : Tail(s.in)[i].write \in applied
  <2> DEFINE x == s.in
  <2>1. \A i \in DOMAIN x : x[i].write \in applied
    BY <1>0 DEF StoreOK, InFlight, Flowing
  <2>2. x \in Seq(Batch) /\ x # <<>> /\ b = Head(x)
    BY <1>0, <1>1, <1>2
  <2> HIDE DEF x, b
  <2>3. /\ Len(x) \in Nat \ {0} /\ DOMAIN x = 1..Len(x) /\ b = x[1]
        /\ Tail(x) \in Seq(Batch) /\ Len(Tail(x)) = Len(x) - 1
        /\ \A i \in 1..(Len(x) - 1) : Tail(x)[i] = x[i + 1]
    BY <2>2, EmptySeq, LenProperties, HeadTailProperties
  <2>4. b.write \in applied
    BY <2>1, <2>3
  <2>5. \A i \in DOMAIN Tail(x) : i \in 1..(Len(x) - 1) /\ i + 1 \in DOMAIN x
    BY <2>3, LenProperties
  <2>6. \A i \in DOMAIN Tail(x) : Tail(x)[i].write \in applied
    BY <2>1, <2>3, <2>5
  <2> QED BY <2>1, <2>4, <2>6 DEF x, b
<1>6. /\ queue' = [queue EXCEPT ![user] = Tail(q)]
      /\ queue'[user] = Tail(q) /\ Ascending(Tail(q))
      /\ queue' \in [Users -> Seq(Batch)]
      /\ callbacks' \in [Users -> SUBSET Batch]
      /\ told' \in [Writes -> {"nothing", "ok", "error"}]
      /\ IdsOrdered' /\ WritesApart' /\ CallbackOfItsWrite' /\ NoWriteLost'
  BY <1>2, <1>3, <1>5, BatchLeaves
<1>7. Tail(s.in) \in Seq(Message)
  BY <1>0, HeadTailProperties
<1>8. /\ ws \in StreamType(Message, Message)
      /\ ws.in = Tail(s.in) /\ ws.out = s.out /\ ws.end = s.end /\ ws.state = s.state
      /\ ws.tokens = s.tokens /\ ws.timers = s.timers /\ ws.call = s.call /\ ws.ok = s.ok
  BY <1>0, <1>7 DEF StreamType
<1> HIDE DEF ws
<1>9. StreamOK(ws) /\ IsOpen(ws) /\ IsStarted(ws)
  BY <1>0, <1>8 DEF StreamOK, IsOpen, IsStarted
<1>10. HardAssert(ws, IsStarted(ws) /\ IsQueued(b)) = ws
  BY <1>4, <1>8, <1>9 DEF HardAssert, StreamOK, StreamType
<1>11. /\ r \in StoreType /\ r.ws = ws /\ r.up = store.up /\ r.pipeline = Tail(store.pipeline)
       /\ r.handshake = TRUE
  <2> HIDE DEF b
  <2> QED BY <1>0, <1>4, <1>8, <1>10 DEF StoreType
<1> HIDE DEF r
<1>12. Flowing(r) /\ Flowing(store)
  BY <1>0, <1>9, <1>11 DEF Flowing
<1>13. StreamNeeded(r)
  <2>1. store.up = TRUE /\ "idle" \notin s.timers
    <3>1. IsStarted(s)
      BY <1>0 DEF IsStarted
    <3> QED BY <1>0, <1>2, <3>1 DEF StoreOK, StreamNeeded, StoreType
  <2> QED BY <1>8, <1>11, <1>12, <2>1 DEF StreamNeeded
<1>14. InFlight(r, applied, refused)
  BY <1>0, <1>2, <1>5, <1>8, <1>11, <1>12 DEF StoreOK, InFlight
<1>15. StoreOK(r, Tail(q), applied, refused)
  BY <1>4, <1>9, <1>11, <1>13, <1>14 DEF StoreOK
<1>16. /\ StoreOK(store', Tail(q), applied, refused)
       /\ IsOpen(store'.ws) /\ store'.handshake = TRUE /\ store'.ws.in = Tail(s.in)
  <2> DEFINE y == Tail(q)
  <2>1. y \in Seq(Batch) /\ Ascending(y) /\ StoreOK(r, y, applied, refused)
        /\ store' = FillWritePipeline(r, y) /\ IsOpen(r.ws)
    BY <1>3, <1>4, <1>6, <1>9, <1>11, <1>15
  <2> HIDE DEF y
  <2>2. StoreOK(store', y, applied, refused) /\ IsOpen(store'.ws)
        /\ store'.handshake = r.handshake /\ store'.ws.in = r.ws.in
    BY <2>1, FillOK
  <2> QED BY <1>8, <1>11, <2>2 DEF y
<1>17. TypeOK'
  BY <1>3, <1>6, <1>16 DEF PipelineInv, TypeOK, StoreOK, StoreType
<1>18. StoreOK(store, queue[user], applied, refused)'
  BY <1>3, <1>6, <1>16
<1>19. Sent > 0 /\ Sent' = Sent - 1
  <2>1. Len(Tail(s.in)) = Len(s.in) - 1 /\ Len(s.in) \in Nat \ {0}
    BY <1>0, HeadTailProperties, LenProperties, EmptySeq
  <2> QED BY <1>0, <1>16, <2>1 DEF Sent
<1> QED BY <1>3, <1>6, <1>16, <1>17, <1>18, <1>19 DEF PipelineInv, HandshakeOpen

\* The client reads the final status of a call: the write refused is the
\* oldest of the pipeline.
LEMMA FinalStep ==
    ASSUME PipelineInv, FinalStatus
    PROVE  /\ PipelineInv'
           /\ user' = user /\ queue' = [queue EXCEPT ![user] = Tail(queue[user])]
           /\ queue[user] # <<>> /\ Sent = 0 /\ Sent' = 0
<1> DEFINE s == store.ws
           c == [store EXCEPT !.ws = Close(@, "permanent")]
           b == Head(store.pipeline)
           q == queue[user]
           ws == HardAssert(InhibitBackoff(c.ws), IsQueued(b))
           r == [c EXCEPT !.pipeline = Tail(@), !.ws = ws]
<1>0. /\ StoreOK(store, q, applied, refused) /\ store \in StoreType /\ StreamOK(s)
      /\ s.end # NoEnd /\ s.in = <<>>
  BY StoreFacts DEF FinalStatus
<1>1. /\ Flowing(store) /\ s.end = "permanent" /\ s.out # <<>> /\ Head(s.out).write \in refused
      /\ IsStarted(s) /\ store.handshake
  BY <1>0 DEF StoreOK, InFlight, Flowing, IsStarted
<1>2. store.pipeline = s.out
  <2>1. s.out \in Seq(Batch) /\ <<>> \o s.out = store.pipeline
    BY <1>0, <1>1, OutIsBatches
  <2> QED BY <2>1, ConcatEmptySeq
<1>3. store.pipeline # <<>> /\ b.write \in refused /\ Refuses(s.end)
  BY <1>1, <1>2 DEF Refuses, IsPermanentWriteError, IsPermanentError
<1>4. /\ StoreOK(c, q, applied, refused) /\ ~IsStarted(c.ws) /\ ~IsOpen(c.ws)
      /\ c.up = store.up /\ c.pipeline = store.pipeline /\ c.handshake = store.handshake
  <2> HIDE DEF q
  <2> QED BY ZenonT(60), <1>0, <1>1, ClosedOK
<1>5. /\ RemoveMutationBatch(b) /\ NotifyUser(b.id, "error")
      /\ store' = AfterClose(FillWritePipeline(r, queue'[user]))
      /\ UNCHANGED <<user, nextId, issued, applied, refused>>
  <2>1. StreamFinished("permanent") /\ Refuses("permanent") /\ UNCHANGED <<applied, refused>>
    BY <1>1, <1>3 DEF FinalStatus
  <2>2. Head(c.pipeline) = b
    BY <1>4
  <2> QED BY <2>1, <2>2 DEF StreamFinished
<1> HIDE DEF c
<1>6. /\ IsQueued(b) /\ Tail(q) \in Seq(Batch) /\ PrefixOf(Tail(store.pipeline), Tail(q))
      /\ Tail(store.pipeline) \in Seq(Batch)
  BY <1>3, OldestLeaves
<1>7. /\ queue' = [queue EXCEPT ![user] = Tail(q)]
      /\ queue'[user] = Tail(q) /\ Ascending(Tail(q))
      /\ queue' \in [Users -> Seq(Batch)]
      /\ callbacks' \in [Users -> SUBSET Batch]
      /\ told' \in [Writes -> {"nothing", "ok", "error"}]
      /\ IdsOrdered' /\ WritesApart' /\ CallbackOfItsWrite' /\ NoWriteLost'
  BY <1>3, <1>5, BatchLeaves
<1>8. StreamOK(InhibitBackoff(c.ws)) /\ ~IsStarted(InhibitBackoff(c.ws))
  BY <1>4, InhibitOK DEF StoreOK
<1>9. ws = InhibitBackoff(c.ws)
  <2> DEFINE y == InhibitBackoff(c.ws)
  <2>1. y \in StreamType(Message, Message) /\ y.ok = TRUE
    BY <1>8 DEF StreamOK, StreamType
  <2> HIDE DEF y
  <2>2. HardAssert(y, IsQueued(b)) = y
    BY <1>6, <2>1 DEF HardAssert, StreamType
  <2> QED BY <2>2 DEF y
<1> HIDE DEF ws
<1>10. StreamOK(ws) /\ ~IsStarted(ws) /\ ws \in StreamType(Message, Message)
  BY <1>8, <1>9 DEF StreamOK
<1>11. /\ r \in StoreType /\ r.ws = ws /\ r.up = store.up
       /\ r.pipeline = Tail(store.pipeline)
  BY <1>4, <1>6, <1>10 DEF StoreOK, StoreType
<1> HIDE DEF r
<1>12. StoreOK(r, Tail(q), applied, refused)
  <2>1. r.up
    BY <1>0, <1>1, <1>11 DEF StoreOK, StreamNeeded
  <2> DEFINE y == Tail(q)
  <2>2. PrefixOf(r.pipeline, y) /\ StreamOK(r.ws) /\ ~IsStarted(r.ws)
    BY <1>6, <1>10, <1>11
  <2> HIDE DEF y
  <2>3. StoreOK(r, y, applied, refused)
    BY <1>11, <2>1, <2>2, Stopped
  <2> QED BY <2>3 DEF y
<1>13. /\ StoreOK(store', Tail(q), applied, refused)
       /\ ~store'.handshake
  <2> DEFINE y == Tail(q)
             f == FillWritePipeline(r, y)
  <2>1. y \in Seq(Batch) /\ Ascending(y) /\ StoreOK(r, y, applied, refused)
        /\ store' = AfterClose(f) /\ ~IsOpen(r.ws)
    BY <1>5, <1>6, <1>7, <1>10, <1>11, <1>12 DEF IsStarted
  <2> HIDE DEF y
  <2>2. StoreOK(f, y, applied, refused) /\ ~IsOpen(f.ws)
    BY <2>1, FillOK
  <2> HIDE DEF f
  <2>3. StoreOK(store', y, applied, refused) /\ ~store'.handshake
    BY <2>1, <2>2, AfterCloseOK
  <2> QED BY <2>3 DEF y
<1>14. TypeOK'
  BY <1>5, <1>7, <1>13 DEF PipelineInv, TypeOK, StoreOK, StoreType
<1>15. StoreOK(store, queue[user], applied, refused)'
  BY <1>5, <1>7, <1>13
<1>16. Sent = 0 /\ Sent' = 0
  BY <1>0, <1>13 DEF Sent
<1>17. q # <<>>
  BY <1>3, OldestLeaves
<1> QED BY <1>5, <1>7, <1>13, <1>14, <1>15, <1>16, <1>17 DEF PipelineInv, HandshakeOpen

-----------------------------------------------------------------------------
(* The app writes, another user signs in, the process is killed. *)

\* A pipeline stays the oldest part of a queue that grows at its end.
LEMMA PrefixOfLonger ==
    ASSUME NEW p \in Seq(Batch), NEW q \in Seq(Batch), NEW e \in Batch, PrefixOf(p, q)
    PROVE  PrefixOf(p, Append(q, e))
<1> DEFINE n == Len(p)
           a == Append(q, e)
           x == SubSeq(q, 1, n)
           y == SubSeq(a, 1, n)
<1>1. n \in 0..Len(q) /\ n <= kMaxPendingWrites /\ p = x /\ Len(q) \in Nat
  BY LenProperties DEF PrefixOf
<1>2. a \in Seq(Batch) /\ Len(a) = Len(q) + 1 /\ \A i \in 1..Len(q) : a[i] = q[i]
  BY AppendElements
<1> HIDE DEF n, a
<1>3. /\ \A i \in 1..n : q[i] \in Batch /\ a[i] \in Batch /\ a[i] = q[i]
      /\ n \in Nat /\ n <= Len(q) /\ n <= Len(a)
  BY <1>1, <1>2, ElementOfSeq
<1>4. x \in Seq(Batch) /\ Len(x) = n /\ \A i \in 1..n : x[i] = q[i]
  BY <1>1, <1>3, SubSeqProperties
<1>5. y \in Seq(Batch) /\ Len(y) = n /\ \A i \in 1..n : y[i] = a[i]
  BY <1>1, <1>2, <1>3, SubSeqProperties
<1> HIDE DEF x, y
<1>6. x = y
  BY <1>3, <1>4, <1>5, SeqEqual
<1> QED BY <1>1, <1>3, <1>6 DEF PrefixOf, n, a, y

\* The app issues a write.
LEMMA IssueStep ==
    ASSUME PipelineInv, IssueWrite
    PROVE  /\ PipelineInv'
           /\ \E w \in [id : 1..(MaxWrites + 1), write : Writes] :
                queue' = [queue EXCEPT ![user] = Append(queue[user], w)]
           /\ user' = user /\ Sent' = Sent
<1> DEFINE batch == [id |-> nextId, write |-> issued + 1]
           q == queue[user]
           a == Append(q, batch)
<1>1. /\ issued < MaxWrites /\ issued' = issued + 1 /\ nextId' = nextId + 1
      /\ queue' = [queue EXCEPT ![user] = a]
      /\ user' = user /\ told' = told /\ applied' = applied /\ refused' = refused
  BY DEF IssueWrite
<1>2. issued \in Nat /\ nextId \in Nat \ {0} /\ MaxWrites \in Nat
  BY WritePipelineAssumption DEF PipelineInv, TypeOK
<1>3. batch \in Batch /\ batch.id = nextId /\ batch.write = issued + 1
  BY <1>1, <1>2 DEF Batch, Writes
<1>4. /\ StoreOK(store, q, applied, refused) /\ q \in Seq(Batch) /\ Ascending(q)
      /\ (store.handshake => IsOpen(store.ws)) /\ user \in Users
  BY StoreFacts
<1> HIDE DEF batch
<1>5. /\ a \in Seq(Batch) /\ Len(a) = Len(q) + 1 /\ a[Len(q) + 1] = batch
      /\ \A i \in 1..Len(q) : a[i] = q[i]
      /\ DOMAIN a = 1..(Len(q) + 1) /\ DOMAIN q = 1..Len(q) /\ Len(q) \in Nat
  BY <1>3, <1>4, AppendElements, LenProperties
<1>6. queue \in [Users -> Seq(Batch)] /\ queue' \in [Users -> Seq(Batch)]
  <2>1. queue \in [Users -> Seq(Batch)]
    BY DEF PipelineInv, TypeOK
  <2> HIDE DEF a
  <2> QED BY <1>1, <1>5, <2>1
<1>7. queue'[user] = a /\ \A u \in Users : u # user => queue'[u] = queue[u]
  BY <1>1, <1>4, <1>6
<1> HIDE DEF a
<1>8. \A u \in Users : \A i \in DOMAIN queue'[u] :
        \/ i \in DOMAIN queue[u] /\ queue'[u][i] = queue[u][i]
        \/ u = user /\ i = Len(q) + 1 /\ queue'[u][i] = batch
  BY <1>5, <1>7
<1>9. \A u \in Users : \A i \in DOMAIN queue[u] :
        i \in DOMAIN queue'[u] /\ queue'[u][i] = queue[u][i]
  BY <1>5, <1>7
<1>10. \A u \in Users : \A i \in DOMAIN queue[u] :
         /\ queue[u][i].id \in Nat /\ queue[u][i].write \in Nat
         /\ queue[u][i].id < nextId /\ queue[u][i].write <= issued /\ i \in Nat
  <2> SUFFICES ASSUME NEW u \in Users, NEW i \in DOMAIN queue[u]
               PROVE  /\ queue[u][i].id \in Nat /\ queue[u][i].write \in Nat
                      /\ queue[u][i].id < nextId /\ queue[u][i].write <= issued /\ i \in Nat
    OBVIOUS
  <2>1. queue[u] \in Seq(Batch)
    BY <1>6
  <2>2. queue[u][i] \in Batch /\ i \in Nat
    BY <2>1, ElementOfSeq, LenProperties
  <2>3. \A b \in Batch : b.id \in Nat /\ b.write \in Nat
    BY DEF Batch, Writes
  <2> QED BY <2>2, <2>3 DEF PipelineInv, IdsOrdered, WritesApart
<1> HIDE DEF q
<1>11. \A u \in Users : Ascending(queue'[u])
  <2> SUFFICES ASSUME NEW u \in Users, NEW i \in DOMAIN queue'[u], NEW j \in DOMAIN queue'[u],
                      i < j
               PROVE  queue'[u][i].id < queue'[u][j].id
    BY DEF Ascending
  <2>1. CASE j \in DOMAIN queue[u] /\ i \in DOMAIN queue[u]
    <3>1. queue[u][i].id < queue[u][j].id
      BY <2>1 DEF PipelineInv, IdsOrdered, Ascending
    <3> QED BY <1>9, <2>1, <3>1
  <2>2. CASE u = user /\ j = Len(q) + 1 /\ i \in DOMAIN queue[u] /\ queue'[u][j] = batch
    BY <1>3, <1>9, <1>10, <2>2
  <2>3. i \in DOMAIN queue[u]
    <3>1. CASE u = user /\ i = Len(q) + 1
      <4>1. j \in 1..(Len(q) + 1)
        BY <1>5, <1>7, <3>1
      <4> QED BY <1>5, <3>1, <4>1
    <3> QED BY <1>8, <3>1
  <2> QED BY <1>8, <2>1, <2>2, <2>3
<1>12. IdsOrdered'
  <2>1. \A u \in Users : \A i \in DOMAIN queue'[u] : queue'[u][i].id < nextId + 1
    <3> SUFFICES ASSUME NEW u \in Users, NEW i \in DOMAIN queue'[u]
                 PROVE  queue'[u][i].id < nextId + 1
      OBVIOUS
    <3>1. CASE i \in DOMAIN queue[u] /\ queue'[u][i] = queue[u][i]
      <4>1. queue[u][i].id < nextId /\ queue[u][i].id \in Nat
        BY <1>10, <3>1
      <4> QED BY <1>2, <3>1, <4>1
    <3>2. CASE queue'[u][i] = batch
      BY <1>2, <1>3, <3>2
    <3> QED BY <1>8, <3>1, <3>2
  <2>2. nextId <= issued + 1
    BY DEF PipelineInv, IdsOrdered
  <2>3. nextId' <= issued' + 1
    BY <1>1, <1>2, <2>2
  <2> QED BY <1>1, <1>11, <2>1, <2>3 DEF IdsOrdered
<1>13. WritesApart'
  <2>1. ASSUME NEW u \in Users, NEW v \in Users, NEW i \in DOMAIN queue'[u],
               NEW j \in DOMAIN queue'[v], queue'[u][i].write = queue'[v][j].write
        PROVE  u = v /\ i = j
    <3>1. CASE i \in DOMAIN queue[u] /\ j \in DOMAIN queue[v]
      BY <1>9, <2>1, <3>1 DEF PipelineInv, WritesApart
    <3>2. ASSUME NEW x \in Users, NEW k \in DOMAIN queue[x]
          PROVE  queue'[x][k].write # batch.write
      <4>1. queue[x][k].write <= issued /\ queue[x][k].write \in Nat
        BY <1>10
      <4> QED BY <1>2, <1>3, <1>9, <4>1
    <3> QED BY <1>8, <2>1, <3>1, <3>2
  <2>2. \A u \in Users : \A i \in DOMAIN queue'[u] : queue'[u][i].write <= issued + 1
    <3> SUFFICES ASSUME NEW u \in Users, NEW i \in DOMAIN queue'[u]
                 PROVE  queue'[u][i].write <= issued + 1
      OBVIOUS
    <3>1. CASE i \in DOMAIN queue[u] /\ queue'[u][i] = queue[u][i]
      <4>1. queue[u][i].write <= issued /\ queue[u][i].write \in Nat
        BY <1>10, <3>1
      <4> QED BY <1>2, <3>1, <4>1
    <3>2. CASE queue'[u][i] = batch
      BY <1>2, <1>3, <3>2
    <3> QED BY <1>8, <3>1, <3>2
  <2>3. applied \subseteq 1..(issued + 1)
    <3>1. applied \subseteq 1..issued
      BY DEF PipelineInv, WritesApart
    <3> QED BY <1>2, <3>1
  <2> QED BY <1>1, <2>1, <2>2, <2>3 DEF WritesApart
<1>14. \A u \in Users : callbacks[u] \subseteq Entries(queue[u])
  BY DEF PipelineInv, CallbackOfItsWrite
<1>15. callbacks' = [callbacks EXCEPT ![user] = @ \cup {batch}]
  <2>1. ASSUME NEW c \in callbacks[user], c.id = nextId PROVE FALSE
    <3>1. PICK k \in DOMAIN queue[user] : c = queue[user][k]
      BY <1>4, <1>14, <2>1 DEF Entries
    <3>2. c.id < nextId /\ c.id \in Nat
      BY <1>4, <1>10, <3>1
    <3> QED BY <2>1, <3>2
  <2> QED BY <2>1 DEF IssueWrite, batch
<1>16. callbacks \in [Users -> SUBSET Batch] /\ callbacks' \in [Users -> SUBSET Batch]
  <2>1. callbacks \in [Users -> SUBSET Batch]
    BY DEF PipelineInv, TypeOK
  <2> QED BY <1>3, <1>4, <1>15, <2>1
<1>17. CallbackOfItsWrite'
  <2>1. \A u \in Users : Entries(queue[u]) \subseteq Entries(queue'[u])
    BY <1>9 DEF Entries
  <2>2. batch \in Entries(queue'[user])
    BY <1>5, <1>7 DEF Entries
  <2>3. \A u \in Users : callbacks'[u] \subseteq Entries(queue'[u])
    BY <1>4, <1>14, <1>15, <1>16, <2>1, <2>2
  <2> QED BY <1>1, <2>3 DEF PipelineInv, CallbackOfItsWrite
<1>18. NoWriteLost'
  <2>1. ASSUME NEW w \in 1..(issued + 1), w \notin applied \cup refused
        PROVE  \E c \in UNION {Entries(queue'[u]) : u \in Users} : c.write = w
    <3>1. CASE w \in 1..issued
      <4>1. PICK u \in Users : \E k \in DOMAIN queue[u] : queue[u][k].write = w
        BY <2>1, <3>1 DEF PipelineInv, NoWriteLost, Entries
      <4>2. PICK k \in DOMAIN queue'[u] : queue'[u][k].write = w
        BY <1>9, <4>1
      <4>3. queue'[u][k] \in Entries(queue'[u])
        BY <4>2 DEF Entries
      <4> QED BY <4>2, <4>3
    <3>2. CASE w = issued + 1
      <4>1. batch \in Entries(queue'[user])
        BY <1>5, <1>7 DEF Entries
      <4> QED BY <1>3, <1>4, <3>2, <4>1
    <3> QED BY <1>2, <3>1, <3>2
  <2>2. ASSUME NEW u \in Users, NEW i \in DOMAIN queue'[u], NEW j \in DOMAIN queue'[u],
               i < j, queue'[u][j].write \in applied
        PROVE  queue'[u][i].write \in applied
    <3>1. queue'[u][j] # batch
      <4>1. issued + 1 \notin applied
        <5>1. applied \subseteq 1..issued
          BY DEF PipelineInv, WritesApart
        <5> QED BY <1>2, <5>1
      <4> QED BY <1>3, <2>2, <4>1
    <3>2. j \in DOMAIN queue[u]
      BY <1>8, <3>1
    <3>3. i \in DOMAIN queue[u]
      <4>1. CASE u = user /\ i = Len(q) + 1
        <5>1. j \in 1..(Len(q) + 1)
          BY <1>5, <1>7, <4>1
        <5> QED BY <1>5, <2>2, <4>1, <5>1
      <4> QED BY <1>8, <4>1
    <3> QED BY <1>9, <2>2, <3>2, <3>3 DEF PipelineInv, NoWriteLost
  <2> QED BY <1>1, <2>1, <2>2 DEF NoWriteLost
<1>19. /\ StoreOK(store', a, applied, refused) /\ (store'.handshake => IsOpen(store'.ws))
       /\ Sent' = Sent
  <2>1. PrefixOf(store.pipeline, a)
    <3>1. PrefixOf(store.pipeline, q) /\ store.pipeline \in Seq(Batch)
      BY <1>4 DEF StoreOK, StoreType
    <3> QED BY <1>3, <1>4, <3>1, PrefixOfLonger DEF a
  <2>2. StoreOK(store, a, applied, refused)
    BY <1>4, <2>1 DEF StoreOK
  <2>3. Ascending(a)
    BY <1>4, <1>7, <1>11
  <2>4. store' = FillWritePipeline(store, a)
    BY <1>7 DEF IssueWrite
  <2>5. /\ StoreOK(store', a, applied, refused) /\ store'.handshake = store.handshake
        /\ store'.ws.in = store.ws.in
        /\ IsOpen(store'.ws) <=> IsOpen(store.ws)
    BY <1>5, <2>2, <2>3, <2>4, FillOK
  <2>6. Sent' = Sent
    BY <2>5 DEF Sent
  <2> QED BY <1>4, <2>5, <2>6
<1>20. TypeOK'
  <2>1. issued' \in 0..MaxWrites /\ nextId' \in Nat \ {0}
    BY <1>1, <1>2
  <2>2. store' \in StoreType
    BY <1>19 DEF StoreOK
  <2> QED BY <1>1, <1>6, <1>16, <2>1, <2>2 DEF PipelineInv, TypeOK, StoreType
<1>21. StoreOK(store, queue[user], applied, refused)'
  BY <1>1, <1>7, <1>19
<1>22. \E w \in [id : 1..(MaxWrites + 1), write : Writes] :
         queue' = [queue EXCEPT ![user] = Append(queue[user], w)]
  <2>1. nextId <= issued + 1
    BY DEF PipelineInv, IdsOrdered
  <2>2. batch \in [id : 1..(MaxWrites + 1), write : Writes]
    BY <1>1, <1>2, <2>1 DEF batch, Writes
  <2> QED BY <1>1, <2>2 DEF a, q
<1> QED BY <1>1, <1>12, <1>13, <1>17, <1>18, <1>19, <1>20, <1>21, <1>22
        DEF PipelineInv, HandshakeOpen

\* The id a newly loaded queue starts from is above every id on disk.
LEMMA NextIdLoaded ==
    ASSUME PipelineInv
    PROVE  LET n == LoadNextBatchIdFromDb(queue)
           IN  /\ n \in Nat \ {0} /\ n <= nextId
               /\ \A u \in Users : \A i \in DOMAIN queue[u] : queue[u][i].id < n
<1> DEFINE S == {0} \cup {b.id : b \in UNION {Entries(queue[u]) : u \in Users}}
           m == nextId - 1
<1>1. nextId \in Nat \ {0} /\ m \in Nat
  BY DEF PipelineInv, TypeOK
<1>2. ASSUME NEW u \in Users, NEW i \in DOMAIN queue[u]
      PROVE  queue[u][i].id \in Nat /\ queue[u][i].id <= m
  <2>1. queue[u] \in Seq(Batch)
    BY DEF PipelineInv, TypeOK
  <2>2. queue[u][i] \in Batch
    BY <2>1, ElementOfSeq, LenProperties
  <2>3. queue[u][i].id \in Nat
    BY <2>2 DEF Batch
  <2>4. queue[u][i].id < nextId
    BY DEF PipelineInv, IdsOrdered
  <2> QED BY <1>1, <2>3, <2>4
<1>3. \A x \in S : x \in Nat /\ x <= m
  <2> SUFFICES ASSUME NEW x \in S, x # 0 PROVE x \in Nat /\ x <= m
    BY <1>1
  <2>1. PICK b \in UNION {Entries(queue[u]) : u \in Users} : x = b.id
    OBVIOUS
  <2>2. PICK u \in Users : b \in Entries(queue[u])
    BY <2>1
  <2>3. PICK i \in DOMAIN queue[u] : b = queue[u][i]
    BY <2>2 DEF Entries
  <2> QED BY <1>2, <2>1, <2>3
<1>4. \A u \in Users : \A i \in DOMAIN queue[u] : queue[u][i].id \in S
  BY DEF Entries
<1>5. S # {} /\ S \in SUBSET Nat
  BY <1>3
<1> HIDE DEF S, m
<1>6. Max(S) \in S /\ \A x \in S : x <= Max(S)
  BY <1>1, <1>3, <1>5, MaxOfBounded
<1>7. Max(S) \in Nat /\ Max(S) <= m
  BY <1>3, <1>6
<1>8. LoadNextBatchIdFromDb(queue) = 1 + Max(S)
  BY DEF LoadNextBatchIdFromDb, S
<1>9. 1 + Max(S) \in Nat \ {0} /\ 1 + Max(S) <= nextId
  BY <1>1, <1>7 DEF m
<1>10. \A u \in Users : \A i \in DOMAIN queue[u] : queue[u][i].id < 1 + Max(S)
  <2> SUFFICES ASSUME NEW u \in Users, NEW i \in DOMAIN queue[u]
               PROVE  queue[u][i].id < 1 + Max(S)
    OBVIOUS
  <2>1. queue[u][i].id <= Max(S) /\ queue[u][i].id \in Nat
    BY <1>2, <1>4, <1>6
  <2> QED BY <1>7, <2>1
<1> QED BY <1>8, <1>9, <1>10

\* A step that changes the user, the callbacks and RemoteStore.
LEMMA UserStep ==
    ASSUME PipelineInv, user' \in Users, nextId' \in Nat \ {0}, nextId' <= nextId,
           \A u \in Users : \A i \in DOMAIN queue[u] : queue[u][i].id < nextId',
           callbacks' \in [Users -> SUBSET Batch],
           \A u \in Users : callbacks'[u] \subseteq callbacks[u],
           StoreOK(store', queue[user'], applied, refused), ~store'.handshake,
           UNCHANGED <<queue, history>>
    PROVE  PipelineInv' /\ Sent' = 0 /\ queue' = queue /\ user' \in Users
<1>1. /\ queue' = queue /\ issued' = issued /\ told' = told
      /\ applied' = applied /\ refused' = refused
  BY DEF history
<1>2. TypeOK'
  BY <1>1 DEF PipelineInv, TypeOK, StoreOK, StoreType
<1>3. StoreOK(store, queue[user], applied, refused)'
  BY <1>1
<1>4. IdsOrdered'
  <2>1. nextId <= issued + 1 /\ nextId \in Nat /\ issued \in Nat
    BY WritePipelineAssumption DEF PipelineInv, IdsOrdered, TypeOK
  <2>2. nextId' <= issued + 1
    BY <2>1
  <2> QED BY <1>1, <2>2 DEF PipelineInv, IdsOrdered
<1>5. WritesApart' /\ NoWriteLost'
  BY <1>1 DEF PipelineInv, WritesApart, NoWriteLost
<1>6. CallbackOfItsWrite'
  BY <1>1 DEF PipelineInv, CallbackOfItsWrite
<1> QED BY <1>1, <1>2, <1>3, <1>4, <1>5, <1>6 DEF PipelineInv, HandshakeOpen, Sent

\* Another user signs in, or the token is refreshed.
LEMMA CredentialStep ==
    ASSUME PipelineInv, NEW u \in Users, HandleCredentialChange(u)
    PROVE  PipelineInv' /\ Sent' = 0 /\ queue' = queue /\ user' \in Users
<1> DEFINE q == queue[u]
<1>1. /\ user' = u /\ nextId' = IF u = user THEN nextId ELSE LoadNextBatchIdFromDb(queue)
      /\ store' = IF store.up THEN RestartNetwork(store, q) ELSE store
      /\ UNCHANGED <<queue, callbacks, history>>
  BY DEF HandleCredentialChange
<1>2. q \in Seq(Batch) /\ Ascending(q)
  BY DEF PipelineInv, TypeOK, IdsOrdered
<1>3. /\ StoreOK(store, queue[user], applied, refused) /\ store \in StoreType
      /\ (store.handshake => IsOpen(store.ws)) /\ StreamOK(store.ws)
  BY StoreFacts
<1> HIDE DEF q
<1>4. StoreOK(store', q, applied, refused) /\ ~store'.handshake
  <2>1. CASE store.up
    BY <1>1, <1>2, <1>3, <2>1, RestartOK
  <2>2. CASE ~store.up
    <3>1. store.pipeline = <<>> /\ ~IsStarted(store.ws)
      BY <1>3, <2>2 DEF StoreOK, StreamNeeded
    <3>2. ~store.handshake
      BY <1>3, <3>1 DEF IsStarted
    <3>3. StoreOK(store, q, applied, refused)
      BY <1>2, <1>3, <3>1, EmptyPrefix, Stopped
    <3> QED BY <1>1, <2>2, <3>2, <3>3
  <2> QED BY <2>1, <2>2
<1>5. /\ nextId' \in Nat \ {0} /\ nextId' <= nextId
      /\ \A v \in Users : \A i \in DOMAIN queue[v] : queue[v][i].id < nextId'
  <2>1. CASE u = user
    BY <1>1, <2>1 DEF PipelineInv, TypeOK, IdsOrdered
  <2>2. CASE u # user
    BY <1>1, <2>2, NextIdLoaded
  <2> QED BY <2>1, <2>2
<1>6. callbacks' = callbacks /\ callbacks \in [Users -> SUBSET Batch]
  BY <1>1 DEF PipelineInv, TypeOK
<1> QED BY <1>1, <1>4, <1>5, <1>6, UserStep DEF q

\* A remote store as the process starts it.
LEMMA NewStoreOK ==
    ASSUME NEW q \in Seq(Batch), NEW done, NEW denied, Ascending(q)
    PROVE  LET t == FillWritePipeline(NewStore, q)
           IN  StoreOK(t, q, done, denied) /\ ~t.handshake
<1> DEFINE r == NewStore
<1>1. /\ r \in StoreType /\ r.up = TRUE /\ r.pipeline = <<>> /\ r.handshake = FALSE
      /\ r.ws = NewStream
  <2>1. <<>> \in Seq(Message) /\ <<>> \in Seq(Batch)
    BY EmptySeq
  <2> QED BY <2>1 DEF NewStore, NewStream, StoreType, StreamType, States, Timers
<1>2. StreamOK(NewStream) /\ ~IsStarted(NewStream)
  <2>1. NewStream \in StreamType(Message, Message)
    BY <1>1 DEF StoreType
  <2> QED BY <2>1 DEF NewStream, StreamOK, IsStarted, IsOpen
<1> HIDE DEF r
<1>3. StoreOK(r, q, done, denied)
  BY <1>1, <1>2, EmptyPrefix, Stopped
<1>4. StoreOK(FillWritePipeline(r, q), q, done, denied) /\ ~FillWritePipeline(r, q).handshake
  BY <1>1, <1>3, FillOK
<1> QED BY <1>4 DEF r

\* The process is killed and launched again.
LEMMA KillStep ==
    ASSUME PipelineInv, NEW u \in Users, Kill(u)
    PROVE  PipelineInv' /\ Sent' = 0 /\ queue' = queue /\ user' \in Users
<1> DEFINE q == queue[u]
<1>1. /\ user' = u /\ nextId' = LoadNextBatchIdFromDb(queue)
      /\ callbacks' = [v \in Users |-> {}]
      /\ store' = FillWritePipeline(NewStore, q)
      /\ UNCHANGED <<queue, history>>
  BY DEF Kill
<1>2. q \in Seq(Batch) /\ Ascending(q)
  BY DEF PipelineInv, TypeOK, IdsOrdered
<1> HIDE DEF q
<1>3. StoreOK(store', q, applied, refused) /\ ~store'.handshake
  BY <1>1, <1>2, NewStoreOK
<1>4. /\ nextId' \in Nat \ {0} /\ nextId' <= nextId
      /\ \A v \in Users : \A i \in DOMAIN queue[v] : queue[v][i].id < nextId'
  BY <1>1, NextIdLoaded
<1>5. callbacks' \in [Users -> SUBSET Batch] /\ \A v \in Users : callbacks'[v] \subseteq callbacks[v]
  BY <1>1
<1> QED BY <1>1, <1>3, <1>4, <1>5, UserStep DEF q

\* The first launch.
LEMMA InitOK ==
    ASSUME Init
    PROVE  PipelineInv
<1>1. /\ user \in Users /\ queue = [u \in Users |-> <<>>]
      /\ nextId = LoadNextBatchIdFromDb(queue)
      /\ callbacks = [u \in Users |-> {}] /\ store = FillWritePipeline(NewStore, <<>>)
      /\ issued = 0 /\ told = [w \in Writes |-> "nothing"] /\ applied = {} /\ refused = {}
  BY DEF Init
<1>2. <<>> \in Seq(Batch) /\ DOMAIN <<>> = {} /\ Ascending(<<>>)
  BY EmptySeq DEF Ascending
<1>3. \A u \in Users : queue[u] = <<>> /\ DOMAIN queue[u] = {} /\ Entries(queue[u]) = {}
  BY <1>1, <1>2 DEF Entries
<1>4. nextId = 1
  <2> DEFINE S == {0} \cup {b.id : b \in UNION {Entries(queue[u]) : u \in Users}}
  <2>0. nextId = 1 + Max(S)
    BY <1>1 DEF LoadNextBatchIdFromDb
  <2>1. S = {0}
    BY <1>3
  <2> HIDE DEF S
  <2>2. \A x \in {0} : x <= 0
    OBVIOUS
  <2>3. Max({0}) = 0
    BY <2>2, MaxOfBounded
  <2> QED BY <2>0, <2>1, <2>3
<1>5. StoreOK(store, <<>>, applied, refused) /\ ~store.handshake
  BY <1>1, <1>2, NewStoreOK
<1>6. TypeOK
  <2>1. queue \in [Users -> Seq(Batch)]
    BY <1>1, <1>2
  <2>2. 0 \in 0..MaxWrites
    BY WritePipelineAssumption
  <2> QED BY <1>1, <1>4, <1>5, <2>1, <2>2 DEF TypeOK, StoreOK, StoreType
<1>7. IdsOrdered /\ WritesApart
  BY <1>1, <1>3, <1>4 DEF IdsOrdered, WritesApart, Ascending
<1>8. CallbackOfItsWrite /\ NoWriteLost
  BY <1>1, <1>3 DEF CallbackOfItsWrite, NoWriteLost
<1> QED BY <1>1, <1>3, <1>5, <1>6, <1>7, <1>8 DEF PipelineInv, HandshakeOpen

-----------------------------------------------------------------------------
(* The theorems. *)

\* Every step keeps the invariant, and is a step of Outbox or none at all.
LEMMA StepOK ==
    ASSUME PipelineInv, [Next]_vars
    PROVE  /\ PipelineInv'
           /\ \/ Kept
              \/ Sent' = 0 /\ queue' = queue /\ user' \in Users
              \/ /\ \E w \in [id : 1..(MaxWrites + 1), write : Writes] :
                      queue' = [queue EXCEPT ![user] = Append(queue[user], w)]
                 /\ user' = user /\ Sent' = Sent
              \/ /\ user' = user /\ queue' = queue
                 /\ Sent < Len(queue[user]) /\ Sent' = Sent + 1
              \/ /\ user' = user /\ queue' = [queue EXCEPT ![user] = Tail(queue[user])]
                 /\ Sent > 0 /\ Sent' = Sent - 1
              \/ /\ user' = user /\ queue' = [queue EXCEPT ![user] = Tail(queue[user])]
                 /\ queue[user] # <<>> /\ Sent = 0 /\ Sent' = 0
<1>1. CASE IssueWrite
  BY <1>1, IssueStep
<1>2. ASSUME NEW u \in Users, HandleCredentialChange(u)
      PROVE  PipelineInv' /\ Sent' = 0 /\ queue' = queue /\ user' \in Users
  BY <1>2, CredentialStep
<1>3. ASSUME NEW u \in Users, Kill(u)
      PROVE  PipelineInv' /\ Sent' = 0 /\ queue' = queue /\ user' \in Users
  BY <1>3, KillStep
<1>4. CASE ConnectivityChanged \/ DisableNetwork \/ EnableNetwork
  BY <1>4, NetworkStep
<1>5. CASE TokenIgnored \/ TokenReceived \/ TokenFailed
  BY <1>5, TokenStep
<1>6. CASE StreamOpened
  BY <1>6, OpenedStep
<1>7. CASE BackoffTimer \/ IdleTimer
  BY <1>7, TimerStep
<1>8. CASE HandshakeComplete
  BY <1>8, HandshakeStep
<1>9. CASE MutationResult
  BY <1>9, ResultStep
<1>10. ASSUME NEW status \in Errors, CallBroken(status) PROVE PipelineInv' /\ Kept
  BY <1>10, BrokenStep
<1>11. CASE ServerAnswersHandshake
  BY <1>11, AnswersHandshakeStep
<1>12. CASE ServerApplies
  BY <1>12, AppliesStep
<1>13. CASE ServerRefuses
  BY <1>13, RefusesStep
<1>14. CASE FinalStatus
  BY <1>14, FinalStep
<1>15. CASE UNCHANGED vars
  <2>1. /\ user' = user /\ queue' = queue /\ nextId' = nextId /\ callbacks' = callbacks
        /\ store' = store /\ issued' = issued /\ told' = told /\ applied' = applied
        /\ refused' = refused
    BY <1>15 DEF vars
  <2>2. UNCHANGED <<local, history>>
    BY <2>1 DEF local, history
  <2> QED BY <2>1, <2>2, StoreFacts, StoreOnly
<1> QED BY <1>1, <1>2, <1>3, <1>4, <1>5, <1>6, <1>7, <1>8, <1>9, <1>10, <1>11, <1>12,
           <1>13, <1>14, <1>15 DEF Next

\* The invariant holds in every state.
LEMMA Invariant == Spec => []PipelineInv
<1>1. Init => PipelineInv
  BY InitOK
<1>2. PipelineInv /\ [Next]_vars => PipelineInv'
  BY StepOK
<1> QED BY <1>1, <1>2, PTL DEF Spec

\* Every variable keeps its type, whatever the bounds and the faults.
THEOREM PipelineTypes == Spec => []TypeOK
<1>1. PipelineInv => TypeOK
  BY DEF PipelineInv
<1> QED BY <1>1, Invariant, PTL

\* No HARD_ASSERT of the stream, the remote store or the mutation queue fails
\* (HardAssert at every place the code asserts).
THEOREM AssertsHold == Spec => []NoAssertFails
<1>1. PipelineInv => NoAssertFails
  BY DEF PipelineInv, StoreOK, StreamOK, NoAssertFails
<1> QED BY <1>1, Invariant, PTL

\* The pipeline is the oldest part of the current user's queue, at most
\* kMaxPendingWrites long (FillWritePipeline, RestartNetwork).
THEOREM PipelineOfCurrentUser == Spec => []PipelineIsQueuePrefix
<1>1. PipelineInv => PipelineIsQueuePrefix
  BY DEF PipelineInv, StoreOK, PrefixOf, PipelineIsQueuePrefix
<1> QED BY <1>1, Invariant, PTL

\* A response is of the oldest batch of the pipeline, although it names none
\* (OnWriteStreamMutationResult).
THEOREM ResultsInOrder == Spec => []ResultsMatchPipeline
<1>1. PipelineInv => ResultsMatchPipeline
  BY DEF PipelineInv, StoreOK, InFlight, HandshakeOpen, ResultsMatchPipeline
<1> QED BY <1>1, Invariant, PTL

\* A callback is told of its own write, and what the server did with it
\* (NotifyUser).
THEOREM CallbacksToldRight == Spec => []CallbackOfItsWrite
<1>1. PipelineInv => CallbackOfItsWrite
  BY DEF PipelineInv
<1> QED BY <1>1, Invariant, PTL

\* An accepted write stays queued until the server has applied or refused it,
\* and none is applied before an older one of its user that is still queued
\* (RemoveMutationBatch).
THEOREM WritesSurvive == Spec => []NoWriteLost
<1>1. PipelineInv => NoWriteLost
  BY DEF PipelineInv
<1> QED BY <1>1, Invariant, PTL

\* The write path is the outbox ScoreSync relies on: writes are applied,
\* confirmed and refused in the order of the queue.
THEOREM OutboxImplemented == Spec => OutboxSpec
<1>1. Init => Abstract!Init
  <2> SUFFICES ASSUME Init PROVE Abstract!Init
    OBVIOUS
  <2>1. ~store.handshake
    <3>1. <<>> \in Seq(Batch) /\ Ascending(<<>>)
      BY EmptySeq DEF Ascending
    <3>2. store = FillWritePipeline(NewStore, <<>>)
      BY DEF Init
    <3> QED BY <3>1, <3>2, NewStoreOK
  <2> QED BY <2>1 DEF Init, Abstract!Init
<1>2. PipelineInv /\ [Next]_vars
        => [Abstract!Next]_<<user, queue, IF store.handshake THEN Len(store.ws.in) ELSE 0>>
  <2> SUFFICES ASSUME PipelineInv, [Next]_vars
               PROVE  [Abstract!Next]_<<user, queue, IF store.handshake THEN Len(store.ws.in) ELSE 0>>
    OBVIOUS
  <2>1. user \in Users
    BY StoreFacts
  <2>2. CASE Kept
    <3>1. CASE Sent' = Sent
      BY <2>2, <3>1 DEF Kept, Sent
    <3>2. CASE Sent' = 0
      BY <2>1, <2>2, <3>2 DEF Kept, Sent, Abstract!Next, Abstract!Disconnect
    <3> QED BY <2>2, <3>1, <3>2 DEF Kept
  <2>3. CASE Sent' = 0 /\ queue' = queue /\ user' \in Users
    BY <2>3 DEF Sent, Abstract!Next, Abstract!Disconnect
  <2>4. CASE /\ \E w \in [id : 1..(MaxWrites + 1), write : Writes] :
                  queue' = [queue EXCEPT ![user] = Append(queue[user], w)]
             /\ user' = user /\ Sent' = Sent
    BY <2>4 DEF Sent, Abstract!Next, Abstract!Enqueue
  <2>5. CASE /\ user' = user /\ queue' = queue
             /\ Sent < Len(queue[user]) /\ Sent' = Sent + 1
    BY <2>5 DEF Sent, Abstract!Next, Abstract!Apply
  <2>6. CASE /\ user' = user /\ queue' = [queue EXCEPT ![user] = Tail(queue[user])]
             /\ Sent > 0 /\ Sent' = Sent - 1
    BY <2>6 DEF Sent, Abstract!Next, Abstract!Confirm
  <2>7. CASE /\ user' = user /\ queue' = [queue EXCEPT ![user] = Tail(queue[user])]
             /\ queue[user] # <<>> /\ Sent = 0 /\ Sent' = 0
    BY <2>7 DEF Sent, Abstract!Next, Abstract!Refuse
  <2> QED BY <2>2, <2>3, <2>4, <2>5, <2>6, <2>7, StepOK
<1> QED BY <1>1, <1>2, Invariant, PTL DEF Spec, OutboxSpec, Abstract!Spec

=============================================================================
