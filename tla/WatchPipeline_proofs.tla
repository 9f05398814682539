------------------------- MODULE WatchPipeline_proofs -------------------------
(***************************************************************************)
(* Machine-checked proofs about WatchPipeline, for any documents, any      *)
(* number of overlapping getDocument calls and every fault: its types, the *)
(* client's assertions, that callbacks, targets, counters of responses and *)
(* waiting listeners are what the code relies on, and on whose news a view *)
(* comes in sync.                                                          *)
(***************************************************************************)
EXTENDS WatchPipeline, FunctionTheorems, FiniteSetTheorems, SequenceTheorems, TLAPS

-----------------------------------------------------------------------------
(* The inductive invariant.  Its parts about RemoteStore are predicates of  *)
(* a record, because the operations of RemoteStore are composed of          *)
(* functions on such records.                                               *)

WatchStream == StreamType(Requests, Responses)

StoreType == [up : BOOLEAN, targets : SUBSET Docs,
              agg : [Docs -> [pending : Nat, current : BOOLEAN, old : BOOLEAN]],
              ws : WatchStream,
              online : {"Unknown", "Online", "Offline"},
              failures : 0..kMaxWatchStreamFailures, timer : BOOLEAN]

\* A stream as its operations leave it: no assertion has failed, a token is
\* awaited and a timer runs only in the state that asked for it, and messages
\* are on their way only on an open call.
StreamOK(s) ==
    /\ s \in WatchStream
    /\ s.ok
    /\ "current" \in s.tokens => s.state = "Starting" /\ ~s.call
    /\ s.call => s.state \in {"Starting", "Open"}
    /\ IsOpen(s) => s.call
    /\ ~IsOpen(s) => s.in = <<>> /\ s.out = <<>>
    /\ "backoff" \in s.timers => s.state = "Backoff"
    /\ "idle" \in s.timers => IsOpen(s)

\* The online state and its timer: the timer runs only while the client waits
\* for the first answer of a stream that is started.
OnlineKnown(r) ==
    /\ r.timer => r.online = "Unknown" /\ r.failures = 0
    /\ r.online = "Online" => r.failures = 0

OnlineOK(r) == OnlineKnown(r) /\ (r.timer => IsStarted(r.ws))

\* No response is due and no target is current.
Unheard(agg) == \A d \in Docs : agg[d].pending = 0 /\ ~agg[d].current

\* The stream is kept up for the targets; one that is idle has none.  Nothing
\* is due on a stream that is not open.
WatchNeeded(r) ==
    /\ IsStarted(r.ws) => r.up
    /\ "idle" \in r.ws.timers => r.targets = {}
    /\ IsFiniteSet(r.targets)
    /\ ~IsOpen(r.ws) => Unheard(r.agg)

StoreOK(r) ==
    /\ r \in StoreType
    /\ StreamOK(r.ws)
    /\ OnlineOK(r)
    /\ WatchNeeded(r)

\* The server will have d on once it has read the first i requests.
On(out, known, i, d) ==
    \/ \E j \in 1..i : /\ out[j].doc = d /\ out[j].kind = "watch"
                       /\ \A k \in 1..i : k > j => out[k].doc # d
    \/ known[d] # "off" /\ \A k \in 1..i : out[k].doc # d

\* Listens and stops of a document alternate, so that the server answers each
\* of them; the last one is what the remote store wants.
Alternate(out, known, targets) ==
    \A d \in Docs \ Denied :
        /\ \A j \in DOMAIN out : out[j].doc = d =>
             (out[j].kind = "unwatch" <=> On(out, known, j - 1, d))
        /\ d \in targets <=> On(out, known, Len(out), d)

\* The messages about d of these kinds.
About(messages, d, kinds) ==
    {i \in DOMAIN messages : messages[i].doc = d /\ messages[i].kind \in kinds}

\* The aggregator is due as many responses to a target the server accepts as
\* there are requests and acknowledgements of it on their way.
CountsDue(agg, out, in) ==
    \A d \in Docs \ Denied :
        agg[d].pending = Cardinality(About(out, d, {"watch", "unwatch"}))
                         + Cardinality(About(in, d, {"added", "removed"}))

\* What the server knows, and has said, on an open call: it refuses what is
\* denied and acknowledges nothing else of it.
ServerOK(r, known) ==
    /\ \A d \in Docs : known[d] # "off" => IsOpen(r.ws) /\ d \notin Denied
    /\ \A i \in DOMAIN r.ws.in :
         (r.ws.in[i].kind = "rejected" <=> r.ws.in[i].doc \in Denied)
    /\ IsOpen(r.ws) => /\ Alternate(r.ws.out, known, r.targets)
                       /\ CountsDue(r.agg, r.ws.out, r.ws.in)

\* One getDocument call: the listener is in the list only between its two
\* tasks, an error is the last event it gets, and an event that will still be
\* heard is the first.
SlotOK(x) ==
    /\ x.caller # "idle" => x.doc \in Docs
    /\ x.listed => x.caller \in {"waiting", "removing"}
    /\ x.caller = "called" => ~x.muted /\ x.answers = 0 /\ x.events = <<>> /\ ~x.raised
    /\ x.caller = "waiting" => ~x.muted /\ x.answers = 0
    /\ x.caller = "removing" => x.muted
    /\ ~x.muted /\ x.events # <<>> => x.caller = "waiting"
    /\ \A i \in DOMAIN x.events : x.events[i] = "error" => i = Len(x.events) /\ ~x.listed
    /\ x.answers <= 1

WatchInv ==
    /\ TypeOK
    /\ StoreOK(store)
    /\ ServerOK(store, server)
    /\ \A g \in Gets : SlotOK(get[g])
    /\ TargetsFollowListeners
    /\ WaitersWait

-----------------------------------------------------------------------------
(* Facts about messages and their numbers. *)

\* Messages of a finite sequence are finitely many.
LEMMA AboutFinite ==
    ASSUME NEW T, NEW s \in Seq(T), NEW d, NEW kinds
    PROVE  /\ About(s, d, kinds) \in SUBSET (1..Len(s))
           /\ IsFiniteSet(About(s, d, kinds))
           /\ Cardinality(About(s, d, kinds)) \in Nat
<1>1. About(s, d, kinds) \in SUBSET (1..Len(s))
  BY DEF About
<1>2. IsFiniteSet(1..Len(s))
  <2>1. Len(s) \in Nat
    OBVIOUS
  <2> QED BY <2>1, FS_Interval
<1>3. IsFiniteSet(About(s, d, kinds))
  BY <1>1, <1>2, FS_Subset
<1> QED BY <1>1, <1>3, FS_CardinalityType

\* One more message.
LEMMA AboutAppend ==
    ASSUME NEW T, NEW s \in Seq(T), NEW m \in T, NEW d, NEW kinds
    PROVE  Cardinality(About(Append(s, m), d, kinds)) =
             IF m.doc = d /\ m.kind \in kinds
             THEN Cardinality(About(s, d, kinds)) + 1
             ELSE Cardinality(About(s, d, kinds))
<1> DEFINE A == About(s, d, kinds)
           B == About(Append(s, m), d, kinds)
           n == Len(s)
<1>1. n \in Nat /\ DOMAIN s = 1..n /\ DOMAIN Append(s, m) = 1..(n + 1)
  OBVIOUS
<1>2. Append(s, m)[n + 1] = m /\ \A i \in 1..n : Append(s, m)[i] = s[i]
  OBVIOUS
<1>3. A \in SUBSET (1..n) /\ IsFiniteSet(A)
  BY AboutFinite
<1>4. n + 1 \notin A
  <2> HIDE DEF A, n
  <2> QED BY <1>1, <1>3
<1>5. CASE m.doc = d /\ m.kind \in kinds
  <2>1. B = A \cup {n + 1}
    BY <1>1, <1>2, <1>5 DEF About
  <2> HIDE DEF A, B, n
  <2>2. Cardinality(A \cup {n + 1}) = Cardinality(A) + 1
    BY <1>3, <1>4, FS_AddElement
  <2>3. Cardinality(B) = Cardinality(A) + 1
    BY <2>1, <2>2
  <2> QED BY <1>5, <2>3 DEF A, B
<1>6. CASE ~(m.doc = d /\ m.kind \in kinds)
  <2>1. B = A
    BY <1>1, <1>2, <1>6 DEF About
  <2> QED BY <1>6, <2>1
<1> QED BY <1>5, <1>6

\* The first message is read.
LEMMA AboutTail ==
    ASSUME NEW T, NEW s \in Seq(T), s # <<>>, NEW d, NEW kinds
    PROVE  Cardinality(About(s, d, kinds)) =
             IF Head(s).doc = d /\ Head(s).kind \in kinds
             THEN Cardinality(About(Tail(s), d, kinds)) + 1
             ELSE Cardinality(About(Tail(s), d, kinds))
<1> DEFINE A == About(s, d, kinds)
           B == About(Tail(s), d, kinds)
           n == Len(s)
           f == [i \in B |-> i + 1]
<1>1. /\ n \in Nat \ {0} /\ DOMAIN s = 1..n
      /\ Tail(s) \in Seq(T) /\ DOMAIN Tail(s) = 1..(n - 1)
      /\ \A i \in 1..(n - 1) : Tail(s)[i] = s[i + 1]
      /\ Head(s) = s[1]
  OBVIOUS
<1>2. /\ A \in SUBSET (1..n) /\ IsFiniteSet(A) /\ Cardinality(A) \in Nat
      /\ B \in SUBSET (1..(n - 1)) /\ IsFiniteSet(B) /\ Cardinality(B) \in Nat
  <2>1. IsFiniteSet(A) /\ IsFiniteSet(B) /\ Cardinality(A) \in Nat /\ Cardinality(B) \in Nat
    BY <1>1, AboutFinite
  <2> QED BY <1>1, <2>1 DEF About
<1>3. \A i \in 1..(n - 1) : i \in B <=> i + 1 \in A
  BY <1>1 DEF About
<1>4. 1 \in A <=> Head(s).doc = d /\ Head(s).kind \in kinds
  BY <1>1 DEF About
<1> HIDE DEF A, B, n
<1>5. f \in Bijection(B, A \ {1})
  <2>1. f \in [B -> A \ {1}]
    BY <1>1, <1>2, <1>3
  <2>2. \A i, j \in B : f[i] = f[j] => i = j
    BY <1>1, <1>2
  <2>3. \A k \in A \ {1} : \E i \in B : f[i] = k
    <3> SUFFICES ASSUME NEW k \in A \ {1}
                 PROVE  \E i \in B : f[i] = k
      OBVIOUS
    <3>1. k - 1 \in 1..(n - 1) /\ (k - 1) + 1 = k
      BY <1>1, <1>2
    <3>2. k - 1 \in B
      BY <1>3, <3>1
    <3> QED BY <3>1, <3>2
  <2> QED BY <2>1, <2>2, <2>3, Fun_IsBij
<1>6. Cardinality(A \ {1}) = Cardinality(B)
  BY <1>2, <1>5, FS_Bijection DEF ExistsBijection
<1>7. Cardinality(A \ {1}) = IF 1 \in A THEN Cardinality(A) - 1 ELSE Cardinality(A)
  BY <1>2, FS_RemoveElement
<1> QED BY <1>2, <1>4, <1>6, <1>7 DEF A, B

\* The requests that ask for every target: one for each.
LEMMA AskedOnce ==
    ASSUME NEW targets \in SUBSET Docs, IsFiniteSet(targets)
    PROVE  LET requests == {[kind |-> "watch", doc |-> d] : d \in targets}
               s == SetToSeq(requests)
           IN  /\ s \in Seq(Requests)
               /\ s = <<>> <=> targets = {}
               /\ \A i \in DOMAIN s : s[i].kind = "watch" /\ s[i].doc \in targets
               /\ \A i, j \in DOMAIN s : s[i].doc = s[j].doc => i = j
               /\ \A d \in targets : \E i \in DOMAIN s : s[i].doc = d
<1> DEFINE requests == {[kind |-> "watch", doc |-> d] : d \in targets}
           n == Cardinality(requests)
           s == SetToSeq(requests)
           f == [d \in targets |-> [kind |-> "watch", doc |-> d]]
<1>1. f \in Surjection(targets, requests)
  <2>1. f \in [targets -> requests]
    OBVIOUS
  <2>2. \A m \in requests : \E d \in targets : f[d] = m
    OBVIOUS
  <2> QED BY <2>1, <2>2, Fun_IsSurj
<1>2. IsFiniteSet(requests)
  <2> HIDE DEF f, requests
  <2> QED BY <1>1, FS_Surjection
<1>3. n \in Nat /\ ExistsBijection(1..n, requests)
  <2> HIDE DEF requests
  <2> QED BY <1>2, FS_CardinalityType
<1>4. PICK b \in Bijection(1..n, requests) : TRUE
  BY <1>3 DEF ExistsBijection
<1>5. b \in [1..n -> requests] /\ IsInjective(b)
  <2> HIDE DEF requests, n
  <2> QED BY <1>4 DEF Bijection, Injection, IsInjective
<1>6. s \in [1..n -> requests] /\ IsInjective(s)
  <2>1. s = CHOOSE g \in [1..Cardinality(requests) -> requests] : IsInjective(g)
    BY DEF SetToSeq
  <2> HIDE DEF requests, s
  <2> QED BY <1>5, <2>1
<1>7. s \in Injection(1..n, requests)
  <2> HIDE DEF requests, n, s
  <2> QED BY <1>6 DEF Injection, IsInjective
<1>8. s \in Surjection(1..n, requests)
  <2>1. IsFiniteSet(1..n) /\ Cardinality(1..n) = n
    BY <1>3, FS_Interval
  <2> HIDE DEF requests, s
  <2> QED BY <1>2, <1>7, <2>1, FS_Injection
<1>9. \A m \in requests : \E i \in 1..n : s[i] = m
  <2> HIDE DEF requests, n, s
  <2> QED BY <1>8 DEF Surjection
<1>10. \A m \in requests : m \in Requests /\ m.kind = "watch" /\ m.doc \in targets
  BY DEF Requests, Message
<1>11. \A d \in targets : \E m \in requests : m.doc = d
  <2> SUFFICES ASSUME NEW d \in targets
               PROVE  \E m \in requests : m.doc = d
    OBVIOUS
  <2>1. [kind |-> "watch", doc |-> d] \in requests /\ [kind |-> "watch", doc |-> d].doc = d
    OBVIOUS
  <2> HIDE DEF requests
  <2> QED BY <2>1
<1>12. \A m, k \in requests : m.doc = k.doc => m = k
  OBVIOUS
<1> HIDE DEF requests, n, s
<1>13. s \in Seq(Requests) /\ DOMAIN s = 1..n /\ \A i \in 1..n : s[i] \in requests
  <2>1. s \in [1..n -> Requests]
    BY <1>6, <1>10
  <2> QED BY <1>3, <1>6, <2>1
<1>14. s = <<>> <=> targets = {}
  BY <1>3, <1>9, <1>10, <1>11, <1>13
<1>15. \A i, j \in DOMAIN s : s[i].doc = s[j].doc => i = j
  BY <1>6, <1>12, <1>13 DEF IsInjective
<1>16. \A d \in targets : \E i \in DOMAIN s : s[i].doc = d
  BY <1>9, <1>11, <1>13
<1> QED BY <1>10, <1>13, <1>14, <1>15, <1>16 DEF requests, s

-----------------------------------------------------------------------------
(* The stream. *)

\* An assertion that holds changes nothing.
LEMMA AssertOK ==
    ASSUME NEW s, StreamOK(s), NEW holds \in BOOLEAN, holds
    PROVE  HardAssert(s, holds) = s
  BY DEF HardAssert, StreamOK, WatchStream, StreamType

\* Starting a stream that is not started: no assertion fails, and it is not
\* open yet.
LEMMA StartOK ==
    ASSUME NEW s, StreamOK(s), ~IsStarted(s)
    PROVE  LET t == Start(s)
           IN  /\ StreamOK(t) /\ IsStarted(t) /\ ~IsOpen(t) /\ ~t.call
               /\ "idle" \notin t.timers
<1>1. s.state \in {"Initial", "Error"} /\ ~s.call /\ ~IsOpen(s)
  BY DEF StreamOK, WatchStream, StreamType, States, IsStarted, IsOpen
<1> DEFINE t == Start(s)
<1>2. CASE s.state = "Error"
  <2>1. t = [s EXCEPT !.state = "Backoff", !.timers = @ \cup {"backoff"}]
    BY <1>2 DEF Start, BackoffAndTryRestarting
  <2>2. t \in WatchStream
    BY ZenonT(60), <2>1 DEF StreamOK, WatchStream, StreamType, States, Timers
  <2>3. /\ t.state = "Backoff" /\ t.timers = s.timers \cup {"backoff"}
        /\ t.tokens = s.tokens /\ t.call = s.call /\ t.ok = s.ok
        /\ t.in = s.in /\ t.out = s.out
    BY <2>1 DEF StreamOK, WatchStream, StreamType
  <2> HIDE DEF t
  <2>4. IsStarted(t) /\ ~IsOpen(t)
    BY <1>2, <2>3 DEF IsStarted, IsOpen
  <2>5. StreamOK(t) /\ "idle" \notin t.timers
    BY <1>1, <1>2, <2>2, <2>3, <2>4 DEF StreamOK
  <2> QED BY <1>1, <2>3, <2>4, <2>5 DEF t
<1>3. CASE s.state = "Initial"
  <2>1. t = [s EXCEPT !.ok = s.ok /\ TRUE, !.state = "Starting",
                      !.tokens = @ \cup {"current"}]
    BY <1>3 DEF Start, RequestCredentials, HardAssert, StreamOK, WatchStream, StreamType
  <2>2. t \in WatchStream
    BY ZenonT(60), <2>1 DEF StreamOK, WatchStream, StreamType, States
  <2>3. /\ t.state = "Starting" /\ t.tokens = s.tokens \cup {"current"}
        /\ t.timers = s.timers /\ t.call = s.call /\ t.ok
        /\ t.in = s.in /\ t.out = s.out
    BY <2>1 DEF StreamOK, WatchStream, StreamType
  <2> HIDE DEF t
  <2>4. IsStarted(t) /\ ~IsOpen(t)
    BY <1>3, <2>3 DEF IsStarted, IsOpen
  <2>5. StreamOK(t) /\ "idle" \notin t.timers
    BY <1>1, <1>3, <2>2, <2>3, <2>4 DEF StreamOK
  <2> QED BY <1>1, <2>3, <2>4, <2>5 DEF t
<1> QED BY <1>1, <1>2, <1>3

\* Closing a started stream: no assertion fails, and nothing is on its way.
LEMMA CloseOK ==
    ASSUME NEW s, StreamOK(s), IsStarted(s), NEW status
    PROVE  LET t == Close(s, status)
           IN  StreamOK(t) /\ ~IsStarted(t) /\ ~IsOpen(t) /\ ~t.call /\ t.timers = {}
<1> DEFINE t == Close(s, status)
<1>1. t = [s EXCEPT !.ok = s.ok /\ TRUE, !.timers = {},
                    !.tokens = IF @ = {} THEN {} ELSE {"stale"},
                    !.call = FALSE, !.out = <<>>, !.in = <<>>, !.end = NoEnd,
                    !.state = IF status = "ok" THEN "Initial" ELSE "Error"]
  BY DEF Close, HardAssert, StreamOK, WatchStream, StreamType
<1>2. t.ok /\ t.state \in {"Initial", "Error"} /\ t.timers = {}
  BY <1>1 DEF StreamOK, WatchStream, StreamType
<1>3. t.tokens \subseteq {"stale"} /\ t.call = FALSE /\ t.out = <<>> /\ t.in = <<>>
  BY <1>1 DEF StreamOK, WatchStream, StreamType
<1>4. t \in WatchStream
  <2>1. /\ <<>> \in Seq(Requests) /\ <<>> \in Seq(Responses) /\ {} \in SUBSET Timers
        /\ (IF status = "ok" THEN "Initial" ELSE "Error") \in States
        /\ (IF s.tokens = {} THEN {} ELSE {"stale"}) \in SUBSET {"current", "stale"}
    BY DEF States
  <2> QED BY ZenonT(60), <1>1, <2>1 DEF StreamOK, WatchStream, StreamType
<1> HIDE DEF t
<1>5. ~IsStarted(t) /\ ~IsOpen(t)
  BY <1>2 DEF IsStarted, IsOpen
<1>6. StreamOK(t)
  BY <1>2, <1>3, <1>4, <1>5 DEF StreamOK
<1> QED BY <1>2, <1>3, <1>5, <1>6 DEF t

\* Skipping the backoff of a stream that is not started.
LEMMA InhibitOK ==
    ASSUME NEW s, StreamOK(s), ~IsStarted(s)
    PROVE  /\ StreamOK(InhibitBackoff(s)) /\ ~IsStarted(InhibitBackoff(s))
           /\ ~InhibitBackoff(s).call
<1> DEFINE t == InhibitBackoff(s)
<1>1. t = [s EXCEPT !.ok = s.ok /\ TRUE, !.state = "Initial"]
  BY DEF InhibitBackoff, HardAssert, StreamOK, WatchStream, StreamType
<1>2. t.ok /\ t.state = "Initial" /\ t \in WatchStream
  BY <1>1 DEF StreamOK, WatchStream, StreamType, States
<1>3. /\ t.tokens = s.tokens /\ t.timers = s.timers /\ t.call = s.call
      /\ t.in = s.in /\ t.out = s.out
  BY <1>1 DEF StreamOK, WatchStream, StreamType
<1> HIDE DEF t
<1>4. ~IsOpen(t) /\ ~IsStarted(t)
  BY <1>2 DEF IsStarted, IsOpen
<1>5. StreamOK(t) /\ ~t.call
  BY <1>2, <1>3, <1>4 DEF StreamOK, IsStarted, IsOpen
<1> QED BY <1>4, <1>5 DEF t

\* Sending one request on an open stream.
LEMMA SendOK ==
    ASSUME NEW s, StreamOK(s), IsOpen(s), NEW m \in Requests
    PROVE  LET t == Send(s, <<m>>)
           IN  /\ StreamOK(t) /\ IsOpen(t) /\ t.call
               /\ t.out = Append(s.out, m) /\ t.in = s.in /\ t.timers = s.timers \ {"idle"}
<1> DEFINE t == Send(s, <<m>>)
<1>1. s.out \in Seq(Requests) /\ s.out \o <<m>> = Append(s.out, m)
  BY DEF StreamOK, WatchStream, StreamType
<1>2. t = [s EXCEPT !.ok = s.ok /\ TRUE, !.out = Append(s.out, m), !.timers = @ \ {"idle"}]
  BY <1>1 DEF Send, HardAssert, StreamOK, WatchStream, StreamType
<1>3. Append(s.out, m) \in Seq(Requests)
  BY <1>1
<1>4. t \in WatchStream
  BY ZenonT(60), <1>2, <1>3 DEF StreamOK, WatchStream, StreamType
<1>5. /\ t.state = s.state /\ t.tokens = s.tokens /\ t.call = s.call /\ t.ok
      /\ t.out = Append(s.out, m) /\ t.in = s.in /\ t.timers = s.timers \ {"idle"}
  BY <1>2 DEF StreamOK, WatchStream, StreamType
<1> HIDE DEF t
<1>6. IsOpen(t) /\ StreamOK(t) /\ t.call
  BY <1>4, <1>5 DEF StreamOK, IsOpen
<1> QED BY <1>5, <1>6 DEF t

\* Marking an open stream idle.
LEMMA MarkIdleOK ==
    ASSUME NEW s, StreamOK(s), IsOpen(s)
    PROVE  LET t == MarkIdle(s)
           IN  StreamOK(t) /\ IsOpen(t) /\ t.out = s.out /\ t.in = s.in
<1> DEFINE t == MarkIdle(s)
<1>1. t = [s EXCEPT !.timers = @ \cup {"idle"}]
  BY DEF MarkIdle
<1>2. t \in WatchStream
  BY ZenonT(60), <1>1 DEF StreamOK, WatchStream, StreamType, Timers
<1>3. /\ t.state = s.state /\ t.tokens = s.tokens /\ t.call = s.call /\ t.ok = s.ok
      /\ t.out = s.out /\ t.in = s.in /\ t.timers = s.timers \cup {"idle"}
  BY <1>1 DEF StreamOK, WatchStream, StreamType
<1> HIDE DEF t
<1>4. IsOpen(t) /\ StreamOK(t)
  BY <1>2, <1>3 DEF StreamOK, IsOpen
<1> QED BY <1>3, <1>4 DEF t

-----------------------------------------------------------------------------
(* RemoteStore and OnlineStateTracker. *)

\* Nothing is due and nothing is known of any target.
LEMMA NoAggregatorOK ==
    /\ NoAggregator \in [Docs -> [pending : Nat, current : BOOLEAN, old : BOOLEAN]]
    /\ Unheard(NoAggregator)
<1>1. /\ NoTarget \in [pending : Nat, current : BOOLEAN, old : BOOLEAN]
      /\ NoTarget.pending = 0 /\ NoTarget.current = FALSE
  BY DEF NoTarget
<1> QED BY <1>1 DEF NoAggregator, Unheard

\* A new online state, with the timer cleared.
LEMMA UpdateOK ==
    ASSUME NEW r \in StoreType, StreamOK(r.ws), WatchNeeded(r),
           NEW state \in {"Unknown", "Online", "Offline"}
    PROVE  LET t == UpdateState(r, state)
           IN  /\ StoreOK(t)
               /\ t.up = r.up /\ t.targets = r.targets /\ t.agg = r.agg /\ t.ws = r.ws
               /\ t.online = state
<1> DEFINE t == UpdateState(r, state)
<1>1. 0 \in 0..kMaxWatchStreamFailures
  BY DEF kMaxWatchStreamFailures
<1>2. /\ t \in StoreType
      /\ t.up = r.up /\ t.targets = r.targets /\ t.agg = r.agg /\ t.ws = r.ws
      /\ t.online = state /\ t.timer = FALSE /\ t.failures = 0
  BY <1>1 DEF UpdateState, StoreType
<1> HIDE DEF t
<1>3. OnlineOK(t)
  BY <1>2 DEF OnlineOK, OnlineKnown
<1>4. WatchNeeded(t)
  BY <1>2 DEF WatchNeeded
<1> QED BY <1>2, <1>3, <1>4 DEF t, StoreOK

\* The stream is started for the targets; the timer is armed unless an earlier
\* attempt has failed.
LEMMA StartWatchOK ==
    ASSUME NEW r \in StoreType, StreamOK(r.ws), ~IsStarted(r.ws), r.up, ~r.timer,
           r.online = "Online" => r.failures = 0, IsFiniteSet(r.targets)
    PROVE  LET t == StartWatchStream(r)
           IN  /\ StoreOK(t)
               /\ t.up = r.up /\ t.targets = r.targets
               /\ ~IsOpen(t.ws) /\ ~t.ws.call
<1> DEFINE ws == Start(r.ws)
           s == [r EXCEPT !.agg = NoAggregator, !.ws = ws]
           t == StartWatchStream(r)
<1>1. StreamOK(ws) /\ IsStarted(ws) /\ ~IsOpen(ws) /\ ~ws.call /\ "idle" \notin ws.timers
  BY StartOK
<1>2. t = HandleWatchStreamStart(s)
  BY DEF StartWatchStream
<1> HIDE DEF ws
<1>3. /\ s \in StoreType /\ s.ws = ws /\ s.agg = NoAggregator
      /\ s.up = r.up /\ s.targets = r.targets
      /\ s.online = r.online /\ s.failures = r.failures /\ s.timer = r.timer
  BY <1>1, NoAggregatorOK DEF StoreType, StreamOK
<1> HIDE DEF s, t
<1>4. /\ t \in StoreType /\ t.ws = ws /\ t.agg = NoAggregator
      /\ t.up = r.up /\ t.targets = r.targets /\ OnlineKnown(t)
  <2>1. CASE s.failures # 0
    <3>1. t = s
      BY <1>2, <2>1 DEF HandleWatchStreamStart
    <3> QED BY <1>3, <3>1 DEF OnlineKnown
  <2>2. CASE s.failures = 0
    <3>1. HardAssert(ws, ~s.timer) = ws
      BY <1>1, <1>3, AssertOK DEF StoreType
    <3>2. t = [s EXCEPT !.online = "Unknown", !.ws = ws, !.timer = TRUE]
      BY <1>2, <1>3, <2>2, <3>1 DEF HandleWatchStreamStart
    <3>3. /\ t \in StoreType /\ t.ws = ws /\ t.agg = s.agg /\ t.up = s.up
          /\ t.targets = s.targets /\ t.online = "Unknown" /\ t.failures = s.failures
      BY <1>3, <3>2 DEF StoreType
    <3> QED BY <1>3, <2>2, <3>3 DEF OnlineKnown
  <2> QED BY <2>1, <2>2
<1>5. OnlineOK(t) /\ WatchNeeded(t)
  BY <1>1, <1>4, NoAggregatorOK DEF OnlineOK, WatchNeeded
<1>6. StoreOK(t)
  BY <1>1, <1>4, <1>5 DEF StoreOK
<1> QED BY <1>1, <1>4, <1>6 DEF t

\* The smaller of two numbers.
LEMMA MinOfTwo ==
    ASSUME NEW a \in Nat, NEW b \in Nat
    PROVE  Min({a, b}) = IF a <= b THEN a ELSE b
  BY DEF Min

\* A failed attempt: with one failure tolerated at most, the client is Offline
\* unless it was Online before.
LEMMA FailureOK ==
    ASSUME NEW r \in StoreType, StreamOK(r.ws), OnlineKnown(r)
    PROVE  LET t == HandleWatchStreamFailure(r)
           IN  /\ t \in StoreType
               /\ t.up = r.up /\ t.targets = r.targets /\ t.agg = r.agg /\ t.ws = r.ws
               /\ ~t.timer /\ t.online # "Online"
<1> DEFINE t == HandleWatchStreamFailure(r)
<1>1. CASE r.online = "Online"
  <2>1. r.timer = FALSE /\ r.failures = 0
    BY <1>1 DEF OnlineKnown, StoreType
  <2>2. HardAssert(r.ws, r.failures = 0 /\ ~r.timer) = r.ws
    BY <2>1, AssertOK
  <2>3. t = [r EXCEPT !.online = "Unknown", !.ws = r.ws]
    BY <1>1, <2>2 DEF HandleWatchStreamFailure
  <2>4. /\ t \in StoreType
        /\ t.up = r.up /\ t.targets = r.targets /\ t.agg = r.agg /\ t.ws = r.ws
        /\ t.timer = r.timer /\ t.online = "Unknown"
    BY <2>3 DEF StoreType
  <2> QED BY <2>1, <2>4
<1>2. CASE r.online # "Online"
  <2>1. r.failures \in 0..1 /\ kMaxWatchStreamFailures = 1
    BY DEF StoreType, kMaxWatchStreamFailures
  <2>2. Min({r.failures + 1, kMaxWatchStreamFailures}) = 1
    <3>1. r.failures + 1 \in Nat /\ r.failures + 1 >= 1
      BY <2>1
    <3> HIDE DEF kMaxWatchStreamFailures
    <3>2. Min({r.failures + 1, 1}) = IF r.failures + 1 <= 1 THEN r.failures + 1 ELSE 1
      BY <3>1, MinOfTwo
    <3> QED BY <2>1, <3>1, <3>2
  <2>3. t = [r EXCEPT !.failures = 1, !.timer = FALSE, !.online = "Offline"]
    <3> DEFINE f == Min({r.failures + 1, kMaxWatchStreamFailures})
    <3>1. t = IF f >= kMaxWatchStreamFailures
              THEN [r EXCEPT !.failures = f, !.timer = FALSE, !.online = "Offline"]
              ELSE [r EXCEPT !.failures = f]
      BY <1>2 DEF HandleWatchStreamFailure
    <3>2. f = 1 /\ f >= kMaxWatchStreamFailures
      BY <2>1, <2>2
    <3> HIDE DEF f
    <3> QED BY <3>1, <3>2
  <2>4. /\ t \in StoreType
        /\ t.up = r.up /\ t.targets = r.targets /\ t.agg = r.agg /\ t.ws = r.ws
        /\ t.timer = FALSE /\ t.online = "Offline"
    <3>1. 1 \in 0..kMaxWatchStreamFailures
      BY <2>1
    <3> QED BY <2>3, <3>1 DEF StoreType
  <2> QED BY <2>4
<1> QED BY <1>1, <1>2

\* A started stream is closed, gracefully only if nobody needs it, and is
\* started again if somebody does.
LEMMA CloseWatchOK ==
    ASSUME NEW r \in StoreType, StreamOK(r.ws), OnlineKnown(r), IsFiniteSet(r.targets),
           IsStarted(r.ws), NEW status, status = "ok" => ~(r.up /\ r.targets # {})
    PROVE  LET t == CloseWatchStream(r, status)
           IN  /\ StoreOK(t)
               /\ t.up = r.up /\ t.targets = r.targets
               /\ ~IsOpen(t.ws) /\ ~t.ws.call
               /\ ~r.up => ~IsStarted(t.ws)
<1> DEFINE ws == Close(r.ws, status)
           c == [r EXCEPT !.ws = ws]
           a == HardAssert(c.ws, status = "ok" => ~ShouldStartWatchStream(c))
           s == [c EXCEPT !.agg = NoAggregator, !.ws = a]
           t == CloseWatchStream(r, status)
<1>1. StreamOK(ws) /\ ~IsStarted(ws) /\ ~IsOpen(ws) /\ ~ws.call /\ ws.timers = {}
  BY CloseOK
<1>2. t = IF ShouldStartWatchStream(s) THEN StartWatchStream(HandleWatchStreamFailure(s))
          ELSE UpdateState(s, "Unknown")
  BY DEF CloseWatchStream, OnWatchStreamClose
<1> HIDE DEF ws, t
<1>3. /\ c \in StoreType /\ c.ws = ws /\ c.up = r.up /\ c.targets = r.targets
      /\ c.online = r.online /\ c.failures = r.failures /\ c.timer = r.timer
  BY <1>1 DEF StoreType, StreamOK
<1> HIDE DEF c
<1>4. a = ws
  <2>1. status = "ok" => ~ShouldStartWatchStream(c)
    BY <1>3 DEF ShouldStartWatchStream
  <2> QED BY <1>1, <1>3, <2>1, AssertOK
<1> HIDE DEF a
<1>5. /\ s \in StoreType /\ s.ws = ws /\ s.agg = NoAggregator
      /\ s.up = r.up /\ s.targets = r.targets
      /\ s.online = r.online /\ s.failures = r.failures /\ s.timer = r.timer
  BY <1>3, <1>4, NoAggregatorOK DEF StoreType
<1> HIDE DEF s
<1>6. OnlineKnown(s)
  BY <1>5 DEF OnlineKnown
<1>7. CASE ShouldStartWatchStream(s)
  <2> DEFINE h == HandleWatchStreamFailure(s)
  <2>1. /\ h \in StoreType
        /\ h.up = s.up /\ h.targets = s.targets /\ h.agg = s.agg /\ h.ws = s.ws
        /\ ~h.timer /\ h.online # "Online"
    BY <1>1, <1>5, <1>6, FailureOK
  <2>2. s.up
    BY <1>7 DEF ShouldStartWatchStream
  <2>3. t = StartWatchStream(h)
    BY <1>2, <1>7
  <2> HIDE DEF h
  <2>4. /\ StoreOK(t) /\ t.up = h.up /\ t.targets = h.targets
        /\ ~IsOpen(t.ws) /\ ~t.ws.call
    BY <1>1, <1>5, <2>1, <2>2, <2>3, StartWatchOK
  <2> QED BY <1>5, <2>1, <2>2, <2>4 DEF t
<1>8. CASE ~ShouldStartWatchStream(s)
  <2>1. WatchNeeded(s)
    BY <1>1, <1>5, NoAggregatorOK DEF WatchNeeded
  <2>2. t = UpdateState(s, "Unknown")
    BY <1>2, <1>8
  <2>3. StoreOK(t) /\ t.up = s.up /\ t.targets = s.targets /\ t.ws = s.ws
    BY <1>1, <1>5, <2>1, <2>2, UpdateOK
  <2> QED BY <1>1, <1>5, <2>3 DEF t
<1> QED BY <1>7, <1>8

\* A stream that nobody needs, because the network is off or no target is
\* left, is stopped if it is started.
LEMMA StopWatchOK ==
    ASSUME NEW r \in StoreType, StreamOK(r.ws), OnlineOK(r), IsFiniteSet(r.targets),
           ~(r.up /\ r.targets # {}),
           ~IsOpen(r.ws) => Unheard(r.agg)
    PROVE  LET t == StopWatchStream(r)
           IN  /\ StoreOK(t)
               /\ t.up = r.up /\ t.targets = r.targets
               /\ ~IsOpen(t.ws) /\ ~t.ws.call
               /\ ~r.up => ~IsStarted(t.ws)
<1> DEFINE t == StopWatchStream(r)
<1>1. CASE IsStarted(r.ws)
  <2>1. t = CloseWatchStream(r, "ok")
    BY <1>1 DEF StopWatchStream
  <2> HIDE DEF t
  <2>2. /\ StoreOK(t) /\ t.up = r.up /\ t.targets = r.targets
        /\ ~IsOpen(t.ws) /\ ~t.ws.call /\ (~r.up => ~IsStarted(t.ws))
    BY <1>1, <2>1, CloseWatchOK DEF OnlineOK
  <2> QED BY <2>2 DEF t
<1>2. CASE ~IsStarted(r.ws)
  <2>1. t = r
    BY <1>2 DEF StopWatchStream
  <2>2. ~IsOpen(r.ws) /\ ~r.ws.call /\ "idle" \notin r.ws.timers
    BY <1>2 DEF IsStarted, StreamOK, IsOpen
  <2>3. WatchNeeded(r)
    BY <1>2, <2>2 DEF WatchNeeded
  <2> QED BY <1>2, <2>1, <2>2, <2>3 DEF StoreOK
<1> QED BY <1>1, <1>2

\* The network is enabled: a stream starts if there is a target.
LEMMA EnableOK ==
    ASSUME NEW r \in StoreType, StreamOK(r.ws), ~IsStarted(r.ws), OnlineOK(r),
           IsFiniteSet(r.targets), Unheard(r.agg)
    PROVE  LET t == EnableNetworkOf(r)
           IN  /\ StoreOK(t)
               /\ t.targets = r.targets /\ ~IsOpen(t.ws) /\ ~t.ws.call
<1> DEFINE s == [r EXCEPT !.up = TRUE]
           t == EnableNetworkOf(r)
<1>1. /\ s \in StoreType /\ s.up = TRUE /\ s.targets = r.targets /\ s.agg = r.agg /\ s.ws = r.ws
      /\ s.online = r.online /\ s.failures = r.failures /\ s.timer = r.timer
  BY DEF StoreType
<1>2. t = IF ShouldStartWatchStream(s) THEN StartWatchStream(s) ELSE UpdateState(s, "Unknown")
  BY DEF EnableNetworkOf
<1>3. ~s.timer /\ (s.online = "Online" => s.failures = 0)
  BY <1>1 DEF OnlineOK, OnlineKnown
<1>4. ~IsOpen(r.ws) /\ ~r.ws.call /\ "idle" \notin r.ws.timers
  BY DEF IsStarted, StreamOK, IsOpen
<1> HIDE DEF s, t
<1>5. CASE ShouldStartWatchStream(s)
  <2>1. StoreOK(t) /\ t.targets = s.targets /\ ~IsOpen(t.ws) /\ ~t.ws.call
    BY <1>1, <1>2, <1>3, <1>5, StartWatchOK
  <2> QED BY <1>1, <2>1 DEF t
<1>6. CASE ~ShouldStartWatchStream(s)
  <2>1. WatchNeeded(s)
    BY <1>1, <1>4 DEF WatchNeeded
  <2>2. StoreOK(t) /\ t.targets = s.targets /\ t.ws = s.ws
    BY <1>1, <1>2, <1>6, <2>1, UpdateOK
  <2> QED BY <1>1, <1>4, <2>2 DEF t
<1> QED BY <1>5, <1>6

\* The network goes away.
LEMMA DisableOK ==
    ASSUME NEW r, StoreOK(r), NEW state \in {"Unknown", "Offline"}
    PROVE  LET t == UpdateState(StopWatchStream([r EXCEPT !.up = FALSE]), state)
           IN  /\ StoreOK(t) /\ ~t.up
               /\ t.targets = r.targets /\ ~IsOpen(t.ws) /\ ~IsStarted(t.ws) /\ ~t.ws.call
<1> DEFINE s == [r EXCEPT !.up = FALSE]
           c == StopWatchStream(s)
           t == UpdateState(c, state)
<1>1. /\ s \in StoreType /\ s.up = FALSE /\ s.targets = r.targets /\ s.agg = r.agg /\ s.ws = r.ws
      /\ s.online = r.online /\ s.failures = r.failures /\ s.timer = r.timer
  BY DEF StoreOK, StoreType
<1> HIDE DEF s
<1>2. OnlineOK(s) /\ StreamOK(s.ws) /\ IsFiniteSet(s.targets)
      /\ (~IsOpen(s.ws) => Unheard(s.agg))
  BY <1>1 DEF StoreOK, OnlineOK, OnlineKnown, WatchNeeded
<1>3. /\ StoreOK(c) /\ c.up = s.up /\ c.targets = s.targets
      /\ ~IsOpen(c.ws) /\ ~c.ws.call /\ ~IsStarted(c.ws)
  BY <1>1, <1>2, StopWatchOK
<1> HIDE DEF c
<1>4. StoreOK(t) /\ t.up = c.up /\ t.targets = c.targets /\ t.ws = c.ws
  BY <1>3, UpdateOK DEF StoreOK
<1> HIDE DEF t
<1>5. /\ StoreOK(t) /\ ~t.up
      /\ t.targets = r.targets /\ ~IsOpen(t.ws) /\ ~IsStarted(t.ws) /\ ~t.ws.call
  BY <1>1, <1>3, <1>4
<1> QED BY <1>5 DEF t, c, s

\* The network changes: the stream is stopped and started again.
LEMMA RestartOK ==
    ASSUME NEW r, StoreOK(r)
    PROVE  LET t == RestartNetwork(r)
           IN  StoreOK(t) /\ t.targets = r.targets /\ ~IsOpen(t.ws) /\ ~t.ws.call
<1> DEFINE s == UpdateState(StopWatchStream([r EXCEPT !.up = FALSE]), "Unknown")
           ws == InhibitBackoff(s.ws)
           i == [s EXCEPT !.ws = ws]
           t == RestartNetwork(r)
<1>1. /\ StoreOK(s) /\ ~s.up
      /\ s.targets = r.targets /\ ~IsOpen(s.ws) /\ ~IsStarted(s.ws) /\ ~s.ws.call
  BY DisableOK
<1>2. t = EnableNetworkOf(i)
  BY DEF RestartNetwork
<1> HIDE DEF s
<1>3. StreamOK(ws) /\ ~IsStarted(ws)
  BY <1>1, InhibitOK DEF StoreOK
<1> HIDE DEF ws
<1>4. /\ i \in StoreType /\ i.ws = ws /\ i.targets = s.targets /\ i.agg = s.agg
      /\ i.online = s.online /\ i.failures = s.failures /\ i.timer = s.timer
  BY <1>1, <1>3 DEF StoreOK, StoreType, StreamOK
<1> HIDE DEF i, t
<1>5. OnlineOK(i) /\ IsFiniteSet(i.targets) /\ Unheard(i.agg)
  BY <1>1, <1>3, <1>4 DEF StoreOK, OnlineOK, OnlineKnown, WatchNeeded
<1>6. StoreOK(t) /\ t.targets = i.targets /\ ~IsOpen(t.ws) /\ ~t.ws.call
  BY <1>2, <1>3, <1>4, <1>5, EnableOK
<1> QED BY <1>1, <1>4, <1>6 DEF t

\* While no stream is open the server knows of no target.
LEMMA NotOpenOK ==
    ASSUME NEW r, StoreOK(r), ~IsOpen(r.ws), NEW known, \A d \in Docs : known[d] = "off"
    PROVE  ServerOK(r, known)
<1>1. r.ws.in = <<>> /\ DOMAIN r.ws.in = {}
  BY DEF StoreOK, StreamOK
<1> QED BY <1>1 DEF ServerOK

-----------------------------------------------------------------------------
(* Requests. *)

\* What the server will have on after one more request.
LEMMA OnAppend ==
    ASSUME NEW out \in Seq(Requests), NEW m \in Requests, NEW known, NEW e
    PROVE  /\ \A i \in 0..Len(out) : On(Append(out, m), known, i, e) <=> On(out, known, i, e)
           /\ On(Append(out, m), known, Len(out) + 1, e) <=>
                IF m.doc = e THEN m.kind = "watch" ELSE On(out, known, Len(out), e)
<1> DEFINE n == Len(out)
           s == Append(out, m)
<1>1. n \in Nat /\ s[n + 1] = m /\ \A i \in 1..n : s[i] = out[i]
  OBVIOUS
<1> HIDE DEF n, s
<1>2. \A i \in 0..n : On(s, known, i, e) <=> On(out, known, i, e)
  BY <1>1 DEF On
<1>3. CASE m.doc = e
  <2>1. m.kind = "watch" => On(s, known, n + 1, e)
    <3> SUFFICES ASSUME m.kind = "watch" PROVE On(s, known, n + 1, e)
      OBVIOUS
    <3>1. /\ n + 1 \in 1..(n + 1) /\ s[n + 1].doc = e /\ s[n + 1].kind = "watch"
          /\ \A k \in 1..(n + 1) : k > n + 1 => s[k].doc # e
      BY <1>1, <1>3
    <3> QED BY <3>1 DEF On
  <2>2. On(s, known, n + 1, e) => m.kind = "watch"
    <3> SUFFICES ASSUME On(s, known, n + 1, e) PROVE m.kind = "watch"
      OBVIOUS
    <3>1. n + 1 \in 1..(n + 1) /\ s[n + 1].doc = e
      BY <1>1, <1>3
    <3>2. PICK j \in 1..(n + 1) : /\ s[j].doc = e /\ s[j].kind = "watch"
                                  /\ \A k \in 1..(n + 1) : k > j => s[k].doc # e
      BY <3>1 DEF On
    <3>3. j = n + 1
      BY <1>1, <3>1, <3>2
    <3> QED BY <1>1, <3>2, <3>3
  <2> QED BY <1>2, <1>3, <2>1, <2>2 DEF n, s
<1>4. CASE m.doc # e
  <2>1. On(s, known, n + 1, e) <=> On(s, known, n, e)
    <3>1. \A j \in 1..(n + 1) : s[j].doc = e => j \in 1..n
      BY <1>1, <1>4
    <3>2. \A j \in 1..n : j \in 1..(n + 1)
      BY <1>1
    <3> QED BY <3>1, <3>2 DEF On
  <2>2. n \in 0..n
    BY <1>1
  <2> QED BY <1>2, <1>4, <2>1, <2>2 DEF n, s
<1> QED BY <1>3, <1>4

\* The server reads the first request.
LEMMA OnTail ==
    ASSUME NEW out \in Seq(Requests), out # <<>>, NEW known, NEW after, NEW e,
           after[e] # "off" <=> IF Head(out).doc = e THEN Head(out).kind = "watch"
                                ELSE known[e] # "off"
    PROVE  \A i \in 0..(Len(out) - 1) : On(Tail(out), after, i, e) <=> On(out, known, i + 1, e)
<1> DEFINE n == Len(out)
           s == Tail(out)
           h == Head(out)
<1>1. n \in Nat \ {0} /\ h = out[1] /\ \A i \in 1..(n - 1) : s[i] = out[i + 1]
  OBVIOUS
<1>2. after[e] # "off" <=> IF h.doc = e THEN h.kind = "watch" ELSE known[e] # "off"
  OBVIOUS
<1> HIDE DEF n, s, h
<1> SUFFICES ASSUME NEW i \in 0..(n - 1)
             PROVE  On(s, after, i, e) <=> On(out, known, i + 1, e)
  BY DEF n, s
<1> DEFINE Quiet == \A k \in 1..i : s[k].doc # e
           Here == \E j \in 1..i : /\ s[j].doc = e /\ s[j].kind = "watch"
                                   /\ \A k \in 1..i : k > j => s[k].doc # e
           First == /\ out[1].doc = e /\ out[1].kind = "watch" /\ Quiet
<1>3. On(s, after, i, e) <=> Here \/ (after[e] # "off" /\ Quiet)
  BY DEF On
<1>4. Quiet <=> \A k \in 2..(i + 1) : out[k].doc # e
  <2>1. \A k \in 1..i : s[k] = out[k + 1] /\ k + 1 \in 2..(i + 1)
    BY <1>1
  <2>2. \A k \in 2..(i + 1) : k - 1 \in 1..i /\ s[k - 1] = out[k]
    BY <1>1
  <2> QED BY ZenonT(60), <2>1, <2>2
<1>5. Here <=> \E j \in 2..(i + 1) : /\ out[j].doc = e /\ out[j].kind = "watch"
                                     /\ \A k \in 1..(i + 1) : k > j => out[k].doc # e
  <2>1. ASSUME Here
        PROVE  \E j \in 2..(i + 1) : /\ out[j].doc = e /\ out[j].kind = "watch"
                                     /\ \A k \in 1..(i + 1) : k > j => out[k].doc # e
    <3>1. PICK j \in 1..i : /\ s[j].doc = e /\ s[j].kind = "watch"
                            /\ \A k \in 1..i : k > j => s[k].doc # e
      BY <2>1
    <3>2. j + 1 \in 2..(i + 1) /\ out[j + 1] = s[j]
      BY <1>1
    <3>3. \A k \in 1..(i + 1) : k > j + 1 => k - 1 \in 1..i /\ k - 1 > j /\ out[k] = s[k - 1]
      BY <1>1
    <3> QED BY <3>1, <3>2, <3>3
  <2>2. ASSUME NEW j \in 2..(i + 1), out[j].doc = e, out[j].kind = "watch",
               \A k \in 1..(i + 1) : k > j => out[k].doc # e
        PROVE  Here
    <3>1. j - 1 \in 1..i /\ s[j - 1] = out[j]
      BY <1>1
    <3>2. \A k \in 1..i : k > j - 1 => k + 1 \in 1..(i + 1) /\ k + 1 > j /\ s[k] = out[k + 1]
      BY <1>1
    <3> QED BY <2>2, <3>1, <3>2
  <2> QED BY <2>1, <2>2
<1>6. On(out, known, i + 1, e) <=> Here \/ First \/ (known[e] # "off" /\ out[1].doc # e /\ Quiet)
  <2> HIDE DEF Quiet, Here
  <2>1. \A k \in 1..(i + 1) : k = 1 \/ k \in 2..(i + 1)
    BY <1>1
  <2>2. 1 \in 1..(i + 1) /\ \A k \in 2..(i + 1) : k \in 1..(i + 1) /\ k > 1
    BY <1>1
  <2>3. (\A k \in 1..(i + 1) : k > 1 => out[k].doc # e) <=> Quiet
    BY <1>4, <2>1, <2>2
  <2>4. (\A k \in 1..(i + 1) : out[k].doc # e) <=> out[1].doc # e /\ Quiet
    BY <1>4, <2>1, <2>2
  <2>5. (\E j \in 1..(i + 1) : /\ out[j].doc = e /\ out[j].kind = "watch"
                               /\ \A k \in 1..(i + 1) : k > j => out[k].doc # e)
        <=> Here \/ First
    BY <1>5, <2>1, <2>2, <2>3
  <2> QED BY <2>4, <2>5 DEF On
<1> HIDE DEF Quiet, Here
<1> QED BY <1>1, <1>2, <1>3, <1>6

\* A request that changes what the server will have on keeps the alternation.
LEMMA AlternateAppend ==
    ASSUME NEW out \in Seq(Requests), NEW known, NEW targets, NEW after,
           Alternate(out, known, targets), NEW m \in Requests,
           m.kind = "watch" => m.doc \notin targets /\ after = targets \cup {m.doc},
           m.kind = "unwatch" => m.doc \in targets /\ after = targets \ {m.doc}
    PROVE  Alternate(Append(out, m), known, after)
<1> DEFINE n == Len(out)
           s == Append(out, m)
<1>1. /\ n \in Nat /\ DOMAIN out = 1..n /\ DOMAIN s = 1..(n + 1) /\ Len(s) = n + 1
      /\ s[n + 1] = m /\ \A i \in 1..n : s[i] = out[i]
  OBVIOUS
<1>2. m.kind \in {"watch", "unwatch"}
  BY DEF Requests, Message
<1> HIDE DEF n, s
<1> SUFFICES ASSUME NEW d \in Docs \ Denied
             PROVE  /\ \A j \in DOMAIN s : s[j].doc = d =>
                         (s[j].kind = "unwatch" <=> On(s, known, j - 1, d))
                    /\ d \in after <=> On(s, known, Len(s), d)
  BY DEF Alternate, s
<1>3. /\ \A i \in 0..n : On(s, known, i, d) <=> On(out, known, i, d)
      /\ On(s, known, n + 1, d) <=> IF m.doc = d THEN m.kind = "watch" ELSE On(out, known, n, d)
  BY OnAppend DEF n, s
<1>4. /\ \A j \in 1..n : out[j].doc = d => (out[j].kind = "unwatch" <=> On(out, known, j - 1, d))
      /\ d \in targets <=> On(out, known, n, d)
  BY <1>1 DEF Alternate, n
<1>5. ASSUME NEW j \in DOMAIN s, s[j].doc = d
      PROVE  s[j].kind = "unwatch" <=> On(s, known, j - 1, d)
  <2>1. CASE j \in 1..n
    <3>1. j - 1 \in 0..n
      BY <1>1, <2>1
    <3> QED BY <1>1, <1>3, <1>4, <1>5, <2>1, <3>1
  <2>2. CASE j = n + 1
    <3>1. j - 1 = n /\ n \in 0..n /\ s[j] = m
      BY <1>1, <2>2
    <3> QED BY <1>2, <1>3, <1>4, <1>5, <3>1
  <2> QED BY <1>1, <2>1, <2>2
<1>6. d \in after <=> On(s, known, Len(s), d)
  BY <1>1, <1>2, <1>3, <1>4
<1> QED BY <1>5, <1>6

\* Reading the first request keeps the alternation.
LEMMA AlternateTail ==
    ASSUME NEW out \in Seq(Requests), out # <<>>, NEW known, NEW after, NEW targets,
           Alternate(out, known, targets),
           \A e \in Docs \ Denied :
             after[e] # "off" <=> IF Head(out).doc = e THEN Head(out).kind = "watch"
                                  ELSE known[e] # "off"
    PROVE  Alternate(Tail(out), after, targets)
<1> DEFINE n == Len(out)
           s == Tail(out)
<1>1. /\ n \in Nat \ {0} /\ DOMAIN out = 1..n /\ DOMAIN s = 1..(n - 1) /\ Len(s) = n - 1
      /\ \A i \in 1..(n - 1) : s[i] = out[i + 1]
  OBVIOUS
<1> HIDE DEF n, s
<1> SUFFICES ASSUME NEW d \in Docs \ Denied
             PROVE  /\ \A j \in DOMAIN s : s[j].doc = d =>
                         (s[j].kind = "unwatch" <=> On(s, after, j - 1, d))
                    /\ d \in targets <=> On(s, after, Len(s), d)
  BY DEF Alternate, s
<1>2. \A i \in 0..(n - 1) : On(s, after, i, d) <=> On(out, known, i + 1, d)
  BY OnTail DEF n, s
<1>3. /\ \A j \in 1..n : out[j].doc = d => (out[j].kind = "unwatch" <=> On(out, known, j - 1, d))
      /\ d \in targets <=> On(out, known, n, d)
  BY <1>1 DEF Alternate, n
<1>4. ASSUME NEW j \in DOMAIN s, s[j].doc = d
      PROVE  s[j].kind = "unwatch" <=> On(s, after, j - 1, d)
  <2>1. j - 1 \in 0..(n - 1) /\ j + 1 \in 1..n /\ (j - 1) + 1 = (j + 1) - 1 /\ s[j] = out[j + 1]
    BY <1>1
  <2> QED BY <1>2, <1>3, <1>4, <2>1
<1>5. d \in targets <=> On(s, after, Len(s), d)
  <2>1. n - 1 \in 0..(n - 1) /\ (n - 1) + 1 = n
    BY <1>1
  <2> QED BY <1>1, <1>2, <1>3, <2>1
<1> QED BY <1>4, <1>5

\* What a request leaves of the targets' flags: a stop notes that the target
\* was current.
Sent(before, after, kind, d) ==
    /\ after[d].current = before[d].current
    /\ after[d].old = IF kind = "unwatch" THEN before[d].current ELSE before[d].old
    /\ \A e \in Docs : e # d => after[e] = before[e]

\* SendWatchRequest and SendUnwatchRequest count the response they are due.
LEMMA SendRequestOK ==
    ASSUME NEW r \in StoreType, StreamOK(r.ws), IsOpen(r.ws),
           NEW d \in Docs, NEW kind \in {"watch", "unwatch"},
           CountsDue(r.agg, r.ws.out, r.ws.in)
    PROVE  LET t == SendRequest(r, kind, d)
           IN  /\ t \in StoreType /\ StreamOK(t.ws) /\ IsOpen(t.ws)
               /\ t.up = r.up /\ t.targets = r.targets /\ t.online = r.online
               /\ t.failures = r.failures /\ t.timer = r.timer
               /\ t.ws.in = r.ws.in /\ "idle" \notin t.ws.timers
               /\ t.ws.out = Append(r.ws.out, [kind |-> kind, doc |-> d])
               /\ CountsDue(t.agg, t.ws.out, t.ws.in)
               /\ Sent(r.agg, t.agg, kind, d)
<1> DEFINE m == [kind |-> kind, doc |-> d]
           ws == Send(r.ws, <<m>>)
           agg == [r.agg EXCEPT
                     ![d].pending = @ + 1,
                     ![d].old = IF kind = "unwatch" THEN r.agg[d].current ELSE @]
           t == SendRequest(r, kind, d)
<1>1. m \in Requests /\ m.doc = d /\ m.kind = kind
  BY DEF Requests, Message
<1> HIDE DEF m
<1>2. /\ StreamOK(ws) /\ IsOpen(ws)
      /\ ws.out = Append(r.ws.out, m) /\ ws.in = r.ws.in /\ ws.timers = r.ws.timers \ {"idle"}
  BY <1>1, SendOK
<1>3. t = [r EXCEPT !.agg = agg, !.ws = ws]
  BY DEF SendRequest, m
<1> HIDE DEF ws
<1>4. /\ agg \in [Docs -> [pending : Nat, current : BOOLEAN, old : BOOLEAN]]
      /\ agg[d].pending = r.agg[d].pending + 1 /\ agg[d].current = r.agg[d].current
      /\ agg[d].old = IF kind = "unwatch" THEN r.agg[d].current ELSE r.agg[d].old
      /\ \A e \in Docs : e # d => agg[e] = r.agg[e]
  <2> DEFINE a == r.agg[d]
             b == [a EXCEPT !.pending = @ + 1,
                            !.old = IF kind = "unwatch" THEN a.current ELSE @]
  <2>1. /\ r.agg \in [Docs -> [pending : Nat, current : BOOLEAN, old : BOOLEAN]]
        /\ a \in [pending : Nat, current : BOOLEAN, old : BOOLEAN] /\ a = r.agg[d]
    BY DEF StoreType
  <2>2. agg = [r.agg EXCEPT ![d] = b]
    BY <2>1
  <2> HIDE DEF a, agg
  <2>3. /\ b \in [pending : Nat, current : BOOLEAN, old : BOOLEAN]
        /\ b.pending = a.pending + 1 /\ b.current = a.current
        /\ b.old = IF kind = "unwatch" THEN a.current ELSE a.old
    <3> DEFINE n == a.pending + 1
               o == IF kind = "unwatch" THEN a.current ELSE a.old
    <3>1. n \in Nat
      BY <2>1
    <3>2. o \in BOOLEAN
      BY <2>1
    <3>3. b = [a EXCEPT !.pending = n, !.old = o]
      OBVIOUS
    <3> HIDE DEF n, o, b
    <3>4. b \in [pending : Nat, current : BOOLEAN, old : BOOLEAN]
      BY ZenonT(60), <2>1, <3>1, <3>2, <3>3
    <3>5. b.pending = n /\ b.current = a.current /\ b.old = o
      BY <2>1, <3>3
    <3> QED BY <3>4, <3>5 DEF n, o
  <2> HIDE DEF b
  <2> QED BY <2>1, <2>2, <2>3
<1> HIDE DEF agg, t
<1>5. /\ t \in StoreType /\ t.agg = agg /\ t.ws = ws
      /\ t.up = r.up /\ t.targets = r.targets /\ t.online = r.online
      /\ t.failures = r.failures /\ t.timer = r.timer
  BY <1>2, <1>3, <1>4 DEF StoreType, StreamOK
<1>6. r.ws.out \in Seq(Requests) /\ r.ws.in \in Seq(Responses)
  BY DEF StreamOK, WatchStream, StreamType
<1>7. CountsDue(agg, Append(r.ws.out, m), r.ws.in)
  <2> DEFINE out == r.ws.out
  <2>0. out \in Seq(Requests)
    BY <1>6
  <2> SUFFICES ASSUME NEW e \in Docs \ Denied
               PROVE  agg[e].pending =
                        Cardinality(About(Append(out, m), e, {"watch", "unwatch"}))
                        + Cardinality(About(r.ws.in, e, {"added", "removed"}))
    BY DEF CountsDue
  <2>1. r.agg[e].pending = Cardinality(About(out, e, {"watch", "unwatch"}))
                           + Cardinality(About(r.ws.in, e, {"added", "removed"}))
    BY DEF CountsDue
  <2> HIDE DEF out
  <2>2. Cardinality(About(Append(out, m), e, {"watch", "unwatch"})) =
          IF m.doc = e /\ m.kind \in {"watch", "unwatch"}
          THEN Cardinality(About(out, e, {"watch", "unwatch"})) + 1
          ELSE Cardinality(About(out, e, {"watch", "unwatch"}))
    BY <1>1, <2>0, AboutAppend
  <2>3. /\ Cardinality(About(out, e, {"watch", "unwatch"})) \in Nat
        /\ Cardinality(About(r.ws.in, e, {"added", "removed"})) \in Nat
    BY <1>6, <2>0, AboutFinite
  <2> QED BY <1>1, <1>4, <2>1, <2>2, <2>3
<1>8. "idle" \notin t.ws.timers
  BY <1>2, <1>5
<1>9. CountsDue(t.agg, t.ws.out, t.ws.in)
  BY <1>2, <1>5, <1>7
<1>10. Sent(r.agg, t.agg, kind, d)
  BY <1>4, <1>5 DEF Sent
<1> QED BY <1>2, <1>5, <1>8, <1>9, <1>10 DEF t, m

\* RemoteStore::Listen for a target that is not listened to.
LEMMA ListenOK ==
    ASSUME NEW r, StoreOK(r), NEW known, ServerOK(r, known), NEW d \in Docs, d \notin r.targets
    PROVE  LET t == Listen(r, d)
           IN  /\ StoreOK(t) /\ ServerOK(t, known) /\ t.targets = r.targets \cup {d}
               /\ IsOpen(t.ws) => t.ws.in = r.ws.in /\ Sent(r.agg, t.agg, "watch", d)
<1> DEFINE s == [r EXCEPT !.targets = @ \cup {d}]
           t == Listen(r, d)
<1>1. /\ s \in StoreType /\ s.targets = r.targets \cup {d} /\ s.up = r.up
      /\ s.agg = r.agg /\ s.ws = r.ws
      /\ s.online = r.online /\ s.failures = r.failures /\ s.timer = r.timer
  BY DEF StoreOK, StoreType
<1>2. t = IF ShouldStartWatchStream(s) THEN StartWatchStream(s)
          ELSE IF IsOpen(s.ws) THEN SendRequest(s, "watch", d) ELSE s
  BY DEF Listen
<1> HIDE DEF s, t
<1>3. IsFiniteSet(s.targets)
  BY <1>1, FS_AddElement DEF StoreOK, WatchNeeded
<1>4. StreamOK(s.ws) /\ OnlineOK(s)
  BY <1>1 DEF StoreOK, OnlineOK, OnlineKnown
<1>5. CASE ShouldStartWatchStream(s)
  <2>1. ~IsStarted(s.ws) /\ ~IsOpen(s.ws) /\ s.up
    BY <1>5 DEF ShouldStartWatchStream, IsStarted
  <2>2. ~s.timer /\ (s.online = "Online" => s.failures = 0)
    BY <1>4, <2>1 DEF OnlineOK, OnlineKnown
  <2>3. StoreOK(t) /\ t.targets = s.targets /\ ~IsOpen(t.ws)
    BY <1>1, <1>2, <1>3, <1>4, <1>5, <2>1, <2>2, StartWatchOK
  <2>4. \A e \in Docs : known[e] = "off"
    BY <1>1, <2>1 DEF ServerOK
  <2>5. ServerOK(t, known)
    BY <2>3, <2>4, NotOpenOK
  <2> QED BY <1>1, <2>3, <2>5 DEF t
<1>6. CASE ~ShouldStartWatchStream(s) /\ IsOpen(s.ws)
  <2> DEFINE m == [kind |-> "watch", doc |-> d]
  <2>1. t = SendRequest(s, "watch", d)
    BY <1>2, <1>6
  <2>2. Alternate(r.ws.out, known, r.targets) /\ CountsDue(s.agg, s.ws.out, s.ws.in)
    BY <1>1, <1>6 DEF ServerOK
  <2>3. /\ t \in StoreType /\ StreamOK(t.ws) /\ IsOpen(t.ws)
        /\ t.up = s.up /\ t.targets = s.targets /\ t.online = s.online
        /\ t.failures = s.failures /\ t.timer = s.timer
        /\ t.ws.in = s.ws.in /\ "idle" \notin t.ws.timers
        /\ t.ws.out = Append(s.ws.out, m)
        /\ CountsDue(t.agg, t.ws.out, t.ws.in)
        /\ Sent(s.agg, t.agg, "watch", d)
    BY <1>1, <1>4, <1>6, <2>1, <2>2, SendRequestOK
  <2>4. m \in Requests /\ m.doc = d /\ m.kind = "watch"
    BY DEF Requests, Message
  <2> HIDE DEF m
  <2>5. Alternate(t.ws.out, known, t.targets)
    <3> DEFINE out == r.ws.out
    <3>1. out \in Seq(Requests)
      BY DEF StoreOK, StreamOK, WatchStream, StreamType
    <3>2. Alternate(out, known, r.targets)
      BY <2>2
    <3> HIDE DEF out
    <3>3. Alternate(Append(out, m), known, r.targets \cup {d})
      BY <2>4, <3>1, <3>2, AlternateAppend
    <3> QED BY <1>1, <2>3, <3>3 DEF out
  <2>6. IsStarted(t.ws) /\ IsStarted(r.ws) /\ r.up
    BY <1>1, <1>6, <2>3 DEF IsStarted, StoreOK, WatchNeeded
  <2>7. OnlineOK(t) /\ WatchNeeded(t)
    BY <1>1, <1>3, <1>4, <2>3, <2>6 DEF OnlineOK, OnlineKnown, WatchNeeded
  <2>8. ServerOK(t, known)
    BY <1>1, <1>6, <2>3, <2>5 DEF ServerOK
  <2> QED BY <1>1, <2>3, <2>7, <2>8 DEF t, StoreOK
<1>7. CASE ~ShouldStartWatchStream(s) /\ ~IsOpen(s.ws)
  <2>1. t = s
    BY <1>2, <1>7
  <2>2. "idle" \notin s.ws.timers
    BY <1>4, <1>7 DEF StreamOK
  <2>3. WatchNeeded(s)
    BY <1>1, <1>3, <1>7, <2>2 DEF StoreOK, WatchNeeded
  <2>4. StoreOK(s)
    BY <1>1, <1>4, <2>3 DEF StoreOK
  <2>5. \A e \in Docs : known[e] = "off"
    BY <1>1, <1>7 DEF ServerOK
  <2>6. ServerOK(s, known)
    BY <1>7, <2>4, <2>5, NotOpenOK
  <2> QED BY <1>1, <1>7, <2>1, <2>4, <2>6 DEF t
<1> QED BY <1>5, <1>6, <1>7

\* RemoteStore::StopListening for a target that is listened to: the assertion
\* holds, and the last target leaves an open stream idle.
LEMMA StopListeningOK ==
    ASSUME NEW r, StoreOK(r), NEW known, ServerOK(r, known), NEW d \in r.targets
    PROVE  LET t == StopListening(r, d)
           IN  /\ StoreOK(t) /\ ServerOK(t, known) /\ t.targets = r.targets \ {d}
               /\ IsOpen(t.ws) => t.ws.in = r.ws.in /\ Sent(r.agg, t.agg, "unwatch", d)
<1> DEFINE ws == HardAssert(r.ws, d \in r.targets)
           s == [r EXCEPT !.targets = @ \ {d}, !.ws = ws]
           told == IF IsOpen(r.ws) THEN SendRequest(s, "unwatch", d) ELSE s
           t == StopListening(r, d)
<1>1. ws = r.ws
  BY AssertOK DEF StoreOK
<1>2. t = IF told.targets # {} THEN told
          ELSE IF IsOpen(told.ws) THEN [told EXCEPT !.ws = MarkIdle(@)]
          ELSE IF told.up THEN UpdateState(told, "Unknown")
          ELSE told
  BY DEF StopListening
<1> HIDE DEF ws
<1>3. /\ s \in StoreType /\ s.targets = r.targets \ {d} /\ s.up = r.up
      /\ s.agg = r.agg /\ s.ws = r.ws
      /\ s.online = r.online /\ s.failures = r.failures /\ s.timer = r.timer
  BY <1>1 DEF StoreOK, StoreType
<1> HIDE DEF s, t
<1>4. IsFiniteSet(s.targets) /\ d \in Docs
  <2>1. IsFiniteSet(r.targets) /\ r.targets \subseteq Docs
    BY DEF StoreOK, WatchNeeded, StoreType
  <2> QED BY <1>3, <2>1, FS_RemoveElement
<1>5. StreamOK(s.ws) /\ OnlineOK(s)
  BY <1>3 DEF StoreOK, OnlineOK, OnlineKnown
<1>6. CASE ~IsOpen(r.ws)
  <2>1. told = s /\ "idle" \notin s.ws.timers
    BY <1>3, <1>5, <1>6 DEF StreamOK
  <2>2. WatchNeeded(s)
    BY <1>3, <1>4, <1>6, <2>1 DEF StoreOK, WatchNeeded
  <2>3. StoreOK(s)
    BY <1>3, <1>5, <2>2 DEF StoreOK
  <2>4. StoreOK(t) /\ t.targets = s.targets /\ t.ws = s.ws
    <3>1. StoreOK(UpdateState(s, "Unknown")) /\ UpdateState(s, "Unknown").targets = s.targets
          /\ UpdateState(s, "Unknown").ws = s.ws
      BY <1>3, <1>5, <2>2, UpdateOK
    <3> HIDE DEF told
    <3>2. t = s \/ t = UpdateState(s, "Unknown")
      BY <1>2, <1>3, <1>6, <2>1
    <3> QED BY <2>3, <3>1, <3>2
  <2>5. \A e \in Docs : known[e] = "off"
    BY <1>6 DEF ServerOK
  <2>6. ServerOK(t, known)
    BY <1>3, <1>6, <2>4, <2>5, NotOpenOK
  <2> QED BY <1>3, <1>6, <2>4, <2>6 DEF t
<1>7. CASE IsOpen(r.ws)
  <2> DEFINE m == [kind |-> "unwatch", doc |-> d]
             u == SendRequest(s, "unwatch", d)
  <2>1. told = u
    BY <1>7
  <2>2. Alternate(r.ws.out, known, r.targets) /\ CountsDue(s.agg, s.ws.out, s.ws.in)
    BY <1>3, <1>7 DEF ServerOK
  <2>3. /\ u \in StoreType /\ StreamOK(u.ws) /\ IsOpen(u.ws)
        /\ u.up = s.up /\ u.targets = s.targets /\ u.online = s.online
        /\ u.failures = s.failures /\ u.timer = s.timer
        /\ u.ws.in = s.ws.in /\ "idle" \notin u.ws.timers
        /\ u.ws.out = Append(s.ws.out, m)
        /\ CountsDue(u.agg, u.ws.out, u.ws.in)
        /\ Sent(s.agg, u.agg, "unwatch", d)
    BY <1>3, <1>4, <1>5, <1>7, <2>2, SendRequestOK
  <2>4. m \in Requests /\ m.doc = d /\ m.kind = "unwatch"
    BY <1>4 DEF Requests, Message
  <2> HIDE DEF m, u, told
  <2>5. Alternate(u.ws.out, known, u.targets)
    <3> DEFINE out == r.ws.out
    <3>1. out \in Seq(Requests)
      BY DEF StoreOK, StreamOK, WatchStream, StreamType
    <3>2. Alternate(out, known, r.targets)
      BY <2>2
    <3> HIDE DEF out
    <3>3. Alternate(Append(out, m), known, r.targets \ {d})
      BY <2>4, <3>1, <3>2, AlternateAppend
    <3> QED BY <1>3, <2>3, <3>3 DEF out
  <2>6. IsStarted(u.ws) /\ u.up
    BY <1>3, <1>7, <2>3 DEF IsStarted, StoreOK, WatchNeeded
  <2> DEFINE w == IF u.targets # {} THEN u.ws ELSE MarkIdle(u.ws)
  <2>7. /\ StreamOK(w) /\ IsOpen(w) /\ w.out = u.ws.out /\ w.in = u.ws.in
        /\ "idle" \in w.timers => u.targets = {}
    <3>1. CASE u.targets # {}
      BY <2>3, <3>1
    <3>2. CASE u.targets = {}
      <4>1. /\ StreamOK(MarkIdle(u.ws)) /\ IsOpen(MarkIdle(u.ws))
            /\ MarkIdle(u.ws).out = u.ws.out /\ MarkIdle(u.ws).in = u.ws.in
        BY <2>3, MarkIdleOK
      <4> QED BY <3>2, <4>1
    <3> QED BY <3>1, <3>2
  <2>8. /\ t \in StoreType /\ t.ws = w /\ t.agg = u.agg
        /\ t.up = u.up /\ t.targets = u.targets /\ t.online = u.online
        /\ t.failures = u.failures /\ t.timer = u.timer
    <3>1. CASE u.targets # {}
      <4>1. t = u
        BY <1>2, <2>1, <3>1
      <4> QED BY <2>3, <3>1, <4>1
    <3>2. CASE u.targets = {}
      <4>1. t = [u EXCEPT !.ws = w]
        BY <1>2, <2>1, <2>3, <3>2
      <4>2. w \in WatchStream
        BY <2>7 DEF StreamOK
      <4> HIDE DEF w
      <4> QED BY <2>3, <4>1, <4>2 DEF StoreType
    <3> QED BY <3>1, <3>2
  <2> HIDE DEF w
  <2>9. IsStarted(w)
    BY <2>7 DEF IsStarted
  <2>10. OnlineOK(t) /\ WatchNeeded(t)
    BY <1>3, <1>4, <1>5, <2>3, <2>6, <2>7, <2>8, <2>9 DEF OnlineOK, OnlineKnown, WatchNeeded
  <2>11. ServerOK(t, known)
    BY <1>3, <1>7, <2>3, <2>5, <2>7, <2>8 DEF ServerOK
  <2> QED BY <1>3, <2>3, <2>7, <2>8, <2>10, <2>11 DEF t, StoreOK
<1> QED BY <1>6, <1>7

-----------------------------------------------------------------------------
(* Listeners. *)

GetType == [caller : {"idle", "called", "waiting", "removing"},
            doc : Docs \cup {NoDoc}, listed : BOOLEAN, raised : BOOLEAN,
            events : Seq(Event), muted : BOOLEAN, answers : 0..2]

\* A view exists for what is listened to, and somebody listens to it.
Follow(targets, views, gets) ==
    /\ targets = {d \in Docs : views[d] # "none"}
    /\ targets = {gets[g].doc : g \in {h \in Gets : gets[h].listed}}

\* An event for a listener in the list; an error takes it off the list.
LEMMA RaisedOK ==
    ASSUME NEW x \in GetType, SlotOK(x), x.listed, NEW e \in Event, NEW listed \in BOOLEAN,
           e = "error" <=> ~listed
    PROVE  LET y == [Raised(x, e) EXCEPT !.listed = listed]
           IN  /\ y \in GetType /\ SlotOK(y)
               /\ y.caller = x.caller /\ y.doc = x.doc /\ y.raised /\ y.listed = listed
<1> DEFINE events == IF Len(x.events) < 2 THEN Append(x.events, e) ELSE x.events
           y == [Raised(x, e) EXCEPT !.listed = listed]
<1>1. x.events \in Seq(Event)
  BY DEF GetType
<1>2. events \in Seq(Event)
  BY <1>1
<1>3. y = [x EXCEPT !.raised = TRUE, !.events = events, !.listed = listed]
  BY DEF Raised, GetType
<1>4. \A i \in DOMAIN events : events[i] = "error" => i = Len(events) /\ ~listed
  <2>1. \A i \in DOMAIN x.events : x.events[i] # "error"
    BY DEF SlotOK
  <2>2. CASE Len(x.events) < 2
    <3> DEFINE v == x.events
    <3>1. v \in Seq(Event)
      BY <1>1
    <3>2. \A i \in DOMAIN v : v[i] # "error"
      BY <2>1
    <3> HIDE DEF v
    <3>3. \A i \in DOMAIN Append(v, e) : /\ i \in DOMAIN v => Append(v, e)[i] = v[i]
                                         /\ i \notin DOMAIN v => i = Len(Append(v, e))
                                                                 /\ Append(v, e)[i] = e
      BY <3>1
    <3>4. \A i \in DOMAIN Append(v, e) : Append(v, e)[i] = "error" => i = Len(Append(v, e)) /\ ~listed
      BY <3>2, <3>3
    <3> QED BY <2>2, <3>4 DEF v
  <2>3. CASE ~(Len(x.events) < 2)
    BY <2>1, <2>3
  <2> QED BY <2>2, <2>3
<1> HIDE DEF events
<1>5. /\ y \in GetType
      /\ y.caller = x.caller /\ y.doc = x.doc /\ y.raised = TRUE /\ y.listed = listed
      /\ y.events = events /\ y.muted = x.muted /\ y.answers = x.answers
  BY <1>2, <1>3 DEF GetType
<1> HIDE DEF y
<1>6. SlotOK(y)
  BY <1>4, <1>5 DEF SlotOK
<1> QED BY <1>5, <1>6 DEF y

\* The same for an event that is no error.
LEMMA RaisedSnapshot ==
    ASSUME NEW x \in GetType, SlotOK(x), x.listed, NEW e \in {"server", "cache"}
    PROVE  LET y == Raised(x, e)
           IN  /\ y \in GetType /\ SlotOK(y)
               /\ y.caller = x.caller /\ y.doc = x.doc /\ y.raised /\ y.listed
<1> DEFINE y == Raised(x, e)
           z == [Raised(x, e) EXCEPT !.listed = TRUE]
<1>1. /\ z \in GetType /\ SlotOK(z)
      /\ z.caller = x.caller /\ z.doc = x.doc /\ z.raised /\ z.listed = TRUE
  <2>1. e \in Event /\ e # "error"
    BY DEF Event
  <2> QED BY <2>1, RaisedOK
<1>2. y = z
  BY DEF Raised, GetType
<1> HIDE DEF y, z
<1> QED BY <1>1, <1>2 DEF y

ViewType == [Docs -> {"none", "local", "synced"}]
ServerType == [Docs -> {"off", "on", "current"}]

\* TypeOK in these words.
LEMMA Typed ==
    TypeOK <=> /\ get \in [Gets -> GetType] /\ view \in ViewType /\ store \in StoreType
               /\ server \in ServerType /\ calls \in 0..MaxCalls
  BY DEF TypeOK, GetType, ViewType, StoreType, ServerType, WatchStream

\* The end of a task of the worker queue: views and listeners learn of the new
\* online state, and who still waits waits for the server.
LEMMA HandledOK ==
    ASSUME NEW r, NEW gets \in [Gets -> GetType], NEW v \in ViewType, Handled(r, gets, v),
           StoreOK(r), \A g \in Gets : SlotOK(gets[g]), Follow(r.targets, v, gets)
    PROVE  /\ store' = r /\ view' \in ViewType /\ get' \in [Gets -> GetType]
           /\ \A g \in Gets : SlotOK(get'[g])
           /\ TargetsFollowListeners' /\ WaitersWait'
<1>1. /\ store' = r /\ view' = Seen(v, r.online)
      /\ get' = Notified(gets, view, view', r.online)
  BY DEF Handled
<1>2. /\ view' \in ViewType
      /\ \A d \in Docs : /\ view'[d] = "none" <=> v[d] = "none"
                         /\ r.online = "Offline" => view'[d] # "synced"
  BY <1>1 DEF Seen, ViewType
<1>3. ASSUME NEW g \in Gets
      PROVE  /\ get'[g] \in GetType /\ SlotOK(get'[g])
             /\ get'[g].doc = gets[g].doc /\ get'[g].listed = gets[g].listed
             /\ get'[g].listed /\ ~get'[g].raised =>
                  view'[get'[g].doc] # "synced" /\ r.online # "Offline"
  <2> DEFINE x == gets[g]
             synced == view'[x.doc] = "synced"
  <2>1. x \in GetType /\ SlotOK(x)
    OBVIOUS
  <2>2. get'[g] = IF ~x.listed THEN x
                  ELSE IF ~x.raised
                  THEN IF synced \/ ~Waits(r.online) THEN Raised(x, Kind(synced)) ELSE x
                  ELSE IF view[x.doc] # view'[x.doc] THEN Raised(x, Kind(synced)) ELSE x
    BY <1>1 DEF Notified
  <2>3. Kind(synced) \in {"server", "cache"}
    BY DEF Kind
  <2> DEFINE y == Raised(x, Kind(synced))
  <2> HIDE DEF x
  <2>4. x.listed => /\ y \in GetType /\ SlotOK(y)
                    /\ y.caller = x.caller /\ y.doc = x.doc /\ y.raised /\ y.listed
    <3> DEFINE e == Kind(synced)
    <3>1. e \in {"server", "cache"}
      BY <2>3
    <3> HIDE DEF e
    <3>2. x.listed => LET z == Raised(x, e)
                      IN  /\ z \in GetType /\ SlotOK(z)
                          /\ z.caller = x.caller /\ z.doc = x.doc /\ z.raised /\ z.listed
      BY <2>1, <3>1, RaisedSnapshot
    <3> QED BY <3>2 DEF e
  <2> HIDE DEF y
  <2>5. \/ get'[g] = x /\ (~x.listed \/ x.raised \/ (~synced /\ Waits(r.online)))
        \/ get'[g] = y /\ x.listed
    BY <2>2 DEF y
  <2>6. CASE get'[g] = x /\ (~x.listed \/ x.raised \/ (~synced /\ Waits(r.online)))
    BY <2>1, <2>6 DEF x, Waits
  <2>7. CASE get'[g] = y /\ x.listed
    <3>1. x.listed = TRUE /\ y.listed = TRUE
      <4>1. x.listed \in BOOLEAN /\ y.listed \in BOOLEAN
        BY <2>1, <2>4, <2>7 DEF GetType
      <4> QED BY <2>4, <2>7, <4>1
    <3> QED BY <2>4, <2>7, <3>1 DEF x
  <2> QED BY <2>5, <2>6, <2>7
<1>4. get' \in [Gets -> GetType]
  <2>1. DOMAIN get' = Gets /\ get' = [g \in Gets |-> get'[g]]
    BY <1>1 DEF Notified
  <2> QED BY <1>3, <2>1
<1>5. TargetsFollowListeners'
  <2>1. r.targets = {d \in Docs : view'[d] # "none"}
    BY <1>2 DEF Follow
  <2>2. r.targets = {get'[g].doc : g \in {h \in Gets : get'[h].listed}}
    BY <1>3 DEF Follow
  <2> QED BY <1>1, <2>1, <2>2 DEF TargetsFollowListeners
<1>6. WaitersWait'
  <2> SUFFICES ASSUME NEW g \in Gets, get'[g].listed, ~get'[g].raised
               PROVE  view'[get'[g].doc] = "local" /\ store'.online # "Offline"
    BY DEF WaitersWait
  <2>1. view'[get'[g].doc] # "synced" /\ r.online # "Offline"
    BY <1>3
  <2>2. get'[g].doc \in r.targets
    BY <1>3 DEF Follow
  <2>3. get'[g].doc \in Docs /\ v[get'[g].doc] # "none"
    BY <2>2 DEF Follow
  <2>4. view'[get'[g].doc] \in {"none", "local", "synced"}
    BY <1>2, <2>3 DEF ViewType
  <2> QED BY <1>1, <1>2, <2>1, <2>3, <2>4
<1> QED BY <1>1, <1>2, <1>3, <1>4, <1>5, <1>6

\* A task that leaves the remote store as it should be keeps the invariant.
LEMMA HandledInv ==
    ASSUME WatchInv,
           NEW r, NEW gets \in [Gets -> GetType], NEW v \in ViewType, Handled(r, gets, v),
           StoreOK(r), ServerOK(r, server'), server' \in ServerType, calls' = calls,
           \A g \in Gets : SlotOK(gets[g]), Follow(r.targets, v, gets)
    PROVE  WatchInv'
<1>1. /\ store' = r /\ view' \in ViewType /\ get' \in [Gets -> GetType]
      /\ \A g \in Gets : SlotOK(get'[g])
      /\ TargetsFollowListeners' /\ WaitersWait'
  BY HandledOK
<1>2. StoreOK(store') /\ ServerOK(store', server') /\ store' \in StoreType
  BY <1>1 DEF StoreOK
<1>3. calls' \in 0..MaxCalls
  BY Typed DEF WatchInv
<1>4. TypeOK'
  BY <1>1, <1>2, <1>3 DEF TypeOK, GetType, ViewType, StoreType, ServerType, WatchStream
<1> QED BY <1>1, <1>2, <1>4 DEF WatchInv

\* The same where listeners and views are left to it.
LEMMA HandledStore ==
    ASSUME WatchInv, NEW r, Handled(r, get, view), StoreOK(r), r.targets = store.targets,
           ServerOK(r, server'), server' \in ServerType, calls' = calls
    PROVE  WatchInv'
<1>1. /\ get \in [Gets -> GetType] /\ view \in ViewType
      /\ \A g \in Gets : SlotOK(get[g])
  BY Typed DEF WatchInv
<1>2. Follow(r.targets, view, get)
  BY DEF WatchInv, TargetsFollowListeners, Follow
<1> QED BY <1>1, <1>2, HandledInv

\* A step that changes only the remote store and the server, and neither the
\* targets nor the online state.
LEMMA StoreOnly ==
    ASSUME WatchInv, StoreOK(store'), ServerOK(store', server'), server' \in ServerType,
           store'.targets = store.targets, store'.online = store.online,
           UNCHANGED <<get, view, calls>>
    PROVE  WatchInv'
<1>1. get' = get /\ view' = view /\ calls' = calls /\ store' \in StoreType
  BY DEF StoreOK
<1>2. TypeOK'
  <2>1. /\ get \in [Gets -> GetType] /\ view \in ViewType /\ calls \in 0..MaxCalls
    BY Typed DEF WatchInv
  <2> QED BY <1>1, <2>1
          DEF TypeOK, GetType, ViewType, StoreType, ServerType, WatchStream
<1>3. TargetsFollowListeners' /\ WaitersWait'
  BY <1>1 DEF WatchInv, TargetsFollowListeners, WaitersWait
<1>4. \A g \in Gets : SlotOK(get'[g])
  BY <1>1 DEF WatchInv
<1> QED BY <1>2, <1>3, <1>4 DEF WatchInv

-----------------------------------------------------------------------------
(* The calls. *)

\* One slot changes, and what its listener listens to does not.
LEMMA SlotStep ==
    ASSUME WatchInv, NEW g \in Gets, NEW y \in GetType, SlotOK(y),
           get' = [get EXCEPT ![g] = y], y.listed = get[g].listed,
           y.listed => y.doc = get[g].doc /\ y.raised = get[g].raised,
           UNCHANGED <<view, store, server>>, calls' \in 0..MaxCalls
    PROVE  WatchInv'
<1>1. view' = view /\ store' = store /\ server' = server
  OBVIOUS
<1>2. /\ get \in [Gets -> GetType] /\ view \in ViewType /\ store \in StoreType
      /\ server \in ServerType
  BY Typed DEF WatchInv
<1>3. /\ get' \in [Gets -> GetType] /\ get'[g] = y
      /\ \A h \in Gets : h # g => get'[h] = get[h]
  BY <1>2
<1>4. TypeOK'
  BY <1>1, <1>2, <1>3 DEF TypeOK, GetType, ViewType, StoreType, ServerType, WatchStream
<1>5. /\ \A h \in Gets : get'[h].listed = get[h].listed
      /\ \A h \in Gets : get[h].listed => get'[h].doc = get[h].doc /\ get'[h].raised = get[h].raised
      /\ \A h \in Gets : SlotOK(get'[h])
  BY <1>3 DEF WatchInv
<1>6. TargetsFollowListeners' /\ WaitersWait'
  <2>1. {get'[h].doc : h \in {k \in Gets : get'[k].listed}}
        = {get[h].doc : h \in {k \in Gets : get[k].listed}}
    BY <1>5
  <2> QED BY <1>1, <1>5, <2>1 DEF WatchInv, TargetsFollowListeners, WaitersWait
<1> QED BY <1>1, <1>4, <1>5, <1>6 DEF WatchInv

\* GetDocument on the main thread.
LEMMA GetDocumentStep ==
    ASSUME WatchInv, NEW g \in Gets, NEW d \in Docs, GetDocument(g, d)
    PROVE  WatchInv'
<1> DEFINE y == [NoGet EXCEPT !.caller = "called", !.doc = d]
<1>1. /\ y \in GetType /\ y.caller = "called" /\ y.doc = d /\ y.listed = FALSE
      /\ y.raised = FALSE /\ y.events = <<>> /\ y.muted = FALSE /\ y.answers = 0
  <2>1. <<>> \in Seq(Event) /\ 0 \in 0..2
    OBVIOUS
  <2> DEFINE n == NoGet
  <2>2. /\ n \in GetType /\ n.listed = FALSE /\ n.raised = FALSE /\ n.events = <<>>
        /\ n.muted = FALSE /\ n.answers = 0
    BY <2>1 DEF NoGet, GetType
  <2> HIDE DEF n
  <2>3. y = [n EXCEPT !.caller = "called", !.doc = d]
    BY DEF n
  <2> HIDE DEF y
  <2> QED BY <2>2, <2>3 DEF GetType
<1>2. /\ get' = [get EXCEPT ![g] = y] /\ UNCHANGED <<view, store, server>>
      /\ calls < MaxCalls /\ calls' = calls + 1 /\ get[g].caller = "idle"
  BY DEF GetDocument
<1> HIDE DEF y
<1>3. SlotOK(y)
  BY <1>1 DEF SlotOK
<1>4. get[g].listed = FALSE
  <2>1. get[g] \in GetType /\ SlotOK(get[g])
    BY Typed DEF WatchInv
  <2> QED BY <1>2, <2>1 DEF SlotOK, GetType
<1>5. calls' \in 0..MaxCalls
  BY <1>2, Typed, WatchPipelineAssumption DEF WatchInv
<1> QED BY <1>1, <1>2, <1>3, <1>4, <1>5, SlotStep

\* An event is delivered on the main thread: the first one mutes the listener,
\* and an error, which does not, is the last.
LEMMA DeliverStep ==
    ASSUME WatchInv, NEW g \in Gets, DeliverEvent(g)
    PROVE  WatchInv'
<1> DEFINE x == get[g]
           e == Head(x.events)
           rest == [x EXCEPT !.events = Tail(@)]
           told == [rest EXCEPT !.answers = Min({@ + 1, 2}), !.muted = e # "error",
                                !.caller = IF e = "error" THEN "idle" ELSE "removing"]
           y == IF x.muted THEN rest ELSE told
<1>1. x \in GetType /\ SlotOK(x) /\ calls \in 0..MaxCalls
  BY Typed DEF WatchInv
<1>2. x.events # <<>> /\ get' = [get EXCEPT ![g] = y] /\ UNCHANGED <<view, store, server, calls>>
  BY DEF DeliverEvent
<1> HIDE DEF x
<1>3. /\ x.events \in Seq(Event) /\ Tail(x.events) \in Seq(Event) /\ e \in Event
      /\ Len(x.events) \in Nat \ {0} /\ Len(Tail(x.events)) = Len(x.events) - 1
      /\ DOMAIN x.events = 1..Len(x.events) /\ DOMAIN Tail(x.events) = 1..(Len(x.events) - 1)
      /\ e = x.events[1]
      /\ \A i \in 1..(Len(x.events) - 1) : Tail(x.events)[i] = x.events[i + 1]
  <2> DEFINE v == x.events
  <2>1. v \in Seq(Event) /\ v # <<>>
    BY <1>1, <1>2 DEF GetType
  <2> HIDE DEF v
  <2>2. /\ v \in Seq(Event) /\ Tail(v) \in Seq(Event) /\ Head(v) \in Event
        /\ Len(v) \in Nat \ {0} /\ Len(Tail(v)) = Len(v) - 1
        /\ DOMAIN v = 1..Len(v) /\ DOMAIN Tail(v) = 1..(Len(v) - 1)
        /\ Head(v) = v[1] /\ \A i \in 1..(Len(v) - 1) : Tail(v)[i] = v[i + 1]
    BY <2>1
  <2> QED BY <2>2 DEF v
<1>4. \A i \in DOMAIN Tail(x.events) : Tail(x.events)[i] = "error" =>
         i = Len(Tail(x.events)) /\ ~x.listed
  <2> SUFFICES ASSUME NEW i \in DOMAIN Tail(x.events), Tail(x.events)[i] = "error"
               PROVE  i = Len(Tail(x.events)) /\ ~x.listed
    OBVIOUS
  <2>1. i + 1 \in DOMAIN x.events /\ x.events[i + 1] = "error"
    BY <1>3
  <2>2. i + 1 = Len(x.events) /\ ~x.listed
    BY <1>1, <2>1 DEF SlotOK
  <2> QED BY <1>3, <2>2
<1>5. /\ rest \in GetType /\ rest.caller = x.caller /\ rest.doc = x.doc /\ rest.listed = x.listed
      /\ rest.raised = x.raised /\ rest.events = Tail(x.events) /\ rest.muted = x.muted
      /\ rest.answers = x.answers
  BY <1>1, <1>3 DEF GetType
<1>6. CASE x.muted
  <2>1. y = rest
    BY <1>6
  <2> HIDE DEF y, rest
  <2>2. SlotOK(rest)
    BY <1>1, <1>2, <1>4, <1>5, <1>6 DEF SlotOK
  <2> QED BY <1>1, <1>2, <1>5, <2>1, <2>2, SlotStep DEF x
<1>7. CASE ~x.muted
  <2>1. x.caller = "waiting" /\ x.answers = 0 /\ x.doc \in Docs
    BY <1>1, <1>2, <1>7 DEF SlotOK
  <2>2. Min({x.answers + 1, 2}) = 1
    <3>1. Min({1, 2}) = 1
      BY MinOfTwo
    <3> QED BY <2>1, <3>1
  <2>3. y = [rest EXCEPT !.answers = 1, !.muted = e # "error",
                         !.caller = IF e = "error" THEN "idle" ELSE "removing"]
    BY <1>5, <1>7, <2>2
  <2> HIDE DEF rest, y, e
  <2>4. /\ y \in GetType /\ y.doc = x.doc /\ y.listed = x.listed /\ y.raised = x.raised
        /\ y.events = Tail(x.events) /\ y.answers = 1 /\ y.muted = (e # "error")
        /\ y.caller = IF e = "error" THEN "idle" ELSE "removing"
    <3> DEFINE c == IF e = "error" THEN "idle" ELSE "removing"
               mute == e # "error"
    <3>1. /\ c \in {"idle", "called", "waiting", "removing"} /\ mute \in BOOLEAN
          /\ 1 \in 0..2
      OBVIOUS
    <3>2. y = [rest EXCEPT !.answers = 1, !.muted = mute, !.caller = c]
      BY <2>3
    <3> HIDE DEF c, mute
    <3>3. y \in GetType
      BY <1>5, <3>1, <3>2 DEF GetType
    <3>4. /\ y.doc = rest.doc /\ y.listed = rest.listed /\ y.raised = rest.raised
          /\ y.events = rest.events /\ y.answers = 1 /\ y.muted = mute /\ y.caller = c
      BY <1>5, <3>2 DEF GetType
    <3> QED BY <1>5, <3>3, <3>4 DEF c, mute
  <2>5. e = "error" => ~x.listed /\ Tail(x.events) = <<>>
    <3> SUFFICES ASSUME e = "error" PROVE ~x.listed /\ Tail(x.events) = <<>>
      OBVIOUS
    <3>1. 1 \in DOMAIN x.events
      BY <1>3
    <3>2. 1 = Len(x.events) /\ ~x.listed
      BY <1>1, <1>3, <3>1 DEF SlotOK
    <3>3. Len(Tail(x.events)) = 0
      BY <1>3, <3>2
    <3> DEFINE w == Tail(x.events)
    <3>4. w \in Seq(Event) /\ Len(w) = 0
      BY <1>3, <3>3
    <3> HIDE DEF w
    <3>5. w = <<>>
      BY <3>4, EmptySeq
    <3> QED BY <3>2, <3>5 DEF w
  <2>6. SlotOK(y)
    <3>1. CASE e = "error"
      BY <1>4, <2>1, <2>4, <2>5, <3>1 DEF SlotOK
    <3>2. CASE e # "error"
      <4>1. y.caller = "removing" /\ y.muted = TRUE
        BY <2>4, <3>2
      <4>2. \A i \in DOMAIN y.events : y.events[i] = "error" => i = Len(y.events) /\ ~y.listed
        BY <1>4, <2>4
      <4> QED BY <2>1, <2>4, <4>1, <4>2 DEF SlotOK
    <3> QED BY <3>1, <3>2
  <2> QED BY <1>1, <1>2, <2>4, <2>6, SlotStep DEF x
<1> QED BY <1>6, <1>7

\* A listener is added on the worker queue.
LEMMA AddStep ==
    ASSUME WatchInv, NEW g \in Gets, AddQueryListener(g)
    PROVE  WatchInv'
<1> DEFINE d == get[g].doc
           y == [get[g] EXCEPT !.caller = "waiting", !.listed = TRUE]
           gets == [get EXCEPT ![g].caller = "waiting", ![g].listed = TRUE]
<1>1. /\ get \in [Gets -> GetType] /\ get[g] \in GetType /\ view \in ViewType
      /\ \A h \in Gets : SlotOK(get[h])
      /\ server \in ServerType /\ StoreOK(store) /\ ServerOK(store, server)
      /\ Follow(store.targets, view, get)
  BY Typed DEF WatchInv, TargetsFollowListeners, Follow
<1>2. /\ get[g].caller = "called" /\ server' = server /\ calls' = calls
      /\ IF view[d] = "none"
         THEN Handled(Listen(store, d), gets, [view EXCEPT ![d] = "local"])
         ELSE Handled(store, gets, view)
  BY DEF AddQueryListener
<1>3. d \in Docs /\ get[g].listed = FALSE
  BY <1>1, <1>2 DEF SlotOK, GetType
<1>4. /\ y \in GetType /\ y.doc = d /\ y.caller = "waiting" /\ y.listed = TRUE
      /\ y.raised = get[g].raised /\ y.events = get[g].events /\ y.muted = get[g].muted
      /\ y.answers = get[g].answers
  BY <1>1 DEF GetType
<1>5. gets = [get EXCEPT ![g] = y]
  BY <1>1 DEF GetType
<1> HIDE DEF y
<1>6. gets \in [Gets -> GetType] /\ gets[g] = y /\ \A h \in Gets : h # g => gets[h] = get[h]
  BY <1>1, <1>4, <1>5
<1>7. SlotOK(y)
  <2>1. SlotOK(get[g])
    BY <1>1
  <2> QED BY <1>2, <1>3, <1>4, <2>1 DEF SlotOK
<1> HIDE DEF gets
<1>8. \A h \in Gets : SlotOK(gets[h])
  BY <1>1, <1>6, <1>7
<1>9. {gets[h].doc : h \in {k \in Gets : gets[k].listed}} = store.targets \cup {d}
  <2>1. store.targets = {get[h].doc : h \in {k \in Gets : get[k].listed}}
    BY <1>1 DEF Follow
  <2>2. \A k \in Gets : gets[k].listed <=> k = g \/ get[k].listed
    BY <1>3, <1>4, <1>6
  <2>3. \A k \in Gets : gets[k].doc = get[k].doc
    BY <1>4, <1>6
  <2> HIDE DEF d
  <2>4. gets[g].doc = d
    BY <2>3 DEF d
  <2> QED BY <2>1, <2>2, <2>3, <2>4
<1>10. CASE view[d] = "none"
  <2> DEFINE r == Listen(store, d)
             v == [view EXCEPT ![d] = "local"]
  <2>1. d \notin store.targets
    BY <1>1, <1>10 DEF Follow
  <2>2. StoreOK(r) /\ ServerOK(r, server) /\ r.targets = store.targets \cup {d}
    BY <1>1, <1>3, <2>1, ListenOK
  <2>3. v \in ViewType /\ v[d] = "local" /\ \A e \in Docs : e # d => v[e] = view[e]
    BY <1>1, <1>3 DEF ViewType
  <2>4. Handled(r, gets, v)
    BY <1>2, <1>10
  <2> HIDE DEF r, v, d
  <2>5. r.targets = {e \in Docs : v[e] # "none"}
    BY <1>1, <1>3, <2>2, <2>3 DEF Follow
  <2>6. Follow(r.targets, v, gets)
    BY <1>9, <2>2, <2>5 DEF Follow
  <2> QED BY <1>1, <1>2, <1>6, <1>8, <2>2, <2>3, <2>4, <2>6, HandledInv
<1>11. CASE view[d] # "none"
  <2>1. d \in store.targets
    BY <1>1, <1>3, <1>11 DEF Follow
  <2> HIDE DEF d
  <2>2. Follow(store.targets, view, gets)
    BY <1>1, <1>9, <2>1 DEF Follow
  <2>3. Handled(store, gets, view)
    BY <1>2, <1>11
  <2> QED BY <1>1, <1>2, <1>6, <1>8, <2>2, <2>3, HandledInv
<1> QED BY <1>10, <1>11

\* A listener is removed on the worker queue; the last one of a document stops
\* the listen.
LEMMA RemoveStep ==
    ASSUME WatchInv, NEW g \in Gets, RemoveQueryListener(g)
    PROVE  WatchInv'
<1> DEFINE d == get[g].doc
           y == [get[g] EXCEPT !.caller = "idle", !.listed = FALSE]
           gets == [get EXCEPT ![g].caller = "idle", ![g].listed = FALSE]
           others == {h \in Gets : gets[h].listed /\ gets[h].doc = d}
<1>1. /\ get \in [Gets -> GetType] /\ get[g] \in GetType /\ view \in ViewType
      /\ \A h \in Gets : SlotOK(get[h])
      /\ server \in ServerType /\ StoreOK(store) /\ ServerOK(store, server)
      /\ Follow(store.targets, view, get)
  BY Typed DEF WatchInv, TargetsFollowListeners, Follow
<1>2. /\ get[g].caller = "removing" /\ server' = server /\ calls' = calls
      /\ IF get[g].listed /\ others = {}
         THEN Handled(StopListening(store, d), gets, [view EXCEPT ![d] = "none"])
         ELSE Handled(store, gets, view)
  BY DEF RemoveQueryListener
<1>3. d \in Docs
  BY <1>1, <1>2 DEF SlotOK
<1>4. /\ y \in GetType /\ y.doc = d /\ y.caller = "idle" /\ y.listed = FALSE
      /\ y.raised = get[g].raised /\ y.events = get[g].events /\ y.muted = get[g].muted
      /\ y.answers = get[g].answers
  BY <1>1 DEF GetType
<1>5. gets = [get EXCEPT ![g] = y]
  BY <1>1 DEF GetType
<1> HIDE DEF y
<1>6. gets \in [Gets -> GetType] /\ gets[g] = y /\ \A h \in Gets : h # g => gets[h] = get[h]
  BY <1>1, <1>4, <1>5
<1>7. SlotOK(y)
  <2>1. SlotOK(get[g])
    BY <1>1
  <2> QED BY <1>2, <1>4, <2>1 DEF SlotOK
<1> HIDE DEF gets
<1>8. \A h \in Gets : SlotOK(gets[h])
  BY <1>1, <1>6, <1>7
<1>9. /\ store.targets = {get[h].doc : h \in {k \in Gets : get[k].listed}}
      /\ \A k \in Gets : gets[k].listed <=> k # g /\ get[k].listed
      /\ \A k \in Gets : gets[k].doc = get[k].doc
  BY <1>1, <1>4, <1>6 DEF Follow
<1>10. CASE get[g].listed /\ others = {}
  <2> DEFINE r == StopListening(store, d)
             v == [view EXCEPT ![d] = "none"]
  <2>1. d \in store.targets
    BY <1>9, <1>10
  <2>2. StoreOK(r) /\ ServerOK(r, server) /\ r.targets = store.targets \ {d}
    BY <1>1, <2>1, StopListeningOK
  <2>3. v \in ViewType /\ v[d] = "none" /\ \A e \in Docs : e # d => v[e] = view[e]
    BY <1>1, <1>3 DEF ViewType
  <2>4. Handled(r, gets, v)
    BY <1>2, <1>10
  <2>5. \A k \in Gets : gets[k].listed => gets[k].doc # d
    BY <1>10
  <2>6. get[g].doc = d
    OBVIOUS
  <2> HIDE DEF r, v, d, others
  <2>7. r.targets = {e \in Docs : v[e] # "none"}
    BY <1>1, <2>2, <2>3 DEF Follow
  <2>8. r.targets = {gets[h].doc : h \in {k \in Gets : gets[k].listed}}
    BY <1>9, <2>2, <2>5, <2>6
  <2>9. Follow(r.targets, v, gets)
    BY <2>7, <2>8 DEF Follow
  <2> QED BY <1>1, <1>2, <1>6, <1>8, <2>2, <2>3, <2>4, <2>9, HandledInv
<1>11. CASE ~(get[g].listed /\ others = {})
  <2>1. Handled(store, gets, view)
    BY <1>2, <1>11
  <2>2. get[g].listed => \E k \in Gets : gets[k].listed /\ gets[k].doc = get[g].doc
    BY <1>11
  <2> HIDE DEF d, others
  <2>3. store.targets = {gets[h].doc : h \in {k \in Gets : gets[k].listed}}
    BY <1>9, <2>2
  <2>4. Follow(store.targets, view, gets)
    BY <1>1, <2>3 DEF Follow
  <2> QED BY <1>1, <1>2, <1>6, <1>8, <2>1, <2>4, HandledInv
<1> QED BY <1>10, <1>11

-----------------------------------------------------------------------------
(* The network. *)

\* The client's side of a step after which no call is open: the server starts
\* from nothing, and the invariant is kept.
LEMMA CallGone ==
    ASSUME WatchInv, NEW r, Handled(r, get, view), StoreOK(r), r.targets = store.targets,
           ~IsOpen(r.ws), \/ ServerAfter(r) /\ ~r.ws.call
                          \/ server' = [d \in Docs |-> "off"]
                          \/ server' = server /\ ~IsOpen(store.ws),
           calls' = calls
    PROVE  WatchInv' /\ ~IsOpen(store'.ws)
<1>1. server' \in ServerType /\ \A d \in Docs : server'[d] = "off"
  <2>1. CASE server' = [d \in Docs |-> "off"]
    BY <2>1 DEF ServerType
  <2>2. CASE ServerAfter(r) /\ ~r.ws.call
    <3>1. server' = [d \in Docs |-> "off"]
      BY <2>2 DEF ServerAfter
    <3> QED BY <3>1 DEF ServerType
  <2>3. CASE server' = server /\ ~IsOpen(store.ws)
    <3>1. server \in ServerType /\ ServerOK(store, server)
      BY Typed DEF WatchInv
    <3> QED BY <2>3, <3>1 DEF ServerOK
  <2> QED BY <2>1, <2>2, <2>3
<1>2. ServerOK(r, server')
  BY <1>1, NotOpenOK
<1>3. store' = r
  BY DEF Handled
<1> QED BY <1>1, <1>2, <1>3, HandledStore

\* The network changes under the client.
LEMMA ConnectivityStep ==
    ASSUME WatchInv, ConnectivityChanged
    PROVE  WatchInv' /\ ~IsOpen(store'.ws)
<1> DEFINE r == RestartNetwork(store)
<1>1. StoreOK(r) /\ r.targets = store.targets /\ ~IsOpen(r.ws) /\ ~r.ws.call
  BY RestartOK DEF WatchInv
<1>2. Handled(r, get, view) /\ ServerAfter(store') /\ calls' = calls
  BY DEF ConnectivityChanged
<1> HIDE DEF r
<1>3. store' = r
  BY <1>2 DEF Handled
<1> QED BY <1>1, <1>2, <1>3, CallGone

\* The network is disabled.
LEMMA DisableStep ==
    ASSUME WatchInv, DisableNetwork
    PROVE  WatchInv' /\ ~IsOpen(store'.ws)
<1> DEFINE r == UpdateState(StopWatchStream([store EXCEPT !.up = FALSE]), "Offline")
<1>1. StoreOK(r) /\ r.targets = store.targets /\ ~IsOpen(r.ws) /\ ~r.ws.call
  BY DisableOK DEF WatchInv
<1>2. Handled(r, get, view) /\ ServerAfter(store') /\ calls' = calls
  BY DEF DisableNetwork
<1> HIDE DEF r
<1>3. store' = r
  BY <1>2 DEF Handled
<1> QED BY <1>1, <1>2, <1>3, CallGone

\* The network is enabled again.
LEMMA EnableStep ==
    ASSUME WatchInv, EnableNetwork
    PROVE  WatchInv' /\ ~IsOpen(store'.ws)
<1> DEFINE r == EnableNetworkOf(store)
<1>1. /\ store \in StoreType /\ StreamOK(store.ws) /\ OnlineOK(store)
      /\ IsFiniteSet(store.targets) /\ ~store.up
      /\ ~IsStarted(store.ws) /\ ~IsOpen(store.ws)
      /\ Unheard(store.agg)
  BY DEF WatchInv, StoreOK, WatchNeeded, EnableNetwork, IsStarted
<1>2. StoreOK(r) /\ r.targets = store.targets /\ ~IsOpen(r.ws)
  BY <1>1, EnableOK
<1>3. Handled(r, get, view) /\ server' = server /\ calls' = calls
  BY DEF EnableNetwork
<1> HIDE DEF r
<1> QED BY <1>1, <1>2, <1>3, CallGone

\* The idle stream is closed: nothing is listened to.
LEMMA IdleStep ==
    ASSUME WatchInv, IdleTimer
    PROVE  WatchInv' /\ ~IsOpen(store'.ws)
<1> DEFINE s == [store EXCEPT !.ws.timers = @ \ {"idle"}]
           w == [store.ws EXCEPT !.timers = @ \ {"idle"}]
           r == StopWatchStream(s)
<1>1. /\ store \in StoreType /\ StreamOK(store.ws) /\ OnlineOK(store) /\ WatchNeeded(store)
      /\ "idle" \in store.ws.timers
  BY DEF WatchInv, StoreOK, IdleTimer
<1>2. store.ws \in WatchStream
  BY <1>1 DEF StoreType
<1>3. s = [store EXCEPT !.ws = w]
  BY <1>1, <1>2 DEF StoreType, WatchStream, StreamType
<1>4. w \in WatchStream
  BY ZenonT(60), <1>2 DEF WatchStream, StreamType
<1>5. /\ w.state = store.ws.state /\ w.tokens = store.ws.tokens /\ w.call = store.ws.call
      /\ w.timers = store.ws.timers \ {"idle"} /\ w.ok = store.ws.ok
      /\ w.in = store.ws.in /\ w.out = store.ws.out
  BY <1>2 DEF WatchStream, StreamType
<1> HIDE DEF w
<1>6. /\ s \in StoreType /\ s.ws = w /\ s.targets = store.targets /\ s.up = store.up
      /\ s.agg = store.agg /\ s.online = store.online /\ s.failures = store.failures
      /\ s.timer = store.timer
  BY <1>1, <1>3, <1>4 DEF StoreType
<1> HIDE DEF s
<1>7. StreamOK(w)
  BY <1>1, <1>4, <1>5 DEF StreamOK, IsOpen
<1>8. /\ OnlineOK(s) /\ IsFiniteSet(s.targets) /\ s.targets = {}
      /\ ~IsOpen(s.ws) => Unheard(s.agg)
  BY <1>1, <1>5, <1>6 DEF OnlineOK, OnlineKnown, WatchNeeded, IsStarted, IsOpen
<1>9. StoreOK(r) /\ r.targets = s.targets /\ ~IsOpen(r.ws) /\ ~r.ws.call
  BY <1>6, <1>7, <1>8, StopWatchOK
<1>10. Handled(r, get, view) /\ ServerAfter(store') /\ calls' = calls
  BY DEF IdleTimer, s
<1> HIDE DEF r
<1>11. store' = r
  BY <1>10 DEF Handled
<1> QED BY <1>6, <1>9, <1>10, <1>11, CallGone

\* A call is closed by the server or breaks.
LEMMA ClosedStep ==
    ASSUME WatchInv, IsStarted(store.ws), Closed
    PROVE  WatchInv' /\ ~IsOpen(store'.ws)
<1> DEFINE r == CloseWatchStream(store, "transient")
<1>1. /\ store \in StoreType /\ StreamOK(store.ws) /\ OnlineKnown(store)
      /\ IsFiniteSet(store.targets)
  BY DEF WatchInv, StoreOK, OnlineOK, WatchNeeded
<1>2. StoreOK(r) /\ r.targets = store.targets /\ ~IsOpen(r.ws)
  BY <1>1, CloseWatchOK
<1>3. Handled(r, get, view) /\ server' = [d \in Docs |-> "off"] /\ calls' = calls
  BY DEF Closed
<1> HIDE DEF r
<1> QED BY <1>1, <1>2, <1>3, CallGone

\* An attempt to connect fails.
LEMMA AttemptFailsStep ==
    ASSUME WatchInv, AttemptFails
    PROVE  WatchInv' /\ ~IsOpen(store'.ws)
  BY ClosedStep DEF AttemptFails, IsStarted

\* An open call breaks.
LEMMA CallBreaksStep ==
    ASSUME WatchInv, CallBreaks
    PROVE  WatchInv' /\ ~IsOpen(store'.ws)
  BY ClosedStep DEF CallBreaks, IsStarted

\* No token can be had: the stream fails before there is a call.
LEMMA TokenFailedStep ==
    ASSUME WatchInv, TokenFailed
    PROVE  WatchInv' /\ ~IsOpen(store'.ws)
<1> DEFINE s == [store EXCEPT !.ws.tokens = @ \ {"current"}]
           w == [store.ws EXCEPT !.tokens = @ \ {"current"}]
           r == CloseWatchStream(s, "transient")
<1>1. /\ store \in StoreType /\ StreamOK(store.ws) /\ OnlineOK(store) /\ WatchNeeded(store)
      /\ "current" \in store.ws.tokens
  BY DEF WatchInv, StoreOK, TokenFailed
<1>2. store.ws \in WatchStream /\ store.ws.state = "Starting" /\ ~IsOpen(store.ws)
  BY <1>1 DEF StoreType, StreamOK, IsOpen
<1>3. s = [store EXCEPT !.ws = w]
  BY <1>1, <1>2 DEF StoreType, WatchStream, StreamType
<1>4. w \in WatchStream
  BY ZenonT(60), <1>2 DEF WatchStream, StreamType
<1>5. /\ w.state = store.ws.state /\ w.tokens = store.ws.tokens \ {"current"}
      /\ w.call = store.ws.call /\ w.timers = store.ws.timers /\ w.ok = store.ws.ok
      /\ w.in = store.ws.in /\ w.out = store.ws.out
  BY <1>2 DEF WatchStream, StreamType
<1> HIDE DEF w
<1>6. /\ s \in StoreType /\ s.ws = w /\ s.targets = store.targets /\ s.up = store.up
      /\ s.agg = store.agg /\ s.online = store.online /\ s.failures = store.failures
      /\ s.timer = store.timer
  BY <1>1, <1>3, <1>4 DEF StoreType
<1> HIDE DEF s
<1>7. StreamOK(w) /\ IsStarted(w)
  BY <1>1, <1>2, <1>4, <1>5 DEF StreamOK, IsOpen, IsStarted
<1>8. OnlineKnown(s) /\ IsFiniteSet(s.targets)
  BY <1>1, <1>6 DEF OnlineOK, OnlineKnown, WatchNeeded
<1>9. StoreOK(r) /\ r.targets = s.targets /\ ~IsOpen(r.ws)
  BY <1>6, <1>7, <1>8, CloseWatchOK
<1>10. Handled(r, get, view) /\ server' = server /\ calls' = calls
  BY DEF TokenFailed, s
<1> HIDE DEF r
<1> QED BY <1>2, <1>6, <1>9, <1>10, CallGone

-----------------------------------------------------------------------------
(* The callbacks of the stream and of the online state. *)

\* Nothing new about any target was said, read or asked for.
SaysNothing ==
    /\ store'.agg = store.agg /\ store'.targets = store.targets
    /\ store'.ws.in = store.ws.in /\ server' = server

\* A step of the stream that neither opens nor stops it.
LEMMA StreamStep ==
    ASSUME WatchInv, NEW w, StreamOK(w), Stepped(w),
           w.in = store.ws.in, w.out = store.ws.out,
           IsOpen(w) <=> IsOpen(store.ws), IsStarted(w) <=> IsStarted(store.ws),
           w.timers \subseteq store.ws.timers
    PROVE  WatchInv' /\ SaysNothing
<1>1. /\ store \in StoreType /\ OnlineOK(store) /\ WatchNeeded(store)
      /\ ServerOK(store, server) /\ server \in ServerType
  BY Typed DEF WatchInv, StoreOK
<1>2. /\ store' = [store EXCEPT !.ws = w] /\ server' = server /\ get' = get /\ view' = view
      /\ calls' = calls
  BY DEF Stepped
<1>3. w \in WatchStream
  BY DEF StreamOK
<1> DEFINE r == [store EXCEPT !.ws = w]
<1>4. /\ r \in StoreType /\ r.ws = w /\ r.targets = store.targets /\ r.up = store.up
      /\ r.agg = store.agg /\ r.online = store.online /\ r.failures = store.failures
      /\ r.timer = store.timer
  BY <1>1, <1>3 DEF StoreType
<1>5. store' = r
  BY <1>2
<1> HIDE DEF r
<1>6. OnlineOK(r) /\ WatchNeeded(r)
  BY <1>1, <1>4 DEF OnlineOK, OnlineKnown, WatchNeeded
<1>7. StoreOK(r) /\ ServerOK(r, server)
  BY <1>1, <1>4, <1>6 DEF StoreOK, ServerOK
<1>8. SaysNothing
  BY <1>2, <1>4, <1>5 DEF SaysNothing
<1> QED BY <1>1, <1>2, <1>4, <1>5, <1>7, <1>8, StoreOnly

\* A token of an earlier attempt is dropped.
LEMMA TokenIgnoredStep ==
    ASSUME WatchInv, TokenIgnored
    PROVE  WatchInv' /\ SaysNothing
<1> DEFINE w == [store.ws EXCEPT !.tokens = @ \ {"stale"}]
<1>1. store.ws \in WatchStream /\ StreamOK(store.ws)
  BY DEF WatchInv, StoreOK, StreamOK
<1>2. w \in WatchStream
  BY ZenonT(60), <1>1 DEF WatchStream, StreamType
<1>3. /\ w.state = store.ws.state /\ w.tokens = store.ws.tokens \ {"stale"}
      /\ w.call = store.ws.call /\ w.timers = store.ws.timers /\ w.ok = store.ws.ok
      /\ w.in = store.ws.in /\ w.out = store.ws.out
  BY <1>1 DEF WatchStream, StreamType
<1>4. Stepped(w)
  BY DEF TokenIgnored
<1> HIDE DEF w
<1>5. /\ IsOpen(w) <=> IsOpen(store.ws)
      /\ IsStarted(w) <=> IsStarted(store.ws)
  BY <1>3 DEF IsOpen, IsStarted
<1>6. StreamOK(w)
  BY <1>1, <1>2, <1>3, <1>5 DEF StreamOK
<1> QED BY <1>3, <1>4, <1>5, <1>6, StreamStep

\* The token arrives: the call is created.
LEMMA TokenReceivedStep ==
    ASSUME WatchInv, TokenReceived
    PROVE  WatchInv' /\ SaysNothing
<1> DEFINE s == store.ws
           u == [s EXCEPT !.tokens = @ \ {"current"}]
           w == CreateCall(u)
<1>1. s \in WatchStream /\ StreamOK(s) /\ "current" \in s.tokens
  BY DEF WatchInv, StoreOK, StreamOK, TokenReceived
<1>2. s.state = "Starting" /\ ~IsOpen(s) /\ s.ok
  BY <1>1 DEF StreamOK, IsOpen
<1>3. Stepped(w)
  BY DEF TokenReceived
<1>4. s = store.ws
  OBVIOUS
<1> HIDE DEF s
<1>5. /\ u \in WatchStream /\ u.state = "Starting" /\ u.tokens = s.tokens \ {"current"}
      /\ u.timers = s.timers /\ u.ok = s.ok /\ u.in = s.in /\ u.out = s.out
  <2>1. u \in WatchStream
    BY ZenonT(60), <1>1 DEF WatchStream, StreamType
  <2> QED BY <1>1, <1>2, <2>1 DEF WatchStream, StreamType
<1>6. w = [u EXCEPT !.ok = u.ok /\ u.state = "Starting", !.call = TRUE]
  BY DEF CreateCall, HardAssert
<1> HIDE DEF u, w
<1>7. u.ok = TRUE
  BY <1>1, <1>2, <1>5 DEF WatchStream, StreamType
<1>8. w = [u EXCEPT !.ok = TRUE, !.call = TRUE]
  BY <1>5, <1>6, <1>7
<1>9. w \in WatchStream
  BY ZenonT(60), <1>5, <1>8 DEF WatchStream, StreamType
<1>10. /\ w.state = "Starting" /\ w.tokens = s.tokens \ {"current"} /\ w.call = TRUE
       /\ w.timers = s.timers /\ w.ok = TRUE /\ w.in = s.in /\ w.out = s.out
  BY <1>5, <1>8 DEF WatchStream, StreamType
<1>11. ~IsOpen(w) /\ IsStarted(w) /\ IsStarted(s)
  BY <1>2, <1>10 DEF IsOpen, IsStarted
<1>12. StreamOK(w)
  BY <1>1, <1>2, <1>9, <1>10, <1>11 DEF StreamOK
<1> QED BY <1>2, <1>3, <1>4, <1>10, <1>11, <1>12, StreamStep

\* The backoff is over: the stream starts again.
LEMMA BackoffStep ==
    ASSUME WatchInv, BackoffTimer
    PROVE  WatchInv' /\ SaysNothing
<1> DEFINE s == store.ws
           u == [s EXCEPT !.ok = TRUE, !.timers = @ \ {"backoff"}, !.state = "Initial"]
           w == BackoffElapsed(s)
<1>1. s \in WatchStream /\ StreamOK(s) /\ "backoff" \in s.timers
  BY DEF WatchInv, StoreOK, StreamOK, BackoffTimer
<1>2. s.state = "Backoff" /\ ~IsOpen(s) /\ s.ok = TRUE /\ ~s.call
  BY <1>1 DEF StreamOK, IsOpen, WatchStream, StreamType
<1>3. Stepped(w)
  BY DEF BackoffTimer
<1>4. s = store.ws
  OBVIOUS
<1> HIDE DEF s
<1>5. w = Start(u)
  <2>1. [HardAssert([s EXCEPT !.timers = @ \ {"backoff"}], s.state = "Backoff")
           EXCEPT !.state = "Initial"] = u
    BY <1>1, <1>2 DEF HardAssert, WatchStream, StreamType
  <2> QED BY <2>1 DEF BackoffElapsed
<1>6. /\ u \in WatchStream /\ u.state = "Initial" /\ u.tokens = s.tokens /\ u.call = s.call
      /\ u.timers = s.timers \ {"backoff"} /\ u.ok = TRUE /\ u.in = s.in /\ u.out = s.out
  <2>1. u \in WatchStream
    BY ZenonT(60), <1>1 DEF WatchStream, StreamType, States
  <2> QED BY <1>1, <2>1 DEF WatchStream, StreamType
<1> HIDE DEF u, w
<1>7. ~IsStarted(u) /\ ~IsOpen(u)
  BY <1>6 DEF IsStarted, IsOpen
<1>8. StreamOK(u)
  BY <1>1, <1>2, <1>6, <1>7 DEF StreamOK, IsOpen
<1>9. StreamOK(w) /\ IsStarted(w) /\ ~IsOpen(w)
  BY <1>5, <1>7, <1>8, StartOK
<1>10. w.in = s.in /\ w.out = s.out
  BY <1>1, <1>2, <1>9 DEF StreamOK
<1>11. w.timers \subseteq s.timers
  <2>1. w.timers = u.timers
    BY <1>5, <1>6 DEF Start, RequestCredentials, HardAssert, WatchStream, StreamType
  <2> QED BY <1>6, <2>1
<1>12. IsStarted(s)
  BY <1>2 DEF IsStarted
<1> QED BY <1>2, <1>3, <1>4, <1>9, <1>10, <1>11, <1>12, StreamStep

\* Ten seconds without an answer: the client gives up on the server.
LEMMA OnlineTimerStep ==
    ASSUME WatchInv, OnlineStateTimer
    PROVE  WatchInv' /\ SaysNothing
<1> DEFINE r == [store EXCEPT !.timer = FALSE, !.online = "Offline",
                             !.ws = HardAssert(@, store.online = "Unknown")]
<1>1. /\ store \in StoreType /\ StreamOK(store.ws) /\ OnlineOK(store) /\ WatchNeeded(store)
      /\ ServerOK(store, server) /\ server \in ServerType /\ store.timer
  BY Typed DEF WatchInv, StoreOK, OnlineStateTimer
<1>2. HardAssert(store.ws, store.online = "Unknown") = store.ws
  <2>1. store.online = "Unknown"
    BY <1>1 DEF OnlineOK, OnlineKnown
  <2> QED BY <1>1, <2>1, AssertOK
<1>3. r = [store EXCEPT !.timer = FALSE, !.online = "Offline"]
  BY <1>1, <1>2 DEF StoreType
<1>4. Handled(r, get, view) /\ server' = server /\ calls' = calls
  BY DEF OnlineStateTimer
<1> HIDE DEF r
<1>5. /\ r \in StoreType /\ r.ws = store.ws /\ r.targets = store.targets /\ r.up = store.up
      /\ r.agg = store.agg /\ r.online = "Offline" /\ r.failures = store.failures
      /\ r.timer = FALSE
  BY <1>1, <1>3 DEF StoreType
<1>6. OnlineOK(r) /\ WatchNeeded(r)
  BY <1>1, <1>5 DEF OnlineOK, OnlineKnown, WatchNeeded
<1>7. StoreOK(r) /\ ServerOK(r, server)
  BY <1>1, <1>5, <1>6 DEF StoreOK, ServerOK
<1>8. SaysNothing
  BY <1>4, <1>5 DEF SaysNothing, Handled
<1> QED BY <1>1, <1>4, <1>5, <1>7, <1>8, HandledStore

\* A request for each target and no other, to a server that knows of none.
AskedFor(out, known, targets) ==
    /\ \A d \in Docs : known[d] = "off"
    /\ \A i \in DOMAIN out : out[i].kind = "watch" /\ out[i].doc \in targets
    /\ \A i, j \in DOMAIN out : out[i].doc = out[j].doc => i = j
    /\ \A d \in targets : \E i \in DOMAIN out : out[i].doc = d

\* The requests that ask for every target, on a call of which the server knows
\* nothing: they alternate, and each is counted once.
LEMMA FirstRequests ==
    ASSUME NEW targets \in SUBSET Docs, NEW out \in Seq(Requests), NEW known,
           AskedFor(out, known, targets)
    PROVE  /\ Alternate(out, known, targets)
           /\ \A d \in Docs : Cardinality(About(out, d, {"watch", "unwatch"})) =
                                IF d \in targets THEN 1 ELSE 0
<1> USE DEF AskedFor
<1>1. DOMAIN out = 1..Len(out) /\ Len(out) \in Nat
  OBVIOUS
<1>2. ASSUME NEW d \in Docs \ Denied
      PROVE  /\ \A j \in DOMAIN out : out[j].doc = d => ~On(out, known, j - 1, d)
             /\ d \in targets <=> On(out, known, Len(out), d)
  <2>1. ASSUME NEW j \in DOMAIN out, out[j].doc = d, On(out, known, j - 1, d)
        PROVE  FALSE
    <3>1. PICK i \in 1..(j - 1) : out[i].doc = d
      BY <2>1 DEF On
    <3>2. i \in DOMAIN out /\ i # j
      BY <1>1, <3>1
    <3> QED BY <2>1, <3>1, <3>2
  <2>2. ASSUME d \in targets
        PROVE  On(out, known, Len(out), d)
    <3>1. PICK i \in DOMAIN out : out[i].doc = d
      BY <2>2
    <3>2. \A k \in 1..Len(out) : k > i => out[k].doc # d
      BY <1>1, <3>1
    <3> QED BY <1>1, <3>1, <3>2 DEF On
  <2>3. ASSUME On(out, known, Len(out), d)
        PROVE  d \in targets
    BY <1>1, <2>3 DEF On
  <2> QED BY <2>1, <2>2, <2>3
<1>3. Alternate(out, known, targets)
  BY <1>2 DEF Alternate
<1>4. ASSUME NEW d \in Docs
      PROVE  Cardinality(About(out, d, {"watch", "unwatch"})) = IF d \in targets THEN 1 ELSE 0
  <2>1. CASE d \in targets
    <3>1. PICK i \in DOMAIN out : out[i].doc = d
      BY <2>1
    <3>2. About(out, d, {"watch", "unwatch"}) = {i}
      BY <3>1 DEF About
    <3>3. Cardinality({i}) = 1
      BY FS_Singleton
    <3> QED BY <2>1, <3>2, <3>3
  <2>2. CASE d \notin targets
    <3>1. About(out, d, {"watch", "unwatch"}) = {}
      BY <2>2 DEF About
    <3> QED BY <2>2, <3>1, FS_EmptySet
  <2> QED BY <2>1, <2>2
<1> QED BY <1>3, <1>4

\* The stream opens: every target is asked for.
LEMMA OpenedStep ==
    ASSUME WatchInv, StreamOpened
    PROVE  WatchInv' /\ store'.ws.in = <<>> /\ \A d \in Docs : ~store'.agg[d].current
<1> DEFINE s == store.ws
           requests == {[kind |-> "watch", doc |-> d] : d \in store.targets}
           out == SetToSeq(requests)
           w == Send(Opened(s), out)
           counted == [d \in Docs |-> [store.agg[d] EXCEPT
                         !.pending = IF d \in store.targets THEN @ + 1 ELSE @]]
           r == [store EXCEPT !.ws = w, !.agg = counted]
<1>1. /\ store \in StoreType /\ StreamOK(s) /\ OnlineOK(store) /\ WatchNeeded(store)
      /\ ServerOK(store, server) /\ server \in ServerType
  BY Typed DEF WatchInv, StoreOK
<1>2. /\ s.call /\ s.state = "Starting" /\ store' = r
      /\ server' = server /\ get' = get /\ view' = view /\ calls' = calls
  BY DEF StreamOpened
<1>3. s = store.ws /\ s \in WatchStream
  BY <1>1 DEF StreamOK
<1>4. /\ out \in Seq(Requests)
      /\ out = <<>> <=> store.targets = {}
      /\ \A i \in DOMAIN out : out[i].kind = "watch" /\ out[i].doc \in store.targets
      /\ \A i, j \in DOMAIN out : out[i].doc = out[j].doc => i = j
      /\ \A d \in store.targets : \E i \in DOMAIN out : out[i].doc = d
  BY <1>1, AskedOnce DEF StoreType, WatchNeeded
<1> HIDE DEF s, requests, out
<1>5. /\ ~IsOpen(s) /\ IsStarted(s) /\ s.in = <<>> /\ s.out = <<>> /\ s.ok = TRUE
      /\ s.timers = {} /\ "current" \notin s.tokens /\ s.call = TRUE
  <2>1. ~IsOpen(s) /\ IsStarted(s)
    BY <1>2 DEF IsOpen, IsStarted
  <2>2. s.ok = TRUE /\ s.call = TRUE
    BY <1>1, <1>2, <1>3 DEF StreamOK, WatchStream, StreamType
  <2>3. "backoff" \notin s.timers /\ "idle" \notin s.timers
    BY <1>1, <1>2, <2>1 DEF StreamOK
  <2>4. s.timers = {}
    BY <1>3, <2>3 DEF WatchStream, StreamType, Timers
  <2> QED BY <1>1, <1>2, <2>1, <2>2, <2>4 DEF StreamOK
<1>6. /\ w \in WatchStream /\ w.state = "Open" /\ w.out = out /\ w.in = <<>> /\ w.ok = TRUE
      /\ w.timers = {} /\ w.tokens = s.tokens /\ w.call = TRUE
  <2> DEFINE o == Opened(s)
  <2>1. /\ o \in WatchStream /\ o.state = "Open" /\ o.out = <<>> /\ o.in = <<>> /\ o.ok = TRUE
        /\ o.timers = {} /\ o.tokens = s.tokens /\ o.call = TRUE
    <3>1. o \in WatchStream
      BY ZenonT(60), <1>3 DEF Opened, WatchStream, StreamType, States
    <3> QED BY <1>3, <1>5, <3>1 DEF Opened, WatchStream, StreamType
  <2> HIDE DEF o
  <2>2. CASE out = <<>>
    <3>1. w = o
      BY <2>2 DEF Send, o
    <3> QED BY <2>1, <2>2, <3>1
  <2>3. CASE out # <<>>
    <3>1. w = [HardAssert(o, IsOpen(o)) EXCEPT !.out = @ \o out, !.timers = @ \ {"idle"}]
      BY <2>3 DEF Send, o
    <3> HIDE DEF w
    <3>2. <<>> \o out = out
      BY <1>4
    <3>3. w = [o EXCEPT !.ok = TRUE, !.out = out, !.timers = {}]
      BY <2>1, <3>1, <3>2 DEF HardAssert, IsOpen, WatchStream, StreamType
    <3>4. w \in WatchStream
      BY ZenonT(60), <1>4, <2>1, <3>3 DEF WatchStream, StreamType
    <3> QED BY <2>1, <3>3, <3>4 DEF WatchStream, StreamType
  <2> QED BY <2>2, <2>3
<1> HIDE DEF w
<1>7. /\ counted \in [Docs -> [pending : Nat, current : BOOLEAN, old : BOOLEAN]]
      /\ \A d \in Docs : /\ counted[d].pending = IF d \in store.targets THEN 1 ELSE 0
                         /\ counted[d].current = FALSE
  <2>1. \A d \in Docs : /\ store.agg[d] \in [pending : Nat, current : BOOLEAN, old : BOOLEAN]
                        /\ store.agg[d].pending = 0 /\ store.agg[d].current = FALSE
    BY <1>1, <1>3, <1>5 DEF StoreType, WatchNeeded, Unheard
  <2>2. ASSUME NEW d \in Docs
        PROVE  /\ counted[d] \in [pending : Nat, current : BOOLEAN, old : BOOLEAN]
               /\ counted[d].pending = IF d \in store.targets THEN 1 ELSE 0
               /\ counted[d].current = FALSE
    <3> DEFINE a == store.agg[d]
    <3>1. /\ a \in [pending : Nat, current : BOOLEAN, old : BOOLEAN] /\ a.pending = 0
          /\ a.current = FALSE
      BY <2>1
    <3>2. counted[d] = [a EXCEPT !.pending = IF d \in store.targets THEN @ + 1 ELSE @]
      OBVIOUS
    <3> HIDE DEF a, counted
    <3> QED BY <3>1, <3>2
  <2> QED BY <2>2
<1> HIDE DEF counted
<1>8. /\ r \in StoreType /\ r.ws = w /\ r.agg = counted /\ r.targets = store.targets
      /\ r.up = store.up /\ r.online = store.online /\ r.failures = store.failures
      /\ r.timer = store.timer
  BY <1>1, <1>6, <1>7 DEF StoreType
<1> HIDE DEF r
<1>9. IsOpen(w) /\ IsStarted(w)
  BY <1>6 DEF IsOpen, IsStarted
<1>10. StreamOK(w)
  BY <1>5, <1>6, <1>9 DEF StreamOK
<1>11. OnlineOK(r) /\ WatchNeeded(r)
  BY <1>1, <1>3, <1>5, <1>6, <1>8, <1>9 DEF OnlineOK, OnlineKnown, WatchNeeded
<1>12. \A d \in Docs : server[d] = "off"
  BY <1>1, <1>3, <1>5 DEF ServerOK
<1>13. /\ Alternate(out, server, store.targets)
       /\ \A d \in Docs : Cardinality(About(out, d, {"watch", "unwatch"})) =
                            IF d \in store.targets THEN 1 ELSE 0
  <2> DEFINE ts == store.targets
  <2>1. ts \in SUBSET Docs /\ out \in Seq(Requests) /\ AskedFor(out, server, ts)
    BY <1>1, <1>4, <1>12 DEF StoreType, AskedFor
  <2> HIDE DEF ts
  <2>2. /\ Alternate(out, server, ts)
        /\ \A d \in Docs : Cardinality(About(out, d, {"watch", "unwatch"})) =
                             IF d \in ts THEN 1 ELSE 0
    BY <2>1, FirstRequests
  <2> QED BY <2>2 DEF ts
<1>14. \A d \in Docs : Cardinality(About(<<>>, d, {"added", "removed"})) = 0
  <2>1. \A d \in Docs : About(<<>>, d, {"added", "removed"}) = {}
    BY DEF About
  <2> QED BY <2>1, FS_EmptySet
<1>15. CountsDue(counted, out, <<>>)
  <2> SUFFICES ASSUME NEW d \in Docs \ Denied
               PROVE  counted[d].pending =
                        Cardinality(About(out, d, {"watch", "unwatch"}))
                        + Cardinality(About(<<>>, d, {"added", "removed"}))
    BY DEF CountsDue
  <2> QED BY <1>7, <1>13, <1>14
<1>16. ServerOK(r, server)
  BY <1>6, <1>8, <1>12, <1>13, <1>15 DEF ServerOK
<1>17. StoreOK(r)
  BY <1>8, <1>10, <1>11 DEF StoreOK
<1>18. store'.ws.in = <<>> /\ \A d \in Docs : ~store'.agg[d].current
  BY <1>2, <1>6, <1>7, <1>8
<1> QED BY <1>1, <1>2, <1>8, <1>16, <1>17, <1>18, StoreOnly

-----------------------------------------------------------------------------
(* Responses. *)

\* A response is read: the client is online, and the response is gone.
LEMMA ReadOK ==
    ASSUME NEW r, StoreOK(r), r.ws.in # <<>>
    PROVE  LET t == Read(r)
           IN  /\ t \in StoreType /\ StreamOK(t.ws) /\ IsOpen(t.ws) /\ IsOpen(r.ws)
               /\ t.ws.in = Tail(r.ws.in) /\ t.ws.out = r.ws.out /\ t.ws.timers = r.ws.timers
               /\ t.up = r.up /\ t.targets = r.targets /\ t.agg = r.agg
               /\ t.online = "Online" /\ t.failures = 0 /\ t.timer = FALSE
<1> DEFINE w == [r.ws EXCEPT !.in = Tail(@)]
           t == Read(r)
<1>1. r \in StoreType /\ StreamOK(r.ws) /\ r.ws \in WatchStream
  BY DEF StoreOK, StreamOK
<1>2. IsOpen(r.ws)
  BY <1>1 DEF StreamOK
<1>3. Tail(r.ws.in) \in Seq(Responses)
  <2> DEFINE v == r.ws.in
  <2>1. v \in Seq(Responses) /\ v # <<>>
    BY <1>1 DEF WatchStream, StreamType
  <2> HIDE DEF v
  <2>2. Tail(v) \in Seq(Responses)
    BY <2>1
  <2> QED BY <2>2 DEF v
<1>4. w \in WatchStream
  BY ZenonT(60), <1>1, <1>3 DEF WatchStream, StreamType
<1>5. /\ w.state = r.ws.state /\ w.tokens = r.ws.tokens /\ w.call = r.ws.call
      /\ w.timers = r.ws.timers /\ w.ok = r.ws.ok
      /\ w.in = Tail(r.ws.in) /\ w.out = r.ws.out
  BY <1>1 DEF WatchStream, StreamType
<1> HIDE DEF w
<1>6. IsOpen(w) /\ IsStarted(w)
  BY <1>2, <1>5 DEF IsOpen, IsStarted
<1>7. StreamOK(w)
  BY <1>1, <1>2, <1>4, <1>5, <1>6 DEF StreamOK
<1>8. HardAssert(w, IsStarted(w)) = w
  BY <1>6, <1>7, AssertOK DEF IsStarted, IsOpen
<1>9. t = UpdateState([r EXCEPT !.ws = w], "Online")
  BY <1>8 DEF Read, w
<1>10. t = [r EXCEPT !.ws = w, !.timer = FALSE, !.failures = 0, !.online = "Online"]
  BY <1>1, <1>9 DEF UpdateState, StoreType
<1> HIDE DEF t
<1>11. 0 \in 0..kMaxWatchStreamFailures
  BY DEF kMaxWatchStreamFailures
<1>12. t \in StoreType
  BY <1>1, <1>4, <1>10, <1>11 DEF StoreType
<1>13. /\ t.ws = w /\ t.up = r.up /\ t.targets = r.targets /\ t.agg = r.agg
       /\ t.online = "Online" /\ t.failures = 0 /\ t.timer = FALSE
  BY <1>1, <1>10 DEF StoreType
<1> QED BY <1>2, <1>5, <1>6, <1>7, <1>12, <1>13 DEF t

\* What a response may change: it was due, or is no acknowledgement, and only a
\* target the server refuses is dropped.
LEMMA ReadKept ==
    ASSUME NEW r, StoreOK(r), NEW known, ServerOK(r, known), r.ws.in # <<>>,
           NEW u \in StoreType, u.ws = Read(r).ws, u.up = r.up,
           u.online = "Online", u.failures = 0, u.timer = FALSE,
           u.targets \subseteq r.targets,
           \A e \in Docs \ Denied : e \in r.targets => e \in u.targets,
           \A e \in Docs \ Denied :
             u.agg[e].pending =
               IF Head(r.ws.in).doc = e /\ Head(r.ws.in).kind \in {"added", "removed"}
               THEN r.agg[e].pending - 1 ELSE r.agg[e].pending
    PROVE  StoreOK(u) /\ ServerOK(u, known)
<1> DEFINE v == r.ws.in
           out == r.ws.out
<1>1. /\ StreamOK(u.ws) /\ IsOpen(u.ws) /\ IsOpen(r.ws)
      /\ u.ws.in = Tail(v) /\ u.ws.out = out /\ u.ws.timers = r.ws.timers
  BY ReadOK
<1>2. r \in StoreType /\ WatchNeeded(r) /\ v # <<>> /\ v \in Seq(Responses) /\ out \in Seq(Requests)
  BY DEF StoreOK, StreamOK, WatchStream, StreamType
<1>3. /\ \A d \in Docs : known[d] # "off" => d \notin Denied
      /\ \A i \in DOMAIN v : (v[i].kind = "rejected" <=> v[i].doc \in Denied)
      /\ Alternate(out, known, r.targets) /\ CountsDue(r.agg, out, v)
      /\ \A e \in Docs \ Denied :
             u.agg[e].pending =
               IF Head(v).doc = e /\ Head(v).kind \in {"added", "removed"}
               THEN r.agg[e].pending - 1 ELSE r.agg[e].pending
  BY <1>1 DEF ServerOK
<1> HIDE DEF v, out
<1>4. OnlineOK(u)
  BY DEF OnlineOK, OnlineKnown
<1>5. WatchNeeded(u)
  <2>1. IsFiniteSet(u.targets)
    BY <1>2, FS_Subset DEF WatchNeeded
  <2>2. IsStarted(r.ws)
    BY <1>1 DEF IsStarted
  <2>3. r.up /\ ("idle" \in r.ws.timers => r.targets = {})
    BY <1>2, <2>2 DEF WatchNeeded
  <2> QED BY <1>1, <2>1, <2>3 DEF WatchNeeded
<1>6. \A i \in DOMAIN Tail(v) : (Tail(v)[i].kind = "rejected" <=> Tail(v)[i].doc \in Denied)
  <2>1. \A i \in DOMAIN Tail(v) : i + 1 \in DOMAIN v /\ Tail(v)[i] = v[i + 1]
    BY <1>2
  <2> QED BY <1>3, <2>1
<1>7. Alternate(out, known, u.targets)
  BY <1>3 DEF Alternate
<1>8. CountsDue(u.agg, out, Tail(v))
  <2> SUFFICES ASSUME NEW d \in Docs \ Denied
               PROVE  u.agg[d].pending =
                        Cardinality(About(out, d, {"watch", "unwatch"}))
                        + Cardinality(About(Tail(v), d, {"added", "removed"}))
    BY DEF CountsDue
  <2> DEFINE asked == Cardinality(About(out, d, {"watch", "unwatch"}))
             before == Cardinality(About(v, d, {"added", "removed"}))
             after == Cardinality(About(Tail(v), d, {"added", "removed"}))
             due == Head(v).doc = d /\ Head(v).kind \in {"added", "removed"}
  <2>1. before = IF due THEN after + 1 ELSE after
    BY <1>2, AboutTail
  <2>2. asked \in Nat /\ after \in Nat
    <3>1. Tail(v) \in Seq(Responses)
      BY <1>2
    <3> QED BY <1>2, <3>1, AboutFinite
  <2>3. r.agg[d].pending = asked + before
    BY <1>3 DEF CountsDue
  <2>4. u.agg[d].pending = IF due THEN r.agg[d].pending - 1 ELSE r.agg[d].pending
    BY <1>3
  <2> HIDE DEF asked, before, after, due
  <2>5. u.agg[d].pending = asked + after
    BY <2>1, <2>2, <2>3, <2>4
  <2> QED BY <2>5 DEF asked, after
<1> QED BY <1>1, <1>3, <1>4, <1>5, <1>6, <1>7, <1>8 DEF StoreOK, ServerOK

\* The response at the head, and what is known of it.
LEMMA HeadOfIn ==
    ASSUME WatchInv, store.ws.in # <<>>
    PROVE  /\ Head(store.ws.in) \in Responses
           /\ Head(store.ws.in).kind # "snapshot" => Head(store.ws.in).doc \in Docs
           /\ Head(store.ws.in).kind = "rejected" <=> Head(store.ws.in).doc \in Denied
<1> DEFINE v == store.ws.in
<1>1. v \in Seq(Responses) /\ v # <<>>
  BY DEF WatchInv, StoreOK, StreamOK, WatchStream, StreamType
<1>2. \A i \in DOMAIN v : (v[i].kind = "rejected" <=> v[i].doc \in Denied)
  BY DEF WatchInv, ServerOK
<1> HIDE DEF v
<1>3. Head(v) = v[1] /\ 1 \in DOMAIN v /\ Head(v) \in Responses
  BY <1>1
<1>4. Head(v).kind # "snapshot" => Head(v).doc \in Docs
  BY <1>3 DEF Responses, Message, Snapshot
<1>5. Head(v).kind = "rejected" <=> Head(v).doc \in Denied
  BY <1>2, <1>3
<1> QED BY <1>3, <1>4, <1>5 DEF v

\* The first response was read.
ReadOne ==
    store.ws.in # <<>> /\ store'.ws.in = Tail(store.ws.in) /\ server' = server

\* The server acknowledges a listen or a stop: it was due, and no target comes
\* by a flag it did not have.
LEMMA AcknowledgedStep ==
    ASSUME WatchInv, TargetAcknowledged
    PROVE  LET d == Head(store.ws.in).doc
           IN  /\ WatchInv' /\ ReadOne /\ store'.targets = store.targets
               /\ store.agg[d].pending > 0
               /\ store'.agg[d].current => /\ store.agg[d].current
                                          /\ store'.agg[d].old = store.agg[d].old
               /\ \A e \in Docs : e # d => store'.agg[e] = store.agg[e]
<1> DEFINE m == Head(store.ws.in)
           t == [store.agg[m.doc] EXCEPT !.pending = @ - 1]
           kept == IF m.kind = "removed" /\ t.pending = 0 THEN NoTarget ELSE t
           s == Read(store)
           r == [s EXCEPT !.agg[m.doc] = kept]
<1>1. /\ store.ws.in # <<>> /\ m.kind \in {"added", "removed"}
      /\ Handled(r, get, view) /\ server' = server /\ calls' = calls
  BY DEF TargetAcknowledged, NextResponse
<1>2. m.doc \in Docs /\ m.doc \notin Denied
  BY <1>1, HeadOfIn
<1>3. /\ StoreOK(store) /\ ServerOK(store, server) /\ server \in ServerType
      /\ store \in StoreType
  BY Typed DEF WatchInv
<1>4. /\ s \in StoreType /\ IsOpen(store.ws)
      /\ s.up = store.up /\ s.targets = store.targets /\ s.agg = store.agg
      /\ s.online = "Online" /\ s.failures = 0 /\ s.timer = FALSE
  BY <1>1, <1>3, ReadOK
<1>5. /\ store.agg[m.doc] \in [pending : Nat, current : BOOLEAN, old : BOOLEAN]
      /\ store.agg[m.doc].pending > 0
  <2>1. store.agg[m.doc] \in [pending : Nat, current : BOOLEAN, old : BOOLEAN]
    BY <1>2, <1>3 DEF StoreType
  <2> DEFINE v == store.ws.in
             out == store.ws.out
  <2>2. v \in Seq(Responses) /\ v # <<>> /\ out \in Seq(Requests) /\ Tail(v) \in Seq(Responses)
    <3>1. v \in Seq(Responses) /\ v # <<>> /\ out \in Seq(Requests)
      BY <1>1, <1>3 DEF StoreOK, StreamOK, WatchStream, StreamType
    <3> HIDE DEF v, out
    <3> QED BY <3>1
  <2>3. store.agg[m.doc].pending =
          Cardinality(About(out, m.doc, {"watch", "unwatch"}))
          + Cardinality(About(v, m.doc, {"added", "removed"}))
    BY <1>2, <1>3, <1>4 DEF ServerOK, CountsDue
  <2>4. m = Head(v)
    OBVIOUS
  <2> HIDE DEF v, out, m
  <2> DEFINE asked == Cardinality(About(out, m.doc, {"watch", "unwatch"}))
             before == Cardinality(About(v, m.doc, {"added", "removed"}))
             after == Cardinality(About(Tail(v), m.doc, {"added", "removed"}))
  <2>5. asked \in Nat /\ after \in Nat
    BY <2>2, AboutFinite
  <2>6. before = after + 1
    BY <1>1, <2>2, <2>4, AboutTail
  <2>7. store.agg[m.doc].pending = asked + before
    BY <2>3
  <2> HIDE DEF asked, before, after
  <2> QED BY <2>1, <2>5, <2>6, <2>7
<1>6. m = Head(store.ws.in)
  OBVIOUS
<1> DEFINE a == store.agg[m.doc]
<1>7. /\ kept \in [pending : Nat, current : BOOLEAN, old : BOOLEAN]
      /\ kept.pending = store.agg[m.doc].pending - 1
      /\ kept.current => store.agg[m.doc].current /\ kept.old = store.agg[m.doc].old
  <2>1. a \in [pending : Nat, current : BOOLEAN, old : BOOLEAN] /\ a.pending > 0
    BY <1>5
  <2>2. t = [a EXCEPT !.pending = @ - 1]
    OBVIOUS
  <2> HIDE DEF t, a, m
  <2>3. /\ t \in [pending : Nat, current : BOOLEAN, old : BOOLEAN]
        /\ t.pending = a.pending - 1 /\ t.current = a.current /\ t.old = a.old
    BY <2>1, <2>2
  <2>4. /\ NoTarget \in [pending : Nat, current : BOOLEAN, old : BOOLEAN]
        /\ NoTarget.pending = 0 /\ NoTarget.current = FALSE
    BY DEF NoTarget
  <2> QED BY <2>3, <2>4 DEF a
<1> HIDE DEF m, kept, s, a
<1> DEFINE counts == [s.agg EXCEPT ![m.doc] = kept]
<1>8. /\ counts \in [Docs -> [pending : Nat, current : BOOLEAN, old : BOOLEAN]]
      /\ counts[m.doc] = kept
      /\ \A e \in Docs : e # m.doc => counts[e] = store.agg[e]
  <2> DEFINE b == s.agg
  <2>1. b \in [Docs -> [pending : Nat, current : BOOLEAN, old : BOOLEAN]] /\ b = store.agg
    BY <1>4 DEF StoreType
  <2> HIDE DEF b
  <2>2. LET c == [b EXCEPT ![m.doc] = kept]
        IN  /\ c \in [Docs -> [pending : Nat, current : BOOLEAN, old : BOOLEAN]]
            /\ c[m.doc] = kept
            /\ \A e \in Docs : e # m.doc => c[e] = b[e]
    BY <1>2, <1>7, <2>1
  <2> QED BY <2>1, <2>2 DEF b
<1>9. r = [s EXCEPT !.agg = counts]
  BY <1>4 DEF StoreType
<1> HIDE DEF counts, r
<1>10. /\ r \in StoreType /\ r.ws = s.ws /\ r.agg = counts /\ r.targets = store.targets
       /\ r.up = store.up /\ r.online = "Online" /\ r.failures = 0 /\ r.timer = FALSE
  BY <1>4, <1>8, <1>9 DEF StoreType
<1>11. \A e \in Docs \ Denied :
         r.agg[e].pending = IF m.doc = e /\ m.kind \in {"added", "removed"}
                            THEN store.agg[e].pending - 1 ELSE store.agg[e].pending
  BY <1>1, <1>7, <1>8, <1>10
<1>12. StoreOK(r) /\ ServerOK(r, server)
  BY <1>1, <1>3, <1>6, <1>10, <1>11, ReadKept DEF s
<1>13. WatchInv'
  BY <1>1, <1>3, <1>10, <1>12, HandledStore
<1>14. store' = r /\ s.ws.in = Tail(store.ws.in)
  <2>1. s.ws.in = Tail(store.ws.in)
    BY <1>1, <1>3, ReadOK DEF s
  <2> QED BY <1>1, <2>1 DEF Handled
<1>15. ReadOne /\ store'.targets = store.targets
  BY <1>1, <1>10, <1>14 DEF ReadOne
<1>16. /\ store'.agg[m.doc].current => /\ store.agg[m.doc].current
                                      /\ store'.agg[m.doc].old = store.agg[m.doc].old
       /\ \A e \in Docs : e # m.doc => store'.agg[e] = store.agg[e]
  BY <1>7, <1>8, <1>10, <1>14
<1> QED BY <1>5, <1>13, <1>15, <1>16 DEF m

\* The server says that a target is current: it is marked if nothing else is
\* due of it.
LEMMA CurrentStep ==
    ASSUME WatchInv, TargetCurrent
    PROVE  LET d == Head(store.ws.in).doc
           IN  /\ WatchInv' /\ ReadOne /\ store'.targets = store.targets
               /\ d \in Docs /\ d \notin Denied /\ Head(store.ws.in).kind = "current"
               /\ store'.agg[d].pending = store.agg[d].pending
               /\ IsActiveTarget(store, d) \/ store'.agg[d] = store.agg[d]
               /\ \A e \in Docs : e # d => store'.agg[e] = store.agg[e]
<1> DEFINE m == Head(store.ws.in)
           d == m.doc
           s == Read(store)
           marked == [s EXCEPT !.agg[d].current = TRUE, !.agg[d].old = FALSE]
           r == IF IsActiveTarget(store, d) THEN marked ELSE s
<1>1. /\ store.ws.in # <<>> /\ m.kind = "current" /\ server' = server /\ calls' = calls
      /\ Handled(r, get, view)
  BY DEF TargetCurrent, NextResponse
<1>2. d \in Docs /\ d \notin Denied
  BY <1>1, HeadOfIn
<1>3. StoreOK(store) /\ ServerOK(store, server) /\ server \in ServerType
  BY Typed DEF WatchInv
<1>4. /\ s \in StoreType
      /\ s.up = store.up /\ s.targets = store.targets /\ s.agg = store.agg
      /\ s.online = "Online" /\ s.failures = 0 /\ s.timer = FALSE
      /\ s.ws.in = Tail(store.ws.in)
  BY <1>1, <1>3, ReadOK
<1>5. m = Head(store.ws.in) /\ s.ws = Read(store).ws /\ d = m.doc
  OBVIOUS
<1> HIDE DEF m, s, d
<1> DEFINE a == store.agg[d]
           b == [a EXCEPT !.current = TRUE, !.old = FALSE]
           counts == [s.agg EXCEPT ![d] = b]
<1>6. /\ store.agg \in [Docs -> [pending : Nat, current : BOOLEAN, old : BOOLEAN]]
      /\ a \in [pending : Nat, current : BOOLEAN, old : BOOLEAN] /\ a = store.agg[d]
  BY <1>2, <1>3 DEF StoreOK, StoreType
<1>7. marked = [s EXCEPT !.agg = counts]
  BY <1>2, <1>4, <1>6 DEF StoreType
<1> HIDE DEF a, marked
<1>8. b \in [pending : Nat, current : BOOLEAN, old : BOOLEAN] /\ b.pending = a.pending
  BY <1>6
<1> HIDE DEF b
<1>9. /\ counts \in [Docs -> [pending : Nat, current : BOOLEAN, old : BOOLEAN]]
      /\ counts[d] = b /\ \A e \in Docs : e # d => counts[e] = store.agg[e]
  <2> DEFINE c == s.agg
  <2>1. c \in [Docs -> [pending : Nat, current : BOOLEAN, old : BOOLEAN]] /\ c = store.agg
    BY <1>4, <1>6
  <2> HIDE DEF c
  <2>2. LET f == [c EXCEPT ![d] = b]
        IN  /\ f \in [Docs -> [pending : Nat, current : BOOLEAN, old : BOOLEAN]]
            /\ f[d] = b /\ \A e \in Docs : e # d => f[e] = c[e]
    BY <1>2, <1>8, <2>1
  <2> QED BY <2>1, <2>2 DEF c
<1> HIDE DEF counts
<1>10. /\ marked \in StoreType /\ marked.ws = s.ws /\ marked.agg = counts
       /\ marked.targets = s.targets /\ marked.up = s.up /\ marked.online = s.online
       /\ marked.failures = s.failures /\ marked.timer = s.timer
  BY <1>4, <1>7, <1>9 DEF StoreType
<1>11. /\ r \in StoreType /\ r.ws = s.ws /\ r.targets = store.targets
       /\ r.up = store.up /\ r.online = "Online" /\ r.failures = 0 /\ r.timer = FALSE
       /\ r.agg[d].pending = store.agg[d].pending
       /\ IsActiveTarget(store, d) \/ r.agg[d] = store.agg[d]
       /\ \A e \in Docs : e # d => r.agg[e] = store.agg[e]
  <2>1. CASE IsActiveTarget(store, d)
    BY <1>4, <1>6, <1>8, <1>9, <1>10, <2>1
  <2>2. CASE ~IsActiveTarget(store, d)
    BY <1>4, <2>2
  <2> QED BY <2>1, <2>2
<1> HIDE DEF r
<1>12. \A e \in Docs \ Denied :
         r.agg[e].pending = IF m.doc = e /\ m.kind \in {"added", "removed"}
                            THEN store.agg[e].pending - 1 ELSE store.agg[e].pending
  BY <1>1, <1>5, <1>11
<1>13. StoreOK(r) /\ ServerOK(r, server)
  <2>1. /\ r.targets \subseteq store.targets
        /\ \A e \in Docs \ Denied : e \in store.targets => e \in r.targets
    BY <1>11
  <2>2. /\ store.ws.in # <<>> /\ r.ws = Read(store).ws /\ r \in StoreType /\ r.up = store.up
        /\ r.online = "Online" /\ r.failures = 0 /\ r.timer = FALSE
    BY <1>1, <1>5, <1>11
  <2>3. \A e \in Docs \ Denied :
          r.agg[e].pending =
            IF Head(store.ws.in).doc = e /\ Head(store.ws.in).kind \in {"added", "removed"}
            THEN store.agg[e].pending - 1 ELSE store.agg[e].pending
    BY <1>12 DEF m
  <2> QED BY <1>3, <2>1, <2>2, <2>3, ReadKept
<1>14. WatchInv' /\ store' = r
  BY <1>1, <1>3, <1>11, <1>13, HandledStore DEF Handled
<1>15. ReadOne
  BY <1>1, <1>4, <1>11, <1>14 DEF ReadOne
<1> QED BY <1>1, <1>2, <1>11, <1>14, <1>15 DEF d, m

\* A response that says nothing of a single target is read.
LEMMA OnlyRead ==
    ASSUME WatchInv, NextResponse("snapshot"), server' = server, calls' = calls,
           NEW v \in ViewType, Handled(Read(store), get, v),
           \A d \in Docs : v[d] = "none" <=> view[d] = "none"
    PROVE  /\ WatchInv' /\ ReadOne
           /\ store'.targets = store.targets /\ store'.agg = store.agg
<1> DEFINE s == Read(store)
           m == Head(store.ws.in)
<1>1. store.ws.in # <<>> /\ m.kind = "snapshot" /\ Handled(s, get, v)
  BY DEF NextResponse
<1>2. /\ StoreOK(store) /\ ServerOK(store, server) /\ server \in ServerType
      /\ get \in [Gets -> GetType] /\ \A g \in Gets : SlotOK(get[g])
      /\ Follow(store.targets, view, get)
  BY Typed DEF WatchInv, TargetsFollowListeners, Follow
<1>3. /\ s \in StoreType
      /\ s.up = store.up /\ s.targets = store.targets /\ s.agg = store.agg
      /\ s.online = "Online" /\ s.failures = 0 /\ s.timer = FALSE
      /\ s.ws.in = Tail(store.ws.in)
  BY <1>1, <1>2, ReadOK
<1>4. m = Head(store.ws.in) /\ s.ws = Read(store).ws
  OBVIOUS
<1> HIDE DEF m, s
<1>5. \A e \in Docs \ Denied :
        s.agg[e].pending = IF m.doc = e /\ m.kind \in {"added", "removed"}
                           THEN store.agg[e].pending - 1 ELSE store.agg[e].pending
  BY <1>1, <1>3
<1>6. StoreOK(s) /\ ServerOK(s, server)
  BY <1>1, <1>2, <1>3, <1>4, <1>5, ReadKept
<1>7. Follow(s.targets, v, get)
  BY <1>2, <1>3 DEF Follow
<1>8. WatchInv' /\ store' = s
  BY <1>1, <1>2, <1>6, <1>7, HandledInv DEF Handled
<1> QED BY <1>1, <1>3, <1>8 DEF ReadOne

\* A snapshot tells the views of the active targets.
LEMMA SnapshotStep ==
    ASSUME WatchInv, WatchSnapshot
    PROVE  /\ WatchInv' /\ ReadOne
           /\ store'.targets = store.targets /\ store'.agg = store.agg
<1> DEFINE v == [d \in Docs |-> IF ~IsActiveTarget(store, d) THEN view[d]
                                ELSE IF store.agg[d].current THEN "synced" ELSE "local"]
<1>1. /\ NextResponse("snapshot") /\ Handled(Read(store), get, v)
      /\ server' = server /\ calls' = calls
  BY DEF WatchSnapshot
<1>2. view \in ViewType /\ store.targets = {d \in Docs : view[d] # "none"}
  BY Typed DEF WatchInv, TargetsFollowListeners
<1>3. v \in ViewType /\ \A d \in Docs : v[d] = "none" <=> view[d] = "none"
  BY <1>2 DEF ViewType, IsActiveTarget
<1> HIDE DEF v
<1> QED BY <1>1, <1>3, OnlyRead

\* An old snapshot is dropped.
LEMMA SnapshotIgnoredStep ==
    ASSUME WatchInv, SnapshotIgnored
    PROVE  /\ WatchInv' /\ ReadOne
           /\ store'.targets = store.targets /\ store'.agg = store.agg
<1>1. view \in ViewType
  BY Typed DEF WatchInv
<1> QED BY <1>1, OnlyRead DEF SnapshotIgnored

\* The server refuses a target: its listeners get the error, and the target is
\* dropped with its view.
LEMMA RejectedStep ==
    ASSUME WatchInv, TargetRejected
    PROVE  LET d == Head(store.ws.in).doc
           IN  /\ WatchInv' /\ ReadOne /\ store.targets \ {d} \subseteq store'.targets
               /\ d \in Denied
               /\ ~store'.agg[d].current \/ store'.agg[d] = store.agg[d]
               /\ \A e \in Docs : e # d => store'.agg[e] = store.agg[e]
<1> DEFINE m == Head(store.ws.in)
           d == m.doc
           s == Read(store)
           r == [s EXCEPT !.targets = @ \ {d}, !.agg[d] = NoTarget]
           gets == [g \in Gets |-> IF get[g].listed /\ get[g].doc = d
                                   THEN [Raised(get[g], "error") EXCEPT !.listed = FALSE]
                                   ELSE get[g]]
<1>1. /\ store.ws.in # <<>> /\ m.kind = "rejected" /\ server' = server /\ calls' = calls
      /\ IF d \in store.targets THEN Handled(r, gets, [view EXCEPT ![d] = "none"])
         ELSE Handled(s, get, view)
  BY DEF TargetRejected, NextResponse
<1>2. d \in Docs /\ d \in Denied
  BY <1>1, HeadOfIn
<1>3. /\ StoreOK(store) /\ ServerOK(store, server) /\ server \in ServerType
      /\ get \in [Gets -> GetType] /\ view \in ViewType /\ \A g \in Gets : SlotOK(get[g])
      /\ Follow(store.targets, view, get)
  BY Typed DEF WatchInv, TargetsFollowListeners, Follow
<1>4. /\ s \in StoreType
      /\ s.up = store.up /\ s.targets = store.targets /\ s.agg = store.agg
      /\ s.online = "Online" /\ s.failures = 0 /\ s.timer = FALSE
      /\ s.ws.in = Tail(store.ws.in)
  BY <1>1, <1>3, ReadOK
<1>5. m = Head(store.ws.in) /\ s.ws = Read(store).ws /\ d = m.doc
  OBVIOUS
<1> HIDE DEF m, s
<1>6. CASE d \in store.targets
  <2> DEFINE counts == [s.agg EXCEPT ![d] = NoTarget]
             v == [view EXCEPT ![d] = "none"]
  <2>1. Handled(r, gets, v)
    BY <1>1, <1>6
  <2> HIDE DEF d
  <2>2. /\ counts \in [Docs -> [pending : Nat, current : BOOLEAN, old : BOOLEAN]]
        /\ ~counts[d].current /\ \A e \in Docs : e # d => counts[e] = store.agg[e]
    <3> DEFINE b == s.agg
    <3>1. b \in [Docs -> [pending : Nat, current : BOOLEAN, old : BOOLEAN]] /\ b = store.agg
      BY <1>4 DEF StoreType
    <3>2. NoTarget \in [pending : Nat, current : BOOLEAN, old : BOOLEAN] /\ ~NoTarget.current
      BY DEF NoTarget
    <3> HIDE DEF b
    <3>3. LET c == [b EXCEPT ![d] = NoTarget]
          IN  /\ c \in [Docs -> [pending : Nat, current : BOOLEAN, old : BOOLEAN]]
              /\ ~c[d].current /\ \A e \in Docs : e # d => c[e] = b[e]
      BY <1>2, <3>1, <3>2
    <3> QED BY <3>1, <3>3 DEF b
  <2>3. r = [s EXCEPT !.targets = s.targets \ {d}, !.agg = counts]
    BY <1>4 DEF StoreType
  <2> HIDE DEF counts, r
  <2>4. /\ r \in StoreType /\ r.ws = s.ws /\ r.agg = counts /\ r.targets = store.targets \ {d}
        /\ r.up = store.up /\ r.online = "Online" /\ r.failures = 0 /\ r.timer = FALSE
    BY <1>4, <2>2, <2>3 DEF StoreType
  <2>5. \A e \in Docs \ Denied :
          r.agg[e].pending = IF m.doc = e /\ m.kind \in {"added", "removed"}
                             THEN store.agg[e].pending - 1 ELSE store.agg[e].pending
    BY <1>1, <1>2, <2>2, <2>4
  <2>6. /\ r.targets \subseteq store.targets
        /\ \A e \in Docs \ Denied : e \in store.targets => e \in r.targets
    BY <1>2, <2>4
  <2>7. StoreOK(r) /\ ServerOK(r, server)
    BY ZenonT(60), <1>1, <1>3, <1>5, <2>4, <2>5, <2>6, ReadKept
  <2>8. /\ v \in ViewType /\ v[d] = "none" /\ \A e \in Docs : e # d => v[e] = view[e]
    BY <1>2, <1>3 DEF ViewType
  <2>9. ASSUME NEW g \in Gets
        PROVE  /\ gets[g] \in GetType /\ SlotOK(gets[g]) /\ gets[g].doc = get[g].doc
               /\ gets[g].listed <=> get[g].listed /\ get[g].doc # d
    <3> DEFINE x == get[g]
               y == [Raised(x, "error") EXCEPT !.listed = FALSE]
    <3>1. x \in GetType /\ SlotOK(x)
      BY <1>3
    <3>2. gets[g] = IF x.listed /\ x.doc = d THEN y ELSE x
      OBVIOUS
    <3> HIDE DEF x, gets
    <3>3. CASE x.listed /\ x.doc = d
      <4>1. "error" \in Event /\ FALSE \in BOOLEAN
        BY DEF Event
      <4>2. /\ y \in GetType /\ SlotOK(y) /\ y.doc = x.doc /\ y.listed = FALSE
        BY <3>1, <3>3, <4>1, RaisedOK
      <4> HIDE DEF y
      <4> QED BY <3>2, <3>3, <4>2 DEF x
    <3>4. CASE ~(x.listed /\ x.doc = d)
      BY <3>1, <3>2, <3>4 DEF x
    <3> QED BY <3>3, <3>4
  <2>10. gets \in [Gets -> GetType]
    <3>1. gets = [g \in Gets |-> gets[g]]
      OBVIOUS
    <3> HIDE DEF gets
    <3> QED BY <2>9, <3>1
  <2> HIDE DEF v, gets
  <2>11. r.targets = {e \in Docs : v[e] # "none"}
    BY <1>3, <2>4, <2>8 DEF Follow
  <2>12. r.targets = {gets[h].doc : h \in {k \in Gets : gets[k].listed}}
    <3>1. store.targets = {get[h].doc : h \in {k \in Gets : get[k].listed}}
      BY <1>3 DEF Follow
    <3> QED BY <2>4, <2>9, <3>1
  <2>13. Follow(r.targets, v, gets)
    BY <2>11, <2>12 DEF Follow
  <2>14. WatchInv' /\ store' = r
    BY <1>1, <1>3, <2>1, <2>7, <2>8, <2>9, <2>10, <2>13, HandledInv DEF Handled
  <2>15. ReadOne /\ store.targets \ {d} \subseteq store'.targets
    BY <1>1, <1>4, <2>4, <2>14 DEF ReadOne
  <2>16. ~store'.agg[d].current /\ \A e \in Docs : e # d => store'.agg[e] = store.agg[e]
    BY <2>2, <2>4, <2>14
  <2> QED BY <1>2, <1>5, <2>14, <2>15, <2>16
<1>7. CASE d \notin store.targets
  <2>1. Handled(s, get, view)
    BY <1>1, <1>7
  <2> HIDE DEF d
  <2>2. \A e \in Docs \ Denied :
          s.agg[e].pending = IF m.doc = e /\ m.kind \in {"added", "removed"}
                             THEN store.agg[e].pending - 1 ELSE store.agg[e].pending
    BY <1>1, <1>4
  <2>3. StoreOK(s) /\ ServerOK(s, server)
    BY <1>1, <1>3, <1>4, <1>5, <2>2, ReadKept
  <2>4. WatchInv' /\ store' = s
    BY <1>1, <1>3, <1>4, <2>1, <2>3, HandledStore DEF Handled
  <2>5. ReadOne /\ store'.targets = store.targets /\ store'.agg = store.agg
    BY <1>1, <1>4, <2>4 DEF ReadOne
  <2> QED BY <1>2, <1>5, <2>4, <2>5
<1> QED BY <1>6, <1>7

-----------------------------------------------------------------------------
(* The server. *)

\* The server's step left these messages on their way to the client.
ServerSent(in) ==
    store'.ws.in = in /\ store'.agg = store.agg /\ store'.targets = store.targets

\* A step of the server that changes what is on its way and what it knows.
LEMMA ServerStep ==
    ASSUME WatchInv, IsOpen(store.ws), NEW out \in Seq(Requests), NEW in \in Seq(Responses),
           store' = [store EXCEPT !.ws = [@ EXCEPT !.out = out, !.in = in]],
           server' \in ServerType, \A d \in Docs : server'[d] # "off" => d \notin Denied,
           \A i \in DOMAIN in : (in[i].kind = "rejected" <=> in[i].doc \in Denied),
           Alternate(out, server', store.targets), CountsDue(store.agg, out, in),
           UNCHANGED <<get, view, calls>>
    PROVE  WatchInv' /\ ServerSent(in)
<1> DEFINE w == [store.ws EXCEPT !.out = out, !.in = in]
           r == [store EXCEPT !.ws = w]
<1>1. /\ store \in StoreType /\ StreamOK(store.ws) /\ OnlineOK(store) /\ WatchNeeded(store)
      /\ store.ws \in WatchStream
  BY DEF WatchInv, StoreOK, StreamOK
<1>2. w \in WatchStream
  BY ZenonT(60), <1>1 DEF WatchStream, StreamType
<1>3. /\ w.state = store.ws.state /\ w.tokens = store.ws.tokens /\ w.call = store.ws.call
      /\ w.timers = store.ws.timers /\ w.ok = store.ws.ok /\ w.in = in /\ w.out = out
  BY <1>1 DEF WatchStream, StreamType
<1>4. store' = r
  BY <1>1 DEF StoreType
<1> HIDE DEF w
<1>5. IsOpen(w) /\ (IsStarted(w) <=> IsStarted(store.ws))
  BY <1>3 DEF IsOpen, IsStarted
<1>6. StreamOK(w)
  BY <1>1, <1>2, <1>3, <1>5 DEF StreamOK
<1>7. /\ r \in StoreType /\ r.ws = w /\ r.targets = store.targets /\ r.up = store.up
      /\ r.agg = store.agg /\ r.online = store.online /\ r.failures = store.failures
      /\ r.timer = store.timer
  BY <1>1, <1>2 DEF StoreType
<1> HIDE DEF r
<1>8. OnlineOK(r) /\ WatchNeeded(r)
  BY <1>1, <1>3, <1>5, <1>7 DEF OnlineOK, OnlineKnown, WatchNeeded
<1>9. StoreOK(r)
  BY <1>6, <1>7, <1>8 DEF StoreOK
<1>10. ServerOK(r, server')
  BY <1>3, <1>5, <1>7 DEF ServerOK
<1>11. ServerSent(in)
  BY <1>3, <1>4, <1>7 DEF ServerSent
<1> QED BY <1>4, <1>7, <1>9, <1>10, <1>11, StoreOnly

\* The server answered a request for d, unless it had refused d before.
Answered(d, in) ==
    /\ \A e \in Docs : e # d => server'[e] = server[e]
    /\ d \in Denied \/ store.agg[d].pending > 0
    /\ \/ d \in Denied /\ in = store.ws.in
       \/ \E a \in Responses :
            /\ in = Append(store.ws.in, a) /\ a.doc = d
            /\ IF d \in Denied THEN a.kind = "rejected" ELSE a.kind \in {"added", "removed"}

\* The server reads a request: it answers each request for a target it
\* accepts, because listens and stops alternate.
LEMMA ServerReadsStep ==
    ASSUME WatchInv, ServerReads
    PROVE  WatchInv' /\ \E d \in Docs, in \in Seq(Responses) : ServerSent(in) /\ Answered(d, in)
<1> DEFINE out == store.ws.out
           in == store.ws.in
           m == Head(out)
           kind == IF m.kind = "unwatch" THEN "removed"
                   ELSE IF m.doc \in Denied THEN "rejected" ELSE "added"
           silent == m.kind = "unwatch" /\ server[m.doc] = "off"
           answer == [kind |-> kind, doc |-> m.doc]
           after == IF silent THEN in ELSE Append(in, answer)
<1>1. /\ store \in StoreType /\ StreamOK(store.ws) /\ ServerOK(store, server)
      /\ server \in ServerType /\ out \in Seq(Requests) /\ in \in Seq(Responses)
  BY Typed DEF WatchInv, StoreOK, StreamOK, WatchStream, StreamType
<1>2. /\ out # <<>> /\ UNCHANGED <<get, view, calls>>
      /\ store' = [store EXCEPT !.ws.out = Tail(@), !.ws.in = after]
      /\ server' = [server EXCEPT ![m.doc] = IF kind = "added" THEN "on" ELSE "off"]
  BY DEF ServerReads
<1>3. IsOpen(store.ws)
  BY <1>1, <1>2 DEF StreamOK
<1>4. store' = [store EXCEPT !.ws = [@ EXCEPT !.out = Tail(out), !.in = after]]
  BY <1>1, <1>2 DEF StoreType, WatchStream, StreamType
<1>5. /\ \A d \in Docs : server[d] # "off" => d \notin Denied
      /\ \A i \in DOMAIN in : (in[i].kind = "rejected" <=> in[i].doc \in Denied)
      /\ Alternate(out, server, store.targets) /\ CountsDue(store.agg, out, in)
  BY <1>1, <1>3 DEF ServerOK
<1> HIDE DEF out, in
<1>6. m \in Requests /\ m = out[1] /\ 1 \in DOMAIN out /\ Tail(out) \in Seq(Requests)
  BY <1>1, <1>2
<1>7. m.doc \in Docs /\ m.kind \in {"watch", "unwatch"}
  BY <1>6 DEF Requests, Message
<1> HIDE DEF m
<1>8. silent <=> m.kind = "unwatch" /\ m.doc \in Denied
  <2>1. m.doc \in Denied => server[m.doc] = "off"
    BY <1>5, <1>7
  <2>2. m.kind = "unwatch" /\ m.doc \notin Denied => server[m.doc] # "off"
    BY <1>5, <1>6, <1>7 DEF Alternate, On
  <2> QED BY <2>1, <2>2
<1>9. answer \in Responses /\ answer.kind = kind /\ answer.doc = m.doc
  BY <1>7 DEF Responses, Message
<1>10. ~silent => (kind = "rejected" <=> m.doc \in Denied)
  BY <1>7, <1>8
<1>11. m.doc \notin Denied => /\ ~silent /\ kind \in {"added", "removed"}
                              /\ (kind = "added" <=> m.kind = "watch")
  BY <1>7, <1>8
<1>12. kind = "added" => m.doc \notin Denied
  OBVIOUS
<1> HIDE DEF silent, kind, answer
<1>13. after \in Seq(Responses)
  BY <1>1, <1>9
<1>14. \A i \in DOMAIN after : (after[i].kind = "rejected" <=> after[i].doc \in Denied)
  <2>1. CASE silent
    BY <1>5, <2>1
  <2>2. CASE ~silent
    <3>1. \A i \in DOMAIN Append(in, answer) :
             \/ i \in DOMAIN in /\ Append(in, answer)[i] = in[i]
             \/ Append(in, answer)[i] = answer
      BY <1>1, <1>9
    <3>2. answer.kind = "rejected" <=> answer.doc \in Denied
      BY <1>9, <1>10, <2>2
    <3>3. after = Append(in, answer)
      BY <2>2
    <3> HIDE DEF after
    <3> QED BY <1>5, <3>1, <3>2, <3>3
  <2> QED BY <2>1, <2>2
<1>15. /\ server' \in ServerType
       /\ \A e \in Docs : server'[e] # "off" <=> IF m.doc = e THEN kind = "added"
                                                 ELSE server[e] # "off"
  BY <1>1, <1>2, <1>7 DEF ServerType
<1>16. \A e \in Docs : server'[e] # "off" => e \notin Denied
  BY <1>5, <1>12, <1>15
<1>17. Alternate(Tail(out), server', store.targets)
  <2>1. \A e \in Docs \ Denied :
          server'[e] # "off" <=> IF Head(out).doc = e THEN Head(out).kind = "watch"
                                 ELSE server[e] # "off"
    BY <1>11, <1>15 DEF m
  <2> DEFINE known == server'
             ts == store.targets
  <2>2. /\ Alternate(out, server, ts)
        /\ \A e \in Docs \ Denied :
             known[e] # "off" <=> IF Head(out).doc = e THEN Head(out).kind = "watch"
                                  ELSE server[e] # "off"
    BY <1>5, <2>1
  <2> HIDE DEF known, ts
  <2>3. Alternate(Tail(out), known, ts)
    BY <1>1, <1>2, <2>2, AlternateTail
  <2> QED BY <2>3 DEF known, ts
<1>18. CountsDue(store.agg, Tail(out), after)
  <2> SUFFICES ASSUME NEW d \in Docs \ Denied
               PROVE  store.agg[d].pending =
                        Cardinality(About(Tail(out), d, {"watch", "unwatch"}))
                        + Cardinality(About(after, d, {"added", "removed"}))
    BY DEF CountsDue
  <2> DEFINE asked == Cardinality(About(out, d, {"watch", "unwatch"}))
             left == Cardinality(About(Tail(out), d, {"watch", "unwatch"}))
             told == Cardinality(About(in, d, {"added", "removed"}))
             now == Cardinality(About(after, d, {"added", "removed"}))
             more == Cardinality(About(Append(in, answer), d, {"added", "removed"}))
  <2>1. store.agg[d].pending = asked + told
    BY <1>5 DEF CountsDue
  <2>2. asked = IF m.doc = d THEN left + 1 ELSE left
    <3>1. asked = IF Head(out).doc = d /\ Head(out).kind \in {"watch", "unwatch"}
                  THEN left + 1 ELSE left
      BY <1>1, <1>2, AboutTail
    <3> QED BY <1>7, <3>1 DEF m
  <2>3. more = IF answer.doc = d /\ answer.kind \in {"added", "removed"}
               THEN told + 1 ELSE told
    BY <1>1, <1>9, AboutAppend
  <2>4. left \in Nat /\ told \in Nat
    BY <1>1, <1>6, AboutFinite
  <2>5. silent => now = told
    OBVIOUS
  <2>6. ~silent => now = more
    OBVIOUS
  <2> HIDE DEF asked, left, told, now, more, after
  <2>7. store.agg[d].pending = left + now
    <3>1. CASE m.doc = d
      BY <1>9, <1>11, <2>1, <2>2, <2>3, <2>4, <2>6, <3>1
    <3>2. CASE m.doc # d
      BY <1>9, <2>1, <2>2, <2>3, <2>4, <2>5, <2>6, <3>2
    <3> QED BY <3>1, <3>2
  <2> QED BY <2>7 DEF left, now
<1>19. m.doc \in Denied \/ store.agg[m.doc].pending > 0
  <2> SUFFICES ASSUME m.doc \notin Denied PROVE store.agg[m.doc].pending > 0
    OBVIOUS
  <2> DEFINE d == m.doc
             asked == Cardinality(About(out, d, {"watch", "unwatch"}))
             left == Cardinality(About(Tail(out), d, {"watch", "unwatch"}))
             told == Cardinality(About(in, d, {"added", "removed"}))
  <2>1. store.agg[d].pending = asked + told
    BY <1>5, <1>7 DEF CountsDue
  <2>2. asked = left + 1
    <3>1. asked = IF Head(out).doc = d /\ Head(out).kind \in {"watch", "unwatch"}
                  THEN left + 1 ELSE left
      BY <1>1, <1>2, AboutTail
    <3> QED BY <1>7, <3>1 DEF m
  <2>3. left \in Nat /\ told \in Nat
    BY <1>1, <1>6, AboutFinite
  <2> HIDE DEF asked, left, told
  <2> QED BY <2>1, <2>2, <2>3
<1>20. Answered(m.doc, after)
  <2>1. \A e \in Docs : e # m.doc => server'[e] = server[e]
    BY <1>1, <1>2 DEF ServerType
  <2>2. CASE silent
    BY <1>8, <1>19, <2>1, <2>2 DEF Answered, in
  <2>3. CASE ~silent
    <3>1. IF m.doc \in Denied THEN answer.kind = "rejected"
          ELSE answer.kind \in {"added", "removed"}
      BY <1>9, <1>10, <1>11, <2>3
    <3>2. after = Append(store.ws.in, answer) /\ answer \in Responses /\ answer.doc = m.doc
      BY <1>9, <2>3 DEF in
    <3> HIDE DEF after
    <3> QED BY <1>19, <2>1, <3>1, <3>2 DEF Answered
  <2> QED BY <2>2, <2>3
<1> HIDE DEF after
<1>21. WatchInv' /\ ServerSent(after)
  BY <1>2, <1>3, <1>4, <1>6, <1>13, <1>14, <1>15, <1>16, <1>17, <1>18, ServerStep
<1> QED BY <1>7, <1>13, <1>20, <1>21

\* The server has sent all it has on a target.
LEMMA ServerCurrentStep ==
    ASSUME WatchInv, NEW d \in Docs, ServerCurrent(d)
    PROVE  WatchInv' /\ ServerSent(Append(store.ws.in, [kind |-> "current", doc |-> d]))
<1> DEFINE out == store.ws.out
           in == store.ws.in
           m == [kind |-> "current", doc |-> d]
<1>1. /\ store \in StoreType /\ StreamOK(store.ws) /\ ServerOK(store, server)
      /\ server \in ServerType /\ out \in Seq(Requests) /\ in \in Seq(Responses)
  BY Typed DEF WatchInv, StoreOK, StreamOK, WatchStream, StreamType
<1>2. /\ server[d] = "on" /\ UNCHANGED <<get, view, calls>>
      /\ store' = [store EXCEPT !.ws.in = Append(@, m)]
      /\ server' = [server EXCEPT ![d] = "current"]
  BY DEF ServerCurrent
<1>3. IsOpen(store.ws) /\ d \notin Denied
  BY <1>1, <1>2 DEF ServerOK
<1>4. store' = [store EXCEPT !.ws = [@ EXCEPT !.out = out, !.in = Append(in, m)]]
  BY <1>1, <1>2 DEF StoreType, WatchStream, StreamType
<1>5. /\ \A e \in Docs : server[e] # "off" => e \notin Denied
      /\ \A i \in DOMAIN in : (in[i].kind = "rejected" <=> in[i].doc \in Denied)
      /\ Alternate(out, server, store.targets) /\ CountsDue(store.agg, out, in)
  BY <1>1, <1>3 DEF ServerOK
<1> HIDE DEF out, in
<1>6. m \in Responses /\ m.kind = "current" /\ m.doc = d
  BY DEF Responses, Message
<1> HIDE DEF m
<1>7. Append(in, m) \in Seq(Responses)
  BY <1>1, <1>6
<1>8. \A i \in DOMAIN Append(in, m) :
         (Append(in, m)[i].kind = "rejected" <=> Append(in, m)[i].doc \in Denied)
  <2>1. \A i \in DOMAIN Append(in, m) : \/ i \in DOMAIN in /\ Append(in, m)[i] = in[i]
                                        \/ Append(in, m)[i] = m
    BY <1>1, <1>6
  <2> QED BY <1>3, <1>5, <1>6, <2>1
<1>9. server' \in ServerType /\ \A e \in Docs : server'[e] # "off" <=> server[e] # "off"
  BY <1>1, <1>2 DEF ServerType
<1>10. Alternate(out, server', store.targets)
  BY <1>5, <1>9 DEF Alternate, On
<1>11. CountsDue(store.agg, out, Append(in, m))
  <2> SUFFICES ASSUME NEW e \in Docs \ Denied
               PROVE  store.agg[e].pending =
                        Cardinality(About(out, e, {"watch", "unwatch"}))
                        + Cardinality(About(Append(in, m), e, {"added", "removed"}))
    BY DEF CountsDue
  <2>1. Cardinality(About(Append(in, m), e, {"added", "removed"})) =
          IF m.doc = e /\ m.kind \in {"added", "removed"}
          THEN Cardinality(About(in, e, {"added", "removed"})) + 1
          ELSE Cardinality(About(in, e, {"added", "removed"}))
    BY <1>1, <1>6, AboutAppend
  <2>2. Cardinality(About(Append(in, m), e, {"added", "removed"})) =
          Cardinality(About(in, e, {"added", "removed"}))
    BY <1>6, <2>1
  <2> QED BY <1>5, <2>2 DEF CountsDue
<1> DEFINE after == Append(in, m)
<1>12. /\ store' = [store EXCEPT !.ws = [@ EXCEPT !.out = out, !.in = after]]
       /\ after \in Seq(Responses) /\ CountsDue(store.agg, out, after)
       /\ \A i \in DOMAIN after : (after[i].kind = "rejected" <=> after[i].doc \in Denied)
  BY <1>4, <1>7, <1>8, <1>11
<1>13. \A e \in Docs : server'[e] # "off" => e \notin Denied
  BY <1>5, <1>9
<1> HIDE DEF after
<1>14. WatchInv' /\ ServerSent(after)
  BY <1>1, <1>2, <1>3, <1>9, <1>10, <1>12, <1>13, ServerStep
<1> QED BY <1>14 DEF after, in, m

\* The server sends a snapshot.
LEMMA ServerSnapshotStep ==
    ASSUME WatchInv, ServerSnapshot
    PROVE  WatchInv' /\ ServerSent(Append(store.ws.in, Snapshot)) /\ server' = server
<1> DEFINE out == store.ws.out
           in == store.ws.in
           m == Snapshot
           after == Append(in, m)
<1>1. /\ store \in StoreType /\ StreamOK(store.ws) /\ ServerOK(store, server)
      /\ server \in ServerType /\ out \in Seq(Requests) /\ in \in Seq(Responses)
  BY Typed DEF WatchInv, StoreOK, StreamOK, WatchStream, StreamType
<1>2. /\ \E d \in Docs : server[d] # "off"
      /\ UNCHANGED <<get, view, calls>> /\ server' = server
      /\ store' = [store EXCEPT !.ws.in = Append(@, m)]
  BY DEF ServerSnapshot
<1>3. IsOpen(store.ws)
  BY <1>1, <1>2 DEF ServerOK
<1>4. store' = [store EXCEPT !.ws = [@ EXCEPT !.out = out, !.in = after]]
  BY <1>1, <1>2 DEF StoreType, WatchStream, StreamType
<1>5. /\ \A e \in Docs : server[e] # "off" => e \notin Denied
      /\ \A i \in DOMAIN in : (in[i].kind = "rejected" <=> in[i].doc \in Denied)
      /\ Alternate(out, server, store.targets) /\ CountsDue(store.agg, out, in)
  BY <1>1, <1>3 DEF ServerOK
<1> HIDE DEF out, in
<1>6. m \in Responses /\ m.kind = "snapshot" /\ m.doc \notin Docs /\ m.doc \notin Denied
  BY WatchPipelineAssumption DEF Responses, Snapshot
<1> HIDE DEF m
<1>7. after \in Seq(Responses)
  BY <1>1, <1>6
<1>8. \A i \in DOMAIN after : (after[i].kind = "rejected" <=> after[i].doc \in Denied)
  <2>1. \A i \in DOMAIN after : \/ i \in DOMAIN in /\ after[i] = in[i]
                                \/ after[i] = m
    BY <1>1, <1>6
  <2> QED BY <1>5, <1>6, <2>1
<1>9. CountsDue(store.agg, out, after)
  <2> SUFFICES ASSUME NEW e \in Docs \ Denied
               PROVE  store.agg[e].pending =
                        Cardinality(About(out, e, {"watch", "unwatch"}))
                        + Cardinality(About(after, e, {"added", "removed"}))
    BY DEF CountsDue
  <2>1. Cardinality(About(after, e, {"added", "removed"})) =
          IF m.doc = e /\ m.kind \in {"added", "removed"}
          THEN Cardinality(About(in, e, {"added", "removed"})) + 1
          ELSE Cardinality(About(in, e, {"added", "removed"}))
    BY <1>1, <1>6, AboutAppend
  <2>2. Cardinality(About(after, e, {"added", "removed"})) =
          Cardinality(About(in, e, {"added", "removed"}))
    BY <1>6, <2>1
  <2> QED BY <1>5, <2>2 DEF CountsDue
<1> HIDE DEF after
<1>10. WatchInv' /\ ServerSent(after)
  BY <1>1, <1>2, <1>3, <1>4, <1>5, <1>7, <1>8, <1>9, ServerStep
<1> QED BY <1>2, <1>10 DEF after, in, m

-----------------------------------------------------------------------------
(* The invariant and what follows from it. *)

\* It holds at the start: nobody listens, and the stream was never started.
LEMMA InvInit ==
    Init => WatchInv
<1> SUFFICES ASSUME Init PROVE WatchInv
  OBVIOUS
<1>1. NewStream \in WatchStream /\ StreamOK(NewStream) /\ ~IsOpen(NewStream) /\ ~IsStarted(NewStream)
  <2> DEFINE s == NewStream
  <2>1. <<>> \in Seq(Requests) /\ <<>> \in Seq(Responses)
    OBVIOUS
  <2>2. s \in WatchStream
    BY <2>1 DEF NewStream, WatchStream, StreamType, States, Timers, Errors, NoEnd
  <2>3. /\ s.state = "Initial" /\ s.tokens = {} /\ s.timers = {} /\ s.call = FALSE
        /\ s.out = <<>> /\ s.in = <<>> /\ s.ok = TRUE
    BY DEF NewStream
  <2> HIDE DEF s
  <2>4. ~IsOpen(s) /\ ~IsStarted(s)
    BY <2>3 DEF IsOpen, IsStarted
  <2>5. StreamOK(s)
    BY <2>2, <2>3, <2>4 DEF StreamOK
  <2> QED BY <2>2, <2>4, <2>5 DEF s
<1>2. NoAggregator \in [Docs -> [pending : Nat, current : BOOLEAN, old : BOOLEAN]]
      /\ Unheard(NoAggregator)
  BY NoAggregatorOK
<1> DEFINE r == NewStore
<1>3. /\ r \in StoreType /\ r.ws = NewStream /\ r.targets = {} /\ r.agg = NoAggregator
      /\ r.up = TRUE /\ r.online = "Unknown" /\ r.failures = 0 /\ r.timer = FALSE
  <2>1. 0 \in 0..kMaxWatchStreamFailures
    BY DEF kMaxWatchStreamFailures
  <2> QED BY <1>1, <1>2, <2>1 DEF NewStore, StoreType
<1>4. store = r
  BY DEF Init
<1> HIDE DEF r
<1>5. StoreOK(r)
  <2>1. IsFiniteSet(r.targets)
    BY <1>3, FS_EmptySet
  <2>2. "idle" \notin r.ws.timers
    BY <1>1, <1>3 DEF StreamOK
  <2> QED BY <1>1, <1>2, <1>3, <2>1, <2>2 DEF StoreOK, OnlineOK, OnlineKnown, WatchNeeded
<1>6. server \in ServerType /\ \A d \in Docs : server[d] = "off"
  BY DEF Init, ServerType
<1>7. ServerOK(r, server)
  BY <1>1, <1>3, <1>5, <1>6, NotOpenOK
<1>8. /\ NoGet \in GetType /\ NoGet.caller = "idle" /\ NoGet.listed = FALSE
      /\ NoGet.events = <<>> /\ NoGet.muted = FALSE /\ NoGet.answers = 0
  <2>1. <<>> \in Seq(Event) /\ 0 \in 0..2
    OBVIOUS
  <2> QED BY <2>1 DEF NoGet, GetType
<1>9. SlotOK(NoGet)
  BY <1>8 DEF SlotOK
<1>10. \A g \in Gets : get[g] = NoGet
  BY DEF Init
<1>11. get \in [Gets -> GetType] /\ \A g \in Gets : SlotOK(get[g]) /\ get[g].listed = FALSE
  <2>1. get = [g \in Gets |-> NoGet]
    BY DEF Init
  <2> QED BY <1>8, <1>9, <1>10, <2>1
<1>12. view \in ViewType /\ \A d \in Docs : view[d] = "none"
  BY DEF Init, ViewType
<1>13. calls \in 0..MaxCalls
  BY WatchPipelineAssumption DEF Init
<1>14. TypeOK
  BY <1>3, <1>4, <1>6, <1>11, <1>12, <1>13, Typed
<1>15. TargetsFollowListeners /\ WaitersWait
  BY <1>3, <1>4, <1>11, <1>12 DEF TargetsFollowListeners, WaitersWait
<1> QED BY <1>4, <1>5, <1>7, <1>11, <1>14, <1>15 DEF WatchInv

\* Every step keeps it.
LEMMA InvNext ==
    WatchInv /\ [Next]_vars => WatchInv'
<1> SUFFICES ASSUME WatchInv, [Next]_vars PROVE WatchInv'
  OBVIOUS
<1>1. ASSUME NEW g \in Gets, NEW d \in Docs, GetDocument(g, d) PROVE WatchInv'
  BY <1>1, GetDocumentStep
<1>2. ASSUME NEW g \in Gets, AddQueryListener(g) PROVE WatchInv'
  BY <1>2, AddStep
<1>3. ASSUME NEW g \in Gets, DeliverEvent(g) PROVE WatchInv'
  BY <1>3, DeliverStep
<1>4. ASSUME NEW g \in Gets, RemoveQueryListener(g) PROVE WatchInv'
  BY <1>4, RemoveStep
<1>5. CASE ConnectivityChanged
  BY <1>5, ConnectivityStep
<1>6. CASE DisableNetwork
  BY <1>6, DisableStep
<1>7. CASE EnableNetwork
  BY <1>7, EnableStep
<1>8. CASE TokenIgnored
  BY <1>8, TokenIgnoredStep
<1>9. CASE TokenReceived
  BY <1>9, TokenReceivedStep
<1>10. CASE TokenFailed
  BY <1>10, TokenFailedStep
<1>11. CASE BackoffTimer
  BY <1>11, BackoffStep
<1>12. CASE IdleTimer
  BY <1>12, IdleStep
<1>13. CASE OnlineStateTimer
  BY <1>13, OnlineTimerStep
<1>14. CASE StreamOpened
  BY <1>14, OpenedStep
<1>15. CASE TargetAcknowledged
  BY <1>15, AcknowledgedStep
<1>16. CASE TargetCurrent
  BY <1>16, CurrentStep
<1>17. CASE TargetRejected
  BY <1>17, RejectedStep
<1>18. CASE AttemptFails
  BY <1>18, AttemptFailsStep
<1>19. CASE CallBreaks
  BY <1>19, CallBreaksStep
<1>20. CASE ServerReads
  BY <1>20, ServerReadsStep
<1>21. ASSUME NEW d \in Docs, ServerCurrent(d) PROVE WatchInv'
  BY <1>21, ServerCurrentStep
<1>22. CASE WatchSnapshot
  BY <1>22, SnapshotStep
<1>23. CASE SnapshotIgnored
  BY <1>23, SnapshotIgnoredStep
<1>24. CASE ServerSnapshot
  BY <1>24, ServerSnapshotStep
<1>25. CASE UNCHANGED vars
  <2>1. get' = get /\ view' = view /\ store' = store /\ server' = server /\ calls' = calls
    BY <1>25 DEF vars
  <2>2. /\ StoreOK(store') /\ ServerOK(store', server') /\ server' \in ServerType
        /\ store'.targets = store.targets /\ store'.online = store.online
    BY <2>1, Typed DEF WatchInv
  <2> QED BY <2>1, <2>2, StoreOnly
<1> QED BY <1>1, <1>2, <1>3, <1>4, <1>5, <1>6, <1>7, <1>8, <1>9, <1>10, <1>11, <1>12,
           <1>13, <1>14, <1>15, <1>16, <1>17, <1>18, <1>19, <1>20, <1>21, <1>22, <1>23,
           <1>24, <1>25 DEF Next

\* The invariant holds throughout.
LEMMA Invariant ==
    Spec => []WatchInv
  BY InvInit, InvNext, PTL DEF Spec

\* Every variable of the read path keeps its type: no counter of the
\* aggregator goes below zero.
THEOREM WatchTypes ==
    Spec => []TypeOK
<1>1. WatchInv => TypeOK
  BY DEF WatchInv
<1> QED BY <1>1, Invariant, PTL

\* No HARD_ASSERT of stream.cc, remote_store.cc or online_state_tracker.cc
\* fails, however the network, the timers and the listeners interleave.
THEOREM WatchAssertsHold ==
    Spec => []NoAssertFails
<1>1. WatchInv => NoAssertFails
  BY DEF WatchInv, StoreOK, StreamOK, NoAssertFails
<1> QED BY <1>1, Invariant, PTL

\* The callback of getDocument runs at most once, although the worker queue
\* may raise another event before the listener is removed.
THEOREM CallbackOnce ==
    Spec => []AnsweredOnce
<1>1. WatchInv => AnsweredOnce
  BY DEF WatchInv, SlotOK, AnsweredOnce
<1> QED BY <1>1, Invariant, PTL

\* Targets of the remote store, views of the sync engine and listeners of the
\* event manager agree after every task of the worker queue.
THEOREM TargetsAgree ==
    Spec => []TargetsFollowListeners
<1>1. WatchInv => TargetsFollowListeners
  BY DEF WatchInv
<1> QED BY <1>1, Invariant, PTL

\* A listener that was told nothing has a view that is not in sync, and the
\* client has not given up on the server.
THEOREM WaitForServer ==
    Spec => []WaitersWait
<1>1. WatchInv => WaitersWait
  BY DEF WatchInv
<1> QED BY <1>1, Invariant, PTL

-----------------------------------------------------------------------------
(* What the server said of the present listens. *)

\* A CURRENT on its way that no acknowledgement of its target follows is about
\* the present listen, of which the server has said all.
Heard(in, known) ==
    \A i \in DOMAIN in :
        /\ in[i].kind = "current"
        /\ \A j \in DOMAIN in :
             j > i /\ in[j].doc = in[i].doc => in[j].kind \notin {"added", "removed"}
        => known[in[i].doc] = "current"

\* A target marked as current, and not by an earlier listen, is so at the
\* server, nothing else is due of it, and it is listened to.
Marked(agg, targets, known) ==
    \A d \in Docs : agg[d].current /\ ~agg[d].old =>
        known[d] = "current" /\ agg[d].pending = 0 /\ d \in targets

News == Heard(store.ws.in, server) /\ Marked(store.agg, store.targets, server)

NewsInv == WatchInv /\ News

\* What is on its way consists of responses.
LEMMA InOfStore ==
    ASSUME WatchInv
    PROVE  /\ store.ws.in \in Seq(Responses) /\ store \in StoreType
           /\ \A d \in Docs : server[d] # "off" => d \notin Denied
           /\ \A i \in DOMAIN store.ws.in :
                /\ store.ws.in[i].kind = "rejected" <=> store.ws.in[i].doc \in Denied
                /\ store.ws.in[i].kind # "snapshot" => store.ws.in[i].doc \in Docs
<1> DEFINE v == store.ws.in
<1>1. v \in Seq(Responses) /\ store \in StoreType
  BY DEF WatchInv, StoreOK, StreamOK, WatchStream, StreamType
<1>2. /\ \A i \in DOMAIN v : (v[i].kind = "rejected" <=> v[i].doc \in Denied)
      /\ \A d \in Docs : server[d] # "off" => d \notin Denied
  BY DEF WatchInv, ServerOK
<1> HIDE DEF v
<1>3. \A i \in DOMAIN v : v[i] \in Responses
  BY <1>1
<1>4. \A i \in DOMAIN v : v[i].kind # "snapshot" => v[i].doc \in Docs
  BY <1>3 DEF Responses, Message, Snapshot
<1> QED BY <1>1, <1>2, <1>4 DEF v

\* Without an open call nothing is on its way and no target is current.
LEMMA NewsGone ==
    ASSUME WatchInv', ~IsOpen(store'.ws)
    PROVE  News'
<1>1. store'.ws.in = <<>> /\ Unheard(store'.agg)
  BY DEF WatchInv, StoreOK, StreamOK, WatchNeeded
<1>2. Heard(store'.ws.in, server') /\ Marked(store'.agg, store'.targets, server')
  BY <1>1 DEF Heard, Marked, Unheard
<1> QED BY <1>2 DEF News

\* Nothing was said.
LEMMA NewsSame ==
    ASSUME News, SaysNothing
    PROVE  News'
  BY DEF News, SaysNothing

\* Reading the first response takes nothing from what is heard.
LEMMA HeardTail ==
    ASSUME NEW T, NEW in \in Seq(T), in # <<>>, NEW known, Heard(in, known)
    PROVE  Heard(Tail(in), known)
<1> DEFINE n == Len(in)
           s == Tail(in)
<1>1. /\ n \in Nat \ {0} /\ DOMAIN in = 1..n /\ DOMAIN s = 1..(n - 1)
      /\ \A i \in 1..(n - 1) : s[i] = in[i + 1]
  OBVIOUS
<1> HIDE DEF n, s
<1> SUFFICES ASSUME NEW i \in DOMAIN s, s[i].kind = "current",
                    \A j \in DOMAIN s :
                      j > i /\ s[j].doc = s[i].doc => s[j].kind \notin {"added", "removed"}
             PROVE  known[s[i].doc] = "current"
  BY DEF Heard, s
<1>2. i + 1 \in DOMAIN in /\ in[i + 1] = s[i]
  BY <1>1
<1>3. \A j \in DOMAIN in : j > i + 1 => j - 1 \in DOMAIN s /\ j - 1 > i /\ in[j] = s[j - 1]
  BY <1>1
<1>4. \A j \in DOMAIN in :
        j > i + 1 /\ in[j].doc = in[i + 1].doc => in[j].kind \notin {"added", "removed"}
  BY <1>2, <1>3
<1> QED BY <1>2, <1>4 DEF Heard

\* One more message: it silences what was said before of its target if it is an
\* acknowledgement, and is true itself if it is a CURRENT.
LEMMA HeardAppend ==
    ASSUME NEW T, NEW in \in Seq(T), NEW m \in T, NEW known, NEW after, Heard(in, known),
           m.kind = "current" => after[m.doc] = "current",
           \A i \in DOMAIN in : /\ in[i].kind = "current" /\ known[in[i].doc] = "current"
                                => \/ after[in[i].doc] = "current"
                                   \/ m.doc = in[i].doc /\ m.kind \in {"added", "removed"}
    PROVE  Heard(Append(in, m), after)
<1> DEFINE n == Len(in)
           s == Append(in, m)
<1>1. /\ n \in Nat /\ DOMAIN in = 1..n /\ DOMAIN s = 1..(n + 1)
      /\ s[n + 1] = m /\ \A i \in 1..n : s[i] = in[i]
  OBVIOUS
<1> HIDE DEF n, s
<1> SUFFICES ASSUME NEW i \in DOMAIN s, s[i].kind = "current",
                    \A j \in DOMAIN s :
                      j > i /\ s[j].doc = s[i].doc => s[j].kind \notin {"added", "removed"}
             PROVE  after[s[i].doc] = "current"
  BY DEF Heard, s
<1>2. CASE i = n + 1
  BY <1>1, <1>2
<1>3. CASE i \in 1..n
  <2>1. s[i] = in[i] /\ i \in DOMAIN in
    BY <1>1, <1>3
  <2>2. \A j \in DOMAIN in : j \in DOMAIN s /\ s[j] = in[j]
    BY <1>1
  <2>3. known[in[i].doc] = "current"
    BY <2>1, <2>2 DEF Heard
  <2>4. n + 1 \in DOMAIN s /\ n + 1 > i
    BY <1>1, <1>3
  <2>5. ~(m.doc = in[i].doc /\ m.kind \in {"added", "removed"})
    BY <1>1, <2>1, <2>4
  <2> QED BY <2>1, <2>3, <2>5
<1> QED BY <1>1, <1>2, <1>3

\* After a read it is enough to look at the targets.
LEMMA NewsRead ==
    ASSUME NewsInv, ReadOne, Marked(store'.agg, store'.targets, server)
    PROVE  News'
<1> DEFINE v == store.ws.in
           known == server
<1>1. v \in Seq(Responses) /\ v # <<>> /\ Heard(v, known)
  BY InOfStore DEF NewsInv, News, ReadOne
<1> HIDE DEF v, known
<1>2. Heard(Tail(v), known)
  BY <1>1, HeardTail
<1>3. Heard(store'.ws.in, server') /\ Marked(store'.agg, store'.targets, server')
  BY <1>2 DEF ReadOne, v, known
<1> QED BY <1>3 DEF News

-----------------------------------------------------------------------------
(* The steps that say, read or ask for something. *)

\* A new listen: of its target nothing is marked but by an earlier one.
LEMMA AddNews ==
    ASSUME NewsInv, NEW g \in Gets, AddQueryListener(g)
    PROVE  News'
<1> DEFINE d == get[g].doc
           r == Listen(store, d)
<1>1. WatchInv' /\ WatchInv
  BY AddStep DEF NewsInv
<1>2. CASE view[d] = "none"
  <2>1. store' = r /\ server' = server /\ get[g].caller = "called"
    BY <1>2 DEF AddQueryListener, Handled
  <2>2. d \in Docs
    BY <1>1, <2>1 DEF WatchInv, SlotOK
  <2>3. d \notin store.targets
    BY <1>1, <1>2 DEF WatchInv, TargetsFollowListeners
  <2>4. /\ r.targets = store.targets \cup {d}
        /\ IsOpen(r.ws) => r.ws.in = store.ws.in /\ Sent(store.agg, r.agg, "watch", d)
    BY <1>1, <2>2, <2>3, ListenOK DEF WatchInv
  <2> HIDE DEF r, d
  <2>5. CASE ~IsOpen(r.ws)
    BY <1>1, <2>1, <2>5, NewsGone
  <2>6. CASE IsOpen(r.ws)
    <3>1. Marked(store.agg, store.targets, server) /\ Heard(store.ws.in, server)
      BY DEF NewsInv, News
    <3>2. Marked(r.agg, r.targets, server)
      BY <2>2, <2>3, <2>4, <2>6, <3>1 DEF Marked, Sent
    <3> QED BY <2>1, <2>4, <2>6, <3>1, <3>2 DEF News
  <2> QED BY <2>5, <2>6
<1>3. CASE view[d] # "none"
  <2>1. store' = store /\ server' = server
    BY <1>3 DEF AddQueryListener, Handled
  <2> QED BY <2>1 DEF NewsInv, News
<1> QED BY <1>2, <1>3

\* A stop: a flag that is set is an old one from now on.
LEMMA RemoveNews ==
    ASSUME NewsInv, NEW g \in Gets, RemoveQueryListener(g)
    PROVE  News'
<1> DEFINE d == get[g].doc
           r == StopListening(store, d)
<1>1. WatchInv' /\ WatchInv
  BY RemoveStep DEF NewsInv
<1>2. server' = server /\ (store' = store \/ (store' = r /\ get[g].listed))
  BY DEF RemoveQueryListener, Handled
<1>3. CASE store' = store
  BY <1>2, <1>3 DEF NewsInv, News
<1>4. CASE store' = r /\ get[g].listed
  <2>1. d \in store.targets /\ d \in Docs
    BY <1>1, <1>4 DEF WatchInv, TargetsFollowListeners
  <2>2. /\ r.targets = store.targets \ {d}
        /\ IsOpen(r.ws) => r.ws.in = store.ws.in /\ Sent(store.agg, r.agg, "unwatch", d)
    BY <1>1, <2>1, StopListeningOK DEF WatchInv
  <2> HIDE DEF r, d
  <2>3. CASE ~IsOpen(r.ws)
    BY <1>1, <1>4, <2>3, NewsGone
  <2>4. CASE IsOpen(r.ws)
    <3>1. Marked(store.agg, store.targets, server) /\ Heard(store.ws.in, server)
      BY DEF NewsInv, News
    <3>2. Marked(r.agg, r.targets, server)
      BY <2>1, <2>2, <2>4, <3>1 DEF Marked, Sent
    <3> QED BY <1>2, <1>4, <2>2, <2>4, <3>1, <3>2 DEF News
  <2> QED BY <2>3, <2>4
<1> QED BY <1>2, <1>3, <1>4

\* The stream opens: no target is current yet.
LEMMA OpenedNews ==
    ASSUME NewsInv, StreamOpened
    PROVE  News'
<1>1. store'.ws.in = <<>> /\ \A d \in Docs : ~store'.agg[d].current
  BY OpenedStep DEF NewsInv
<1>2. Heard(store'.ws.in, server') /\ Marked(store'.agg, store'.targets, server')
  BY <1>1 DEF Heard, Marked
<1> QED BY <1>2 DEF News

\* An acknowledgement is read: it was due, so its target was not marked by the
\* present listen.
LEMMA AcknowledgedNews ==
    ASSUME NewsInv, TargetAcknowledged
    PROVE  News'
<1> DEFINE d == Head(store.ws.in).doc
<1>1. /\ ReadOne /\ store'.targets = store.targets
      /\ store.agg[d].pending > 0
      /\ store'.agg[d].current => store.agg[d].current /\ store'.agg[d].old = store.agg[d].old
      /\ \A e \in Docs : e # d => store'.agg[e] = store.agg[e]
  BY AcknowledgedStep DEF NewsInv
<1>2. Marked(store.agg, store.targets, server)
  BY DEF NewsInv, News
<1> HIDE DEF d
<1>3. Marked(store'.agg, store'.targets, server)
  BY <1>1, <1>2 DEF Marked
<1> QED BY <1>1, <1>3, NewsRead

\* A CURRENT is read: an active target is due no acknowledgement, so that it is
\* about the present listen.
LEMMA CurrentNews ==
    ASSUME NewsInv, TargetCurrent
    PROVE  News'
<1> DEFINE v == store.ws.in
           d == Head(v).doc
<1>1. /\ ReadOne /\ store'.targets = store.targets
      /\ d \in Docs /\ d \notin Denied /\ Head(v).kind = "current"
      /\ store'.agg[d].pending = store.agg[d].pending
      /\ IsActiveTarget(store, d) \/ store'.agg[d] = store.agg[d]
      /\ \A e \in Docs : e # d => store'.agg[e] = store.agg[e]
  BY CurrentStep DEF NewsInv
<1>2. Marked(store.agg, store.targets, server) /\ Heard(v, server) /\ WatchInv
  BY DEF NewsInv, News
<1>3. v \in Seq(Responses) /\ v # <<>>
  BY <1>1, <1>2, InOfStore DEF ReadOne
<1>4. IsActiveTarget(store, d) => server[d] = "current"
  <2> SUFFICES ASSUME IsActiveTarget(store, d) PROVE server[d] = "current"
    OBVIOUS
  <2>1. store.agg[d].pending = 0 /\ IsOpen(store.ws)
    BY <1>1, <1>2 DEF IsActiveTarget, WatchInv, StoreOK, StreamOK, ReadOne
  <2> DEFINE out == store.ws.out
             A == About(v, d, {"added", "removed"})
             B == About(out, d, {"watch", "unwatch"})
  <2>2. out \in Seq(Requests)
    BY <1>2 DEF WatchInv, StoreOK, StreamOK, WatchStream, StreamType
  <2>3. store.agg[d].pending = Cardinality(B) + Cardinality(A)
    BY <1>1, <1>2, <2>1 DEF WatchInv, ServerOK, CountsDue
  <2> HIDE DEF out, v
  <2>4. IsFiniteSet(A) /\ Cardinality(A) \in Nat /\ Cardinality(B) \in Nat
    BY <1>3, <2>2, AboutFinite
  <2>5. A = {}
    <3> HIDE DEF A, B
    <3>1. Cardinality(A) = 0
      BY <2>1, <2>3, <2>4
    <3> QED BY <2>4, <3>1, FS_EmptySet
  <2>6. Head(v) = v[1] /\ 1 \in DOMAIN v
    BY <1>3
  <2>7. \A j \in DOMAIN v : v[j].doc = d => v[j].kind \notin {"added", "removed"}
    BY <2>5 DEF About
  <2> QED BY <1>1, <1>2, <2>6, <2>7 DEF Heard
<1> HIDE DEF d
<1>5. Marked(store'.agg, store'.targets, server)
  BY <1>1, <1>2, <1>4 DEF Marked, IsActiveTarget
<1> QED BY <1>1, <1>5, NewsRead

\* A refusal is read: the server never had the target on.
LEMMA RejectedNews ==
    ASSUME NewsInv, TargetRejected
    PROVE  News'
<1> DEFINE d == Head(store.ws.in).doc
<1>1. /\ ReadOne /\ store.targets \ {d} \subseteq store'.targets /\ d \in Denied
      /\ ~store'.agg[d].current \/ store'.agg[d] = store.agg[d]
      /\ \A e \in Docs : e # d => store'.agg[e] = store.agg[e]
  BY RejectedStep DEF NewsInv
<1>2. /\ Marked(store.agg, store.targets, server)
      /\ \A e \in Docs : server[e] # "off" => e \notin Denied
  BY InOfStore DEF NewsInv, News
<1> HIDE DEF d
<1>3. Marked(store'.agg, store'.targets, server)
  BY <1>1, <1>2 DEF Marked
<1> QED BY <1>1, <1>3, NewsRead

\* A snapshot is read: it marks nothing.
LEMMA SnapshotNews ==
    ASSUME NewsInv, WatchSnapshot \/ SnapshotIgnored
    PROVE  News'
<1>1. ReadOne /\ store'.targets = store.targets /\ store'.agg = store.agg
  BY SnapshotStep, SnapshotIgnoredStep DEF NewsInv
<1>2. Marked(store.agg, store.targets, server)
  BY DEF NewsInv, News
<1> QED BY <1>1, <1>2, NewsRead

\* The server reads a request: the target it is about is due an answer, so it
\* is not marked, and the answer silences what was said before of it.
LEMMA ServerReadsNews ==
    ASSUME NewsInv, ServerReads
    PROVE  News'
<1>1. PICK d \in Docs, after \in Seq(Responses) : ServerSent(after) /\ Answered(d, after)
  BY ServerReadsStep DEF NewsInv
<1> DEFINE v == store.ws.in
<1>2. Marked(store.agg, store.targets, server) /\ Heard(v, server)
  BY DEF NewsInv, News
<1>3. /\ v \in Seq(Responses)
      /\ \A e \in Docs : server[e] # "off" => e \notin Denied
      /\ \A i \in DOMAIN v : v[i].kind = "current" => v[i].doc \in Docs /\ v[i].doc \notin Denied
  BY InOfStore DEF NewsInv
<1>4. /\ \A e \in Docs : e # d => server'[e] = server[e]
      /\ d \in Denied \/ store.agg[d].pending > 0
  BY <1>1 DEF Answered
<1>5. Marked(store.agg, store.targets, server')
  BY <1>2, <1>3, <1>4 DEF Marked
<1>6. Heard(after, server')
  <2>1. CASE d \in Denied /\ after = v
    BY <1>2, <1>3, <1>4, <2>1 DEF Heard
  <2>2. ASSUME NEW a \in Responses, after = Append(v, a), a.doc = d,
               IF d \in Denied THEN a.kind = "rejected" ELSE a.kind \in {"added", "removed"}
        PROVE  Heard(after, server')
    <3> DEFINE known == server
               now == server'
    <3>1. a.kind # "current"
      BY <2>2
    <3>2. \A i \in DOMAIN v : v[i].kind = "current" /\ known[v[i].doc] = "current"
                              => \/ now[v[i].doc] = "current"
                                 \/ a.doc = v[i].doc /\ a.kind \in {"added", "removed"}
      BY <1>3, <1>4, <2>2
    <3>3. Heard(v, known)
      BY <1>2
    <3> HIDE DEF known, now, v
    <3>4. Heard(Append(v, a), now)
      BY <1>3, <3>1, <3>2, <3>3, HeardAppend
    <3> QED BY <2>2, <3>4 DEF now
  <2> QED BY <1>1, <2>1, <2>2 DEF Answered
<1>7. Heard(store'.ws.in, server') /\ Marked(store'.agg, store'.targets, server')
  BY <1>1, <1>5, <1>6 DEF ServerSent
<1> QED BY <1>7 DEF News

\* The server sends a CURRENT.
LEMMA ServerCurrentNews ==
    ASSUME NewsInv, NEW d \in Docs, ServerCurrent(d)
    PROVE  News'
<1> DEFINE v == store.ws.in
           m == [kind |-> "current", doc |-> d]
           known == server
           now == server'
<1>1. ServerSent(Append(v, m))
  BY ServerCurrentStep DEF NewsInv
<1>2. Marked(store.agg, store.targets, known) /\ Heard(v, known)
  BY DEF NewsInv, News
<1>3. v \in Seq(Responses) /\ \A i \in DOMAIN v : v[i].kind = "current" => v[i].doc \in Docs
  BY InOfStore DEF NewsInv
<1>4. \A e \in Docs : now[e] = IF e = d THEN "current" ELSE known[e]
  BY Typed DEF ServerCurrent, NewsInv, WatchInv, ServerType
<1>5. m \in Responses /\ m.doc = d
  BY DEF Responses, Message
<1> HIDE DEF v, m, known, now
<1>6. Heard(Append(v, m), now)
  <2>1. now[m.doc] = "current"
    BY <1>4, <1>5
  <2>2. \A i \in DOMAIN v : v[i].kind = "current" /\ known[v[i].doc] = "current"
                            => now[v[i].doc] = "current"
    BY <1>3, <1>4
  <2> QED BY <1>2, <1>3, <1>5, <2>1, <2>2, HeardAppend
<1>7. Marked(store.agg, store.targets, now)
  BY <1>2, <1>4 DEF Marked
<1>8. Heard(store'.ws.in, server') /\ Marked(store'.agg, store'.targets, server')
  BY <1>1, <1>6, <1>7 DEF ServerSent, now
<1> QED BY <1>8 DEF News

\* The server sends a snapshot.
LEMMA ServerSnapshotNews ==
    ASSUME NewsInv, ServerSnapshot
    PROVE  News'
<1> DEFINE v == store.ws.in
           known == server
<1>1. ServerSent(Append(v, Snapshot)) /\ server' = known
  BY ServerSnapshotStep DEF NewsInv
<1>2. Marked(store.agg, store.targets, known) /\ Heard(v, known)
  BY DEF NewsInv, News
<1>3. v \in Seq(Responses)
  BY InOfStore DEF NewsInv
<1>4. Snapshot \in Responses /\ Snapshot.kind # "current"
  BY DEF Responses, Snapshot
<1> HIDE DEF v, known
<1>5. Heard(Append(v, Snapshot), known)
  BY <1>2, <1>3, <1>4, HeardAppend
<1>6. Heard(store'.ws.in, server') /\ Marked(store'.agg, store'.targets, server')
  BY <1>1, <1>2, <1>5 DEF ServerSent
<1> QED BY <1>6 DEF News

\* Every step keeps it.
LEMMA NewsNext ==
    NewsInv /\ [Next]_vars => NewsInv'
<1> SUFFICES ASSUME NewsInv, [Next]_vars PROVE NewsInv'
  OBVIOUS
<1>1. WatchInv /\ WatchInv' /\ News
  BY InvNext DEF NewsInv
<1> SUFFICES News'
  BY <1>1 DEF NewsInv
<1>2. ASSUME store' = store, server' = server PROVE News'
  BY <1>1, <1>2 DEF News
<1>3. ASSUME NEW g \in Gets, NEW d \in Docs, GetDocument(g, d) PROVE News'
  BY <1>2, <1>3 DEF GetDocument
<1>4. ASSUME NEW g \in Gets, AddQueryListener(g) PROVE News'
  BY <1>4, AddNews
<1>5. ASSUME NEW g \in Gets, DeliverEvent(g) PROVE News'
  BY <1>2, <1>5 DEF DeliverEvent
<1>6. ASSUME NEW g \in Gets, RemoveQueryListener(g) PROVE News'
  BY <1>6, RemoveNews
<1>7. CASE ConnectivityChanged \/ DisableNetwork \/ EnableNetwork
  BY <1>1, <1>7, ConnectivityStep, DisableStep, EnableStep, NewsGone
<1>8. CASE IdleTimer \/ TokenFailed \/ AttemptFails \/ CallBreaks
  BY <1>1, <1>8, IdleStep, TokenFailedStep, AttemptFailsStep, CallBreaksStep, NewsGone
<1>9. CASE TokenIgnored \/ TokenReceived \/ BackoffTimer \/ OnlineStateTimer
  BY <1>1, <1>9, TokenIgnoredStep, TokenReceivedStep, BackoffStep, OnlineTimerStep, NewsSame
<1>10. CASE StreamOpened
  BY <1>10, OpenedNews
<1>11. CASE TargetAcknowledged
  BY <1>11, AcknowledgedNews
<1>12. CASE TargetCurrent
  BY <1>12, CurrentNews
<1>13. CASE TargetRejected
  BY <1>13, RejectedNews
<1>14. CASE WatchSnapshot \/ SnapshotIgnored
  BY <1>14, SnapshotNews
<1>15. CASE ServerReads
  BY <1>15, ServerReadsNews
<1>16. ASSUME NEW d \in Docs, ServerCurrent(d) PROVE News'
  BY <1>16, ServerCurrentNews
<1>17. CASE ServerSnapshot
  BY <1>17, ServerSnapshotNews
<1>18. CASE UNCHANGED vars
  BY <1>2, <1>18 DEF vars
<1> QED BY <1>3, <1>4, <1>5, <1>6, <1>7, <1>8, <1>9, <1>10, <1>11, <1>12, <1>13, <1>14,
           <1>15, <1>16, <1>17, <1>18 DEF Next

\* A task brings no view in sync that its handler did not.
LEMMA SeenSynced ==
    ASSUME NEW r, NEW gets, NEW v, Handled(r, gets, v), NEW d \in Docs, view'[d] = "synced"
    PROVE  v[d] = "synced"
  BY DEF Handled, Seen

\* Only a snapshot brings a view in sync, and only of a target that is marked.
LEMMA SyncedBySnapshot ==
    ASSUME NewsInv, Next, NEW d \in Docs, view[d] # "synced", view'[d] = "synced"
    PROVE  store.agg[d].current /\ IsActiveTarget(store, d)
<1>0. view \in ViewType
  BY Typed DEF NewsInv, WatchInv
<1>1. ASSUME view' = view PROVE FALSE
  BY <1>1
<1>2. ASSUME NEW r, NEW gets, Handled(r, gets, view) PROVE FALSE
  BY <1>2, SeenSynced
<1>3. ASSUME NEW r, NEW gets, NEW e, NEW x \in {"none", "local"},
             Handled(r, gets, [view EXCEPT ![e] = x])
      PROVE  FALSE
  <2>1. [view EXCEPT ![e] = x][d] = "synced"
    BY <1>3, SeenSynced
  <2>2. DOMAIN view = Docs
    BY <1>0 DEF ViewType
  <2>3. CASE d = e
    BY <2>1, <2>2, <2>3
  <2>4. CASE d # e
    BY Zenon, <2>1, <2>2, <2>4
  <2> QED BY <2>3, <2>4
<1>4. ASSUME NEW g \in Gets, NEW e \in Docs, GetDocument(g, e) PROVE FALSE
  BY <1>1, <1>4 DEF GetDocument
<1>5. ASSUME NEW g \in Gets, AddQueryListener(g) PROVE FALSE
  BY <1>2, <1>3, <1>5 DEF AddQueryListener
<1>6. ASSUME NEW g \in Gets, DeliverEvent(g) PROVE FALSE
  BY <1>1, <1>6 DEF DeliverEvent
<1>7. ASSUME NEW g \in Gets, RemoveQueryListener(g) PROVE FALSE
  BY <1>2, <1>3, <1>7 DEF RemoveQueryListener
<1>8. CASE ConnectivityChanged \/ DisableNetwork \/ EnableNetwork \/ IdleTimer
  BY <1>2, <1>8 DEF ConnectivityChanged, DisableNetwork, EnableNetwork, IdleTimer
<1>9. CASE TokenFailed \/ AttemptFails \/ CallBreaks
  BY <1>2, <1>9 DEF TokenFailed, AttemptFails, CallBreaks, Closed
<1>10. CASE TokenIgnored \/ TokenReceived \/ BackoffTimer \/ StreamOpened
  BY <1>1, <1>10 DEF TokenIgnored, TokenReceived, BackoffTimer, Stepped, StreamOpened
<1>11. CASE OnlineStateTimer
  BY <1>2, <1>11 DEF OnlineStateTimer
<1>12. CASE TargetAcknowledged \/ TargetCurrent \/ SnapshotIgnored
  BY <1>2, <1>12 DEF TargetAcknowledged, TargetCurrent, SnapshotIgnored
<1>13. CASE TargetRejected
  BY <1>2, <1>3, <1>13 DEF TargetRejected
<1>14. CASE WatchSnapshot
  <2> DEFINE v == [e \in Docs |-> IF ~IsActiveTarget(store, e) THEN view[e]
                                  ELSE IF store.agg[e].current THEN "synced" ELSE "local"]
  <2>1. Handled(Read(store), get, v)
    BY <1>14 DEF WatchSnapshot
  <2>2. v[d] = "synced"
    BY <2>1, SeenSynced
  <2> QED BY <2>2
<1>15. CASE ServerReads \/ ServerSnapshot
  BY <1>1, <1>15 DEF ServerReads, ServerSnapshot
<1>16. ASSUME NEW e \in Docs, ServerCurrent(e) PROVE FALSE
  BY <1>1, <1>16 DEF ServerCurrent
<1> QED BY <1>4, <1>5, <1>6, <1>7, <1>8, <1>9, <1>10, <1>11, <1>12, <1>13, <1>14, <1>15,
           <1>16 DEF Next

\* A view comes in sync only on what the server said of the present listen, or
\* by a flag that the last stop of the listen found set: a CURRENT of an earlier
\* listen that is read late brings no view in sync.
THEOREM SyncedByNews ==
    Spec => SyncedIsNews
<1>1. Init => NewsInv
  <2> SUFFICES ASSUME Init PROVE NewsInv
    OBVIOUS
  <2>1. store.ws.in = <<>> /\ Unheard(store.agg)
    <3>1. store = NewStore /\ NewStream.in = <<>>
      BY DEF Init, NewStream
    <3> QED BY <3>1, NoAggregatorOK DEF NewStore
  <2>2. Heard(store.ws.in, server) /\ Marked(store.agg, store.targets, server)
    BY <2>1 DEF Heard, Marked, Unheard
  <2> QED BY <2>2, InvInit DEF NewsInv, News
<1> DEFINE Step == \A d \in Docs : view[d] # "synced" /\ view'[d] = "synced" =>
                     server[d] = "current" \/ store.agg[d].old
<1>2. NewsInv /\ Next => Step
  <2> SUFFICES ASSUME NewsInv, Next, NEW d \in Docs, view[d] # "synced", view'[d] = "synced"
               PROVE  server[d] = "current" \/ store.agg[d].old
    OBVIOUS
  <2>1. store.agg[d].current
    BY SyncedBySnapshot
  <2>2. Marked(store.agg, store.targets, server)
    BY DEF NewsInv, News
  <2> QED BY <2>1, <2>2 DEF Marked
<1>3. NewsInv /\ [Next]_vars => [Step]_vars
  BY <1>2
<1>4. Spec => [][Step]_vars
  <2> HIDE DEF Step
  <2> QED BY <1>1, <1>3, NewsNext, PTL DEF Spec
<1> QED BY <1>4, PTL DEF SyncedIsNews

=============================================================================
