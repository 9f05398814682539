------------------------- MODULE ScoreSyncKept_proofs -------------------------
(***************************************************************************)
(* Where nothing is lost: when every account is used on one device, with   *)
(* one read in flight, what was reported as saved stays.                   *)
(***************************************************************************)
EXTENDS ScoreSync_proofs

-----------------------------------------------------------------------------
(* Consequences of the invariant on one device. *)

\* The active outbox is that of the stored uid and holds writes for it.
LEMMA HomeFacts ==
    ASSUME TypeOK, OneHome, NEW d \in Devices
    PROVE  /\ Outbox(d) = queue[d][userUID[d]]
           /\ Outbox(d) \in Seq(Write)
           /\ DOMAIN Outbox(d) = 1..Len(Outbox(d))
           /\ Len(Outbox(d)) \in Nat
           /\ applied[d] \in Nat /\ applied[d] <= Len(Outbox(d))
           /\ userUID[d] \in Owners
           /\ Outbox(d) # <<>> => userUID[d] \in Uids
           /\ \A i \in DOMAIN Outbox(d) : Outbox(d)[i] \in Write /\ Outbox(d)[i].uid = userUID[d]
<1>1. userUID[d] \in Owners /\ auth[d] = userUID[d]
  BY DEF OneHome, TypeOK, Types
<1>2. Outbox(d) = queue[d][userUID[d]] /\ Outbox(d) \in Seq(Write)
  BY <1>1 DEF Outbox, TypeOK, Types
<1>3. Outbox(d) # <<>> => userUID[d] \in Uids
  BY <1>1, <1>2 DEF OneHome, Owners
<1>4. applied[d] \in Nat /\ applied[d] <= Len(Outbox(d))
  BY DEF TypeOK, Types, Outbox
<1>5. \A i \in DOMAIN Outbox(d) : Outbox(d)[i].uid = userUID[d]
  BY DEF OneHome
<1> QED BY <1>1, <1>2, <1>3, <1>4, <1>5

-----------------------------------------------------------------------------
(* The invariant is preserved. *)

\* Steps that leave outboxes, cache and server alone: they may reset the
\* stream, drop calls and start new ones.
LEMMA KeptCalls ==
    ASSUME TypeOK, KeptInv,
           UNCHANGED <<userUID, auth, queue, cached, scores, confirmed>>,
           \A d \in Devices : applied'[d] = applied[d] \/ applied'[d] = 0,
           \A d \in Devices, c \in Calls :
             \/ call'[d][c] = call[d][c]
             \/ call'[d][c] = NoCall
             \/ call'[d][c].phase = "waiting" /\ call'[d][c].uid = userUID[d]
    PROVE  KeptInv'
<1>1. OneHome'
  BY DEF KeptInv, OneHome, Outbox
<1>2. SetIsFirst' /\ CacheKnows' /\ ConfirmedKept'
  <2>1. SetIsFirst'
    BY DEF KeptInv, SetIsFirst, Outbox
  <2>2. CacheKnows'
    BY DEF KeptInv, CacheKnows, Outbox
  <2>3. ConfirmedKept'
    BY DEF KeptInv, ConfirmedKept
  <2> QED BY <2>1, <2>2, <2>3
<1>3. AnswerFresh'
  <2> SUFFICES ASSUME NEW d \in Devices, NEW c \in Calls
               PROVE  (/\ call[d][c].phase = "missing" => Outbox(d) = <<>> /\ scores[call[d][c].uid] = <<>>
                       /\ call[d][c].phase = "found" => ExistsOffline(d, call[d][c].uid))'
    BY DEF AnswerFresh
  <2>1. CASE call'[d][c] = call[d][c]
    BY <2>1 DEF KeptInv, AnswerFresh, ExistsOffline, SetPending, Outbox
  <2>2. CASE call'[d][c] # call[d][c]
    <3>1. call'[d][c].phase \notin {"missing", "found"}
      BY <2>2 DEF NoCall
    <3> QED BY <3>1
  <2> QED BY <2>1, <2>2
<1>4. AppliedThere'
  <2> SUFFICES ASSUME NEW d \in Devices, NEW i \in 1..applied'[d]
               PROVE  (Outbox(d)[i].sticker \in Elems(scores[Outbox(d)[i].uid]))'
    BY DEF AppliedThere
  <2>1. applied[d] \in Nat
    BY DEF TypeOK, Types
  <2>2. applied'[d] = applied[d]
    BY <2>1
  <2> QED BY <2>2 DEF KeptInv, AppliedThere, Outbox, Elems
<1> QED BY <1>1, <1>2, <1>3, <1>4 DEF KeptInv

\* A read answers truly: if it finds no document there is none, neither on
\* the server nor in the outbox; if it finds one the device can see it.
LEMMA ReadFacts ==
    ASSUME TypeOK, KeptInv, NEW d \in Devices, userUID[d] \in Uids
    PROVE  LET u == userUID[d]
           IN  /\ ~ExistsOnline(d, u) => Outbox(d) = <<>> /\ scores[u] = <<>>
               /\ ~ExistsOffline(d, u) => Outbox(d) = <<>> /\ scores[u] = <<>>
               /\ ExistsOnline(d, u) => scores[u] # <<>> \/ ExistsOffline(d, u)
<1> DEFINE u == userUID[d]
           q == Outbox(d)
<1>1. q \in Seq(Write) /\ \A i \in DOMAIN q : q[i] \in Write /\ q[i].uid = u
  BY HomeFacts DEF KeptInv
<1>2. q # <<>> => 1 \in DOMAIN q /\ q[1].op \in {"set", "union"}
  BY <1>1 DEF Write
<1>3. q # <<>> /\ q[1].op = "set" => SetPending(d, u)
  BY <1>1, <1>2 DEF SetPending
<1>4. q # <<>> /\ q[1].op = "union" => u \in cached[d] /\ scores[u] # <<>>
  BY DEF KeptInv, CacheKnows
<1>5. q = <<>> /\ scores[u] # <<>> => u \in cached[d]
  BY DEF KeptInv, CacheKnows
<1>6. u \in cached[d] => scores[u] # <<>>
  BY DEF KeptInv, CacheKnows
<1> QED BY <1>2, <1>3, <1>4, <1>5, <1>6 DEF ExistsOnline, ExistsOffline

\* Completing a read.
LEMMA KeptReads ==
    ASSUME TypeOK, KeptInv, NEW d \in Devices, NEW c \in Calls,
           GetOnline(d, c) \/ GetOffline(d, c)
    PROVE  KeptInv'
<1> DEFINE u == userUID[d]
<1>1. UNCHANGED <<userUID, auth, queue, applied, scores, confirmed>>
  BY DEF GetOnline, GetOffline, session, firestore
<1>2. call[d][c] \in Call /\ call[d][c].phase = "waiting"
  BY DEF GetOnline, GetOffline, TypeOK, Types
<1>3. call[d][c] # NoCall
  BY <1>2 DEF NoCall
<1>4. call[d][c].uid = u /\ u \in Uids
  BY <1>2, <1>3, BusyCallType DEF KeptInv, OneHome
<1>5. PICK found \in BOOLEAN : 
        /\ Completed(d, c, found)
        /\ \/ GetOnline(d, c) /\ found = ExistsOnline(d, u)
           \/ GetOffline(d, c) /\ found = ExistsOffline(d, u)
  <2>1. CASE GetOnline(d, c)
    <3>1. Completed(d, c, ExistsOnline(d, u))
      BY <1>4, <2>1 DEF GetOnline
    <3>2. ExistsOnline(d, u) \in BOOLEAN
      BY DEF ExistsOnline, SetPending
    <3> QED BY <2>1, <3>1, <3>2
  <2>2. CASE GetOffline(d, c)
    <3>1. Completed(d, c, ExistsOffline(d, u))
      BY <1>4, <2>2 DEF GetOffline
    <3>2. ExistsOffline(d, u) \in BOOLEAN
      BY DEF ExistsOffline, SetPending
    <3> QED BY <2>2, <3>1, <3>2
  <2> QED BY <2>1, <2>2
<1>6. /\ call'[d][c].uid = u
      /\ call'[d][c].phase = IF found THEN "found" ELSE "missing"
      /\ \A e \in Devices, k \in Calls : ~(e = d /\ k = c) => call'[e][k] = call[e][k]
  <2>1. call'[d][c] = [call[d][c] EXCEPT !.phase = IF found THEN "found" ELSE "missing"]
    BY <1>5 DEF Completed, TypeOK, Types
  <2>2. \A e \in Devices, k \in Calls : ~(e = d /\ k = c) => call'[e][k] = call[e][k]
    BY <1>5 DEF Completed, TypeOK, Types
  <2> QED BY <1>2, <1>4, <2>1, <2>2 DEF Call, NoCall
<1>7. /\ \A e \in Devices : cached[e] \subseteq cached'[e]
      /\ \A e \in Devices : \A v \in cached'[e] : v \in cached[e] \/ (v = u /\ scores[u] # <<>> /\ e = d)
      /\ GetOnline(d, c) /\ scores[u] # <<>> => u \in cached'[d]
  <2>1. CASE cached' = cached
    <3>1. GetOnline(d, c) /\ scores[u] # <<>> => u \in cached'[d]
      BY <1>4, <2>1 DEF GetOnline, TypeOK, Types
    <3> QED BY <2>1, <3>1
  <2>2. CASE scores[u] # <<>> /\ cached' = [cached EXCEPT ![d] = @ \cup {u}]
    BY <2>2 DEF TypeOK, Types
  <2>3. cached' = cached \/ (scores[u] # <<>> /\ cached' = [cached EXCEPT ![d] = @ \cup {u}])
    BY <1>4 DEF GetOnline, GetOffline, firestore
  <2> QED BY <2>1, <2>2, <2>3
<1>8. OneHome'
  <2>1. \A e \in Devices, k \in Calls : call'[e][k] # NoCall => call'[e][k].uid = userUID[e]
    BY <1>6 DEF KeptInv, OneHome
  <2> QED BY <1>1, <2>1 DEF KeptInv, OneHome, Outbox
<1>9. SetIsFirst' /\ ConfirmedKept'
  <2>1. SetIsFirst'
    BY <1>1 DEF KeptInv, SetIsFirst, Outbox
  <2>2. ConfirmedKept'
    BY <1>1 DEF KeptInv, ConfirmedKept
  <2> QED BY <2>1, <2>2
<1>10. CacheKnows'
  BY <1>1, <1>7 DEF KeptInv, CacheKnows, Outbox
<1>11. AppliedThere'
  BY <1>1 DEF KeptInv, AppliedThere, Outbox
<1>12. AnswerFresh'
  <2> SUFFICES ASSUME NEW e \in Devices, NEW k \in Calls
               PROVE  (/\ call[e][k].phase = "missing" => Outbox(e) = <<>> /\ scores[call[e][k].uid] = <<>>
                       /\ call[e][k].phase = "found" => ExistsOffline(e, call[e][k].uid))'
    BY DEF AnswerFresh
  <2>1. \A v : ExistsOffline(e, v) => ExistsOffline(e, v)'
    BY <1>1, <1>7 DEF ExistsOffline, SetPending, Outbox
  <2>2. CASE e = d /\ k = c
    <3>1. found => ExistsOffline(d, u)'
      <4>1. CASE ExistsOffline(d, u)
        BY <1>1, <1>7, <4>1 DEF ExistsOffline, SetPending, Outbox
      <4>2. CASE GetOnline(d, c) /\ scores[u] # <<>>
        BY <1>1, <1>7, <4>2 DEF ExistsOffline
      <4> QED BY <1>4, <1>5, <4>1, <4>2, ReadFacts
    <3>2. ~found => Outbox(d) = <<>> /\ scores[u] = <<>>
      BY <1>4, <1>5, ReadFacts
    <3> QED BY <1>1, <1>6, <2>2, <3>1, <3>2 DEF Outbox
  <2>3. CASE ~(e = d /\ k = c)
    BY <1>1, <1>6, <2>1, <2>3 DEF KeptInv, AnswerFresh, Outbox
  <2> QED BY <2>2, <2>3
<1> QED BY <1>8, <1>9, <1>10, <1>11, <1>12 DEF KeptInv

\* Queueing the write: a set goes into an empty outbox of an account without
\* document, a union behind a set or after the cache learned the document.
LEMMA KeptCallback ==
    ASSUME TypeOK, KeptInv, Serial, NEW d \in Devices, NEW c \in Calls, GetCallback(d, c)
    PROVE  KeptInv'
<1> DEFINE u == userUID[d]
           q == Outbox(d)
           w == WriteFor(call[d][c])
<1>1. UNCHANGED <<userUID, auth, applied, cached, scores, confirmed>>
  BY DEF GetCallback, session
<1>2. call[d][c] \in Call /\ call[d][c].phase \in {"found", "missing"} /\ call[d][c] # NoCall
  BY DEF GetCallback, TypeOK, Types, NoCall
<1>3. call[d][c].uid = u /\ u \in Uids /\ auth[d] = u
  BY <1>2, BusyCallType DEF KeptInv, OneHome
<1>4. /\ w \in Write /\ w.uid = u
      /\ call[d][c].phase = "found" => w.op = "union"
      /\ call[d][c].phase = "missing" => w.op = "set"
  BY <1>2, <1>3, WriteForType DEF WriteFor
<1>5. /\ q \in Seq(Write) /\ DOMAIN q = 1..Len(q) /\ Len(q) \in Nat
      /\ applied[d] \in Nat /\ applied[d] <= Len(q)
      /\ \A i \in DOMAIN q : q[i] \in Write /\ q[i].uid = u
      /\ q = queue[d][u]
  BY HomeFacts DEF KeptInv
<1>6. /\ queue'[d][u] = Append(q, w)
      /\ \A e \in Devices, v \in Owners : ~(e = d /\ v = u) => queue'[e][v] = queue[e][v]
  <2>1. queue' = [queue EXCEPT ![d][u] = Append(q, w)]
    BY <1>3, <1>5 DEF GetCallback
  <2> HIDE DEF u, q, w
  <2> QED BY <1>3, <2>1 DEF TypeOK, Types, Owners
<1>7. /\ Outbox(d)' = Append(q, w)
      /\ \A e \in Devices : e # d => Outbox(e)' = Outbox(e)
  BY <1>1, <1>3, <1>6 DEF Outbox, TypeOK, Types
<1>8. \A e \in Devices, j \in Calls :
        call'[e][j] = NoCall \/ (e # d /\ call'[e][j] = call[e][j])
  BY DEF GetCallback, Serial, TypeOK, Types
<1>9. /\ DOMAIN Append(q, w) = 1..(Len(q) + 1)
      /\ Append(q, w) # <<>>
      /\ \A i \in 1..Len(q) : Append(q, w)[i] = q[i]
      /\ Append(q, w)[Len(q) + 1] = w
  <2> HIDE DEF u, q, w
  <2> QED BY <1>4, <1>5
<1>10. w.op = "set" => q = <<>> /\ scores[u] = <<>> /\ confirmed[u] = {}
  <2>1. w.op = "set" => q = <<>> /\ scores[u] = <<>>
    BY <1>2, <1>3, <1>4 DEF KeptInv, AnswerFresh
  <2>2. scores[u] = <<>> => Elems(scores[u]) = {}
    BY DEF Elems
  <2> QED BY <1>3, <2>1, <2>2 DEF KeptInv, ConfirmedKept
<1>11. w.op = "union" /\ q = <<>> => u \in cached[d]
  <2>1. w.op = "union" => u \in cached[d] \/ SetPending(d, u)
    BY <1>2, <1>3, <1>4 DEF KeptInv, AnswerFresh, ExistsOffline
  <2> QED BY <2>1 DEF SetPending
<1>12. q = <<>> <=> Len(q) = 0
  BY <1>5
<1> HIDE DEF q, w
<1>13. OneHome'
  <2>1. \A e \in Devices, v \in Owners : queue'[e][v] # <<>> => v = userUID[e] /\ v # NoUid
    BY <1>3, <1>6, ScoreSyncAssumption DEF KeptInv, OneHome
  <2>2. \A e \in Devices : \A i \in DOMAIN Outbox(e)' : Outbox(e)'[i].uid = userUID[e]
    <3> SUFFICES ASSUME NEW e \in Devices, NEW i \in DOMAIN Outbox(e)'
                 PROVE  Outbox(e)'[i].uid = userUID[e]
      OBVIOUS
    <3>1. CASE e = d
      BY SMTT(30), <1>4, <1>5, <1>7, <1>9, <3>1
    <3>2. CASE e # d
      BY <1>7, <3>2 DEF KeptInv, OneHome
    <3> QED BY <3>1, <3>2
  <2>3. \A e \in Devices, j \in Calls : call'[e][j] # NoCall => call'[e][j].uid = userUID[e]
    BY <1>8 DEF KeptInv, OneHome
  <2> QED BY <1>1, <2>1, <2>2, <2>3 DEF KeptInv, OneHome
<1>14. SetIsFirst'
  <2> SUFFICES ASSUME NEW e \in Devices
               PROVE  (/\ \A i \in DOMAIN Outbox(e) : i > 1 => Outbox(e)[i].op = "union"
                       /\ Outbox(e) # <<>> /\ Outbox(e)[1].op = "set" =>
                            /\ confirmed[userUID[e]] = {}
                            /\ \A s \in Elems(scores[userUID[e]]) :
                                 \E i \in DOMAIN Outbox(e) : Outbox(e)[i].sticker = s)'
    BY DEF SetIsFirst
  <2>1. CASE e # d
    BY <1>1, <1>7, <2>1 DEF KeptInv, SetIsFirst
  <2>2. CASE e = d /\ w.op = "set"
    <3>1. Elems(scores[u]) = {}
      BY <1>10, <2>2 DEF Elems
    <3>2. DOMAIN Append(q, w) = 1..1
      BY <1>9, <1>10, <1>12, <2>2
    <3> QED BY <1>1, <1>7, <1>10, <2>2, <3>1, <3>2
  <2>3. CASE e = d /\ w.op = "union"
    <3>1. /\ \A i \in DOMAIN q : i > 1 => q[i].op = "union"
          /\ q # <<>> /\ q[1].op = "set" =>
               /\ confirmed[u] = {}
               /\ \A s \in Elems(scores[u]) : \E i \in DOMAIN q : q[i].sticker = s
      BY DEF KeptInv, SetIsFirst, q
    <3>2. \A i \in DOMAIN Append(q, w) : i > 1 => Append(q, w)[i].op = "union"
      BY <1>5, <1>9, <2>3, <3>1
    <3>3. CASE q = <<>>
      <4>1. Append(q, w)[1].op = "union"
        BY <1>9, <1>12, <2>3, <3>3
      <4> QED BY <1>1, <1>7, <2>3, <3>2, <4>1
    <3>4. CASE q # <<>>
      <4>1. Append(q, w)[1] = q[1]
        BY <1>5, <1>9, <1>12, <3>4
      <4>2. \A i \in DOMAIN q : i \in DOMAIN Append(q, w) /\ Append(q, w)[i] = q[i]
        BY <1>5, <1>9
      <4> QED BY <1>1, <1>7, <2>3, <3>1, <3>2, <3>4, <4>1, <4>2
    <3> QED BY <3>3, <3>4
  <2> QED BY <1>4, <2>1, <2>2, <2>3 DEF Write
<1>15. CacheKnows'
  <2> SUFFICES ASSUME NEW e \in Devices
               PROVE  (/\ userUID[e] \in cached[e] => scores[userUID[e]] # <<>>
                       /\ Outbox(e) # <<>> /\ Outbox(e)[1].op = "union" => userUID[e] \in cached[e]
                       /\ userUID[e] \in Uids /\ Outbox(e) = <<>> /\ scores[userUID[e]] # <<>>
                            => userUID[e] \in cached[e])'
    BY DEF CacheKnows
  <2>1. CASE e # d
    BY <1>1, <1>7, <2>1 DEF KeptInv, CacheKnows
  <2>2. CASE e = d
    <3>1. u \in cached[d] => scores[u] # <<>>
      BY DEF KeptInv, CacheKnows
    <3>2. q # <<>> /\ q[1].op = "union" => u \in cached[d]
      BY DEF KeptInv, CacheKnows, q
    <3>3. Append(q, w)[1].op = "union" => u \in cached[d]
      <4>1. CASE q = <<>>
        BY <1>9, <1>11, <1>12, <4>1
      <4>2. CASE q # <<>>
        BY <1>5, <1>9, <1>12, <3>2, <4>2
      <4> QED BY <4>1, <4>2
    <3> QED BY <1>1, <1>7, <1>9, <2>2, <3>1, <3>3
  <2> QED BY <2>1, <2>2
<1>16. AnswerFresh'
  <2> SUFFICES ASSUME NEW e \in Devices, NEW j \in Calls
               PROVE  (/\ call[e][j].phase = "missing" => Outbox(e) = <<>> /\ scores[call[e][j].uid] = <<>>
                       /\ call[e][j].phase = "found" => ExistsOffline(e, call[e][j].uid))'
    BY DEF AnswerFresh
  <2>1. CASE call'[e][j] = NoCall
    BY <2>1 DEF NoCall
  <2>2. CASE e # d /\ call'[e][j] = call[e][j]
    BY <1>1, <1>7, <2>2 DEF KeptInv, AnswerFresh, ExistsOffline, SetPending
  <2> QED BY <1>8, <2>1, <2>2
<1>17. AppliedThere'
  <2> SUFFICES ASSUME NEW e \in Devices, NEW i \in 1..applied[e]
               PROVE  Outbox(e)'[i].sticker \in Elems(scores[Outbox(e)'[i].uid])
    BY <1>1 DEF AppliedThere
  <2>1. Outbox(e)[i].sticker \in Elems(scores[Outbox(e)[i].uid])
    BY DEF KeptInv, AppliedThere
  <2>2. Outbox(e)'[i] = Outbox(e)[i]
    BY <1>5, <1>7, <1>9 DEF q
  <2> QED BY <2>1, <2>2
<1>18. ConfirmedKept'
  BY <1>1 DEF KeptInv, ConfirmedKept
<1> QED BY <1>13, <1>14, <1>15, <1>16, <1>17, <1>18 DEF KeptInv

\* The server applies the next write of a device.
LEMMA KeptApply ==
    ASSUME TypeOK, KeptInv, NEW d \in Devices, ServerApply(d)
    PROVE  KeptInv'
<1> DEFINE u == userUID[d]
           q == Outbox(d)
           n == applied[d] + 1
           w == q[n]
<1>1. UNCHANGED <<userUID, auth, queue, call, cached, confirmed>>
  BY DEF ServerApply, session
<1>2. /\ q \in Seq(Write) /\ DOMAIN q = 1..Len(q) /\ Len(q) \in Nat
      /\ applied[d] \in Nat
      /\ \A i \in DOMAIN q : q[i] \in Write /\ q[i].uid = u
      /\ q # <<>> => u \in Uids
  BY HomeFacts DEF KeptInv
<1>3. applied[d] < Len(q) /\ applied' = [applied EXCEPT ![d] = @ + 1]
  BY DEF ServerApply
<1>4. n \in DOMAIN q /\ q # <<>> /\ u \in Uids /\ w \in Write /\ w.uid = u
  BY <1>2, <1>3
<1>5. scores' = [scores EXCEPT ![u] = Stored(w, scores[u])]
  BY <1>4 DEF ServerApply, NextWrite
<1>6. scores[u] \in Seq(Stickers)
  BY <1>4 DEF TypeOK, Types
<1>7. /\ scores'[u] = Stored(w, scores[u])
      /\ \A v \in Uids : v # u => scores'[v] = scores[v]
  BY <1>4, <1>5 DEF TypeOK, Types
<1>8. /\ Elems(scores'[u]) \subseteq Elems(scores[u]) \cup {w.sticker}
      /\ w.sticker \in Elems(scores'[u])
      /\ w.op = "union" => Elems(scores[u]) \subseteq Elems(scores'[u])
      /\ scores'[u] # <<>>
  <2> HIDE DEF w, u
  <2> QED BY <1>4, <1>6, <1>7, StoredElems
<1>9. applied'[d] = n /\ \A e \in Devices : e # d => applied'[e] = applied[e]
  BY <1>3 DEF TypeOK, Types
<1>10. \A e \in Devices : e # d => userUID[e] # u
  BY <1>4, ScoreSyncAssumption DEF KeptInv, OneHome
<1>11. w.op = "set" => applied[d] = 0 /\ confirmed[u] = {}
  <2>1. \A i \in DOMAIN q : i > 1 => q[i].op = "union"
    BY DEF KeptInv, SetIsFirst
  <2>2. w.op = "set" => applied[d] = 0
    BY <1>2, <1>4, <2>1
  <2> QED BY <1>2, <1>4, <2>2 DEF KeptInv, SetIsFirst
<1>12. \A e \in Devices : e # d /\ userUID[e] \in Uids => scores'[userUID[e]] = scores[userUID[e]]
  BY <1>7, <1>10
<1> HIDE DEF u, w, n
<1>13. OneHome'
  BY <1>1 DEF KeptInv, OneHome, Outbox
<1>14. SetIsFirst'
  <2> SUFFICES ASSUME NEW e \in Devices
               PROVE  (/\ \A i \in DOMAIN Outbox(e) : i > 1 => Outbox(e)[i].op = "union"
                       /\ Outbox(e) # <<>> /\ Outbox(e)[1].op = "set" =>
                            /\ confirmed[userUID[e]] = {}
                            /\ \A s \in Elems(scores[userUID[e]]) :
                                 \E i \in DOMAIN Outbox(e) : Outbox(e)[i].sticker = s)'
    BY DEF SetIsFirst
  <2>1. CASE e # d
    <3>1. Outbox(e) # <<>> => userUID[e] \in Uids
      BY HomeFacts DEF KeptInv
    <3>2. Outbox(e)' = Outbox(e)
      BY <1>1 DEF Outbox
    <3> QED BY <1>1, <1>12, <2>1, <3>1, <3>2 DEF KeptInv, SetIsFirst
  <2>2. CASE e = d
    <3>1. Outbox(e)' = q /\ userUID'[e] = u
      BY <1>1, <2>2 DEF Outbox, u
    <3>2. \A s \in Elems(scores'[u]) : s = w.sticker \/ s \in Elems(scores[u])
      BY <1>8
    <3>3. q[n].sticker = w.sticker
      BY DEF w
    <3>4. /\ \A i \in DOMAIN q : i > 1 => q[i].op = "union"
          /\ q # <<>> /\ q[1].op = "set" =>
               /\ confirmed[u] = {}
               /\ \A s \in Elems(scores[u]) : \E i \in DOMAIN q : q[i].sticker = s
      BY DEF KeptInv, SetIsFirst, u
    <3> HIDE DEF q
    <3> QED BY <1>1, <1>4, <3>1, <3>2, <3>3, <3>4
  <2> QED BY <2>1, <2>2
<1>15. CacheKnows'
  <2> SUFFICES ASSUME NEW e \in Devices
               PROVE  (/\ userUID[e] \in cached[e] => scores[userUID[e]] # <<>>
                       /\ Outbox(e) # <<>> /\ Outbox(e)[1].op = "union" => userUID[e] \in cached[e]
                       /\ userUID[e] \in Uids /\ Outbox(e) = <<>> /\ scores[userUID[e]] # <<>>
                            => userUID[e] \in cached[e])'
    BY DEF CacheKnows
  <2>0. Outbox(e)' = Outbox(e) /\ cached[e] \subseteq Uids
    BY <1>1 DEF Outbox, TypeOK, Types
  <2>1. CASE e # d
    BY <1>1, <1>12, <2>0, <2>1 DEF KeptInv, CacheKnows
  <2>2. CASE e = d
    BY <1>1, <1>4, <1>8, <2>0, <2>2 DEF KeptInv, CacheKnows, u
  <2> QED BY <2>1, <2>2
<1>16. AnswerFresh'
  <2> SUFFICES ASSUME NEW e \in Devices, NEW j \in Calls
               PROVE  (/\ call[e][j].phase = "missing" => Outbox(e) = <<>> /\ scores[call[e][j].uid] = <<>>
                       /\ call[e][j].phase = "found" => ExistsOffline(e, call[e][j].uid))'
    BY DEF AnswerFresh
  <2>1. Outbox(e)' = Outbox(e)
    BY <1>1 DEF Outbox
  <2>2. call[e][j].phase = "found" => ExistsOffline(e, call[e][j].uid)
    BY DEF KeptInv, AnswerFresh
  <2>3. ExistsOffline(e, call[e][j].uid) => ExistsOffline(e, call[e][j].uid)'
    BY <1>1, <2>1 DEF ExistsOffline, SetPending
  <2>4. ASSUME call[e][j].phase = "missing" PROVE Outbox(e) = <<>> /\ scores'[call[e][j].uid] = <<>>
    <3>1. Outbox(e) = <<>> /\ scores[call[e][j].uid] = <<>>
      BY <2>4 DEF KeptInv, AnswerFresh
    <3>2. e # d
      BY <1>4, <3>1
    <3>3. call[e][j].uid = userUID[e] /\ userUID[e] \in Uids
      BY <2>4, BusyCallType DEF KeptInv, OneHome, NoCall, TypeOK, Types
    <3> QED BY <1>12, <3>1, <3>2, <3>3
  <2> QED BY <1>1, <2>1, <2>2, <2>3, <2>4
<1>17. AppliedThere'
  <2> SUFFICES ASSUME NEW e \in Devices, NEW i \in 1..applied'[e]
               PROVE  Outbox(e)[i].sticker \in Elems(scores'[Outbox(e)[i].uid])
    BY <1>1 DEF AppliedThere, Outbox
  <2>1. CASE e # d
    <3>1. i \in DOMAIN Outbox(e)
      BY <1>9, <2>1, HomeFacts DEF KeptInv
    <3>2. Outbox(e)[i].uid = userUID[e] /\ userUID[e] \in Uids
      BY <3>1, HomeFacts DEF KeptInv
    <3>3. Outbox(e)[i].sticker \in Elems(scores[Outbox(e)[i].uid])
      BY <1>9, <2>1 DEF KeptInv, AppliedThere
    <3> QED BY <1>12, <2>1, <3>2, <3>3
  <2>2. CASE e = d /\ i = n
    BY <1>4, <1>8, <2>2 DEF w
  <2>3. CASE e = d /\ i # n
    <3>1. i \in 1..applied[d] /\ applied[d] > 0 /\ i \in DOMAIN q
      BY <1>2, <1>3, <1>9, <2>3 DEF n
    <3>2. q[i].sticker \in Elems(scores[u]) /\ q[i].uid = u
      BY <1>2, <3>1 DEF KeptInv, AppliedThere
    <3>3. w.op = "union"
      BY <1>4, <1>11, <3>1 DEF Write
    <3> QED BY <1>8, <2>3, <3>2, <3>3
  <2> QED BY <2>1, <2>2, <2>3
<1>18. ConfirmedKept'
  <2> SUFFICES ASSUME NEW v \in Uids PROVE confirmed[v] \subseteq Elems(scores'[v])
    BY <1>1 DEF ConfirmedKept
  <2>1. confirmed[v] \subseteq Elems(scores[v])
    BY DEF KeptInv, ConfirmedKept
  <2>2. w.op \in {"set", "union"}
    BY <1>4 DEF Write
  <2> QED BY <1>7, <1>8, <1>11, <2>1, <2>2
<1> QED BY <1>13, <1>14, <1>15, <1>16, <1>17, <1>18 DEF KeptInv

\* The oldest write is acknowledged.
LEMMA KeptAck ==
    ASSUME TypeOK, KeptInv, NEW d \in Devices, ServerAck(d)
    PROVE  KeptInv'
<1> DEFINE u == userUID[d]
           q == Outbox(d)
           w == Head(q)
<1>1. UNCHANGED <<userUID, auth, call, scores>>
  BY DEF ServerAck, session
<1>2. /\ q \in Seq(Write) /\ DOMAIN q = 1..Len(q) /\ Len(q) \in Nat
      /\ applied[d] \in Nat /\ applied[d] <= Len(q)
      /\ \A i \in DOMAIN q : q[i] \in Write /\ q[i].uid = u
      /\ q # <<>> => u \in Uids
      /\ q = queue[d][u] /\ u \in Owners
  BY HomeFacts DEF KeptInv
<1>3. applied[d] > 0
  BY DEF ServerAck
<1>4. q # <<>> /\ w = q[1] /\ 1 \in DOMAIN q
  BY <1>2, <1>3
<1>5. u \in Uids /\ w \in Write /\ w.uid = u /\ auth[d] = u
  BY <1>2, <1>4 DEF KeptInv, OneHome
<1>6. /\ Tail(q) \in Seq(Write)
      /\ DOMAIN Tail(q) = 1..(Len(q) - 1)
      /\ \A i \in DOMAIN Tail(q) : i + 1 \in DOMAIN q /\ Tail(q)[i] = q[i + 1]
  <2> HIDE DEF q
  <2> QED BY <1>2, <1>4
<1>7. /\ queue'[d][u] = Tail(q)
      /\ \A e \in Devices, v \in Owners : ~(e = d /\ v = u) => queue'[e][v] = queue[e][v]
  <2>1. queue' = [queue EXCEPT ![d][u] = Tail(q)]
    BY <1>2, <1>5 DEF ServerAck
  <2> HIDE DEF u, q
  <2> QED BY <1>2, <2>1 DEF TypeOK, Types
<1>8. /\ Outbox(d)' = Tail(q)
      /\ \A e \in Devices : e # d => Outbox(e)' = Outbox(e)
  BY <1>1, <1>5, <1>7 DEF Outbox, TypeOK, Types
<1>9. /\ applied'[d] = applied[d] - 1
      /\ \A e \in Devices : e # d => applied'[e] = applied[e]
  BY DEF ServerAck, TypeOK, Types
<1>10. /\ cached'[d] = cached[d] \cup {u}
       /\ \A e \in Devices : e # d => cached'[e] = cached[e]
  BY <1>5 DEF ServerAck, TypeOK, Types
<1>11. /\ confirmed'[u] = confirmed[u] \cup {w.sticker}
       /\ \A v \in Uids : v # u => confirmed'[v] = confirmed[v]
  BY <1>5 DEF ServerAck, TypeOK, Types
<1>12. w.sticker \in Elems(scores[u]) /\ scores[u] # <<>>
  <2>1. w.sticker \in Elems(scores[u])
    BY <1>2, <1>3, <1>4, <1>5 DEF KeptInv, AppliedThere
  <2> QED BY <2>1 DEF Elems
<1>13. \A i \in DOMAIN Tail(q) : Tail(q)[i].op = "union"
  <2>1. \A i \in DOMAIN q : i > 1 => q[i].op = "union"
    BY DEF KeptInv, SetIsFirst
  <2> HIDE DEF q
  <2> QED BY <1>2, <1>6, <2>1
<1>14. \A e \in Devices : e # d => userUID[e] # u
  BY <1>5, ScoreSyncAssumption DEF KeptInv, OneHome
<1> HIDE DEF u, q, w
<1>15. OneHome'
  <2>1. \A e \in Devices, v \in Owners : queue'[e][v] # <<>> => v = userUID[e] /\ v # NoUid
    BY <1>5, <1>7, ScoreSyncAssumption DEF KeptInv, OneHome, u
  <2>2. \A e \in Devices : \A i \in DOMAIN Outbox(e)' : Outbox(e)'[i].uid = userUID[e]
    <3> SUFFICES ASSUME NEW e \in Devices, NEW i \in DOMAIN Outbox(e)'
                 PROVE  Outbox(e)'[i].uid = userUID[e]
      OBVIOUS
    <3>1. CASE e = d
      <4>1. i + 1 \in DOMAIN q /\ Outbox(e)'[i] = q[i + 1]
        BY <1>6, <1>8, <3>1
      <4>2. q[i + 1].uid = u
        BY <1>2, <4>1
      <4> QED BY <3>1, <4>1, <4>2 DEF u
    <3>2. CASE e # d
      BY <1>8, <3>2 DEF KeptInv, OneHome
    <3> QED BY <3>1, <3>2
  <2> QED BY <1>1, <2>1, <2>2 DEF KeptInv, OneHome
<1>16. SetIsFirst'
  <2> SUFFICES ASSUME NEW e \in Devices
               PROVE  (/\ \A i \in DOMAIN Outbox(e) : i > 1 => Outbox(e)[i].op = "union"
                       /\ Outbox(e) # <<>> /\ Outbox(e)[1].op = "set" =>
                            /\ confirmed[userUID[e]] = {}
                            /\ \A s \in Elems(scores[userUID[e]]) :
                                 \E i \in DOMAIN Outbox(e) : Outbox(e)[i].sticker = s)'
    BY DEF SetIsFirst
  <2>1. CASE e # d
    <3>1. Outbox(e) # <<>> => userUID[e] \in Uids
      BY HomeFacts DEF KeptInv
    <3>2. Outbox(e) # <<>> => confirmed'[userUID[e]] = confirmed[userUID[e]]
      BY <1>11, <1>14, <2>1, <3>1
    <3>3. /\ \A i \in DOMAIN Outbox(e) : i > 1 => Outbox(e)[i].op = "union"
          /\ Outbox(e) # <<>> /\ Outbox(e)[1].op = "set" =>
               /\ confirmed[userUID[e]] = {}
               /\ \A s \in Elems(scores[userUID[e]]) :
                    \E i \in DOMAIN Outbox(e) : Outbox(e)[i].sticker = s
      BY DEF KeptInv, SetIsFirst
    <3>4. Outbox(e)' = Outbox(e) /\ userUID'[e] = userUID[e] /\ scores' = scores
      BY <1>1, <1>8, <2>1
    <3> QED BY <3>2, <3>3, <3>4
  <2>2. CASE e = d
    <3>1. Tail(q) # <<>> => 1 \in DOMAIN Tail(q)
      BY <1>6
    <3> QED BY <1>8, <1>13, <2>2, <3>1
  <2> QED BY <2>1, <2>2
<1>17. CacheKnows'
  <2> SUFFICES ASSUME NEW e \in Devices
               PROVE  (/\ userUID[e] \in cached[e] => scores[userUID[e]] # <<>>
                       /\ Outbox(e) # <<>> /\ Outbox(e)[1].op = "union" => userUID[e] \in cached[e]
                       /\ userUID[e] \in Uids /\ Outbox(e) = <<>> /\ scores[userUID[e]] # <<>>
                            => userUID[e] \in cached[e])'
    BY DEF CacheKnows
  <2>1. CASE e # d
    BY <1>1, <1>8, <1>10, <2>1 DEF KeptInv, CacheKnows
  <2>2. CASE e = d
    BY <1>1, <1>10, <1>12, <2>2 DEF u
  <2> QED BY <2>1, <2>2
<1>18. AnswerFresh'
  <2> SUFFICES ASSUME NEW e \in Devices, NEW j \in Calls
               PROVE  (/\ call[e][j].phase = "missing" => Outbox(e) = <<>> /\ scores[call[e][j].uid] = <<>>
                       /\ call[e][j].phase = "found" => ExistsOffline(e, call[e][j].uid))'
    BY DEF AnswerFresh
  <2>1. CASE e # d
    BY <1>1, <1>8, <1>10, <2>1 DEF KeptInv, AnswerFresh, ExistsOffline, SetPending
  <2>2. CASE e = d
    <3>1. call[e][j].phase # "missing"
      BY <1>4, <2>2 DEF KeptInv, AnswerFresh, q
    <3>2. call[e][j].phase = "found" => call[e][j].uid = u
      BY <2>2 DEF KeptInv, OneHome, NoCall, u
    <3> QED BY <1>1, <1>10, <2>2, <3>1, <3>2 DEF ExistsOffline
  <2> QED BY <2>1, <2>2
<1>19. AppliedThere'
  <2> SUFFICES ASSUME NEW e \in Devices, NEW i \in 1..applied'[e]
               PROVE  Outbox(e)'[i].sticker \in Elems(scores[Outbox(e)'[i].uid])
    BY <1>1 DEF AppliedThere
  <2>1. CASE e # d
    BY <1>8, <1>9, <2>1 DEF KeptInv, AppliedThere
  <2>2. CASE e = d
    <3>1. i \in DOMAIN Tail(q) /\ i + 1 \in 1..applied[d]
      BY <1>2, <1>3, <1>6, <1>9, <2>2
    <3>2. q[i + 1].sticker \in Elems(scores[q[i + 1].uid])
      BY <3>1 DEF KeptInv, AppliedThere, q
    <3> QED BY <1>6, <1>8, <2>2, <3>1, <3>2
  <2> QED BY <2>1, <2>2
<1>20. ConfirmedKept'
  <2> SUFFICES ASSUME NEW v \in Uids PROVE confirmed'[v] \subseteq Elems(scores[v])
    BY <1>1 DEF ConfirmedKept
  <2>1. confirmed[v] \subseteq Elems(scores[v])
    BY DEF KeptInv, ConfirmedKept
  <2> QED BY <1>11, <1>12, <2>1
<1> QED BY <1>15, <1>16, <1>17, <1>18, <1>19, <1>20 DEF KeptInv

\* No write is refused: an update at the head of the outbox has a document.
LEMMA NeverRefused ==
    ASSUME TypeOK, KeptInv, Serial, NEW d \in Devices
    PROVE  ~ServerReject(d)
<1> SUFFICES ASSUME ServerReject(d) PROVE FALSE
  OBVIOUS
<1>1. Outbox(d) \in Seq(Write) /\ Outbox(d) # <<>>
  BY HomeFacts DEF ServerReject, KeptInv
<1>2. /\ Head(Outbox(d)) = Outbox(d)[1] /\ 1 \in DOMAIN Outbox(d)
      /\ Outbox(d)[1] \in Write /\ Outbox(d)[1].uid = userUID[d]
  BY <1>1, HomeFacts DEF KeptInv
<1>3. ~Accepted(Outbox(d)[1])
  BY <1>2 DEF ServerReject, Serial
<1>4. Outbox(d)[1].op = "union" /\ scores[userUID[d]] = <<>>
  BY <1>2, <1>3 DEF Accepted, Write
<1> QED BY <1>1, <1>4 DEF KeptInv, CacheKnows

\* Every step of the serial environment keeps the invariant.
LEMMA KeptStep == TypeOK /\ KeptInv /\ Serial /\ [Next]_vars => KeptInv'
<1> SUFFICES ASSUME TypeOK, KeptInv, Serial, [Next]_vars PROVE KeptInv'
  OBVIOUS
<1>1. CASE UNCHANGED vars
  BY <1>1, KeptCalls DEF vars
<1>2. ASSUME NEW d \in Devices,
             \/ \E s \in Stickers : OpenResult(d, s)
             \/ OpenGallery(d) \/ Reset(d)
      PROVE  KeptInv'
  <2>1. UNCHANGED <<userUID, auth, queue, cached, scores, confirmed, applied, call>>
    BY <1>2 DEF OpenResult, OpenGallery, Reset, session, firestore
  <2> QED BY <2>1, KeptCalls
<1>3. ASSUME NEW d \in Devices, Redeem(d) PROVE KeptInv'
  <2>1. UNCHANGED <<userUID, auth, queue, cached, scores, confirmed, applied>>
    BY <1>3 DEF Redeem, session, firestore
  <2>2. \A e \in Devices, c \in Calls :
          \/ call'[e][c] = call[e][c]
          \/ call'[e][c].phase = "waiting" /\ call'[e][c].uid = userUID[e]
    <3>1. CASE call' = call
      BY <3>1
    <3>2. CASE \E c \in Calls : call' = [call EXCEPT ![d][c] =
                  [phase |-> "waiting", uid |-> userUID[d], sticker |-> result[d]]]
      BY <3>2 DEF TypeOK, Types
    <3> QED BY <1>3, <3>1, <3>2 DEF Redeem
  <2> QED BY <2>1, <2>2, KeptCalls
<1>4. ASSUME NEW d \in Devices, StreamBreak(d) \/ Kill(d) PROVE KeptInv'
  <2>1. UNCHANGED <<userUID, auth, queue, cached, scores, confirmed>>
    BY <1>4 DEF StreamBreak, Kill, session
  <2>2. \A e \in Devices : applied'[e] = applied[e] \/ applied'[e] = 0
    BY <1>4 DEF StreamBreak, Kill, TypeOK, Types
  <2>3. \A e \in Devices, c \in Calls : call'[e][c] = call[e][c] \/ call'[e][c] = NoCall
    <3>1. CASE call' = call
      BY <3>1
    <3>2. CASE call' = [call EXCEPT ![d] = [c \in Calls |-> NoCall]]
      BY <3>2 DEF TypeOK, Types
    <3> QED BY <1>4, <3>1, <3>2 DEF StreamBreak, Kill
  <2> QED BY <2>1, <2>2, <2>3, KeptCalls
<1>5. ASSUME NEW d \in Devices,
             \/ \E u \in Uids : SignIn(d, u) \/ StoreUid(d, u) \/ AccountGone(d, u)
             \/ ClearUid(d)
      PROVE  KeptInv'
  BY <1>5 DEF SignIn, StoreUid, AccountGone, ClearUid, Serial
<1> QED BY <1>1, <1>2, <1>3, <1>4, <1>5, KeptReads, KeptCallback, KeptApply, KeptAck,
           NeverRefused DEF Next

\* At the start nothing is queued, stored or confirmed.
LEMMA KeptInit == Init /\ Serial => KeptInv
<1> SUFFICES ASSUME Init, Serial PROVE KeptInv
  OBVIOUS
<1>0. TypeOK
  BY TypeInit
<1>1. \A d \in Devices : Outbox(d) = <<>>
  BY <1>0 DEF Init, Outbox, TypeOK, Types
<1>2. OneHome
  BY <1>1 DEF Init, Serial, OneHome
<1>3. SetIsFirst /\ CacheKnows /\ AnswerFresh
  BY <1>1 DEF Init, SetIsFirst, CacheKnows, AnswerFresh, NoCall
<1>4. AppliedThere /\ ConfirmedKept
  BY DEF Init, AppliedThere, ConfirmedKept
<1> QED BY <1>2, <1>3, <1>4 DEF KeptInv

\* When each account is used on one device and its reads do not overlap, the
\* inductive invariant holds: no setData is decided on a stale answer, for
\* any number of devices and accounts, through kills and broken streams.
THEOREM KeptInvariant == Serial => (Spec => []KeptInv)
<1> SUFFICES ASSUME Serial PROVE Spec => []KeptInv
  OBVIOUS
<1>1. Init => TypeOK /\ KeptInv
  BY TypeInit, KeptInit
<1>2. TypeOK /\ KeptInv /\ [Next]_vars => (TypeOK /\ KeptInv)'
  BY TypeStep, KeptStep
<1> QED BY <1>1, <1>2, PTL DEF Spec

\* So no score that the app reported as saved is ever lost there.
THEOREM ConfirmedIsKept == Serial => (Spec => []ConfirmedKept)
<1>1. KeptInv => ConfirmedKept
  BY DEF KeptInv
<1> QED BY <1>1, KeptInvariant, PTL

-----------------------------------------------------------------------------
(* The saving implements the ledger. *)

\* A write that joins an outbox is pending, beside those that were.
LEMMA PendingGrows ==
    ASSUME TypeOK, NEW d \in Devices, NEW a \in Owners, NEW w \in Write,
           queue'[d][a] = Append(queue[d][a], w),
           \A e \in Devices, v \in Owners : ~(e = d /\ v = a) => queue'[e][v] = queue[e][v],
           NEW u \in Uids
    PROVE  Pending(u)' = Pending(u) \cup {s \in {w.sticker} : w.uid = u}
<1> DEFINE q == queue[d][a]
<1>1. q \in Seq(Write) /\ w.sticker \in Stickers
  <2>1. q \in Seq(Write)
    BY DEF TypeOK, Types
  <2>2. w.sticker \in Stickers
    BY DEF Write
  <2> QED BY <2>1, <2>2
<1>2. /\ DOMAIN Append(q, w) = 1..(Len(q) + 1) /\ DOMAIN q = 1..Len(q) /\ Len(q) \in Nat
      /\ \A i \in DOMAIN q : Append(q, w)[i] = q[i]
      /\ Append(q, w)[Len(q) + 1] = w
  <2> HIDE DEF q
  <2> QED BY <1>1
<1>3. ASSUME NEW e \in Devices, NEW v \in Owners, NEW i \in DOMAIN queue[e][v]
      PROVE  i \in DOMAIN queue'[e][v] /\ queue'[e][v][i] = queue[e][v][i]
  BY SMTT(30), <1>2
<1>4. ASSUME NEW e \in Devices, NEW v \in Owners, NEW i \in DOMAIN queue'[e][v]
      PROVE  \/ i \in DOMAIN queue[e][v] /\ queue'[e][v][i] = queue[e][v][i]
             \/ queue'[e][v][i] = w
  BY <1>2
<1>5. Len(q) + 1 \in DOMAIN queue'[d][a] /\ queue'[d][a][Len(q) + 1] = w
  BY <1>2
<1> HIDE DEF q
<1>6. Pending(u) \subseteq Pending(u)'
  BY <1>3 DEF Pending
<1>7. w.uid = u => w.sticker \in Pending(u)'
  BY <1>1, <1>5 DEF Pending
<1>8. ASSUME NEW s \in Pending(u)' PROVE s \in Pending(u) \/ (s = w.sticker /\ w.uid = u)
  BY <1>4 DEF Pending
<1> QED BY <1>6, <1>7, <1>8

\* Of an outbox that loses its oldest write the others stay pending.
LEMMA PendingShrinks ==
    ASSUME TypeOK, NEW d \in Devices, NEW a \in Owners, queue[d][a] # <<>>,
           queue'[d][a] = Tail(queue[d][a]),
           \A e \in Devices, v \in Owners : ~(e = d /\ v = a) => queue'[e][v] = queue[e][v],
           NEW u \in Uids
    PROVE  /\ Pending(u)' \subseteq Pending(u)
           /\ \A s \in Pending(u) : \/ s \in Pending(u)'
                                    \/ queue[d][a][1].uid = u /\ queue[d][a][1].sticker = s
<1> DEFINE q == queue[d][a]
<1>1. q \in Seq(Write)
  BY DEF TypeOK, Types
<1>2. /\ DOMAIN Tail(q) = 1..(Len(q) - 1) /\ DOMAIN q = 1..Len(q) /\ Len(q) \in Nat
      /\ \A i \in DOMAIN Tail(q) : i + 1 \in DOMAIN q /\ Tail(q)[i] = q[i + 1]
  <2> HIDE DEF q
  <2> QED BY <1>1
<1>3. ASSUME NEW e \in Devices, NEW v \in Owners, NEW i \in DOMAIN queue'[e][v]
      PROVE  \E j \in DOMAIN queue[e][v] : queue'[e][v][i] = queue[e][v][j]
  <2>1. CASE e = d /\ v = a
    <3>1. i + 1 \in DOMAIN q /\ Tail(q)[i] = q[i + 1]
      BY <1>2, <2>1
    <3> QED BY <2>1, <3>1
  <2>2. CASE ~(e = d /\ v = a)
    BY <2>2
  <2> QED BY <2>1, <2>2
<1>4. ASSUME NEW e \in Devices, NEW v \in Owners, NEW i \in DOMAIN queue[e][v]
      PROVE  \/ queue[e][v][i] = q[1]
             \/ \E j \in DOMAIN queue'[e][v] : queue'[e][v][j] = queue[e][v][i]
  <2>1. CASE e = d /\ v = a /\ i # 1
    <3>1. i - 1 \in DOMAIN Tail(q) /\ Tail(q)[i - 1] = q[i]
      BY <1>2, <2>1
    <3> QED BY <2>1, <3>1
  <2>2. CASE ~(e = d /\ v = a)
    BY <2>2
  <2> QED BY <2>1, <2>2
<1>5. Pending(u)' \subseteq Pending(u)
  BY <1>3 DEF Pending
<1>6. ASSUME NEW s \in Pending(u) PROVE s \in Pending(u)' \/ (q[1].uid = u /\ q[1].sticker = s)
  BY <1>4 DEF Pending
<1> QED BY <1>5, <1>6

\* A step that touches neither outboxes nor server leaves the ledger alone.
LEMMA LedgerSame ==
    ASSUME UNCHANGED <<queue, scores>>
    PROVE  \A u \in Uids : Durable(u)' = Durable(u)
  BY DEF Durable, Pending

\* Applying or acknowledging a write only moves what is durable.
LEMMA LedgerMoves ==
    ASSUME TypeOK, KeptInv, NEW d \in Devices, ServerApply(d) \/ ServerAck(d), NEW v \in Uids
    PROVE  Durable(v)' = Durable(v)
<1> DEFINE u == userUID[d]
           q == Outbox(d)
<1>1. /\ q = queue[d][u] /\ u \in Owners
      /\ q \in Seq(Write) /\ DOMAIN q = 1..Len(q) /\ Len(q) \in Nat
      /\ applied[d] \in Nat /\ applied[d] <= Len(q)
      /\ q # <<>> => u \in Uids
      /\ \A i \in DOMAIN q : q[i] \in Write /\ q[i].uid = u
      /\ auth[d] = u
  BY HomeFacts DEF KeptInv, OneHome
<1>2. \A i \in DOMAIN q : q[i].sticker \in Pending(u)
  BY <1>1 DEF Pending, Write
<1>3. CASE ServerApply(d)
  <2> DEFINE w == q[applied[d] + 1]
  <2>1. applied[d] + 1 \in DOMAIN q /\ u \in Uids /\ w \in Write /\ w.uid = u
    BY <1>1, <1>3 DEF ServerApply
  <2>2. scores' = [scores EXCEPT ![u] = Stored(w, scores[u])]
    BY <1>3, <2>1 DEF ServerApply, NextWrite
  <2>3. scores[u] \in Seq(Stickers) /\ scores'[u] = Stored(w, scores[u])
    BY <2>1, <2>2 DEF TypeOK, Types
  <2>4. v # u => scores'[v] = scores[v]
    BY <2>1, <2>2 DEF TypeOK, Types
  <2>5. Pending(v)' = Pending(v)
    BY <1>3 DEF ServerApply, Pending
  <2>6. CASE v # u
    BY <2>4, <2>5, <2>6 DEF Durable
  <2>7. CASE v = u
    <3>1. /\ Elems(scores'[u]) \subseteq Elems(scores[u]) \cup {w.sticker}
          /\ w.op = "union" => Elems(scores[u]) \subseteq Elems(scores'[u])
      <4> HIDE DEF w, u
      <4> QED BY <2>1, <2>3, StoredElems
    <3>2. w.sticker \in Pending(u)
      BY <1>2, <2>1
    <3>3. w.op = "set" => Elems(scores[u]) \subseteq Pending(u)
      <4>1. \A i \in DOMAIN q : i > 1 => q[i].op = "union"
        BY DEF KeptInv, SetIsFirst
      <4>2. w.op = "set" => q # <<>> /\ q[1].op = "set"
        BY <1>1, <2>1, <4>1
      <4>3. w.op = "set" => \A s \in Elems(scores[u]) : \E i \in DOMAIN q : q[i].sticker = s
        BY <4>2 DEF KeptInv, SetIsFirst
      <4> QED BY <1>2, <4>3
    <3>4. w.op \in {"set", "union"}
      BY <2>1 DEF Write
    <3> HIDE DEF w
    <3> QED BY <2>5, <2>7, <3>1, <3>2, <3>3, <3>4 DEF Durable
  <2> QED BY <2>6, <2>7
<1>4. CASE ServerAck(d)
  <2>1. q # <<>> /\ 1 \in DOMAIN q /\ 1 \in 1..applied[d]
    BY <1>1, <1>4 DEF ServerAck
  <2>2. queue' = [queue EXCEPT ![d][u] = Tail(q)] /\ scores' = scores
    BY <1>1, <1>4 DEF ServerAck
  <2>3. Tail(q) \in Seq(Write)
    BY <1>1, <2>1
  <2>4. /\ queue'[d][u] = Tail(queue[d][u])
        /\ \A e \in Devices, o \in Owners : ~(e = d /\ o = u) => queue'[e][o] = queue[e][o]
    <3> HIDE DEF u, q
    <3> QED BY <1>1, <2>2, <2>3 DEF TypeOK, Types
  <2>5. q[1].sticker \in Elems(scores[u]) /\ q[1].uid = u
    BY <1>1, <2>1 DEF KeptInv, AppliedThere
  <2>6. /\ Pending(v)' \subseteq Pending(v)
        /\ \A s \in Pending(v) : s \in Pending(v)' \/ (q[1].uid = v /\ q[1].sticker = s)
    <3> HIDE DEF u
    <3> QED BY <1>1, <2>1, <2>4, PendingShrinks
  <2> QED BY <2>2, <2>5, <2>6 DEF Durable
<1> QED BY <1>3, <1>4

\* A callback enters its score in the ledger, an earned one.
LEMMA LedgerEnters ==
    ASSUME TypeOK, KeptInv, EarnedFirst, NEW d \in Devices, NEW c \in Calls, GetCallback(d, c)
    PROVE  \E u \in Uids, s \in Stickers :
             /\ s \in earned[u] /\ earned' = earned
             /\ \A v \in Uids : Durable(v)' = Durable(v) \cup {x \in {s} : u = v}
<1> DEFINE k == call[d][c]
           w == WriteFor(k)
           a == auth[d]
<1>1. k # NoCall /\ k \in Call /\ a \in Owners
  BY DEF GetCallback, NoCall, TypeOK, Types
<1>2. k.uid \in Uids /\ k.sticker \in Stickers /\ k.sticker \in earned[k.uid]
  BY <1>1 DEF Call, EarnedFirst
<1>3. w \in Write /\ w.uid = k.uid /\ w.sticker = k.sticker
  BY <1>2 DEF WriteFor, Write
<1>4. queue' = [queue EXCEPT ![d][a] = Append(queue[d][a], w)] /\ scores' = scores /\ earned' = earned
  BY DEF GetCallback
<1>5. queue \in [Devices -> [Owners -> Seq(Write)]]
  BY DEF TypeOK, Types
<1>6. /\ queue'[d][a] = Append(queue[d][a], w)
      /\ \A e \in Devices, o \in Owners : ~(e = d /\ o = a) => queue'[e][o] = queue[e][o]
  <2> HIDE DEF w, a, k
  <2> QED BY <1>1, <1>4, <1>5
<1>7. \A v \in Uids : Pending(v)' = Pending(v) \cup {x \in {w.sticker} : w.uid = v}
  <2> HIDE DEF w, a, k
  <2> QED BY <1>1, <1>3, <1>6, PendingGrows
<1>8. \A v \in Uids : Durable(v)' = Durable(v) \cup {x \in {k.sticker} : k.uid = v}
  <2> HIDE DEF w, a, k
  <2> QED BY <1>3, <1>4, <1>7 DEF Durable
<1> HIDE DEF w, a, k
<1> QED BY <1>2, <1>4, <1>8

\* Every step of the serial environment is a step of the ledger or a stutter.
LEMMA LedgerStep ==
    ASSUME Serial, TypeOK, KeptInv, EarnedFirst, [Next]_vars
    PROVE  [LedgerOfScores!Next]_<<earned, [u \in Uids |-> Durable(u)]>>
<1> DEFINE D == [u \in Uids |-> Durable(u)]
<1>1. ASSUME earned' = earned, \A u \in Uids : Durable(u)' = Durable(u)
      PROVE  UNCHANGED <<earned, D>>
  BY <1>1
<1>2. CASE UNCHANGED <<earned, queue, scores>>
  BY <1>1, <1>2, LedgerSame
<1>3. ASSUME NEW d \in Devices, Redeem(d)
      PROVE  [LedgerOfScores!Next]_<<earned, D>>
  <2>1. UNCHANGED <<queue, scores>>
    BY <1>3 DEF Redeem, firestore
  <2>2. \A u \in Uids : Durable(u)' = Durable(u)
    BY <2>1, LedgerSame
  <2>3. CASE earned' = earned
    BY <1>1, <2>2, <2>3
  <2>4. CASE earned' # earned
    <3>1. /\ userUID[d] \in Uids /\ result[d] \in Stickers
          /\ earned' = [earned EXCEPT ![userUID[d]] = @ \cup {result[d]}]
      BY <1>3, <2>4 DEF Redeem, TypeOK, Types, Owners
    <3>2. D' = D
      BY <2>2
    <3>3. LedgerOfScores!Earn(userUID[d], result[d])
      BY <3>1, <3>2 DEF LedgerOfScores!Earn
    <3> QED BY <3>1, <3>3 DEF LedgerOfScores!Next
  <2> QED BY <2>3, <2>4
<1>4. ASSUME NEW d \in Devices, NEW c \in Calls, GetCallback(d, c)
      PROVE  [LedgerOfScores!Next]_<<earned, D>>
  <2>1. PICK u \in Uids, s \in Stickers :
             /\ s \in earned[u] /\ earned' = earned
             /\ \A v \in Uids : Durable(v)' = Durable(v) \cup {x \in {s} : u = v}
    BY <1>4, LedgerEnters
  <2>2. D' = [D EXCEPT ![u] = @ \cup {s}]
    <3>1. \A v \in Uids : D'[v] = [D EXCEPT ![u] = @ \cup {s}][v]
      BY <2>1
    <3> QED BY <3>1
  <2>3. LedgerOfScores!Enter(u, s)
    BY <2>1, <2>2 DEF LedgerOfScores!Enter
  <2> QED BY <2>3 DEF LedgerOfScores!Next
<1>5. ASSUME NEW d \in Devices, ServerApply(d) \/ ServerAck(d)
      PROVE  UNCHANGED <<earned, D>>
  <2>1. earned' = earned
    BY <1>5 DEF ServerApply, ServerAck
  <2> QED BY <1>1, <1>5, <2>1, LedgerMoves
<1>6. CASE UNCHANGED vars
  BY <1>2, <1>6 DEF vars
<1>7. CASE Next
  <2>1. PICK d \in Devices :
        \/ Redeem(d)
        \/ \E c \in Calls : GetCallback(d, c)
        \/ ServerApply(d) \/ ServerAck(d)
        \/ UNCHANGED <<earned, queue, scores>>
    <3>1. PICK d \in Devices : Next!(d)
      BY <1>7 DEF Next
    <3>2. \A u \in Uids : ~SignIn(d, u) /\ ~StoreUid(d, u) /\ ~AccountGone(d, u)
      BY DEF Serial, SignIn, StoreUid, AccountGone
    <3>3. ~ClearUid(d) /\ ~ServerReject(d)
      BY NeverRefused DEF Serial, ClearUid
    <3>4. \A s \in Stickers : OpenResult(d, s) => UNCHANGED <<earned, queue, scores>>
      BY DEF OpenResult, firestore
    <3>5. \A c \in Calls : GetOnline(d, c) \/ GetOffline(d, c) => UNCHANGED <<earned, queue, scores>>
      BY DEF GetOnline, GetOffline, firestore
    <3>6. OpenGallery(d) \/ Reset(d) \/ StreamBreak(d) \/ Kill(d) => UNCHANGED <<earned, queue, scores>>
      BY DEF OpenGallery, Reset, StreamBreak, Kill, firestore
    <3> QED BY <3>1, <3>2, <3>3, <3>4, <3>5, <3>6
  <2> QED BY <1>2, <1>3, <1>4, <1>5, <2>1
<1> QED BY <1>6, <1>7

\* Where each account is used on one device with one read in flight and the
\* server refuses nothing, the read-then-write of redeemButtonTapped and the
\* outbox implement the ledger: what was earned and queued is never lost.
THEOREM LedgerImplemented == Serial => (Spec => ImplementsLedger)
<1> SUFFICES ASSUME Serial PROVE Spec => ImplementsLedger
  OBVIOUS
<1>1. Init => LedgerOfScores!Init
  <2> SUFFICES ASSUME Init PROVE LedgerOfScores!Init
    OBVIOUS
  <2>1. \A u \in Uids : Durable(u) = {}
    BY DEF Init, Durable, Pending, Elems
  <2> QED BY <2>1 DEF Init, LedgerOfScores!Init
<1>2. Init => TypeOK /\ KeptInv /\ EarnedFirst
  BY TypeInit, KeptInit, EarnedInit
<1>3. TypeOK /\ KeptInv /\ EarnedFirst /\ [Next]_vars => (TypeOK /\ KeptInv /\ EarnedFirst)'
  BY TypeStep, KeptStep, EarnedStep
<1>4. TypeOK /\ KeptInv /\ EarnedFirst /\ [Next]_vars
        => [LedgerOfScores!Next]_<<earned, [u \in Uids |-> Durable(u)]>>
  BY LedgerStep
<1> QED BY <1>1, <1>2, <1>3, <1>4, PTL DEF Spec, ImplementsLedger, LedgerOfScores!Spec

=============================================================================
