--------------------------- MODULE ScoreSync_proofs ---------------------------
(***************************************************************************)
(* Machine-checked proofs about ScoreSync.                                 *)
(***************************************************************************)
EXTENDS ScoreSync, TLAPS

-----------------------------------------------------------------------------
(* Facts about the data. *)

\* Completing a waiting call gives a call.
LEMMA CompletedType ==
    ASSUME NEW k \in Call, k.phase = "waiting", NEW p \in {"found", "missing"}
    PROVE  [k EXCEPT !.phase = p] \in Call
  BY DEF Call, NoCall

\* The write a completed call asks for is a write.
LEMMA WriteForType ==
    ASSUME NEW k \in Call, k.phase \in {"found", "missing"}
    PROVE  WriteFor(k) \in Write
  BY DEF Call, NoCall, WriteFor, Write

\* A call that is not idle names an account and a sticker.
LEMMA BusyCallType ==
    ASSUME NEW k \in Call, k # NoCall
    PROVE  k.uid \in Uids /\ k.sticker \in Stickers
  BY DEF Call

\* What the server stores is an array of stickers, with the old entries (if
\* the write is a union) and the new one.
LEMMA StoredType ==
    ASSUME NEW w \in Write, NEW array \in Seq(Stickers)
    PROVE  Stored(w, array) \in Seq(Stickers)
  BY DEF Stored, Write

-----------------------------------------------------------------------------
(* Type correctness. *)

\* The session actions and Kill: nothing but the signed-in user and the
\* process state changes, and the stream counter is reset where it must be.
LEMMA TypeSession ==
    ASSUME TypeOK, NEW d \in Devices,
           \/ \E u \in Uids : SignIn(d, u) \/ StoreUid(d, u) \/ AccountGone(d, u)
           \/ ClearUid(d) \/ Kill(d)
    PROVE  TypeOK'
<1> USE DEF TypeOK
<1>1. Types'
  <2> USE DEF Types, session, firestore, Owners
  <2>1. CASE \E u \in Uids : SignIn(d, u)
    <3>1. PICK u \in Uids : SignIn(d, u)
      BY <2>1
    <3>2. auth' \in [Devices -> Owners]
      BY <3>1 DEF SignIn, Become
    <3>3. applied' \in [Devices -> Nat]
      BY <3>1 DEF SignIn, Become
    <3> QED BY <3>1, <3>2, <3>3 DEF SignIn
  <2>2. CASE \E u \in Uids : StoreUid(d, u)
    BY <2>2 DEF StoreUid
  <2>3. CASE ClearUid(d)
    BY <2>3 DEF ClearUid
  <2>4. CASE \E u \in Uids : AccountGone(d, u)
    <3>1. PICK u \in Uids : AccountGone(d, u)
      BY <2>4
    <3>2. auth' \in [Devices -> Owners]
      BY <3>1 DEF AccountGone, Become
    <3>3. applied' \in [Devices -> Nat]
      BY <3>1 DEF AccountGone, Become
    <3>4. accounts' \in SUBSET Uids
      BY <3>1 DEF AccountGone
    <3> QED BY <3>1, <3>2, <3>3, <3>4 DEF AccountGone
  <2>5. CASE Kill(d)
    <3>1. [c \in Calls |-> NoCall] \in [Calls -> Call]
      BY DEF Call
    <3>2. call' \in [Devices -> [Calls -> Call]]
      BY <2>5, <3>1 DEF Kill
    <3> QED BY <2>5, <3>2 DEF Kill
  <2> QED BY <2>1, <2>2, <2>3, <2>4, <2>5
<1>2. queue' = queue
  BY DEF SignIn, StoreUid, ClearUid, AccountGone, Kill, firestore
<1>3. \A e \in Devices : \/ auth'[e] = auth[e] /\ applied'[e] = applied[e]
                         \/ applied'[e] = 0
  BY ScoreSyncAssumption DEF Types, SignIn, StoreUid, ClearUid, AccountGone, Kill, Become,
         session, firestore
<1>4. ASSUME NEW e \in Devices PROVE applied'[e] <= Len(queue'[e][auth'[e]])
  <2>1. queue'[e][auth'[e]] \in Seq(Write)
    BY <1>1 DEF Types
  <2>2. Len(queue'[e][auth'[e]]) \in Nat
    BY <2>1
  <2> QED BY <1>2, <1>3, <2>2
<1> QED BY <1>1, <1>2, <1>4

\* The screens, the redeem handler and the read: only the call slots, the
\* cache and the history change.
LEMMA TypeReads ==
    ASSUME TypeOK, NEW d \in Devices,
           \/ \E s \in Stickers : OpenResult(d, s)
           \/ OpenGallery(d) \/ Reset(d) \/ Redeem(d)
           \/ \E c \in Calls : GetOnline(d, c) \/ GetOffline(d, c)
    PROVE  TypeOK'
<1> USE DEF TypeOK
<1>1. Types'
  <2> USE DEF Types, session, firestore
  <2>1. CASE \E s \in Stickers : OpenResult(d, s)
    BY <2>1 DEF OpenResult
  <2>2. CASE OpenGallery(d)
    BY <2>2 DEF OpenGallery
  <2>3. CASE Reset(d)
    BY <2>3 DEF Reset
  <2>4. CASE Redeem(d)
    <3>1. result[d] \in Stickers
      BY <2>4 DEF Redeem
    <3>2. unlocked' \in [Devices -> SUBSET Stickers]
      BY <2>4, <3>1 DEF Redeem
    <3>3. call' \in [Devices -> [Calls -> Call]] /\ earned' \in [Uids -> SUBSET Stickers]
      <4>1. CASE userUID[d] = NoUid
        BY <2>4, <4>1 DEF Redeem
      <4>2. CASE userUID[d] # NoUid
        <5>1. userUID[d] \in Uids
          BY <4>2 DEF Owners
        <5>2. [phase |-> "waiting", uid |-> userUID[d], sticker |-> result[d]] \in Call
          BY <3>1, <5>1 DEF Call
        <5>3. earned' = [earned EXCEPT ![userUID[d]] = @ \cup {result[d]}]
          BY <2>4, <4>2 DEF Redeem
        <5>4. earned' \in [Uids -> SUBSET Stickers]
          <6>1. earned[userUID[d]] \cup {result[d]} \in SUBSET Stickers
            BY <3>1, <5>1
          <6> QED BY <5>1, <5>3, <6>1
        <5>5. PICK c \in Calls :
                call' = [call EXCEPT ![d][c] =
                  [phase |-> "waiting", uid |-> userUID[d], sticker |-> result[d]]]
          BY <2>4, <4>2 DEF Redeem
        <5>6. call' \in [Devices -> [Calls -> Call]]
          BY <5>2, <5>5
        <5> QED BY <5>4, <5>6
      <4> QED BY <4>1, <4>2
    <3> QED BY <2>4, <3>2, <3>3 DEF Redeem
  <2>5. ASSUME NEW c \in Calls, GetOnline(d, c) \/ GetOffline(d, c)
        PROVE  Types'
    <3>1. call[d][c] \in Call /\ call[d][c].phase = "waiting"
      BY <2>5 DEF GetOnline, GetOffline
    <3>2. call[d][c].uid \in Uids
      BY <3>1, BusyCallType DEF NoCall
    <3>3. \E p \in {"found", "missing"} : call' = [call EXCEPT ![d][c].phase = p]
      BY <2>5 DEF GetOnline, GetOffline, Completed
    <3>4. call' \in [Devices -> [Calls -> Call]]
      <4>1. PICK p \in {"found", "missing"} : call' = [call EXCEPT ![d][c].phase = p]
        BY <3>3
      <4>2. call' = [call EXCEPT ![d][c] = [call[d][c] EXCEPT !.phase = p]]
        BY <4>1
      <4>3. [call[d][c] EXCEPT !.phase = p] \in Call
        BY <3>1, CompletedType
      <4> QED BY <4>2, <4>3
    <3>5. cached' \in [Devices -> SUBSET Uids]
      <4>1. cached[d] \cup {call[d][c].uid} \in SUBSET Uids
        BY <3>2
      <4>2. cached' = cached \/ cached' = [cached EXCEPT ![d] = @ \cup {call[d][c].uid}]
        BY <2>5 DEF GetOnline, GetOffline
      <4> QED BY <4>1, <4>2
    <3> QED BY <2>5, <3>4, <3>5 DEF GetOnline, GetOffline
  <2> QED BY <2>1, <2>2, <2>3, <2>4, <2>5
<1>2. queue' = queue /\ auth' = auth /\ applied' = applied
  BY DEF OpenResult, OpenGallery, Reset, Redeem, GetOnline, GetOffline, session, firestore
<1> QED BY <1>1, <1>2

\* The outbox: the callback lengthens it within the bound, an acknowledgement
\* or a refusal shortens it together with the stream counter.
LEMMA TypeOutbox ==
    ASSUME TypeOK, NEW d \in Devices,
           \/ \E c \in Calls : GetCallback(d, c)
           \/ ServerApply(d) \/ ServerAck(d) \/ ServerReject(d) \/ StreamBreak(d)
    PROVE  TypeOK'
<1> USE ScoreSyncAssumption DEF TypeOK, Types, Outbox, session
<1> DEFINE q == queue[d][auth[d]]
<1>0. q \in Seq(Write) /\ Len(q) \in Nat /\ auth[d] \in Owners
  OBVIOUS
<1>1. CASE \E c \in Calls : GetCallback(d, c)
  <2>1. PICK c \in Calls : GetCallback(d, c)
    BY <1>1
  <2>2. WriteFor(call[d][c]) \in Write
    BY <2>1, WriteForType DEF GetCallback
  <2>3. /\ queue' \in [Devices -> [Owners -> Seq(Write)]]
        /\ queue'[d][auth[d]] = Append(q, WriteFor(call[d][c]))
        /\ \A e \in Devices, u \in Owners :
             ~(e = d /\ u = auth[d]) => queue'[e][u] = queue[e][u]
    BY <1>0, <2>1, <2>2 DEF GetCallback
  <2>4. Len(queue'[d][auth[d]]) = Len(q) + 1 /\ Len(q) < MaxQueue
    BY <1>0, <2>1, <2>2, <2>3 DEF GetCallback
  <2>5. call' \in [Devices -> [Calls -> Call]]
    BY <2>1 DEF GetCallback, Call
  <2>6. \A e \in Devices : \A u \in Owners : Len(queue'[e][u]) <= MaxQueue
    <3> SUFFICES ASSUME NEW e \in Devices, NEW u \in Owners
                 PROVE  Len(queue'[e][u]) <= MaxQueue
      OBVIOUS
    <3>1. CASE e = d /\ u = auth[d]
      BY <1>0, <2>4, <3>1
    <3>2. CASE ~(e = d /\ u = auth[d])
      BY <2>3, <3>2
    <3> QED BY <3>1, <3>2
  <2>7. \A e \in Devices : applied'[e] <= Len(queue'[e][auth'[e]])
    BY <1>0, <2>1, <2>3, <2>4 DEF GetCallback
  <2> QED BY <2>1, <2>3, <2>5, <2>6, <2>7 DEF GetCallback
<1>2. CASE ServerApply(d)
  <2>1. NextWrite(d) \in Write
    BY <1>0, <1>2 DEF ServerApply, NextWrite
  <2>2. scores' \in [Uids -> Seq(Stickers)]
    <3>1. NextWrite(d).uid \in Uids
      BY <2>1 DEF Write
    <3> QED BY <1>2, <2>1, <3>1, StoredType DEF ServerApply
  <2>3. applied' \in [Devices -> Nat]
    BY <1>2 DEF ServerApply
  <2>4. \A e \in Devices : applied'[e] <= Len(queue'[e][auth'[e]])
    BY <1>0, <1>2 DEF ServerApply
  <2> QED BY <1>2, <2>2, <2>3, <2>4 DEF ServerApply
<1>3. CASE ServerAck(d)
  <2>1. q # <<>> /\ Len(q) > 0
    BY <1>0, <1>3 DEF ServerAck
  <2>2. Head(q) \in Write /\ Tail(q) \in Seq(Write) /\ Len(Tail(q)) = Len(q) - 1
    BY <1>0, <2>1
  <2>3. /\ queue' \in [Devices -> [Owners -> Seq(Write)]]
        /\ queue'[d][auth[d]] = Tail(q)
        /\ \A e \in Devices, u \in Owners :
             ~(e = d /\ u = auth[d]) => queue'[e][u] = queue[e][u]
    BY <1>0, <1>3, <2>2 DEF ServerAck
  <2>4. Head(q).uid \in Uids /\ Head(q).sticker \in Stickers
    BY <2>2 DEF Write
  <2>5. cached' \in [Devices -> SUBSET Uids] /\ confirmed' \in [Uids -> SUBSET Stickers]
    BY <1>3, <2>4 DEF ServerAck
  <2>6. applied' \in [Devices -> Nat] /\ applied'[d] = applied[d] - 1
    BY <1>3 DEF ServerAck
  <2>7. \A e \in Devices : \A u \in Owners : Len(queue'[e][u]) <= MaxQueue
    <3> SUFFICES ASSUME NEW e \in Devices, NEW u \in Owners
                 PROVE  Len(queue'[e][u]) <= MaxQueue
      OBVIOUS
    <3>1. Len(q) <= MaxQueue
      BY <1>0
    <3>2. CASE e = d /\ u = auth[d]
      <4>1. Len(queue'[e][u]) = Len(q) - 1
        BY <2>2, <2>3, <3>2
      <4> HIDE DEF TypeOK, Types, q
      <4> QED BY <1>0, <3>1, <4>1
    <3>3. CASE ~(e = d /\ u = auth[d])
      BY <2>3, <3>3
    <3> QED BY <3>2, <3>3
  <2>8. \A e \in Devices : applied'[e] <= Len(queue'[e][auth'[e]])
    BY <1>0, <1>3, <2>2, <2>3, <2>6 DEF ServerAck
  <2> QED BY <1>3, <2>3, <2>5, <2>6, <2>7, <2>8 DEF ServerAck
<1>4. CASE ServerReject(d)
  <2>1. q # <<>> /\ Len(q) > 0
    BY <1>0, <1>4 DEF ServerReject
  <2>2. Tail(q) \in Seq(Write) /\ Len(Tail(q)) = Len(q) - 1
    BY <1>0, <2>1
  <2>3. /\ queue' \in [Devices -> [Owners -> Seq(Write)]]
        /\ queue'[d][auth[d]] = Tail(q)
        /\ \A e \in Devices, u \in Owners :
             ~(e = d /\ u = auth[d]) => queue'[e][u] = queue[e][u]
    BY <1>0, <1>4, <2>2 DEF ServerReject
  <2>4. \A e \in Devices : \A u \in Owners : Len(queue'[e][u]) <= MaxQueue
    <3> SUFFICES ASSUME NEW e \in Devices, NEW u \in Owners
                 PROVE  Len(queue'[e][u]) <= MaxQueue
      OBVIOUS
    <3>1. Len(q) <= MaxQueue
      BY <1>0
    <3>2. CASE e = d /\ u = auth[d]
      <4>1. Len(queue'[e][u]) = Len(q) - 1
        BY <2>2, <2>3, <3>2
      <4> HIDE DEF TypeOK, Types, q
      <4> QED BY <1>0, <3>1, <4>1
    <3>3. CASE ~(e = d /\ u = auth[d])
      BY <2>3, <3>3
    <3> QED BY <3>2, <3>3
  <2>5. \A e \in Devices : applied'[e] <= Len(queue'[e][auth'[e]])
    BY <1>0, <1>4, <2>1, <2>2, <2>3 DEF ServerReject
  <2> QED BY <1>4, <2>3, <2>4, <2>5 DEF ServerReject
<1>5. CASE StreamBreak(d)
  <2>1. applied' \in [Devices -> Nat]
    BY <1>5 DEF StreamBreak
  <2>2. \A e \in Devices : applied'[e] <= Len(queue'[e][auth'[e]])
    BY <1>0, <1>5 DEF StreamBreak
  <2> QED BY <1>5, <2>1, <2>2 DEF StreamBreak
<1> QED BY <1>1, <1>2, <1>3, <1>4, <1>5

\* Every step, and a stuttering one, keeps the types.
LEMMA TypeStep == TypeOK /\ [Next]_vars => TypeOK'
<1> SUFFICES ASSUME TypeOK, [Next]_vars PROVE TypeOK'
  OBVIOUS
<1>1. CASE UNCHANGED vars
  BY <1>1 DEF vars, TypeOK, Types
<1>2. CASE Next
  BY <1>2, TypeSession, TypeReads, TypeOutbox DEF Next
<1> QED BY <1>1, <1>2

\* The initial values have their types.
LEMMA TypeInit == Init => TypeOK
<1> SUFFICES ASSUME Init PROVE TypeOK
  OBVIOUS
<1>1. Types
  <2>1. call \in [Devices -> [Calls -> Call]]
    BY DEF Init, Call
  <2>2. queue \in [Devices -> [Owners -> Seq(Write)]]
    BY DEF Init
  <2> QED BY <2>1, <2>2, ScoreSyncAssumption DEF Init, Types
<1>2. \A d \in Devices : \A u \in Owners : queue[d][u] = <<>>
  BY DEF Init
<1>3. \A d \in Devices : applied[d] = 0 /\ auth[d] \in Owners
  BY DEF Init
<1> QED BY <1>1, <1>2, <1>3, ScoreSyncAssumption DEF TypeOK

\* Every reachable state is well typed, no outbox passes its bound, and the
\* stream counter never passes the outbox it belongs to, whatever accounts
\* sign in and out between the sends.
THEOREM TypeCorrect == Spec => []TypeOK
  BY TypeInit, TypeStep, PTL DEF Spec

-----------------------------------------------------------------------------
(* Scores are earned. *)

\* What the server stores holds nothing but the old entries and the new one,
\* and the new one is there.
LEMMA StoredElems ==
    ASSUME NEW w \in Write, NEW array \in Seq(Stickers)
    PROVE  /\ Elems(Stored(w, array)) \subseteq Elems(array) \cup {w.sticker}
           /\ w.sticker \in Elems(Stored(w, array))
           /\ w.op = "union" => Elems(array) \subseteq Elems(Stored(w, array))
           /\ Stored(w, array) # <<>>
<1>0. w.sticker \in Stickers
  BY DEF Write
<1>1. CASE w.op = "set"
  <2>1. Stored(w, array) = <<w.sticker>>
    BY <1>1 DEF Stored
  <2> QED BY <1>1, <2>1 DEF Elems
<1>2. CASE w.op # "set" /\ w.sticker \in Elems(array)
  BY <1>2 DEF Stored, Elems
<1>3. CASE w.op # "set" /\ w.sticker \notin Elems(array)
  <2>1. Stored(w, array) = Append(array, w.sticker)
    BY <1>3 DEF Stored
  <2>2. /\ DOMAIN Append(array, w.sticker) = 1..(Len(array) + 1)
        /\ DOMAIN array = 1..Len(array)
        /\ Len(array) \in Nat
        /\ \A i \in 1..Len(array) : Append(array, w.sticker)[i] = array[i]
        /\ Append(array, w.sticker)[Len(array) + 1] = w.sticker
    BY <1>0
  <2>3. Append(array, w.sticker) # <<>>
    BY <1>0
  <2> QED BY <2>1, <2>2, <2>3 DEF Elems
<1> QED BY <1>1, <1>2, <1>3

\* Every entry of every outbox is a write.
LEMMA EntryType ==
    ASSUME TypeOK, NEW d \in Devices, NEW v \in Owners, NEW i \in DOMAIN queue[d][v]
    PROVE  /\ queue[d][v][i] \in Write
           /\ queue[d][v][i].uid \in Uids
           /\ queue[d][v][i].sticker \in Stickers
<1>1. queue[d][v] \in Seq(Write)
  BY DEF TypeOK, Types
<1>2. queue[d][v][i] \in Write
  BY <1>1
<1> QED BY <1>2 DEF Write

\* Every step keeps what is stored, queued or being read among the earned:
\* a redemption earns first, and the rest only moves what was earned.
LEMMA EarnedStep == TypeOK /\ EarnedFirst /\ [Next]_vars => EarnedFirst'
<1> SUFFICES ASSUME TypeOK, EarnedFirst, [Next]_vars PROVE EarnedFirst'
  OBVIOUS
<1> USE DEF EarnedFirst, ScoresEarned, session, firestore
<1>0. TypeOK'
  BY TypeStep
<1>1. CASE UNCHANGED vars
  BY <1>1 DEF vars
<1>2. ASSUME NEW d \in Devices,
             \/ \E s \in Stickers : OpenResult(d, s)
             \/ OpenGallery(d) \/ Reset(d) \/ StreamBreak(d)
             \/ \E u \in Uids : SignIn(d, u) \/ StoreUid(d, u) \/ AccountGone(d, u)
             \/ ClearUid(d)
      PROVE  EarnedFirst'
  <2>1. UNCHANGED <<call, queue, scores, earned>>
    BY <1>2 DEF OpenResult, OpenGallery, Reset, StreamBreak, SignIn, StoreUid,
                ClearUid, AccountGone
  <2> QED BY <2>1
<1>3. ASSUME NEW d \in Devices, Kill(d) PROVE EarnedFirst'
  <2>1. UNCHANGED <<queue, scores, earned>>
    BY <1>3 DEF Kill
  <2>2. \A e \in Devices, c \in Calls : call'[e][c] = call[e][c] \/ call'[e][c] = NoCall
    BY <1>3 DEF Kill, TypeOK, Types
  <2> QED BY <2>1, <2>2
<1>4. ASSUME NEW d \in Devices, Redeem(d) PROVE EarnedFirst'
  <2>1. UNCHANGED <<queue, scores>>
    BY <1>4 DEF Redeem
  <2>2. CASE userUID[d] = NoUid
    BY <1>4, <2>1, <2>2 DEF Redeem
  <2>3. CASE userUID[d] # NoUid
    <3>1. userUID[d] \in Uids
      BY <2>3 DEF TypeOK, Types, Owners
    <3>2. earned' = [earned EXCEPT ![userUID[d]] = @ \cup {result[d]}]
      BY <1>4, <2>3 DEF Redeem
    <3>3. /\ \A u \in Uids : earned[u] \subseteq earned'[u]
          /\ result[d] \in earned'[userUID[d]]
      BY <3>1, <3>2 DEF TypeOK, Types
    <3>4. PICK c \in Calls :
            call' = [call EXCEPT ![d][c] =
              [phase |-> "waiting", uid |-> userUID[d], sticker |-> result[d]]]
      BY <1>4, <2>3 DEF Redeem
    <3>5. \A e \in Devices, k \in Calls :
            \/ call'[e][k] = call[e][k]
            \/ call'[e][k].uid = userUID[d] /\ call'[e][k].sticker = result[d]
      BY <3>4 DEF TypeOK, Types
    <3>6. \A e \in Devices, k \in Calls : call[e][k] # NoCall => call[e][k].uid \in Uids
      BY BusyCallType DEF TypeOK, Types
    <3>7. \A e \in Devices, k \in Calls :
            call'[e][k] # NoCall => call'[e][k].sticker \in earned'[call'[e][k].uid]
      BY <3>3, <3>5, <3>6
    <3>8. \A e \in Devices, v \in Owners : \A i \in DOMAIN queue[e][v] :
            queue[e][v][i].uid \in Uids
      BY EntryType
    <3> QED BY <2>1, <3>3, <3>7, <3>8
  <2> QED BY <2>2, <2>3
<1>5. ASSUME NEW d \in Devices, NEW c \in Calls, GetOnline(d, c) \/ GetOffline(d, c)
      PROVE  EarnedFirst'
  <2>1. UNCHANGED <<queue, scores, earned>>
    BY <1>5 DEF GetOnline, GetOffline
  <2>2. PICK p \in {"found", "missing"} : call' = [call EXCEPT ![d][c].phase = p]
    BY <1>5 DEF GetOnline, GetOffline, Completed
  <2>3. call[d][c] \in Call /\ call[d][c].phase = "waiting"
    BY <1>5 DEF GetOnline, GetOffline, TypeOK, Types
  <2>4. /\ call'[d][c] = [call[d][c] EXCEPT !.phase = p]
        /\ \A e \in Devices, k \in Calls : ~(e = d /\ k = c) => call'[e][k] = call[e][k]
    BY <2>2 DEF TypeOK, Types
  <2>5. call[d][c] # NoCall
    BY <2>3 DEF NoCall
  <2>6. call'[d][c].uid = call[d][c].uid /\ call'[d][c].sticker = call[d][c].sticker
    BY <2>3, <2>4 DEF Call, NoCall
  <2>7. \A e \in Devices, k \in Calls :
            call'[e][k] # NoCall => call'[e][k].sticker \in earned'[call'[e][k].uid]
    <3> SUFFICES ASSUME NEW e \in Devices, NEW k \in Calls, call'[e][k] # NoCall
                 PROVE  call'[e][k].sticker \in earned[call'[e][k].uid]
      BY <2>1
    <3>1. CASE e = d /\ k = c
      BY <2>5, <2>6, <3>1
    <3>2. CASE ~(e = d /\ k = c)
      BY <2>4, <3>2
    <3> QED BY <3>1, <3>2
  <2> QED BY <2>1, <2>7
<1>6. ASSUME NEW d \in Devices, NEW c \in Calls, GetCallback(d, c) PROVE EarnedFirst'
  <2>1. UNCHANGED <<scores, earned>>
    BY <1>6 DEF GetCallback
  <2>2. \A e \in Devices, k \in Calls : call'[e][k] = call[e][k] \/ call'[e][k] = NoCall
    BY <1>6 DEF GetCallback, TypeOK, Types
  <2> DEFINE q == queue[d][auth[d]]
             w == WriteFor(call[d][c])
  <2>3. q \in Seq(Write) /\ auth[d] \in Owners
    BY DEF TypeOK, Types
  <2>4. w \in Write
    BY <1>6, WriteForType DEF GetCallback, TypeOK, Types
  <2>5. w.sticker \in earned[w.uid]
    BY <1>6 DEF GetCallback, WriteFor, NoCall
  <2>6. /\ queue'[d][auth[d]] = Append(q, w)
        /\ \A e \in Devices, v \in Owners :
             ~(e = d /\ v = auth[d]) => queue'[e][v] = queue[e][v]
    BY <1>6, <2>3 DEF GetCallback, Outbox, TypeOK, Types
  <2>7. \A i \in DOMAIN Append(q, w) : Append(q, w)[i] = w \/ (i \in DOMAIN q /\ Append(q, w)[i] = q[i])
    BY <2>3, <2>4
  <2>8. \A e \in Devices, v \in Owners : \A i \in DOMAIN queue'[e][v] :
          queue'[e][v][i].sticker \in earned[queue'[e][v][i].uid]
    <3> SUFFICES ASSUME NEW e \in Devices, NEW v \in Owners, NEW i \in DOMAIN queue'[e][v]
                 PROVE  queue'[e][v][i].sticker \in earned[queue'[e][v][i].uid]
      OBVIOUS
    <3>1. CASE e = d /\ v = auth[d]
      BY ZenonT(60), <2>3, <2>5, <2>6, <2>7, <3>1
    <3>2. CASE ~(e = d /\ v = auth[d])
      BY <2>6, <3>2
    <3> QED BY <3>1, <3>2
  <2> QED BY <2>1, <2>2, <2>8
<1>7. ASSUME NEW d \in Devices, ServerApply(d) PROVE EarnedFirst'
  <2>1. UNCHANGED <<call, queue, earned>>
    BY <1>7 DEF ServerApply
  <2> DEFINE w == NextWrite(d)
  <2>2. applied[d] + 1 \in DOMAIN queue[d][auth[d]] /\ auth[d] \in Owners
    BY <1>7 DEF ServerApply, Outbox, TypeOK, Types
  <2>3. w \in Write /\ w.sticker \in earned[w.uid]
    BY <2>2 DEF NextWrite, Outbox, TypeOK, Types
  <2>4. w.uid \in Uids
    BY <2>3 DEF Write
  <2>5. scores' = [scores EXCEPT ![w.uid] = Stored(w, @)]
    BY <1>7 DEF ServerApply
  <2>6. Elems(scores'[w.uid]) \subseteq Elems(scores[w.uid]) \cup {w.sticker}
    BY <2>3, <2>4, <2>5, StoredElems DEF TypeOK, Types
  <2>7. \A u \in Uids : u # w.uid => scores'[u] = scores[u]
    BY <2>4, <2>5 DEF TypeOK, Types
  <2>8. \A u \in Uids : Elems(scores'[u]) \subseteq earned[u]
    BY <2>3, <2>6, <2>7
  <2> QED BY <2>1, <2>8
<1>8. ASSUME NEW d \in Devices, ServerAck(d) \/ ServerReject(d) PROVE EarnedFirst'
  <2>1. UNCHANGED <<call, scores, earned>>
    BY <1>8 DEF ServerAck, ServerReject
  <2> DEFINE q == queue[d][auth[d]]
  <2>2. q \in Seq(Write) /\ auth[d] \in Owners
    BY DEF TypeOK, Types
  <2>3. q # <<>>
    BY <1>8, <2>2 DEF ServerAck, ServerReject, Outbox, TypeOK, Types
  <2>4. \A i \in DOMAIN Tail(q) : i + 1 \in DOMAIN q /\ Tail(q)[i] = q[i + 1]
    BY <2>2, <2>3
  <2>5. /\ queue'[d][auth[d]] = Tail(q)
        /\ \A e \in Devices, v \in Owners :
             ~(e = d /\ v = auth[d]) => queue'[e][v] = queue[e][v]
    <3>1. queue' = [queue EXCEPT ![d][auth[d]] = Tail(@)]
      BY <1>8 DEF ServerAck, ServerReject
    <3>2. Tail(q) \in Seq(Write)
      BY <2>2, <2>3
    <3> HIDE DEF EarnedFirst, ScoresEarned
    <3> QED BY <2>2, <3>1, <3>2 DEF TypeOK, Types
  <2>6. \A e \in Devices, v \in Owners : \A i \in DOMAIN queue'[e][v] :
          queue'[e][v][i].sticker \in earned[queue'[e][v][i].uid]
    <3> SUFFICES ASSUME NEW e \in Devices, NEW v \in Owners, NEW i \in DOMAIN queue'[e][v]
                 PROVE  queue'[e][v][i].sticker \in earned[queue'[e][v][i].uid]
      OBVIOUS
    <3>1. CASE e = d /\ v = auth[d]
      <4>1. i + 1 \in DOMAIN q /\ queue'[e][v][i] = q[i + 1]
        BY <2>4, <2>5, <3>1
      <4>2. q[i + 1].sticker \in earned[q[i + 1].uid]
        BY <2>2, <4>1
      <4> QED BY <4>1, <4>2
    <3>2. CASE ~(e = d /\ v = auth[d])
      BY <2>5, <3>2
    <3> QED BY <3>1, <3>2
  <2> QED BY <2>1, <2>6
<1> QED BY <1>1, <1>2, <1>3, <1>4, <1>5, <1>6, <1>7, <1>8 DEF Next

\* Nothing is stored, queued or being read at the start.
LEMMA EarnedInit == Init => EarnedFirst
  BY DEF Init, EarnedFirst, ScoresEarned, Elems

\* In every environment - accounts switching while reads are in flight, any
\* number of devices sharing an account, kills, resends, refusals - a score
\* is only ever credited to an account that redeemed its sticker.
THEOREM ScoresAreEarned == Spec => []ScoresEarned
<1>1. Spec => [](TypeOK /\ EarnedFirst)
  BY TypeInit, TypeStep, EarnedInit, EarnedStep, PTL DEF Spec
<1>2. EarnedFirst => ScoresEarned
  BY DEF EarnedFirst
<1> QED BY <1>1, <1>2, PTL

-----------------------------------------------------------------------------
(* No sticker is counted twice. *)

\* Storing a write keeps an array free of duplicates.
LEMMA StoredOnce ==
    ASSUME NEW w \in Write, NEW array \in Seq(Stickers),
           \A i, j \in DOMAIN array : array[i] = array[j] => i = j
    PROVE  \A i, j \in DOMAIN Stored(w, array) :
             Stored(w, array)[i] = Stored(w, array)[j] => i = j
<1>0. w.sticker \in Stickers
  BY DEF Write
<1>1. CASE w.op = "set"
  BY <1>1 DEF Stored
<1>2. CASE w.op # "set" /\ w.sticker \in Elems(array)
  BY <1>2 DEF Stored
<1>3. CASE w.op # "set" /\ w.sticker \notin Elems(array)
  <2>1. Stored(w, array) = Append(array, w.sticker)
    BY <1>3 DEF Stored
  <2>2. \A i \in DOMAIN array : array[i] # w.sticker
    BY <1>3 DEF Elems
  <2> QED BY <1>0, <2>1, <2>2
<1> QED BY <1>1, <1>2, <1>3

\* Only ServerApply changes an array, and it stores one write.
LEMMA OnceStep == TypeOK /\ NoDoubleCredit /\ [Next]_vars => NoDoubleCredit'
<1> SUFFICES ASSUME TypeOK, NoDoubleCredit, [Next]_vars PROVE NoDoubleCredit'
  OBVIOUS
<1>1. CASE scores' = scores
  BY <1>1 DEF NoDoubleCredit
<1>2. ASSUME NEW d \in Devices, ServerApply(d) PROVE NoDoubleCredit'
  <2> DEFINE w == NextWrite(d)
  <2>1. applied[d] + 1 \in DOMAIN queue[d][auth[d]] /\ auth[d] \in Owners
    BY <1>2 DEF ServerApply, Outbox, TypeOK, Types
  <2>2. w \in Write /\ w.uid \in Uids
    BY <2>1, EntryType DEF NextWrite, Outbox
  <2>3. scores' = [scores EXCEPT ![w.uid] = Stored(w, @)]
    BY <1>2 DEF ServerApply
  <2>4. scores[w.uid] \in Seq(Stickers)
    BY <2>2 DEF TypeOK, Types
  <2>5. scores'[w.uid] = Stored(w, scores[w.uid])
    BY <2>2, <2>3 DEF TypeOK, Types
  <2>6. \A u \in Uids : u # w.uid => scores'[u] = scores[u]
    BY <2>2, <2>3 DEF TypeOK, Types
  <2>7. \A i, j \in DOMAIN scores'[w.uid] : scores'[w.uid][i] = scores'[w.uid][j] => i = j
    <3>1. \A i, j \in DOMAIN scores[w.uid] : scores[w.uid][i] = scores[w.uid][j] => i = j
      BY <2>2 DEF NoDoubleCredit
    <3> HIDE DEF w
    <3> QED BY <2>2, <2>4, <2>5, <3>1, StoredOnce
  <2> QED BY <2>6, <2>7 DEF NoDoubleCredit
<1>3. scores' = scores \/ \E d \in Devices : ServerApply(d)
  BY DEF Next, vars, firestore, OpenResult, OpenGallery, Reset, Redeem, GetOnline,
         GetOffline, GetCallback, ServerAck, ServerReject, StreamBreak, SignIn, StoreUid,
         ClearUid, AccountGone, Kill
<1> QED BY <1>1, <1>2, <1>3

\* However often a sticker is redeemed again or a write is sent again, in any
\* environment, an account's array counts every sticker at most once.
THEOREM CreditedOnce == Spec => []NoDoubleCredit
<1>1. Init => NoDoubleCredit
  BY DEF Init, NoDoubleCredit
<1> QED BY <1>1, TypeInit, TypeStep, OnceStep, PTL DEF Spec

=============================================================================
