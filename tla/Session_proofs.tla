---------------------------- MODULE Session_proofs ----------------------------
(***************************************************************************)
(* Machine-checked proofs about Session.                                   *)
(***************************************************************************)
EXTENDS Session, SequenceTheorems, TLAPS

-----------------------------------------------------------------------------
(* The inductive invariant. *)

\* A tab bar that is appearing shows Home.
AppearingHome == appearing => leaf = "home"

\* A callback waits on the main thread for a call that was answered, once.
AnswersWait ==
    /\ \A i \in DOMAIN answers : call[answers[i]].phase \in {"ok", "failed"}
    /\ \A i, j \in DOMAIN answers : answers[i] = answers[j] => i = j

\* The profile of a registration that was answered is still to be added, and
\* every profile added or to be added is of an account that was created.
ProfilesDue ==
    /\ \A c \in Calls : Answered(c, "signup") =>
         /\ call[c].uid \in used
         /\ call[c].uid \notin outbox
         /\ \A x \in docs : x.uid # call[c].uid
         /\ \A e \in Calls : Answered(e, "signup") /\ call[e].uid = call[c].uid => e = c
    /\ outbox \subseteq used
    /\ \A x \in docs : x.uid \in used

\* The callback at i of the queue is the last that will store or forget a uid.
LastOk(i) ==
    /\ call[answers[i]].phase = "ok"
    /\ \A j \in DOMAIN answers : i < j => call[answers[j]].phase # "ok"

\* u has an account, and is signed in or was signed out by Firebase.
Settled(u) == u \in accounts /\ (auth = u \/ (auth = NoUid /\ expelled))

\* The uid that will be stored once the queue has run is settled; none will be
\* stored only if nobody is signed in or a deletion forgot the uid.
UidSettles ==
    ~interrupted =>
      /\ \A i \in DOMAIN answers :
           LastOk(i) /\ call[answers[i]].kind \in {"login", "signup"} =>
             Settled(call[answers[i]].uid)
      /\ (\A i \in DOMAIN answers : call[answers[i]].phase # "ok") =>
             IF userUID = NoUid THEN auth = NoUid \/ forgotten ELSE Settled(userUID)

SessionInv ==
    /\ TypeOK
    /\ AppearingHome
    /\ AnswersWait
    /\ ProfilesDue
    /\ OneProfile
    /\ UidSettles

-----------------------------------------------------------------------------
(* Calls. *)

\* The same call, up to what is known of its screen and its user object.
SameCall(x, y) == x.kind = y.kind /\ x.uid = y.uid /\ x.phase = y.phase

\* The screen of a call is left.
LEMMA LiveOff ==
    ASSUME NEW x \in Call
    PROVE  [x EXCEPT !.live = FALSE] \in Call /\ SameCall([x EXCEPT !.live = FALSE], x)
<1> DEFINE y == [x EXCEPT !.live = FALSE]
<1>1. CASE x = NoCall
  <2>0. /\ NoCall \in [kind : {"none"}, uid : {NoUid}, phase : {"idle"},
                      live : {FALSE}, current : {FALSE}]
        /\ NoCall.live = FALSE /\ NoCall.current = FALSE
    BY DEF NoCall
  <2>1. y = NoCall
    BY <1>1, <2>0
  <2> QED BY <1>1, <2>1 DEF SameCall
<1>2. CASE x \in [kind : Kinds, uid : Uids, phase : {"sent", "ok", "failed"},
                  live : BOOLEAN, current : BOOLEAN]
  <2>1. /\ y \in [kind : Kinds, uid : Uids, phase : {"sent", "ok", "failed"},
                  live : BOOLEAN, current : BOOLEAN]
        /\ y.kind = x.kind /\ y.uid = x.uid /\ y.phase = x.phase
    BY <1>2
  <2> QED BY <2>1 DEF Call, SameCall
<1> QED BY <1>1, <1>2 DEF Call

\* The user object of a call is no longer the signed-in one.
LEMMA CurrentOff ==
    ASSUME NEW x \in Call
    PROVE  [x EXCEPT !.current = FALSE] \in Call /\ SameCall([x EXCEPT !.current = FALSE], x)
<1> DEFINE y == [x EXCEPT !.current = FALSE]
<1>1. CASE x = NoCall
  <2>0. /\ NoCall \in [kind : {"none"}, uid : {NoUid}, phase : {"idle"},
                      live : {FALSE}, current : {FALSE}]
        /\ NoCall.live = FALSE /\ NoCall.current = FALSE
    BY DEF NoCall
  <2>1. y = NoCall
    BY <1>1, <2>0
  <2> QED BY <1>1, <2>1 DEF SameCall
<1>2. CASE x \in [kind : Kinds, uid : Uids, phase : {"sent", "ok", "failed"},
                  live : BOOLEAN, current : BOOLEAN]
  <2>1. /\ y \in [kind : Kinds, uid : Uids, phase : {"sent", "ok", "failed"},
                  live : BOOLEAN, current : BOOLEAN]
        /\ y.kind = x.kind /\ y.uid = x.uid /\ y.phase = x.phase
    BY <1>2
  <2> QED BY <2>1 DEF Call, SameCall
<1> QED BY <1>1, <1>2 DEF Call

\* A call under way changes its phase.
LEMMA PhaseSet ==
    ASSUME NEW x \in Call, x.phase # "idle", NEW p \in {"sent", "ok", "failed"}
    PROVE  LET y == [x EXCEPT !.phase = p]
               z == [x EXCEPT !.current = FALSE, !.phase = p]
           IN  /\ y \in Call /\ y.kind = x.kind /\ y.uid = x.uid /\ y.phase = p
               /\ z \in Call /\ z.kind = x.kind /\ z.uid = x.uid /\ z.phase = p
               /\ x.uid \in Uids /\ x.kind \in Kinds
<1>1. x \in [kind : Kinds, uid : Uids, phase : {"sent", "ok", "failed"},
             live : BOOLEAN, current : BOOLEAN]
  BY DEF Call, NoCall
<1> DEFINE y == [x EXCEPT !.phase = p]
           z == [x EXCEPT !.current = FALSE, !.phase = p]
<1>2. /\ y \in [kind : Kinds, uid : Uids, phase : {"sent", "ok", "failed"},
                live : BOOLEAN, current : BOOLEAN]
      /\ y.kind = x.kind /\ y.uid = x.uid /\ y.phase = p
  BY <1>1
<1>3. /\ z \in [kind : Kinds, uid : Uids, phase : {"sent", "ok", "failed"},
                live : BOOLEAN, current : BOOLEAN]
      /\ z.kind = x.kind /\ z.uid = x.uid /\ z.phase = p
  BY <1>1
<1> QED BY <1>1, <1>2, <1>3 DEF Call

\* A free slot.
LEMMA NoCallOK == NoCall \in Call /\ NoCall.phase = "idle" /\ NoCall.kind = "none"
  BY DEF Call, NoCall

\* Orphaned leaves every call what it is.
LEMMA OrphanedOK ==
    ASSUME NEW calls \in [Calls -> Call]
    PROVE  /\ Orphaned(calls) \in [Calls -> Call]
           /\ \A c \in Calls : SameCall(Orphaned(calls)[c], calls[c])
<1>1. \A c \in Calls : Orphaned(calls)[c] = [calls[c] EXCEPT !.live = FALSE]
  BY DEF Orphaned
<1>2. \A c \in Calls : /\ [calls[c] EXCEPT !.live = FALSE] \in Call
                       /\ SameCall([calls[c] EXCEPT !.live = FALSE], calls[c])
  BY LiveOff
<1>3. Orphaned(calls) \in [Calls -> Call]
  BY <1>2 DEF Orphaned
<1> QED BY <1>1, <1>2, <1>3

-----------------------------------------------------------------------------
(* The queue of the main thread. *)

\* The types of the queue and the calls.
LEMMA AnswerTypes ==
    ASSUME SessionInv
    PROVE  /\ answers \in Seq(Calls) /\ Len(answers) \in Nat
           /\ DOMAIN answers = 1..Len(answers)
           /\ \A i \in DOMAIN answers : answers[i] \in Calls
           /\ call \in [Calls -> Call]
<1>1. answers \in Seq(Calls) /\ call \in [Calls -> Call]
  BY DEF SessionInv, TypeOK, Types
<1> QED BY <1>1, LenProperties, ElementOfSeq

\* Nothing changes on the queue.
LEMMA SameAnswers ==
    ASSUME SessionInv, answers' = answers,
           \A i \in DOMAIN answers : SameCall(call'[answers[i]], call[answers[i]]),
           UNCHANGED <<userUID, auth, accounts, history>>
    PROVE  AnswersWait' /\ UidSettles'
<1>1. AnswersWait'
  BY DEF SessionInv, AnswersWait, SameCall
<1>2. \A i \in DOMAIN answers : LastOk(i)' <=> LastOk(i)
  BY DEF LastOk, SameCall
<1>3. UidSettles'
  BY <1>2 DEF SessionInv, UidSettles, Settled, SameCall, history
<1> QED BY <1>1, <1>3

\* An answer is queued.
LEMMA Appended ==
    ASSUME SessionInv, NEW c \in Calls, call[c].phase = "sent",
           answers' = Append(answers, c), call'[c].phase \in {"ok", "failed"},
           \A e \in Calls : e # c => SameCall(call'[e], call[e])
    PROVE  /\ answers' \in Seq(Calls) /\ AnswersWait'
           /\ Len(answers) + 1 \in DOMAIN answers' /\ answers'[Len(answers) + 1] = c
           /\ \A i \in DOMAIN answers :
                /\ i \in DOMAIN answers' /\ answers'[i] = answers[i]
                /\ answers[i] # c /\ answers[i] \in Calls /\ i < Len(answers) + 1
           /\ \A i \in DOMAIN answers' : i \in DOMAIN answers \/ i = Len(answers) + 1
<1>1. /\ answers \in Seq(Calls) /\ Len(answers) \in Nat /\ DOMAIN answers = 1..Len(answers)
      /\ \A i \in DOMAIN answers : answers[i] \in Calls
  BY AnswerTypes
<1>2. /\ answers' \in Seq(Calls) /\ Len(answers') = Len(answers) + 1
      /\ answers'[Len(answers) + 1] = c
      /\ \A i \in 1..Len(answers) : answers'[i] = answers[i]
      /\ DOMAIN answers' = 1..(Len(answers) + 1)
  BY <1>1, AppendProperties, LenProperties
<1>3. \A i \in DOMAIN answers : answers[i] # c
  BY DEF SessionInv, AnswersWait
<1>4. \A i \in DOMAIN answers' : i \in DOMAIN answers \/ i = Len(answers) + 1
  BY <1>1, <1>2
<1>5. \A i \in DOMAIN answers :
        i \in DOMAIN answers' /\ answers'[i] = answers[i] /\ i < Len(answers) + 1
  BY <1>1, <1>2
<1>6. AnswersWait'
  <2>1. \A i \in DOMAIN answers' : call'[answers'[i]].phase \in {"ok", "failed"}
    BY <1>1, <1>2, <1>3, <1>4, <1>5 DEF SessionInv, AnswersWait, SameCall
  <2>2. \A i, j \in DOMAIN answers' : answers'[i] = answers'[j] => i = j
    BY <1>2, <1>3, <1>4, <1>5 DEF SessionInv, AnswersWait
  <2> QED BY <2>1, <2>2 DEF AnswersWait
<1> QED BY <1>1, <1>2, <1>3, <1>4, <1>5, <1>6

\* An answer that will store or forget a uid settles what is stored.
LEMMA AppendedOk ==
    ASSUME SessionInv, NEW c \in Calls, call[c].phase = "sent",
           answers' = Append(answers, c), call'[c].phase = "ok",
           \A e \in Calls : e # c => SameCall(call'[e], call[e]),
           call'[c].kind \in {"login", "signup"} => Settled(call[c].uid)'
    PROVE  answers' \in Seq(Calls) /\ AnswersWait' /\ UidSettles'
<1>1. /\ answers' \in Seq(Calls) /\ AnswersWait'
      /\ Len(answers) + 1 \in DOMAIN answers' /\ answers'[Len(answers) + 1] = c
      /\ \A i \in DOMAIN answers : i < Len(answers) + 1
      /\ \A i \in DOMAIN answers' : i \in DOMAIN answers \/ i = Len(answers) + 1
  BY Appended
<1>2. \A i \in DOMAIN answers' : LastOk(i)' => i = Len(answers) + 1
  BY <1>1 DEF LastOk
<1>3. \E i \in DOMAIN answers' : call'[answers'[i]].phase = "ok"
  BY <1>1
<1>4. UidSettles'
  BY <1>1, <1>2, <1>3 DEF UidSettles
<1> QED BY <1>1, <1>4

\* The answer that a call failed changes nothing of what will be stored.
LEMMA AppendedFailed ==
    ASSUME SessionInv, NEW c \in Calls, call[c].phase = "sent",
           answers' = Append(answers, c), call'[c].phase = "failed",
           \A e \in Calls : e # c => SameCall(call'[e], call[e]),
           interrupted' \/ UNCHANGED <<userUID, auth, accounts, history>>
    PROVE  answers' \in Seq(Calls) /\ AnswersWait' /\ UidSettles'
<1>1. /\ answers' \in Seq(Calls) /\ AnswersWait'
      /\ Len(answers) + 1 \in DOMAIN answers' /\ answers'[Len(answers) + 1] = c
      /\ \A i \in DOMAIN answers :
           /\ i \in DOMAIN answers' /\ answers'[i] = answers[i]
           /\ answers[i] # c /\ answers[i] \in Calls
      /\ \A i \in DOMAIN answers' : i \in DOMAIN answers \/ i = Len(answers) + 1
  BY Appended
<1>2. \A i \in DOMAIN answers : SameCall(call'[answers'[i]], call[answers[i]])
  BY <1>1
<1>3. \A i \in DOMAIN answers' : LastOk(i)' => i \in DOMAIN answers /\ LastOk(i)
  BY <1>1, <1>2 DEF LastOk, SameCall
<1>4. (\A i \in DOMAIN answers' : call'[answers'[i]].phase # "ok")
        => \A i \in DOMAIN answers : call[answers[i]].phase # "ok"
  BY <1>1, <1>2 DEF SameCall
<1>5. UidSettles'
  <2>1. CASE interrupted'
    BY <2>1 DEF UidSettles
  <2>2. CASE UNCHANGED <<userUID, auth, accounts, history>>
    BY <1>2, <1>3, <1>4, <2>2 DEF SessionInv, UidSettles, Settled, SameCall, history
  <2> QED BY <2>1, <2>2
<1> QED BY <1>1, <1>5

\* The callback whose turn it is runs, and stores or forgets a uid.
LEMMA Popped ==
    ASSUME SessionInv, NEW c \in Calls, answers # <<>>, Head(answers) = c,
           answers' = Tail(answers),
           \A e \in Calls : e # c => SameCall(call'[e], call[e]),
           UNCHANGED <<auth, accounts, interrupted, expelled>>,
           call[c].phase = "failed" => userUID' = userUID /\ forgotten' = forgotten,
           call[c].phase = "ok" =>
             \/ call[c].kind \in {"login", "signup"} /\ userUID' = call[c].uid
             \/ userUID' = NoUid /\ forgotten'
    PROVE  answers' \in Seq(Calls) /\ AnswersWait' /\ UidSettles'
<1>1. /\ answers \in Seq(Calls) /\ Len(answers) \in Nat /\ DOMAIN answers = 1..Len(answers)
      /\ \A i \in DOMAIN answers : answers[i] \in Calls
  BY AnswerTypes
<1>2. Len(answers) \in Nat \ {0} /\ 1 \in DOMAIN answers /\ answers[1] = c
  BY <1>1, EmptySeq
<1>3. /\ answers' \in Seq(Calls) /\ Len(answers') = Len(answers) - 1
      /\ DOMAIN answers' = 1..(Len(answers) - 1)
      /\ \A i \in 1..(Len(answers) - 1) : answers'[i] = answers[i + 1]
  <2>1. Tail(answers) \in Seq(Calls) /\ Len(Tail(answers)) = Len(answers) - 1
        /\ \A i \in 1..(Len(answers) - 1) : Tail(answers)[i] = answers[i + 1]
    BY <1>1, HeadTailProperties
  <2> QED BY <2>1, LenProperties
<1>4. \A i \in DOMAIN answers' :
        /\ i + 1 \in DOMAIN answers /\ i + 1 # 1 /\ answers'[i] = answers[i + 1]
        /\ 1 < i + 1
  BY <1>1, <1>2, <1>3
<1>5. \A i \in DOMAIN answers' : answers'[i] # c /\ answers'[i] \in Calls
  BY <1>1, <1>2, <1>4 DEF SessionInv, AnswersWait
<1>6. \A i \in DOMAIN answers' : SameCall(call'[answers'[i]], call[answers[i + 1]])
  BY <1>4, <1>5
<1>7. AnswersWait'
  <2>1. \A i \in DOMAIN answers' : call'[answers'[i]].phase \in {"ok", "failed"}
    BY <1>4, <1>6 DEF SessionInv, AnswersWait, SameCall
  <2>2. \A i, j \in DOMAIN answers' : answers'[i] = answers'[j] => i + 1 = j + 1
    BY <1>4 DEF SessionInv, AnswersWait
  <2>3. \A i, j \in DOMAIN answers' : i + 1 = j + 1 => i = j
    BY <1>1, <1>3
  <2> QED BY <2>1, <2>2, <2>3 DEF AnswersWait
<1>8. \A k \in DOMAIN answers : k = 1 \/ (k - 1 \in DOMAIN answers' /\ k - 1 + 1 = k)
  BY <1>1, <1>2, <1>3
<1>9. \A i \in DOMAIN answers' : LastOk(i)' => LastOk(i + 1)
  <2> SUFFICES ASSUME NEW i \in DOMAIN answers', LastOk(i)', NEW k \in DOMAIN answers, i + 1 < k
               PROVE  call[answers[k]].phase # "ok"
    BY <1>4, <1>6 DEF LastOk, SameCall
  <2>1. k - 1 \in DOMAIN answers' /\ k - 1 + 1 = k /\ i < k - 1
    BY <1>1, <1>3, <1>8
  <2> QED BY <1>6, <2>1 DEF LastOk, SameCall
<1>10. ASSUME \A i \in DOMAIN answers' : call'[answers'[i]].phase # "ok"
       PROVE  \A k \in DOMAIN answers : k # 1 => call[answers[k]].phase # "ok"
  BY <1>6, <1>8, <1>10 DEF SameCall
<1>11. UidSettles'
  <2> SUFFICES ASSUME ~interrupted PROVE UidSettles'
    BY DEF UidSettles
  <2>1. ASSUME NEW i \in DOMAIN answers', LastOk(i)',
               call'[answers'[i]].kind \in {"login", "signup"}
        PROVE  Settled(call[answers[i]].uid)'
    BY <1>4, <1>6, <1>9, <2>1 DEF SessionInv, UidSettles, Settled, SameCall
  <2>2. ASSUME \A i \in DOMAIN answers' : call'[answers'[i]].phase # "ok"
        PROVE  (IF userUID = NoUid THEN auth = NoUid \/ forgotten ELSE Settled(userUID))'
    <3>1. \A k \in DOMAIN answers : k # 1 => call[answers[k]].phase # "ok"
      BY <1>10, <2>2
    <3>2. CASE call[c].phase = "ok"
      <4>1. LastOk(1)
        BY <1>1, <1>2, <3>1, <3>2 DEF LastOk
      <4>2. call[c].uid # NoUid
        <5>1. call[c] \in Call
          BY AnswerTypes
        <5> QED BY <3>2, <5>1, PhaseSet, SessionAssumption
      <4> QED BY <1>2, <3>2, <4>1, <4>2 DEF SessionInv, UidSettles, Settled
    <3>3. CASE call[c].phase = "failed"
      <4>1. \A k \in DOMAIN answers : call[answers[k]].phase # "ok"
        BY <1>2, <3>1, <3>3
      <4> QED BY <3>3, <4>1 DEF SessionInv, UidSettles, Settled
    <3>4. call[c].phase \in {"ok", "failed"}
      BY <1>2 DEF SessionInv, AnswersWait
    <3> QED BY <3>2, <3>3, <3>4
  <2> QED BY <2>1, <2>2 DEF UidSettles
<1> QED BY <1>3, <1>7, <1>11

-----------------------------------------------------------------------------
(* Profiles and screens. *)

\* A step that answers no registration and adds no profile.
LEMMA ProfilesKept ==
    ASSUME SessionInv,
           \A c \in Calls : Answered(c, "signup")' =>
             Answered(c, "signup") /\ call'[c].uid = call[c].uid,
           used \subseteq used', outbox' \subseteq outbox, docs' \subseteq docs
    PROVE  ProfilesDue' /\ OneProfile'
<1>1. ProfilesDue'
  <2>1. ASSUME NEW c \in Calls, Answered(c, "signup")'
        PROVE  /\ call'[c].uid \in used' /\ call'[c].uid \notin outbox'
               /\ \A x \in docs' : x.uid # call'[c].uid
               /\ \A e \in Calls : Answered(e, "signup")' /\ call'[e].uid = call'[c].uid => e = c
    BY <2>1 DEF SessionInv, ProfilesDue
  <2>2. outbox' \subseteq used' /\ \A x \in docs' : x.uid \in used'
    BY DEF SessionInv, ProfilesDue
  <2> QED BY <2>1, <2>2 DEF ProfilesDue
<1>2. OneProfile'
  BY DEF SessionInv, OneProfile
<1> QED BY <1>1, <1>2

\* What is on screen.
ScreensOK ==
    /\ depth \in 0..MaxDepth
    /\ leaf \in {"home", "login", "register"}
    /\ appearing \in BOOLEAN
    /\ leaf = "home" => depth > 0
    /\ AppearingHome

\* They are as SessionInv says ...
LEMMA ScreensFacts == SessionInv => ScreensOK
  BY DEF SessionInv, TypeOK, Types, ScreensOK

\* ... and stay so where the screens do not change.
LEMMA ScreensSame ==
    ASSUME SessionInv, UNCHANGED screens
    PROVE  ScreensOK'
  BY ScreensFacts DEF ScreensOK, AppearingHome, screens

\* A step of the screens: the calls stay what they are.
LEMMA ScreenOnly ==
    ASSUME SessionInv, UNCHANGED <<userUID, auth, cloud, answers, history>>,
           call' \in [Calls -> Call], \A c \in Calls : SameCall(call'[c], call[c]),
           ScreensOK'
    PROVE  SessionInv'
<1>1. /\ userUID' = userUID /\ auth' = auth /\ accounts' = accounts /\ used' = used
      /\ docs' = docs /\ outbox' = outbox /\ answers' = answers /\ UNCHANGED history
      /\ interrupted' = interrupted /\ expelled' = expelled /\ forgotten' = forgotten
  BY DEF cloud, history
<1>2. TypeOK' /\ AppearingHome'
  BY <1>1 DEF SessionInv, TypeOK, Types, ScreensOK
<1>3. \A i \in DOMAIN answers : SameCall(call'[answers[i]], call[answers[i]])
  BY AnswerTypes
<1>4. AnswersWait' /\ UidSettles'
  BY <1>1, <1>3, SameAnswers
<1>5. ProfilesDue' /\ OneProfile'
  BY <1>1, ProfilesKept DEF Answered, SameCall
<1> QED BY <1>2, <1>4, <1>5 DEF SessionInv

\* viewDidAppear of a tab bar that is on screen.
LEMMA GateOK ==
    ASSUME SessionInv, NEW k \in 1..MaxDepth, k <= depth, Gate(k)
    PROVE  ScreensOK' /\ call' \in [Calls -> Call] /\ \A c \in Calls : SameCall(call'[c], call[c])
<1>1. ScreensOK /\ call \in [Calls -> Call] /\ MaxDepth \in Nat
  BY ScreensFacts, AnswerTypes, SessionAssumption
<1>2. CASE userUID = NoUid
  <2>1. depth' = k - 1 /\ leaf' = "login" /\ appearing' = FALSE /\ call' = Orphaned(call)
    BY <1>2 DEF Gate, Show
  <2>2. k - 1 \in 0..MaxDepth
    BY <1>1
  <2>3. ScreensOK'
    BY <2>1, <2>2 DEF ScreensOK, AppearingHome
  <2> QED BY <1>1, <2>1, <2>3, OrphanedOK
<1>3. CASE userUID # NoUid
  <2>1. depth' = depth /\ leaf' = leaf /\ appearing' = FALSE /\ call' = call
    BY <1>3 DEF Gate, Show
  <2>2. ScreensOK'
    BY <1>1, <2>1 DEF ScreensOK, AppearingHome
  <2> QED BY <1>1, <2>1, <2>2 DEF SameCall
<1> QED BY <1>2, <1>3

\* The steps of the screens.
LEMMA ScreenStep ==
    ASSUME SessionInv,
           \/ viewDidAppear \/ \E k \in 1..MaxDepth : Reappear(k)
           \/ PushTabBar \/ registerButtonTapped \/ RegisterBack
    PROVE  SessionInv'
<1>1. ScreensOK /\ call \in [Calls -> Call] /\ MaxDepth \in Nat \ {0}
  BY ScreensFacts, AnswerTypes, SessionAssumption
<1>2. CASE viewDidAppear
  <2>1. depth \in 1..MaxDepth
    BY <1>1, <1>2 DEF viewDidAppear, ScreensOK, AppearingHome
  <2> QED BY <1>1, <1>2, <2>1, GateOK, ScreenOnly DEF viewDidAppear, ScreensOK
<1>3. CASE \E k \in 1..MaxDepth : Reappear(k)
  BY <1>3, GateOK, ScreenOnly DEF Reappear
<1>4. CASE PushTabBar
  <2>1. depth' = 1 /\ leaf' = "home" /\ appearing' = TRUE /\ call' = Orphaned(call)
    BY <1>4 DEF PushTabBar, Show
  <2>2. ScreensOK'
    BY <1>1, <2>1 DEF ScreensOK, AppearingHome
  <2> QED BY <1>1, <1>4, <2>1, <2>2, OrphanedOK, ScreenOnly DEF PushTabBar
<1>5. CASE registerButtonTapped
  <2>1. depth' = depth /\ leaf' = "register" /\ appearing' = appearing /\ ~appearing /\ call' = call
    BY <1>5 DEF registerButtonTapped, Idle
  <2>2. ScreensOK'
    BY <1>1, <2>1 DEF ScreensOK, AppearingHome
  <2> QED BY <1>1, <1>5, <2>1, <2>2, ScreenOnly DEF registerButtonTapped, SameCall
<1>6. CASE RegisterBack
  <2>1. depth' = depth /\ leaf' = "login" /\ appearing' = appearing /\ ~appearing
    BY <1>6 DEF RegisterBack, Idle
  <2>2. ScreensOK'
    BY <1>1, <2>1 DEF ScreensOK, AppearingHome
  <2>3. call' = [c \in Calls |->
         IF call[c].kind = "signup" THEN [call[c] EXCEPT !.live = FALSE] ELSE call[c]]
    BY <1>6 DEF RegisterBack
  <2>4. \A c \in Calls : /\ [call[c] EXCEPT !.live = FALSE] \in Call
                         /\ SameCall([call[c] EXCEPT !.live = FALSE], call[c])
    BY <1>1, LiveOff
  <2>5. call' \in [Calls -> Call] /\ \A c \in Calls : SameCall(call'[c], call[c])
    BY <1>1, <2>3, <2>4 DEF SameCall
  <2> QED BY <1>6, <2>2, <2>5, ScreenOnly DEF RegisterBack
<1> QED BY <1>2, <1>3, <1>4, <1>5, <1>6

-----------------------------------------------------------------------------
(* Calls are started and answered. *)

\* A call is made from a free slot.
LEMMA StartOK ==
    ASSUME SessionInv, NEW c \in Calls, NEW kind \in Kinds, NEW u \in Uids, Start(c, kind, u),
           UNCHANGED <<userUID, auth, cloud, answers, screens, history>>
    PROVE  SessionInv'
<1> DEFINE x == [kind |-> kind, uid |-> u, phase |-> "sent",
                 live |-> TRUE, current |-> kind = "unlink"]
<1>1. /\ userUID' = userUID /\ auth' = auth /\ accounts' = accounts /\ used' = used
      /\ docs' = docs /\ outbox' = outbox /\ answers' = answers /\ UNCHANGED history
      /\ interrupted' = interrupted /\ expelled' = expelled /\ forgotten' = forgotten
  BY DEF cloud, history
<1>2. call[c] = NoCall /\ call' = [call EXCEPT ![c] = x] /\ call \in [Calls -> Call]
  BY AnswerTypes DEF Start
<1>3. x \in Call /\ x.phase = "sent"
  BY DEF Call
<1> HIDE DEF x
<1>4. call' \in [Calls -> Call] /\ call'[c] = x /\ \A e \in Calls : e # c => call'[e] = call[e]
  BY <1>2, <1>3
<1>5. \A i \in DOMAIN answers : answers[i] # c /\ answers[i] \in Calls
  BY <1>2, AnswerTypes, NoCallOK DEF SessionInv, AnswersWait
<1>6. AnswersWait' /\ UidSettles'
  BY <1>1, <1>4, <1>5, SameAnswers DEF SameCall
<1>7. ProfilesDue' /\ OneProfile'
  BY <1>1, <1>3, <1>4, ProfilesKept DEF Answered
<1>8. TypeOK' /\ AppearingHome'
  BY <1>1, <1>4, ScreensSame DEF SessionInv, TypeOK, Types, ScreensOK
<1> QED BY <1>6, <1>7, <1>8 DEF SessionInv

\* The buttons that call Firebase.
LEMMA ButtonStep ==
    ASSUME SessionInv, NEW c \in Calls,
           (\E u \in Uids : loginButtonTapped(c, u) \/ signupButtonTapped(c, u)) \/ deleteAccount(c)
    PROVE  SessionInv'
<1>1. ASSUME NEW u \in Uids, loginButtonTapped(c, u) PROVE SessionInv'
  BY <1>1, StartOK DEF loginButtonTapped, Kinds
<1>2. ASSUME NEW u \in Uids, signupButtonTapped(c, u) PROVE SessionInv'
  BY <1>2, StartOK DEF signupButtonTapped, Kinds
<1>3. CASE deleteAccount(c)
  <2>1. auth \in Uids
    BY <1>3 DEF deleteAccount, SessionInv, TypeOK, Types
  <2> QED BY <1>3, <2>1, StartOK DEF deleteAccount, Kinds
<1> QED BY <1>1, <1>2, <1>3

\* What an answer does to the calls.
LEMMA AnswerOK ==
    ASSUME SessionInv, NEW c \in Calls, call[c].phase = "sent", NEW p \in {"ok", "failed"},
           Answer(c, p) \/ (AnswerWithUser(c) /\ p = "ok")
    PROVE  /\ call' \in [Calls -> Call] /\ answers' = Append(answers, c)
           /\ call'[c].phase = p /\ call'[c].kind = call[c].kind /\ call'[c].uid = call[c].uid
           /\ \A e \in Calls : e # c => SameCall(call'[e], call[e])
           /\ call[c].uid \in Uids
<1>1. call \in [Calls -> Call]
  BY AnswerTypes
<1> DEFINE y == [call[c] EXCEPT !.phase = p]
           z == [call[c] EXCEPT !.current = FALSE, !.phase = p]
<1>2. /\ y \in Call /\ y.kind = call[c].kind /\ y.uid = call[c].uid /\ y.phase = p
      /\ z \in Call /\ z.kind = call[c].kind /\ z.uid = call[c].uid /\ z.phase = p
      /\ call[c].uid \in Uids
  <2> DEFINE x == call[c]
  <2>1. x \in Call /\ x.phase # "idle" /\ p \in {"sent", "ok", "failed"}
    BY <1>1
  <2> HIDE DEF x
  <2>2. LET v == [x EXCEPT !.phase = p]
            w == [x EXCEPT !.current = FALSE, !.phase = p]
        IN  /\ v \in Call /\ v.kind = x.kind /\ v.uid = x.uid /\ v.phase = p
            /\ w \in Call /\ w.kind = x.kind /\ w.uid = x.uid /\ w.phase = p
            /\ x.uid \in Uids
    BY <2>1, PhaseSet
  <2> QED BY <2>2 DEF x
<1>3. CASE Answer(c, p)
  <2>1. call' = [call EXCEPT ![c] = y] /\ answers' = Append(answers, c)
    BY <1>1, <1>3 DEF Answer
  <2> HIDE DEF y, z
  <2> QED BY <1>1, <1>2, <2>1 DEF SameCall
<1>4. CASE AnswerWithUser(c) /\ p = "ok"
  <2> DEFINE f(e) == [call[e] EXCEPT !.current = FALSE, !.phase = IF e = c THEN "ok" ELSE @]
  <2>1. call' = [e \in Calls |-> f(e)] /\ answers' = Append(answers, c)
    BY <1>4 DEF AnswerWithUser
  <2>2. f(c) = z
    BY <1>1, <1>4
  <2>3. ASSUME NEW e \in Calls, e # c PROVE f(e) \in Call /\ SameCall(f(e), call[e])
    <3>1. call[e] \in Call
      BY <1>1
    <3>2. f(e) = [call[e] EXCEPT !.current = FALSE]
      BY <2>3, <3>1 DEF Call, NoCall
    <3> HIDE DEF f
    <3> QED BY <3>1, <3>2, CurrentOff
  <2> HIDE DEF f, z
  <2>4. \A e \in Calls : f(e) \in Call
    BY <1>2, <2>2, <2>3
  <2> QED BY <1>2, <2>1, <2>2, <2>3, <2>4
<1> QED BY <1>3, <1>4

\* Firebase signs a user in.
LEMMA SignedInStep ==
    ASSUME SessionInv, NEW c \in Calls, SignedIn(c)
    PROVE  SessionInv'
<1>1. /\ call[c].kind = "login" /\ call[c].phase = "sent" /\ call[c].uid \in accounts
      /\ AnswerWithUser(c) /\ auth' = call[c].uid
      /\ userUID' = userUID /\ accounts' = accounts /\ used' = used /\ docs' = docs
      /\ outbox' = outbox /\ interrupted' = interrupted /\ UNCHANGED screens
      /\ expelled' = FALSE /\ forgotten' = forgotten
  BY DEF SignedIn, Sent, AnswerWithUser, cloud
<1>2. /\ call' \in [Calls -> Call] /\ answers' = Append(answers, c)
      /\ call'[c].phase = "ok" /\ call'[c].kind = call[c].kind /\ call'[c].uid = call[c].uid
      /\ \A e \in Calls : e # c => SameCall(call'[e], call[e])
      /\ call[c].uid \in Uids
  BY <1>1, AnswerOK
<1>3. answers' \in Seq(Calls) /\ AnswersWait' /\ UidSettles'
  BY <1>1, <1>2, AppendedOk DEF Settled
<1>4. ProfilesDue' /\ OneProfile'
  BY <1>1, <1>2, ProfilesKept DEF Answered, SameCall
<1>5. TypeOK' /\ AppearingHome'
  BY <1>1, <1>2, <1>3, ScreensSame DEF SessionInv, TypeOK, Types, ScreensOK
<1> QED BY <1>3, <1>4, <1>5 DEF SessionInv

\* Firebase creates an account: its profile is due.
LEMMA SignedUpStep ==
    ASSUME SessionInv, NEW c \in Calls, SignedUp(c)
    PROVE  SessionInv'
<1> DEFINE u == call[c].uid
<1>1. /\ call[c].kind = "signup" /\ call[c].phase = "sent" /\ u \notin used
      /\ AnswerWithUser(c) /\ auth' = u
      /\ accounts' = accounts \cup {u} /\ used' = used \cup {u}
      /\ userUID' = userUID /\ docs' = docs /\ outbox' = outbox
      /\ interrupted' = interrupted /\ UNCHANGED screens
      /\ expelled' = FALSE /\ forgotten' = forgotten
  BY DEF SignedUp, Sent, AnswerWithUser
<1>2. /\ call' \in [Calls -> Call] /\ answers' = Append(answers, c)
      /\ call'[c].phase = "ok" /\ call'[c].kind = call[c].kind /\ call'[c].uid = u
      /\ \A e \in Calls : e # c => SameCall(call'[e], call[e])
      /\ u \in Uids
  BY <1>1, AnswerOK
<1> HIDE DEF u
<1>3. answers' \in Seq(Calls) /\ AnswersWait' /\ UidSettles'
  BY <1>1, <1>2, AppendedOk DEF Settled
<1>4. \A e \in Calls : e # c /\ Answered(e, "signup")' =>
        Answered(e, "signup") /\ call'[e].uid = call[e].uid /\ call[e].uid \in used
  BY <1>2 DEF Answered, SameCall, SessionInv, ProfilesDue
<1>5. ProfilesDue'
  <2>1. u \notin outbox /\ \A x \in docs : x.uid # u
    BY <1>1 DEF SessionInv, ProfilesDue
  <2>2. ASSUME NEW d \in Calls, Answered(d, "signup")'
        PROVE  /\ call'[d].uid \in used' /\ call'[d].uid \notin outbox'
               /\ \A x \in docs' : x.uid # call'[d].uid
               /\ \A e \in Calls : Answered(e, "signup")' /\ call'[e].uid = call'[d].uid => e = d
    <3>1. CASE d = c
      BY <1>1, <1>2, <1>4, <2>1, <3>1
    <3>2. CASE d # c
      BY <1>1, <1>2, <1>4, <2>2, <3>2 DEF SessionInv, ProfilesDue
    <3> QED BY <3>1, <3>2
  <2>3. outbox' \subseteq used' /\ \A x \in docs' : x.uid \in used'
    BY <1>1 DEF SessionInv, ProfilesDue
  <2> QED BY <2>2, <2>3 DEF ProfilesDue
<1>6. OneProfile'
  BY <1>1 DEF SessionInv, OneProfile
<1>7. TypeOK' /\ AppearingHome'
  BY <1>1, <1>2, <1>3, ScreensSame DEF SessionInv, TypeOK, Types, ScreensOK
<1> QED BY <1>3, <1>5, <1>6, <1>7 DEF SessionInv

\* The document named by the uid is gone.
LEMMA UnlinkedStep ==
    ASSUME SessionInv, NEW c \in Calls, Unlinked(c)
    PROVE  SessionInv'
<1>1. /\ call[c].kind = "unlink" /\ call[c].phase = "sent" /\ Answer(c, "ok")
      /\ docs' \subseteq docs /\ userUID' = userUID /\ auth' = auth
      /\ accounts' = accounts /\ used' = used /\ outbox' = outbox
      /\ interrupted' = interrupted /\ UNCHANGED screens
      /\ expelled' = expelled /\ forgotten' = forgotten
  BY DEF Unlinked, Sent, Without, history
<1>2. /\ call' \in [Calls -> Call] /\ answers' = Append(answers, c)
      /\ call'[c].phase = "ok" /\ call'[c].kind = call[c].kind
      /\ \A e \in Calls : e # c => SameCall(call'[e], call[e])
  BY <1>1, AnswerOK
<1>3. answers' \in Seq(Calls) /\ AnswersWait' /\ UidSettles'
  BY <1>1, <1>2, AppendedOk DEF Settled
<1>4. ProfilesDue' /\ OneProfile'
  BY <1>1, <1>2, ProfilesKept DEF Answered, SameCall
<1>5. docs' \in SUBSET [id : AutoIds, uid : Uids]
  BY <1>1 DEF SessionInv, TypeOK, Types
<1>6. TypeOK' /\ AppearingHome'
  BY <1>1, <1>2, <1>3, <1>5, ScreensSame DEF SessionInv, TypeOK, Types, ScreensOK
<1> QED BY <1>3, <1>4, <1>6 DEF SessionInv

\* The account is gone: its callback will forget the uid, whoever's it is.
LEMMA AccountDeletedStep ==
    ASSUME SessionInv, NEW c \in Calls, AccountDeleted(c)
    PROVE  SessionInv'
<1>1. /\ call[c].kind = "delete" /\ call[c].phase = "sent" /\ Answer(c, "ok")
      /\ accounts' \subseteq accounts /\ auth' \in {auth, NoUid}
      /\ userUID' = userUID /\ docs' = docs /\ used' = used /\ outbox' = outbox
      /\ interrupted' = interrupted /\ UNCHANGED screens
      /\ expelled' = expelled /\ forgotten' = forgotten
  BY DEF AccountDeleted, Sent, history
<1>2. /\ call' \in [Calls -> Call] /\ answers' = Append(answers, c)
      /\ call'[c].phase = "ok" /\ call'[c].kind = call[c].kind
      /\ \A e \in Calls : e # c => SameCall(call'[e], call[e])
  BY <1>1, AnswerOK
<1>3. answers' \in Seq(Calls) /\ AnswersWait' /\ UidSettles'
  BY <1>1, <1>2, AppendedOk DEF Settled
<1>4. ProfilesDue' /\ OneProfile'
  BY <1>1, <1>2, ProfilesKept DEF Answered, SameCall
<1>5. accounts' \in SUBSET Uids /\ auth' \in Uids \cup {NoUid}
  BY <1>1 DEF SessionInv, TypeOK, Types
<1>6. TypeOK' /\ AppearingHome'
  BY <1>1, <1>2, <1>3, <1>5, ScreensSame DEF SessionInv, TypeOK, Types, ScreensOK
<1> QED BY <1>3, <1>4, <1>6 DEF SessionInv

\* A call fails, or is carried out and its answer lost.
LEMMA FailsStep ==
    ASSUME SessionInv, NEW c \in Calls, CallFails(c) \/ AnswerLost(c)
    PROVE  SessionInv'
<1>1. /\ call[c].phase = "sent" /\ Answer(c, "failed")
      /\ userUID' = userUID /\ auth' = auth /\ docs' = docs /\ outbox' = outbox
      /\ UNCHANGED screens /\ expelled' = expelled /\ forgotten' = forgotten
  BY DEF CallFails, AnswerLost, Sent, cloud, history
<1>2. /\ call' \in [Calls -> Call] /\ answers' = Append(answers, c)
      /\ call'[c].phase = "failed" /\ call[c].uid \in Uids
      /\ \A e \in Calls : e # c => SameCall(call'[e], call[e])
  BY <1>1, AnswerOK
<1>3. /\ used \subseteq used' /\ used' \in SUBSET Uids /\ accounts' \in SUBSET Uids
      /\ interrupted' \in BOOLEAN
      /\ interrupted' \/ UNCHANGED <<userUID, auth, accounts, history>>
  <2>1. used \in SUBSET Uids /\ accounts \in SUBSET Uids /\ interrupted \in BOOLEAN
    BY DEF SessionInv, TypeOK, Types
  <2>2. CASE CallFails(c)
    BY <1>1, <2>1, <2>2 DEF CallFails, cloud, history
  <2>3. CASE AnswerLost(c)
    <3>1. interrupted' = TRUE
      BY <2>3 DEF AnswerLost
    <3>2. \/ accounts' = accounts \cup {call[c].uid} /\ used' = used \cup {call[c].uid}
          \/ accounts' = accounts \ {call[c].uid} /\ used' = used
      BY <2>3 DEF AnswerLost
    <3> QED BY <1>2, <2>1, <3>1, <3>2
  <2> QED BY <2>2, <2>3
<1>4. answers' \in Seq(Calls) /\ AnswersWait' /\ UidSettles'
  BY <1>1, <1>2, <1>3, AppendedFailed
<1>5. ProfilesDue' /\ OneProfile'
  BY <1>1, <1>2, <1>3, ProfilesKept DEF Answered, SameCall
<1>6. TypeOK' /\ AppearingHome'
  BY <1>1, <1>2, <1>3, <1>4, ScreensSame DEF SessionInv, TypeOK, Types, ScreensOK
<1> QED BY <1>4, <1>5, <1>6 DEF SessionInv

-----------------------------------------------------------------------------
(* Callbacks. *)

\* The call whose callback runs is over.
LEMMA FreedOK ==
    ASSUME SessionInv, NEW c \in Calls
    PROVE  LET f == [call EXCEPT ![c] = NoCall]
               o == Orphaned(f)
           IN  /\ f \in [Calls -> Call] /\ f[c].phase = "idle"
               /\ \A e \in Calls : e # c => SameCall(f[e], call[e])
               /\ o \in [Calls -> Call] /\ o[c].phase = "idle"
               /\ \A e \in Calls : e # c => SameCall(o[e], call[e])
<1> DEFINE f == [call EXCEPT ![c] = NoCall]
<1>1. /\ f \in [Calls -> Call] /\ f[c] = NoCall
      /\ \A e \in Calls : e # c => f[e] = call[e]
  BY AnswerTypes, NoCallOK
<1> HIDE DEF f
<1>2. /\ Orphaned(f) \in [Calls -> Call]
      /\ \A e \in Calls : SameCall(Orphaned(f)[e], f[e])
  BY <1>1, OrphanedOK
<1> QED BY <1>1, <1>2, NoCallOK DEF SameCall, f

\* What a login or registration callback does to the screens.
LEMMA LeaveOK ==
    ASSUME SessionInv, NEW c \in Calls, Leave(c)
    PROVE  /\ ScreensOK' /\ call' \in [Calls -> Call] /\ call'[c].phase = "idle"
           /\ \A e \in Calls : e # c => SameCall(call'[e], call[e])
<1>1. ScreensOK /\ MaxDepth \in Nat
  BY ScreensFacts, SessionAssumption
<1>2. CASE /\ depth < MaxDepth /\ transitionToTabBar
           /\ call' = Orphaned([call EXCEPT ![c] = NoCall])
  <2>1. depth' = depth + 1 /\ leaf' = "home" /\ appearing' = TRUE
    BY <1>2 DEF transitionToTabBar, Show
  <2>2. depth + 1 \in 0..MaxDepth /\ depth + 1 > 0
    BY <1>1, <1>2 DEF ScreensOK
  <2>3. ScreensOK'
    BY <2>1, <2>2 DEF ScreensOK, AppearingHome
  <2> QED BY <1>2, <2>3, FreedOK
<1>3. CASE call' = [call EXCEPT ![c] = NoCall] /\ UNCHANGED screens
  BY <1>3, FreedOK, ScreensSame
<1> QED BY <1>2, <1>3 DEF Leave

\* A callback that adds no profile.
LEMMA CallbackOK ==
    ASSUME SessionInv, NEW c \in Calls, answers # <<>>, Head(answers) = c,
           answers' = Tail(answers), ScreensOK', call' \in [Calls -> Call],
           call'[c].phase \notin {"ok", "failed"},
           \A e \in Calls : e # c => SameCall(call'[e], call[e]),
           UNCHANGED <<auth, cloud, interrupted, expelled>>, forgotten' \in BOOLEAN,
           call[c].phase = "failed" => userUID' = userUID /\ forgotten' = forgotten,
           call[c].phase = "ok" =>
             \/ call[c].kind \in {"login", "signup"} /\ userUID' = call[c].uid
             \/ userUID' = NoUid /\ forgotten'
    PROVE  SessionInv'
<1>1. /\ auth' = auth /\ accounts' = accounts /\ used' = used
      /\ docs' = docs /\ outbox' = outbox /\ interrupted' = interrupted /\ expelled' = expelled
  BY DEF cloud
<1>2. answers' \in Seq(Calls) /\ AnswersWait' /\ UidSettles'
  BY <1>1, Popped
<1>3. ProfilesDue' /\ OneProfile'
  BY <1>1, ProfilesKept DEF Answered, SameCall
<1>4. userUID' \in Uids \cup {NoUid}
  <2>1. call[c] \in Call /\ userUID \in Uids \cup {NoUid}
    BY AnswerTypes DEF SessionInv, TypeOK, Types
  <2>2. call[c].phase \in {"ok", "failed"}
    <3>1. 1 \in DOMAIN answers /\ answers[1] = c
      BY AnswerTypes, EmptySeq
    <3> QED BY <3>1 DEF SessionInv, AnswersWait
  <2>3. call[c].phase = "ok" => call[c].uid \in Uids
    BY <2>1, PhaseSet
  <2> QED BY <2>1, <2>2, <2>3
<1>5. TypeOK' /\ AppearingHome'
  BY <1>1, <1>2, <1>4 DEF SessionInv, TypeOK, Types, ScreensOK
<1> QED BY <1>2, <1>3, <1>5 DEF SessionInv

\* The callbacks of a login, a deletion and a call that failed.
LEMMA CallbackStep ==
    ASSUME SessionInv, NEW c \in Calls,
           LoginCallback(c) \/ UnlinkCallback(c) \/ DeleteCallback(c) \/ FailureCallback(c)
    PROVE  SessionInv'
<1>0. answers # <<>> /\ Head(answers) = c /\ answers' = Tail(answers)
  BY DEF LoginCallback, UnlinkCallback, DeleteCallback, FailureCallback, Callback
<1>1. CASE LoginCallback(c)
  <2>1. /\ call[c].kind = "login" /\ call[c].phase = "ok" /\ Leave(c)
        /\ userUID' = call[c].uid /\ forgotten' = FALSE
        /\ UNCHANGED <<auth, cloud, interrupted, expelled>>
    BY <1>1 DEF LoginCallback, Callback
  <2> QED BY <1>0, <2>1, LeaveOK, CallbackOK
<1>2. CASE UnlinkCallback(c)
  <2>1. /\ call[c].kind = "unlink" /\ call[c].phase = "ok" /\ userUID' = NoUid
        /\ call' = [call EXCEPT ![c].kind = "delete", ![c].phase = "sent"]
        /\ forgotten' = TRUE /\ UNCHANGED <<auth, cloud, screens, interrupted, expelled>>
    BY <1>2 DEF UnlinkCallback, Callback
  <2> DEFINE x == [call[c] EXCEPT !.kind = "delete", !.phase = "sent"]
  <2>2. call \in [Calls -> Call] /\ call' = [call EXCEPT ![c] = x]
    BY <2>1, AnswerTypes
  <2>3. x \in Call /\ x.phase = "sent"
    <3>1. call[c] \in [kind : Kinds, uid : Uids, phase : {"sent", "ok", "failed"},
                       live : BOOLEAN, current : BOOLEAN]
      BY <2>1, <2>2 DEF Call, NoCall
    <3> QED BY <3>1 DEF Call, Kinds
  <2> HIDE DEF x
  <2>4. /\ call' \in [Calls -> Call] /\ call'[c].phase = "sent"
        /\ \A e \in Calls : e # c => SameCall(call'[e], call[e])
    BY <2>2, <2>3 DEF SameCall
  <2> QED BY <1>0, <2>1, <2>4, ScreensSame, CallbackOK
<1>3. CASE DeleteCallback(c)
  <2>1. /\ call[c].kind = "delete" /\ call[c].phase = "ok" /\ userUID' = NoUid
        /\ forgotten' = TRUE /\ UNCHANGED <<auth, cloud, interrupted, expelled>>
        /\ \/ transitionToLogin /\ call' = Orphaned([call EXCEPT ![c] = NoCall])
           \/ UNCHANGED screens /\ call' = [call EXCEPT ![c] = NoCall]
    BY <1>3 DEF DeleteCallback, Callback
  <2>2. /\ call' \in [Calls -> Call] /\ call'[c].phase = "idle"
        /\ \A e \in Calls : e # c => SameCall(call'[e], call[e])
    BY <2>1, FreedOK
  <2>3. ScreensOK'
    <3>1. CASE transitionToLogin
      BY <3>1, ScreensFacts DEF transitionToLogin, Show, ScreensOK, AppearingHome
    <3>2. CASE UNCHANGED screens
      BY <3>2, ScreensSame
    <3> QED BY <2>1, <3>1, <3>2
  <2> QED BY <1>0, <2>1, <2>2, <2>3, CallbackOK
<1>4. CASE FailureCallback(c)
  <2>1. /\ call[c].phase = "failed" /\ userUID' = userUID
        /\ call' = [call EXCEPT ![c] = NoCall]
        /\ UNCHANGED <<auth, cloud, screens, interrupted, expelled, forgotten>>
    BY <1>4 DEF FailureCallback, Callback, history
  <2>2. forgotten' \in BOOLEAN
    BY <2>1 DEF SessionInv, TypeOK, Types
  <2> QED BY <1>0, <2>1, <2>2, FreedOK, ScreensSame, CallbackOK
<1> QED BY <1>1, <1>2, <1>3, <1>4

\* The callback of a registration adds the profile that was due.
LEMMA SignupCallbackStep ==
    ASSUME SessionInv, NEW c \in Calls, SignupCallback(c)
    PROVE  SessionInv'
<1> DEFINE u == call[c].uid
<1>1. /\ answers # <<>> /\ Head(answers) = c /\ answers' = Tail(answers)
      /\ call[c].kind = "signup" /\ call[c].phase = "ok" /\ Leave(c)
      /\ userUID' = u /\ outbox' = outbox \cup {u}
      /\ auth' = auth /\ accounts' = accounts /\ used' = used /\ docs' = docs
      /\ interrupted' = interrupted /\ expelled' = expelled /\ forgotten' = FALSE
  BY DEF SignupCallback, Callback
<1>2. /\ ScreensOK' /\ call' \in [Calls -> Call] /\ call'[c].phase = "idle"
      /\ \A e \in Calls : e # c => SameCall(call'[e], call[e])
  BY <1>1, LeaveOK
<1>3. answers' \in Seq(Calls) /\ AnswersWait' /\ UidSettles'
  BY <1>1, <1>2, Popped
<1>4. u \in Uids
  <2>1. call[c] \in Call
    BY AnswerTypes
  <2> QED BY <1>1, <2>1, PhaseSet
<1>5. /\ u \in used /\ \A x \in docs : x.uid # u
      /\ \A e \in Calls : Answered(e, "signup") /\ call[e].uid = u => e = c
  BY <1>1 DEF SessionInv, ProfilesDue, Answered
<1>6. \A e \in Calls : Answered(e, "signup")' =>
        e # c /\ Answered(e, "signup") /\ call'[e].uid = call[e].uid
  BY <1>2 DEF Answered, SameCall
<1> HIDE DEF u
<1>7. ProfilesDue'
  <2>1. ASSUME NEW d \in Calls, Answered(d, "signup")'
        PROVE  /\ call'[d].uid \in used' /\ call'[d].uid \notin outbox'
               /\ \A x \in docs' : x.uid # call'[d].uid
               /\ \A e \in Calls : Answered(e, "signup")' /\ call'[e].uid = call'[d].uid => e = d
    BY <1>1, <1>5, <1>6, <2>1 DEF SessionInv, ProfilesDue
  <2>2. outbox' \subseteq used' /\ \A x \in docs' : x.uid \in used'
    BY <1>1, <1>5 DEF SessionInv, ProfilesDue
  <2> QED BY <2>1, <2>2 DEF ProfilesDue
<1>8. OneProfile'
  BY <1>1, <1>5 DEF SessionInv, OneProfile
<1>9. TypeOK' /\ AppearingHome'
  BY <1>1, <1>2, <1>3, <1>4 DEF SessionInv, TypeOK, Types, ScreensOK
<1> QED BY <1>3, <1>7, <1>8, <1>9 DEF SessionInv

-----------------------------------------------------------------------------
(* The rest. *)

\* A profile reaches the server, or is refused.
LEMMA ProfileStep ==
    ASSUME SessionInv, NEW u \in Uids,
           ProfileRefused(u) \/ \E id \in AutoIds : ProfileAdded(u, id)
    PROVE  SessionInv'
<1>1. /\ u \in outbox /\ outbox' = outbox \ {u}
      /\ userUID' = userUID /\ auth' = auth /\ accounts' = accounts /\ used' = used
      /\ call' = call /\ answers' = answers /\ interrupted' = interrupted /\ UNCHANGED screens
      /\ expelled' = expelled /\ forgotten' = forgotten /\ UNCHANGED history
  BY DEF ProfileRefused, ProfileAdded, history
<1>2. \/ docs' = docs
      \/ \E id \in AutoIds : docs' = docs \cup {[id |-> id, uid |-> u]}
  BY DEF ProfileRefused, ProfileAdded
<1>3. AnswersWait' /\ UidSettles'
  BY <1>1, SameAnswers DEF SameCall
<1>4. u \in used /\ (\A x \in docs : x.uid # u)
      /\ \A c \in Calls : Answered(c, "signup") => call[c].uid # u
  BY <1>1 DEF SessionInv, ProfilesDue, OneProfile
<1>5. docs' \in SUBSET [id : AutoIds, uid : Uids]
      /\ (\A x \in docs' : x \in docs \/ x.uid = u)
      /\ \A x, y \in docs' : x.uid = u /\ y.uid = u => x = y
  <2>1. docs \in SUBSET [id : AutoIds, uid : Uids]
    BY DEF SessionInv, TypeOK, Types
  <2>2. CASE docs' = docs
    BY <1>4, <2>1, <2>2
  <2>3. ASSUME NEW id \in AutoIds, docs' = docs \cup {[id |-> id, uid |-> u]}
        PROVE  /\ docs' \in SUBSET [id : AutoIds, uid : Uids]
               /\ \A x \in docs' : x \in docs \/ x.uid = u
               /\ \A x, y \in docs' : x.uid = u /\ y.uid = u => x = y
    BY <1>4, <2>1, <2>3
  <2> QED BY <1>2, <2>2, <2>3
<1>6. ProfilesDue'
  BY <1>1, <1>4, <1>5 DEF SessionInv, ProfilesDue, Answered
<1>7. OneProfile'
  <2> SUFFICES ASSUME NEW v \in Uids
               PROVE  /\ \A x, y \in docs' : x.uid = v /\ y.uid = v => x = y
                      /\ v \in outbox' => \A x \in docs' : x.uid # v
    BY DEF OneProfile
  <2>1. CASE v = u
    BY <1>1, <1>5, <2>1
  <2>2. CASE v # u
    BY <1>1, <1>5, <2>2 DEF SessionInv, OneProfile
  <2> QED BY <2>1, <2>2
<1>8. TypeOK' /\ AppearingHome'
  BY <1>1, <1>5, ScreensSame DEF SessionInv, TypeOK, Types, ScreensOK
<1> QED BY <1>3, <1>6, <1>7, <1>8 DEF SessionInv

\* Firebase signs the user out: the stored uid stays, and its account too.
LEMMA SignOutStep ==
    ASSUME SessionInv, signOutIfTokenIsInvalid
    PROVE  SessionInv'
<1>1. /\ auth' = NoUid /\ expelled' = TRUE /\ forgotten' = forgotten
      /\ call' = [c \in Calls |-> [call[c] EXCEPT !.current = FALSE]]
      /\ userUID' = userUID /\ accounts' = accounts /\ used' = used /\ docs' = docs
      /\ outbox' = outbox /\ answers' = answers /\ interrupted' = interrupted
      /\ UNCHANGED screens
  BY DEF signOutIfTokenIsInvalid, cloud
<1>2. \A c \in Calls : /\ [call[c] EXCEPT !.current = FALSE] \in Call
                       /\ SameCall([call[c] EXCEPT !.current = FALSE], call[c])
  BY AnswerTypes, CurrentOff
<1>3. call' \in [Calls -> Call] /\ \A c \in Calls : SameCall(call'[c], call[c])
  BY <1>1, <1>2
<1>4. \A i \in DOMAIN answers : SameCall(call'[answers[i]], call[answers[i]])
  BY <1>3, AnswerTypes
<1>5. AnswersWait'
  BY <1>1, <1>4 DEF SessionInv, AnswersWait, SameCall
<1>6. UidSettles'
  <2>1. /\ answers' = answers /\ auth' = NoUid /\ userUID' = userUID
        /\ accounts' = accounts /\ interrupted' = interrupted /\ expelled' = TRUE
    BY <1>1
  <2>2. \A i \in DOMAIN answers : /\ call'[answers[i]].phase = call[answers[i]].phase
                                 /\ call'[answers[i]].kind = call[answers[i]].kind
                                 /\ call'[answers[i]].uid = call[answers[i]].uid
    BY <1>4 DEF SameCall
  <2>3. \A i \in DOMAIN answers : LastOk(i)' <=> LastOk(i)
    BY <2>1, <2>2 DEF LastOk
  <2> QED BY <2>1, <2>2, <2>3 DEF SessionInv, UidSettles, Settled
<1>7. ProfilesDue' /\ OneProfile'
  BY <1>1, <1>3, ProfilesKept DEF Answered, SameCall
<1>8. TypeOK' /\ AppearingHome'
  BY <1>1, <1>3, ScreensSame DEF SessionInv, TypeOK, Types, ScreensOK
<1> QED BY <1>5, <1>6, <1>7, <1>8 DEF SessionInv

\* The process is killed.
LEMMA KillStep ==
    ASSUME SessionInv, Kill
    PROVE  SessionInv'
<1>1. /\ call' = [c \in Calls |-> NoCall] /\ answers' = <<>>
      /\ depth' = 1 /\ leaf' = "home" /\ appearing' = TRUE
      /\ interrupted' = (interrupted \/ ~Quiet)
      /\ userUID' = userUID /\ auth' = auth /\ accounts' = accounts /\ used' = used
      /\ docs' = docs /\ outbox' = outbox /\ expelled' = expelled /\ forgotten' = forgotten
  BY DEF Kill, Show, cloud
<1>2. \A c \in Calls : call'[c] = NoCall /\ call'[c].phase = "idle"
  BY <1>1, NoCallOK
<1>3. call' \in [Calls -> Call] /\ answers' \in Seq(Calls) /\ DOMAIN answers' = {}
  BY <1>1, NoCallOK
<1>4. AnswersWait'
  BY <1>3 DEF AnswersWait
<1>5. Quiet => \A i \in DOMAIN answers : call[answers[i]].phase # "ok"
  BY AnswerTypes, NoCallOK DEF Quiet
<1>6. UidSettles'
  BY <1>1, <1>3, <1>5 DEF SessionInv, UidSettles, Settled
<1>7. ProfilesDue' /\ OneProfile'
  BY <1>1, <1>2, ProfilesKept DEF Answered
<1>8. TypeOK' /\ AppearingHome'
  <2>1. 1 \in 0..MaxDepth /\ interrupted' \in BOOLEAN
    BY <1>1, SessionAssumption DEF SessionInv, TypeOK, Types
  <2> QED BY <1>1, <1>3, <2>1 DEF SessionInv, TypeOK, Types, AppearingHome
<1> QED BY <1>4, <1>6, <1>7, <1>8 DEF SessionInv

-----------------------------------------------------------------------------
(* The theorems. *)

\* The first launch.
LEMMA InitOK == Init => SessionInv
<1> SUFFICES ASSUME Init PROVE SessionInv
  OBVIOUS
<1>1. answers = <<>> /\ answers \in Seq(Calls) /\ DOMAIN answers = {}
  BY DEF Init
<1>2. call \in [Calls -> Call] /\ \A c \in Calls : call[c].phase = "idle"
  BY NoCallOK DEF Init
<1>3. TypeOK /\ AppearingHome
  <2>1. 1 \in 0..MaxDepth /\ Registered \in SUBSET Uids
    BY SessionAssumption
  <2>2. /\ userUID = NoUid /\ auth = NoUid /\ accounts = Registered /\ used = Registered
        /\ docs = {} /\ outbox = {} /\ depth = 1 /\ leaf = "home"
        /\ appearing = TRUE /\ interrupted = FALSE /\ expelled = FALSE /\ forgotten = FALSE
    BY DEF Init
  <2>3. docs \in SUBSET [id : AutoIds, uid : Uids] /\ outbox \in SUBSET Uids
    BY <2>2
  <2>4. /\ userUID \in Uids \cup {NoUid} /\ auth \in Uids \cup {NoUid}
        /\ accounts \in SUBSET Uids /\ used \in SUBSET Uids
    BY <2>1, <2>2
  <2>5. depth \in 0..MaxDepth /\ depth > 0 /\ leaf \in {"home", "login", "register"}
    BY <2>1, <2>2
  <2>6. /\ appearing \in BOOLEAN /\ interrupted \in BOOLEAN
        /\ expelled \in BOOLEAN /\ forgotten \in BOOLEAN
    BY <2>2
  <2>7. Types
    BY <1>1, <1>2, <2>3, <2>4, <2>5, <2>6 DEF Types
  <2> QED BY <2>2, <2>5, <2>7 DEF TypeOK, AppearingHome
<1>4. AnswersWait /\ UidSettles
  BY <1>1 DEF Init, AnswersWait, UidSettles
<1>5. ProfilesDue /\ OneProfile
  BY <1>2 DEF Init, ProfilesDue, OneProfile, Answered
<1> QED BY <1>3, <1>4, <1>5 DEF SessionInv

\* The invariant holds in every state.
LEMMA Invariant == Spec => []SessionInv
<1>1. SessionInv /\ [Next]_vars => SessionInv'
  <2> SUFFICES ASSUME SessionInv, [Next]_vars PROVE SessionInv'
    OBVIOUS
  <2>1. CASE \/ viewDidAppear \/ \E k \in 1..MaxDepth : Reappear(k)
             \/ PushTabBar \/ registerButtonTapped \/ RegisterBack
    BY <2>1, ScreenStep
  <2>2. ASSUME NEW c \in Calls,
               \/ \E u \in Uids : loginButtonTapped(c, u) \/ signupButtonTapped(c, u)
               \/ deleteAccount(c)
               \/ SignedIn(c) \/ SignedUp(c) \/ Unlinked(c) \/ AccountDeleted(c)
               \/ CallFails(c) \/ AnswerLost(c)
               \/ LoginCallback(c) \/ SignupCallback(c) \/ UnlinkCallback(c) \/ DeleteCallback(c)
               \/ FailureCallback(c)
        PROVE  SessionInv'
    <3>1. CASE (\E u \in Uids : loginButtonTapped(c, u) \/ signupButtonTapped(c, u))
               \/ deleteAccount(c)
      BY <3>1, ButtonStep
    <3>2. CASE SignedIn(c)
      BY <3>2, SignedInStep
    <3>3. CASE SignedUp(c)
      BY <3>3, SignedUpStep
    <3>4. CASE Unlinked(c)
      BY <3>4, UnlinkedStep
    <3>5. CASE AccountDeleted(c)
      BY <3>5, AccountDeletedStep
    <3>6. CASE CallFails(c) \/ AnswerLost(c)
      BY <3>6, FailsStep
    <3>7. CASE LoginCallback(c) \/ UnlinkCallback(c) \/ DeleteCallback(c) \/ FailureCallback(c)
      BY <3>7, CallbackStep
    <3>8. CASE SignupCallback(c)
      BY <3>8, SignupCallbackStep
    <3> QED BY <2>2, <3>1, <3>2, <3>3, <3>4, <3>5, <3>6, <3>7, <3>8
  <2>3. CASE signOutIfTokenIsInvalid
    BY <2>3, SignOutStep
  <2>4. ASSUME NEW u \in Uids, ProfileRefused(u) \/ \E id \in AutoIds : ProfileAdded(u, id)
        PROVE  SessionInv'
    BY <2>4, ProfileStep
  <2>5. CASE Kill
    BY <2>5, KillStep
  <2>6. CASE UNCHANGED vars
    <3>1. UNCHANGED <<userUID, auth, cloud, answers, history>> /\ UNCHANGED screens /\ call' = call
      BY <2>6 DEF vars, cloud, screens, history
    <3> QED BY <3>1, AnswerTypes, ScreensSame, ScreenOnly DEF SameCall
  <2> QED BY <2>1, <2>2, <2>3, <2>4, <2>5, <2>6 DEF Next
<1> QED BY <1>1, InitOK, PTL DEF Spec

\* Every variable keeps its type, and Home is never shown outside a tab bar
\* (transitionToTabBar, viewDidAppear).
THEOREM SessionTypes == Spec => []TypeOK
<1>1. SessionInv => TypeOK
  BY DEF SessionInv
<1> QED BY <1>1, Invariant, PTL

\* No account ever has two profile documents (signupButtonTapped).
THEOREM OneProfileEach == Spec => []OneProfile
<1>1. SessionInv => OneProfile
  BY DEF SessionInv
<1> QED BY <1>1, Invariant, PTL

\* With no call under way the queue of the main thread is empty.
LEMMA QuietIsSettled ==
    ASSUME SessionInv, Quiet, ~interrupted
    PROVE  IF userUID = NoUid THEN auth = NoUid \/ forgotten ELSE Settled(userUID)
<1>1. \A i \in DOMAIN answers : call[answers[i]].phase # "ok"
  BY AnswerTypes, NoCallOK DEF Quiet
<1> QED BY <1>1 DEF SessionInv, UidSettles

\* Whatever overlapped, once every call has been answered and no answer was
\* swallowed, the stored uid is the signed-in user, unless Firebase refused
\* that user's token or a deletion forgot the uid (the last callback to run is
\* that of the last answer).
THEOREM StoredIsSignedIn == Spec => []UidIsSignedIn
<1>1. SessionInv => UidIsSignedIn
  BY QuietIsSettled DEF UidIsSignedIn, Settled
<1> QED BY <1>1, Invariant, PTL

\* Nor is it the uid of an account that was deleted (DeleteCallback).
THEOREM StoredExists == Spec => []NoGhost
<1>1. SessionInv => NoGhost
  BY QuietIsSettled DEF NoGhost, Settled
<1> QED BY <1>1, Invariant, PTL

=============================================================================
