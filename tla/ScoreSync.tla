------------------------------ MODULE ScoreSync ------------------------------
(***************************************************************************)
(* Redeeming a sticker and saving its score (ResultViewController.swift).  *)
(*                                                                         *)
(* The redeem handler marks the sticker in UserDefaults and starts a       *)
(* read-then-write against the document user_scores/<uid>: getDocument,    *)
(* and in its callback updateData(arrayUnion) if the document exists,      *)
(* setData with a one-entry array otherwise, an offline error included.    *)
(*                                                                         *)
(* Firestore is modelled from how the app uses it: a local cache, a        *)
(* persistent outbox of writes per signed-in user, overlaid on every read  *)
(* and sent in order, at least once.  One entry of the "scores" array is   *)
(* represented by its sticker, which determines the whole dictionary       *)
(* ("stickerID<n>", "score<n>", "uid") once the uid is given.              *)
(***************************************************************************)
EXTENDS Naturals, Sequences, Catalog

CONSTANTS
    Devices,       \* installations of the app
    Uids,          \* Firebase Auth accounts
    NoUid,         \* "userUID" absent from UserDefaults; nobody signed in
    Stickers,      \* the stickers considered, of the catalogue's 28
    Calls,         \* slots for getDocument calls: how many may overlap
    MaxQueue,      \* bound: writes waiting in one outbox
    Disturbances   \* which of AllDisturbances the environment may produce

(***************************************************************************)
(*   kill     the process ends and is launched again                       *)
(*   resend   the write stream breaks after the server applied writes      *)
(*   reject   the server refuses a write for good (rules, quota)           *)
(*   session  accounts sign in, sign out and are deleted during the run    *)
(*   shared   several devices may hold the same account                    *)
(***************************************************************************)
AllDisturbances == {"kill", "resend", "reject", "session", "shared"}

NoSticker == 0

ASSUME ScoreSyncAssumption ==
    /\ NoUid \notin Uids
    /\ Stickers \subseteq StickerIds
    /\ MaxQueue \in Nat \ {0}
    /\ Disturbances \subseteq AllDisturbances

VARIABLES
    userUID,    \* UserDefaults "userUID" of each device
    unlocked,   \* stickers whose key "stickerResgatado<id>" is set
    result,     \* sticker of the ResultViewController on screen
    call,       \* getDocument calls of each device
    auth,       \* Auth.currentUser
    accounts,   \* accounts that exist at Firebase Auth
    queue,      \* outbox of each device and signed-in user
    applied,    \* writes of the outbox the server applied on this stream
    cached,     \* uids whose score document is in the device's cache
    scores,     \* the "scores" array on the server, <<>> if no document
    earned,     \* history: stickers redeemed while the account was logged in
    confirmed   \* history: stickers whose write was reported saved

session == <<userUID, auth, accounts>>
firestore == <<queue, applied, cached, scores, confirmed>>
vars == <<userUID, unlocked, result, call, auth, accounts, queue, applied,
          cached, scores, earned, confirmed>>

Owners == Uids \cup {NoUid}

Write == [op : {"set", "union"}, uid : Uids, sticker : Stickers]

NoCall == [phase |-> "idle", uid |-> NoUid, sticker |-> NoSticker]

Call == {NoCall} \cup [phase : {"waiting", "found", "missing"},
                       uid : Uids, sticker : Stickers]

Elems(seq) == {seq[i] : i \in DOMAIN seq}

-----------------------------------------------------------------------------
(* What the device sees of the cloud. *)

Outbox(d) == queue[d][auth[d]]

\* A pending set makes the document exist locally; a pending union of a
\* missing document does not.
SetPending(d, u) ==
    \E i \in DOMAIN Outbox(d) : Outbox(d)[i].op = "set" /\ Outbox(d)[i].uid = u

ExistsOnline(d, u)  == scores[u] # <<>> \/ SetPending(d, u)
ExistsOffline(d, u) == u \in cached[d] \/ SetPending(d, u)

\* Mutant of Stored: the array is extended without looking for the entry.
Stored_Appends(w, array) ==
    IF w.op = "set" THEN <<w.sticker>> ELSE Append(array, w.sticker)

\* The array the server stores when it applies a write: setData replaces the
\* document, arrayUnion appends only an entry that is not there yet.
Stored(w, array) ==
    IF w.op = "set" THEN <<w.sticker>>
    ELSE IF w.sticker \in Elems(array) THEN array
    ELSE Append(array, w.sticker)

-----------------------------------------------------------------------------
Init ==
    /\ userUID \in [Devices -> Owners]
    /\ "shared" \notin Disturbances =>
         \A d, e \in Devices : userUID[d] = userUID[e] /\ userUID[d] # NoUid => d = e
    /\ unlocked = [d \in Devices |-> {}]
    /\ result = [d \in Devices |-> NoSticker]
    /\ call = [d \in Devices |-> [c \in Calls |-> NoCall]]
    /\ auth = userUID
    /\ accounts = Uids
    /\ queue = [d \in Devices |-> [u \in Owners |-> <<>>]]
    /\ applied = [d \in Devices |-> 0]
    /\ cached = [d \in Devices |-> {}]
    /\ scores = [u \in Uids |-> <<>>]
    /\ earned = [u \in Uids |-> {}]
    /\ confirmed = [u \in Uids |-> {}]

-----------------------------------------------------------------------------
(* The screens around the redemption. *)

\* The quiz was offered because the sticker was locked; leaving the web view
\* pushes the result screen (the key it writes is not one anybody reads).
OpenResult(d, s) ==
    /\ result[d] = NoSticker
    /\ s \notin unlocked[d]
    /\ result' = [result EXCEPT ![d] = s]
    /\ UNCHANGED <<session, unlocked, call, firestore, earned>>

\* galeryButtonTapped.
OpenGallery(d) ==
    /\ result[d] # NoSticker
    /\ result' = [result EXCEPT ![d] = NoSticker]
    /\ UNCHANGED <<session, unlocked, call, firestore, earned>>

\* buttonSearchTapped of the album: removes the keys of the ids 1...20.
Reset(d) ==
    /\ result[d] = NoSticker
    /\ unlocked' = [unlocked EXCEPT ![d] = @ \ keysToDelete]
    /\ UNCHANGED <<session, result, call, firestore, earned>>

-----------------------------------------------------------------------------
(* Redeeming. *)

\* redeemButtonTapped.  The button stays enabled: it may be tapped again.
Redeem(d) ==
    LET s == result[d]
        u == userUID[d]
    IN  /\ s # NoSticker
        /\ unlocked' = [unlocked EXCEPT ![d] = @ \cup {s}]
        /\ \/ /\ u = NoUid
              /\ UNCHANGED <<call, earned>>
           \/ /\ u # NoUid
              /\ \E c \in Calls :
                   /\ call[d][c] = NoCall
                   /\ call' = [call EXCEPT ![d][c] =
                        [phase |-> "waiting", uid |-> u, sticker |-> s]]
              /\ earned' = [earned EXCEPT ![u] = @ \cup {s}]
        /\ UNCHANGED <<session, result, firestore>>

Completed(d, c, found) ==
    call' = [call EXCEPT ![d][c].phase = IF found THEN "found" ELSE "missing"]

\* The read reaches the server: the snapshot is the server's document under
\* the pending writes, and a document that exists enters the cache.
GetOnline(d, c) ==
    LET u == call[d][c].uid
    IN  /\ call[d][c].phase = "waiting"
        /\ Completed(d, c, ExistsOnline(d, u))
        /\ cached' = IF scores[u] # <<>> THEN [cached EXCEPT ![d] = @ \cup {u}] ELSE cached
        /\ UNCHANGED <<session, unlocked, result, queue, applied, scores, earned, confirmed>>

\* Mutant of GetOffline: the callback returns when the read fails.
GetOffline_GivesUp(d, c) ==
    /\ call[d][c].phase = "waiting"
    /\ IF ExistsOffline(d, call[d][c].uid)
       THEN Completed(d, c, TRUE)
       ELSE call' = [call EXCEPT ![d][c] = NoCall]
    /\ UNCHANGED <<session, unlocked, result, firestore, earned>>

\* The stream could not connect: the snapshot comes from the cache, and a
\* document missing there is an error, which the app treats as "no document".
GetOffline(d, c) ==
    /\ call[d][c].phase = "waiting"
    /\ Completed(d, c, ExistsOffline(d, call[d][c].uid))
    /\ UNCHANGED <<session, unlocked, result, firestore, earned>>

\* Mutant of WriteFor: the branch for an existing document is missing.
WriteFor_AlwaysSet(k) == [op |-> "set", uid |-> k.uid, sticker |-> k.sticker]

\* The write the callback chooses, for the uid and sticker it captured.
WriteFor(k) ==
    [op |-> IF k.phase = "found" THEN "union" ELSE "set",
     uid |-> k.uid, sticker |-> k.sticker]

\* Mutant of GetCallback: the uid is read again instead of captured.
GetCallback_FreshUid(d, c) ==
    /\ call[d][c].phase \in {"found", "missing"}
    /\ userUID[d] # NoUid
    /\ Len(Outbox(d)) < MaxQueue
    /\ queue' = [queue EXCEPT ![d][auth[d]] =
         Append(@, WriteFor([call[d][c] EXCEPT !.uid = userUID[d]]))]
    /\ call' = [call EXCEPT ![d][c] = NoCall]
    /\ UNCHANGED <<session, unlocked, result, applied, cached, scores, earned, confirmed>>

\* The getDocument callback on the main thread.
GetCallback(d, c) ==
    /\ call[d][c].phase \in {"found", "missing"}
    /\ Len(Outbox(d)) < MaxQueue
    /\ queue' = [queue EXCEPT ![d][auth[d]] = Append(@, WriteFor(call[d][c]))]
    /\ call' = [call EXCEPT ![d][c] = NoCall]
    /\ UNCHANGED <<session, unlocked, result, applied, cached, scores, earned, confirmed>>

-----------------------------------------------------------------------------
(* The outbox.  Writes are pipelined: several may be applied before the     *)
(* first is acknowledged.                                                   *)

NextWrite(d) == Outbox(d)[applied[d] + 1]

\* An update carries the precondition that the document exists.
Accepted(w) == w.op = "set" \/ scores[w.uid] # <<>>

ServerApply(d) ==
    /\ applied[d] < Len(Outbox(d))
    /\ Accepted(NextWrite(d))
    /\ LET w == NextWrite(d)
       IN  scores' = [scores EXCEPT ![w.uid] = Stored(w, @)]
    /\ applied' = [applied EXCEPT ![d] = @ + 1]
    /\ UNCHANGED <<session, unlocked, result, call, queue, cached, earned, confirmed>>

\* Mutant of ServerAck: an acknowledged document does not enter the cache.
ServerAck_NotCached(d) ==
    LET w == Head(Outbox(d))
    IN  /\ applied[d] > 0
        /\ queue' = [queue EXCEPT ![d][auth[d]] = Tail(@)]
        /\ applied' = [applied EXCEPT ![d] = @ - 1]
        /\ confirmed' = [confirmed EXCEPT ![w.uid] = @ \cup {w.sticker}]
        /\ UNCHANGED <<session, unlocked, result, call, cached, scores, earned>>

\* The acknowledgement of the oldest write: the completion handler prints
\* that the score was saved, and the document is in the cache.
ServerAck(d) ==
    LET w == Head(Outbox(d))
    IN  /\ applied[d] > 0
        /\ queue' = [queue EXCEPT ![d][auth[d]] = Tail(@)]
        /\ applied' = [applied EXCEPT ![d] = @ - 1]
        /\ cached' = [cached EXCEPT ![d] = @ \cup {w.uid}]
        /\ confirmed' = [confirmed EXCEPT ![w.uid] = @ \cup {w.sticker}]
        /\ UNCHANGED <<session, unlocked, result, call, scores, earned>>

\* A permanent error drops the write; the completion handler prints it.
ServerReject(d) ==
    /\ applied[d] = 0 /\ Outbox(d) # <<>>
    /\ "reject" \in Disturbances \/ ~Accepted(Head(Outbox(d)))
    /\ queue' = [queue EXCEPT ![d][auth[d]] = Tail(@)]
    /\ UNCHANGED <<session, unlocked, result, call, applied, cached, scores, earned, confirmed>>

\* Mutant of StreamBreak: what was sent is taken for saved and not sent again.
StreamBreak_Drops(d) ==
    /\ "resend" \in Disturbances
    /\ Outbox(d) # <<>>
    /\ queue' = [queue EXCEPT ![d][auth[d]] = Tail(@)]
    /\ applied' = [applied EXCEPT ![d] = 0]
    /\ UNCHANGED <<session, unlocked, result, call, cached, scores, earned, confirmed>>

\* The stream breaks with acknowledgements outstanding: all is sent again.
StreamBreak(d) ==
    /\ "resend" \in Disturbances
    /\ applied[d] > 0
    /\ applied' = [applied EXCEPT ![d] = 0]
    /\ UNCHANGED <<session, unlocked, result, call, queue, cached, scores, earned, confirmed>>

-----------------------------------------------------------------------------
(* The session around it.  Module Session models the screens and calls and  *)
(* says in which order these happen; here they happen in any order.         *)

\* Mutant of Become: the stream of the previous user goes on.
Become_KeepsStream(d, u) ==
    /\ auth' = [auth EXCEPT ![d] = u]
    /\ UNCHANGED applied

\* The outbox of the user who is signed in now becomes the active one, and
\* the stream is reopened, even if it is the same user with a new token.
Become(d, u) ==
    /\ auth' = [auth EXCEPT ![d] = u]
    /\ applied' = [applied EXCEPT ![d] = 0]

SignIn(d, u) ==
    /\ "session" \in Disturbances
    /\ u \in accounts
    /\ Become(d, u)
    /\ UNCHANGED <<userUID, accounts, unlocked, result, call, queue, cached, scores, earned, confirmed>>

\* The callback of a login or registration stores its uid; another user may
\* have signed in since, or the account be gone.
StoreUid(d, u) ==
    /\ "session" \in Disturbances
    /\ userUID' = [userUID EXCEPT ![d] = u]
    /\ UNCHANGED <<auth, accounts, unlocked, result, call, firestore, earned>>

\* deleteAccount removes whatever uid is stored ...
ClearUid(d) ==
    /\ "session" \in Disturbances
    /\ userUID[d] # NoUid
    /\ userUID' = [userUID EXCEPT ![d] = NoUid]
    /\ UNCHANGED <<auth, accounts, unlocked, result, call, firestore, earned>>

\* ... and an account, which signs out the user who asked for it unless
\* somebody signed in since.
AccountGone(d, u) ==
    /\ "session" \in Disturbances
    /\ u \in accounts
    /\ accounts' = accounts \ {u}
    /\ \/ auth[d] = u /\ Become(d, NoUid)
       \/ UNCHANGED <<auth, applied>>
    /\ UNCHANGED <<userUID, unlocked, result, call, queue, cached, scores, earned, confirmed>>

\* Mutant of Kill: the outbox is kept in memory only.
Kill_LosesOutbox(d) ==
    /\ "kill" \in Disturbances
    /\ result' = [result EXCEPT ![d] = NoSticker]
    /\ call' = [call EXCEPT ![d] = [c \in Calls |-> NoCall]]
    /\ queue' = [queue EXCEPT ![d] = [u \in Owners |-> <<>>]]
    /\ applied' = [applied EXCEPT ![d] = 0]
    /\ UNCHANGED <<session, unlocked, cached, scores, earned, confirmed>>

\* UserDefaults, the signed-in user, the cache and the outbox are on disk;
\* screens, calls and their closures are not.
Kill(d) ==
    /\ "kill" \in Disturbances
    /\ result' = [result EXCEPT ![d] = NoSticker]
    /\ call' = [call EXCEPT ![d] = [c \in Calls |-> NoCall]]
    /\ applied' = [applied EXCEPT ![d] = 0]
    /\ UNCHANGED <<session, unlocked, queue, cached, scores, earned, confirmed>>

-----------------------------------------------------------------------------
Next ==
    \E d \in Devices :
        \/ \E s \in Stickers : OpenResult(d, s)
        \/ OpenGallery(d)
        \/ Reset(d)
        \/ Redeem(d)
        \/ \E c \in Calls : GetOnline(d, c) \/ GetOffline(d, c) \/ GetCallback(d, c)
        \/ ServerApply(d)
        \/ ServerAck(d)
        \/ ServerReject(d)
        \/ StreamBreak(d)
        \/ \E u \in Uids : SignIn(d, u) \/ StoreUid(d, u) \/ AccountGone(d, u)
        \/ ClearUid(d)
        \/ Kill(d)

Spec == Init /\ [][Next]_vars

(***************************************************************************)
(* getDocument always completes (the SDK falls back to the cache after ten *)
(* seconds), main-thread callbacks run, and the SDK reconnects until an    *)
(* acknowledgement comes through.  Nothing obliges the user to do anything.*)
(***************************************************************************)
Fairness ==
    \A d \in Devices :
        /\ \A c \in Calls : WF_vars(GetOnline(d, c) \/ GetOffline(d, c))
        /\ \A c \in Calls : WF_vars(GetCallback(d, c))
        /\ WF_vars(ServerApply(d))
        /\ SF_vars(ServerAck(d))

FairSpec == Spec /\ Fairness

-----------------------------------------------------------------------------
(* Properties. *)

Types ==
    /\ userUID \in [Devices -> Owners]
    /\ unlocked \in [Devices -> SUBSET Stickers]
    /\ result \in [Devices -> Stickers \cup {NoSticker}]
    /\ call \in [Devices -> [Calls -> Call]]
    /\ auth \in [Devices -> Owners]
    /\ accounts \in SUBSET Uids
    /\ queue \in [Devices -> [Owners -> Seq(Write)]]
    /\ applied \in [Devices -> Nat]
    /\ cached \in [Devices -> SUBSET Uids]
    /\ scores \in [Uids -> Seq(Stickers)]
    /\ earned \in [Uids -> SUBSET Stickers]
    /\ confirmed \in [Uids -> SUBSET Stickers]

\* Every variable holds a value of its kind; no outbox passes its bound and
\* the server has applied no more writes than the active outbox holds, also
\* after another user signed in.
TypeOK ==
    /\ Types
    /\ \A d \in Devices : \A u \in Owners : Len(queue[d][u]) <= MaxQueue
    /\ \A d \in Devices : applied[d] <= Len(queue[d][auth[d]])

\* A score is credited only to an account that redeemed the sticker, however
\* late the read answers and whoever is logged in by then: the callback of
\* redeemButtonTapped writes for the uid it captured, not for the current one.
ScoresEarned == \A u \in Uids : Elems(scores[u]) \subseteq earned[u]

\* No sticker is counted twice in an account's "scores", although it may be
\* redeemed again after a reset, tapped twice or sent twice: arrayUnion and
\* the one-entry setData both keep the array free of duplicates.
NoDoubleCredit ==
    \A u \in Uids : \A i, j \in DOMAIN scores[u] : scores[u][i] = scores[u][j] => i = j

\* A score the app reported as saved ("salva com sucesso") stays on the
\* server: no later setData of the read-then-write replaces it.
ConfirmedKept == \A u \in Uids : confirmed[u] \subseteq Elems(scores[u])

\* The stickers that an account's writes will still bring to the server.
Pending(u) ==
    {s \in Stickers : \E d \in Devices : \E v \in Owners :
        \E i \in DOMAIN queue[d][v] :
            queue[d][v][i].uid = u /\ queue[d][v][i].sticker = s}

\* Saved for good: on the server, or on the disk of a device on its way there.
Durable(u) == Elems(scores[u]) \cup Pending(u)

LedgerOfScores == INSTANCE Ledger WITH ledger <- [u \in Uids |-> Durable(u)]

\* The saving implements the ledger: from the callback on, a score is never
\* lost, even while a repeated setData has the server forget it for a moment.
ImplementsLedger == LedgerOfScores!Spec

-----------------------------------------------------------------------------
(* Why ConfirmedKept and ImplementsLedger hold when each account is used on *)
(* one device with one read in flight: the inductive invariant.             *)

\* The restricted environment in which nothing is lost.
Serial ==
    /\ \A c, e \in Calls : c = e
    /\ Disturbances \cap {"session", "shared", "reject"} = {}

\* Each account lives on one device, in one outbox, which only it writes.
OneHome ==
    /\ auth = userUID
    /\ \A d, e \in Devices : userUID[d] = userUID[e] /\ userUID[d] # NoUid => d = e
    /\ \A d \in Devices, v \in Owners :
         queue[d][v] # <<>> => v = userUID[d] /\ v # NoUid
    /\ \A d \in Devices : \A i \in DOMAIN Outbox(d) : Outbox(d)[i].uid = userUID[d]
    /\ \A d \in Devices, c \in Calls :
         call[d][c] # NoCall => call[d][c].uid = userUID[d]

\* A setData is only ever the oldest write of an outbox, and while it waits
\* the server knows nothing that the outbox does not also hold.
SetIsFirst ==
    \A d \in Devices :
        LET q == Outbox(d)
            u == userUID[d]
        IN  /\ \A i \in DOMAIN q : i > 1 => q[i].op = "union"
            /\ q # <<>> /\ q[1].op = "set" =>
                 /\ confirmed[u] = {}
                 /\ \A s \in Elems(scores[u]) : \E i \in DOMAIN q : q[i].sticker = s

\* Without a setData ahead of it, the cache knows the document if it exists.
CacheKnows ==
    \A d \in Devices :
        LET q == Outbox(d)
            u == userUID[d]
        IN  /\ u \in cached[d] => scores[u] # <<>>
            /\ q # <<>> /\ q[1].op = "union" => u \in cached[d]
            /\ u \in Uids /\ q = <<>> /\ scores[u] # <<>> => u \in cached[d]

\* The answer a callback is about to act on is still true.
AnswerFresh ==
    \A d \in Devices, c \in Calls :
        /\ call[d][c].phase = "missing" => Outbox(d) = <<>> /\ scores[call[d][c].uid] = <<>>
        /\ call[d][c].phase = "found" => ExistsOffline(d, call[d][c].uid)

\* What the server applied on this stream, it still has.
AppliedThere ==
    \A d \in Devices : \A i \in 1..applied[d] :
        Outbox(d)[i].sticker \in Elems(scores[Outbox(d)[i].uid])

\* Whatever is on the server, in an outbox or in a call was earned.
EarnedFirst ==
    /\ ScoresEarned
    /\ \A d \in Devices, c \in Calls :
         call[d][c] # NoCall => call[d][c].sticker \in earned[call[d][c].uid]
    /\ \A d \in Devices, v \in Owners : \A i \in DOMAIN queue[d][v] :
         queue[d][v][i].sticker \in earned[queue[d][v][i].uid]

\* The inductive invariant of the serial environment: no setData is decided
\* on an answer that a queued or stored score has made wrong.
KeptInv ==
    /\ OneHome
    /\ SetIsFirst
    /\ CacheKnows
    /\ AnswerFresh
    /\ AppliedThere
    /\ ConfirmedKept

-----------------------------------------------------------------------------
(* Liveness, under FairSpec. *)

\* A redeemed score whose read is under way becomes durable, online or offline,
\* unless the process is killed first: then the call and the result screen are
\* gone, and the sticker is unlocked without a score.
RedeemedSaved ==
    \A d \in Devices, c \in Calls, u \in Uids, s \in Stickers :
        (call[d][c].uid = u /\ call[d][c].sticker = s)
            ~> (s \in Durable(u) \/ (call[d][c] = NoCall /\ result[d] = NoSticker))

\* A queued write reaches the server for good, however often the stream
\* breaks or the process is killed: the outbox is on disk.
QueuedSaved ==
    \A u \in Uids, s \in Stickers :
        (s \in Pending(u)) ~> (s \in Elems(scores[u]) /\ s \in confirmed[u])

=============================================================================
