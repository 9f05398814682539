------------------------------- MODULE Session -------------------------------
(***************************************************************************)
(* Logging in, registering and deleting the account on one device          *)
(* (TabBarController, LoginViewController, RegisterViewController,         *)
(* HomeViewController), against Firebase Auth and the "users" collection.  *)
(*                                                                         *)
(* Screens.  A TabBarController shows Home in its first tab; only that     *)
(* tab's navigation controller and the window's are ever given a login     *)
(* screen or a further TabBarController, so what is on screen is a number  *)
(* of nested tab bars and the screen inside the innermost one.  A screen   *)
(* that was replaced has no navigation controller any more, and one that   *)
(* is buried under a pushed tab bar is never seen again: in both cases     *)
(* what its late callbacks do to their navigation controller has no        *)
(* visible effect.  Which of its five tabs a tab bar has selected is left  *)
(* out: "on screen" means inside the innermost tab bar, be its tab         *)
(* selected or not.                                                        *)
(***************************************************************************)
EXTENDS Naturals, Sequences, FiniteSets

CONSTANTS
    Uids,       \* accounts that exist or may be created
    Registered, \* the accounts that exist at the start
    NoUid,      \* no "userUID" in UserDefaults; no signed-in user
    AutoIds,    \* document ids that addDocument generates
    Calls,      \* slots for calls to Firebase: how many may overlap
    MaxDepth    \* bound: nested tab bars

ASSUME SessionAssumption ==
    /\ NoUid \notin Uids
    /\ Registered \subseteq Uids
    /\ AutoIds \cap Uids = {}
    /\ MaxDepth \in Nat \ {0}

VARIABLES
    userUID,    \* UserDefaults "userUID"
    auth,       \* Auth.currentUser
    accounts,   \* accounts at Firebase Auth
    used,       \* uids ever given to an account
    docs,       \* documents of "users": their id and their uid field
    outbox,     \* uids whose addDocument waits for the server
    call,       \* calls to Firebase and their unfinished callbacks
    answers,    \* callbacks queued on the main thread, in the order of the answers
    depth,      \* tab bars on screen, one inside the other
    leaf,       \* the screen inside the innermost
    appearing,  \* the innermost tab bar has not appeared yet
    interrupted, \* history: a kill or the network swallowed an answer
    expelled,   \* history: Firebase signed out the user signed in last
    forgotten   \* history: a deletion forgot the uid stored last

cloud == <<accounts, used, docs, outbox>>
screens == <<depth, leaf, appearing>>
history == <<interrupted, expelled, forgotten>>
vars == <<userUID, auth, accounts, used, docs, outbox, call, answers,
          depth, leaf, appearing, interrupted, expelled, forgotten>>

Kinds == {"login", "signup", "unlink", "delete"}

\* live: the screen that made the call is still on screen.
\* current: the user object that made the call is still the signed-in one.
NoCall == [kind |-> "none", uid |-> NoUid, phase |-> "idle",
           live |-> FALSE, current |-> FALSE]

Call == {NoCall} \cup
    [kind : Kinds, uid : Uids, phase : {"sent", "ok", "failed"},
     live : BOOLEAN, current : BOOLEAN]

-----------------------------------------------------------------------------
(* Screens. *)

Show(n, s, fresh) ==
    /\ depth' = n
    /\ leaf' = s
    /\ appearing' = fresh

\* No screen that started a call is on screen any more.
Orphaned(calls) == [c \in Calls |-> [calls[c] EXCEPT !.live = FALSE]]

\* Mutant of transitionToTabBar: no tab bar is installed around Home.
transitionToTabBar_BareHome == Show(depth, "home", TRUE)

\* setViewControllers([TabBarController()]) where the login screen was.
transitionToTabBar == Show(depth + 1, "home", TRUE)

\* Login replaces Home inside the innermost tab bar, which stays.
transitionToLogin == Show(depth, "login", FALSE)

\* The user can act: no transition is running.
Idle == ~appearing

-----------------------------------------------------------------------------
\* A launch shows a tab bar; it gates on the stored uid when it appears.
Init ==
    /\ userUID = NoUid
    /\ auth = NoUid
    /\ accounts = Registered
    /\ used = Registered
    /\ docs = {}
    /\ outbox = {}
    /\ call = [c \in Calls |-> NoCall]
    /\ answers = <<>>
    /\ depth = 1
    /\ leaf = "home"
    /\ appearing = TRUE
    /\ interrupted = FALSE
    /\ expelled = FALSE
    /\ forgotten = FALSE

\* viewDidAppear of the k-th tab bar: without a stored uid, login replaces it.
Gate(k) ==
    IF userUID = NoUid
    THEN /\ Show(k - 1, "login", FALSE)
         /\ call' = Orphaned(call)
    ELSE /\ Show(depth, leaf, FALSE)
         /\ UNCHANGED call

viewDidAppear ==
    /\ appearing
    /\ Gate(depth)
    /\ UNCHANGED <<userUID, auth, cloud, answers, history>>

\* A screen that covered the k-th tab bar (one of the album, pushed over it)
\* is left.  Selecting a tab is no appearance of the tab bar itself.
Reappear(k) ==
    /\ Idle
    /\ k <= depth
    /\ Gate(k)
    /\ UNCHANGED <<userUID, auth, cloud, answers, history>>

\* "Ver galeria" of the result screen pushes a new tab bar over everything.
PushTabBar ==
    /\ Idle /\ depth > 0
    /\ Show(1, "home", TRUE)
    /\ call' = Orphaned(call)
    /\ UNCHANGED <<userUID, auth, cloud, answers, history>>

\* registerButtonTapped, and back.
registerButtonTapped ==
    /\ Idle /\ leaf = "login"
    /\ leaf' = "register"
    /\ UNCHANGED <<userUID, auth, cloud, call, answers, depth, appearing, history>>

RegisterBack ==
    /\ Idle /\ leaf = "register"
    /\ leaf' = "login"
    /\ call' = [c \in Calls |->
         IF call[c].kind = "signup" THEN [call[c] EXCEPT !.live = FALSE] ELSE call[c]]
    /\ UNCHANGED <<userUID, auth, cloud, answers, depth, appearing, history>>

-----------------------------------------------------------------------------
(* Calls.  Firebase answers on its own queue: the SDK's state changes       *)
(* first, the app's callback runs on the main thread later.                 *)

Quiet == \A c \in Calls : call[c] = NoCall

Start(c, kind, u) ==
    /\ call[c] = NoCall
    /\ call' = [call EXCEPT ![c] = [kind |-> kind, uid |-> u, phase |-> "sent",
                                   live |-> TRUE, current |-> kind = "unlink"]]

Sent(c, kind) == call[c].kind = kind /\ call[c].phase = "sent"

Answer(c, phase) ==
    /\ call' = [call EXCEPT ![c].phase = phase]
    /\ answers' = Append(answers, c)

\* The same answer, with a new user object signed in: also when the same
\* account logs in again, no earlier object is the current one any more.
AnswerWithUser(c) ==
    /\ call' = [e \in Calls |->
         [call[e] EXCEPT !.current = FALSE, !.phase = IF e = c THEN "ok" ELSE @]]
    /\ auth' = call[c].uid
    /\ expelled' = FALSE
    /\ answers' = Append(answers, c)

\* The callback whose turn it is on the main thread.
Callback(c, phase) ==
    /\ answers # <<>> /\ Head(answers) = c
    /\ call[c].phase = phase
    /\ answers' = Tail(answers)

loginButtonTapped(c, u) ==
    /\ Idle /\ leaf = "login"
    /\ Start(c, "login", u)
    /\ UNCHANGED <<userUID, auth, cloud, answers, screens, history>>

\* With the fields validated; a blank field only shows an alert.
signupButtonTapped(c, u) ==
    /\ Idle /\ leaf = "register"
    /\ Start(c, "signup", u)
    /\ UNCHANGED <<userUID, auth, cloud, answers, screens, history>>

SignedIn(c) ==
    /\ Sent(c, "login") /\ call[c].uid \in accounts
    /\ AnswerWithUser(c)
    /\ UNCHANGED <<userUID, cloud, screens, interrupted, forgotten>>

\* Firebase Auth refuses an e-mail that is taken, so a uid is created once.
SignedUp(c) ==
    /\ Sent(c, "signup") /\ call[c].uid \notin used
    /\ accounts' = accounts \cup {call[c].uid}
    /\ used' = used \cup {call[c].uid}
    /\ AnswerWithUser(c)
    /\ UNCHANGED <<userUID, docs, outbox, screens, interrupted, forgotten>>

\* Wrong password, taken e-mail, no network, an old login.
CallFails(c) ==
    /\ call[c].phase = "sent"
    /\ Answer(c, "failed")
    /\ UNCHANGED <<userUID, auth, cloud, screens, history>>

\* Mutant of FailureCallback: a refused registration adds the profile too.
FailureCallback_AddsProfile(c) ==
    /\ Callback(c, "failed")
    /\ outbox' = IF call[c].kind = "signup" THEN outbox \cup {call[c].uid} ELSE outbox
    /\ call' = [call EXCEPT ![c] = NoCall]
    /\ UNCHANGED <<userUID, auth, accounts, used, docs, screens, history>>

\* The callbacks print or show an alert, and no more.
FailureCallback(c) ==
    /\ Callback(c, "failed")
    /\ call' = [call EXCEPT ![c] = NoCall]
    /\ UNCHANGED <<userUID, auth, cloud, screens, history>>

\* What a login or registration screen does with its navigation controller:
\* nothing, if it is no longer on screen.
Leave(c) ==
    \/ /\ call[c].live
       /\ depth < MaxDepth
       /\ transitionToTabBar
       /\ call' = Orphaned([call EXCEPT ![c] = NoCall])
    \/ /\ ~call[c].live
       /\ call' = [call EXCEPT ![c] = NoCall]
       /\ UNCHANGED screens

\* Mutant of LoginCallback: it returns if the screen was replaced.
LoginCallback_OnlyOnScreen(c) ==
    /\ call[c].kind = "login" /\ Callback(c, "ok")
    /\ Leave(c)
    /\ userUID' = IF call[c].live THEN call[c].uid ELSE userUID
    /\ forgotten' = FALSE
    /\ UNCHANGED <<auth, cloud, interrupted, expelled>>

\* The tab bar is installed first and the uid stored after it, but the tab
\* bar appears only once the handler has returned.
LoginCallback(c) ==
    /\ call[c].kind = "login" /\ Callback(c, "ok")
    /\ Leave(c)
    /\ userUID' = call[c].uid
    /\ forgotten' = FALSE
    /\ UNCHANGED <<auth, cloud, interrupted, expelled>>

SignupCallback(c) ==
    /\ call[c].kind = "signup" /\ Callback(c, "ok")
    /\ userUID' = call[c].uid
    /\ outbox' = outbox \cup {call[c].uid}
    /\ Leave(c)
    /\ forgotten' = FALSE
    /\ UNCHANGED <<auth, accounts, used, docs, interrupted, expelled>>

\* addDocument reaches the server, under an id generated on the device ...
ProfileAdded(u, id) ==
    /\ u \in outbox
    /\ \A x \in docs : x.id # id
    /\ docs' = docs \cup {[id |-> id, uid |-> u]}
    /\ outbox' = outbox \ {u}
    /\ UNCHANGED <<userUID, auth, accounts, used, call, answers, screens, history>>

\* ... or is refused: "deu error, usuario nao cadastrado".
ProfileRefused(u) ==
    /\ u \in outbox
    /\ outbox' = outbox \ {u}
    /\ UNCHANGED <<userUID, auth, accounts, used, docs, call, answers, screens, history>>

-----------------------------------------------------------------------------
(* Deleting the account. *)

\* deleteAccount, once confirmed; without a uid or a signed-in user it prints.
\* It captures both: the document is named by the stored uid, the account is
\* that of the signed-in user.
deleteAccount(c) ==
    /\ Idle /\ leaf = "home"
    /\ userUID # NoUid /\ auth # NoUid
    /\ Start(c, "unlink", auth)
    /\ UNCHANGED <<userUID, auth, cloud, answers, screens, history>>

\* The document named by the uid is deleted, after the writes before it.
Without(id) == {x \in docs : x.id # id}

Unlinked(c) ==
    /\ Sent(c, "unlink") /\ call[c].uid \notin outbox
    /\ docs' = Without(call[c].uid)
    /\ Answer(c, "ok")
    /\ UNCHANGED <<userUID, auth, accounts, used, outbox, screens, history>>

\* Forgets the uid, then asks for the deletion of the account.
UnlinkCallback(c) ==
    /\ call[c].kind = "unlink" /\ Callback(c, "ok")
    /\ userUID' = NoUid
    /\ call' = [call EXCEPT ![c].kind = "delete", ![c].phase = "sent"]
    /\ forgotten' = TRUE
    /\ UNCHANGED <<auth, cloud, screens, interrupted, expelled>>

\* The SDK compares user ids by identity: it signs out only if the object
\* whose deletion was asked for is still the signed-in one.
AccountDeleted(c) ==
    /\ Sent(c, "delete") /\ call[c].uid \in accounts
    /\ accounts' = accounts \ {call[c].uid}
    /\ auth' = IF call[c].current THEN NoUid ELSE auth
    /\ Answer(c, "ok")
    /\ UNCHANGED <<userUID, used, docs, outbox, screens, history>>

\* Firebase carries out a registration or a deletion, but its answer is lost
\* (or, registering, the request for the new account's data that follows
\* fails): the callback is told that the call failed.
AnswerLost(c) ==
    /\ \/ /\ Sent(c, "signup") /\ call[c].uid \notin used
          /\ accounts' = accounts \cup {call[c].uid}
          /\ used' = used \cup {call[c].uid}
       \/ /\ Sent(c, "delete") /\ call[c].uid \in accounts
          /\ accounts' = accounts \ {call[c].uid}
          /\ UNCHANGED used
    /\ Answer(c, "failed")
    /\ interrupted' = TRUE
    /\ UNCHANGED <<userUID, auth, docs, outbox, screens, expelled, forgotten>>

\* The token of the signed-in user is refused and the user signed out: the
\* account is gone (UserNotFound) or was disabled (UserDisabled), or it is
\* still there and the token is not valid any more (InvalidUserToken,
\* UserTokenExpired).  The stored uid stays.
signOutIfTokenIsInvalid ==
    /\ auth # NoUid
    /\ auth' = NoUid
    /\ expelled' = TRUE
    /\ call' = [c \in Calls |-> [call[c] EXCEPT !.current = FALSE]]
    /\ UNCHANGED <<userUID, cloud, answers, screens, interrupted, forgotten>>

\* Mutant of DeleteCallback: the uid, forgotten before, is not removed again.
DeleteCallback_KeepsUid(c) ==
    /\ call[c].kind = "delete" /\ Callback(c, "ok")
    /\ IF call[c].live
       THEN transitionToLogin /\ call' = Orphaned([call EXCEPT ![c] = NoCall])
       ELSE UNCHANGED screens /\ call' = [call EXCEPT ![c] = NoCall]
    /\ UNCHANGED <<userUID, auth, cloud, history>>

\* Mutant of DeleteCallback: the screen is left as it is.
DeleteCallback_StaysHome(c) ==
    /\ call[c].kind = "delete" /\ Callback(c, "ok")
    /\ userUID' = NoUid
    /\ call' = [call EXCEPT ![c] = NoCall]
    /\ forgotten' = TRUE
    /\ UNCHANGED <<auth, cloud, screens, interrupted, expelled>>

\* Forgets the uid once more, whoever's it is by now, and shows login.
DeleteCallback(c) ==
    /\ call[c].kind = "delete" /\ Callback(c, "ok")
    /\ userUID' = NoUid
    /\ IF call[c].live
       THEN transitionToLogin /\ call' = Orphaned([call EXCEPT ![c] = NoCall])
       ELSE UNCHANGED screens /\ call' = [call EXCEPT ![c] = NoCall]
    /\ forgotten' = TRUE
    /\ UNCHANGED <<auth, cloud, interrupted, expelled>>

\* UserDefaults, the signed-in user and the outbox are on disk.
Kill ==
    /\ call' = [c \in Calls |-> NoCall]
    /\ answers' = <<>>
    /\ Show(1, "home", TRUE)
    /\ interrupted' = (interrupted \/ ~Quiet)
    /\ UNCHANGED <<userUID, auth, cloud, expelled, forgotten>>

-----------------------------------------------------------------------------
Next ==
    \/ viewDidAppear
    \/ \E k \in 1..MaxDepth : Reappear(k)
    \/ PushTabBar
    \/ registerButtonTapped
    \/ RegisterBack
    \/ \E c \in Calls :
        \/ \E u \in Uids : loginButtonTapped(c, u) \/ signupButtonTapped(c, u)
        \/ deleteAccount(c)
        \/ SignedIn(c) \/ SignedUp(c) \/ Unlinked(c) \/ AccountDeleted(c)
        \/ CallFails(c) \/ AnswerLost(c)
        \/ LoginCallback(c) \/ SignupCallback(c) \/ UnlinkCallback(c) \/ DeleteCallback(c)
        \/ FailureCallback(c)
    \/ signOutIfTokenIsInvalid
    \/ \E u \in Uids : ProfileRefused(u) \/ \E id \in AutoIds : ProfileAdded(u, id)
    \/ Kill

Spec == Init /\ [][Next]_vars

\* The main thread runs what is queued on it, and a tab bar that is being
\* shown appears.  Nothing is assumed of the user or of the network.
Fairness ==
    /\ WF_vars(viewDidAppear)
    /\ \A c \in Calls :
         WF_vars(\/ LoginCallback(c) \/ SignupCallback(c) \/ UnlinkCallback(c)
                 \/ DeleteCallback(c) \/ FailureCallback(c))

FairSpec == Spec /\ Fairness

-----------------------------------------------------------------------------
(* Properties. *)

Types ==
    /\ userUID \in Uids \cup {NoUid}
    /\ auth \in Uids \cup {NoUid}
    /\ accounts \in SUBSET Uids
    /\ used \in SUBSET Uids
    /\ docs \in SUBSET [id : AutoIds, uid : Uids]
    /\ outbox \in SUBSET Uids
    /\ call \in [Calls -> Call]
    /\ answers \in Seq(Calls)
    /\ depth \in 0..MaxDepth
    /\ leaf \in {"home", "login", "register"}
    /\ appearing \in BOOLEAN
    /\ interrupted \in BOOLEAN
    /\ expelled \in BOOLEAN
    /\ forgotten \in BOOLEAN

\* Every variable holds a value of its kind, and Home, the only screen that
\* can delete the account, is never shown outside a tab bar.
TypeOK ==
    /\ Types
    /\ leaf = "home" => depth > 0

\* No account gets two profile documents, however often the register button
\* is tapped: only the first createUser of an e-mail succeeds, and only its
\* callback adds a document.
OneProfile ==
    \A u \in Uids :
        /\ \A x, y \in docs : x.uid = u /\ y.uid = u => x = y
        /\ u \in outbox => \A x \in docs : x.uid # u

Answered(c, kind) == call[c].kind = kind /\ call[c].phase = "ok"

\* Once every call has been answered, and no answer was swallowed, the uid
\* the app works with is the user Firebase has signed in, whatever logins,
\* registrations and deletions overlapped.  Only a refused token leaves a
\* stored uid with nobody signed in, and only a deletion a signed-in user
\* with no uid stored; never are the two different users.
UidIsSignedIn ==
    Quiet /\ ~interrupted =>
        \/ userUID = auth
        \/ auth = NoUid /\ expelled
        \/ userUID = NoUid /\ forgotten

\* Nor does the app then still work with a deleted account, even if that
\* account logged in again while its deletion was under way.
NoGhost ==
    Quiet /\ ~interrupted => userUID \in accounts \cup {NoUid}

\* Whoever deletes the account from a Home that is not replaced when the
\* answer comes, with no late login or registration storing a uid again, is
\* brought to login: by the callback, or, if a tab bar covers Home before it
\* runs, by that tab bar's gate, because the uid was forgotten beforehand.
DeletedSeesLogin ==
    \A c \in Calls :
        (Answered(c, "delete") /\ call[c].live /\ userUID = NoUid)
            ~> (leaf = "login" \/ userUID # NoUid)

-----------------------------------------------------------------------------
(* Claimed by the code and not true of it. *)

\* When the deletion of the user's document is reported as done ("Documento
\* do usuario excluido com sucesso"), no document of that user is left.
ProfileRemoved ==
    \A c \in Calls : Answered(c, "unlink") =>
        \A x \in docs : x.uid # call[c].uid

=============================================================================
