# GloboCollection in TLA+

GloboCollection is an iOS sticker album (Swift, UIKit, Firebase). A user logs
in, opens an album, takes the quiz of a locked sticker in a web view, redeems
the sticker on the result screen, and the score of the sticker is saved in
Firestore. This directory models that program: what its screens, callbacks and
remote calls do to its state, in every order they can happen, and the parts of
the bundled Firestore client that carry its writes and reads.

## The system

Paths are below `src/collection/collection/`.

| Component | Code | State | Operations |
|---|---|---|---|
| Redeeming and saving | `Controller/Quizz/ResultViewController.swift` | `UserDefaults` keys `stickerResgatado<id>`; closures waiting for `getDocument`; document `user_scores/<uid>` with the array `scores` | redeem, the read's callback (update or set), go to the gallery |
| Firestore, as the app sees it | `Pods/FirebaseFirestore` | local cache, persistent outbox of each signed-in user, the server's documents | read with fallback to the cache, send, acknowledge, refuse, resend, switch user |
| Firestore write path | `local/leveldb_mutation_queue.cc`, `core/sync_engine.cc`, `remote/remote_store.cc`, `remote/write_stream.cc`, `remote/stream.cc` | mutation queues on disk, completion callbacks, write pipeline, write stream with its token requests and timers | write, change user, restart or switch the network, every callback of the stream |
| Firestore read path | `api/document_reference.cc`, `core/event_manager.cc`, `core/query_listener.cc`, `core/view.cc`, `remote/remote_store.cc`, `remote/remote_event.cc`, `remote/online_state_tracker.cc` | listeners, views, targets, responses due, watch stream, online state and its timer | read a document, deliver and mute its event, listen and stop, every callback of the stream, the timeout |
| Firestore limbo documents | `core/sync_engine.cc`, `core/view.cc` | limbo set of each view, references, queue of lookups, lookups under way | listen, stop, remote event, refused lookup, lost sync, local writes |
| Session | `Controller/ViewController.swift` (the tab bar), `Login`, `Register`, `Home` | `UserDefaults` key `userUID`; the screens on top; collection `users` | log in, register, delete the account, their callbacks, the tab bar's gate |
| Firebase Auth | `Pods/FirebaseAuth` | accounts, `currentUser` | sign in, create, delete, force a sign-out |
| Album screens | `Controller/Collection/**`, `Quizz/WebViewController.swift` | the navigation stack; what each screen read when it was built | open album, sticker, quiz, result; back; reset |
| Launch | `AppDelegate.swift`, `SceneDelegate.swift` | the window's root | launch |
| Ranking | `ScreenNavigations/RankingViewController.swift` | list of users and percentages | query, one read per user |
| The rest | Reward, Option, My, Downloads, Recent, `ErrorViewController`, theme, helpers | none, or fixed data | none (nothing creates `ErrorViewController`) |

They interact through three shared stores. `UserDefaults` carries `userUID`
from the session to the result screen and the sticker keys from the result
screen to the gallery and sticker screens. Firebase Auth's current user decides
which outbox Firestore writes into, while the app names documents by the stored
`userUID`: the two are changed by different callbacks and can differ. The
server's documents are shared by all devices of an account.

What is hard here: every Firebase call is answered later, on the main thread,
when the screen that made it may be gone and the account changed; the save is a
read followed by a write that depends on it, without a transaction; a read may
be answered from the cache; writes are sent at least once, and the process may
be killed between any two steps; screens read keys once and are not refreshed.
Below that, the Firestore client matches answers to questions by order and by
counting only: write results carry no id, a target that is dropped and asked
for again keeps its id, a late token is told from a fresh one by a counter.
`PROJECT.json` lists these hazards one by one, at their lines, with the
properties that cover them.

What makes each component correct:

* saving: a score goes only to the account that redeemed it, once; a score
  reported as saved stays; a queued write is eventually stored;
* session: the uid the app works with is the user Firebase has signed in, it is
  no deleted account, an account has at most one profile, and a deletion ends
  at the login screen;
* album: unlocked means redeemed and not reset since, the sticker screen tells
  the truth, and a result opens only for a locked sticker;
* ranking: a late answer changes the row of its own account and nothing traps;
* write path: every accepted write is applied or refused, in order, across
  reconnections, refusals, user changes and restarts, and its own callback is
  told; it is settled in the end;
* read path: every read is answered, once, and from the cache only when the
  client has given up on the server; targets follow listeners;
* limbo: exactly the documents some view has in limbo are looked up, within the
  limit, and none waits for ever.

## Modules

| Module | What it is |
|---|---|
| `Catalog` | the 28 stickers, the albums, the keys the reset removes |
| `ScoreSync` | redeeming and saving, with Firestore and the changes of session around it, for any number of devices |
| `MCScoreSync` | `ScoreSync` with the symmetry of its accounts, for TLC |
| `ScoreSync_proofs` | theorems about `ScoreSync` in every environment |
| `ScoreSyncKept_proofs` | theorems about `ScoreSync` where each account has one device and one read in flight |
| `Ledger` | abstract: earned stickers are entered in an account's ledger and never leave it |
| `Session` | login, registration and deletion on one device against Firebase Auth and `users` |
| `Album` | the window's navigation stack and the sticker keys on one device |
| `StickerBook` | abstract: a result opens for a locked sticker, redeeming unlocks it, only the reset locks |
| `Session_proofs`, `Album_proofs`, `Ranking_proofs` | theorems about the three |
| `Ranking` | the ranking screen: one query, one read per row |
| `Stream` | the state machine of `remote/stream.cc`, as operators on a record, shared by the two pipelines |
| `WritePipeline` | from the app's write to the server's result |
| `WritePipeline_proofs` | theorems about `WritePipeline`, its refinement of `Outbox` among them |
| `Outbox` | abstract: one queue of writes per user, applied and confirmed in order, at least once |
| `WatchPipeline` | from the app's `getDocument` to its answer |
| `WatchPipeline_proofs` | theorems about `WatchPipeline` |
| `Limbo` | lookups of documents in limbo |
| `Limbo_proofs` | theorems about `Limbo` |

`ScoreSync` assumes of the screens what `StickerBook` says (`OpenResult`,
`Redeem`, `OpenGallery`, `Reset` have the same guards), and `Album` is shown (by TLC and
by proof) to implement `StickerBook`. `ScoreSync` is shown (by TLC and
by proof) to implement `Ledger` in the environment `Serial`; outside it, it does
not, which `ScoreSync_lost` shows. What `ScoreSync` assumes of Firestore's
writes (`ServerApply`, `ServerAck`, `ServerReject`, `StreamBreak`, `Become`) is
what `Outbox` says, and `WritePipeline` is shown (both
ways again) to implement `Outbox`. What it
assumes of reads (`GetOnline`, `GetOffline`: each is answered, once, by the
server or from the cache) is what `WatchPipeline` is checked for; that no
callback runs twice is also proved.

### ScoreSync

`redeemButtonTapped` (123-181) is `Redeem`: it unlocks the sticker, reads the
stored uid and starts `getDocument` with a closure that captures uid and
sticker (a record in `call`). The read completes as `GetOnline` (the server's
document under the pending writes) or `GetOffline` (the cache under the pending
writes; a document missing there is an error, which the app treats like a
missing document). `GetCallback` is the closure on the main thread: it queues
`updateData(arrayUnion)` or `setData` in the outbox of whoever is signed in.
`ServerApply`, `ServerAck`, `ServerReject` and `StreamBreak` are the write
stream: in order, pipelined, at least once; an update of a missing document is
refused. `Become` is the SDK's switch of the outbox when the user or the user's
token changes; it always reopens the stream. `SignIn`, `StoreUid`, `ClearUid`,
`AccountGone` are the session reduced to what it does to the stored uid and the
current user; they happen in any order, which includes every order in which
`Session` lets them happen. `Kill` ends the process: `UserDefaults`, current
user, cache and outbox stay, screens and closures do not.

An entry of the `scores` array is represented by its sticker: the dictionary
the code builds is a function of sticker and uid, so `arrayUnion` finds it equal
exactly when the stickers are. `earned` and `confirmed` are history variables.
`Disturbances` says what the environment may do in a run: kill, resend, refuse,
change the session, share an account between devices.

### Session

`call` holds the calls under way: kind, account, whether it was answered,
whether the screen that made it is still on screen (`live`), and whether the
user object that made it is still the signed-in one (`current`: the SDK compares
user ids by identity before it signs out after a deletion). Firebase answers
first (`SignedIn`, `SignedUp`, `Unlinked`, `AccountDeleted`, `CallFails`,
`AnswerLost`), the app's callback runs later on the main thread, in the order
of the answers (`answers`). Screens are a number of nested tab bars and the
screen in the innermost: after a deletion the login screen replaces Home
*inside* the tab bar, and a login from there installs a tab bar inside a tab
bar (bound `MaxDepth`). The gate of a tab bar runs when it appears: when it is
first shown, or when a screen pushed over it is left. Which of its five tabs a
tab bar has selected is left out. Selecting one does not make the tab bar
appear and runs no gate, so the model's "on screen" includes a Home whose tab is
not the selected one, and `DeletedSeesLogin` then says that login is what the
user finds in that tab. `signOutIfTokenIsInvalid` stands for the four codes on
which Firebase signs a user out (account gone, account disabled, token invalid,
token expired): it may happen to any signed-in user at any time, whether the
account still exists or not, and leaves the stored uid. `expelled` remembers
that it happened to the user signed in last, `forgotten` that a deletion removed
the uid stored last; `UidIsSignedIn` says that nothing else makes the two
differ. `users` documents have generated ids and a uid field, and `deleteAccount` deletes the
document *named* by the stored uid, which is no generated id.

### Album

`stack` is the window's stack; a frame records what the screen showed as
unlocked when it was built. Keys are modelled by what they are made of: an id
described as `Int` ("stickerResgatado5") or as `Int?`
("stickerResgatadoOptional(5)"), because leaving the quiz writes the second and
everything else uses the first. `barHidden` is the navigation bar, hidden after
login; whether the login screen still has a navigation controller to hide it in
at that moment is UIKit's business, so both happen. The result screen hides its
back button and has only the gallery button, which pushes a new tab bar.

### Ranking

`fetchAllUsersFromFirestore` is the callback of the profiles query with
`calculatePorcentagesFromUserScores`: one row per well-formed profile, one read
per row, each closure holding its index and a copy of the row. `ScoreRead` is
that closure. A percentage is `NotFinite` when it is divided by the copied
row's percentage of 0; `Converted` is the `isFinite` check and `Int()`, which
would trap without it. Only a closure that found scores reloads the table;
`Layout` is UIKit laying it out at any time of its own. The repository's README
lists the ranking as not implemented: `AllRowsZero` says what the half that
exists shows.

### Stream, WritePipeline and Outbox

`Stream` keeps `state_`, the token requests not answered yet (`"stale"` once
`close_count_` has moved on), the timers, the gRPC call with what is under way
in both directions, and `ok`, which a failed `HARD_ASSERT` clears. `Open` also
stands for `Healthy`. `WritePipeline` adds the mutation queue of each user with
its batch ids, the callbacks of `SyncEngine`, and `write_pipeline_` with the
handshake. `RestartNetwork`, `FillWritePipeline`, `AfterClose` and the others
are operators on the remote store's record, in the order in which the code
calls them, so that one action is one task of the worker queue. `Kill` restarts
the client from what is on disk. The refinement mapping takes for `sent` the
number of results on the open call that were not read yet.

Assumed of the server and the connection: a call carries messages in order and
its results are read before its final status; a call that has ended applies
nothing more; the server ends a write stream only with an error; after the
handshake, a permanent error refuses the write at the head, and during the
handshake none; responses parse. Stream tokens, backoff delays and
`waitForPendingWrites` are left out.

### WatchPipeline

A slot of `get` is one `getDocument`: the caller on the main thread, its query
listener, and the events on their way to it. `Handled` ends every task of the
worker queue: the views learn of a new online state, the listeners of new
snapshots. `agg` holds, per target, the responses due and `current_`, as
`WatchChangeAggregator` counts them. A CURRENT (`TargetCurrent`) only sets the
flag, and only of an active target. It is the next global snapshot that tells
the views: `WatchSnapshot` goes over all active targets as `CreateRemoteEvent`
does, and a view is in sync afterwards exactly if its target's flag is set;
`SnapshotIgnored` is a snapshot older than the last one, which the guard on
versions drops. `old` is a history of the flag: it was already set when the
listen was last stopped on this call. The code does not reset the flag when the
target is added back, so a view may come in sync on it; `SyncedIsNews` says that
this is the only way in which a view comes in sync on anything but what the
server said of the present listen.

`Denied` documents are refused by the server. Assumed: the server answers each
watch and unwatch in order, and says nothing to the unwatch of a target it has
already refused; it sends snapshots only while it has a listen, each with a
resume token, which gives every active target a change to be told of. Query
contents and existence filters are left out: a document is its own query. Versions are
left out too: any snapshot may be the one that is too old.

### Limbo

`view` holds, per query, the documents the server listed (`synced`, which
outlives the view on disk), whether it is `current`, and its limbo set; `sync`
is the bookkeeping of `SyncEngine`. `Emit` is
`EmitNewSnapshotsAndNotifyLocalStore`: every view recomputes its limbo set, and
the changes go through `UpdateTrackedLimboDocuments` one view after the other
(`ViewByView`), the views in any order (the code iterates over an unordered
map), the removals of each before its additions; each change adds or drops a
reference and starts, queues or cancels a lookup. The end of a query
(`RemoveAndCleanupTarget`) drops its references first. Every document in the
cache or written locally matches every query; a remote event changes one
target; limits and `document_received` are left out.

## Runs

| Run | Expect | Shows |
|---|---|---|
| `ScoreSync_session` | pass | `TypeOK`, `ScoresEarned`: two accounts on one device, every disturbance of a single device |
| `ScoreSync_kept` | pass | `NoDoubleCredit`, `ConfirmedKept`, `KeptInv`, `ImplementsLedger`, `QueuedSaved`, `RedeemedSaved`: one account, one read at a time, kills and broken streams |
| `Session_calls` | pass | `TypeOK`, `OneProfile`, `UidIsSignedIn`, `NoGhost`, `DeletedSeesLogin` |
| `Album_screens` | pass | `TypeOK`, `UnlockedIsRedeemed`, `InfoFresh`, `ImplementsStickerBook` |
| `Ranking_rows` | pass | `TypeOK`, `RowsStay`, `AllRowsZero` |
| `WritePipeline_faults` | pass | `TypeOK`, `NoAssertFails`, `PipelineIsQueuePrefix`, `ResultsMatchPipeline`, `CallbackOfItsWrite`, `NoWriteLost`, `OutboxSpec`: two users, every fault |
| `WritePipeline_drain` | pass | `EveryWriteSettles`, with the same faults |
| `WatchPipeline_gets` | pass | `TypeOK`, `NoAssertFails`, `AnsweredOnce`, `TargetsFollowListeners`, `WaitersWait`, `SyncedIsNews`, `EveryGetAnswered` |
| `Limbo_lookups` | pass | `TypeOK`, `LookupsWanted`, `NoIdleRoom`, `LimboTracked`, `EveryDocumentServed` |
| `ScoreSync_lost` | violation | `ConfirmedKept` fails with one account on two devices, or two reads in flight on one |
| `Session_profile` | violation | `ProfileRemoved`: the profile outlives the deletion that was reported as done |
| `Album_reset` | violation | `ResetLocksAll`: stickers 21 to 28 survive the reset |

Bounds. Two stickers in use are enough for one write to erase another, three
(`ScoreSync_kept`: two that the reset covers and one that it does not) let a
union, a set and a repeated redemption meet in one outbox. Two accounts are
enough for a write to go to the wrong one; in `ScoreSync_session`, which checks
invariants only, they are interchangeable, so the run uses their symmetry,
and one sticker suffices, since what is asked is whose score it is. `MaxQueue` bounds one outbox; a
callback that would pass it waits. Two call slots are enough for every pair of
overlapping logins, registrations and deletions. `MaxDepth = 4` lets a user
delete, log in inside the tab bar and delete again. `MaxStack = 10` is two full
rounds through album, sticker, quiz, result and gallery. Three writes for a
pipeline of two (`WritePipeline_faults`) let the pipeline be full with a write
waiting behind it, and be refilled after a result; two users let a queue be
swapped under a running stream. `WritePipeline_drain` has two writes for a
pipeline of one, since liveness is costlier to check. Two reads of two
documents, one of them refused, let a listen be shared, dropped and taken up
again on one call while its answers are on their way; one snapshot on its way
at a time (`MaxSnapshots`) can still come before, between and after the other
responses, and another follows once it was read. Two queries over two
documents with one lookup at a time let a reference be shared, a lookup wait
behind another and be cancelled while it waits. Where a step is
blocked only by a bound, the model simply does not go further in that
direction; no property depends on it.

Fairness. `ScoreSync` assumes weak fairness of the read's completion
(`getDocument` answers from the cache at the latest ten seconds after it failed
to connect), of main-thread callbacks and of the server, and strong fairness of
the acknowledgement: the SDK reconnects with backoff for as long as the outbox
is not empty, and a network on which no acknowledgement ever comes through
cannot save anything. `Session` assumes only that queued main-thread callbacks
run and that a tab bar being shown appears. Nothing is assumed of the user,
and no answer of Firebase Auth is assumed to come. `WritePipeline` assumes that
timers fire and callbacks are delivered, that a disabled network is enabled
again, and strong fairness of the steps of a call: a server asked again and
again answers some time. `WatchPipeline` assumes of the client only that its
queues run and its timers fire; of the server, that it reads requests, says
CURRENT, and goes on sending snapshots, not all of them older than the last; of
the network, that an attempt to connect ends one way or the other, that in the
end no call breaks before the views of its targets are in sync, and that the
device does not change networks for ever. `Limbo` assumes
that a lookup made again and again is answered in the end.

`RedeemedSaved` and `QueuedSaved` go together: a redemption is durable once its
callback ran, unless the process is killed before; what is durable reaches the
server. `EveryWriteSettles` holds for the user who is signed in, and
`EveryDocumentServed` while views stay in sync: a view that comes back in sync
may take a waiting document out of limbo and put it back at the end of the
queue in one event.

`ServerReject` is enabled by the disturbance "reject", or when an update meets a
missing document. `ScoreSync_kept` leaves the disturbance out: a write refused
by rules or quota is lost by design, and the code prints it.

## What the violations mean

* A `setData` decided on a stale answer replaces the whole `scores` array. It
  takes two redemptions before the first document exists, or a second device
  that reads while offline. `merge: true` with `arrayUnion` in one `setData`
  would need no read.
* `users` documents are created with `addDocument` and deleted by uid, so the
  deletion removes nothing and reports success.
* The reset enumerates ids 1 to 20 of 28.
Three places where the Firestore client departs from its own comments came up
while modelling. They are visible in the models; no run is about them.

* `RemoteStore::StopListening` of the last target clears the online timer while
  the stream goes on connecting, and the next `Listen` finds the stream started
  and arms none: that read waits as long as the attempt lasts, not the ten
  seconds `online_state_tracker.cc` speaks of. This is why `EveryGetAnswered`
  needs attempts to end, and why no property covers that hazard.
* A target removed and added back on one call keeps `current_`: the comment in
  `HandleTargetChange` says that earlier state is reset, but
  `ClearPendingChanges` leaves the flag (`TargetAcknowledged`). At the next
  snapshot `CreateRemoteEvent` takes the target for current: the view is in sync
  with what the cache holds, and a document the target does not list is deleted
  from the cache, both before the server's CURRENT of the new listen: the
  exception in `SyncedIsNews`.
* A lookup refused while its view is out of sync is forgotten by `SyncEngine`
  and remembered by the view. If the document is in the cache again when the
  view is back in sync, it is in limbo and nothing looks it up: the exception
  in `LimboTracked`.

## Theorems

`ScoreSync_proofs`, for every value of the constants that satisfies
`ScoreSyncAssumption` (`NoUid` is no account, the stickers are in the catalogue,
the bound is a positive number):

* `TypeCorrect`: `Spec => []TypeOK`. `TypeOK` is inductive. Its part about
  `applied` relates the stream to the outbox of the *current* user, so each
  change of user needs `Become`'s reset. The lemmas `TypeSession`, `TypeReads`
  and `TypeOutbox` take the actions in three groups.
* `ScoresAreEarned`: `Spec => []ScoresEarned`, with every disturbance and any
  number of devices. `ScoresEarned` is not inductive: a write on its way might
  bring anything. The invariant `EarnedFirst` adds that what is queued in any
  outbox, or captured by a read under way, was earned by the account it names.
  `Redeem` establishes it for a call, `GetCallback` carries it from the call to
  the outbox, `ServerApply` from the outbox to the server; `StoredElems` says
  that applying a write adds no other entry.

* `CreditedOnce`: `Spec => []NoDoubleCredit`, with every disturbance. Inductive
  beside `TypeOK`; `StoredOnce` is the fact about applying one write.

`ScoreSyncKept_proofs` adds the assumption `Serial`: any two call slots are the
same, and the environment neither changes the session, nor shares an account
between devices, nor refuses a write the document's existence allows. Kills,
broken streams, offline reads and any number of devices and accounts remain.

* `KeptInvariant`: `Serial => (Spec => []KeptInv)`. `ConfirmedKept` alone is not
  inductive, because a queued `setData` would erase what was confirmed. `KeptInv`
  says why no such write gets there: an account has one outbox (`OneHome`); a
  `setData` is only its oldest write, and while it waits nothing was confirmed
  and the server has nothing the outbox does not hold (`SetIsFirst`); otherwise
  the cache knows the document if there is one, so that even an offline read
  finds it (`CacheKnows`); the answer a callback will act on is still true
  (`AnswerFresh`); and what was applied and not yet acknowledged is on the
  server (`AppliedThere`). `NeverRefused` follows: no update meets a missing
  document.
* `ConfirmedIsKept`: `Serial => (Spec => []ConfirmedKept)`, a conjunct of it.
* `LedgerImplemented`: `Serial => (Spec => ImplementsLedger)`, where the ledger
  of an account is what the server or any outbox holds (`Durable`). `Redeem` is
  `Earn` or a stutter, `GetCallback` is `Enter` (its sticker was earned, by
  `EarnedFirst`), and applying or acknowledging a write moves a score without
  changing what is durable (`LedgerMoves`): a repeated `setData` empties the
  server only of scores the outbox still holds.

`Album_proofs`, from `AlbumAssumption` (the stickers are in the catalogue, the
stack may hold one screen):

* `AlbumTypes`, `UnlockedOnlyRedeemed` and `InfoIsFresh` are the three
  invariants of the run. `InfoFresh` speaks of the screen on top only, so a pop
  could uncover a stale one: `AlbumInv` adds which screen lies under which
  (`Under`), so that a pop never uncovers a sticker screen, and that the quiz on
  top is of a locked sticker (`QuizLocked`), without which a result could open
  for an unlocked one.
* `StickerBookImplemented`: `Spec => ImplementsStickerBook`, action by action;
  `AlbumInv` gives the abstract guards.

`Session_proofs`, from `SessionAssumption` (`NoUid` is no account, generated ids
are no uids), for any accounts and any number of calls at a time:

* `SessionTypes`, `OneProfileEach`, `StoredIsSignedIn`, `StoredExists`.
  `UidIsSignedIn` speaks only of states with no call under way. `UidSettles`
  says what holds in between: the last successful callback still queued on the
  main thread, if it is a login's or a registration's, will store the user now
  signed in, unless that user's token was refused since; if none is queued, the
  stored uid already is that user, or one of the two was taken away; and the
  account exists. An answer appends to the queue and so becomes the last; a
  callback leaves at the head. `AnswersWait` says that a call is queued once,
  and only when answered, `ProfilesDue` that a registration just answered has
  no profile yet and shares its uid with no other.

`Ranking_proofs`, from `RankingAssumption` (bounds and scores are numbers):
`RankingTypes`, `RowsAreStable`, `ShowsOnlyZero`. `StillZero` adds that the rows
and the copies the reads hold are at 0, which is why every division is by 0.

`WritePipeline_proofs`, from `WritePipelineAssumption` (there is a user, the
pipeline has room for one write), with every fault:

* The inductive invariant `PipelineInv` has a part `StoreOK` that is a predicate
  of the remote store's record and a queue: the code calls operations of the
  remote store one inside the other, and each lemma says that one of them, given
  a record that is `StoreOK`, or short of it by one named conjunct, returns one
  that is. `StreamOK` ties tokens, timers and messages to the state of the
  stream; `StreamNeeded` says that a started stream is up for a reason, which is
  what the asserts in `OnWriteStreamClose` check; `InFlight` says that what is on
  its way in both directions is exactly the pipeline, in order, or the handshake
  alone. `IdsOrdered` and `WritesApart` make batch ids a name for a write: the
  counter of ids is computed anew from the queues at each change of user.
* `PipelineTypes`, `AssertsHold`, `PipelineOfCurrentUser`, `ResultsInOrder`,
  `CallbacksToldRight`, `WritesSurvive` are conjuncts or consequences of it.
* `OutboxImplemented`: `Spec => OutboxSpec`. Most steps keep the queues and
  either keep what is sent or set it to 0 (`Kept`, the abstract stutter or broken
  stream); applying, acknowledging and refusing a write are the abstract steps,
  because by `InFlight` they are about the head of the queue.

`WatchPipeline_proofs`, from `WatchPipelineAssumption` (refused documents are
documents, the bound is a number), with every fault, for any number of documents
and of overlapping calls:

* The inductive invariant `WatchInv` is built like `PipelineInv`. `StoreOK` is a
  predicate of the remote store's record, one lemma per operation: `StreamOK` as
  above, `OnlineOK` (the ten second timer runs only while the state is Unknown
  and the stream is started, which is what the asserts of the tracker check) and
  `WatchNeeded` (an idle stream has no target, nothing is due on a call that is
  not open). `SlotOK` is about one call of `getDocument`: an error is the last
  event of a listener and takes it off the list, and an event that will still be
  heard finds its caller waiting.
* `ServerOK` carries `CountsDue` (the responses due to a target are the requests
  and acknowledgements of it on their way), which is not inductive: the server
  stays silent on a stop of what it does not have, and the counter would be one
  too high for good. `Alternate` says that this never happens: replaying the
  requests on their way from what the server knows, each stop finds its document
  on and each listen finds it off, and after the last one the server has exactly
  the targets. Of a refused document the counter may be off; `CountsDue`
  leaves it out for that reason, and nothing else depends on it.
* `HandledOK` is the end of every task: views and listeners learn of the new
  online state together, which gives `WaitersWait` whatever the task was.
* `WatchTypes`, `WatchAssertsHold`, `CallbackOnce`, `TargetsAgree`
  and `WaitForServer` follow from `WatchInv`.
* `SyncedByNews`: `Spec => SyncedIsNews`, from a second inductive invariant,
  `NewsInv`, which adds to `WatchInv` what the server's words are about. `Heard`:
  a CURRENT on its way that no acknowledgement of its document follows is about
  the listen the server has now. `Marked`: a target
  whose flag is set and not `old` is listened to, is due no response, and is
  current at the server. By `CountsDue` a target that is due nothing has
  neither requests nor acknowledgements on their way, so a CURRENT read of an
  active target is one `Heard` speaks of. One lemma per step.

`Limbo_proofs`, from `LimboAssumption` (documents and queries are finitely many,
there is room for one lookup), with every fault:

* The inductive invariant `LimboInv` says that the references are those the
  views call for (`Refs`), that a closed query has nothing in limbo, and that
  the engine's record is `EngineOK`: `Pumped` (the lookups and the queue are in
  order, and nothing waits while there is room) and `Wanted` (what is looked up
  has a reference, and what has one is looked up unless it was refused; this
  holds of views out of sync too, which `LimboTracked` does not claim). One lemma
  per operation of the engine: `PumpOK`, `TrackLimboChangeOK`,
  `RemoveLimboTargetOK`, `TrackChangeOK`. The end of a query drops its references
  before it looks at their documents, so `Wanted` has a parameter, the documents
  still `due`.
* `TrackedOK` is about the whole loop of `UpdateTrackedLimboDocuments`, for any
  number of changes: if they lead from the old references to the new ones
  (`LeadTo`) and deal with all that is due, the engine is `EngineOK` again, with
  nothing due. This is an induction over the changes. The library's induction
  rules cannot be used here, so it is made with `Least`: a set of numbers that is
  not empty has a least member, which follows from the well-foundedness of strict
  inclusion among finite sets; the least number of changes after which `After`
  fails cannot be 0 nor follow one after which it holds. `Turns` shows in the
  same way that the recursive function the loop is written with exists.
* `EmitOK` and `CleanupOK` show that the changes of the views, in any order, and
  those of a query that ends, lead where they should.
* `TypeCorrect`, `LookupsAreWanted`, `RoomIsUsed` and `LimboIsTracked` follow.

Only model-checked: the liveness properties (`QueuedSaved`, `RedeemedSaved`,
`DeletedSeesLogin`, `EveryWriteSettles`, `EveryGetAnswered`,
`EveryDocumentServed`), which are out of the proof system's reach. Every
invariant, action property and refinement of a passing run is proved.

## Not modelled

* Static screens, theme, alerts, layout, the quiz itself (a web page that
  reports nothing to the app), `ErrorViewController`, which nothing creates.
* `user_scores` documents are never deleted by the app, so no action does.
* Buttons created in stored-property closures get their target before the
  controller exists; taps are taken to reach their handlers.
* Of Firestore: transactions, bundles, aggregate queries, indexes and garbage
  collection, which the app does not use; the contents and matching of queries;
  the worker queue, executor and tasks, taken as what they promise.
* Of Firebase Auth: tokens, keychain and the network protocol.
* Every other pod. Nearly all of the repository's C and C++ is third-party code
  that came with CocoaPods: gRPC, BoringSSL, leveldb, abseil, protobuf
  descriptors, root certificates. It is no logic of this program, most of it is
  data, tables and cryptography with nothing for a model checker to interleave,
  and it sits below interfaces the models treat as external. A map of a large
  share of those lines would not be a model of this system.

## Plan

1. Done: `Catalog`, `ScoreSync`, `Session`, `Album`, the abstract `Ledger` and
   `StickerBook`, their runs, and the theorems about `ScoreSync`.
2. Done: `Ranking`; the Firestore client's write path (`Stream`,
   `WritePipeline`, the abstract `Outbox`), read path (`WatchPipeline`) and
   `Limbo`.
3. Done: proofs about `Album`, `Session`, `Ranking`, `WritePipeline`,
   `WatchPipeline` and `Limbo`, the refinements of `StickerBook` and `Outbox`
   included.
4. Next: the worker queue: task lifetimes, cancellation and disposal
   (`util/task.cc`, `util/executor_libdispatch.mm`, `util/async_queue.cc`).
