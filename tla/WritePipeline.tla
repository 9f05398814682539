---------------------------- MODULE WritePipeline ----------------------------
(***************************************************************************)
(* How the Firestore client sends the writes it accepted: the mutation     *)
(* queues of LocalStore, the completion callbacks of SyncEngine, the write *)
(* pipeline of RemoteStore and the write stream with its handshake.  The   *)
(* server and the connection are external.                                 *)
(*                                                                         *)
(* Responses carry no batch id: the client takes each one for the oldest   *)
(* batch of its pipeline, across reconnections, refusals, user changes and *)
(* restarts of the process.  Stream tokens are left out: the handshake     *)
(* never sends one.                                                        *)
(***************************************************************************)
EXTENDS Naturals, FiniteSets, SequencesExt, Stream

CONSTANTS
    Users,               \* users with a mutation queue on this device
    kMaxPendingWrites,   \* 10 in the code
    MaxWrites,           \* bound: writes the app issues
    Faults               \* which of AllFaults the environment may produce

\*   kill     the process ends and is launched again
\*   user     another user signs in
\*   network  connectivity changes, the network is disabled and enabled
\*   break    a call ends with an error that is not a refusal
\*   reject   the server refuses a write for good
AllFaults == {"kill", "user", "network", "break", "reject"}

ASSUME WritePipelineAssumption ==
    /\ Users # {}
    /\ kMaxPendingWrites \in Nat \ {0}
    /\ MaxWrites \in Nat
    /\ Faults \subseteq AllFaults

VARIABLES
    user,        \* current_user_
    queue,       \* mutation queue of each user, on disk
    nextId,      \* next_batch_id_ of the current queue
    callbacks,   \* mutation_callbacks_: entries [id, write] of each user
    store,       \* RemoteStore: network, write_pipeline_, write stream
    issued,      \* history: how many writes the app issued
    told,        \* history: what the callback of each write was told
    applied,     \* the server: writes applied at least once
    refused      \* the server: writes refused for good

vars == <<user, queue, nextId, callbacks, store, issued, told, applied, refused>>
local == <<user, queue, nextId, callbacks>>
history == <<issued, told, applied, refused>>

Writes == 1..MaxWrites
Batch == [id : Nat \ {0}, write : Writes]
Handshake == [id |-> 0, write |-> 0]
Message == Batch \cup {Handshake}

Entries(seq) == {seq[i] : i \in DOMAIN seq}

kBatchIdUnknown == 0

\* Mutant of LoadNextBatchIdFromDb: the ids start over.
LoadNextBatchIdFromDb_One(q) == 1

\* Mutant of LoadNextBatchIdFromDb: the largest id itself.
LoadNextBatchIdFromDb_Same(q) ==
    Max({0} \cup {b.id : b \in UNION {Entries(q[u]) : u \in Users}})

\* One more than the largest id on disk, of any user.
LoadNextBatchIdFromDb(q) ==
    1 + Max({0} \cup {b.id : b \in UNION {Entries(q[u]) : u \in Users}})

\* Where Seek finds the first batch with a greater id, or the end of the queue.
FirstAfter(q, id) ==
    CHOOSE i \in 1..(Len(q) + 1) :
        /\ \A j \in 1..(i - 1) : q[j].id <= id
        /\ i <= Len(q) => q[i].id > id

NextMutationBatchesAfter(q, id) == SubSeq(q, FirstAfter(q, id), Len(q))

-----------------------------------------------------------------------------
(* RemoteStore: operators on the record [up, pipeline, handshake, ws]. *)

NewStore == [up |-> TRUE, pipeline |-> <<>>, handshake |-> FALSE, ws |-> NewStream]

ShouldStartWriteStream(r) == r.up /\ ~IsStarted(r.ws) /\ r.pipeline # <<>>

StartWriteStreamIfNeeded(r) ==
    IF ShouldStartWriteStream(r) THEN [r EXCEPT !.ws = Start(@)] ELSE r

\* WriteStream::WriteMutations, for each batch.
WriteMutations(r, batches) ==
    [r EXCEPT !.ws = HardAssert(Send(@, batches), batches = <<>> \/ r.handshake)]

\* Mutant of AddToWritePipeline: batches are sent before the handshake ends.
AddToWritePipeline_Early(r, batches) ==
    LET s == [r EXCEPT !.pipeline = @ \o batches]
    IN  IF IsOpen(r.ws) THEN WriteMutations(s, batches) ELSE s

AddToWritePipeline(r, batches) ==
    LET s == [r EXCEPT !.pipeline = @ \o batches]
    IN  IF IsOpen(r.ws) /\ r.handshake THEN WriteMutations(s, batches) ELSE s

LastIdOf(batches) ==
    IF batches = <<>> THEN kBatchIdUnknown ELSE batches[Len(batches)].id

\* Mutant of FillWritePipeline: the whole queue is read again.
FillWritePipeline_FromStart(r, q) ==
    LET room == IF r.up THEN kMaxPendingWrites - Len(r.pipeline) ELSE 0
        filled == AddToWritePipeline(r, SubSeq(q, 1, Min({room, Len(q)})))
        idled == IF r.up /\ filled.pipeline = <<>>
                 THEN [filled EXCEPT !.ws = MarkIdle(@)] ELSE filled
    IN  StartWriteStreamIfNeeded(idled)

\* FillWritePipeline, reading the current user's queue q.
FillWritePipeline(r, q) ==
    LET room == IF r.up THEN kMaxPendingWrites - Len(r.pipeline) ELSE 0
        rest == NextMutationBatchesAfter(q, LastIdOf(r.pipeline))
        filled == AddToWritePipeline(r, SubSeq(rest, 1, Min({room, Len(rest)})))
        idled == IF r.up /\ filled.pipeline = <<>>
                 THEN [filled EXCEPT !.ws = MarkIdle(@)] ELSE filled
    IN  StartWriteStreamIfNeeded(idled)

\* Mutant of AfterClose: the stream is not started again.
AfterClose_Idle(r) == [r EXCEPT !.handshake = FALSE]

\* WriteStream::NotifyStreamClose resets the handshake after the callback.
AfterClose(r) == [StartWriteStreamIfNeeded(r) EXCEPT !.handshake = FALSE]

\* Stream::Stop and OnWriteStreamClose with status OK.
StopWriteStream(r) ==
    IF ~IsStarted(r.ws) THEN r
    ELSE LET s == [r EXCEPT !.ws = Close(@, "ok")]
         IN  AfterClose([s EXCEPT !.ws = HardAssert(@, ~ShouldStartWriteStream(s))])

DisableNetworkInternal(r) ==
    [StopWriteStream([r EXCEPT !.up = FALSE]) EXCEPT !.pipeline = <<>>]

EnableNetworkWith(r, q) == FillWritePipeline([r EXCEPT !.up = TRUE], q)

\* Mutant of RestartNetwork: the pipeline of before is kept.
RestartNetwork_KeepsPipeline(r, q) ==
    LET s == StopWriteStream([r EXCEPT !.up = FALSE])
    IN  EnableNetworkWith([s EXCEPT !.ws = InhibitBackoff(@)], q)

RestartNetwork(r, q) ==
    EnableNetworkWith([DisableNetworkInternal(r) EXCEPT !.ws = InhibitBackoff(@)], q)

-----------------------------------------------------------------------------
(* SyncEngine and LocalStore. *)

\* NotifyUser: the entry for this id under the current user, if any.
NotifyUser(id, status) ==
    LET called == {c \in callbacks[user] : c.id = id}
    IN  /\ callbacks' = [callbacks EXCEPT ![user] = @ \ called]
        /\ told' = [w \in Writes |->
                      IF \E c \in called : c.write = w THEN status ELSE told[w]]

\* The HARD_ASSERTs of RemoveMutationBatch on the batch's presence.
IsQueued(b) == \E i \in DOMAIN queue[user] : queue[user][i].id = b.id

RemoveMutationBatch(b) ==
    IF IsQueued(b)
    THEN queue' = [queue EXCEPT ![user] =
                     RemoveAt(@, CHOOSE i \in DOMAIN @ : @[i].id = b.id)]
    ELSE UNCHANGED queue

Init ==
    /\ user \in Users
    /\ queue = [u \in Users |-> <<>>]
    /\ nextId = LoadNextBatchIdFromDb(queue)
    /\ callbacks = [u \in Users |-> {}]
    /\ store = FillWritePipeline(NewStore, <<>>)
    /\ issued = 0
    /\ told = [w \in Writes |-> "nothing"]
    /\ applied = {}
    /\ refused = {}

\* SyncEngine::WriteMutations.  Inserting a callback does not overwrite one.
IssueWrite ==
    LET batch == [id |-> nextId, write |-> issued + 1]
    IN  /\ issued < MaxWrites
        /\ issued' = issued + 1
        /\ nextId' = nextId + 1
        /\ queue' = [queue EXCEPT ![user] = Append(@, batch)]
        /\ callbacks' = IF \E c \in callbacks[user] : c.id = nextId THEN callbacks
                        ELSE [callbacks EXCEPT ![user] = @ \cup {batch}]
        /\ store' = FillWritePipeline(store, queue'[user])
        /\ UNCHANGED <<user, told, applied, refused>>

\* HandleCredentialChange: the queue is swapped if the user is another one,
\* the streams are restarted in any case (a refreshed token is announced
\* with the same user).
HandleCredentialChange(u) ==
    /\ "user" \in Faults
    /\ user' = u
    /\ nextId' = IF u = user THEN nextId ELSE LoadNextBatchIdFromDb(queue)
    /\ store' = IF store.up THEN RestartNetwork(store, queue[u]) ELSE store
    /\ UNCHANGED <<queue, callbacks, history>>

ConnectivityChanged ==
    /\ "network" \in Faults
    /\ store.up
    /\ store' = RestartNetwork(store, queue[user])
    /\ UNCHANGED <<local, history>>

DisableNetwork ==
    /\ "network" \in Faults
    /\ store' = DisableNetworkInternal(store)
    /\ UNCHANGED <<local, history>>

EnableNetwork ==
    /\ store' = EnableNetworkWith(store, queue[user])
    /\ UNCHANGED <<local, history>>

\* The process is killed and launched again; the user is the one Firebase
\* Auth has at that time.
Kill(u) ==
    /\ "kill" \in Faults
    /\ user' = u
    /\ nextId' = LoadNextBatchIdFromDb(queue)
    /\ callbacks' = [v \in Users |-> {}]
    /\ store' = FillWritePipeline(NewStore, queue[u])
    /\ UNCHANGED <<queue, history>>

-----------------------------------------------------------------------------
(* The stream's own callbacks. *)

Stepped(ws) == store' = [store EXCEPT !.ws = ws] /\ UNCHANGED <<local, history>>

TokenIgnored ==
    /\ "stale" \in store.ws.tokens
    /\ Stepped([store.ws EXCEPT !.tokens = @ \ {"stale"}])

TokenReceived ==
    /\ "current" \in store.ws.tokens
    /\ Stepped(CreateCall([store.ws EXCEPT !.tokens = @ \ {"current"}]))

\* OnStreamStart and OnWriteStreamOpen: the handshake is sent.
StreamOpened ==
    LET ws == Opened(store.ws)
    IN  /\ store.ws.call
        /\ store.ws.state = "Starting"
        /\ Stepped(HardAssert(Send(ws, <<Handshake>>), ~store.handshake))

BackoffTimer == "backoff" \in store.ws.timers /\ Stepped(BackoffElapsed(store.ws))

IdleTimer ==
    /\ "idle" \in store.ws.timers
    /\ store' = StopWriteStream([store EXCEPT !.ws.timers = @ \ {"idle"}])
    /\ UNCHANGED <<local, history>>

\* The first response of a call: OnWriteStreamHandshakeComplete.
HandshakeComplete ==
    LET ws == [store.ws EXCEPT !.in = Tail(@)]
        r == [store EXCEPT !.ws = HardAssert(ws, IsStarted(ws)), !.handshake = TRUE]
    IN  /\ store.ws.in # <<>>
        /\ ~store.handshake
        /\ store' = WriteMutations(r, r.pipeline)
        /\ UNCHANGED <<local, history>>

\* Every later response: OnWriteStreamMutationResult takes it for the oldest
\* batch of the pipeline, whatever batch it is about.
MutationResult ==
    LET b == Head(store.pipeline)
        ws == [store.ws EXCEPT !.in = Tail(@)]
        r == [store EXCEPT !.pipeline = Tail(@), !.ws = HardAssert(ws, IsStarted(ws) /\ IsQueued(b))]
    IN  /\ store.ws.in # <<>>
        /\ store.handshake
        /\ IF store.pipeline = <<>>
           THEN Stepped(HardAssert(ws, FALSE))
           ELSE /\ NotifyUser(b.id, "ok")
                /\ RemoveMutationBatch(b)
                /\ store' = FillWritePipeline(r, queue'[user])
                /\ UNCHANGED <<user, nextId, issued, applied, refused>>

\* Mutant of Refuses: an error of the handshake counts as a refusal.
Refuses_Handshake(status) == store.pipeline # <<>> /\ IsPermanentWriteError(status)

\* HandleWriteError handles the status; HandleHandshakeError only drops the
\* stream token.
Refuses(status) ==
    store.pipeline # <<>> /\ store.handshake /\ IsPermanentWriteError(status)

\* OnStreamFinish and OnWriteStreamClose with an error.
StreamFinished(status) ==
    LET r == [store EXCEPT !.ws = Close(@, status)]
        b == Head(r.pipeline)
        ws == HardAssert(InhibitBackoff(r.ws), IsQueued(b))
    IN  IF Refuses(status)
        THEN /\ RemoveMutationBatch(b)
             /\ NotifyUser(b.id, "error")
             /\ store' = AfterClose(FillWritePipeline(
                           [r EXCEPT !.pipeline = Tail(@), !.ws = ws], queue'[user]))
             /\ UNCHANGED <<user, nextId, issued>>
        ELSE /\ store' = AfterClose(r)
             /\ UNCHANGED <<local, issued, told>>

\* The token could not be obtained.
TokenFailed ==
    LET ws == [store.ws EXCEPT !.tokens = @ \ {"current"}]
    IN  /\ "break" \in Faults
        /\ "current" \in store.ws.tokens
        /\ store' = AfterClose([store EXCEPT !.ws = Close(ws, "transient")])
        /\ UNCHANGED <<local, history>>

-----------------------------------------------------------------------------
(* The server and the connection (external). *)

Alive == store.ws.call /\ store.ws.end = NoEnd

\* The connection is lost, or the server gives the call up, with a status
\* that does not refuse a write: what is on its way either way is lost.
CallBroken(status) ==
    /\ "break" \in Faults
    /\ store.ws.call
    /\ \/ status \in {"transient", "aborted"}
       \/ status = "permanent" /\ Alive /\ store.ws.out # <<>> /\ Head(store.ws.out) = Handshake
    /\ StreamFinished(status)
    /\ UNCHANGED <<applied, refused>>

ServerAnswersHandshake ==
    /\ Alive
    /\ store.ws.out # <<>>
    /\ Head(store.ws.out) = Handshake
    /\ Stepped([store.ws EXCEPT !.out = Tail(@), !.in = Append(@, Handshake)])

ServerApplies ==
    /\ Alive
    /\ store.ws.out # <<>>
    /\ Head(store.ws.out) # Handshake
    /\ applied' = applied \cup {Head(store.ws.out).write}
    /\ store' = [store EXCEPT !.ws.out = Tail(@), !.ws.in = Append(@, Head(store.ws.out))]
    /\ UNCHANGED <<local, issued, told, refused>>

\* The server refuses the oldest write it has not answered and ends the call.
ServerRefuses ==
    /\ "reject" \in Faults
    /\ Alive
    /\ store.ws.out # <<>>
    /\ Head(store.ws.out) # Handshake
    /\ refused' = refused \cup {Head(store.ws.out).write}
    /\ store' = [store EXCEPT !.ws.end = "permanent"]
    /\ UNCHANGED <<local, issued, told, applied>>

\* The final status is read after the messages sent before it.
FinalStatus ==
    /\ store.ws.end # NoEnd
    /\ store.ws.in = <<>>
    /\ StreamFinished(store.ws.end)
    /\ UNCHANGED <<applied, refused>>

-----------------------------------------------------------------------------
Next ==
    \/ IssueWrite
    \/ \E u \in Users : HandleCredentialChange(u)
    \/ \E u \in Users : Kill(u)
    \/ ConnectivityChanged
    \/ DisableNetwork
    \/ EnableNetwork
    \/ TokenIgnored
    \/ TokenReceived
    \/ TokenFailed
    \/ StreamOpened
    \/ BackoffTimer
    \/ IdleTimer
    \/ HandshakeComplete
    \/ MutationResult
    \/ \E status \in Errors : CallBroken(status)
    \/ ServerAnswersHandshake
    \/ ServerApplies
    \/ ServerRefuses
    \/ FinalStatus

Spec == Init /\ [][Next]_vars

\* The worker queue runs what is due: timers fire, callbacks are delivered.
\* The server and the network answer again and again if they are asked again
\* and again, and a disabled network is enabled again.
Fairness ==
    /\ WF_vars(~store.up /\ EnableNetwork)
    /\ SF_vars(BackoffTimer)
    /\ SF_vars(TokenReceived)
    /\ SF_vars(StreamOpened)
    /\ SF_vars(ServerAnswersHandshake)
    /\ SF_vars(HandshakeComplete)
    /\ SF_vars(ServerApplies)
    /\ SF_vars(MutationResult)
    /\ WF_vars(FinalStatus)

FairSpec == Spec /\ Fairness

-----------------------------------------------------------------------------
TypeOK ==
    /\ user \in Users
    /\ queue \in [Users -> Seq(Batch)]
    /\ nextId \in Nat \ {0}
    /\ callbacks \in [Users -> SUBSET Batch]
    /\ store \in [up : BOOLEAN, pipeline : Seq(Batch), handshake : BOOLEAN,
                  ws : StreamType(Message, Message)]
    /\ issued \in 0..MaxWrites
    /\ told \in [Writes -> {"nothing", "ok", "error"}]
    /\ applied \subseteq Writes
    /\ refused \subseteq Writes

\* No HARD_ASSERT of stream.cc, write_stream.cc, remote_store.cc or the
\* mutation queue fails: the stream is never started twice, never stopped as
\* idle while a write waits, never written before the handshake, and no
\* result arrives for an empty pipeline or a batch that is gone.
NoAssertFails == store.ws.ok

\* The pipeline holds the oldest writes of the current user's queue, in
\* order, and never one of another user (FillWritePipeline reads on from the
\* last batch id it holds).
PipelineIsQueuePrefix ==
    /\ Len(store.pipeline) <= kMaxPendingWrites
    /\ Len(store.pipeline) <= Len(queue[user])
    /\ store.pipeline = SubSeq(queue[user], 1, Len(store.pipeline))

\* Once the handshake is done, the results on their way and the writes the
\* server has still to read are exactly the pipeline, in its order: taking a
\* result for the oldest batch is right.
ResultsMatchPipeline ==
    store.handshake => store.ws.in \o store.ws.out = store.pipeline

\* A completion callback waits under the id of its own write, which is still
\* queued; it is told "ok" only of a write the server applied and an error
\* only of one it refused (NotifyUser).
CallbackOfItsWrite ==
    /\ \A u \in Users : callbacks[u] \subseteq Entries(queue[u])
    /\ \A w \in Writes : /\ told[w] = "ok" => w \in applied
                         /\ told[w] = "error" => w \in refused

\* No accepted write is lost and none overtakes an older one of its user: a
\* write leaves the queue only applied or refused, and the server has seen
\* the queue's writes in order.
NoWriteLost ==
    LET queued == UNION {Entries(queue[u]) : u \in Users}
    IN  /\ \A w \in 1..issued : w \in applied \cup refused \/ \E b \in queued : b.write = w
        /\ \A u \in Users : \A i, j \in DOMAIN queue[u] :
             i < j /\ queue[u][j].write \in applied => queue[u][i].write \in applied

\* The pipeline implements the outbox that ScoreSync assumes: "sent" is the
\* number of results not read yet.
Abstract == INSTANCE Outbox WITH
    sent <- IF store.handshake THEN Len(store.ws.in) ELSE 0,
    Writes <- [id : 1..(MaxWrites + 1), write : Writes]

OutboxSpec == Abstract!Spec

\* Every write accepted leaves the queue in the end, confirmed or refused,
\* whatever breaks, restarts or is killed in between (retry with backoff),
\* unless another user signs in meanwhile.
EveryWriteSettles ==
    \A w \in Writes :
        issued >= w ~> \A b \in Entries(queue[user]) : b.write # w

=============================================================================
