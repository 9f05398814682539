---------------------------- MODULE WatchPipeline ----------------------------
(***************************************************************************)
(* How the Firestore client answers getDocument: a listener that is        *)
(* removed by its first event (document_reference.cc), the event manager   *)
(* and its query listeners, the views, the watch half of the remote store  *)
(* with the aggregator's per-target counters, and the online state tracker *)
(* with its ten second timer.  Server and connection are external.         *)
(*                                                                         *)
(* A document stands for its document query and for that query's target,   *)
(* whose id is the same at every listen.  Main thread, worker queue and    *)
(* server take turns: a get is called and answered on the main thread, its *)
(* listener is added and removed on the worker queue.                      *)
(***************************************************************************)
EXTENDS Integers, Sequences, FiniteSets, FiniteSetsExt, SequencesExt, Stream

CONSTANTS
    Gets,      \* slots for getDocument calls: how many may overlap
    Docs,      \* documents
    Denied,    \* documents the server refuses to this user
    MaxCalls,  \* bound: getDocument calls of a behaviour
    MaxSnapshots, \* bound: snapshots on their way to the client at a time
    Faults     \* which of AllFaults the environment may produce

\*   network  connectivity changes, the network is disabled and enabled
\*   break    a call ends with an error
AllFaults == {"network", "break"}

kMaxWatchStreamFailures == 1

NoDoc == "none"

ASSUME WatchPipelineAssumption ==
    /\ NoDoc \notin Docs
    /\ Denied \subseteq Docs
    /\ MaxCalls \in Nat
    /\ MaxSnapshots \in Nat
    /\ Faults \subseteq AllFaults

VARIABLES
    get,      \* each slot: caller, listener and events on their way to it
    view,     \* the view of each document's query: none, local, synced
    store,    \* RemoteStore, its watch stream, aggregator and online state
    server,   \* what the server knows of each target on the open call
    calls     \* getDocument calls so far

vars == <<get, view, store, server, calls>>

Event == {"server", "cache", "error"}

\* caller   main thread: idle, called (listener not added yet), waiting,
\*          removing (answered, listener not removed yet)
\* listed   the listener is in the event manager's list
\* raised   raised_initial_event_
\* events   events on their way to the main thread, the first two
\* muted    AsyncEventListener::Mute was called
\* answers  how often the callback ran for this call
NoGet == [caller |-> "idle", doc |-> NoDoc, listed |-> FALSE, raised |-> FALSE,
          events |-> <<>>, muted |-> FALSE, answers |-> 0]

Message(kinds) == [kind : kinds, doc : Docs]
Requests == Message({"watch", "unwatch"})

\* A target change without target ids and with a read time: a global snapshot.
Snapshot == [kind |-> "snapshot", doc |-> NoDoc]
Responses == Message({"added", "removed", "current", "rejected"}) \cup {Snapshot}

\* TargetState: outstanding_responses_ and current_, and, as a history, old:
\* current_ was set when the last stop of the listen was sent on this call.
NoTarget == [pending |-> 0, current |-> FALSE, old |-> FALSE]

-----------------------------------------------------------------------------
(* OnlineStateTracker, on the fields online, failures and timer. *)

HandleWatchStreamStart(r) ==
    IF r.failures # 0 THEN r
    ELSE [r EXCEPT !.online = "Unknown", !.ws = HardAssert(@, ~r.timer), !.timer = TRUE]

\* Mutant of HandleWatchStreamFailure: failed attempts never add up to Offline.
HandleWatchStreamFailure_StaysUnknown(r) ==
    IF r.online = "Online"
    THEN [r EXCEPT !.online = "Unknown", !.ws = HardAssert(@, r.failures = 0 /\ ~r.timer)]
    ELSE [r EXCEPT !.failures = 1, !.timer = FALSE]

HandleWatchStreamFailure(r) ==
    IF r.online = "Online"
    THEN [r EXCEPT !.online = "Unknown", !.ws = HardAssert(@, r.failures = 0 /\ ~r.timer)]
    ELSE LET failures == Min({r.failures + 1, kMaxWatchStreamFailures})
         IN  IF failures >= kMaxWatchStreamFailures
             THEN [r EXCEPT !.failures = failures, !.timer = FALSE, !.online = "Offline"]
             ELSE [r EXCEPT !.failures = failures]

\* Mutant of UpdateState: the timer goes on running.
UpdateState_KeepsTimer(r, state) == [r EXCEPT !.failures = 0, !.online = state]

UpdateState(r, state) ==
    [r EXCEPT !.timer = FALSE, !.failures = 0, !.online = state]

-----------------------------------------------------------------------------
(* RemoteStore, on the record [up, targets, agg, ws, online, failures,     *)
(* timer].                                                                 *)

NoAggregator == [d \in Docs |-> NoTarget]

NewStore == [up |-> TRUE, targets |-> {}, agg |-> NoAggregator, ws |-> NewStream,
             online |-> "Unknown", failures |-> 0, timer |-> FALSE]

ShouldStartWatchStream(r) == r.up /\ ~IsStarted(r.ws) /\ r.targets # {}

StartWatchStream(r) ==
    HandleWatchStreamStart([r EXCEPT !.agg = NoAggregator, !.ws = Start(@)])

\* SendWatchRequest and SendUnwatchRequest.
SendRequest(r, kind, d) ==
    [r EXCEPT !.agg[d].pending = @ + 1,
              !.agg[d].old = IF kind = "unwatch" THEN r.agg[d].current ELSE @,
              !.ws = Send(@, <<[kind |-> kind, doc |-> d]>>)]

Listen(r, d) ==
    LET s == [r EXCEPT !.targets = @ \cup {d}]
    IN  IF ShouldStartWatchStream(s) THEN StartWatchStream(s)
        ELSE IF IsOpen(s.ws) THEN SendRequest(s, "watch", d) ELSE s

StopListening(r, d) ==
    LET erased == [r EXCEPT !.targets = @ \ {d}, !.ws = HardAssert(@, d \in r.targets)]
        told == IF IsOpen(r.ws) THEN SendRequest(erased, "unwatch", d) ELSE erased
    IN  IF told.targets # {} THEN told
        ELSE IF IsOpen(told.ws) THEN [told EXCEPT !.ws = MarkIdle(@)]
        ELSE IF told.up THEN UpdateState(told, "Unknown")
        ELSE told

OnWatchStreamClose(r, status) ==
    LET s == [r EXCEPT !.agg = NoAggregator,
                       !.ws = HardAssert(@, status = "ok" => ~ShouldStartWatchStream(r))]
    IN  IF ShouldStartWatchStream(s) THEN StartWatchStream(HandleWatchStreamFailure(s))
        ELSE UpdateState(s, "Unknown")

CloseWatchStream(r, status) == OnWatchStreamClose([r EXCEPT !.ws = Close(@, status)], status)

StopWatchStream(r) == IF IsStarted(r.ws) THEN CloseWatchStream(r, "ok") ELSE r

EnableNetworkOf(r) ==
    LET s == [r EXCEPT !.up = TRUE]
    IN  IF ShouldStartWatchStream(s) THEN StartWatchStream(s) ELSE UpdateState(s, "Unknown")

RestartNetwork(r) ==
    LET stopped == UpdateState(StopWatchStream([r EXCEPT !.up = FALSE]), "Unknown")
    IN  EnableNetworkOf([stopped EXCEPT !.ws = InhibitBackoff(@)])

-----------------------------------------------------------------------------
(* Listeners.  Raising an event enqueues it for the main thread; only the  *)
(* first two matter, since the first one mutes the listener.               *)

Raised(g, event) ==
    [g EXCEPT !.raised = TRUE,
              !.events = IF Len(@) < 2 THEN Append(@, event) ELSE @]

\* ShouldRaiseInitialEvent of a listener that waits for the sync when online:
\* a snapshot from the cache is held back in this state.
Waits(state) == state # "Offline"

Kind(synced) == IF synced THEN "server" ELSE "cache"

\* What the listeners do once a handler is through, the online state being
\* that of store': listeners that wait no longer raise their initial event,
\* and those past it are told when the view's sync state changed.
Notified(gets, before, after, online) ==
    [g \in Gets |->
        LET x == gets[g]
            synced == after[x.doc] = "synced"
        IN  IF ~x.listed THEN x
            ELSE IF ~x.raised
            THEN IF synced \/ ~Waits(online) THEN Raised(x, Kind(synced)) ELSE x
            ELSE IF before[x.doc] # after[x.doc] THEN Raised(x, Kind(synced)) ELSE x]

\* View::ApplyOnlineStateChange.
Seen(views, online) ==
    [d \in Docs |-> IF online = "Offline" /\ views[d] = "synced" THEN "local" ELSE views[d]]

\* A handler that leaves the remote store in r and changed views to v.
Handled(r, gets, v) ==
    /\ store' = r
    /\ view' = Seen(v, r.online)
    /\ get' = Notified(gets, view, view', r.online)

-----------------------------------------------------------------------------
Init ==
    /\ get = [g \in Gets |-> NoGet]
    /\ view = [d \in Docs |-> "none"]
    /\ store = NewStore
    /\ server = [d \in Docs |-> "off"]
    /\ calls = 0

\* DocumentReference::GetDocument on the main thread.
GetDocument(g, d) ==
    /\ get[g].caller = "idle"
    /\ get[g].events = <<>>
    /\ calls < MaxCalls
    /\ calls' = calls + 1
    /\ get' = [get EXCEPT ![g] = [NoGet EXCEPT !.caller = "called", !.doc = d]]
    /\ UNCHANGED <<view, store, server>>

\* AddQueryListener: the first listener of a query makes the sync engine
\* listen; a later one is given the view's last snapshot.
AddQueryListener(g) ==
    LET d == get[g].doc
        gets == [get EXCEPT ![g].caller = "waiting", ![g].listed = TRUE]
    IN  /\ get[g].caller = "called"
        /\ IF view[d] = "none"
           THEN Handled(Listen(store, d), gets, [view EXCEPT ![d] = "local"])
           ELSE Handled(store, gets, view)
        /\ UNCHANGED <<server, calls>>

\* Mutant of DeliverEvent: a muted listener still hears.
DeliverEvent_Unmuted(g) ==
    LET x == get[g]
        e == Head(x.events)
        rest == [x EXCEPT !.events = Tail(@)]
    IN  /\ x.events # <<>>
        /\ get' = [get EXCEPT ![g] =
             [rest EXCEPT !.answers = Min({@ + 1, 2}), !.muted = e # "error",
                          !.caller = IF e = "error" THEN "idle" ELSE "removing"]]
        /\ UNCHANGED <<view, store, server, calls>>

\* AsyncEventListener on the main thread, then ListenOnce::OnEvent: an error
\* is passed on, anything else first mutes and removes the listener.
DeliverEvent(g) ==
    LET x == get[g]
        e == Head(x.events)
        rest == [x EXCEPT !.events = Tail(@)]
    IN  /\ x.events # <<>>
        /\ get' = [get EXCEPT ![g] =
             IF x.muted THEN rest
             ELSE [rest EXCEPT !.answers = Min({@ + 1, 2}), !.muted = e # "error",
                               !.caller = IF e = "error" THEN "idle" ELSE "removing"]]
        /\ UNCHANGED <<view, store, server, calls>>

\* Mutant of RemoveQueryListener: other listeners of the query are not looked at.
RemoveQueryListener_Alone(g) ==
    LET d == get[g].doc
        gets == [get EXCEPT ![g].caller = "idle", ![g].listed = FALSE]
    IN  /\ get[g].caller = "removing"
        /\ IF get[g].listed
           THEN Handled(StopListening(store, d), gets, [view EXCEPT ![d] = "none"])
           ELSE Handled(store, gets, view)
        /\ UNCHANGED <<server, calls>>

\* RemoveQueryListener: the last listener of a query stops the listen; after
\* an error the listener is no longer in the list.
RemoveQueryListener(g) ==
    LET d == get[g].doc
        gets == [get EXCEPT ![g].caller = "idle", ![g].listed = FALSE]
        others == {h \in Gets : gets[h].listed /\ gets[h].doc = d}
    IN  /\ get[g].caller = "removing"
        /\ IF get[g].listed /\ others = {}
           THEN Handled(StopListening(store, d), gets, [view EXCEPT ![d] = "none"])
           ELSE Handled(store, gets, view)
        /\ UNCHANGED <<server, calls>>

\* A restarted or broken call starts from nothing at the server.
ServerAfter(r) ==
    server' = IF r.ws.call THEN server ELSE [d \in Docs |-> "off"]

ConnectivityChanged ==
    /\ "network" \in Faults
    /\ store.up
    /\ Handled(RestartNetwork(store), get, view)
    /\ ServerAfter(store')
    /\ UNCHANGED calls

DisableNetwork ==
    /\ "network" \in Faults
    /\ Handled(UpdateState(StopWatchStream([store EXCEPT !.up = FALSE]), "Offline"), get, view)
    /\ ServerAfter(store')
    /\ UNCHANGED calls

EnableNetwork ==
    /\ ~store.up
    /\ Handled(EnableNetworkOf(store), get, view)
    /\ UNCHANGED <<server, calls>>

-----------------------------------------------------------------------------
(* The stream's and the tracker's own callbacks. *)

Stepped(ws) == store' = [store EXCEPT !.ws = ws] /\ UNCHANGED <<get, view, server, calls>>

TokenIgnored ==
    /\ "stale" \in store.ws.tokens
    /\ Stepped([store.ws EXCEPT !.tokens = @ \ {"stale"}])

TokenReceived ==
    /\ "current" \in store.ws.tokens
    /\ Stepped(CreateCall([store.ws EXCEPT !.tokens = @ \ {"current"}]))

BackoffTimer == "backoff" \in store.ws.timers /\ Stepped(BackoffElapsed(store.ws))

IdleTimer ==
    /\ "idle" \in store.ws.timers
    /\ Handled(StopWatchStream([store EXCEPT !.ws.timers = @ \ {"idle"}]), get, view)
    /\ ServerAfter(store')
    /\ UNCHANGED calls

\* Mutant of OnlineStateTimer: nobody is told of the new state.
OnlineStateTimer_Silent ==
    /\ store.timer
    /\ store' = [store EXCEPT !.timer = FALSE, !.online = "Offline"]
    /\ UNCHANGED <<get, view, server, calls>>

OnlineStateTimer ==
    /\ store.timer
    /\ Handled([store EXCEPT !.timer = FALSE, !.online = "Offline",
                             !.ws = HardAssert(@, store.online = "Unknown")], get, view)
    /\ UNCHANGED <<server, calls>>

\* Mutant of StreamOpened: the responses it is due are not counted.
StreamOpened_Uncounted ==
    LET requests == {[kind |-> "watch", doc |-> d] : d \in store.targets}
    IN  /\ store.ws.call
        /\ store.ws.state = "Starting"
        /\ store' = [store EXCEPT !.ws = Send(Opened(@), SetToSeq(requests))]
        /\ UNCHANGED <<get, view, server, calls>>

\* OnStreamStart and OnWatchStreamOpen: every target is asked for again.
StreamOpened ==
    LET requests == {[kind |-> "watch", doc |-> d] : d \in store.targets}
        asked == Send(Opened(store.ws), SetToSeq(requests))
        counted == [d \in Docs |-> [store.agg[d] EXCEPT
                      !.pending = IF d \in store.targets THEN @ + 1 ELSE @]]
    IN  /\ store.ws.call
        /\ store.ws.state = "Starting"
        /\ store' = [store EXCEPT !.ws = asked, !.agg = counted]
        /\ UNCHANGED <<get, view, server, calls>>

\* The message at the head was read: the client is Online.
Read(r) ==
    LET ws == [r.ws EXCEPT !.in = Tail(@)]
    IN  UpdateState([r EXCEPT !.ws = HardAssert(ws, IsStarted(ws))], "Online")

NextResponse(kind) == store.ws.in # <<>> /\ Head(store.ws.in).kind = kind

\* HandleTargetChange, Added and Removed: one response less is due.  The
\* current_ flag survives Added; a target that is removed and not asked for
\* again is forgotten.
TargetAcknowledged ==
    LET m == Head(store.ws.in)
        t == [store.agg[m.doc] EXCEPT !.pending = @ - 1]
        kept == IF m.kind = "removed" /\ t.pending = 0 THEN NoTarget ELSE t
    IN  /\ NextResponse("added") \/ NextResponse("removed")
        /\ Handled([Read(store) EXCEPT !.agg[m.doc] = kept], get, view)
        /\ UNCHANGED <<server, calls>>

IsActiveTarget(r, d) == r.agg[d].pending = 0 /\ d \in r.targets

\* Mutant of TargetCurrent: also of a target that is due other responses.
TargetCurrent_Pending ==
    LET d == Head(store.ws.in).doc
    IN  /\ NextResponse("current")
        /\ Handled([Read(store) EXCEPT !.agg[d].current = TRUE, !.agg[d].old = FALSE], get, view)
        /\ UNCHANGED <<server, calls>>

\* HandleTargetChange, Current: noted of an active target only.
TargetCurrent ==
    LET d == Head(store.ws.in).doc
        r == Read(store)
        marked == [r EXCEPT !.agg[d].current = TRUE, !.agg[d].old = FALSE]
    IN  /\ NextResponse("current")
        /\ Handled(IF IsActiveTarget(store, d) THEN marked ELSE r, get, view)
        /\ UNCHANGED <<server, calls>>

\* RaiseWatchSnapshot and CreateRemoteEvent: a snapshot no older than the last
\* one tells the views of all active targets whether they are current.
WatchSnapshot ==
    /\ NextResponse("snapshot")
    /\ Handled(Read(store), get,
         [d \in Docs |-> IF ~IsActiveTarget(store, d) THEN view[d]
                         ELSE IF store.agg[d].current THEN "synced" ELSE "local"])
    /\ UNCHANGED <<server, calls>>

\* One that is older than the last is not raised.
SnapshotIgnored ==
    /\ NextResponse("snapshot")
    /\ Handled(Read(store), get, view)
    /\ UNCHANGED <<server, calls>>

\* ProcessTargetError and HandleRejectedListen: the listeners of a target
\* that is still wanted get the error and are dropped with their query.
TargetRejected ==
    LET d == Head(store.ws.in).doc
        r == [Read(store) EXCEPT !.targets = @ \ {d}, !.agg[d] = NoTarget]
        gets == [g \in Gets |-> IF get[g].listed /\ get[g].doc = d
                                THEN [Raised(get[g], "error") EXCEPT !.listed = FALSE]
                                ELSE get[g]]
    IN  /\ NextResponse("rejected")
        /\ IF d \in store.targets
           THEN Handled(r, gets, [view EXCEPT ![d] = "none"])
           ELSE Handled(Read(store), get, view)
        /\ UNCHANGED <<server, calls>>

-----------------------------------------------------------------------------
(* The server and the connection (external). *)

Closed ==
    /\ Handled(CloseWatchStream(store, "transient"), get, view)
    /\ server' = [d \in Docs |-> "off"]
    /\ UNCHANGED calls

TokenFailed ==
    /\ "break" \in Faults
    /\ "current" \in store.ws.tokens
    /\ Handled(CloseWatchStream([store EXCEPT !.ws.tokens = @ \ {"current"}], "transient"),
               get, view)
    /\ UNCHANGED <<server, calls>>

\* An attempt to connect fails, or an open call breaks.
AttemptFails == "break" \in Faults /\ store.ws.call /\ store.ws.state = "Starting" /\ Closed
CallBreaks == "break" \in Faults /\ store.ws.call /\ IsOpen(store.ws) /\ Closed

ServerReads ==
    LET m == Head(store.ws.out)
        kind == IF m.kind = "unwatch" THEN "removed"
                ELSE IF m.doc \in Denied THEN "rejected" ELSE "added"
        silent == m.kind = "unwatch" /\ server[m.doc] = "off"
    IN  /\ store.ws.call
        /\ store.ws.out # <<>>
        /\ store' = [store EXCEPT !.ws.out = Tail(@),
             !.ws.in = IF silent THEN @ ELSE Append(@, [kind |-> kind, doc |-> m.doc])]
        /\ server' = [server EXCEPT ![m.doc] = IF kind = "added" THEN "on" ELSE "off"]
        /\ UNCHANGED <<get, view, calls>>

ServerCurrent(d) ==
    /\ server[d] = "on"
    /\ server' = [server EXCEPT ![d] = "current"]
    /\ store' = [store EXCEPT !.ws.in = Append(@, [kind |-> "current", doc |-> d])]
    /\ UNCHANGED <<get, view, calls>>

\* At any time the server may say that what it sent of its listens makes a
\* snapshot (with a resume token, so that every active target is told).
ServerSnapshot ==
    /\ \E d \in Docs : server[d] # "off"
    /\ Cardinality({i \in DOMAIN store.ws.in : store.ws.in[i] = Snapshot}) < MaxSnapshots
    /\ store' = [store EXCEPT !.ws.in = Append(@, Snapshot)]
    /\ UNCHANGED <<get, view, server, calls>>

-----------------------------------------------------------------------------
Next ==
    \/ \E g \in Gets, d \in Docs : GetDocument(g, d)
    \/ \E g \in Gets : AddQueryListener(g) \/ DeliverEvent(g) \/ RemoveQueryListener(g)
    \/ ConnectivityChanged
    \/ DisableNetwork
    \/ EnableNetwork
    \/ TokenIgnored
    \/ TokenReceived
    \/ TokenFailed
    \/ BackoffTimer
    \/ IdleTimer
    \/ OnlineStateTimer
    \/ StreamOpened
    \/ TargetAcknowledged
    \/ TargetCurrent
    \/ TargetRejected
    \/ WatchSnapshot
    \/ SnapshotIgnored
    \/ AttemptFails
    \/ CallBreaks
    \/ ServerReads
    \/ \E d \in Docs : ServerCurrent(d)
    \/ ServerSnapshot

Spec == Init /\ [][Next]_vars

\* The queues run what is due and the timers fire.
QueueFairness ==
    /\ \A g \in Gets : /\ WF_vars(AddQueryListener(g))
                       /\ WF_vars(DeliverEvent(g))
                       /\ WF_vars(RemoveQueryListener(g))
    /\ WF_vars(BackoffTimer)
    /\ WF_vars(OnlineStateTimer)
    /\ WF_vars(TargetAcknowledged)
    /\ WF_vars(TargetCurrent)
    /\ WF_vars(TargetRejected)
    /\ WF_vars(WatchSnapshot \/ SnapshotIgnored)

\* Everything asked for on the open call has been answered.
AllSynced == \A d \in store.targets : view[d] = "synced"

\* Every attempt to connect ends, one way or the other.  The server answers and
\* goes on sending snapshots, not all of them old.  In the end the device stays
\* with one network, or with none, and no call breaks before its answers have
\* been read.
NetworkFairness ==
    /\ WF_vars(TokenReceived \/ TokenFailed)
    /\ WF_vars(StreamOpened \/ AttemptFails)
    /\ WF_vars(ServerReads)
    /\ \A d \in Docs : WF_vars(ServerCurrent(d))
    /\ WF_vars(ServerSnapshot)
    /\ SF_vars(WatchSnapshot)
    /\ <>[][~(ConnectivityChanged \/ DisableNetwork \/ (CallBreaks /\ ~AllSynced))]_vars

FairSpec == Spec /\ QueueFairness /\ NetworkFairness

-----------------------------------------------------------------------------
TypeOK ==
    /\ get \in [Gets -> [caller : {"idle", "called", "waiting", "removing"},
                         doc : Docs \cup {NoDoc}, listed : BOOLEAN, raised : BOOLEAN,
                         events : Seq(Event), muted : BOOLEAN, answers : 0..2]]
    /\ view \in [Docs -> {"none", "local", "synced"}]
    /\ store \in [up : BOOLEAN, targets : SUBSET Docs,
                  agg : [Docs -> [pending : Nat, current : BOOLEAN, old : BOOLEAN]],
                  ws : StreamType(Requests, Responses),
                  online : {"Unknown", "Online", "Offline"},
                  failures : 0..kMaxWatchStreamFailures, timer : BOOLEAN]
    /\ server \in [Docs -> {"off", "on", "current"}]
    /\ calls \in 0..MaxCalls

\* No HARD_ASSERT of stream.cc, remote_store.cc or online_state_tracker.cc
\* fails: no stop of a target that is not listened to, no graceful stop of a
\* stream still needed, no second online timer, no timeout while Online.
NoAssertFails == store.ws.ok

\* getDocument calls its callback at most once, although the worker queue may
\* raise a second event before the first one removed the listener.
AnsweredOnce == \A g \in Gets : get[g].answers <= 1

\* The remote store listens exactly to the documents that have a view, and a
\* view exists exactly while somebody listens (listen_targets_ against
\* queries_by_target_ against queries_).
TargetsFollowListeners ==
    /\ store.targets = {d \in Docs : view[d] # "none"}
    /\ store.targets = {get[g].doc : g \in {h \in Gets : get[h].listed}}

\* A view comes in sync with the server only on what the server said of the
\* present listen: a CURRENT of an earlier listen of the document, read late,
\* does not count (IsActiveTarget), nor does a snapshot without one.  The one
\* exception is a current_ already set when the earlier listen was stopped,
\* which survives Added although the comment there speaks of a reset.
SyncedIsNews ==
    [][\A d \in Docs : view[d] # "synced" /\ view'[d] = "synced" =>
         server[d] = "current" \/ store.agg[d].old]_vars

\* A snapshot from the cache answers only once the client gave up on the
\* server: a listener that raised nothing waits for a sync or for Offline.
WaitersWait ==
    \A g \in Gets :
        get[g].listed /\ ~get[g].raised =>
            /\ view[get[g].doc] = "local"
            /\ store.online # "Offline"

\* Every getDocument is answered, by the server, from the cache or with an
\* error, if attempts to connect end and the server, once reached, answers.
EveryGetAnswered == \A g \in Gets : get[g].caller = "called" ~> get[g].answers > 0

=============================================================================
