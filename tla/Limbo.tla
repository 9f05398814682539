------------------------------- MODULE Limbo -------------------------------
(***************************************************************************)
(* Limbo documents of the Firestore client (SyncEngine and View): a        *)
(* document that the cache says matches a query and the server, being in   *)
(* sync, does not list.  Each one is looked up by a listen of its own, at  *)
(* most max_concurrent_limbo_resolutions at a time, the others wait in a   *)
(* queue.  The app's ranking is such a query: profiles disappear from it   *)
(* while a device is offline.                                              *)
(*                                                                         *)
(* A remote event changes one target.  Every document that is in the cache *)
(* or written locally matches every query.  The contents of documents, and *)
(* document_received, which only the watch aggregator reads, are left out. *)
(***************************************************************************)
EXTENDS Naturals, Sequences, FiniteSets, FiniteSetsExt, SequencesExt

CONSTANTS
    Docs,
    Queries,                             \* each is a target of its own
    max_concurrent_limbo_resolutions,    \* 100 in the code
    Faults                               \* which of AllFaults may happen

\*   offline  views lose their sync with the server
\*   reject   the server refuses the lookup of a document
\*   write    the app writes documents
AllFaults == {"offline", "reject", "write"}

ASSUME LimboAssumption ==
    /\ IsFiniteSet(Docs)
    /\ IsFiniteSet(Queries)
    /\ max_concurrent_limbo_resolutions \in Nat \ {0}
    /\ Faults \subseteq AllFaults

VARIABLES
    cache,      \* documents of the remote document cache
    mutated,    \* documents with local mutations
    view,       \* the view of each query; "synced" outlives it on disk
    sync        \* SyncEngine: references, queue and lookups under way

vars == <<cache, mutated, view, sync>>

NewView == [open |-> FALSE, synced |-> {}, current |-> FALSE, limbo |-> {}]

-----------------------------------------------------------------------------
(* SyncEngine, on the record                                               *)
(*   refs       limbo_document_refs_: pairs <<document, query>>            *)
(*   queue      enqueued_limbo_resolutions_                                *)
(*   active     active_limbo_targets_by_key_                               *)
(*   listening  the lookups the remote store listens to                    *)
(*   ok         no assertion of RemoteStore::StopListening failed          *)
(*   refused    history: documents whose lookup the server refused         *)

NewSync == [refs |-> {}, queue |-> <<>>, active |-> {}, listening |-> {},
            ok |-> TRUE, refused |-> {}]

\* Mutant of PumpEnqueuedLimboResolutions: one lookup too many.
PumpEnqueuedLimboResolutions_OneMore(s) ==
    LET room == 1 + max_concurrent_limbo_resolutions - Cardinality(s.active)
        n == Min({room, Len(s.queue)})
        started == ToSet(SubSeq(s.queue, 1, n))
    IN  [s EXCEPT !.queue = SubSeq(@, n + 1, Len(@)),
                  !.active = @ \cup started, !.listening = @ \cup started]

PumpEnqueuedLimboResolutions(s) ==
    LET room == max_concurrent_limbo_resolutions - Cardinality(s.active)
        n == Min({room, Len(s.queue)})
        started == ToSet(SubSeq(s.queue, 1, n))
    IN  [s EXCEPT !.queue = SubSeq(@, n + 1, Len(@)),
                  !.active = @ \cup started, !.listening = @ \cup started]

\* Mutant of TrackLimboChange: without room the document is not queued.
TrackLimboChange_IfRoom(s, k) ==
    IF k \in s.active \/ Cardinality(s.active) >= max_concurrent_limbo_resolutions THEN s
    ELSE PumpEnqueuedLimboResolutions([s EXCEPT !.queue = Append(@, k)])

TrackLimboChange(s, k) ==
    IF k \in s.active \/ k \in ToSet(s.queue) THEN s
    ELSE PumpEnqueuedLimboResolutions([s EXCEPT !.queue = Append(@, k)])

\* Mutant of RemoveLimboTarget: nothing is started in its place.
RemoveLimboTarget_NoPump(s, k) ==
    LET r == [s EXCEPT !.queue = RemoveFirst(@, k)]
    IN  IF k \notin r.active THEN r
        ELSE [r EXCEPT !.active = @ \ {k}, !.listening = @ \ {k}]

\* Mutant of RemoveLimboTarget: the queue is not searched.
RemoveLimboTarget_StaysQueued(s, k) ==
    IF k \notin s.active THEN s
    ELSE PumpEnqueuedLimboResolutions(
           [s EXCEPT !.active = @ \ {k}, !.listening = @ \ {k}])

RemoveLimboTarget(s, k) ==
    LET r == [s EXCEPT !.queue = RemoveFirst(@, k)]
    IN  IF k \notin r.active THEN r
        ELSE PumpEnqueuedLimboResolutions(
               [r EXCEPT !.active = @ \ {k}, !.listening = @ \ {k},
                         !.ok = @ /\ k \in r.listening])

HasReference(s, k) == \E p \in s.refs : p[1] = k

\* LimboDocumentChange, with the query whose view it comes from.
Change(type, key, query) == [type |-> type, key |-> key, query |-> query]

\* One turn of the loop of UpdateTrackedLimboDocuments.
TrackChange(s, change) ==
    LET k == change.key
        ref == <<k, change.query>>
        r == [s EXCEPT !.refs = @ \ {ref}]
    IN  IF change.type = "Added"
        THEN TrackLimboChange([s EXCEPT !.refs = @ \cup {ref}], k)
        ELSE IF HasReference(r, k) THEN r ELSE RemoveLimboTarget(r, k)

UpdateTrackedLimboDocuments(s, changes) ==
    LET after[i \in 0..Len(changes)] ==
          IF i = 0 THEN s ELSE TrackChange(after[i - 1], changes[i])
    IN  after[Len(changes)]

-----------------------------------------------------------------------------
(* View *)

\* UpdateLimboDocuments: only a view in sync with the server can tell.
UpdateLimboDocuments(v, docs, local) ==
    IF v.open /\ v.current THEN [v EXCEPT !.limbo = (docs \ v.synced) \ local] ELSE v

\* The limbo_changes of a view.
LimboChanges(q, before, after) ==
    {Change("Removed", k, q) : k \in before \ after}
    \cup {Change("Added", k, q) : k \in after \ before}

\* One view after the other, and of each the removals first; keys in any order.
ViewByView(changes) ==
    \A i, j \in DOMAIN changes : i < j /\ changes[i].query = changes[j].query =>
        /\ changes[j].type = "Removed" => changes[i].type = "Removed"
        /\ \A l \in i..j : changes[l].query = changes[i].query

\* EmitNewSnapshotsAndNotifyLocalStore, from the engine s and the views vs
\* after target changes.
Emit(s, vs) ==
    /\ view' = [q \in Queries |->
                  UpdateLimboDocuments(vs[q], cache' \cup mutated', mutated')]
    /\ \E changes \in SetToSeqs(UNION {LimboChanges(q, view[q].limbo, view'[q].limbo) :
                                      q \in Queries}) :
         /\ ViewByView(changes)
         /\ sync' = UpdateTrackedLimboDocuments(s, changes)

\* The references of the query go first; each of its keys is then treated like
\* one whose reference has just been removed.
RemoveAndCleanupTarget(q) ==
    LET keys == {k \in Docs : <<k, q>> \in sync.refs}
        cleared == [sync EXCEPT !.refs = {p \in @ : p[2] # q}]
    IN  \E changes \in SetToSeqs(LimboChanges(q, keys, {})) :
          sync' = UpdateTrackedLimboDocuments(cleared, changes)

-----------------------------------------------------------------------------
Init ==
    /\ cache \in SUBSET Docs
    /\ mutated = {}
    /\ view = [q \in Queries |-> NewView]
    /\ sync = NewSync

\* InitializeViewAndComputeSnapshot: the new view is not in sync.
Listen(q) ==
    /\ ~view[q].open
    /\ view' = [view EXCEPT ![q] = [NewView EXCEPT !.open = TRUE, !.synced = view[q].synced]]
    /\ UNCHANGED <<cache, mutated, sync>>

\* StopListening, and HandleRejectedListen for the target of a query.
StopListening(q) ==
    /\ view[q].open
    /\ view' = [view EXCEPT ![q] = [NewView EXCEPT !.synced = view[q].synced]]
    /\ RemoveAndCleanupTarget(q)
    /\ UNCHANGED <<cache, mutated>>

\* A remote event for a query: its documents become those of "now", "gone"
\* of those that left were deleted, the target may have become current.
QueryEvent(q, now, gone, current) ==
    /\ view[q].open
    /\ gone \subseteq view[q].synced \ now
    /\ cache' = (cache \cup (now \ view[q].synced)) \ gone
    /\ UNCHANGED mutated
    /\ Emit(sync, [view EXCEPT ![q].synced = now, ![q].current = current])

\* The lookup of a document found it, or found it deleted or changed so that
\* it no longer matches.
LimboAnswered(k, found) ==
    /\ k \in sync.active
    /\ cache' = IF found THEN cache \cup {k} ELSE cache \ {k}
    /\ UNCHANGED mutated
    /\ Emit(sync, view)

\* HandleRejectedListen for a lookup: the next one is started before the
\* document is dropped from the cache.
LimboRejected(k) ==
    /\ "reject" \in Faults
    /\ k \in sync.listening
    /\ cache' = cache \ {k}
    /\ UNCHANGED mutated
    /\ Emit(PumpEnqueuedLimboResolutions(
              [sync EXCEPT !.active = @ \ {k}, !.listening = @ \ {k},
                           !.refused = @ \cup {k}]), view)

\* ApplyOnlineStateChange of every view.
GoOffline ==
    /\ "offline" \in Faults
    /\ view' = [q \in Queries |-> [view[q] EXCEPT !.current = FALSE]]
    /\ UNCHANGED <<cache, mutated, sync>>

WriteMutations(k) ==
    /\ "write" \in Faults
    /\ mutated' = mutated \cup {k}
    /\ UNCHANGED cache
    /\ Emit(sync, view)

HandleSuccessfulWrite(k) ==
    /\ k \in mutated
    /\ mutated' = mutated \ {k}
    /\ cache' = cache \cup {k}
    /\ Emit(sync, view)

HandleRejectedWrite(k) ==
    /\ k \in mutated
    /\ mutated' = mutated \ {k}
    /\ UNCHANGED cache
    /\ Emit(sync, view)

Next ==
    \/ \E q \in Queries : Listen(q) \/ StopListening(q)
    \/ \E q \in Queries, now \in SUBSET Docs, gone \in SUBSET Docs, current \in BOOLEAN :
         QueryEvent(q, now, gone, current)
    \/ \E k \in Docs, found \in BOOLEAN : LimboAnswered(k, found)
    \/ \E k \in Docs : LimboRejected(k)
    \/ GoOffline
    \/ \E k \in Docs : WriteMutations(k) \/ HandleSuccessfulWrite(k) \/ HandleRejectedWrite(k)

Spec == Init /\ [][Next]_vars

InSync == \A q \in Queries : view[q].open => view[q].current

\* The server, asked again and again, in the end answers that a document is
\* gone or no longer matches.
FairSpec == Spec /\ \A k \in Docs : SF_vars(LimboAnswered(k, FALSE))

-----------------------------------------------------------------------------
TypeOK ==
    /\ cache \subseteq Docs
    /\ mutated \subseteq Docs
    /\ view \in [Queries -> [open : BOOLEAN, synced : SUBSET Docs,
                             current : BOOLEAN, limbo : SUBSET Docs]]
    /\ sync.refs \subseteq Docs \X Queries
    /\ sync.queue \in Seq(Docs)
    /\ sync.active \subseteq Docs
    /\ sync.listening \cup sync.refused \subseteq Docs
    /\ Cardinality(sync.active) <= max_concurrent_limbo_resolutions

\* The engine looks up what some view has in limbo and nothing else: no
\* lookup outlives its last view, no document waits twice or while it is
\* being looked up, and the remote store listens to exactly the lookups.
LookupsWanted ==
    /\ sync.ok
    /\ sync.listening = sync.active
    /\ sync.refs = {p \in Docs \X Queries : p[1] \in view[p[2]].limbo}
    /\ \A k \in sync.active \cup ToSet(sync.queue) : HasReference(sync, k)
    /\ IsInjective(sync.queue)
    /\ sync.active \cap ToSet(sync.queue) = {}

\* A lookup that ends makes room for the next: documents wait only while all
\* lookups allowed are under way.
NoIdleRoom ==
    sync.queue # <<>> => Cardinality(sync.active) = max_concurrent_limbo_resolutions

\* Every document a view in sync holds in limbo is being looked up or waits
\* for it (sync_engine.h: documents "in limbo with an active target" and those
\* "in limbo for which we haven't yet started a limbo resolution query"),
\* unless its lookup was refused: a view out of sync does not notice, and when
\* the document comes back to the cache nobody looks it up again.
LimboTracked ==
    \A q \in Queries : view[q].current =>
        view[q].limbo \ sync.refused \subseteq sync.active \cup ToSet(sync.queue)

\* No document waits for ever while others come and go and the views stay in
\* sync.  (A view that comes back in sync may take it out and put it last.)
EveryDocumentServed ==
    \A k \in Docs : (k \in ToSet(sync.queue)) ~> (k \notin ToSet(sync.queue) \/ ~InSync)

=============================================================================
