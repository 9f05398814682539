------------------------------- MODULE Stream -------------------------------
(***************************************************************************)
(* The state machine both Firestore streams inherit (stream.cc): operators *)
(* on one record, composed by the modules of the remote store.             *)
(*                                                                         *)
(*   state    state_ of stream.h; "Open" also stands for Healthy, which    *)
(*            differs only in how a rejected token is treated              *)
(*   tokens   credential requests not answered yet: "current" when they    *)
(*            carry the present close_count_, "stale" when they carry an   *)
(*            earlier one                                                  *)
(*   timers   which of the stream's timers are scheduled                   *)
(*   call     grpc_stream_ exists                                          *)
(*   out, in  what was written to the call and the server has not read,    *)
(*            what the server sent and the client has not read             *)
(*   end      the final status the server sent after the messages of "in"  *)
(*   ok       no HARD_ASSERT has failed                                    *)
(*                                                                         *)
(* The delays of the backoff are not modelled, only that the attempt comes *)
(* later.  Statuses are kept in three classes of errors and "ok".          *)
(***************************************************************************)
EXTENDS Sequences

States == {"Initial", "Starting", "Open", "Error", "Backoff"}
Timers == {"idle", "backoff"}

\* "aborted" stands for kErrorAborted, "permanent" for the other codes for
\* which IsPermanentError is true, "transient" for those for which it is not.
Errors == {"transient", "aborted", "permanent"}
NoEnd == "none"

IsPermanentError(status) == status \in {"aborted", "permanent"}
IsPermanentWriteError(status) == IsPermanentError(status) /\ status # "aborted"

NewStream == [state |-> "Initial", tokens |-> {}, timers |-> {}, call |-> FALSE,
              out |-> <<>>, in |-> <<>>, end |-> NoEnd, ok |-> TRUE]

StreamType(Requests, Responses) ==
    [state : States, tokens : SUBSET {"current", "stale"}, timers : SUBSET Timers,
     call : BOOLEAN, out : Seq(Requests), in : Seq(Responses),
     end : Errors \cup {NoEnd}, ok : BOOLEAN]

HardAssert(s, holds) == [s EXCEPT !.ok = @ /\ holds]

IsOpen(s) == s.state = "Open"
IsStarted(s) == s.state \in {"Starting", "Backoff"} \/ IsOpen(s)

BackoffAndTryRestarting(s) ==
    [s EXCEPT !.state = "Backoff", !.timers = @ \cup {"backoff"}]

RequestCredentials(s) == [s EXCEPT !.tokens = @ \cup {"current"}]

Start(s) ==
    IF s.state = "Error" THEN BackoffAndTryRestarting(s)
    ELSE RequestCredentials([HardAssert(s, s.state = "Initial") EXCEPT !.state = "Starting"])

\* The backoff timer: state_ goes through Initial and Start is called.
BackoffElapsed(s) ==
    LET t == HardAssert([s EXCEPT !.timers = @ \ {"backoff"}], s.state = "Backoff")
    IN  Start([t EXCEPT !.state = "Initial"])

\* ResumeStartWithCredentials for a token: the gRPC call is created.
CreateCall(s) == [HardAssert(s, s.state = "Starting") EXCEPT !.call = TRUE]

\* OnStreamStart, before the listener is told.
Opened(s) == [s EXCEPT !.state = "Open"]

InhibitBackoff(s) == [HardAssert(s, ~IsStarted(s)) EXCEPT !.state = "Initial"]

MarkIdle(s) == IF IsOpen(s) THEN [s EXCEPT !.timers = @ \cup {"idle"}] ELSE s

\* Write, for each message of a sequence.
Send(s, messages) ==
    IF messages = <<>> THEN s
    ELSE [HardAssert(s, IsOpen(s)) EXCEPT !.out = @ \o messages, !.timers = @ \ {"idle"}]

\* Mutant of Close: the close count is not incremented.
Close_SameCount(s, status) ==
    [HardAssert(s, IsStarted(s)) EXCEPT
        !.timers = {},
        !.call = FALSE, !.out = <<>>, !.in = <<>>, !.end = NoEnd,
        !.state = IF status = "ok" THEN "Initial" ELSE "Error"]

\* Close up to the notification: timers cancelled, close_count_ incremented,
\* the call destroyed with what it still carried.
Close(s, status) ==
    [HardAssert(s, IsStarted(s)) EXCEPT
        !.timers = {},
        !.tokens = IF @ = {} THEN {} ELSE {"stale"},
        !.call = FALSE, !.out = <<>>, !.in = <<>>, !.end = NoEnd,
        !.state = IF status = "ok" THEN "Initial" ELSE "Error"]

=============================================================================
