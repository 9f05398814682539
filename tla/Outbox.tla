------------------------------- MODULE Outbox -------------------------------
(***************************************************************************)
(* What the Firestore client promises of a user's writes, and what         *)
(* ScoreSync assumes of it: the writes of one user wait in one queue, the  *)
(* server applies them in order, a confirmation or a refusal is always of  *)
(* the oldest write, a connection that is lost makes the client send again *)
(* what was not confirmed, and only the signed-in user's queue moves.      *)
(***************************************************************************)
EXTENDS Naturals, Sequences

CONSTANTS Users, Writes

VARIABLES
    user,      \* whose queue is being sent
    queue,     \* the writes of every user, oldest first
    sent       \* how many of the user's writes this connection has applied

Init ==
    /\ user \in Users
    /\ queue = [u \in Users |-> <<>>]
    /\ sent = 0

Enqueue(w) ==
    /\ queue' = [queue EXCEPT ![user] = Append(@, w)]
    /\ UNCHANGED <<user, sent>>

Apply ==
    /\ sent < Len(queue[user])
    /\ sent' = sent + 1
    /\ UNCHANGED <<user, queue>>

Confirm ==
    /\ sent > 0
    /\ queue' = [queue EXCEPT ![user] = Tail(@)]
    /\ sent' = sent - 1
    /\ UNCHANGED user

Refuse ==
    /\ queue[user] # <<>>
    /\ sent = 0
    /\ queue' = [queue EXCEPT ![user] = Tail(@)]
    /\ UNCHANGED <<user, sent>>

Disconnect ==
    /\ sent' = 0
    /\ user' \in Users
    /\ UNCHANGED queue

Next ==
    (\E w \in Writes : Enqueue(w)) \/ Apply \/ Confirm \/ Refuse \/ Disconnect

Spec == Init /\ [][Next]_<<user, queue, sent>>

=============================================================================
