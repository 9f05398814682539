------------------------------- MODULE Ledger -------------------------------
(***************************************************************************)
(* What a user may expect of the score saving, without devices, calls or   *)
(* outboxes: every account has a ledger of saved stickers; a sticker is    *)
(* earned by redeeming it, an earned sticker may be entered in the ledger, *)
(* and an entry is never taken out again.                                  *)
(***************************************************************************)
CONSTANTS Uids, Stickers

VARIABLES earned, ledger

Init ==
    /\ earned = [u \in Uids |-> {}]
    /\ ledger = [u \in Uids |-> {}]

Earn(u, s) ==
    /\ earned' = [earned EXCEPT ![u] = @ \cup {s}]
    /\ UNCHANGED ledger

Enter(u, s) ==
    /\ s \in earned[u]
    /\ ledger' = [ledger EXCEPT ![u] = @ \cup {s}]
    /\ UNCHANGED earned

Next == \E u \in Uids, s \in Stickers : Earn(u, s) \/ Enter(u, s)

Spec == Init /\ [][Next]_<<earned, ledger>>

=============================================================================
