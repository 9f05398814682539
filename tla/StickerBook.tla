----------------------------- MODULE StickerBook -----------------------------
(***************************************************************************)
(* What the screens of one device promise about redeeming: the result      *)
(* screen of a sticker opens only while the sticker is locked, a sticker   *)
(* is unlocked only from its result screen, and it is locked again only by *)
(* the reset button.                                                       *)
(***************************************************************************)
EXTENDS Naturals

CONSTANTS Stickers, ResetKeys

VARIABLES
    result,    \* the sticker of the result screen, 0 if another screen is up
    unlocked   \* the stickers the device holds as redeemed

Init ==
    /\ result = 0
    /\ unlocked = {}

OpenResult(s) ==
    /\ result = 0
    /\ s \notin unlocked
    /\ result' = s
    /\ UNCHANGED unlocked

Redeem ==
    /\ result # 0
    /\ unlocked' = unlocked \cup {result}
    /\ UNCHANGED result

CloseResult ==
    /\ result # 0
    /\ result' = 0
    /\ UNCHANGED unlocked

Reset ==
    /\ result = 0
    /\ unlocked' = unlocked \ ResetKeys
    /\ UNCHANGED result

Next == (\E s \in Stickers : OpenResult(s)) \/ Redeem \/ CloseResult \/ Reset

Spec == Init /\ [][Next]_<<result, unlocked>>

=============================================================================
