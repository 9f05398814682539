----------------------------- MODULE MCScoreSync -----------------------------
(***************************************************************************)
(* ScoreSync for TLC.  Accounts are interchangeable: no definition tells   *)
(* one from another, so states that differ by a renaming of the accounts   *)
(* are explored once.  Used by the run that checks only invariants.        *)
(***************************************************************************)
EXTENDS ScoreSync, TLC

AccountSymmetry == Permutations(Uids)

=============================================================================
