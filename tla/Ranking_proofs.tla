--------------------------- MODULE Ranking_proofs ---------------------------
(***************************************************************************)
(* Machine-checked proofs about Ranking, for every number of accounts and  *)
(* profiles and any scores.                                                *)
(***************************************************************************)
EXTENDS Ranking, FiniteSetTheorems, TLAPS

-----------------------------------------------------------------------------
(* The inductive invariant. *)

\* What the query finds, which nothing on this screen changes.
FoundProfiles ==
    \E n \in 0..MaxProfiles : profiles \in [1..n -> Uids \cup {Malformed}]

\* Every row, and the copy of it that a read holds, is still at 0: the
\* division that would give another percentage is by that copy's own.
StillZero ==
    /\ \A i \in DOMAIN usuarios : usuarios[i].porcent = 0
    /\ \A r \in reads : r.user.porcent = 0

RankingInv ==
    /\ TypeOK
    /\ FoundProfiles
    /\ RowsStay
    /\ StillZero
    /\ AllRowsZero

-----------------------------------------------------------------------------
\* The rows made of the well-formed profiles: there are no more of them than
\* profiles, and a read holds the index of its own.
LEMMA RowsOfProfiles ==
    ASSUME RankingInv, fetchAllUsersFromFirestore
    PROVE  /\ usuarios' \in Seq(Row)
           /\ reads' \subseteq Read
           /\ \A r \in reads' : /\ r.index \in DOMAIN usuarios' 
                                /\ usuarios'[r.index].uid = r.user.uid
           /\ StillZero'
<1> DEFINE wellFormed == {i \in DOMAIN profiles : profiles[i] # Malformed}
           m == Cardinality(wellFormed)
<1>1. PICK n \in 0..MaxProfiles : profiles \in [1..n -> Uids \cup {Malformed}]
  BY DEF RankingInv, FoundProfiles
<1>2. n \in Nat /\ n <= MaxProfiles /\ MaxProfiles \in Nat
  BY RankingAssumption
<1>3. wellFormed \in SUBSET (1..n)
  BY <1>1
<1>4. IsFiniteSet(1..n) /\ Cardinality(1..n) <= n
  BY <1>2, FS_Interval
<1>5. IsFiniteSet(wellFormed) /\ m <= Cardinality(1..n)
  BY <1>3, <1>4, FS_Subset
<1>6. m \in Nat /\ m <= MaxProfiles
  <2>1. m \in Nat
    BY <1>5, FS_CardinalityType
  <2>2. Cardinality(1..n) \in Nat
    BY <1>4, FS_CardinalityType
  <2> QED BY <1>2, <1>4, <1>5, <2>1, <2>2
<1>7. \A i \in wellFormed : profiles[i] \in Uids
  BY <1>1
<1>8. PICK order \in [1..m -> wellFormed] :
        usuarios' = [i \in DOMAIN order |-> [uid |-> profiles[order[i]], porcent |-> 0]]
  BY DEF fetchAllUsersFromFirestore
<1>9. reads' = {[index |-> i, user |-> usuarios'[i]] : i \in DOMAIN usuarios'}
  BY DEF fetchAllUsersFromFirestore
<1> HIDE DEF wellFormed, m
<1>10. /\ DOMAIN usuarios' = 1..m
       /\ \A i \in 1..m : usuarios'[i] \in Row /\ usuarios'[i].porcent = 0
  <2>1. DOMAIN order = 1..m /\ \A i \in 1..m : profiles[order[i]] \in Uids
    BY <1>7, <1>8
  <2> QED BY <1>8, <2>1 DEF Row
<1>11. usuarios' \in Seq(Row)
  <2>1. usuarios' \in [1..m -> Row]
    BY <1>8, <1>10
  <2> QED BY <1>6, <2>1
<1>12. \A i \in 1..m : i \in 1..MaxProfiles
  BY <1>6, RankingAssumption
<1>13. reads' \subseteq Read
  BY <1>9, <1>10, <1>12 DEF Read
<1>14. \A r \in reads' : /\ r.index \in DOMAIN usuarios'
                         /\ r.user = usuarios'[r.index]
  BY <1>9
<1>15. StillZero'
  BY <1>10, <1>14 DEF StillZero
<1> QED BY <1>11, <1>13, <1>14, <1>15

\* A callback of a read that found scores: Double / 0 is not finite, so it
\* writes 0 into the row of its own account and nothing traps.
LEMMA ScoreReadStep ==
    ASSUME RankingInv, NEW r \in reads, ScoreRead(r)
    PROVE  RankingInv'
<1>1. /\ reads' = reads \ {r} /\ profiles' = profiles /\ query' = query
      /\ r.user.porcent = 0 /\ r.index \in DOMAIN usuarios /\ trapped = FALSE
  BY DEF ScoreRead, RankingInv, StillZero, RowsStay, TypeOK
<1>2. CASE scores[r.user.uid] \in Points
  <2>1. LET result == Converted(Percentage(scores[r.user.uid], r.user.porcent))
        IN  result.value = 0 /\ result.trap = FALSE
    BY <1>1 DEF Converted, Percentage, NotFinite
  <2>2. /\ trapped' = FALSE
        /\ usuarios' = [usuarios EXCEPT ![r.index].porcent = 0]
        /\ shown' = usuarios'
    BY <1>1, <1>2, <2>1 DEF ScoreRead
  <2>3. usuarios \in Seq(Row) /\ \A i \in DOMAIN usuarios : usuarios[i] \in Row
    BY DEF RankingInv, TypeOK
  <2>4. /\ usuarios' \in Seq(Row) /\ DOMAIN usuarios' = DOMAIN usuarios
        /\ \A i \in DOMAIN usuarios : /\ usuarios'[i].uid = usuarios[i].uid
                                      /\ usuarios'[i].porcent = 0
    <3>1. DOMAIN usuarios = 1..Len(usuarios) /\ Len(usuarios) \in Nat
      BY <2>3
    <3>2. \A i \in DOMAIN usuarios :
            usuarios'[i] = IF i = r.index THEN [usuarios[i] EXCEPT !.porcent = 0] ELSE usuarios[i]
      BY <1>1, <2>2, <2>3
    <3>3. \A i \in DOMAIN usuarios : usuarios[i].porcent = 0
      BY DEF RankingInv, StillZero
    <3>4. \A i \in DOMAIN usuarios : /\ usuarios'[i] \in Row
                                     /\ usuarios'[i].uid = usuarios[i].uid
                                     /\ usuarios'[i].porcent = 0
      BY <2>3, <3>2, <3>3 DEF Row
    <3>5. usuarios' \in [1..Len(usuarios) -> Row]
      BY <2>2, <3>1, <3>4
    <3> QED BY <3>1, <3>4, <3>5
  <2>5. TypeOK'
    BY <1>1, <2>2, <2>4 DEF RankingInv, TypeOK
  <2>6. RowsStay'
    BY <1>1, <2>2, <2>4 DEF RankingInv, RowsStay
  <2>7. StillZero' /\ AllRowsZero'
    BY <1>1, <2>2, <2>4 DEF RankingInv, StillZero, AllRowsZero
  <2>8. FoundProfiles'
    BY <1>1 DEF RankingInv, FoundProfiles
  <2> QED BY <2>5, <2>6, <2>7, <2>8 DEF RankingInv
<1>3. CASE scores[r.user.uid] \notin Points
  <2>1. usuarios' = usuarios /\ shown' = shown /\ trapped' = trapped
    BY <1>3 DEF ScoreRead
  <2> QED BY <1>1, <2>1 DEF RankingInv, TypeOK, FoundProfiles, RowsStay, StillZero, AllRowsZero
<1> QED BY <1>2, <1>3

\* The screen when it is created.
LEMMA RankingInit == Init => RankingInv
<1> SUFFICES ASSUME Init PROVE RankingInv
  OBVIOUS
<1>1. /\ usuarios = <<>> /\ reads = {} /\ query = "none" /\ shown = <<>> /\ trapped = FALSE
  BY DEF Init
<1>2. /\ DOMAIN usuarios = {} /\ DOMAIN shown = {}
      /\ usuarios \in Seq(Row) /\ shown \in Seq(Row) /\ reads \subseteq Read
  BY <1>1
<1>3. TypeOK /\ RowsStay /\ StillZero /\ AllRowsZero
  BY <1>1, <1>2 DEF TypeOK, RowsStay, StillZero, AllRowsZero
<1>4. FoundProfiles
  BY DEF Init, FoundProfiles
<1> QED BY <1>3, <1>4 DEF RankingInv

\* Every step keeps the invariant.
LEMMA RankingStep == RankingInv /\ [Next]_vars => RankingInv'
<1> SUFFICES ASSUME RankingInv, [Next]_vars PROVE RankingInv'
  OBVIOUS
<1>1. CASE viewDidLoad \/ QueryFails
  <2>1. /\ UNCHANGED <<profiles, usuarios, reads, shown, trapped>>
        /\ query' \in {"none", "asked", "answered"}
    BY <1>1 DEF viewDidLoad, QueryFails
  <2> QED BY <2>1 DEF RankingInv, TypeOK, FoundProfiles, RowsStay, StillZero, AllRowsZero
<1>2. CASE Layout
  <2>1. /\ UNCHANGED <<profiles, usuarios, reads, query, trapped>> /\ shown' = usuarios
    BY <1>2 DEF Layout
  <2> QED BY <2>1 DEF RankingInv, TypeOK, FoundProfiles, RowsStay, StillZero, AllRowsZero
<1>3. CASE fetchAllUsersFromFirestore
  <2>1. UNCHANGED <<profiles, shown, trapped>> /\ query' = "answered"
    BY <1>3 DEF fetchAllUsersFromFirestore
  <2> QED BY <1>3, <2>1, RowsOfProfiles
            DEF RankingInv, TypeOK, FoundProfiles, RowsStay, AllRowsZero
<1>4. ASSUME NEW r \in reads, ScoreRead(r)
      PROVE  RankingInv'
  BY <1>4, ScoreReadStep
<1>5. ASSUME NEW r \in reads, ReadFails(r)
      PROVE  RankingInv'
  <2>1. /\ UNCHANGED <<profiles, usuarios, query, shown, trapped>> /\ reads' = reads \ {r}
    BY <1>5 DEF ReadFails
  <2> QED BY <2>1 DEF RankingInv, TypeOK, FoundProfiles, RowsStay, StillZero, AllRowsZero
<1>6. CASE UNCHANGED vars
  BY <1>6 DEF vars, RankingInv, TypeOK, FoundProfiles, RowsStay, StillZero, AllRowsZero
<1> QED BY <1>1, <1>2, <1>3, <1>4, <1>5, <1>6 DEF Next

\* The invariant holds in every state.
LEMMA RankingInvariant == Spec => []RankingInv
  BY RankingInit, RankingStep, PTL DEF Spec

-----------------------------------------------------------------------------
\* Rows, what is shown and the reads under way keep their kind.
THEOREM RankingTypes == Spec => []TypeOK
<1>1. RankingInv => TypeOK
  BY DEF RankingInv
<1> QED BY <1>1, RankingInvariant, PTL

\* Whatever order the reads are answered in, a callback's index is the row of
\* its own account, and neither the index nor Int(percentage) traps.
THEOREM RowsAreStable == Spec => []RowsStay
<1>1. RankingInv => RowsStay
  BY DEF RankingInv
<1> QED BY <1>1, RankingInvariant, PTL

\* No row on screen ever shows a percentage other than 0.
THEOREM ShowsOnlyZero == Spec => []AllRowsZero
<1>1. RankingInv => AllRowsZero
  BY DEF RankingInv
<1> QED BY <1>1, RankingInvariant, PTL

=============================================================================
