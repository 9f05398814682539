------------------------------ MODULE Ranking ------------------------------
(***************************************************************************)
(* The ranking screen (RankingViewController): one query for the profiles, *)
(* then one read of a score document per row, answered in any order.  Each *)
(* callback holds the index of its row and a copy of the row as it was     *)
(* when the reads were issued.  The repository's README lists ranking and  *)
(* scores as not implemented: what is checked is that the half that exists *)
(* cannot crash or mix up rows, and what it shows meanwhile.               *)
(***************************************************************************)
EXTENDS Integers, Sequences, FiniteSets, Functions

CONSTANTS
    Uids,          \* accounts
    MaxProfiles,   \* bound: documents of the collection "users"
    Points         \* sums of the "score1" entries a score document can have

ASSUME RankingAssumption == MaxProfiles \in Nat /\ Points \subseteq Nat

VARIABLES
    profiles,   \* the documents of "users", in the query's order
    scores,     \* the score document of each account
    usuarios,   \* rows of the screen: [uid, porcent]
    reads,      \* reads under way: [index, user]
    query,      \* the profiles query: none, asked, answered
    shown,      \* what the table has on screen
    trapped     \* a Swift runtime trap ended the process

vars == <<profiles, scores, usuarios, reads, query, shown, trapped>>

\* A profile without e-mail, nickname or uid is skipped.
Malformed == "malformed"

\* No document or one whose "scores" is no array of dictionaries; otherwise
\* the sum of its "score1" entries.
Nothing == -1
Document == {Nothing} \cup Points

Row == [uid : Uids, porcent : Nat]
Read == [index : 1..MaxProfiles, user : Row]

\* Double(total) / Double(porcent) * 100: infinite or not a number for 0.
NotFinite == -1

\* Mutant of Percentage: a percentage of 0 counts as 1.
Percentage_AtLeastOne(total, porcent) ==
    IF porcent = 0 THEN total * 100 ELSE (total * 100) \div porcent

Percentage(total, porcent) ==
    IF porcent = 0 THEN NotFinite ELSE (total * 100) \div porcent

Init ==
    /\ profiles \in UNION {[1..n -> Uids \cup {Malformed}] : n \in 0..MaxProfiles}
    /\ scores \in [Uids -> Document]
    /\ usuarios = <<>>
    /\ reads = {}
    /\ query = "none"
    /\ shown = <<>>
    /\ trapped = FALSE

viewDidLoad ==
    /\ query = "none"
    /\ query' = "asked"
    /\ UNCHANGED <<profiles, scores, usuarios, reads, shown, trapped>>

\* UIKit lays the table out whenever it likes (external).
Layout ==
    /\ shown' = usuarios
    /\ query # "none"
    /\ UNCHANGED <<profiles, scores, usuarios, reads, query, trapped>>

\* The callback of getDocuments, calculatePorcentagesFromUserScores included:
\* a row for each well-formed profile, in the query's order, and a read for
\* each row.  It does not reload the table.
fetchAllUsersFromFirestore ==
    LET wellFormed == {i \in DOMAIN profiles : profiles[i] # Malformed}
    IN  /\ query = "asked"
        /\ query' = "answered"
        /\ \E order \in [1..Cardinality(wellFormed) -> wellFormed] :
             /\ \A i, j \in DOMAIN order : i < j => order[i] < order[j]
             /\ usuarios' = [i \in DOMAIN order |-> [uid |-> profiles[order[i]], porcent |-> 0]]
        /\ reads' = {[index |-> i, user |-> usuarios'[i]] : i \in DOMAIN usuarios'}
        /\ UNCHANGED <<profiles, scores, shown, trapped>>

QueryFails ==
    /\ query = "asked"
    /\ query' = "answered"
    /\ UNCHANGED <<profiles, scores, usuarios, reads, shown, trapped>>

\* Mutant of Converted: the isFinite check is dropped.
Converted_Unchecked(p) == [value |-> p, trap |-> p = NotFinite]

\* Int(percentage) after the isFinite check.
Converted(p) == [value |-> IF p = NotFinite THEN 0 ELSE p, trap |-> FALSE]

\* Mutant of ScoreRead: a row is removed when its account has no document.
ScoreRead_Removes(r) ==
    LET document == scores[r.user.uid]
    IN  /\ r \in reads
        /\ reads' = reads \ {r}
        /\ IF document \in Points
           THEN /\ trapped' = (trapped \/ r.index > Len(usuarios))
                /\ UNCHANGED usuarios
                /\ shown' = usuarios
           ELSE /\ usuarios' = SubSeq(usuarios, 1, Len(usuarios) - 1)
                /\ UNCHANGED <<shown, trapped>>
        /\ UNCHANGED <<profiles, scores, query>>

\* The callback of one getDocument.  Indexing past the rows would trap.
ScoreRead(r) ==
    LET document == scores[r.user.uid]
        result == Converted(Percentage(document, r.user.porcent))
        inRange == r.index \in DOMAIN usuarios
    IN  /\ r \in reads
        /\ reads' = reads \ {r}
        /\ IF document \in Points
           THEN /\ trapped' = (trapped \/ ~inRange \/ result.trap)
                /\ usuarios' = IF inRange
                               THEN [usuarios EXCEPT ![r.index].porcent = result.value]
                               ELSE usuarios
                /\ shown' = usuarios'
           ELSE UNCHANGED <<usuarios, shown, trapped>>
        /\ UNCHANGED <<profiles, scores, query>>

ReadFails(r) ==
    /\ r \in reads
    /\ reads' = reads \ {r}
    /\ UNCHANGED <<profiles, scores, usuarios, query, shown, trapped>>

Next ==
    \/ viewDidLoad
    \/ Layout
    \/ fetchAllUsersFromFirestore
    \/ QueryFails
    \/ \E r \in reads : ScoreRead(r) \/ ReadFails(r)

Spec == Init /\ [][Next]_vars

-----------------------------------------------------------------------------
TypeOK ==
    /\ usuarios \in Seq(Row)
    /\ shown \in Seq(Row)
    /\ reads \subseteq Read
    /\ query \in {"none", "asked", "answered"}
    /\ trapped \in BOOLEAN

\* Whatever order the reads are answered in, the index a callback holds still
\* is the row of its account, and neither it nor Int(percentage) traps.
RowsStay ==
    /\ ~trapped
    /\ \A r \in reads : r.index \in DOMAIN usuarios /\ usuarios[r.index].uid = r.user.uid

\* The percentage divides by the copied row's own percentage, which is 0: no
\* row on screen ever shows anything else, whatever the scores are.
AllRowsZero == \A i \in DOMAIN shown : shown[i].porcent = 0

=============================================================================
