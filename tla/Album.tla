-------------------------------- MODULE Album --------------------------------
(***************************************************************************)
(* The screens around a sticker on one device: the stack of the window's   *)
(* navigation controller, on which album, sticker, quiz and result screens *)
(* are pushed, and the keys of UserDefaults that say what was redeemed.    *)
(*                                                                         *)
(* Each screen reads the keys once, when it is built: a gallery cell and   *)
(* the sticker screen keep showing what they found then.                   *)
(***************************************************************************)
EXTENDS Naturals, Sequences, Catalog

CONSTANTS
    Stickers,    \* the stickers considered, of the catalogue's 28
    MaxStack     \* bound: screens on the stack

ASSUME AlbumAssumption ==
    /\ Stickers \subseteq StickerIds
    /\ MaxStack \in Nat \ {0}

VARIABLES
    stack,      \* the view controllers of the window's navigation controller
    defaults,   \* the keys "stickerResgatado..." that are set
    loggedIn,   \* UserDefaults holds a "userUID"
    barHidden,  \* the navigation bar, with every bar button, is hidden
    redeemed    \* history: stickers redeemed and not reset since

vars == <<stack, defaults, loggedIn, barHidden, redeemed>>

(***************************************************************************)
(* The key is "stickerResgatado" followed by String(describing:) of the    *)
(* id.  Of an Int that is "5", of an Int? it is "Optional(5)".             *)
(***************************************************************************)
KeyOfInt(s) == [describes |-> "Int", id |-> s]
KeyOfOptional(s) == [describes |-> "Optional", id |-> s]
Keys == {KeyOfInt(s) : s \in Stickers} \cup {KeyOfOptional(s) : s \in Stickers}

\* integer(forKey: "stickerResgatado<id>") == id.
Unlocked(s) == KeyOfInt(s) \in defaults

\* Screens.  "shows" is what the screen displays as unlocked.
TabBar == [screen |-> "tabbar", sticker |-> 0, holds |-> {}, shows |-> {}]
Login == [screen |-> "login", sticker |-> 0, holds |-> {}, shows |-> {}]
Details(stickers) ==
    [screen |-> "details", sticker |-> 0, holds |-> stickers,
     shows |-> {s \in stickers : Unlocked(s)}]
Info(s) == [screen |-> "info", sticker |-> s, holds |-> {},
            shows |-> {x \in {s} : Unlocked(x)}]
Web(s) == [screen |-> "web", sticker |-> s, holds |-> {}, shows |-> {}]
Result(s) == [screen |-> "result", sticker |-> s, holds |-> {}, shows |-> {}]

Top == stack[Len(stack)]

On(screen) == Top.screen = screen

pushViewController(frame) ==
    /\ Len(stack) < MaxStack
    /\ stack' = Append(stack, frame)

\* Mutant of Gated: login is pushed on the tab bar instead of replacing it.
Gated_Pushes(frames) ==
    IF frames[Len(frames)] = TabBar /\ ~loggedIn THEN Append(frames, Login) ELSE frames

\* A tab bar that comes up without a stored uid gives way to login.
Gated(frames) ==
    IF frames[Len(frames)] = TabBar /\ ~loggedIn THEN <<Login>> ELSE frames

popViewController == stack' = Gated(SubSeq(stack, 1, Len(stack) - 1))

-----------------------------------------------------------------------------
Init ==
    /\ loggedIn \in BOOLEAN
    /\ stack = Gated(<<TabBar>>)
    /\ defaults = {}
    /\ barHidden = FALSE
    /\ redeemed = {}

\* Login or registration succeeds: a tab bar replaces everything.  The
\* screen then hides the bar of its navigation controller, if it still has
\* one: UIKit may have detached it already.
LogIn ==
    /\ On("login")
    /\ loggedIn' = TRUE
    /\ stack' = <<TabBar>>
    /\ barHidden' \in {barHidden, TRUE}
    /\ UNCHANGED <<defaults, redeemed>>

\* The same from the login screen inside the Home tab, where a deletion put
\* it: the window's stack and bar stay as they are.
LogInInsideHome ==
    /\ On("tabbar") /\ ~loggedIn
    /\ loggedIn' = TRUE
    /\ UNCHANGED <<stack, defaults, barHidden, redeemed>>

\* The account is being deleted (the answer may come on any screen).
ForgetUid ==
    /\ loggedIn
    /\ loggedIn' = FALSE
    /\ UNCHANGED <<stack, defaults, barHidden, redeemed>>

\* handleCellTap of an album in the Collection tab.
OpenAlbum(a) ==
    /\ On("tabbar")
    /\ pushViewController(Details(figurinhas(a) \cap Stickers))
    /\ UNCHANGED <<defaults, loggedIn, barHidden, redeemed>>

\* didSelectItemAt of a gallery cell.
OpenInfo(s) ==
    /\ On("details") /\ s \in Top.holds
    /\ pushViewController(Info(s))
    /\ UNCHANGED <<defaults, loggedIn, barHidden, redeemed>>

\* backButtonTapped of the sticker and of the album screen.
Back ==
    /\ On("info") \/ On("details")
    /\ ~barHidden
    /\ popViewController
    /\ UNCHANGED <<defaults, loggedIn, barHidden, redeemed>>

\* Mutant of startQuizButtonTapped: the button is not hidden.
startQuizButtonTapped_Always ==
    /\ On("info")
    /\ pushViewController(Web(Top.sticker))
    /\ UNCHANGED <<defaults, loggedIn, barHidden, redeemed>>

\* The button is hidden when the screen found the sticker unlocked.
startQuizButtonTapped ==
    /\ On("info") /\ Top.shows = {}
    /\ pushViewController(Web(Top.sticker))
    /\ UNCHANGED <<defaults, loggedIn, barHidden, redeemed>>

\* Mutant of voltarButtonPressionado: the id is unwrapped before it is described.
voltarButtonPressionado_Unwraps ==
    /\ On("web") /\ ~barHidden
    /\ defaults' = defaults \cup {KeyOfInt(Top.sticker)}
    /\ pushViewController(Result(Top.sticker))
    /\ UNCHANGED <<loggedIn, barHidden, redeemed>>

\* The id is an Int? here.
voltarButtonPressionado ==
    /\ On("web") /\ ~barHidden
    /\ defaults' = defaults \cup {KeyOfOptional(Top.sticker)}
    /\ pushViewController(Result(Top.sticker))
    /\ UNCHANGED <<loggedIn, barHidden, redeemed>>

\* Saving the score is the business of module ScoreSync.
redeemButtonTapped ==
    /\ On("result")
    /\ defaults' = defaults \cup {KeyOfInt(Top.sticker)}
    /\ redeemed' = redeemed \cup {Top.sticker}
    /\ UNCHANGED <<stack, loggedIn, barHidden>>

\* Mutant of galeryButtonTapped: it pops back to the sticker's screen.
galeryButtonTapped_PopsToInfo ==
    /\ On("result")
    /\ stack' = SubSeq(stack, 1, Len(stack) - 2)
    /\ UNCHANGED <<defaults, loggedIn, barHidden, redeemed>>

galeryButtonTapped ==
    /\ On("result")
    /\ Len(stack) < MaxStack
    /\ stack' = Gated(Append(stack, TabBar))
    /\ UNCHANGED <<defaults, loggedIn, barHidden, redeemed>>

\* The reset; the gallery on screen is not reloaded.
buttonSearchTapped ==
    /\ On("details") /\ ~barHidden
    /\ defaults' = defaults \ {KeyOfInt(s) : s \in keysToDelete}
    /\ redeemed' = redeemed \ keysToDelete
    /\ UNCHANGED <<stack, loggedIn, barHidden>>

Kill ==
    /\ stack' = Gated(<<TabBar>>)
    /\ barHidden' = FALSE
    /\ UNCHANGED <<defaults, loggedIn, redeemed>>

Next ==
    \/ LogIn
    \/ LogInInsideHome
    \/ ForgetUid
    \/ \E a \in Albums : OpenAlbum(a)
    \/ \E s \in Stickers : OpenInfo(s)
    \/ Back
    \/ startQuizButtonTapped
    \/ voltarButtonPressionado
    \/ redeemButtonTapped
    \/ galeryButtonTapped
    \/ buttonSearchTapped
    \/ Kill

Spec == Init /\ [][Next]_vars

-----------------------------------------------------------------------------
(* Properties. *)

Frames ==
    [screen : {"tabbar", "login", "details", "info", "web", "result"},
     sticker : Stickers \cup {0}, holds : SUBSET Stickers, shows : SUBSET Stickers]

\* Every variable holds a value of its kind; there is always a screen, and a
\* login screen is alone on the stack.
TypeOK ==
    /\ stack \in Seq(Frames) /\ Len(stack) \in 1..MaxStack
    /\ \A i \in DOMAIN stack : stack[i] = Login => Len(stack) = 1
    /\ defaults \subseteq Keys
    /\ loggedIn \in BOOLEAN
    /\ barHidden \in BOOLEAN
    /\ redeemed \subseteq Stickers

\* Playing the quiz is not enough: a sticker is held as unlocked exactly
\* when the redeem button was tapped for it and no reset covered it since,
\* although leaving the quiz writes a "stickerResgatado" key as well.
UnlockedIsRedeemed == \A s \in Stickers : Unlocked(s) <=> s \in redeemed

\* The sticker screen never offers the quiz of a sticker that is unlocked,
\* nor hides that of a locked one: whatever was redeemed or reset after it
\* was built, it does not come back on top unchanged.
InfoFresh == On("info") => (Top.shows = {} <=> ~Unlocked(Top.sticker))

Book == INSTANCE StickerBook WITH
    ResetKeys <- keysToDelete,
    result <- IF On("result") THEN Top.sticker ELSE 0,
    unlocked <- {s \in Stickers : Unlocked(s)}

\* The screens keep the promises of StickerBook, on which the model of the
\* saving relies: results open only for locked stickers, and so on.
ImplementsStickerBook == Book!Spec

-----------------------------------------------------------------------------
(* Claimed by the code and not true of it. *)

\* After the reset, which announces "Dados do UserDefaults excluidos!", no
\* sticker of the album is unlocked.
ResetLocksAll == [][buttonSearchTapped => \A s \in Stickers : ~Unlocked(s)']_vars

=============================================================================
