---------------------------- MODULE Album_proofs ----------------------------
(***************************************************************************)
(* Machine-checked proofs about Album.                                     *)
(***************************************************************************)
EXTENDS Album, SequenceTheorems, TLAPS

-----------------------------------------------------------------------------
(* The inductive invariant. *)

\* What lies under a screen: a pop from a sticker screen shows its gallery,
\* a pop from a gallery its tab bar, and nothing else is ever popped.
Under ==
    \A i \in 1..(Len(stack) - 1) :
        /\ stack[i + 1].screen = "info" => stack[i].screen = "details"
        /\ stack[i + 1].screen = "details" => stack[i].screen = "tabbar"

\* The screens about one sticker are about a sticker, and the bottom of the
\* stack is no screen that can be popped.
AboutSticker ==
    /\ \A i \in DOMAIN stack :
         stack[i].screen \in {"info", "web", "result"} => stack[i].sticker \in Stickers
    /\ stack[1].screen \notin {"info", "details"}

\* The quiz on top is the quiz of a locked sticker.
QuizLocked == On("web") => ~Unlocked(Top.sticker)

AlbumInv ==
    /\ TypeOK
    /\ Under
    /\ AboutSticker
    /\ QuizLocked
    /\ InfoFresh
    /\ UnlockedIsRedeemed


\* The part of AlbumInv about the stack alone.
StackOK ==
    /\ stack \in Seq(Frames) /\ Len(stack) \in 1..MaxStack
    /\ \A i \in DOMAIN stack : stack[i] = Login => Len(stack) = 1
    /\ Under
    /\ AboutSticker

-----------------------------------------------------------------------------
(* Facts about screens and stacks. *)

\* Every screen the actions build is a frame.
LEMMA FrameTypes ==
    /\ TabBar \in Frames /\ Login \in Frames
    /\ \A a \in Albums : Details(figurinhas(a) \cap Stickers) \in Frames
    /\ \A s \in Stickers : Info(s) \in Frames /\ Web(s) \in Frames /\ Result(s) \in Frames
  BY DEF TabBar, Login, Details, Info, Web, Result, Frames

\* The screen on top is a frame, and an element of the stack.
LEMMA TopFrame ==
    ASSUME StackOK
    PROVE  /\ Top \in Frames
           /\ Len(stack) \in DOMAIN stack
           /\ DOMAIN stack = 1..Len(stack)
  BY DEF StackOK, Top

\* Pushing a screen where it belongs keeps the order of the screens.
LEMMA Pushed ==
    ASSUME StackOK, NEW frame \in Frames, frame # Login, Top # Login,
           pushViewController(frame),
           frame.screen = "info" => On("details"),
           frame.screen = "details" => On("tabbar"),
           frame.screen \in {"info", "web", "result"} => frame.sticker \in Stickers
    PROVE  StackOK' /\ Top' = frame
<1>1. /\ stack' \in Seq(Frames)
      /\ Len(stack') = Len(stack) + 1
      /\ \A i \in 1..Len(stack) : stack'[i] = stack[i]
      /\ stack'[Len(stack) + 1] = frame
      /\ DOMAIN stack' = 1..(Len(stack) + 1)
  BY AppendProperties, LenProperties DEF StackOK, pushViewController
<1>2. Top' = frame
  BY <1>1 DEF Top
<1>3. Len(stack') \in 1..MaxStack
  BY <1>1, AlbumAssumption DEF StackOK, pushViewController
<1>4. \A i \in DOMAIN stack' : stack'[i] # Login
  <2> SUFFICES ASSUME NEW i \in DOMAIN stack', stack'[i] = Login PROVE FALSE
    OBVIOUS
  <2>1. i \in 1..Len(stack) /\ stack[i] = Login
    BY <1>1 DEF StackOK
  <2>2. Len(stack) = 1 /\ i = 1
    BY <2>1, TopFrame DEF StackOK
  <2> QED BY <2>1, <2>2 DEF Top
<1>5. Under'
  BY <1>1 DEF StackOK, Under, On, Top
<1>6. AboutSticker'
  BY <1>1, TopFrame DEF StackOK, AboutSticker
<1> QED BY <1>1, <1>2, <1>3, <1>4, <1>5, <1>6 DEF StackOK

\* A stack of one tab bar or one login screen.
LEMMA Replaced ==
    ASSUME NEW frame \in {TabBar, Login}, stack' = <<frame>>
    PROVE  StackOK' /\ Top' = frame
<1>1. frame \in Frames
  BY FrameTypes
<1>0. frame.screen \in {"tabbar", "login"}
  BY DEF TabBar, Login
<1>2. stack' \in Seq(Frames) /\ Len(stack') = 1 /\ stack'[1] = frame /\ DOMAIN stack' = {1}
  BY <1>1
<1>3. Under' /\ AboutSticker' /\ Top' = frame
  BY <1>0, <1>2 DEF Under, AboutSticker, Top
<1> QED
  BY <1>1, <1>2, <1>3, AlbumAssumption DEF StackOK

\* Going back from a sticker screen or a gallery shows the screen under it,
\* which is neither a sticker screen nor a quiz.
LEMMA Popped ==
    ASSUME StackOK, On("info") \/ On("details"), popViewController
    PROVE  StackOK' /\ Top'.screen \in {"details", "tabbar", "login"}
<1> DEFINE rest == SubSeq(stack, 1, Len(stack) - 1)
<1>1. Len(stack) > 1
  BY DEF StackOK, AboutSticker, On, Top
<1>2. /\ rest \in Seq(Frames)
      /\ Len(rest) = Len(stack) - 1
      /\ \A i \in 1..(Len(stack) - 1) : rest[i] = stack[i]
      /\ DOMAIN rest = 1..(Len(stack) - 1)
  BY <1>1 DEF StackOK
<1>3. rest[Len(rest)].screen \in {"details", "tabbar"}
  BY <1>1, <1>2 DEF StackOK, Under, On, Top
<1>4. CASE stack' = <<Login>>
  BY <1>4, Replaced DEF Login
<1>5. CASE stack' = rest
  <2>1. Top'.screen \in {"details", "tabbar"}
    BY <1>2, <1>3, <1>5 DEF Top
  <2>2. Under'
    BY <1>2, <1>5 DEF StackOK, Under
  <2>3. AboutSticker'
    BY <1>1, <1>2, <1>5 DEF StackOK, AboutSticker
  <2>4. \A i \in DOMAIN stack' : stack'[i] # Login
    BY <1>1, <1>2, <1>5 DEF StackOK
  <2>5. stack' \in Seq(Frames) /\ Len(stack') \in 1..MaxStack
    BY <1>1, <1>2, <1>5, AlbumAssumption DEF StackOK
  <2> QED BY <2>1, <2>2, <2>3, <2>4, <2>5 DEF StackOK
<1> QED BY <1>4, <1>5 DEF popViewController, Gated

-----------------------------------------------------------------------------
(* The keys. *)

\* Keys of the two forms are different, and so are keys of two stickers.
LEMMA KeysDiffer ==
    \A s, t : KeyOfInt(s) # KeyOfOptional(t) /\ (KeyOfInt(s) = KeyOfInt(t) => s = t)
  BY DEF KeyOfInt, KeyOfOptional

\* Steps that leave the keys alone and put a fresh screen on top, or one that
\* is neither a sticker screen nor a quiz, keep the invariant.
LEMMA KeysKept ==
    ASSUME AlbumInv, StackOK', UNCHANGED <<defaults, redeemed>>,
           loggedIn' \in BOOLEAN, barHidden' \in BOOLEAN,
           On("web")' => ~Unlocked(Top'.sticker),
           On("info")' => (Top'.shows = {} <=> ~Unlocked(Top'.sticker))
    PROVE  AlbumInv'
  BY DEF AlbumInv, TypeOK, StackOK, QuizLocked, InfoFresh, UnlockedIsRedeemed, Unlocked, On

\* Every step keeps the invariant.
LEMMA AlbumStep == AlbumInv /\ [Next]_vars => AlbumInv'
<1> SUFFICES ASSUME AlbumInv, [Next]_vars PROVE AlbumInv'
  OBVIOUS
<1>0. StackOK /\ loggedIn \in BOOLEAN /\ barHidden \in BOOLEAN
  BY DEF AlbumInv, TypeOK, StackOK
<1>1. CASE LogIn
  <2>1. StackOK' /\ Top' = TabBar
    BY <1>1, Replaced DEF LogIn
  <2> QED BY <1>0, <1>1, <2>1, KeysKept DEF LogIn, On, TabBar
<1>2. CASE LogInInsideHome
  BY <1>0, <1>2 DEF LogInInsideHome, AlbumInv, TypeOK, Under, AboutSticker, QuizLocked,
                    InfoFresh, UnlockedIsRedeemed, Unlocked, On, Top
<1>3. CASE ForgetUid
  BY <1>0, <1>3 DEF ForgetUid, AlbumInv, TypeOK, Under, AboutSticker, QuizLocked,
                    InfoFresh, UnlockedIsRedeemed, Unlocked, On, Top
<1>4. ASSUME NEW a \in Albums, OpenAlbum(a) PROVE AlbumInv'
  <2> DEFINE frame == Details(figurinhas(a) \cap Stickers)
  <2>1. frame \in Frames /\ frame # Login /\ frame.screen = "details" /\ Top # Login
    BY <1>4, FrameTypes DEF Details, Login, OpenAlbum, On
  <2>2. StackOK' /\ Top' = frame
    BY <1>0, <1>4, <2>1, Pushed DEF OpenAlbum
  <2> QED BY <1>0, <1>4, <2>1, <2>2, KeysKept DEF OpenAlbum, On
<1>5. ASSUME NEW s \in Stickers, OpenInfo(s) PROVE AlbumInv'
  <2>1. /\ Info(s) \in Frames /\ Info(s) # Login /\ Top # Login
        /\ Info(s).screen = "info" /\ Info(s).sticker = s
        /\ Info(s).shows = {} <=> ~Unlocked(s)
    BY <1>5, FrameTypes DEF Info, Login, OpenInfo, On
  <2>2. StackOK' /\ Top' = Info(s)
    BY <1>0, <1>5, <2>1, Pushed DEF OpenInfo
  <2> QED BY <1>0, <1>5, <2>1, <2>2, KeysKept DEF OpenInfo, On
<1>6. CASE Back
  <2>1. StackOK' /\ Top'.screen \in {"details", "tabbar", "login"}
    BY <1>0, <1>6, Popped DEF Back
  <2> QED BY <1>0, <1>6, <2>1, KeysKept DEF Back, On
<1>7. CASE startQuizButtonTapped
  <2> DEFINE s == Top.sticker
  <2>1. s \in Stickers /\ ~Unlocked(s)
    BY <1>0, <1>7, TopFrame
    DEF startQuizButtonTapped, StackOK, AboutSticker, On, Top, AlbumInv, InfoFresh
  <2>2. /\ Web(s) \in Frames /\ Web(s) # Login /\ Top # Login
        /\ Web(s).screen = "web" /\ Web(s).sticker = s
    BY <1>7, <2>1, FrameTypes DEF Web, Login, startQuizButtonTapped, On
  <2>3. StackOK' /\ Top' = Web(s)
    BY <1>0, <1>7, <2>1, <2>2, Pushed DEF startQuizButtonTapped
  <2> QED BY <1>0, <1>7, <2>1, <2>2, <2>3, KeysKept DEF startQuizButtonTapped, On
<1>8. CASE voltarButtonPressionado
  <2> DEFINE s == Top.sticker
  <2>1. s \in Stickers
    BY <1>0, <1>8, TopFrame DEF voltarButtonPressionado, StackOK, AboutSticker, On, Top
  <2>2. /\ Result(s) \in Frames /\ Result(s) # Login /\ Top # Login
        /\ Result(s).screen = "result" /\ Result(s).sticker = s
    BY <1>8, <2>1, FrameTypes DEF Result, Login, voltarButtonPressionado, On
  <2>3. StackOK' /\ Top' = Result(s)
    BY <1>0, <1>8, <2>1, <2>2, Pushed DEF voltarButtonPressionado
  <2>4. \A t \in Stickers : Unlocked(t)' <=> Unlocked(t)
    BY <1>8, KeysDiffer DEF voltarButtonPressionado, Unlocked
  <2>5. defaults' \subseteq Keys
    BY <1>8, <2>1 DEF voltarButtonPressionado, AlbumInv, TypeOK, Keys
  <2>6. TypeOK' /\ Under' /\ AboutSticker'
    BY <1>8, <2>3, <2>5 DEF voltarButtonPressionado, AlbumInv, TypeOK, StackOK
  <2>7. QuizLocked' /\ InfoFresh'
    BY <2>2, <2>3 DEF QuizLocked, InfoFresh, On
  <2>8. UnlockedIsRedeemed'
    BY <1>8, <2>4 DEF voltarButtonPressionado, AlbumInv, UnlockedIsRedeemed
  <2> QED BY <2>6, <2>7, <2>8 DEF AlbumInv
<1>9. CASE redeemButtonTapped
  <2> DEFINE s == Top.sticker
  <2>1. s \in Stickers
    BY <1>0, <1>9, TopFrame DEF redeemButtonTapped, StackOK, AboutSticker, On, Top
  <2>2. defaults' \subseteq Keys /\ redeemed' \subseteq Stickers
    BY <1>9, <2>1 DEF redeemButtonTapped, AlbumInv, TypeOK, Keys
  <2>3. TypeOK' /\ Under' /\ AboutSticker'
    BY <1>9, <2>2 DEF redeemButtonTapped, AlbumInv, TypeOK, Under, AboutSticker
  <2>4. QuizLocked' /\ InfoFresh'
    BY <1>9 DEF redeemButtonTapped, QuizLocked, InfoFresh, On, Top
  <2>5. UnlockedIsRedeemed'
    BY <1>9, <2>1, KeysDiffer
    DEF redeemButtonTapped, AlbumInv, UnlockedIsRedeemed, Unlocked
  <2> QED BY <2>3, <2>4, <2>5 DEF AlbumInv
<1>10. CASE galeryButtonTapped
  <2>1. StackOK' /\ Top'.screen \in {"tabbar", "login"}
    <3>1. CASE stack' = <<Login>>
      BY <3>1, Replaced DEF Login
    <3>2. CASE stack' = Append(stack, TabBar)
      <4>1. pushViewController(TabBar) /\ TabBar # Login /\ Top # Login
        BY <1>10, <3>2 DEF galeryButtonTapped, pushViewController, On, TabBar, Login
      <4>2. TabBar \in Frames /\ TabBar.screen = "tabbar"
        BY FrameTypes DEF TabBar
      <4> QED BY <1>0, <4>1, <4>2, Pushed
    <3> QED BY <1>10, <3>1, <3>2 DEF galeryButtonTapped, Gated
  <2> QED BY <1>0, <1>10, <2>1, KeysKept DEF galeryButtonTapped, On
<1>11. CASE buttonSearchTapped
  <2>1. defaults' \subseteq Keys /\ redeemed' \subseteq Stickers
    BY <1>11 DEF buttonSearchTapped, AlbumInv, TypeOK
  <2>2. TypeOK' /\ Under' /\ AboutSticker'
    BY <1>11, <2>1 DEF buttonSearchTapped, AlbumInv, TypeOK, Under, AboutSticker
  <2>3. QuizLocked' /\ InfoFresh'
    BY <1>11 DEF buttonSearchTapped, QuizLocked, InfoFresh, On, Top
  <2>4. UnlockedIsRedeemed'
    BY <1>11, KeysDiffer DEF buttonSearchTapped, AlbumInv, UnlockedIsRedeemed, Unlocked
  <2> QED BY <2>2, <2>3, <2>4 DEF AlbumInv
<1>12. CASE Kill
  <2>1. StackOK' /\ Top'.screen \in {"tabbar", "login"}
    BY <1>12, Replaced DEF Kill, Gated, TabBar, Login
  <2> QED BY <1>0, <1>12, <2>1, KeysKept DEF Kill, On
<1>13. CASE UNCHANGED vars
  BY <1>13 DEF vars, AlbumInv, TypeOK, Under, AboutSticker, QuizLocked, InfoFresh,
               UnlockedIsRedeemed, Unlocked, On, Top
<1> QED
  BY <1>1, <1>2, <1>3, <1>4, <1>5, <1>6, <1>7, <1>8, <1>9, <1>10, <1>11, <1>12, <1>13
  DEF Next

\* The invariant holds of a launch.
LEMMA AlbumInit == Init => AlbumInv
<1> SUFFICES ASSUME Init PROVE AlbumInv
  OBVIOUS
<1>1. PICK frame \in {TabBar, Login} : stack = <<frame>>
  BY DEF Init, Gated
<1>2. frame \in Frames
  BY FrameTypes
<1>3. frame.screen \in {"tabbar", "login"}
  BY DEF TabBar, Login
<1>4. stack \in Seq(Frames) /\ Len(stack) = 1 /\ stack[1] = frame /\ DOMAIN stack = {1}
  BY <1>1, <1>2
<1>5. TypeOK
  <2>1. Len(stack) \in 1..MaxStack
    BY <1>4, AlbumAssumption
  <2>2. \A i \in DOMAIN stack : stack[i] = Login => Len(stack) = 1
    BY <1>4
  <2>3. loggedIn \in BOOLEAN /\ barHidden \in BOOLEAN
    BY DEF Init
  <2> QED BY <1>4, <2>1, <2>2, <2>3 DEF TypeOK, Init
<1>6. Under /\ AboutSticker /\ QuizLocked /\ InfoFresh
  BY <1>3, <1>4 DEF Under, AboutSticker, QuizLocked, InfoFresh, On, Top
<1>7. UnlockedIsRedeemed
  BY DEF Init, UnlockedIsRedeemed, Unlocked
<1> QED BY <1>5, <1>6, <1>7 DEF AlbumInv

\* The invariant holds in every state.
LEMMA AlbumInvariant == Spec => []AlbumInv
  BY AlbumInit, AlbumStep, PTL DEF Spec

-----------------------------------------------------------------------------
(* The theorems. *)

\* Every variable keeps its type, there is always a screen, and login is
\* alone on the stack.
THEOREM AlbumTypes == Spec => []TypeOK
<1>1. AlbumInv => TypeOK
  BY DEF AlbumInv
<1> QED BY <1>1, AlbumInvariant, PTL

\* Leaving the quiz unlocks nothing; redeeming and the reset are what counts.
THEOREM UnlockedOnlyRedeemed == Spec => []UnlockedIsRedeemed
<1>1. AlbumInv => UnlockedIsRedeemed
  BY DEF AlbumInv
<1> QED BY <1>1, AlbumInvariant, PTL

\* The sticker screen on top shows what the keys say, although screens read
\* them only once: whoever changes a key leaves the sticker screens buried.
THEOREM InfoIsFresh == Spec => []InfoFresh
<1>1. AlbumInv => InfoFresh
  BY DEF AlbumInv
<1> QED BY <1>1, AlbumInvariant, PTL

-----------------------------------------------------------------------------
(* The refinement of StickerBook. *)

\* The sticker of the result screen, as the refinement maps it.
shownResult == IF On("result") THEN Top.sticker ELSE 0
heldUnlocked == {s \in Stickers : Unlocked(s)}

\* A step that changes no key and neither opens nor leaves a result screen
\* is a stutter; one that leaves it is CloseResult.
LEMMA BookLeaves ==
    ASSUME AlbumInv, UNCHANGED defaults, ~On("result")'
    PROVE  [Book!Next]_<<shownResult, heldUnlocked>>
<1>1. heldUnlocked' = heldUnlocked
  BY DEF heldUnlocked, Unlocked
<1>2. shownResult' = 0
  BY DEF shownResult
<1>3. CASE shownResult = 0
  BY <1>1, <1>2, <1>3
<1>4. CASE shownResult # 0
  <2>1. Book!CloseResult
    BY <1>1, <1>2, <1>4 DEF Book!CloseResult, shownResult, heldUnlocked
  <2> QED BY <2>1 DEF Book!Next
<1> QED BY <1>3, <1>4

\* Every step of Album is a step of StickerBook or a stutter.
LEMMA BookStep ==
    ASSUME AlbumInv, AlbumInv', [Next]_vars
    PROVE  [Book!Next]_<<shownResult, heldUnlocked>>
<1>0. /\ StackOK /\ DOMAIN stack = 1..Len(stack) /\ Len(stack) \in DOMAIN stack
      /\ 0 \notin Stickers
  <2>1. StackOK
    BY DEF AlbumInv, TypeOK, StackOK
  <2> QED BY <2>1, TopFrame, AlbumAssumption DEF StickerIds
<1>1. CASE LogIn
  <2>1. Top' = TabBar
    BY <1>1, Replaced DEF LogIn
  <2> QED BY <1>1, <2>1, BookLeaves DEF LogIn, On, TabBar
<1>2. CASE LogInInsideHome \/ ForgetUid \/ UNCHANGED vars
  BY <1>2 DEF LogInInsideHome, ForgetUid, vars, shownResult, heldUnlocked, On, Top, Unlocked
<1>3. ASSUME NEW a \in Albums, OpenAlbum(a) PROVE [Book!Next]_<<shownResult, heldUnlocked>>
  <2>1. Top' = Details(figurinhas(a) \cap Stickers)
    BY <1>0, <1>3 DEF OpenAlbum, pushViewController, Top, StackOK
  <2> QED BY <1>3, <2>1, BookLeaves DEF OpenAlbum, On, Details
<1>4. ASSUME NEW s \in Stickers, OpenInfo(s) PROVE [Book!Next]_<<shownResult, heldUnlocked>>
  <2>1. Top' = Info(s)
    BY <1>0, <1>4 DEF OpenInfo, pushViewController, Top, StackOK
  <2> QED BY <1>4, <2>1, BookLeaves DEF OpenInfo, On, Info
<1>5. CASE Back
  <2>1. Top'.screen \in {"details", "tabbar", "login"}
    BY <1>0, <1>5, Popped DEF Back
  <2> QED BY <1>5, <2>1, BookLeaves DEF Back, On
<1>6. CASE startQuizButtonTapped
  <2>1. Top' = Web(Top.sticker)
    BY <1>0, <1>6 DEF startQuizButtonTapped, pushViewController, Top, StackOK
  <2> QED BY <1>6, <2>1, BookLeaves DEF startQuizButtonTapped, On, Web
<1>7. CASE voltarButtonPressionado
  <2> DEFINE s == Top.sticker
  <2>1. s \in Stickers /\ ~Unlocked(s)
    BY <1>0, <1>7 DEF voltarButtonPressionado, StackOK, AboutSticker, On, Top, AlbumInv, QuizLocked
  <2>2. Top' = Result(s)
    BY <1>0, <1>7 DEF voltarButtonPressionado, pushViewController, Top, StackOK
  <2>3. shownResult = 0 /\ shownResult' = s
    BY <1>7, <2>2 DEF shownResult, voltarButtonPressionado, On, Result
  <2>4. heldUnlocked' = heldUnlocked /\ s \notin heldUnlocked
    BY <1>7, <2>1, KeysDiffer DEF voltarButtonPressionado, heldUnlocked, Unlocked
  <2>5. Book!OpenResult(s)
    BY <2>3, <2>4 DEF Book!OpenResult, shownResult, heldUnlocked
  <2> QED BY <2>1, <2>5 DEF Book!Next
<1>8. CASE redeemButtonTapped
  <2> DEFINE s == Top.sticker
  <2>1. s \in Stickers
    BY <1>0, <1>8 DEF redeemButtonTapped, StackOK, AboutSticker, On, Top
  <2>2. shownResult = s /\ shownResult' = s /\ s # 0
    BY <1>0, <1>8, <2>1 DEF redeemButtonTapped, shownResult, On, Top
  <2>3. heldUnlocked' = heldUnlocked \cup {s}
    BY <1>8, <2>1, KeysDiffer DEF redeemButtonTapped, heldUnlocked, Unlocked
  <2>4. Book!Redeem
    BY <2>2, <2>3 DEF Book!Redeem, shownResult, heldUnlocked
  <2> QED BY <2>4 DEF Book!Next
<1>9. CASE galeryButtonTapped
  <2>1. Top' = TabBar \/ Top' = Login
    BY <1>0, <1>9 DEF galeryButtonTapped, Gated, Top, StackOK
  <2> QED BY <1>9, <2>1, BookLeaves DEF galeryButtonTapped, On, TabBar, Login
<1>10. CASE buttonSearchTapped
  <2>1. shownResult = 0 /\ shownResult' = 0
    BY <1>10 DEF buttonSearchTapped, shownResult, On, Top
  <2>2. heldUnlocked' = heldUnlocked \ keysToDelete
    BY <1>10, KeysDiffer DEF buttonSearchTapped, heldUnlocked, Unlocked
  <2>3. Book!Reset
    BY <2>1, <2>2 DEF Book!Reset, shownResult, heldUnlocked
  <2> QED BY <2>3 DEF Book!Next
<1>11. CASE Kill
  <2>1. Top' = TabBar \/ Top' = Login
    BY <1>11, Replaced DEF Kill, Gated
  <2> QED BY <1>11, <2>1, BookLeaves DEF Kill, On, TabBar, Login
<1> QED
  BY <1>1, <1>2, <1>3, <1>4, <1>5, <1>6, <1>7, <1>8, <1>9, <1>10, <1>11 DEF Next

\* The screens keep the promises of StickerBook.
THEOREM StickerBookImplemented == Spec => ImplementsStickerBook
<1>1. Init => Book!Init
  <2> SUFFICES ASSUME Init PROVE Book!Init
    OBVIOUS
  <2>1. ~On("result")
    BY DEF Init, Gated, On, Top, TabBar, Login
  <2> QED BY <2>1 DEF Init, Book!Init, Unlocked
<1>2. AlbumInv /\ AlbumInv' /\ [Next]_vars => [Book!Next]_<<shownResult, heldUnlocked>>
  BY BookStep
<1> QED
  BY <1>1, <1>2, AlbumInvariant, PTL
  DEF Spec, ImplementsStickerBook, Book!Spec, shownResult, heldUnlocked

=============================================================================
