----------------------------- MODULE DinoInfoCard -----------------------------
(***************************************************************************)
(* The card about a dinosaur (UDinoInfoCardWidget), which covers the       *)
(* camera: one widget with two trees, that of the editor ("default") and   *)
(* one built in code ("ocean"), between which a dinosaur's data chooses.   *)
(* The same members point into the tree in use, so a change of skin moves  *)
(* them all.  An ocean card hides the scan screen under it, and comes back *)
(* when the chat it sent the visitor to is closed.                         *)
(*                                                                         *)
(* The widget is the record card, for its operations call each other: each *)
(* is an operator from one record to the next.  Of the texts and pictures  *)
(* the model keeps whose they are.  The event graph of the level, which    *)
(* opens and closes card and chat, is not in the repository; it is taken   *)
(* to do what the comment in HandleAskDocentClicked says of it.            *)
(***************************************************************************)
EXTENDS Integers

CONSTANTS
    Dinos,       \* the data assets
    OceanDinos,  \* those whose CardSkin is Ocean
    Exhibited,   \* those with an ExhibitKey
    TabsOf,      \* ResolvedTabs.Num() of each
    NoDino,      \* no data asset
    MaxPull      \* bound on how far a finger moves, in steps of SwipeStartSlop

ASSUME CardAssumption ==
    /\ OceanDinos \subseteq Dinos /\ Exhibited \subseteq Dinos /\ NoDino \notin Dinos
    /\ TabsOf \in [Dinos -> Nat] /\ MaxPull \in Nat

VARIABLES
    card,      \* the widget
    chat,      \* bIsOpen of the chat
    asked,     \* history: the dinosaur and tab an ocean card asked about last
    returned   \* history: the card asked from, while it is as the chat's end left it

cardVars == <<card, chat, asked, returned>>

Skins == {"default", "ocean"}
SkinOf(d) == IF d \in OceanDinos THEN "ocean" ELSE "default"
Nobody == <<NoDino, 0>>

\* SwipeCloseThreshold is ten times SwipeStartSlop.
Slop == 1
CloseAt == 2

\* Before NativeConstruct; the panel of the editor's tree starts visible.
CardInit ==
    /\ card = [info |-> NoDino, tab |-> 0, of |-> [s \in Skins |-> Nobody], top |-> TRUE,
               skin |-> "default", shown |-> "none", dirty |-> FALSE, elevated |-> FALSE,
               wired |-> {}, panels |-> {"default"}, open |-> FALSE, popup |-> FALSE,
               tracking |-> FALSE, active |-> FALSE, offset |-> 0,
               hidden |-> FALSE, saved |-> TRUE, hud |-> TRUE, focus |-> FALSE, due |-> FALSE,
               heard |-> FALSE, reopen |-> FALSE, reopenAt |-> Nobody]
    /\ chat = FALSE /\ asked = Nobody /\ returned = Nobody

-----------------------------------------------------------------------------
(* The operations of the widget *)

\* A tab that is not there leaves everything as it was, the texts included.
SelectTab(c, i) ==
    IF c.info # NoDino /\ i < TabsOf[c.info]
    THEN [c EXCEPT !.tab = i, !.of[c.skin] = <<c.info, i>>, !.top = TRUE]
    ELSE c

\* RebuildTabs chooses the first.
ApplyInfo(c) == IF c.info = NoDino THEN c ELSE SelectTab([c EXCEPT !.tab = 0], 0)

\* Fault: the new tree stays off the screen.
ApplySkinOnly(c, s) == IF s = c.skin THEN c ELSE [c EXCEPT !.skin = s, !.wired = @ \union {s}]

\* The tree of skin s is taken, and its buttons are connected; the screen still
\* shows the other.
ApplySkin(c, s) ==
    IF s = c.skin THEN c
    ELSE [c EXCEPT !.skin = s, !.dirty = TRUE, !.wired = @ \union {s}]

\* Whatever the finger was doing, the card stands where it should.
AtRest(c) == [c EXCEPT !.tracking = FALSE, !.active = FALSE, !.offset = 0]

HideCard(c) ==
    [AtRest(c) EXCEPT !.open = FALSE, !.popup = FALSE, !.panels = @ \ {c.skin},
                      !.hud = IF c.hidden THEN c.saved ELSE @, !.hidden = FALSE]

\* A card that has a dinosaur already is filled again, open or not.
NativeConstruct(c) ==
    LET d == [c EXCEPT !.shown = c.skin, !.wired = @ \union {c.skin}]
    IN  IF c.info # NoDino THEN ApplyInfo(d) ELSE HideCard(d)

NativeDestruct(c) == [c EXCEPT !.wired = @ \ {c.skin}]

\* The tree in use goes on the screen; the first time, the widget is taken from
\* the viewport and put back above the bar.
RebuildSlateIfNeeded(c) ==
    IF c.shown = "none" THEN [c EXCEPT !.dirty = FALSE]
    ELSE LET d == IF c.dirty THEN [c EXCEPT !.shown = c.skin, !.dirty = FALSE] ELSE c
         IN  IF d.elevated THEN d
             ELSE NativeConstruct(NativeDestruct([d EXCEPT !.elevated = TRUE]))

\* The focus is taken at the next tick.
FocusCard(c) == IF c.skin = "ocean" /\ c.open THEN [c EXCEPT !.due = TRUE] ELSE c

\* The scan screen under an ocean card, if there is one, is hidden once.
HideScanHud(c, found) ==
    IF c.skin = "ocean" /\ ~c.hidden /\ found
    THEN [c EXCEPT !.hidden = TRUE, !.saved = c.hud, !.hud = FALSE]
    ELSE c

ShowFor(c, d, found) ==
    LET filled == ApplyInfo(ApplySkin([c EXCEPT !.info = d], SkinOf(d)))
        opened == [AtRest(HideScanHud(filled, found)) EXCEPT
                      !.open = TRUE, !.panels = @ \union {filled.skin}]
    IN  FocusCard(RebuildSlateIfNeeded(opened))

\* The chat says that it has opened or closed.
HandleDocentOpenStateChanged(c, isOpen) ==
    IF isOpen \/ ~c.heard \/ ~c.reopen THEN c
    ELSE LET back == [c EXCEPT !.reopen = FALSE, !.reopenAt = Nobody]
         IN  IF c.reopenAt[1] = NoDino THEN back
             ELSE SelectTab(ShowFor(back, c.reopenAt[1], TRUE), c.reopenAt[2])

-----------------------------------------------------------------------------
(* What happens to it *)

Elsewhen == returned' = Nobody
Becomes(c) == card' = c /\ Elsewhen /\ UNCHANGED <<chat, asked>>

\* AddToViewport.
Construct == card.shown = "none" /\ Becomes(NativeConstruct(card))

\* A dinosaur is tapped (ADinoOverlayActor::HandleTapped), or the level asks for
\* the card of another.
Tap(d) == ~chat /\ \E found \in BOOLEAN : Becomes(ShowFor(card, d, found))

OnScreen == card.shown # "none" /\ card.open
Pressed == OnScreen /\ card.skin \in card.wired

HandleCloseClicked == Pressed /\ Becomes(HideCard(card))

\* What the card keeps of the question, so that it can come back.
KeepReopen(c, found) ==
    IF c.skin = "ocean" /\ found
    THEN [c EXCEPT !.heard = TRUE, !.reopen = TRUE, !.reopenAt = <<c.info, c.tab>>]
    ELSE c

\* The level hides the card and opens the chat, which says so.
HandleAskDocentClicked ==
    /\ Pressed /\ card.info \in Exhibited
    /\ \E found \in BOOLEAN :
           /\ card' = HideCard(KeepReopen([card EXCEPT !.popup = FALSE], found))
           /\ chat' = found
           /\ asked' = IF card.skin = "ocean" /\ found THEN <<card.info, card.tab>> ELSE asked
    /\ Elsewhen

HandleTabClicked(i) ==
    OnScreen /\ i < TabsOf[card.info] /\ Becomes(FocusCard(SelectTab(card, i)))

\* The menu of the ocean card: its button, the sheet behind it, and the entry
\* that presses the navigation's button on the scan screen.
HandleMenuClicked ==
    OnScreen /\ card.skin = "ocean" /\ Becomes(FocusCard([card EXCEPT !.popup = ~@]))
HandleNavClicked == OnScreen /\ card.popup /\ Becomes(HideCard(card))

\* Android's way back: first out of the menu, then out of the card.
NativeOnPreviewKeyDown ==
    /\ OnScreen /\ card.skin = "ocean" /\ card.focus
    /\ Becomes(IF card.popup THEN [card EXCEPT !.popup = FALSE]
                             ELSE [HideCard(card) EXCEPT !.focus = FALSE])

\* The timer of FocusCard.
FocusTick ==
    /\ card.due
    /\ Becomes([card EXCEPT !.due = FALSE, !.focus = @ \/ (card.open /\ card.skin = "ocean")])

Scroll == OnScreen /\ card.top /\ Becomes([card EXCEPT !.top = FALSE])

\* A finger or the mouse goes down: not on an ocean card, and only when the text
\* is at its top.
BeginSwipe ==
    /\ OnScreen /\ card.skin # "ocean" /\ card.top
    /\ Becomes([card EXCEPT !.offset = 0, !.tracking = TRUE, !.active = FALSE])

\* Where it is now, from where it went down: a pull upward is not for the card.
UpdateSwipe(delta) ==
    /\ card.tracking
    /\ \/ /\ ~card.active /\ delta < Slop
          /\ Becomes([card EXCEPT !.tracking = delta >= -Slop])
       \/ /\ card.active \/ delta >= Slop
          /\ Becomes([card EXCEPT !.active = TRUE, !.offset = IF delta > 0 THEN delta ELSE 0])

EndSwipe ==
    /\ card.tracking
    /\ Becomes(IF card.active /\ card.offset >= CloseAt THEN HideCard(AtRest(card)) ELSE AtRest(card))

\* The visitor opens the chat on the scan screen, or closes it; closing takes the
\* focus first.
ChatTurns ==
    /\ ~card.open /\ chat' = ~chat
    /\ card' = HandleDocentOpenStateChanged(IF chat THEN [card EXCEPT !.focus = FALSE] ELSE card, ~chat)
    /\ returned' = IF chat /\ card.reopen THEN asked ELSE Nobody
    /\ UNCHANGED asked

CardNext ==
    \/ Construct \/ HandleCloseClicked \/ HandleAskDocentClicked
    \/ \E d \in Dinos : Tap(d)
    \/ card.info # NoDino /\ \E i \in 0..(TabsOf[card.info] - 1) : HandleTabClicked(i)
    \/ HandleMenuClicked \/ HandleNavClicked \/ NativeOnPreviewKeyDown \/ FocusTick
    \/ Scroll \/ BeginSwipe \/ EndSwipe \/ \E delta \in (-2)..MaxPull : UpdateSwipe(delta)
    \/ ChatTurns

-----------------------------------------------------------------------------
(* Properties *)

Place == (Dinos \union {NoDino}) \X Nat

CardTypeOK ==
    /\ card \in [info : Dinos \union {NoDino}, tab : Nat, of : [Skins -> Place], top : BOOLEAN,
                 skin : Skins, shown : Skins \union {"none"}, dirty : BOOLEAN, elevated : BOOLEAN,
                 wired : SUBSET Skins, panels : SUBSET Skins, open : BOOLEAN, popup : BOOLEAN,
                 tracking : BOOLEAN, active : BOOLEAN, offset : 0..MaxPull,
                 hidden : BOOLEAN, saved : BOOLEAN, hud : BOOLEAN, focus : BOOLEAN, due : BOOLEAN,
                 heard : BOOLEAN, reopen : BOOLEAN, reopenAt : Place]
    /\ chat \in BOOLEAN /\ asked \in Place /\ returned \in Place

\* On screen is the tree that the members point into, and its buttons answer,
\* whichever card came before and whether or not the widget was there yet.
TreeInUse == card.shown # "none" => card.shown = card.skin /\ card.skin \in card.wired

\* An open card is the dinosaur's, in its skin, with the texts of its chosen tab.
CardFits == card.open =>
    /\ card.info # NoDino /\ card.skin = SkinOf(card.info) /\ card.skin \in card.panels
    /\ TabsOf[card.info] > 0 => card.of[card.skin] = <<card.info, card.tab>>
    /\ card.skin = "ocean" => card.focus \/ card.due

\* A closed card leaves nothing behind: no panel that takes touches, no menu, no
\* swipe half done, and the scan screen as visible as it was.
NothingLeft == card.shown # "none" /\ ~card.open =>
    card.skin \notin card.panels /\ ~card.popup /\ ~card.tracking /\ card.hud

\* An ocean card cannot be pulled, and a card that is not pulled stands at rest.
PullsEnd == (card.tracking => card.skin = "default" /\ card.open) /\ (~card.tracking => card.offset = 0)

\* A visitor who comes back from the chat finds the card and the tab asked about.
CardReturns == returned # Nobody => card.open /\ <<card.info, card.tab>> = returned

CardIsRight == TreeInUse /\ CardFits /\ NothingLeft /\ PullsEnd /\ CardReturns
===============================================================================
