--------------------------- MODULE ArticleFilter ---------------------------
(***************************************************************************)
(* Filtering the articles: the stack of swipable cards                     *)
(* (oap-swipable-cards) and the list of filtered items the app keeps.      *)
(*                                                                         *)
(* The stack has two notions of where it is.  A decision is about          *)
(* items[currentItemsPosition]; what the player sees is the card           *)
(* visibleItems[currentPosition].  A swipe advances both; 300 ms later a   *)
(* refill shifts the stack by one card and sets currentPosition to 0.      *)
(*                                                                         *)
(* Nearly every delay is 300 ms or 310 ms, so timers fire in the order in  *)
(* which they were set: they are one queue.  (A 310 ms timer could be      *)
(* overtaken by a 300 ms timer set within the 10 ms after it; that is left *)
(* out.)  The 750 ms for which the button of a header stays disabled are   *)
(* two rounds of the queue.                                                *)
(*                                                                         *)
(* The buttons of all headers have one id, and the stack looks a button up *)
(* by it: it disables and enables the button of the first header among the *)
(* cards it renders, whichever header was pressed.  A header that was      *)
(* swiped away is among them until a refill takes it off.                  *)
(***************************************************************************)
EXTENDS Integers, Sequences, SequencesExt, Sublists

CONSTANTS
  Items,       \* allItems: for each module its header card, then its articles
  Headers,     \* the items whose module_type is "ModuleTypeCard"
  Stack,       \* how many cards are visible at a time
  MaxFast,     \* bound: swipes under way when the player begins one more
  MaxStrays,   \* bound: presses that disable the button of another header
  MaxMounts    \* bound: how often the page is shown

ASSUME FilterAssumption ==
  /\ Items \in Seq(ToSet(Items)) /\ IsInjective(Items)
  /\ Headers \subseteq ToSet(Items) /\ Items[1] \in Headers
  /\ Stack \in Nat /\ MaxFast \in Nat /\ MaxFast + 1 < Stack
  /\ MaxStrays \in Nat /\ MaxMounts \in Nat \ {0}

VARIABLES
  page,       \* oap-app._page
  mounts,     \* how often the filter page was shown
  filtered,   \* oap-app.filteredItems
  bonuses,    \* how often manual selection earned its five points
  strays,     \* history: buttons of another header disabled or enabled
  known,      \* filtered items that are the objects of allItems
  shown,      \* visibleItems
  left,       \* itemsLeft
  pos,        \* currentPosition
  at,         \* currentItemsPosition
  elements,   \* maxElements
  timers,     \* timers set and not yet fired, in the order they fire
  auto,       \* automaticSelectionActive
  off,        \* temporaryDisableLeft, temporaryDisableRight
  pressed,    \* the buttons of header cards that are disabled
  attached,   \* the left and right buttons have listeners
  touch       \* the stack listens to gestures

pay == <<bonuses, strays>>
app == <<page, mounts, filtered, pay, known>>
cards == <<shown, left, pos, at, elements>>
controls == <<auto, off, pressed, attached, touch>>
vars == <<app, cards, timers, controls>>

(* A button is the header and its kind; what waits for one remembers the    *)
(* header that was pressed, for the sake of strays only.                    *)
Button == Headers \X {"manual", "auto"}

Timer ==
  {<<kind>> : kind \in {"right", "left", "top", "refill", "enableLeft", "enableRight", "auto"}}
    \union ({"wait", "enable"} \X Button)

TypeOK ==
  /\ page \in {"filter-articles", "elsewhere"}
  /\ mounts \in 1 .. MaxMounts
  /\ filtered \in Seq(ToSet(Items))
  /\ bonuses \in Nat /\ strays \in Nat
  /\ known \in SUBSET ToSet(Items)
  /\ shown \in Seq(ToSet(Items)) /\ Len(shown) <= Stack
  /\ left \in Seq(ToSet(Items))
  /\ pos \in 0 .. Stack + MaxFast + 1
  /\ at \in 0 .. Len(Items) + Stack
  /\ elements = Len(shown)
  /\ timers \in Seq(Timer)
  /\ auto \in BOOLEAN
  /\ off \in SUBSET {"left", "right"}
  /\ pressed \in SUBSET Button
  /\ attached \in BOOLEAN /\ touch \in BOOLEAN

(* items[currentItemsPosition], undefined past the end *)
InRange == at < Len(Items)
Current == Items[at + 1]
CurrentIsHeader == InRange /\ Current \in Headers

(* the card on top *)
HasTop == pos < Len(shown)
Top == shown[pos + 1]

Select(item) == filtered' = Append(filtered, item) /\ known' = known \union {item}

-----------------------------------------------------------------------------
(***************************************************************************)
(* Showing the page.                                                       *)
(***************************************************************************)

(* The items that are already filtered, as objects, are left out of the     *)
(* stack, but not of items.                                                 *)
Remaining(chosen) == FilterSeq(Items, ToSet(Items) \ chosen)

Deal(chosen) ==
  LET rest == Remaining(chosen)
      n == IF Len(rest) < Stack THEN Len(rest) ELSE Stack
  IN  /\ shown' = SubSeq(rest, 1, n)
      /\ left' = SubSeq(rest, n + 1, Len(rest))
      /\ elements' = n
      /\ pos' = 0 /\ at' = 0

Mount(list, chosen) ==
  /\ page' = "filter-articles"
  /\ Deal(chosen)
  /\ filtered' = Append(list, Items[1]) /\ known' = chosen \union {Items[1]}
  /\ timers' = <<>> /\ auto' = FALSE /\ off' = {} /\ pressed' = {}
  /\ attached' = FALSE /\ touch' = FALSE

Init ==
  /\ page = "filter-articles" /\ mounts = 1
  /\ filtered = <<Items[1]>> /\ bonuses = 0 /\ strays = 0 /\ known = {Items[1]}
  /\ LET n == IF Len(Items) < Stack THEN Len(Items) ELSE Stack
     IN  shown = SubSeq(Items, 1, n) /\ left = SubSeq(Items, n + 1, Len(Items)) /\ elements = n
  /\ pos = 0 /\ at = 0
  /\ timers = <<>> /\ auto = FALSE /\ off = {} /\ pressed = {}
  /\ attached = FALSE /\ touch = FALSE

(* The page is left: by the browser's buttons, or because the last card is  *)
(* gone.  Timers of the old element reach nobody.                           *)
Gone == page' = "elsewhere" /\ timers' = <<>>

LeavePage ==
  /\ page = "filter-articles"
  /\ Gone
  /\ UNCHANGED <<mounts, filtered, pay, known, cards, controls>>

ShowAgain(chosen) ==
  /\ page = "elsewhere"
  /\ mounts < MaxMounts
  /\ mounts' = mounts + 1
  /\ Mount(filtered, chosen)
  /\ UNCHANGED pay

(* By the browser's buttons; or in a reloaded game, whose filtered items    *)
(* are other objects than those of allItems.                                *)
ReturnToPage == ShowAgain(known)
RestoreOnPage == ShowAgain({})

-----------------------------------------------------------------------------
(***************************************************************************)
(* Buttons and gestures.                                                   *)
(***************************************************************************)

(* onActionTop, onActionRight, onActionLeft: the timers they set.  The last *)
(* two do nothing while temporaryDisable holds.                             *)
TopTimers == IF pos < elements THEN <<<<"top">>>> ELSE <<>>

Side(side) == IF pos < elements THEN <<<<side>>>> ELSE <<>>
SideTimers_StaysOff(side, enable) == IF side \in off THEN <<>> ELSE Side(side)
SideTimers(side, enable) == IF side \in off THEN <<>> ELSE Append(Side(side), <<enable>>)

(* The header card on top carries the buttons of the module; a button that  *)
(* was pressed is disabled for a while.                                     *)
Pressable_Twice(button) == page = "filter-articles" /\ HasTop /\ Top = button[1]
Pressable(button) ==
  /\ page = "filter-articles"
  /\ HasTop /\ Top = button[1]
  /\ button \notin pressed

(* What it adds to the buttons stays for good: what is taken off them is    *)
(* made anew by bind and was never added.                                   *)
AddEventListeners == attached' = TRUE /\ touch' = TRUE
RemoveEventListeners == touch' = FALSE /\ UNCHANGED attached

(* The button that is looked up: of the first header among the cards.       *)
Foremost(header) ==
  \E i \in 1 .. Len(shown) :
    shown[i] = header /\ \A j \in 1 .. i - 1 : shown[j] \notin Headers
Found(kind) == {<<header, kind>> : header \in {h \in Headers : Foremost(h)}}

Press(button) ==
  /\ Pressable(button)
  /\ button \notin Found(button[2]) => strays < MaxStrays
  /\ pressed' = pressed \union Found(button[2])
  /\ strays' = IF button \in Found(button[2]) THEN strays ELSE strays + 1

StartManualSelection(header) ==
  /\ Press(<<header, "manual">>)
  /\ bonuses' = bonuses + 1
  /\ timers' = Append(timers \o TopTimers, <<"wait", <<header, "manual">>>>)
  /\ AddEventListeners
  /\ UNCHANGED <<page, mounts, filtered, known, cards, auto, off>>

(* It goes on from a header only when it was just started, and stops at the *)
(* next header or after the last item.                                      *)
GoesOn ==
  LET last == at = Len(Items) - 1
  IN  InRange /\ (Current \in Headers => last \/ ~auto)

AutomaticallySelectNext(queue) ==
  LET fromHeader == CurrentIsHeader /\ at < Len(Items) - 1
  IN  IF GoesOn
      THEN /\ auto' = TRUE
           /\ IF fromHeader
              THEN timers' = Append(queue \o TopTimers, <<"auto">>) /\ UNCHANGED off
              ELSE /\ timers' = Append(queue \o SideTimers("right", "enableRight"), <<"auto">>)
                   /\ off' = off \union {"right"}
      ELSE auto' = FALSE /\ timers' = queue /\ UNCHANGED off

StartAutoSelection(header) ==
  /\ Press(<<header, "auto">>)
  /\ AutomaticallySelectNext(Append(timers, <<"wait", <<header, "auto">>>>))
  /\ UNCHANGED <<page, mounts, filtered, bonuses, known, cards, attached, touch>>

(* The buttons below the stack: hidden on a header and during automatic     *)
(* selection, and without listeners until a module was begun by hand.       *)
ButtonsShown == page = "filter-articles" /\ attached /\ ~auto /\ ~CurrentIsHeader

(* Swipes under way: their timer or their refill is still to come.          *)
UnderWay ==
  Len(FilterSeq(timers, {<<"refill">>, <<"top">>, <<"left">>, <<"right">>}))

ClickSide(side, enable) ==
  /\ ButtonsShown
  /\ side \notin off
  /\ UnderWay <= MaxFast
  /\ timers' = timers \o SideTimers(side, enable)
  /\ off' = off \union {side}
  /\ UNCHANGED <<app, cards, auto, pressed, attached, touch>>

ClickLeft == ClickSide("left", "enableLeft")
ClickRight == ClickSide("right", "enableRight")

-----------------------------------------------------------------------------
(***************************************************************************)
(* Swipes and the refill.                                                  *)
(***************************************************************************)

(* onSwipeLeft, -Right and -Top, with the timers queue before the refill it *)
(* sets: the card on top is gone; with the last of the stack gone the       *)
(* filtering is completed and the page changes.                             *)
Advance(queue) ==
  /\ pos' = pos + 1
  /\ at' = at + 1
  /\ IF at + 1 < Len(Items) /\ Items[at + 2] \in Headers
     THEN RemoveEventListeners
     ELSE UNCHANGED <<attached, touch>>
  /\ IF pos + 1 = elements
     THEN Gone
     ELSE timers' = Append(queue, <<"refill">>) /\ UNCHANGED page
  /\ UNCHANGED <<mounts, pay, shown, left, elements, auto, pressed>>

(* item-selected; the app refuses an undefined item *)
SelectCurrent ==
  IF InRange THEN Select(Current) ELSE UNCHANGED <<filtered, known>>

SwipeRight(queue) == SelectCurrent /\ Advance(queue)
SwipeAway(queue) == Advance(queue) /\ UNCHANGED <<filtered, known>>

(* A gesture swipes at once. *)
TouchSwipe ==
  /\ page = "filter-articles"
  /\ touch
  /\ pos < elements
  /\ UnderWay <= MaxFast
  /\ SwipeRight(timers) \/ SwipeAway(timers)
  /\ UNCHANGED off

Fires(timer) == timers # <<>> /\ Head(timers) = timer

SwipeTimer ==
  /\ \/ Fires(<<"right">>) /\ SwipeRight(Tail(timers))
     \/ Fires(<<"left">>) /\ SwipeAway(Tail(timers))
     \/ Fires(<<"top">>) /\ SwipeAway(Tail(timers))
  /\ UNCHANGED off

EnableTimer ==
  /\ \/ Fires(<<"enableLeft">>) /\ off' = off \ {"left"}
     \/ Fires(<<"enableRight">>) /\ off' = off \ {"right"}
  /\ timers' = Tail(timers)
  /\ UNCHANGED <<app, cards, auto, pressed, attached, touch>>

(* A button is enabled again: the one that is found by now, if any.         *)
ButtonTimer(button) ==
  /\ \/ /\ Fires(<<"wait", button>>)
        /\ timers' = Append(Tail(timers), <<"enable", button>>)
        /\ UNCHANGED <<pressed, strays>>
     \/ /\ Fires(<<"enable", button>>)
        /\ timers' = Tail(timers)
        /\ pressed' = pressed \ Found(button[2])
        /\ strays' = IF (pressed \intersect Found(button[2])) \ {button} = {} THEN strays ELSE strays + 1
  /\ UNCHANGED <<page, mounts, filtered, bonuses, known, cards, auto, off, attached, touch>>

AutoTimer ==
  /\ Fires(<<"auto">>)
  /\ AutomaticallySelectNext(Tail(timers))
  /\ UNCHANGED <<app, cards, pressed, attached, touch>>

(* The stack moves up by one card, as long as there are cards to add, and   *)
(* the element of the first is removed with its buttons.  A header that     *)
(* gets on top is an item of the ballot like the articles.                  *)
SelectedOnTop_Any(item) == TRUE
SelectedOnTop(item) == item \in Headers

Shifted == Append(Tail(shown), Head(left))

Refill_KeepsPosition ==
  /\ Fires(<<"refill">>)
  /\ timers' = Tail(timers)
  /\ IF left # <<>> THEN shown' = Shifted /\ left' = Tail(left) ELSE UNCHANGED <<shown, left>>
  /\ UNCHANGED <<app, pos, at, elements, controls>>
Refill ==
  /\ Fires(<<"refill">>)
  /\ timers' = Tail(timers)
  /\ IF left # <<>>
     THEN /\ shown' = Shifted
          /\ left' = Tail(left)
          /\ pos' = 0
          /\ elements' = Len(Shifted)
          /\ pressed' = {button \in pressed : button[1] # Head(shown)}
          /\ IF SelectedOnTop(Head(Shifted))
             THEN Select(Head(Shifted))
             ELSE UNCHANGED <<filtered, known>>
     ELSE UNCHANGED <<shown, left, pos, elements, pressed, filtered, known>>
  /\ UNCHANGED <<page, mounts, pay, at, auto, off, attached, touch>>

-----------------------------------------------------------------------------
TimerFires ==
  \/ SwipeTimer
  \/ EnableTimer
  \/ \E button \in Button : ButtonTimer(button)
  \/ AutoTimer
  \/ Refill

Next ==
  \/ LeavePage
  \/ ReturnToPage
  \/ RestoreOnPage
  \/ \E header \in Headers : StartManualSelection(header) \/ StartAutoSelection(header)
  \/ ClickLeft
  \/ ClickRight
  \/ TouchSwipe
  \/ TimerFires

Spec == Init /\ [][Next]_vars /\ WF_vars(TimerFires)

-----------------------------------------------------------------------------
(***************************************************************************)
(* Properties.                                                             *)
(***************************************************************************)

Settled == page = "filter-articles" /\ timers = <<>>

(* While cards are left to add, no order of gestures, buttons and refills   *)
(* makes the two positions of the stack drift apart.                        *)
NoDriftBeforeTheEnd ==
  mounts = 1 /\ Settled /\ left # <<>> => pos = 0 /\ Top = Current

(* No article is filtered twice in one showing of the page, by whatever mix *)
(* of gestures, buttons and automatic selection.                            *)
FilteredOncePerShowing ==
  \A item \in ToSet(Items) \ Headers :
    Len(FilterSeq(filtered, {item})) <= mounts

(* The reward of selecting by hand is paid once per module and showing: a   *)
(* further one is had only after a button was disabled or enabled in place  *)
(* of another header's, and each such mistake is worth one reward at most.  *)
OneBonusPerModule == bonuses <= mounts * Cardinality(Headers) + strays

(* Automatic selection comes to an end. *)
AutoSelectionEnds == auto ~> (~auto \/ page # "filter-articles")
=============================================================================
