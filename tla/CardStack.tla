------------------------------- MODULE CardStack -------------------------------
(***************************************************************************)
(* The stack of cards as the player sees it (oap-swipable-cards.js): where *)
(* each card's element is drawn and what lies on top of it.                 *)
(* ArticleFilter says which item a swipe decides about; here it is whether  *)
(* the card under the finger follows it, and the next one takes its place.  *)
(*                                                                         *)
(* Styles are written in the next animation frame.  A transform is for the *)
(* element that was current when it was asked for, an update for those that *)
(* are in the stack by the time of the frame.  All callbacks of a frame run *)
(* one after another.  lit-html keeps the element of a card that stays.    *)
(***************************************************************************)
EXTENDS Integers, Sequences, SequencesExt

CONSTANTS
  Deck,      \* the items to filter, in order
  Size,      \* cards in the stack, 5 in the program
  MaxFrames  \* bound: callbacks asked for in a frame

ASSUME StackAssumption ==
  /\ Deck \in Seq(ToSet(Deck)) /\ IsInjective(Deck) /\ Len(Deck) >= 2
  /\ Size \in 2 .. 5 /\ MaxFrames \in Nat

VARIABLES
  visible,    \* visibleItems, and the elements of stackedcards-container
  toCome,     \* itemsLeft
  place,      \* currentPosition
  current,    \* the item of currentElementObj
  look,       \* the style of each item's element
  frames,     \* callbacks of the next animation frame
  refills,    \* 300 ms timers of updateFromMainItemsList
  fingers,    \* touches
  touching,   \* touchingElement
  moved,      \* currentX, currentY against startX, startY
  displaced   \* a gesture ended without a swipe or a way back

stack == <<visible, toCome, place, current>>
gesture == <<fingers, touching, moved>>
stackVars == <<stack, look, frames, refills, gesture, displaced>>

Card == ToSet(Deck)
Move == {"none", "left", "right", "up", "straight"}
Style == [at : {"new", "stack", "finger", "away"}, depth : 0 .. Size, z : 0 .. 6]
Callback ==
  [card : Card, at : {"stack", "finger", "away"}] \union {[card |-> Deck[1], at |-> "update"]}

StackTypeOK ==
  /\ visible \in Seq(Card) /\ toCome \in Seq(Card) /\ visible # <<>> /\ Len(visible) <= Size
  /\ place \in 0 .. Len(visible)
  /\ current \in Card
  /\ look \in [Card -> Style]
  /\ frames \in Seq(Callback) /\ refills \in Nat
  /\ fingers \in 0 .. 2 /\ moved \in Move
  /\ {touching, displaced} \subseteq BOOLEAN

HasTopCard == place < Len(visible)
TopCard == visible[place + 1]

(* An element of lit-html that is new has no style. *)
Plain == [at |-> "new", depth |-> 0, z |-> 0]

(* The zIndex that is written at once, and what it is as soon as a card is  *)
(* touched or leaves (removeNoTransition).                                  *)
SetZindex(z) == [look EXCEPT ![TopCard].z = z]
RemoveNoTransition == SetZindex(6)

-----------------------------------------------------------------------------
(***************************************************************************)
(* Frames.                                                                 *)
(***************************************************************************)

UpdateUi == [card |-> Deck[1], at |-> "update"]
TransformUi(card, at) == [card |-> card, at |-> at]

InStack(depth) == [at |-> "stack", depth |-> depth, z |-> 5 - depth]

(* updateUi: the cards from the current position on, each behind the one    *)
(* before it, smaller and fainter.                                          *)
Updated_FromFirst(style) ==
  [c \in Card |->
     IF c \in ToSet(visible)
     THEN InStack((CHOOSE i \in DOMAIN visible : visible[i] = c) - 1)
     ELSE style[c]]
Updated(style) ==
  [c \in Card |->
     IF \E i \in place + 1 .. Len(visible) : visible[i] = c
     THEN InStack((CHOOSE i \in DOMAIN visible : visible[i] = c) - 1 - place)
     ELSE style[c]]

Drawn(style, callback) ==
  IF callback.at = "update"
  THEN Updated(style)
  ELSE [style EXCEPT ![callback.card].at = callback.at]

Frame ==
  /\ frames # <<>>
  /\ look' = FoldLeft(Drawn, look, frames)
  /\ frames' = <<>>
  /\ UNCHANGED <<stack, refills, gesture, displaced>>

CanAsk == Len(frames) < MaxFrames

-----------------------------------------------------------------------------
(***************************************************************************)
(* Swipes and refills.                                                     *)
(***************************************************************************)

(* onSwipeLeft, -Right and -Top: the current element leaves, the card under *)
(* it is the current one.  With the last card the page is left.             *)
Swipe(queue) ==
  /\ HasTopCard
  /\ place' = place + 1
  /\ current' = IF place + 1 < Len(visible) THEN visible[place + 2] ELSE current
  /\ frames' = queue \o <<TransformUi(current, "away"), UpdateUi>>
  /\ refills' = refills + 1
  /\ look' = RemoveNoTransition
  /\ displaced' = FALSE
  /\ UNCHANGED <<visible, toCome>>

(* A button's timer, or the automatic selection: also while a finger is on  *)
(* the stack.                                                               *)
ButtonSwipe == CanAsk /\ Swipe(frames) /\ UNCHANGED gesture

(* refresh: the first element is current again.                             *)
Refresh(list) ==
  /\ current' = list[1]
  /\ frames' = Append(frames, UpdateUi)

AddCard ==
  /\ refills > 0 /\ HasTopCard
  /\ refills' = refills - 1
  /\ IF toCome = <<>>
     THEN UNCHANGED <<stack, look, frames, displaced>>
     ELSE /\ visible' = Append(Tail(visible), Head(toCome))
          /\ toCome' = Tail(toCome)
          /\ place' = 0
          /\ look' = [look EXCEPT ![Head(visible)] = Plain]
          /\ Refresh(visible')
          /\ displaced' = FALSE
  /\ UNCHANGED gesture

-----------------------------------------------------------------------------
(***************************************************************************)
(* Gestures.                                                               *)
(***************************************************************************)

BackToMiddle(queue) ==
  /\ frames' = Append(queue, TransformUi(current, "stack"))
  /\ look' = SetZindex(5)
  /\ displaced' = FALSE

(* A second finger starts anew, from where it is.                           *)
GestureStart ==
  /\ HasTopCard /\ fingers < 2
  /\ fingers' = fingers + 1
  /\ touching' = TRUE /\ moved' = "none"
  /\ look' = SetZindex(6)
  /\ displaced' = (displaced \/ moved # "none")
  /\ UNCHANGED <<stack, frames, refills>>

(* The current element follows the finger, also the finger of a gesture     *)
(* that another finger has ended.                                           *)
GestureMove(move) ==
  /\ HasTopCard /\ fingers > 0 /\ CanAsk
  /\ move \in Move \ {"none"}
  /\ moved' = move
  /\ frames' = Append(frames, TransformUi(current, "finger"))
  /\ displaced' = (displaced \/ ~touching)
  /\ UNCHANGED <<stack, look, refills, fingers, touching>>

(* far: over half of the width, or fast.  There is no swipe upwards         *)
(* (disableUpSwipe), and a move that ends straight below or above its start *)
(* is neither to the left nor to the right.                                 *)
GestureEnd(far) ==
  /\ HasTopCard /\ fingers > 0 /\ CanAsk
  /\ fingers' = fingers - 1
  /\ touching' = FALSE
  /\ moved' = IF fingers = 1 THEN "none" ELSE moved
  /\ \/ /\ ~touching \/ moved \in {"none", "straight"}
        /\ displaced' = (displaced \/ (touching /\ moved = "straight"))
        /\ UNCHANGED <<stack, look, frames, refills>>
     \/ /\ touching /\ moved \in {"left", "right"} /\ far
        /\ Swipe(frames)
     \/ /\ touching /\ (moved = "up" \/ (moved \in {"left", "right"} /\ ~far))
        /\ BackToMiddle(frames)
        /\ UNCHANGED <<stack, refills>>

-----------------------------------------------------------------------------
StackInit ==
  /\ LET n == IF Len(Deck) < Size THEN Len(Deck) ELSE Size
     IN  visible = SubSeq(Deck, 1, n) /\ toCome = SubSeq(Deck, n + 1, Len(Deck))
  /\ place = 0 /\ current = Deck[1]
  /\ look = [c \in Card |-> Plain] /\ frames = <<UpdateUi>> /\ refills = 0
  /\ fingers = 0 /\ touching = FALSE /\ moved = "none"
  /\ displaced = FALSE

StackNext ==
  \/ Frame
  \/ ButtonSwipe
  \/ AddCard
  \/ GestureStart
  \/ \E move \in Move : GestureMove(move)
  \/ \E far \in BOOLEAN : GestureEnd(far)

StackSpec == StackInit /\ [][StackNext]_stackVars

-----------------------------------------------------------------------------
(***************************************************************************)
(* Properties.                                                             *)
(***************************************************************************)

AtRest == HasTopCard /\ frames = <<>> /\ fingers = 0

(* Whatever gestures, buttons, frames and refills there were, and in        *)
(* whatever order: at rest the card to decide about lies on top of the      *)
(* stack where it belongs and is the one that would follow a finger, unless *)
(* a gesture ended straight above or below its start or had two fingers.    *)
(* The cards behind it lie in their order and below it, and those before it *)
(* are away.                                                                *)
StackIsInOrder ==
  AtRest =>
    /\ current = TopCard
    /\ ~displaced => look[TopCard].at = "stack" /\ look[TopCard].depth = 0
    /\ \A i \in place + 2 .. Len(visible) :
          /\ look[visible[i]].at = "stack" /\ look[visible[i]].depth = i - 1 - place
          /\ look[visible[i]].z < look[visible[i - 1]].z
    /\ \A i \in 1 .. place : look[visible[i]].at = "away"
=============================================================================
