------------------------------ MODULE BudgetScene ------------------------------
(***************************************************************************)
(* What the budget shows above the article ballot (oap-3d-budget): a block *)
(* for each chosen article, as wide as its share of the choice points, the *)
(* number of points left, and a banner that flies by when a bonus or a     *)
(* penalty is given while the blocks move back.                            *)
(*                                                                         *)
(* A block enters the scene 30 ms after it was made.  The changes of a     *)
(* property are handled (updated) before any timer.  Timers of the same    *)
(* delay fire in the order in which they were set.  Positions, sizes and   *)
(* colours matter as far as they say what they were computed from.         *)
(***************************************************************************)
EXTENDS Integers, Sequences, SequencesExt, Sublists

CONSTANTS
  Article,
  ModuleIndex,    \* module_type_index of each article
  Price,
  StartPoints,    \* what the quiz left the player
  Amounts,        \* the sums of a check's bonuses and penalties
  Null,
  MaxShowings,    \* bound: how often the ballot is shown
  MaxAwards       \* bound: bonuses and penalties

ASSUME SceneAssumption ==
  /\ ModuleIndex \in [Article -> Nat]
  /\ Price \in [Article -> Nat \ {0}]
  /\ StartPoints \in Nat /\ Amounts \subseteq Int \ {0}
  /\ {MaxShowings, MaxAwards} \subseteq Nat

VARIABLES
  page,       \* "area-ballot" or another
  selected,   \* selectedItems
  used,       \* usedChoicePoints
  total,      \* totalChoicePoints
  font,       \* font3d
  number,     \* fontMesh: the points it shows and its colour, or Null
  entering,   \* blocks made, not in the scene yet
  blocks,     \* itemsInScene
  soon,       \* setTimeout without a delay
  banner,     \* bonusPenaltyGroup.visible
  tweens,     \* banner tweens that run, oldest first: is it bonusPenaltyFontTween?
  away,       \* the blocks are not at their default position
  moves,      \* runningMoveX is "out", runningMoveXTwo is "home"
  showings, awards,
  hurried     \* the points changed while a block was entering

points == <<selected, used, total>>
scene == <<entering, blocks>>
group == <<away, moves>>
flight == <<soon, banner, tweens>>
bounds == <<showings, awards>>
vars == <<page, points, font, number, scene, group, flight, bounds, hurried>>

-----------------------------------------------------------------------------
(***************************************************************************)
(* The blocks.                                                             *)
(***************************************************************************)

(* An article's block is computed from the total there is when it is made.  *)
AddItemsToDiv(list) == [i \in DOMAIN list |-> [item |-> list[i], total |-> total]]

(* push, then the stable sort of positionItems.                             *)
PositionItems_Unsorted(list, block) == Append(list, block)
PositionItems(list, block) ==
  InsertAfter(list, {b \in ToSet(list) : ModuleIndex[b.item] <= ModuleIndex[block.item]}, block)

(* selectedItems is sorted in the same way.                                 *)
WithArticle(list, a) ==
  InsertAfter(list, {b \in ToSet(list) : ModuleIndex[b] <= ModuleIndex[a]}, a)

ResetItemsWidth(list) == [i \in DOMAIN list |-> [list[i] EXCEPT !.total = total']]

(* splice inside of forEach: the block after a removed one is not looked    *)
(* at, so that of neighbours of the article every second stays.             *)
RemovedIndices(list, a) ==
  {j \in DOMAIN list : \E first \in 1 .. j :
     /\ \A i \in first .. j : list[i].item = a
     /\ first = 1 \/ list[first - 1].item # a
     /\ (j - first) % 2 = 0}
KeptIndices(list, a) ==
  FilterSeq([i \in 1 .. Len(list) |-> i], DOMAIN list \ RemovedIndices(list, a))
RemoveItemFromDiv(list, a) ==
  [k \in 1 .. Len(KeptIndices(list, a)) |-> list[KeptIndices(list, a)[k]]]

BlockEnters ==
  /\ entering # <<>>
  /\ blocks' = PositionItems(blocks, Head(entering))
  /\ entering' = Tail(entering)
  /\ UNCHANGED <<page, points, font, number, group, flight, bounds, hurried>>

-----------------------------------------------------------------------------
(***************************************************************************)
(* The number.                                                             *)
(***************************************************************************)

PointsLeft(total_, used_) == IF total_ > used_ THEN total_ - used_ ELSE 0

(* Without the font there is no number; with it, each change makes a new    *)
(* text of the default colour.                                              *)
RebuildChoicePoints_Once ==
  number' = IF ~font' THEN Null
            ELSE IF number # Null THEN number
            ELSE [shows |-> PointsLeft(total', used'), colour |-> "default"]
RebuildChoicePoints ==
  number' = IF ~font' THEN Null
            ELSE [shows |-> PointsLeft(total', used'), colour |-> "default"]

FontArrives ==
  /\ page = "area-ballot" /\ ~font
  /\ font' = TRUE
  /\ UNCHANGED <<page, points, scene, group, flight, bounds, hurried>>
  /\ RebuildChoicePoints

(* updated: blocks in the scene follow the total, those on their way do not. *)
Updated_Blocks(list) == list
Updated(list) == IF total' # total THEN ResetItemsWidth(list) ELSE list

-----------------------------------------------------------------------------
(***************************************************************************)
(* Choosing articles, bonuses and penalties.                               *)
(***************************************************************************)

ToggleBudgetItem(a) ==
  /\ page = "area-ballot"
  /\ UNCHANGED <<page, total, font, group, flight, bounds, hurried>>
  /\ \/ /\ a \notin ToSet(selected)
        /\ used + Price[a] <= total
        /\ selected' = WithArticle(selected, a)
        /\ used' = used + Price[a]
        /\ entering' = entering \o AddItemsToDiv(<<a>>)
        /\ UNCHANGED blocks
     \/ /\ a \in ToSet(selected)
        /\ entering = <<>>  \* a card reacts 450 ms after it was chosen, or 75 ms after it is shown
        /\ selected' = FilterSeq(selected, Article \ {a})
        /\ used' = used - Price[a]
        /\ blocks' = RemoveItemFromDiv(blocks, a)
        /\ UNCHANGED entering
  /\ RebuildChoicePoints

(* The ballot's check: a penalty stops at the points used, and the banner   *)
(* says what it was meant to be.                                            *)
CheckBonusesAndPenalties(amount) ==
  /\ page = "area-ballot" /\ selected # <<>>
  /\ awards < MaxAwards
  /\ total' = (IF total + amount >= used THEN total + amount ELSE used)
  /\ UNCHANGED <<selected, used, font>>
  /\ blocks' = Updated(blocks)
  /\ IF total' # total THEN RebuildChoicePoints ELSE UNCHANGED number
  /\ soon' = Append(soon, "bonus")
  /\ awards' = awards + 1
  /\ hurried' = (hurried \/ entering # <<>>)
  /\ UNCHANGED <<page, entering, group, banner, tweens, showings>>

-----------------------------------------------------------------------------
(***************************************************************************)
(* The banner, and the blocks that make room for it.                       *)
(***************************************************************************)

(* A move that runs is stopped before another begins.                       *)
MoveBudgetGroupBack == away' = TRUE /\ moves' = {"out"}

(* The tween the element knows of is stopped; its end never comes.          *)
StopTween == FilterSeq(tweens, {FALSE})

BonusPenalty3dText_FliesOnce ==
  /\ soon # <<>> /\ Head(soon) = "bonus"
  /\ MoveBudgetGroupBack
  /\ IF font
     THEN /\ tweens' = StopTween
          /\ banner' = TRUE
          /\ number' = [number EXCEPT !.colour = "bonus"]
          /\ soon' = IF TRUE \in ToSet(tweens) THEN Tail(soon) ELSE Append(Tail(soon), "fly")
     ELSE soon' = Tail(soon) /\ UNCHANGED <<tweens, banner, number>>
  /\ UNCHANGED <<page, points, font, scene, bounds, hurried>>

BonusPenalty3dText ==
  /\ soon # <<>> /\ Head(soon) = "bonus"
  /\ MoveBudgetGroupBack
  /\ IF font
     THEN /\ tweens' = StopTween
          /\ banner' = TRUE
          /\ number' = [number EXCEPT !.colour = "bonus"]
          /\ soon' = Append(Tail(soon), "fly")
     ELSE soon' = Tail(soon) /\ UNCHANGED <<tweens, banner, number>>
  /\ UNCHANGED <<page, points, font, scene, bounds, hurried>>

BannerFlies ==
  /\ soon # <<>> /\ Head(soon) = "fly"
  /\ soon' = Tail(soon)
  /\ tweens' = Append([i \in DOMAIN tweens |-> FALSE], TRUE)
  /\ UNCHANGED <<page, points, font, number, scene, group, banner, bounds, hurried>>

(* Whichever tween ends, the banner is hidden and none is known any more.   *)
BannerIsGone ==
  /\ tweens # <<>>
  /\ tweens' = [i \in DOMAIN Tail(tweens) |-> FALSE]
  /\ banner' = FALSE
  /\ number' = [number EXCEPT !.colour = "default"]
  /\ UNCHANGED <<page, points, font, scene, group, soon, bounds, hurried>>

MoveEnds(move) ==
  /\ move \in moves
  /\ IF move = "out"
     THEN moves' = (moves \ {"out"}) \union {"home"} /\ UNCHANGED away
     ELSE moves' = {} /\ away' = FALSE
  /\ UNCHANGED <<page, points, font, number, scene, flight, bounds, hurried>>

-----------------------------------------------------------------------------
(***************************************************************************)
(* Showing the page.                                                       *)
(***************************************************************************)

SetupScene ==
  /\ blocks' = <<>>
  /\ number' = Null /\ font' = FALSE
  /\ soon' = <<>> /\ banner' = FALSE /\ tweens' = <<>>
  /\ away' = FALSE /\ moves' = {}

(* resetWidthAnd3DItems, once: the watchers of media queries that were to   *)
(* call it again are never installed, since line 578 throws.                *)
FirstUpdated == entering' = AddItemsToDiv(selected)

LeavePage ==
  /\ page = "area-ballot"
  /\ page' = "elsewhere"
  /\ SetupScene /\ entering' = <<>>
  /\ UNCHANGED <<points, bounds, hurried>>

(* By the browser's buttons or in a reloaded game.                          *)
ReturnToPage ==
  /\ page = "elsewhere" /\ showings < MaxShowings
  /\ page' = "area-ballot"
  /\ showings' = showings + 1
  /\ SetupScene
  /\ FirstUpdated
  /\ hurried' = FALSE
  /\ UNCHANGED <<points, awards>>

(* To choose again, from the review: the scene begins without articles.     *)
ResetSelectArticles ==
  /\ page = "elsewhere" /\ showings < MaxShowings
  /\ page' = "area-ballot"
  /\ showings' = showings + 1
  /\ selected' = <<>> /\ used' = 0 /\ total' = StartPoints
  /\ SetupScene /\ entering' = <<>>
  /\ hurried' = FALSE
  /\ UNCHANGED awards

Init ==
  /\ page = "area-ballot"
  /\ selected = <<>> /\ used = 0 /\ total = StartPoints
  /\ font = FALSE /\ number = Null
  /\ entering = <<>> /\ blocks = <<>>
  /\ soon = <<>> /\ banner = FALSE /\ tweens = <<>>
  /\ away = FALSE /\ moves = {}
  /\ showings = 1 /\ awards = 0
  /\ hurried = FALSE

TimerFires == BlockEnters \/ BonusPenalty3dText \/ BannerFlies
TweenEnds == BannerIsGone \/ \E move \in {"out", "home"} : MoveEnds(move)

Next ==
  \/ FontArrives
  \/ \E a \in Article : ToggleBudgetItem(a)
  \/ \E amount \in Amounts : CheckBonusesAndPenalties(amount)
  \/ ReturnToPage
  \/ LeavePage
  \/ ResetSelectArticles
  \/ TimerFires
  \/ TweenEnds

(* renderScene asks for the next frame in each, and updates the tweens.     *)
Fairness ==
  /\ WF_vars(BlockEnters)
  /\ WF_vars(BonusPenalty3dText \/ BannerFlies)
  /\ WF_vars(BannerIsGone)
  /\ \A move \in {"out", "home"} : WF_vars(MoveEnds(move))

Spec == Init /\ [][Next]_vars /\ Fairness

-----------------------------------------------------------------------------
(***************************************************************************)
(* Properties.                                                             *)
(***************************************************************************)

AtRest == page = "area-ballot" /\ entering = <<>>

(* Once every block has entered (_addItemToDiv's timer), the blocks stand   *)
(* in the order of the modules and show the chosen articles, each of them   *)
(* once: also after the page was left and the element made anew for them.   *)
BlocksShowSelection ==
  AtRest =>
    /\ \A i, j \in DOMAIN blocks :
         i <= j => ModuleIndex[blocks[i].item] <= ModuleIndex[blocks[j].item]
    /\ ToSet(selected) = {b.item : b \in ToSet(blocks)}
    /\ Len(blocks) = Len(selected) /\ IsInjective([i \in DOMAIN blocks |-> blocks[i].item])

(* The blocks are shares of one total: whatever bonuses change it, they all *)
(* are as wide as the total there is (resetItemsWidth), unless it changed   *)
(* while one was entering.                                                  *)
WidthsAreOfTotal == AtRest /\ ~hurried => \A b \in ToSet(blocks) : b.total = total

(* In whatever order the font and the changes come, the number is the       *)
(* points left, and it has the colour of a bonus only while its banner is   *)
(* on screen.                                                               *)
NumberIsPointsLeft ==
  page = "area-ballot" /\ font =>
    number.shows = total - used /\ (number.colour # "default" => banner)

(* The banner is hidden in the end, and the blocks are back and at rest,    *)
(* however many bonuses come in how quick a succession.                     *)
SceneComesToRest == banner \/ away ~> ~banner /\ ~away
=============================================================================
