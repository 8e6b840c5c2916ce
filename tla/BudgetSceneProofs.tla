-------------------------- MODULE BudgetSceneProofs --------------------------
(***************************************************************************)
(* What BudgetScene promises for every set of articles, prices and bonuses;*)
(* and, after it, what BallotSeries promises for every list of articles    *)
(* and every way to form series of them.                                   *)
(***************************************************************************)
EXTENDS BudgetScene, BallotSeries, SublistProofs

(* The points used never exceed the points there are: a toggle and a check  *)
(* see to it.                                                               *)
Affordable == used \in Int /\ total \in Int /\ used <= total

(* With the font there is a number, and it is up to date.                   *)
NumberIsUpToDate ==
  font =>
    /\ number \in [shows : Int, colour : {"default", "bonus"}]
    /\ number.shows = total - used
    /\ number.colour # "default" => banner

NumberInv == Affordable /\ font \in BOOLEAN /\ NumberIsUpToDate

-----------------------------------------------------------------------------
LEMMA InitHasNumber == Init => NumberInv
<1>1. StartPoints \in Nat
  BY SceneAssumption
<1> SUFFICES ASSUME Init PROVE NumberInv
  OBVIOUS
<1>2. used = 0 /\ total = StartPoints /\ font = FALSE
  BY DEF Init
<1>3. Affordable
  BY <1>1, <1>2 DEF Affordable
<1>4. NumberIsUpToDate
  BY <1>2 DEF NumberIsUpToDate
<1>5. QED
  BY <1>2, <1>3, <1>4 DEF NumberInv

(* A number made anew is what is left of the points there are.              *)
LEMMA RebuildKeeps ==
  ASSUME RebuildChoicePoints, Affordable', font' \in BOOLEAN
  PROVE  NumberInv'
BY DEF RebuildChoicePoints, PointsLeft, Affordable, NumberIsUpToDate, NumberInv

(* Steps that leave points, font, number and banner.                        *)
LEMMA NumberStays ==
  ASSUME NumberInv, UNCHANGED <<used, total, font, number, banner>>
  PROVE  NumberInv'
BY DEF NumberInv, Affordable, NumberIsUpToDate

(* A number that changes its colour only.                                   *)
LEMMA ColourKeeps ==
  ASSUME NumberInv, NEW colour \in {"default", "bonus"}, number' = [number EXCEPT !.colour = colour],
         colour = "default" \/ banner', UNCHANGED <<used, total, font>>
  PROVE  NumberInv'
<1>1. ASSUME font
      PROVE  /\ number' \in [shows : Int, colour : {"default", "bonus"}]
             /\ number'.shows = number.shows /\ number'.colour = colour
  BY <1>1 DEF NumberInv, NumberIsUpToDate
<1>2. QED
  BY <1>1 DEF NumberInv, Affordable, NumberIsUpToDate

(* A scene set up again has no font yet.                                    *)
LEMMA SetupKeeps ==
  ASSUME SetupScene, Affordable'
  PROVE  NumberInv'
BY DEF SetupScene, NumberInv, NumberIsUpToDate

LEMMA NextHasNumber ==
  ASSUME NumberInv, [Next]_vars
  PROVE  NumberInv'
<1>1. CASE FontArrives
  BY <1>1, RebuildKeeps DEF FontArrives, points, NumberInv, Affordable
<1>2. ASSUME NEW a \in Article, ToggleBudgetItem(a) PROVE NumberInv'
  <2>1. Price[a] \in Nat
    BY SceneAssumption
  <2>2. Affordable'
    BY <1>2, <2>1 DEF ToggleBudgetItem, NumberInv, Affordable
  <2>3. QED
    BY <1>2, <2>2, RebuildKeeps DEF ToggleBudgetItem, NumberInv
<1>3. ASSUME NEW amount \in Amounts, CheckBonusesAndPenalties(amount) PROVE NumberInv'
  <2>1. amount \in Int
    BY SceneAssumption
  <2>2. Affordable' /\ font' \in BOOLEAN
    BY <1>3, <2>1 DEF CheckBonusesAndPenalties, NumberInv, Affordable
  <2>3. CASE total' # total
    BY <1>3, <2>2, <2>3, RebuildKeeps DEF CheckBonusesAndPenalties
  <2>4. CASE total' = total
    BY <1>3, <2>4, NumberStays DEF CheckBonusesAndPenalties
  <2>5. QED
    BY <2>3, <2>4
<1>4. CASE BlockEnters \/ BannerFlies \/ \E move \in {"out", "home"} : MoveEnds(move)
  BY <1>4, NumberStays DEF BlockEnters, BannerFlies, MoveEnds, points, flight
<1>5. CASE LeavePage \/ ReturnToPage
  BY <1>5, SetupKeeps DEF LeavePage, ReturnToPage, points, NumberInv, Affordable
<1>6. CASE ResetSelectArticles
  BY <1>6, SetupKeeps, SceneAssumption DEF ResetSelectArticles, Affordable
<1>7. CASE BonusPenalty3dText
  <2>1. CASE font
    <3>1. number' = [number EXCEPT !.colour = "bonus"] /\ banner' = TRUE /\ UNCHANGED <<used, total, font>>
      BY <1>7, <2>1 DEF BonusPenalty3dText, points
    <3>2. QED
      BY <3>1, ColourKeeps
  <2>2. CASE ~font
    BY <1>7, <2>2, NumberStays DEF BonusPenalty3dText, points
  <2>3. QED
    BY <2>1, <2>2
<1>8. CASE BannerIsGone
  <2>1. number' = [number EXCEPT !.colour = "default"] /\ UNCHANGED <<used, total, font>>
    BY <1>8 DEF BannerIsGone, points
  <2>2. QED
    BY <2>1, ColourKeeps
<1>9. CASE UNCHANGED vars
  BY <1>9, NumberStays DEF vars, points, flight
<1>10. QED
  BY <1>1, <1>2, <1>3, <1>4, <1>5, <1>6, <1>7, <1>8, <1>9 DEF Next, TimerFires, TweenEnds

(* In whatever order font, choices, bonuses and banners come, the number on *)
(* the scene is the points left.                                            *)
THEOREM SceneNumberIsPointsLeft == Spec => []NumberIsPointsLeft
<1>1. NumberInv => NumberIsPointsLeft
  BY DEF NumberInv, NumberIsUpToDate, NumberIsPointsLeft
<1>2. QED
  BY <1>1, InitHasNumber, NextHasNumber, PTL DEF Spec

-----------------------------------------------------------------------------
(***************************************************************************)
(* What the operators on the blocks do.                                    *)
(***************************************************************************)

Block == [item : Article, total : Int]
InModuleOrder(list) ==
  \A i, j \in 1 .. Len(list) : i < j => ModuleIndex[list[i].item] <= ModuleIndex[list[j].item]
ItemsDiffer(list) == \A i, j \in 1 .. Len(list) : i < j => list[i].item # list[j].item
Shows(list, a) == \E b \in Block : Has(list, b) /\ b.item = a

LEMMA ShownAt ==
  ASSUME NEW list \in Seq(Block), NEW a
  PROVE  Shows(list, a) <=> \E i \in 1 .. Len(list) : list[i].item = a
<1>1. \A i \in 1 .. Len(list) : list[i] \in Block
  OBVIOUS
<1>2. QED
  BY <1>1 DEF Shows, Has

(* A positioned block is the only one that comes to a list.                 *)
LEMMA PositionAdds ==
  ASSUME NEW list \in Seq(Block), NEW block \in Block, NEW r, r = PositionItems(list, block)
  PROVE  r \in Seq(Block) /\ Len(r) = Len(list) + 1 /\ \A y : Has(r, y) <=> y = block \/ Has(list, y)
<1> DEFINE T == {b \in ToSet(list) : ModuleIndex[b.item] <= ModuleIndex[block.item]}
<1>1. r = InsertAfter(list, T, block)
  BY DEF PositionItems
<1> HIDE DEF T
<1>2. QED
  BY <1>1, InsertHas

LEMMA PositionKeepsOrder ==
  ASSUME NEW list \in Seq(Block), NEW block \in Block, NEW r, r = PositionItems(list, block),
         InModuleOrder(list)
  PROVE  InModuleOrder(r)
<1> DEFINE T == {b \in ToSet(list) : ModuleIndex[b.item] <= ModuleIndex[block.item]}
           R == {p \in Block \X Block : ModuleIndex[p[1].item] <= ModuleIndex[p[2].item]}
<1>1. r = InsertAfter(list, T, block)
  BY DEF PositionItems
<1>2. \A a, b : <<a, b>> \in R <=> a \in Block /\ b \in Block /\ ModuleIndex[a.item] <= ModuleIndex[b.item]
  OBVIOUS
<1>3. \A i \in 1 .. Len(list) :
        list[i] \in T <=> ModuleIndex[list[i].item] <= ModuleIndex[block.item]
  BY DEF ToSet
<1> HIDE DEF T, R
<1>4. \A b \in Block : ModuleIndex[b.item] \in Nat
  BY SceneAssumption DEF Block
<1>5. \A i \in 1 .. Len(list) : list[i] \in Block
  OBVIOUS
<1>6. Ordered(list, R)
  BY <1>2, <1>5 DEF InModuleOrder, Ordered
<1>7. FitsIn(block, list, T, R)
  <2>1. \A i \in 1 .. Len(list) :
          IF list[i] \in T THEN <<list[i], block>> \in R ELSE <<block, list[i]>> \in R
    BY <1>2, <1>3, <1>4, <1>5
  <2>2. \A i, j \in 1 .. Len(list) :
          list[i] \in T /\ list[j] \notin T => <<list[i], list[j]>> \in R
    BY <1>2, <1>3, <1>4, <1>5
  <2>3. QED
    BY <2>1, <2>2 DEF FitsIn
<1>8. Ordered(r, R)
  BY <1>1, <1>6, <1>7, InsertKeepsOrder
<1>9. QED
  BY <1>2, <1>8 DEF InModuleOrder, Ordered

LEMMA PositionKeepsDiffering ==
  ASSUME NEW list \in Seq(Block), NEW block \in Block, NEW r, r = PositionItems(list, block),
         ItemsDiffer(list), ~Shows(list, block.item)
  PROVE  ItemsDiffer(r)
<1> DEFINE T == {b \in ToSet(list) : ModuleIndex[b.item] <= ModuleIndex[block.item]}
           R == {p \in Block \X Block : p[1].item # p[2].item}
<1>1. r = InsertAfter(list, T, block)
  BY DEF PositionItems
<1>2. \A a, b : <<a, b>> \in R <=> a \in Block /\ b \in Block /\ a.item # b.item
  OBVIOUS
<1>3. \A i, j \in 1 .. Len(list) :
        list[i] \in T /\ list[j] \notin T => ModuleIndex[list[i].item] # ModuleIndex[list[j].item]
  BY DEF ToSet
<1> HIDE DEF T, R
<1>4. \A i \in 1 .. Len(list) : list[i] \in Block
  OBVIOUS
<1>5. Ordered(list, R)
  BY <1>2, <1>4 DEF ItemsDiffer, Ordered
<1>6. FitsIn(block, list, T, R)
  <2>1. \A i \in 1 .. Len(list) :
          IF list[i] \in T THEN <<list[i], block>> \in R ELSE <<block, list[i]>> \in R
    BY <1>2, <1>4, ShownAt
  <2>2. \A i, j \in 1 .. Len(list) :
          list[i] \in T /\ list[j] \notin T => <<list[i], list[j]>> \in R
    BY <1>2, <1>3, <1>4
  <2>3. QED
    BY <2>1, <2>2 DEF FitsIn
<1>7. Ordered(r, R)
  BY <1>1, <1>5, <1>6, InsertKeepsOrder
<1>8. QED
  BY <1>2, <1>7 DEF ItemsDiffer, Ordered

(* A chosen article is the only one that comes to the selection.            *)
LEMMA ArticleIsAdded ==
  ASSUME NEW list \in Seq(Article), NEW a \in Article, NEW r, r = WithArticle(list, a)
  PROVE  r \in Seq(Article) /\ Len(r) = Len(list) + 1 /\ \A y : Has(r, y) <=> y = a \/ Has(list, y)
<1> DEFINE T == {b \in ToSet(list) : ModuleIndex[b] <= ModuleIndex[a]}
<1>1. r = InsertAfter(list, T, a)
  BY DEF WithArticle
<1> HIDE DEF T
<1>2. QED
  BY <1>1, InsertHas

LEMMA ArticlesDiffer ==
  ASSUME NEW list \in Seq(Article), NEW a \in Article, NEW r, r = WithArticle(list, a),
         AllDiffer(list), ~Has(list, a)
  PROVE  AllDiffer(r)
<1> DEFINE T == {b \in ToSet(list) : ModuleIndex[b] <= ModuleIndex[a]}
           R == {p \in Article \X Article : p[1] # p[2]}
<1>1. r = InsertAfter(list, T, a)
  BY DEF WithArticle
<1>2. \A b, c : <<b, c>> \in R <=> b \in Article /\ c \in Article /\ b # c
  OBVIOUS
<1> HIDE DEF T, R
<1>3. \A i \in 1 .. Len(list) : list[i] \in Article
  OBVIOUS
<1>4. Ordered(list, R)
  BY <1>2, <1>3 DEF AllDiffer, Ordered
<1>5. FitsIn(a, list, T, R)
  <2>1. \A i \in 1 .. Len(list) : IF list[i] \in T THEN <<list[i], a>> \in R ELSE <<a, list[i]>> \in R
    BY <1>2, <1>3 DEF Has
  <2>2. \A i, j \in 1 .. Len(list) :
          list[i] \in T /\ list[j] \notin T => <<list[i], list[j]>> \in R
    BY <1>2, <1>3
  <2>3. QED
    BY <2>1, <2>2 DEF FitsIn
<1>6. Ordered(r, R)
  BY <1>1, <1>4, <1>5, InsertKeepsOrder
<1>7. QED
  BY <1>2, <1>6 DEF AllDiffer, Ordered

(* The indices that a removal keeps, in their order.                        *)
LEMMA KeptAre ==
  ASSUME NEW list \in Seq(Block), NEW a, NEW kept, kept = KeptIndices(list, a)
  PROVE  /\ kept \in Seq(Nat)
         /\ \A k \in 1 .. Len(kept) : kept[k] \in 1 .. Len(list) /\ kept[k] \notin RemovedIndices(list, a)
         /\ \A j \in 1 .. Len(list) :
              j \notin RemovedIndices(list, a) => \E k \in 1 .. Len(kept) : kept[k] = j
         /\ \A k, l \in 1 .. Len(kept) : k < l => kept[k] < kept[l]
<1> DEFINE indices == [i \in 1 .. Len(list) |-> i]
           T == DOMAIN list \ RemovedIndices(list, a)
           R == {p \in Nat \X Nat : p[1] < p[2]}
<1>1. kept = FilterSeq(indices, T)
  BY DEF KeptIndices
<1>2. /\ indices \in Seq(Nat) /\ Len(indices) = Len(list)
      /\ \A i \in 1 .. Len(list) : indices[i] = i
  OBVIOUS
<1>3. \A i : i \in T <=> i \in 1 .. Len(list) /\ i \notin RemovedIndices(list, a)
  OBVIOUS
<1>4. \A i, j : <<i, j>> \in R <=> i \in Nat /\ j \in Nat /\ i < j
  OBVIOUS
<1> HIDE DEF indices, T, R
<1>5. /\ kept \in Seq(Nat)
      /\ \A k \in 1 .. Len(kept) : kept[k] \in T
      /\ \A j \in 1 .. Len(indices) : indices[j] \in T => \E k \in 1 .. Len(kept) : kept[k] = indices[j]
  <2> DEFINE left == FilterSeq(indices, T)
  <2>1. left \in Seq(Nat)
    BY <1>2, FilterEntries
  <2>2. \A k \in 1 .. Len(left) : left[k] \in T
    BY <1>2, FilterEntries
  <2>3. \A j \in 1 .. Len(indices) : indices[j] \in T => \E k \in 1 .. Len(left) : left[k] = indices[j]
    BY <1>2, FilterEntries
  <2>4. QED
    BY <1>1, <2>1, <2>2, <2>3, Zenon
<1>6. \A i, j \in 1 .. Len(indices) : i < j => <<indices[i], indices[j]>> \in R
  <2> SUFFICES ASSUME NEW i \in 1 .. Len(list), NEW j \in 1 .. Len(list), i < j
               PROVE  <<i, j>> \in R
    BY <1>2
  <2>1. i \in Nat /\ j \in Nat
    OBVIOUS
  <2>2. QED
    BY <1>4, <2>1
<1>7. \A k, l \in 1 .. Len(kept) : k < l => <<kept[k], kept[l]>> \in R
  BY <1>1, <1>2, <1>6, FilterKeepsOrder
<1>8. \A k, l \in 1 .. Len(kept) : k < l => kept[k] < kept[l]
  BY <1>4, <1>7
<1>9. \A j \in 1 .. Len(list) :
        j \notin RemovedIndices(list, a) => \E k \in 1 .. Len(kept) : kept[k] = j
  BY <1>2, <1>3, <1>5
<1>10. QED
  BY <1>3, <1>5, <1>8, <1>9

(* A removal takes blocks of its article only, and leaves the others in     *)
(* their order.                                                             *)
LEMMA RemovalLeaves ==
  ASSUME NEW list \in Seq(Block), NEW a, NEW r, r = RemoveItemFromDiv(list, a)
  PROVE  /\ r \in Seq(Block)
         /\ \A y : Has(r, y) => Has(list, y)
         /\ \A b : b # a /\ Shows(list, b) => Shows(r, b)
         /\ InModuleOrder(list) => InModuleOrder(r)
         /\ ItemsDiffer(list) => ItemsDiffer(r)
<1> DEFINE kept == KeptIndices(list, a)
<1>1. /\ kept \in Seq(Nat)
      /\ \A k \in 1 .. Len(kept) : kept[k] \in 1 .. Len(list)
      /\ \A j \in 1 .. Len(list) :
           j \notin RemovedIndices(list, a) => \E k \in 1 .. Len(kept) : kept[k] = j
      /\ \A k, l \in 1 .. Len(kept) : k < l => kept[k] < kept[l]
  BY KeptAre
<1>2. r = [k \in 1 .. Len(kept) |-> list[kept[k]]]
  BY DEF RemoveItemFromDiv
<1> HIDE DEF kept
<1>3. Len(kept) \in Nat
  BY <1>1
<1>4. r \in Seq(Block) /\ Len(r) = Len(kept)
  BY <1>1, <1>2, <1>3
<1>5. \A k \in 1 .. Len(r) : r[k] = list[kept[k]]
  BY <1>2, <1>4
<1>6. \A y : Has(r, y) => Has(list, y)
  BY <1>1, <1>4, <1>5 DEF Has
<1>7. \A j \in 1 .. Len(list) : j \in RemovedIndices(list, a) => list[j].item = a
  BY DEF RemovedIndices
<1>8. ASSUME NEW b, b # a, Shows(list, b) PROVE Shows(r, b)
  <2>1. PICK j \in 1 .. Len(list) : list[j].item = b
    BY <1>8, ShownAt
  <2>2. PICK k \in 1 .. Len(kept) : kept[k] = j
    BY <1>1, <1>7, <1>8, <2>1
  <2>3. QED
    BY <1>4, <1>5, <2>1, <2>2, ShownAt
<1>9. InModuleOrder(list) => InModuleOrder(r)
  BY <1>1, <1>4, <1>5 DEF InModuleOrder
<1>10. ItemsDiffer(list) => ItemsDiffer(r)
  BY <1>1, <1>4, <1>5 DEF ItemsDiffer
<1>11. QED
  BY <1>4, <1>6, <1>8, <1>9, <1>10

(* Where each article has one block, the one of the article is removed.     *)
LEMMA RemovalOfTheOne ==
  ASSUME NEW list \in Seq(Block), NEW a, NEW r, r = RemoveItemFromDiv(list, a),
         ItemsDiffer(list), Shows(list, a)
  PROVE  ~Shows(r, a) /\ Len(r) + 1 = Len(list)
<1> DEFINE kept == KeptIndices(list, a)
           indices == [i \in 1 .. Len(list) |-> i]
           T == DOMAIN list \ RemovedIndices(list, a)
<1>1. PICK j \in 1 .. Len(list) : list[j].item = a
  BY ShownAt
<1>2. \A i \in 1 .. Len(list) : list[i].item = a => i = j
  <2> SUFFICES ASSUME NEW i \in 1 .. Len(list), list[i].item = a, i # j
               PROVE  FALSE
    OBVIOUS
  <2>1. i < j \/ j < i
    OBVIOUS
  <2>2. QED
    BY <1>1, <2>1 DEF ItemsDiffer
<1>3. \A i \in 1 .. Len(list) : i \in RemovedIndices(list, a) <=> i = j
  <2>1. \A i \in RemovedIndices(list, a) : i \in 1 .. Len(list) /\ list[i].item = a
    BY DEF RemovedIndices
  <2>2. j \in RemovedIndices(list, a)
    <3>1. j \in 1 .. j /\ (j - j) % 2 = 0 /\ \A i \in j .. j : list[i].item = a
      BY <1>1
    <3>2. j = 1 \/ list[j - 1].item # a
      <4>1. j # 1 => j - 1 \in 1 .. Len(list) /\ j - 1 # j
        OBVIOUS
      <4>2. QED
        BY <1>2, <4>1
    <3>3. QED
      BY <3>1, <3>2 DEF RemovedIndices
  <2>3. QED
    BY <1>2, <2>1, <2>2
<1>4. /\ kept \in Seq(Nat) /\ Len(kept) \in Nat
      /\ \A k \in 1 .. Len(kept) : kept[k] \in 1 .. Len(list) /\ kept[k] \notin RemovedIndices(list, a)
  BY KeptAre
<1>5. kept = FilterSeq(indices, T)
  BY DEF KeptIndices
<1>6. indices \in Seq(Nat) /\ Len(indices) = Len(list) /\ AllDiffer(indices)
  BY DEF AllDiffer
<1>7. \A i \in 1 .. Len(indices) : indices[i] \in T <=> indices[i] # indices[j]
  BY <1>3
<1>8. Len(kept) + 1 = Len(list)
  <2> HIDE DEF kept, indices, T
  <2>1. QED
    BY <1>5, <1>6, <1>7, FilterOneOut
<1>9. r = [k \in 1 .. Len(kept) |-> list[kept[k]]]
  BY DEF RemoveItemFromDiv
<1> HIDE DEF kept, indices, T
<1>10. Len(r) = Len(kept) /\ \A k \in 1 .. Len(r) : r[k] = list[kept[k]]
  BY <1>4, <1>9
<1>11. ~Shows(r, a)
  <2>1. r \in Seq(Block)
    BY RemovalLeaves
  <2>2. \A k \in 1 .. Len(r) : r[k].item # a
    BY <1>2, <1>3, <1>4, <1>10
  <2>3. QED
    BY <2>1, <2>2, ShownAt
<1>12. QED
  BY <1>8, <1>10, <1>11

-----------------------------------------------------------------------------
(***************************************************************************)
(* The blocks are shares of one total.                                     *)
(***************************************************************************)

SceneTypes == selected \in Seq(Article) /\ blocks \in Seq(Block) /\ entering \in Seq(Block)

AreOfTotal(list, n) == \A b \in Block : Has(list, b) => b.total = n

(* Also those that are still entering, as long as the total did not change  *)
(* meanwhile.                                                               *)
WidthsInv ==
  page = "area-ballot" /\ ~hurried => AreOfTotal(blocks, total) /\ AreOfTotal(entering, total)

LEMMA BlocksAreMade ==
  ASSUME NEW list \in Seq(Article), total \in Int, NEW r, r = AddItemsToDiv(list)
  PROVE  /\ r \in Seq(Block) /\ Len(r) = Len(list) /\ AreOfTotal(r, total)
         /\ \A a : Shows(r, a) <=> Has(list, a)
         /\ AllDiffer(list) => ItemsDiffer(r)
<1>1. DOMAIN list = 1 .. Len(list) /\ Len(list) \in Nat /\ \A i \in 1 .. Len(list) : list[i] \in Article
  OBVIOUS
<1>2. r = [i \in 1 .. Len(list) |-> [item |-> list[i], total |-> total]]
  BY <1>1 DEF AddItemsToDiv
<1>3. \A i \in 1 .. Len(list) : [item |-> list[i], total |-> total] \in Block
  BY <1>1 DEF Block
<1>4. r \in Seq(Block) /\ Len(r) = Len(list)
  BY <1>1, <1>2, <1>3
<1>5. \A i \in 1 .. Len(list) : r[i].item = list[i] /\ r[i].total = total
  BY <1>2
<1>6. AreOfTotal(r, total)
  BY <1>4, <1>5 DEF AreOfTotal, Has
<1>7. \A a : Shows(r, a) <=> Has(list, a)
  BY <1>4, <1>5, ShownAt DEF Has
<1>8. AllDiffer(list) => ItemsDiffer(r)
  BY <1>4, <1>5 DEF AllDiffer, ItemsDiffer
<1>9. QED
  BY <1>4, <1>6, <1>7, <1>8

LEMMA WidthsReset ==
  ASSUME NEW list \in Seq(Block), total' \in Int, NEW r, r = ResetItemsWidth(list)
  PROVE  /\ r \in Seq(Block) /\ Len(r) = Len(list) /\ AreOfTotal(r, total')
         /\ \A a : Shows(r, a) <=> Shows(list, a)
         /\ InModuleOrder(list) => InModuleOrder(r)
         /\ ItemsDiffer(list) => ItemsDiffer(r)
<1>1. DOMAIN list = 1 .. Len(list) /\ Len(list) \in Nat /\ \A i \in 1 .. Len(list) : list[i] \in Block
  OBVIOUS
<1>2. r = [i \in 1 .. Len(list) |-> [list[i] EXCEPT !.total = total']]
  BY <1>1 DEF ResetItemsWidth
<1>3. \A b \in Block : /\ [b EXCEPT !.total = total'] \in Block
                        /\ [b EXCEPT !.total = total'].item = b.item
                        /\ [b EXCEPT !.total = total'].total = total'
  BY DEF Block
<1>4. r \in Seq(Block) /\ Len(r) = Len(list)
  BY <1>1, <1>2, <1>3
<1>5. \A i \in 1 .. Len(list) : r[i].item = list[i].item /\ r[i].total = total'
  <2> SUFFICES ASSUME NEW i \in 1 .. Len(list)
               PROVE  r[i].item = list[i].item /\ r[i].total = total'
    OBVIOUS
  <2>1. r[i] = [list[i] EXCEPT !.total = total'] /\ list[i] \in Block
    BY <1>1, <1>2
  <2>2. QED
    BY <1>3, <2>1
<1>6. AreOfTotal(r, total')
  BY <1>4, <1>5 DEF AreOfTotal, Has
<1>7. \A a : Shows(r, a) <=> Shows(list, a)
  BY <1>4, <1>5, ShownAt
<1>8. (InModuleOrder(list) => InModuleOrder(r)) /\ (ItemsDiffer(list) => ItemsDiffer(r))
  BY <1>4, <1>5 DEF InModuleOrder, ItemsDiffer
<1>9. QED
  BY <1>4, <1>6, <1>7, <1>8

LEMMA SceneTyped ==
  ASSUME NumberInv, SceneTypes, [Next]_vars
  PROVE  SceneTypes'
<1>1. total \in Int
  BY DEF NumberInv, Affordable
<1>2. <<>> \in Seq(Article) /\ <<>> \in Seq(Block)
  OBVIOUS
<1>3. CASE UNCHANGED <<selected, blocks, entering>>
  BY <1>3 DEF SceneTypes
<1>4. ASSUME NEW a \in Article, ToggleBudgetItem(a) PROVE SceneTypes'
  <2>1. CASE selected' = WithArticle(selected, a) /\ entering' = entering \o AddItemsToDiv(<<a>>) /\ UNCHANGED blocks
    <3>1. selected' \in Seq(Article)
      BY <2>1, ArticleIsAdded DEF SceneTypes
    <3>2. <<a>> \in Seq(Article)
      OBVIOUS
    <3>3. AddItemsToDiv(<<a>>) \in Seq(Block)
      BY <1>1, <3>2, BlocksAreMade
    <3>4. entering' \in Seq(Block)
      BY <2>1, <3>3, Concatenated DEF SceneTypes
    <3>5. QED
      BY <2>1, <3>1, <3>4 DEF SceneTypes
  <2>2. CASE selected' = FilterSeq(selected, Article \ {a}) /\ blocks' = RemoveItemFromDiv(blocks, a) /\ UNCHANGED entering
    <3>1. selected' \in Seq(Article)
      BY <2>2, FilterEntries DEF SceneTypes
    <3>2. blocks' \in Seq(Block)
      BY <2>2, RemovalLeaves DEF SceneTypes
    <3>3. QED
      BY <2>2, <3>1, <3>2 DEF SceneTypes
  <2>3. QED
    BY <1>4, <2>1, <2>2 DEF ToggleBudgetItem
<1>5. ASSUME NEW amount \in Amounts, CheckBonusesAndPenalties(amount) PROVE SceneTypes'
  <2>1. total' \in Int
    BY <1>5, NextHasNumber DEF Next, NumberInv, Affordable
  <2>2. ResetItemsWidth(blocks) \in Seq(Block)
    BY <2>1, WidthsReset DEF SceneTypes
  <2>3. QED
    BY <1>5, <2>2 DEF CheckBonusesAndPenalties, Updated, SceneTypes
<1>7. CASE ReturnToPage
  BY <1>1, <1>2, <1>7, BlocksAreMade DEF ReturnToPage, FirstUpdated, SetupScene, points, SceneTypes
<1>8. CASE LeavePage \/ ResetSelectArticles
  BY <1>2, <1>8 DEF LeavePage, ResetSelectArticles, SetupScene, points, SceneTypes
<1>9. CASE BlockEnters
  <2>1. Head(entering) \in Block /\ Tail(entering) \in Seq(Block)
    BY <1>9, HeadAndTail DEF BlockEnters, SceneTypes
  <2>2. PositionItems(blocks, Head(entering)) \in Seq(Block)
    BY <2>1, PositionAdds DEF SceneTypes
  <2>3. QED
    BY <1>9, <2>1, <2>2 DEF BlockEnters, points, SceneTypes
<1>10. CASE FontArrives \/ BonusPenalty3dText \/ BannerFlies \/ TweenEnds \/ UNCHANGED vars
  BY <1>3, <1>10 DEF FontArrives, BonusPenalty3dText, BannerFlies, TweenEnds, BannerIsGone, MoveEnds,
                     points, scene, vars
<1>11. QED
  BY <1>4, <1>5, <1>7, <1>8, <1>9, <1>10 DEF Next, TimerFires

LEMMA NothingHasWidths == \A n : AreOfTotal(<<>>, n)
BY DEF AreOfTotal, Has

LEMMA WidthsKept ==
  ASSUME NumberInv, SceneTypes, WidthsInv, [Next]_vars
  PROVE  WidthsInv'
<1>1. total \in Int /\ total' \in Int
  BY NextHasNumber DEF NumberInv, Affordable
<1>2. CASE UNCHANGED <<page, total, blocks, entering, hurried>>
  BY <1>2 DEF WidthsInv
<1>3. ASSUME NEW new \in Seq(Block), AreOfTotal(new, total), entering' = entering \o new
      PROVE  AreOfTotal(entering, total) => AreOfTotal(entering', total)
  <2>1. \A y : Has(entering', y) => Has(entering, y) \/ Has(new, y)
    BY <1>3, ConcatenatedHas DEF SceneTypes
  <2>2. QED
    BY <1>3, <2>1 DEF AreOfTotal
<1>4. ASSUME NEW a \in Article, ToggleBudgetItem(a) PROVE WidthsInv'
  <2>1. UNCHANGED <<page, total, hurried>>
    BY <1>4 DEF ToggleBudgetItem
  <2>2. CASE entering' = entering \o AddItemsToDiv(<<a>>) /\ UNCHANGED blocks
    <3>1. <<a>> \in Seq(Article)
      OBVIOUS
    <3>2. AddItemsToDiv(<<a>>) \in Seq(Block) /\ AreOfTotal(AddItemsToDiv(<<a>>), total)
      BY <1>1, <3>1, BlocksAreMade
    <3>3. QED
      BY <1>3, <2>1, <2>2, <3>2 DEF WidthsInv
  <2>3. CASE blocks' = RemoveItemFromDiv(blocks, a) /\ UNCHANGED entering
    <3>1. \A y : Has(blocks', y) => Has(blocks, y)
      BY <2>3, RemovalLeaves DEF SceneTypes
    <3>2. QED
      BY <2>1, <2>3, <3>1 DEF WidthsInv, AreOfTotal
  <2>4. QED
    BY <1>4, <2>2, <2>3 DEF ToggleBudgetItem
<1>5. ASSUME NEW amount \in Amounts, CheckBonusesAndPenalties(amount) PROVE WidthsInv'
  <2>1. CASE total' = total
    BY <1>5, <2>1 DEF CheckBonusesAndPenalties, Updated, WidthsInv
  <2>2. CASE total' # total
    <3>1. AreOfTotal(blocks', total')
      BY <1>1, <1>5, <2>2, WidthsReset DEF CheckBonusesAndPenalties, Updated, SceneTypes
    <3>2. ~hurried' => AreOfTotal(entering', total')
      BY <1>5, NothingHasWidths DEF CheckBonusesAndPenalties
    <3>3. QED
      BY <3>1, <3>2 DEF WidthsInv
  <2>3. QED
    BY <2>1, <2>2
<1>7. CASE LeavePage \/ ReturnToPage \/ ResetSelectArticles
  <2>1. blocks' = <<>>
    BY <1>7 DEF LeavePage, ReturnToPage, ResetSelectArticles, SetupScene
  <2>2. AreOfTotal(entering', total')
    BY <1>1, <1>7, NothingHasWidths, BlocksAreMade
       DEF LeavePage, ReturnToPage, FirstUpdated, ResetSelectArticles, points, SceneTypes
  <2>3. QED
    BY <2>1, <2>2, NothingHasWidths DEF WidthsInv
<1>8. CASE BlockEnters
  <2> DEFINE first == Head(entering)
  <2>1. /\ blocks' = PositionItems(blocks, first) /\ entering' = Tail(entering) /\ entering # <<>>
        /\ UNCHANGED <<page, total, hurried>>
    BY <1>8 DEF BlockEnters, points
  <2>2. first \in Block /\ \A y : Has(entering, y) <=> y = first \/ Has(entering', y)
    BY <2>1, TailHas DEF SceneTypes
  <2> HIDE DEF first
  <2>3. \A y : Has(blocks', y) => y = first \/ Has(blocks, y)
    BY <2>1, <2>2, PositionAdds DEF SceneTypes
  <2>4. QED
    BY <2>1, <2>2, <2>3 DEF WidthsInv, AreOfTotal
<1>9. CASE FontArrives \/ BonusPenalty3dText \/ BannerFlies \/ TweenEnds \/ UNCHANGED vars
  BY <1>2, <1>9 DEF FontArrives, BonusPenalty3dText, BannerFlies, TweenEnds, BannerIsGone, MoveEnds,
                    points, scene, vars
<1>10. QED
  BY <1>4, <1>5, <1>7, <1>8, <1>9 DEF Next, TimerFires

(* Whatever bonuses and penalties change the total, all blocks are as wide  *)
(* as their share of the one there is (unless one entered meanwhile).       *)
THEOREM SceneWidthsAreOfTotal == Spec => []WidthsAreOfTotal
<1> DEFINE Inv == NumberInv /\ SceneTypes /\ WidthsInv
<1>1. Init => Inv
  <2>1. Init => SceneTypes
    BY DEF Init, SceneTypes
  <2>2. Init => WidthsInv
    BY NothingHasWidths DEF Init, WidthsInv
  <2>3. QED
    BY <2>1, <2>2, InitHasNumber
<1>2. Inv /\ [Next]_vars => Inv'
  BY NextHasNumber, SceneTyped, WidthsKept
<1>3. Inv => WidthsAreOfTotal
  <2>1. SceneTypes => \A b \in ToSet(blocks) : b \in Block /\ Has(blocks, b)
    BY DEF ToSet, SceneTypes, Has
  <2>2. QED
    BY <2>1 DEF WidthsInv, AreOfTotal, WidthsAreOfTotal, AtRest
<1> HIDE DEF Inv
<1>4. QED
  BY <1>1, <1>2, <1>3, PTL DEF Spec

-----------------------------------------------------------------------------
(***************************************************************************)
(* The blocks show the selection.                                          *)
(***************************************************************************)

(* Each chosen article has one block, in the scene or on its way, and there *)
(* are no others.                                                           *)
OneBlockEach ==
  /\ Len(blocks) + Len(entering) = Len(selected)
  /\ ItemsDiffer(blocks) /\ ItemsDiffer(entering)
  /\ \A a \in Article : Shows(blocks, a) \/ Shows(entering, a) => Has(selected, a)
  /\ \A a \in Article : ~(Shows(blocks, a) /\ Shows(entering, a))

ShowInv ==
  /\ AllDiffer(selected) /\ InModuleOrder(blocks)
  /\ page = "area-ballot" =>
       /\ \A a \in Article : Has(selected, a) => Shows(blocks, a) \/ Shows(entering, a)
       /\ OneBlockEach

LEMMA ConcatenatedShows ==
  ASSUME NEW s \in Seq(Block), NEW t \in Seq(Block), NEW r, r = s \o t
  PROVE  \A a : Shows(r, a) <=> Shows(s, a) \/ Shows(t, a)
<1>1. \A y : Has(r, y) <=> Has(s, y) \/ Has(t, y)
  BY ConcatenatedHas
<1>2. QED
  BY <1>1 DEF Shows

LEMMA ConcatenatedDiffer ==
  ASSUME NEW s \in Seq(Block), NEW t \in Seq(Block), NEW r, r = s \o t,
         ItemsDiffer(s), ItemsDiffer(t), \A a \in Article : ~(Shows(s, a) /\ Shows(t, a))
  PROVE  ItemsDiffer(r)
<1>1. Len(s) \in Nat /\ Len(t) \in Nat
  OBVIOUS
<1>2. \A k \in 1 .. Len(s) : r[k] = s[k]
  BY Concatenated
<1>3. \A k \in 1 .. Len(t) : r[Len(s) + k] = t[k]
  BY Concatenated
<1>4. \A k \in 1 .. Len(r) :
        k \in 1 .. Len(s) \/ (k - Len(s) \in 1 .. Len(t) /\ k = Len(s) + (k - Len(s)))
  BY Concatenated
<1>5. \A i \in 1 .. Len(s), j \in 1 .. Len(t) : s[i].item # t[j].item
  <2> SUFFICES ASSUME NEW i \in 1 .. Len(s), NEW j \in 1 .. Len(t), s[i].item = t[j].item
               PROVE  FALSE
    OBVIOUS
  <2>1. s[i] \in Block /\ t[j] \in Block
    OBVIOUS
  <2>2. s[i].item \in Article
    BY <2>1 DEF Block
  <2>3. Shows(s, s[i].item) /\ Shows(t, s[i].item)
    BY ShownAt
  <2>4. QED
    BY <2>2, <2>3
<1>6. ASSUME NEW i \in 1 .. Len(r), NEW j \in 1 .. Len(r), i < j
      PROVE  r[i].item # r[j].item
  <2>1. i \in Int /\ j \in Int
    OBVIOUS
  <2>2. CASE j \in 1 .. Len(s)
    <3>1. i \in 1 .. Len(s)
      BY <1>1, <1>6, <2>1, <2>2
    <3>2. QED
      BY <1>2, <1>6, <2>2, <3>1 DEF ItemsDiffer
  <2>3. CASE j - Len(s) \in 1 .. Len(t) /\ j = Len(s) + (j - Len(s))
    <3>1. r[j] = t[j - Len(s)]
      BY <1>3, <2>3
    <3>2. CASE i \in 1 .. Len(s)
      BY <1>2, <1>5, <2>3, <3>1, <3>2
    <3>3. CASE i - Len(s) \in 1 .. Len(t) /\ i = Len(s) + (i - Len(s))
      <4>1. r[i] = t[i - Len(s)]
        BY <1>3, <3>3
      <4>2. i - Len(s) < j - Len(s)
        BY <1>1, <1>6, <2>1
      <4>3. QED
        BY <2>3, <3>1, <3>3, <4>1, <4>2 DEF ItemsDiffer
    <3>4. QED
      BY <1>4, <3>2, <3>3
  <2>4. QED
    BY <1>4, <2>2, <2>3
<1>7. QED
  BY <1>6 DEF ItemsDiffer

(* A block that enters was the only one of its article on the way.          *)
LEMMA TailShows ==
  ASSUME NEW s \in Seq(Block), s # <<>>, NEW t, t = Tail(s)
  PROVE  /\ \A a : Shows(s, a) <=> a = Head(s).item \/ Shows(t, a)
         /\ ItemsDiffer(s) => ItemsDiffer(t) /\ ~Shows(t, Head(s).item)
<1>1. Head(s) \in Block /\ t \in Seq(Block) /\ \A y : Has(s, y) <=> y = Head(s) \/ Has(t, y)
  BY TailHas
<1>2. \A a : Shows(s, a) <=> a = Head(s).item \/ Shows(t, a)
  BY <1>1 DEF Shows
<1>3. Head(s) = s[1] /\ 1 \in 1 .. Len(s)
  BY HeadAndTail
<1>4. \A i \in 1 .. Len(t) : i + 1 \in 1 .. Len(s) /\ t[i] = s[i + 1]
  BY HeadAndTail
<1>5. ASSUME ItemsDiffer(s) PROVE ItemsDiffer(t)
  <2>1. \A i, j \in 1 .. Len(t) : i < j => i + 1 < j + 1
    OBVIOUS
  <2>2. QED
    BY <1>4, <1>5, <2>1 DEF ItemsDiffer
<1>6. ASSUME ItemsDiffer(s) PROVE ~Shows(t, Head(s).item)
  <2>1. \A i \in 1 .. Len(t) : 1 < i + 1
    OBVIOUS
  <2>2. \A i \in 1 .. Len(t) : t[i].item # Head(s).item
    BY <1>3, <1>4, <1>6, <2>1 DEF ItemsDiffer
  <2>3. QED
    BY <1>1, <2>2, ShownAt
<1>7. QED
  BY <1>2, <1>5, <1>6

LEMMA NothingShows == \A a : ~Shows(<<>>, a) /\ ~Has(<<>>, a)
BY DEF Shows, Has

LEMMA NothingDiffers == AllDiffer(<<>>) /\ ItemsDiffer(<<>>) /\ InModuleOrder(<<>>)
BY DEF AllDiffer, ItemsDiffer, InModuleOrder

LEMMA LengthsTyped ==
  ASSUME SceneTypes
  PROVE  Len(selected) \in Nat /\ Len(blocks) \in Nat /\ Len(entering) \in Nat
BY DEF SceneTypes

LEMMA ChoosingShows ==
  ASSUME total \in Int, SceneTypes, ShowInv, NEW a \in Article, a \notin ToSet(selected),
         page = "area-ballot", UNCHANGED <<page, blocks>>,
         selected' = WithArticle(selected, a), entering' = entering \o AddItemsToDiv(<<a>>)
  PROVE  ShowInv'
<1> DEFINE new == AddItemsToDiv(<<a>>)
<1>1. selected \in Seq(Article) /\ blocks \in Seq(Block) /\ entering \in Seq(Block)
  BY DEF SceneTypes
<1>2. ~Has(selected, a)
  BY <1>1 DEF Has, ToSet
<1>3. Len(selected') = Len(selected) + 1 /\ \A y : Has(selected', y) <=> y = a \/ Has(selected, y)
  BY <1>1, ArticleIsAdded
<1>4. AllDiffer(selected')
  BY <1>1, <1>2, ArticlesDiffer DEF ShowInv
<1>5. /\ new \in Seq(Block) /\ Len(new) = 1 /\ ItemsDiffer(new)
      /\ \A b : Shows(new, b) <=> b = a
  <2> DEFINE one == <<a>>
  <2>1. one \in Seq(Article) /\ Len(one) = 1 /\ AllDiffer(one) /\ \A b : Has(one, b) <=> b = a
    BY DEF AllDiffer, Has
  <2> HIDE DEF one
  <2>2. /\ AddItemsToDiv(one) \in Seq(Block) /\ Len(AddItemsToDiv(one)) = 1
        /\ ItemsDiffer(AddItemsToDiv(one)) /\ \A b : Shows(AddItemsToDiv(one), b) <=> b = a
    BY <2>1, BlocksAreMade
  <2>3. QED
    BY <2>2 DEF one
<1> HIDE DEF new
<1>6. entering' = entering \o new
  BY DEF new
<1>7. Len(entering') = Len(entering) + 1
  <2>1. new \in Seq(Block) /\ Len(new) = 1
    BY <1>5
  <2>2. \A s, t \in Seq(Block) : Len(s \o t) = Len(s) + Len(t)
    OBVIOUS
  <2>3. Len(entering \o new) = Len(entering) + 1
    BY <1>1, <2>1, <2>2
  <2>4. QED
    BY <1>6, <2>3, Zenon
<1>8. \A b : Shows(entering', b) <=> Shows(entering, b) \/ b = a
  BY <1>1, <1>5, <1>6, ConcatenatedShows
<1>9. ASSUME OneBlockEach PROVE OneBlockEach'
  <2>1. ~Shows(blocks, a) /\ ~Shows(entering, a)
    BY <1>2, <1>9 DEF OneBlockEach
  <2>2. ItemsDiffer(entering')
    <3>1. \A b \in Article : ~(Shows(entering, b) /\ Shows(new, b))
      BY <1>5, <2>1
    <3>2. QED
      BY <1>1, <1>5, <1>6, <1>9, <3>1, ConcatenatedDiffer DEF OneBlockEach
  <2>3. Len(blocks') + Len(entering') = Len(selected')
    BY <1>3, <1>7, <1>9, LengthsTyped DEF OneBlockEach
  <2>4. QED
    BY <1>3, <1>8, <1>9, <2>1, <2>2, <2>3 DEF OneBlockEach
<1>10. QED
  BY <1>3, <1>4, <1>8, <1>9 DEF ShowInv

LEMMA DroppingShows ==
  ASSUME SceneTypes, ShowInv, NEW a \in Article, a \in ToSet(selected),
         page = "area-ballot", entering = <<>>, UNCHANGED <<page, entering>>,
         selected' = FilterSeq(selected, Article \ {a}), blocks' = RemoveItemFromDiv(blocks, a)
  PROVE  ShowInv'
<1>1. selected \in Seq(Article) /\ blocks \in Seq(Block) /\ AllDiffer(selected) /\ InModuleOrder(blocks)
  BY DEF SceneTypes, ShowInv
<1>2. PICK j \in 1 .. Len(selected) : selected[j] = a
  BY <1>1 DEF ToSet
<1>3. \A y : Has(selected', y) <=> Has(selected, y) /\ y \in Article \ {a}
  BY <1>1, FilterHas
<1>4. AllDiffer(selected')
  BY <1>1, FilterKeepsDiffering
<1>5. Len(selected') + 1 = Len(selected)
  <2>1. \A i \in 1 .. Len(selected) : selected[i] \in Article \ {a} <=> selected[i] # selected[j]
    BY <1>1, <1>2
  <2>2. QED
    BY <1>1, <2>1, FilterOneOut
<1>6. blocks' \in Seq(Block) /\ InModuleOrder(blocks')
  BY <1>1, RemovalLeaves
<1>7. \A b : b # a /\ Shows(blocks, b) => Shows(blocks', b)
  BY <1>1, RemovalLeaves
<1>8. \A b : Shows(blocks', b) => Shows(blocks, b)
  <2>1. \A y : Has(blocks', y) => Has(blocks, y)
    BY <1>1, RemovalLeaves
  <2>2. QED
    BY <2>1 DEF Shows
<1>9. Has(selected, a)
  BY <1>2 DEF Has
<1>10. \A b \in Article : Has(selected', b) => Shows(blocks', b) \/ Shows(entering', b)
  BY <1>3, <1>7, NothingShows DEF ShowInv
<1>11. ASSUME OneBlockEach PROVE OneBlockEach'
  <2>1. Shows(blocks, a)
    BY <1>9, NothingShows DEF ShowInv
  <2>2. ItemsDiffer(blocks)
    BY <1>11 DEF OneBlockEach
  <2>3. ~Shows(blocks', a) /\ Len(blocks') + 1 = Len(blocks)
    BY <1>1, <2>1, <2>2, RemovalOfTheOne
  <2>4. ItemsDiffer(blocks')
    BY <1>1, <2>2, RemovalLeaves
  <2>5. Len(blocks') + Len(entering') = Len(selected')
    <3>1. Len(blocks') \in Nat /\ Len(selected') \in Nat
      BY <1>6, <1>1, FilterHas
    <3>2. QED
      BY <1>5, <1>11, <2>3, <3>1, LengthsTyped DEF OneBlockEach
  <2>6. \A b \in Article : Shows(blocks', b) \/ Shows(entering', b) => Has(selected', b)
    BY <1>3, <1>8, <1>11, <2>3, NothingShows DEF OneBlockEach
  <2>7. QED
    BY <1>11, <2>4, <2>5, <2>6, NothingShows DEF OneBlockEach
<1>12. QED
  BY <1>4, <1>6, <1>10, <1>11 DEF ShowInv

LEMMA EnteringShows ==
  ASSUME SceneTypes, ShowInv, BlockEnters
  PROVE  ShowInv'
<1> DEFINE first == Head(entering)
<1>1. /\ blocks' = PositionItems(blocks, first) /\ entering' = Tail(entering) /\ entering # <<>>
      /\ UNCHANGED <<page, selected>>
  BY DEF BlockEnters, points
<1>2. blocks \in Seq(Block) /\ entering \in Seq(Block) /\ InModuleOrder(blocks)
  BY DEF SceneTypes, ShowInv
<1>3. first \in Block /\ Len(entering') + 1 = Len(entering) /\ entering' \in Seq(Block)
  BY <1>1, <1>2, TailHas
<1>4. /\ \A a : Shows(entering, a) <=> a = first.item \/ Shows(entering', a)
      /\ ItemsDiffer(entering) => ItemsDiffer(entering') /\ ~Shows(entering', first.item)
  BY <1>1, <1>2, TailShows
<1> HIDE DEF first
<1>5. first.item \in Article
  BY <1>3 DEF Block
<1>6. blocks' \in Seq(Block) /\ Len(blocks') = Len(blocks) + 1
  BY <1>1, <1>2, <1>3, PositionAdds
<1>7. \A a : Shows(blocks', a) <=> a = first.item \/ Shows(blocks, a)
  <2>1. \A y : Has(blocks', y) <=> y = first \/ Has(blocks, y)
    BY <1>1, <1>2, <1>3, PositionAdds
  <2>2. QED
    BY <1>3, <2>1 DEF Shows
<1>8. InModuleOrder(blocks')
  BY <1>1, <1>2, <1>3, PositionKeepsOrder
<1>9. ASSUME OneBlockEach PROVE OneBlockEach'
  <2>1. ItemsDiffer(blocks) /\ ItemsDiffer(entering) /\ ~Shows(blocks, first.item)
    BY <1>4, <1>5, <1>9 DEF OneBlockEach
  <2>2. ItemsDiffer(blocks')
    BY <1>1, <1>2, <1>3, <2>1, PositionKeepsDiffering
  <2>3. Len(blocks') + Len(entering') = Len(selected')
    <3>1. Len(entering') \in Nat
      BY <1>3
    <3>2. QED
      BY <1>1, <1>3, <1>6, <1>9, <3>1, LengthsTyped DEF OneBlockEach
  <2>4. \A a \in Article : ~(Shows(blocks', a) /\ Shows(entering', a))
    BY <1>4, <1>7, <1>9, <2>1 DEF OneBlockEach
  <2>5. \A a \in Article : Shows(blocks', a) \/ Shows(entering', a) => Has(selected', a)
    BY <1>1, <1>4, <1>7, <1>9 DEF OneBlockEach
  <2>6. QED
    BY <1>4, <2>1, <2>2, <2>3, <2>4, <2>5 DEF OneBlockEach
<1>10. \A a : Shows(blocks', a) \/ Shows(entering', a) <=> Shows(blocks, a) \/ Shows(entering, a)
  BY <1>4, <1>7
<1>11. QED
  BY <1>1, <1>8, <1>9, <1>10 DEF ShowInv

(* The element is made anew: its blocks are all on their way.               *)
LEMMA StartShows ==
  ASSUME NEW list \in Seq(Article), AllDiffer(list), total' \in Int, NEW made \in Seq(Block),
         Len(made) = Len(list), ItemsDiffer(made), \A a : Shows(made, a) <=> Has(list, a),
         selected' = list, blocks' = <<>>,
         page' = "area-ballot" => entering' = made
  PROVE  ShowInv'
<1>1. InModuleOrder(blocks') /\ AllDiffer(selected')
  BY NothingDiffers
<1>2. page' = "area-ballot" => OneBlockEach'
  <2>1. Len(<<>>) = 0 /\ Len(list) \in Nat
    OBVIOUS
  <2>2. QED
    BY <2>1, NothingDiffers, NothingShows DEF OneBlockEach
<1>3. QED
  BY <1>1, <1>2 DEF ShowInv

LEMMA NextShows ==
  ASSUME NumberInv, SceneTypes, ShowInv, [Next]_vars
  PROVE  ShowInv'
<1>1. total \in Int /\ total' \in Int /\ SceneTypes'
  BY NextHasNumber, SceneTyped DEF NumberInv, Affordable
<1>2. CASE UNCHANGED <<page, selected, blocks, entering>>
  BY <1>2 DEF ShowInv, OneBlockEach
<1>3. ASSUME NEW a \in Article, ToggleBudgetItem(a) PROVE ShowInv'
  BY <1>1, <1>3, ChoosingShows, DroppingShows DEF ToggleBudgetItem
<1>4. ASSUME NEW amount \in Amounts, CheckBonusesAndPenalties(amount) PROVE ShowInv'
  <2>1. /\ Len(blocks') = Len(blocks)
        /\ \A a : Shows(blocks', a) <=> Shows(blocks, a)
        /\ InModuleOrder(blocks) => InModuleOrder(blocks')
        /\ ItemsDiffer(blocks) => ItemsDiffer(blocks')
    <3>1. blocks' = blocks \/ blocks' = ResetItemsWidth(blocks)
      BY <1>4 DEF CheckBonusesAndPenalties, Updated
    <3>2. QED
      BY <1>1, <3>1, WidthsReset DEF SceneTypes
  <2>2. UNCHANGED <<page, selected, entering>>
    BY <1>4 DEF CheckBonusesAndPenalties
  <2>3. QED
    BY <2>1, <2>2 DEF ShowInv, OneBlockEach
<1>5. CASE ReturnToPage
  <2>1. selected \in Seq(Article) /\ AllDiffer(selected)
    BY DEF SceneTypes, ShowInv
  <2>2. selected' = selected /\ total' = total /\ blocks' = <<>> /\ entering' = AddItemsToDiv(selected)
    BY <1>5 DEF ReturnToPage, FirstUpdated, SetupScene, points
  <2> DEFINE made == AddItemsToDiv(selected)
  <2>3. /\ made \in Seq(Block) /\ Len(made) = Len(selected) /\ ItemsDiffer(made)
        /\ \A a : Shows(made, a) <=> Has(selected, a)
    BY <1>1, <2>1, BlocksAreMade
  <2>4. entering' = made
    BY <2>2
  <2> HIDE DEF made
  <2>5. QED
    BY <1>1, <2>1, <2>2, <2>3, <2>4, StartShows
<1>6. CASE LeavePage
  BY <1>6, NothingDiffers DEF LeavePage, SetupScene, points, ShowInv
<1>7. CASE ResetSelectArticles
  <2> DEFINE none == <<>>
  <2>1. none \in Seq(Article) /\ none \in Seq(Block) /\ AllDiffer(none) /\ ItemsDiffer(none)
    BY NothingDiffers
  <2>2. selected' = none /\ blocks' = <<>> /\ entering' = none /\ Len(none) = Len(none)
    BY <1>7 DEF ResetSelectArticles, SetupScene
  <2>3. \A a : Shows(none, a) <=> Has(none, a)
    BY NothingShows
  <2> HIDE DEF none
  <2>4. QED
    BY <1>1, <2>1, <2>2, <2>3, StartShows
<1>8. CASE BlockEnters
  BY <1>8, EnteringShows
<1>9. CASE FontArrives \/ BonusPenalty3dText \/ BannerFlies \/ TweenEnds \/ UNCHANGED vars
  BY <1>2, <1>9 DEF FontArrives, BonusPenalty3dText, BannerFlies, TweenEnds, BannerIsGone, MoveEnds,
                    points, scene, vars
<1>10. QED
  BY <1>3, <1>4, <1>5, <1>6, <1>7, <1>8, <1>9 DEF Next, TimerFires

LEMMA InitShows == Init => SceneTypes /\ ShowInv
<1> SUFFICES ASSUME Init PROVE SceneTypes /\ ShowInv
  OBVIOUS
<1>1. selected = <<>> /\ blocks = <<>> /\ entering = <<>>
  BY DEF Init
<1>2. SceneTypes
  BY <1>1 DEF SceneTypes
<1>3. OneBlockEach
  <2>1. Len(<<>>) + Len(<<>>) = Len(<<>>)
    OBVIOUS
  <2>2. QED
    BY <1>1, <2>1, NothingDiffers, NothingShows DEF OneBlockEach
<1>4. QED
  BY <1>1, <1>2, <1>3, NothingDiffers, NothingShows DEF ShowInv

(* However articles are chosen and dropped, and whenever their blocks enter *)
(* and bonuses resize them, the scene at rest shows the constitution, each  *)
(* article once, in the order of the modules.                               *)
THEOREM SceneBlocksShowSelection == Spec => []BlocksShowSelection
<1> DEFINE Inv == NumberInv /\ SceneTypes /\ ShowInv
<1>1. Init => Inv
  BY InitHasNumber, InitShows
<1>2. Inv /\ [Next]_vars => Inv'
  BY NextHasNumber, SceneTyped, NextShows
<1>3. Inv => BlocksShowSelection
  <2> SUFFICES ASSUME SceneTypes, ShowInv, AtRest PROVE BlocksShowSelection
    BY DEF BlocksShowSelection
  <2>1. /\ selected \in Seq(Article) /\ blocks \in Seq(Block) /\ Len(entering) = 0
        /\ DOMAIN blocks = 1 .. Len(blocks) /\ DOMAIN selected = 1 .. Len(selected)
    BY DEF SceneTypes, AtRest
  <2>2. \A i \in 1 .. Len(blocks) : ModuleIndex[blocks[i].item] \in Nat
    <3>1. \A i \in 1 .. Len(blocks) : blocks[i] \in Block
      BY <2>1
    <3>2. \A b \in Block : ModuleIndex[b.item] \in Nat
      BY SceneAssumption DEF Block
    <3>3. QED
      BY <3>1, <3>2
  <2>3. \A i, j \in 1 .. Len(blocks) : i <= j => ModuleIndex[blocks[i].item] <= ModuleIndex[blocks[j].item]
    <3> SUFFICES ASSUME NEW i \in 1 .. Len(blocks), NEW j \in 1 .. Len(blocks), i <= j
                 PROVE  ModuleIndex[blocks[i].item] <= ModuleIndex[blocks[j].item]
      OBVIOUS
    <3>1. i < j \/ i = j
      OBVIOUS
    <3>2. QED
      BY <2>2, <3>1 DEF ShowInv, InModuleOrder
  <2>4. ToSet(selected) = {b.item : b \in ToSet(blocks)}
    <3>1. \A a : a \in ToSet(selected) <=> Has(selected, a)
      BY <2>1 DEF ToSet, Has
    <3>2. \A a : a \in {b.item : b \in ToSet(blocks)} <=> Shows(blocks, a)
      BY <2>1, ShownAt DEF ToSet
    <3>3. \A a : Has(selected, a) \/ Shows(blocks, a) => a \in Article
      BY <2>1, ShownAt DEF Has, Shows, Block
    <3>4. \A a \in Article : Has(selected, a) <=> Shows(blocks, a)
      BY NothingShows DEF ShowInv, OneBlockEach, AtRest
    <3>5. QED
      BY <3>1, <3>2, <3>3, <3>4
  <2>5. Len(blocks) = Len(selected) /\ IsInjective([i \in DOMAIN blocks |-> blocks[i].item])
    <3>1. Len(blocks) + Len(entering) = Len(selected) /\ ItemsDiffer(blocks)
      BY DEF ShowInv, OneBlockEach, AtRest
    <3>2. Len(blocks) = Len(selected)
      <4>1. Len(blocks) \in Nat
        BY <2>1
      <4>2. Len(blocks) + Len(entering) = Len(blocks)
        BY <2>1, <4>1
      <4>3. QED
        BY <3>1, <4>2
    <3>3. \A i, j \in 1 .. Len(blocks) : blocks[i].item = blocks[j].item => i = j
      <4> SUFFICES ASSUME NEW i \in 1 .. Len(blocks), NEW j \in 1 .. Len(blocks), i # j
                   PROVE  blocks[i].item # blocks[j].item
        OBVIOUS
      <4>1. i < j \/ j < i
        OBVIOUS
      <4>2. QED
        BY <3>1, <4>1 DEF ItemsDiffer
    <3>4. QED
      BY <2>1, <3>2, <3>3 DEF IsInjective
  <2>6. QED
    BY <2>1, <2>3, <2>4, <2>5 DEF BlocksShowSelection
<1> HIDE DEF Inv
<1>4. QED
  BY <1>1, <1>2, <1>3, PTL DEF Spec

-----------------------------------------------------------------------------
(***************************************************************************)
(* The cards of the ballot (BallotSeries).  Each of them stands for one    *)
(* article or one series, and keeps its entry of the list.                 *)
(***************************************************************************)

Members(card) == {card.item} \union card.options

WellMade(card) ==
  IF card.options = {}
  THEN Series[card.item] = NoSeries
  ELSE /\ card.item \in card.options /\ Series[card.item] # NoSeries
       /\ \A o \in card.options : Series[o] = Series[card.item]
MembersDiffer(dealt) ==
  \A i, j \in 1 .. Len(dealt) : i # j => Members(dealt[i]) \cap Members(dealt[j]) = {}
WellDealt(dealt) ==
  dealt \in Seq(Entry) /\ (\A i \in 1 .. Len(dealt) : WellMade(dealt[i])) /\ MembersDiffer(dealt)

(* Two cards are of different series.                                       *)
Apart(dealt) ==
  \A i, j \in 1 .. Len(dealt) :
    Series[dealt[i].item] = Series[dealt[j].item] => i = j \/ Series[dealt[i].item] = NoSeries

(* The articles of a series follow one another.                             *)
Together(items) ==
  \A i, j, k \in 1 .. Len(items) :
    i < j /\ j < k /\ Series[items[i]] = Series[items[k]] /\ Series[items[i]] # NoSeries =>
      Series[items[j]] = Series[items[i]]

(* The list does not end in a series.                                       *)
EndsPlain(items) == items # <<>> => Series[items[Len(items)]] = NoSeries

-----------------------------------------------------------------------------
(***************************************************************************)
(* processBallotItems, article by article.                                 *)
(***************************************************************************)

Half == [done : Seq(Entry), open : Seq(ArticleId)]

(* What is made of the articles seen so far: each is on one card or in the  *)
(* open series, and if series are kept together there is a card for each.   *)
SeenOnly(done, seen) == \A i \in 1 .. Len(done) : Members(done[i]) \subseteq seen
OneOpen(open, seen) ==
  \A i \in 1 .. Len(open) :
    open[i] \in seen /\ Series[open[i]] = Series[open[1]] /\ Series[open[i]] # NoSeries
NotYetDone(done, open) ==
  \A i \in 1 .. Len(done), j \in 1 .. Len(open) : open[j] \notin Members(done[i])
AllSomewhere(done, open, seen) ==
  \A a \in seen : \/ \E i \in 1 .. Len(done) : a \in Members(done[i])
                 \/ \E j \in 1 .. Len(open) : open[j] = a
OpenApart(done, open) ==
  open # <<>> => \A i \in 1 .. Len(done) : Series[done[i].item] # Series[open[1]]

HalfDealt(acc, seen, kept) ==
  /\ acc \in Half
  /\ WellDealt(acc.done)
  /\ SeenOnly(acc.done, seen)
  /\ OneOpen(acc.open, seen)
  /\ NotYetDone(acc.done, acc.open)
  /\ AllSomewhere(acc.done, acc.open, seen)
  /\ kept => Apart(acc.done) /\ OpenApart(acc.done, acc.open)

LEMMA ListLength == ASSUME NEW n \in Nat, NEW R, NEW f \in [1 .. n -> R] PROVE Len(f) = n
OBVIOUS

(* One more card.                                                           *)
Foreign(card, dealt) == \A i \in 1 .. Len(dealt) : Members(dealt[i]) \cap Members(card) = {}
OneMore(more, dealt, card) ==
  /\ \A i \in 1 .. Len(dealt) : i \in 1 .. Len(more) /\ more[i] = dealt[i]
  /\ Len(more) \in 1 .. Len(more) /\ more[Len(more)] = card
  /\ \A i \in 1 .. Len(more) : i \in 1 .. Len(dealt) \/ i = Len(more)

LEMMA CardAdded ==
  ASSUME NEW dealt, WellDealt(dealt), NEW card \in Entry, WellMade(card), Foreign(card, dealt),
         NEW more, more = Append(dealt, card)
  PROVE  WellDealt(more) /\ OneMore(more, dealt, card)
<1> DEFINE n == Len(dealt)
<1>1. /\ dealt \in Seq(Entry) /\ MembersDiffer(dealt)
      /\ \A i \in 1 .. n : WellMade(dealt[i])
  BY DEF WellDealt
<1>2. /\ more \in Seq(Entry) /\ n \in Nat /\ Len(more) = n + 1 /\ more[n + 1] = card
      /\ \A i \in 1 .. n : more[i] = dealt[i]
  BY <1>1
<1> HIDE DEF n
<1>3. /\ \A i \in 1 .. n : i \in 1 .. Len(more)
      /\ n + 1 \in 1 .. Len(more)
      /\ \A i \in 1 .. Len(more) : i \in 1 .. n \/ i = n + 1
  BY <1>2
<1>4. \A i \in 1 .. Len(more) : WellMade(more[i])
  BY <1>1, <1>2, <1>3
<1>5. ASSUME NEW i \in 1 .. Len(more), NEW j \in 1 .. Len(more), i # j
      PROVE  Members(more[i]) \cap Members(more[j]) = {}
  <2>1. CASE i \in 1 .. n /\ j \in 1 .. n
    BY <1>1, <1>2, <1>5, <2>1 DEF MembersDiffer, n
  <2>2. CASE i \in 1 .. n /\ j = n + 1
    BY <1>2, <2>2 DEF n, Foreign
  <2>3. CASE i = n + 1 /\ j \in 1 .. n
    BY <1>2, <2>3 DEF n, Foreign
  <2>4. QED
    BY <1>3, <1>5, <2>1, <2>2, <2>3
<1>6. WellDealt(more)
  BY <1>2, <1>4, <1>5 DEF WellDealt, MembersDiffer
<1>7. QED
  BY <1>2, <1>3, <1>6 DEF n, OneMore

(* A card of a series of its own.                                           *)
LEMMA AddedApart ==
  ASSUME NEW dealt, NEW card, NEW more, Apart(dealt), OneMore(more, dealt, card),
         \A i \in 1 .. Len(dealt) :
           Series[dealt[i].item] # Series[card.item] \/ Series[card.item] = NoSeries
  PROVE  Apart(more)
<1> SUFFICES ASSUME NEW i \in 1 .. Len(more), NEW j \in 1 .. Len(more),
                    Series[more[i].item] = Series[more[j].item]
             PROVE  i = j \/ Series[more[i].item] = NoSeries
  BY DEF Apart
<1>1. CASE i \in 1 .. Len(dealt) /\ j \in 1 .. Len(dealt)
  BY <1>1 DEF Apart, OneMore
<1>2. CASE i \in 1 .. Len(dealt) /\ j = Len(more)
  BY <1>2 DEF OneMore
<1>3. CASE i = Len(more) /\ j \in 1 .. Len(dealt)
  BY <1>3 DEF OneMore
<1>4. QED
  BY <1>1, <1>2, <1>3 DEF OneMore

(* The open series becomes a card.                                          *)
LEMMA Flushed ==
  ASSUME NEW acc, NEW seen, NEW kept \in BOOLEAN, HalfDealt(acc, seen, kept), acc.open # <<>>,
         NEW more, more = [done |-> Append(acc.done, Combined(acc.open)), open |-> <<>>]
  PROVE  HalfDealt(more, seen, kept)
<1> DEFINE d == acc.done
           o == acc.open
           card == Combined(o)
           e == more.done
<1>1. /\ acc \in Half /\ d \in Seq(Entry) /\ o \in Seq(ArticleId) /\ WellDealt(d)
      /\ e = Append(d, card) /\ more.open = <<>>
  BY DEF HalfDealt, Half
<1>2. /\ Len(o) \in Nat /\ 1 \in 1 .. Len(o) /\ DOMAIN o = 1 .. Len(o)
      /\ \A i \in 1 .. Len(o) : o[i] \in ArticleId
  BY <1>1
<1>3. card.item = o[1] /\ card.options = {o[i] : i \in 1 .. Len(o)}
  BY <1>2 DEF Combined, ToSet
<1>4. Members(card) = {o[i] : i \in 1 .. Len(o)}
  BY <1>2, <1>3 DEF Members
<1>5. card \in Entry
  BY <1>2 DEF Combined, ToSet, Entry
<1>6. WellMade(card)
  <2>1. o[1] \in card.options /\ card.options # {}
    BY <1>2, <1>3
  <2>2. Series[o[1]] # NoSeries /\ \A x \in card.options : Series[x] = Series[o[1]]
    BY <1>2, <1>3 DEF HalfDealt, OneOpen
  <2>3. QED
    BY <1>3, <2>1, <2>2 DEF WellMade
<1>7. Foreign(card, d)
  BY <1>4 DEF HalfDealt, NotYetDone, Foreign
<1> HIDE DEF d, card, e
<1>8. WellDealt(e) /\ OneMore(e, d, card)
  BY <1>1, <1>5, <1>6, <1>7, CardAdded
<1>9. more \in Half
  <2>1. more.done \in Seq(Entry)
    BY <1>8 DEF WellDealt, e
  <2>2. more.open \in Seq(ArticleId)
    BY <1>1
  <2>3. more = [done |-> more.done, open |-> more.open]
    OBVIOUS
  <2>4. QED
    BY <2>1, <2>2, <2>3 DEF Half
<1>10. SeenOnly(e, seen)
  <2>1. Members(card) \subseteq seen
    BY <1>4 DEF HalfDealt, OneOpen
  <2>2. SeenOnly(d, seen)
    BY DEF HalfDealt, d
  <2>3. QED
    BY <1>8, <2>1, <2>2 DEF OneMore, SeenOnly
<1>11. AllSomewhere(e, more.open, seen)
  <2> SUFFICES ASSUME NEW a \in seen PROVE \E i \in 1 .. Len(e) : a \in Members(e[i])
    BY DEF AllSomewhere
  <2>1. \/ \E i \in 1 .. Len(d) : a \in Members(d[i])
        \/ \E j \in 1 .. Len(o) : o[j] = a
    BY DEF HalfDealt, AllSomewhere, d
  <2>2. QED
    BY <1>4, <1>8, <2>1 DEF OneMore
<1>12. kept => Apart(e)
  <2> SUFFICES ASSUME kept PROVE Apart(e)
    OBVIOUS
  <2>1. Apart(d) /\ \A i \in 1 .. Len(d) : Series[d[i].item] # Series[card.item]
    BY <1>3 DEF HalfDealt, OpenApart, d
  <2>2. QED
    BY <1>8, <2>1, AddedApart
<1>13. OneOpen(more.open, seen) /\ NotYetDone(e, more.open) /\ OpenApart(e, more.open)
  <2>1. Len(more.open) = 0 /\ more.open = <<>>
    BY <1>1
  <2>2. QED
    BY <2>1 DEF OneOpen, NotYetDone, OpenApart
<1>14. QED
  BY <1>8, <1>9, <1>10, <1>11, <1>12, <1>13 DEF HalfDealt, e

(* An article without a series is a card of its own.                        *)
LEMMA PlainCard ==
  ASSUME NEW acc, NEW seen, NEW kept \in BOOLEAN, HalfDealt(acc, seen, kept), acc.open = <<>>,
         NEW a \in ArticleId, a \notin seen, Series[a] = NoSeries, NEW more,
         more = [acc EXCEPT !.done = Append(@, [item |-> a, options |-> {}])]
  PROVE  HalfDealt(more, seen \union {a}, kept) /\ more.open = <<>>
<1> DEFINE d == acc.done
           card == [item |-> a, options |-> {}]
           e == more.done
<1>1. /\ acc \in Half /\ d \in Seq(Entry) /\ WellDealt(d)
      /\ \A i \in 1 .. Len(d) : Members(d[i]) \subseteq seen
  BY DEF HalfDealt, Half, SeenOnly
<1>2. e = Append(d, card) /\ more.open = acc.open
  BY <1>1 DEF Half
<1>3. card \in Entry /\ Members(card) = {a} /\ card.item = a /\ WellMade(card)
  BY DEF Entry, Members, WellMade
<1>4. Foreign(card, d)
  BY <1>1, <1>3 DEF Foreign
<1> HIDE DEF d, card, e
<1>5. WellDealt(e) /\ OneMore(e, d, card)
  BY <1>1, <1>2, <1>3, <1>4, CardAdded
<1>6. more \in Half
  <2>1. more.done \in Seq(Entry) /\ more.open \in Seq(ArticleId)
    BY <1>1, <1>2, <1>5 DEF WellDealt, e, Half
  <2>2. more = [done |-> more.done, open |-> more.open]
    BY <1>1 DEF Half
  <2>3. QED
    BY <2>1, <2>2 DEF Half
<1>7. SeenOnly(e, seen \union {a})
  BY <1>1, <1>3, <1>5 DEF OneMore, SeenOnly
<1>8. AllSomewhere(e, more.open, seen \union {a})
  <2> SUFFICES ASSUME NEW x \in seen \union {a} PROVE \E i \in 1 .. Len(e) : x \in Members(e[i])
    BY DEF AllSomewhere
  <2>1. CASE x = a
    BY <1>3, <1>5, <2>1 DEF OneMore
  <2>2. CASE x \in seen
    <3>1. Len(acc.open) = 0
      OBVIOUS
    <3>2. \E i \in 1 .. Len(d) : x \in Members(d[i])
      BY <2>2, <3>1 DEF HalfDealt, AllSomewhere, d
    <3>3. QED
      BY <1>5, <3>2 DEF OneMore
  <2>3. QED
    BY <2>1, <2>2
<1>9. kept => Apart(e)
  <2> SUFFICES ASSUME kept PROVE Apart(e)
    OBVIOUS
  <2>1. Apart(d) /\ \A i \in 1 .. Len(d) : Series[card.item] = NoSeries
    BY <1>3 DEF HalfDealt, d
  <2>2. QED
    BY <1>5, <2>1, AddedApart
<1>10. /\ OneOpen(more.open, seen \union {a}) /\ NotYetDone(e, more.open)
       /\ OpenApart(e, more.open) /\ more.open = <<>>
  <2>1. Len(more.open) = 0 /\ more.open = <<>>
    BY <1>2
  <2>2. QED
    BY <2>1 DEF OneOpen, NotYetDone, OpenApart
<1>11. QED
  BY <1>5, <1>6, <1>7, <1>8, <1>9, <1>10 DEF HalfDealt, e

(* An article of the open series, or of one that is opened, joins it.       *)
Joins(a, acc, kept) ==
  IF acc.open = <<>>
  THEN kept => \A i \in 1 .. Len(acc.done) : Series[acc.done[i].item] # Series[a]
  ELSE Series[a] = Series[acc.open[1]]

Opened(acc, a) == acc.open # <<>> /\ Series[acc.open[1]] = Series[a]
Joined(acc, a) == [acc EXCEPT !.open = Append(@, a)]

LEMMA SeriesGrows ==
  ASSUME NEW acc, NEW seen, NEW kept \in BOOLEAN, HalfDealt(acc, seen, kept),
         NEW a \in ArticleId, a \notin seen, Series[a] # NoSeries,
         Joins(a, acc, kept), NEW more, more = Joined(acc, a)
  PROVE  HalfDealt(more, seen \union {a}, kept) /\ Opened(more, a)
<1> DEFINE d == acc.done
           o == acc.open
           p == more.open
           n == Len(o)
<1>1. acc \in Half /\ d \in Seq(Entry) /\ o \in Seq(ArticleId) /\ WellDealt(d)
  BY DEF HalfDealt, Half
<1>2. more.done = d /\ p = Append(o, a)
  BY <1>1 DEF Half, Joined
<1>3. /\ p \in Seq(ArticleId) /\ n \in Nat /\ Len(p) = n + 1 /\ p[n + 1] = a /\ p # <<>>
      /\ \A i \in 1 .. n : p[i] = o[i]
      /\ o = <<>> <=> n = 0
  BY <1>1, <1>2
<1>4. more \in Half
  <2>1. more.done \in Seq(Entry) /\ more.open \in Seq(ArticleId)
    BY <1>1, <1>2, <1>3
  <2>2. more = [done |-> more.done, open |-> more.open]
    BY <1>1 DEF Half, Joined
  <2>3. QED
    BY <2>1, <2>2 DEF Half
<1> HIDE DEF d, o, p, n
<1>5. /\ \A i \in 1 .. Len(p) : i \in 1 .. n \/ i = n + 1
      /\ \A i \in 1 .. n : i \in 1 .. Len(p)
      /\ n + 1 \in 1 .. Len(p) /\ 1 \in 1 .. Len(p)
  BY <1>3
<1>6. Series[p[1]] = Series[a]
  <2>1. CASE n = 0
    <3>1. n + 1 = 1
      BY <2>1
    <3>2. QED
      BY <1>3, <3>1
  <2>2. CASE n # 0
    <3>1. 1 \in 1 .. n /\ Series[a] = Series[o[1]]
      BY <1>3, <2>2 DEF Joins, o
    <3>2. QED
      BY <1>3, <3>1
  <2>3. QED
    BY <2>1, <2>2
<1>7. OneOpen(p, seen \union {a})
  <2> SUFFICES ASSUME NEW i \in 1 .. Len(p)
               PROVE  /\ p[i] \in seen \union {a}
                      /\ Series[p[i]] = Series[p[1]] /\ Series[p[i]] # NoSeries
    BY DEF OneOpen
  <2>1. CASE i = n + 1
    BY <1>3, <1>6, <2>1
  <2>2. CASE i \in 1 .. n
    <3>1. /\ o[i] \in seen /\ Series[o[i]] = Series[o[1]] /\ Series[o[i]] # NoSeries
      BY <2>2 DEF HalfDealt, OneOpen, o, n
    <3>2. Series[a] = Series[o[1]]
      BY <1>3, <2>2 DEF Joins, o
    <3>3. QED
      BY <1>3, <1>6, <2>2, <3>1, <3>2
  <2>3. QED
    BY <1>5, <2>1, <2>2
<1>8. NotYetDone(d, p)
  <2> SUFFICES ASSUME NEW i \in 1 .. Len(d), NEW j \in 1 .. Len(p)
               PROVE  p[j] \notin Members(d[i])
    BY DEF NotYetDone
  <2>1. CASE j = n + 1
    BY <1>3, <2>1 DEF HalfDealt, SeenOnly, d
  <2>2. CASE j \in 1 .. n
    BY <1>3, <2>2 DEF HalfDealt, NotYetDone, d, o, n
  <2>3. QED
    BY <1>5, <2>1, <2>2
<1>9. AllSomewhere(d, p, seen \union {a})
  <2> SUFFICES ASSUME NEW x \in seen \union {a}
               PROVE  \/ \E i \in 1 .. Len(d) : x \in Members(d[i])
                      \/ \E j \in 1 .. Len(p) : p[j] = x
    BY DEF AllSomewhere
  <2>1. CASE x = a
    BY <1>3, <1>5, <2>1
  <2>2. CASE x \in seen
    <3>1. \/ \E i \in 1 .. Len(d) : x \in Members(d[i])
          \/ \E j \in 1 .. n : o[j] = x
      BY <2>2 DEF HalfDealt, AllSomewhere, d, o, n
    <3>2. QED
      BY <1>3, <1>5, <3>1
  <2>3. QED
    BY <2>1, <2>2
<1>10. kept => Apart(d) /\ OpenApart(d, p)
  <2> SUFFICES ASSUME kept
               PROVE  Apart(d) /\ \A i \in 1 .. Len(d) : Series[d[i].item] # Series[p[1]]
    BY DEF OpenApart
  <2>1. Apart(d)
    BY DEF HalfDealt, d
  <2>2. CASE o = <<>>
    BY <1>6, <2>1, <2>2 DEF Joins, d, o
  <2>3. CASE o # <<>>
    <3>1. Series[a] = Series[o[1]]
      BY <2>3 DEF Joins, o
    <3>2. \A i \in 1 .. Len(d) : Series[d[i].item] # Series[o[1]]
      BY <2>3 DEF HalfDealt, OpenApart, d, o
    <3>3. QED
      BY <1>6, <2>1, <3>1, <3>2
  <2>4. QED
    BY <2>2, <2>3
<1>11. SeenOnly(d, seen \union {a})
  BY DEF HalfDealt, SeenOnly, d
<1>12. HalfDealt(more, seen \union {a}, kept)
  <2>1. more.done = d /\ more.open = p
    BY <1>2 DEF p
  <2>2. QED
    BY <1>1, <1>4, <1>7, <1>8, <1>9, <1>10, <1>11, <2>1 DEF HalfDealt
<1>13. QED
  BY <1>3, <1>6, <1>12 DEF Opened, p

Seen(items, n) == {items[k] : k \in 1 .. n}
OpenAt(acc, items, n) ==
  IF n = 0 \/ Series[items[n]] = NoSeries
  THEN acc.open = <<>>
  ELSE Opened(acc, items[n])

(* An article after those of another series is the first one of its own.    *)
LEMMA NewSeries ==
  ASSUME NEW items \in Seq(ArticleId), Together(items), NEW n \in 0 .. Len(items), n < Len(items),
         Series[items[n + 1]] # NoSeries, n = 0 \/ Series[items[n]] # Series[items[n + 1]]
  PROVE  \A x \in Seen(items, n) : Series[x] # Series[items[n + 1]]
<1> SUFFICES ASSUME NEW k \in 1 .. n, Series[items[k]] = Series[items[n + 1]] PROVE FALSE
  BY DEF Seen
<1>1. /\ n \in Nat /\ Len(items) \in Nat /\ k \in 1 .. Len(items) /\ n \in 1 .. Len(items)
      /\ n + 1 \in 1 .. Len(items) /\ n # 0 /\ n < n + 1 /\ (k < n \/ k = n)
  OBVIOUS
<1>2. CASE k = n
  BY <1>1, <1>2
<1>3. CASE k < n
  <2>1. Series[items[n]] = Series[items[k]]
    BY <1>1, <1>3 DEF Together
  <2>2. QED
    BY <1>1, <2>1
<1>4. QED
  BY <1>1, <1>2, <1>3

LEMMA CollectKeeps ==
  ASSUME NEW items \in Seq(ArticleId), IsInjective(items), NEW kept \in BOOLEAN,
         kept => Together(items), NEW n \in 0 .. Len(items), n < Len(items),
         NEW acc, HalfDealt(acc, Seen(items, n), kept), OpenAt(acc, items, n),
         NEW more, more = Collect(acc, items[n + 1])
  PROVE  HalfDealt(more, Seen(items, n + 1), kept) /\ OpenAt(more, items, n + 1)
<1> DEFINE a == items[n + 1]
           seen == Seen(items, n)
           flushed == IF Ends(acc.open, a)
                      THEN [done |-> Append(acc.done, Combined(acc.open)), open |-> <<>>]
                      ELSE acc
<1>1. /\ n \in Nat /\ n + 1 \in 1 .. Len(items) /\ n + 1 # 0 /\ DOMAIN items = 1 .. Len(items)
      /\ \A k \in 1 .. n + 1 : k \in 1 .. n \/ k = n + 1
      /\ \A k \in 1 .. n : k \in 1 .. Len(items) /\ k # n + 1 /\ k \in 1 .. n + 1
      /\ n + 1 \in 1 .. n + 1
  OBVIOUS
<1>2. a \in ArticleId
  BY <1>1
<1>3. a \notin seen
  BY <1>1 DEF Seen, IsInjective
<1>4. Seen(items, n + 1) = seen \union {a}
  BY <1>1 DEF Seen
<1>5. HalfDealt(flushed, seen, kept)
  <2>1. CASE Ends(acc.open, a)
    <3>1. acc.open # <<>>
      BY <2>1 DEF Ends
    <3>2. QED
      BY <2>1, <3>1, Flushed
  <2>2. QED
    BY <2>1
<1>6. acc.open # <<>> => Series[acc.open[1]] # NoSeries
  <2> SUFFICES ASSUME acc.open # <<>> PROVE Series[acc.open[1]] # NoSeries
    OBVIOUS
  <2>1. acc.open \in Seq(ArticleId)
    BY DEF HalfDealt, Half
  <2>2. 1 \in 1 .. Len(acc.open)
    BY <2>1
  <2>3. QED
    BY <2>2 DEF HalfDealt, OneOpen
<1>7. CASE Series[a] = NoSeries
  <2>1. flushed.open = <<>>
    BY <1>6, <1>7 DEF Ends
  <2>2. more = [flushed EXCEPT !.done = Append(@, [item |-> a, options |-> {}])]
    BY <1>7 DEF Collect
  <2> HIDE DEF flushed, seen, a
  <2>3. HalfDealt(more, seen \union {a}, kept) /\ more.open = <<>>
    BY <1>2, <1>3, <1>5, <1>7, <2>1, <2>2, PlainCard
  <2>4. QED
    BY <1>4, <1>7, <2>3 DEF OpenAt, a
<1>8. CASE Series[a] # NoSeries
  <2>1. more = Joined(flushed, a)
    BY <1>8 DEF Collect, Joined
  <2>2. Joins(a, flushed, kept)
    <3>1. CASE acc.open # <<>> /\ Series[acc.open[1]] = Series[a]
      BY <3>1 DEF Joins, Ends
    <3>2. CASE acc.open = <<>> \/ Series[acc.open[1]] # Series[a]
      <4>1. flushed.open = <<>>
        BY <3>2 DEF Ends
      <4>2. n = 0 \/ Series[items[n]] # Series[a]
        BY <1>8, <3>2 DEF OpenAt, Opened
      <4>3. ASSUME kept, NEW i \in 1 .. Len(flushed.done)
            PROVE  Series[flushed.done[i].item] # Series[a]
        <5>1. flushed.done[i].item \in seen
          <6> HIDE DEF flushed, seen
          <6>1. QED
            BY <1>5, <4>3 DEF HalfDealt, SeenOnly, Members
        <5>2. \A x \in seen : Series[x] # Series[a]
          BY <1>8, <4>2, <4>3, NewSeries
        <5>3. QED
          BY <5>1, <5>2
      <4>4. QED
        BY <4>1, <4>3 DEF Joins
    <3>3. QED
      BY <3>1, <3>2
  <2> HIDE DEF flushed, seen, a
  <2>3. HalfDealt(more, seen \union {a}, kept) /\ Opened(more, a)
    BY <1>2, <1>3, <1>5, <1>8, <2>1, <2>2, SeriesGrows
  <2>4. QED
    BY <1>1, <1>4, <1>8, <2>3 DEF OpenAt, a
<1>9. QED
  BY <1>7, <1>8

LEMMA CollectIsHalf ==
  ASSUME NEW acc \in Half, NEW a \in ArticleId PROVE Collect(acc, a) \in Half
<1> DEFINE flushed == IF Ends(acc.open, a)
                      THEN [done |-> Append(acc.done, Combined(acc.open)), open |-> <<>>]
                      ELSE acc
<1>1. acc.done \in Seq(Entry) /\ acc.open \in Seq(ArticleId)
  BY DEF Half
<1>2. flushed.done \in Seq(Entry) /\ flushed.open \in Seq(ArticleId)
  <2>1. CASE Ends(acc.open, a)
    <3>1. Combined(acc.open) \in Entry
      <4>1. acc.open # <<>>
        BY <2>1 DEF Ends
      <4>2. acc.open[1] \in ArticleId /\ ToSet(acc.open) \in SUBSET ArticleId
        BY <1>1, <4>1 DEF ToSet
      <4>3. QED
        BY <4>2 DEF Combined, Entry
    <3>2. Append(acc.done, Combined(acc.open)) \in Seq(Entry)
      BY <1>1, <3>1
    <3>3. flushed.done = Append(acc.done, Combined(acc.open)) /\ flushed.open = <<>>
      BY <2>1
    <3> HIDE DEF flushed
    <3>4. flushed.open \in Seq(ArticleId)
      BY <3>3
    <3>5. QED
      BY <3>2, <3>3, <3>4
  <2>2. CASE ~Ends(acc.open, a)
    BY <1>1, <2>2
  <2>3. QED
    BY <2>1, <2>2
<1>3. flushed = [done |-> flushed.done, open |-> flushed.open]
  BY DEF Half
<1> HIDE DEF flushed
<1>4. flushed \in Half
  BY <1>2, <1>3 DEF Half
<1>5. /\ [flushed EXCEPT !.done = Append(@, [item |-> a, options |-> {}])] \in Half
      /\ [flushed EXCEPT !.open = Append(@, a)] \in Half
  <2>1. [item |-> a, options |-> {}] \in Entry
    BY DEF Entry
  <2>2. Append(flushed.done, [item |-> a, options |-> {}]) \in Seq(Entry)
    BY <1>2, <2>1
  <2>3. Append(flushed.open, a) \in Seq(ArticleId)
    BY <1>2
  <2>4. QED
    BY <1>2, <1>4, <2>2, <2>3 DEF Half
<1>6. \/ Collect(acc, a) = [flushed EXCEPT !.done = Append(@, [item |-> a, options |-> {}])]
      \/ Collect(acc, a) = [flushed EXCEPT !.open = Append(@, a)]
  BY DEF Collect, flushed
<1>7. QED
  BY <1>5, <1>6

NoCards == [done |-> <<>>, open |-> <<>>]

(* The list is made article by article.                                     *)
LEMMA CollectSteps ==
  ASSUME NEW items \in Seq(ArticleId)
  PROVE  \E f \in [0 .. Len(items) -> Half] :
           /\ f[0] = NoCards
           /\ \A n \in 0 .. Len(items) : n < Len(items) => f[n + 1] = Collect(f[n], items[n + 1])
           /\ ProcessBallotItems(items) = f[Len(items)].done
<1> DEFINE D == DOMAIN items
           step == [p \in Half \X ArticleId |-> Collect(p[1], p[2])]
           next(g, t) == Collect(g[t \ {Max(t)}], items[Max(t)])
           collects(g) == g = [t \in SUBSET D |-> IF t = {} THEN NoCards ELSE next(g, t)]
           k == CHOOSE g : collects(g)
<1>1. /\ IsFiniteSet(D) /\ Picks(LastOf(D), D)
      /\ D = 1 .. Len(items) /\ Len(items) \in Nat
      /\ \A i \in D : items[i] \in ArticleId
  BY LastPicks
<1>2. NoCards \in Half /\ step \in [Half \X ArticleId -> Half]
  BY CollectIsHalf DEF NoCards, Half
<1>3. PICK g : FoldsList(g, items, ArticleId, Half, NoCards, step)
  <2> HIDE DEF step
  <2>1. QED
    BY <1>1, <1>2, ListFoldExists
<1>3a. g \in [SUBSET D -> Half] /\ ListFolds(g, items, NoCards, step)
  BY <1>3 DEF FoldsList
<1>4. ASSUME NEW t \in SUBSET D, t # {}
      PROVE  /\ LastOf(D)[t] = Max(t) /\ t \ {Max(t)} \in SUBSET D /\ g[t] = next(g, t)
  <2>1. Max(t) \in t /\ LastOf(D)[t] = Max(t)
    BY <1>1, <1>4 DEF LastOf, Picks
  <2>2. g[t] = step[<<g[t \ {Max(t)}], items[Max(t)]>>]
    <3> HIDE DEF step
    <3>1. QED
      BY <1>3a, <1>4 DEF ListFolds
  <2>3. Max(t) \in D /\ t \ {Max(t)} \in SUBSET D
    BY <2>1
  <2>4. g[t \ {Max(t)}] \in Half /\ items[Max(t)] \in ArticleId
    BY <1>1, <1>3a, <2>3
  <2>5. <<g[t \ {Max(t)}], items[Max(t)]>> \in Half \X ArticleId
    BY <2>4
  <2>6. QED
    BY <2>1, <2>2, <2>3, <2>5
<1>5. g[{}] = NoCards
  BY <1>3a DEF ListFolds
<1>6. collects(g)
  <2>1. \A t \in SUBSET D : g[t] = IF t = {} THEN NoCards ELSE next(g, t)
    BY <1>4, <1>5
  <2> HIDE DEF next, D
  <2>2. QED
    BY <1>3a, <2>1
<1>7. FoldLeft(Collect, NoCards, items) = k[D]
  BY DEF FoldLeft, MapThenFoldSet
<1>8. collects(k)
  <2> HIDE DEF collects
  <2>1. QED
    BY <1>6
<1>9. StepAlike(k, g, D, LastOf(D))
  <2>1. k[{}] = g[{}]
    BY <1>5, <1>8
  <2>2. ASSUME NEW t \in SUBSET D, t # {}, k[t \ {LastOf(D)[t]}] = g[t \ {LastOf(D)[t]}]
        PROVE  k[t] = g[t]
    <3>1. k[t] = next(k, t) /\ g[t] = next(g, t)
      <4> HIDE DEF next, D, k
      <4>1. QED
        BY <1>4, <1>8, <2>2
    <3>2. QED
      BY <1>4, <2>2, <3>1
  <2> HIDE DEF D, k, next, collects
  <2>3. QED
    BY <2>1, <2>2 DEF StepAlike
<1>10. PICK f \in [0 .. Len(items) -> Half] :
         ListSteps(f, items, NoCards, step) /\ f[Len(items)] = k[D]
  <2>1. StepAlike(k, g, DOMAIN items, LastOf(DOMAIN items))
    BY <1>9
  <2> HIDE DEF step, k, D
  <2>2. \E f \in [0 .. Len(items) -> Half] :
          ListSteps(f, items, NoCards, step) /\ f[Len(items)] = k[DOMAIN items]
    BY <1>3, <2>1, FoldedInSteps
  <2>3. QED
    BY <2>2 DEF D
<1>11. ASSUME NEW n \in 0 .. Len(items), n < Len(items)
       PROVE  f[n + 1] = Collect(f[n], items[n + 1])
  <2>1. f[n + 1] = step[<<f[n], items[n + 1]>>]
    <3> HIDE DEF step
    <3>1. QED
      BY <1>10, <1>11 DEF ListSteps
  <2>2. f[n] \in Half /\ n + 1 \in D
    BY <1>1, <1>10, <1>11
  <2>3. <<f[n], items[n + 1]>> \in Half \X ArticleId
    BY <1>1, <2>2
  <2>4. QED
    BY <2>1, <2>2, <2>3
<1>12. f[0] = NoCards
  BY <1>10 DEF ListSteps
<1>13. QED
  <2> HIDE DEF k, step
  <2>1. f \in [0 .. Len(items) -> Half] /\ FoldLeft(Collect, NoCards, items) = f[Len(items)]
    BY <1>7, <1>10
  <2>2. ProcessBallotItems(items) = f[Len(items)].done
    BY <2>1 DEF ProcessBallotItems, NoCards
  <2>3. QED
    BY <1>11, <1>12, <2>1, <2>2

(* The cards made of the filtered articles: each of these is on one card at *)
(* most, and on one at least unless it is of a series at the very end; of   *)
(* series that are kept together there is one card each.                    *)
LEMMA ProcessDeals ==
  ASSUME NEW items \in Seq(ArticleId), IsInjective(items), NEW dealt, dealt = ProcessBallotItems(items)
  PROVE  /\ WellDealt(dealt)
         /\ Together(items) => Apart(dealt)
         /\ EndsPlain(items) => \A a \in ToSet(items) : \E i \in 1 .. Len(dealt) : a \in Members(dealt[i])
<1> DEFINE N == Len(items)
<1>1. PICK f \in [0 .. N -> Half] :
        /\ f[0] = NoCards
        /\ \A n \in 0 .. N : n < N => f[n + 1] = Collect(f[n], items[n + 1])
        /\ ProcessBallotItems(items) = f[N].done
  BY CollectSteps
<1>2. N \in Nat /\ DOMAIN items = 1 .. N
  OBVIOUS
<1> DEFINE kept == Together(items)
           Good(n) == HalfDealt(f[n], Seen(items, n), kept) /\ OpenAt(f[n], items, n)
           G == {n \in 0 .. N : Good(n)}
<1>3. kept \in BOOLEAN
  BY DEF Together
<1>4. Good(0)
  <2>1. Seen(items, 0) = {}
    BY DEF Seen
  <2>2. /\ NoCards \in Half /\ NoCards.done = <<>> /\ NoCards.open = <<>>
        /\ Len(NoCards.done) = 0 /\ Len(NoCards.open) = 0
    BY DEF NoCards, Half
  <2>3. WellDealt(NoCards.done) /\ Apart(NoCards.done)
    BY <2>2 DEF WellDealt, MembersDiffer, Apart, Half
  <2>4. /\ SeenOnly(NoCards.done, {}) /\ OneOpen(NoCards.open, {})
        /\ NotYetDone(NoCards.done, NoCards.open) /\ AllSomewhere(NoCards.done, NoCards.open, {})
        /\ OpenApart(NoCards.done, NoCards.open)
    BY <2>2 DEF SeenOnly, OneOpen, NotYetDone, AllSomewhere, OpenApart
  <2>5. QED
    BY <1>1, <2>1, <2>2, <2>3, <2>4 DEF HalfDealt, OpenAt
<1>5. ASSUME NEW n \in 0 .. N, n \in G, n < N PROVE n + 1 \in G
  <2> HIDE DEF kept
  <2>1. f[n + 1] = Collect(f[n], items[n + 1]) /\ n + 1 \in 0 .. N
    BY <1>1, <1>2, <1>5
  <2>2. kept => Together(items)
    BY DEF kept
  <2>3. Good(n + 1)
    BY <1>3, <1>5, <2>1, <2>2, CollectKeeps
  <2>4. QED
    BY <2>1, <2>3
<1>6. Good(N)
  <2> HIDE DEF Good, N
  <2>1. 0 \in G
    BY <1>2, <1>4
  <2>2. \A n \in 0 .. N : n \in G
    <3> HIDE DEF G
    <3>1. QED
      BY <1>2, <1>5, <2>1, Induction
  <2>3. QED
    BY <1>2, <2>2
<1>7. dealt = f[N].done
  BY <1>1
<1>8. EndsPlain(items) => f[N].open = <<>>
  BY <1>2, <1>6 DEF EndsPlain, OpenAt
<1>9. ASSUME EndsPlain(items), NEW a \in ToSet(items)
      PROVE  \E i \in 1 .. Len(dealt) : a \in Members(dealt[i])
  <2>1. a \in Seen(items, N)
    BY <1>2 DEF ToSet, Seen
  <2>2. Len(f[N].open) = 0
    BY <1>8, <1>9
  <2>3. QED
    BY <1>6, <1>7, <2>1, <2>2 DEF HalfDealt, AllSomewhere
<1>10. QED
  BY <1>6, <1>7, <1>9 DEF HalfDealt

-----------------------------------------------------------------------------
(***************************************************************************)
(* The constitution.                                                       *)
(***************************************************************************)

ItemsOf(choices) == {c.item : c \in ToSet(choices)}
ListedOf(choices) == {c.item : c \in {d \in ToSet(choices) : d.listed}}

InOrder == {p \in Choice \X Choice :
  /\ ModuleTypeIndex[p[1].item] <= ModuleTypeIndex[p[2].item]
  /\ p[1].listed /\ p[2].listed => p[1].item # p[2].item}
Chooses(choices) == choices \in Seq(Choice) /\ Ordered(choices, InOrder)

LEMMA InOrderIs ==
  \A c, d : <<c, d>> \in InOrder <=>
    /\ c \in Choice /\ d \in Choice
    /\ ModuleTypeIndex[c.item] <= ModuleTypeIndex[d.item]
    /\ c.listed /\ d.listed => c.item # d.item
BY DEF InOrder

LEMMA ItemsAre ==
  ASSUME NEW choices \in Seq(Choice)
  PROVE  /\ \A a : a \in ItemsOf(choices) <=> \E c \in Choice : Has(choices, c) /\ c.item = a
         /\ \A a : a \in ListedOf(choices) <=> \E c \in Choice : Has(choices, c) /\ c.listed /\ c.item = a
<1>1. DOMAIN choices = 1 .. Len(choices) /\ \A i \in 1 .. Len(choices) : choices[i] \in Choice
  OBVIOUS
<1>2. \A c : c \in ToSet(choices) <=> c \in Choice /\ Has(choices, c)
  BY <1>1 DEF ToSet, Has
<1>3. QED
  BY <1>2 DEF ItemsOf, ListedOf

(* A choice comes to its place, an article is taken out by its id.          *)
LEMMA InsertIs ==
  ASSUME NEW choices, Chooses(choices), NEW a \in ArticleId, a \notin ListedOf(choices),
         NEW r, r = Insert(choices, [item |-> a, listed |-> TRUE])
  PROVE  /\ Chooses(r)
         /\ ItemsOf(r) = ItemsOf(choices) \union {a} /\ ListedOf(r) = ListedOf(choices) \union {a}
<1> DEFINE x == [item |-> a, listed |-> TRUE]
           T == {c \in ToSet(choices) : ModuleTypeIndex[c.item] <= ModuleTypeIndex[x.item]}
<1>1. x \in Choice /\ x.item = a /\ x.listed
  BY DEF Choice
<1>2. r = InsertAfter(choices, T, x)
  BY DEF Insert
<1>3. choices \in Seq(Choice) /\ Ordered(choices, InOrder)
  BY DEF Chooses
<1>4. /\ DOMAIN choices = 1 .. Len(choices)
      /\ \A i \in 1 .. Len(choices) : choices[i] \in Choice
  BY <1>3
<1>5. \A i \in 1 .. Len(choices) :
        choices[i] \in T <=> ModuleTypeIndex[choices[i].item] <= ModuleTypeIndex[a]
  BY <1>1, <1>4 DEF ToSet
<1> HIDE DEF x, T
<1>6. \A c \in Choice : ModuleTypeIndex[c.item] \in Nat /\ c.listed \in BOOLEAN
  BY SeriesAssumption DEF Choice
<1>7. \A i \in 1 .. Len(choices) : choices[i].listed => choices[i].item # a
  BY <1>3, <1>4, ItemsAre DEF Has
<1>8. FitsIn(x, choices, T, InOrder)
  <2>1. ASSUME NEW i \in 1 .. Len(choices)
        PROVE  IF choices[i] \in T THEN <<choices[i], x>> \in InOrder ELSE <<x, choices[i]>> \in InOrder
    <3>1. choices[i] \in Choice /\ (choices[i].listed => choices[i].item # a)
      BY <1>4, <1>7
    <3>2. CASE choices[i] \in T
      BY <1>1, <1>5, <3>1, <3>2, InOrderIs
    <3>3. CASE choices[i] \notin T
      <4>1. ModuleTypeIndex[a] <= ModuleTypeIndex[choices[i].item]
        BY <1>1, <1>5, <1>6, <3>1, <3>3
      <4>2. QED
        BY <1>1, <3>1, <3>3, <4>1, InOrderIs
    <3>4. QED
      BY <3>2, <3>3
  <2>2. ASSUME NEW i \in 1 .. Len(choices), NEW j \in 1 .. Len(choices),
               choices[i] \in T, choices[j] \notin T
        PROVE  <<choices[i], choices[j]>> \in InOrder
    <3>1. /\ choices[i] \in Choice /\ choices[j] \in Choice
          /\ ModuleTypeIndex[choices[i].item] <= ModuleTypeIndex[a]
          /\ ~(ModuleTypeIndex[choices[j].item] <= ModuleTypeIndex[a])
      BY <1>4, <1>5, <2>2
    <3>2. /\ ModuleTypeIndex[choices[i].item] <= ModuleTypeIndex[choices[j].item]
          /\ ModuleTypeIndex[choices[i].item] # ModuleTypeIndex[choices[j].item]
      BY <1>1, <1>6, <3>1
    <3>3. choices[i].item # choices[j].item
      BY <3>2
    <3>4. QED
      BY <3>1, <3>2, <3>3, InOrderIs
  <2>3. QED
    BY <2>1, <2>2 DEF FitsIn
<1>9. r \in Seq(Choice) /\ \A y : Has(r, y) <=> y = x \/ Has(choices, y)
  BY <1>1, <1>2, <1>3, InsertHas
<1>10. Chooses(r)
  BY <1>1, <1>2, <1>3, <1>8, <1>9, InsertKeepsOrder DEF Chooses
<1>11. ItemsOf(r) = ItemsOf(choices) \union {a}
  <2>1. ASSUME NEW b \in ItemsOf(r) PROVE b \in ItemsOf(choices) \/ b = a
    <3>1. PICK c \in Choice : Has(r, c) /\ c.item = b
      BY <1>9, ItemsAre
    <3>2. QED
      BY <1>1, <1>3, <1>9, <3>1, ItemsAre
  <2>2. ASSUME NEW b \in ItemsOf(choices) PROVE b \in ItemsOf(r)
    <3>1. PICK c \in Choice : Has(choices, c) /\ c.item = b
      BY <1>3, ItemsAre
    <3>2. QED
      BY <1>9, <3>1, ItemsAre
  <2>3. a \in ItemsOf(r)
    BY <1>1, <1>9, ItemsAre
  <2>4. QED
    BY <2>1, <2>2, <2>3
<1>12. ListedOf(r) = ListedOf(choices) \union {a}
  <2>1. ASSUME NEW b \in ListedOf(r) PROVE b \in ListedOf(choices) \/ b = a
    <3>1. PICK c \in Choice : Has(r, c) /\ c.listed /\ c.item = b
      BY <1>9, ItemsAre
    <3>2. QED
      BY <1>1, <1>3, <1>9, <3>1, ItemsAre
  <2>2. ASSUME NEW b \in ListedOf(choices) PROVE b \in ListedOf(r)
    <3>1. PICK c \in Choice : Has(choices, c) /\ c.listed /\ c.item = b
      BY <1>3, ItemsAre
    <3>2. QED
      BY <1>9, <3>1, ItemsAre
  <2>3. a \in ListedOf(r)
    BY <1>1, <1>9, ItemsAre
  <2>4. QED
    BY <2>1, <2>2, <2>3
<1>13. QED
  BY <1>10, <1>11, <1>12

LEMMA TakeOutIs ==
  ASSUME NEW choices, Chooses(choices), NEW a,
         NEW r, r = FilterSeq(choices, {c \in ToSet(choices) : c.item # a})
  PROVE  /\ Chooses(r)
         /\ ItemsOf(r) = ItemsOf(choices) \ {a} /\ ListedOf(r) = ListedOf(choices) \ {a}
<1> DEFINE T == {c \in ToSet(choices) : c.item # a}
<1>1. choices \in Seq(Choice) /\ Ordered(choices, InOrder)
  BY DEF Chooses
<1>2. r \in Seq(Choice) /\ \A y : Has(r, y) <=> Has(choices, y) /\ y \in T
  <2> HIDE DEF T
  <2>1. r = FilterSeq(choices, T)
    BY DEF T
  <2>2. QED
    BY <1>1, <2>1, FilterHas
<1>3. \A y : Has(r, y) <=> Has(choices, y) /\ y.item # a
  <2>1. DOMAIN choices = 1 .. Len(choices)
    BY <1>1
  <2>2. \A y : y \in ToSet(choices) <=> Has(choices, y)
    BY <2>1 DEF ToSet, Has
  <2>3. QED
    BY <1>2, <2>2
<1>4. Ordered(r, InOrder)
  <2>1. \A i, j \in 1 .. Len(choices) : i < j => <<choices[i], choices[j]>> \in InOrder
    BY <1>1 DEF Ordered
  <2>2. \A i, j \in 1 .. Len(r) : i < j => <<r[i], r[j]>> \in InOrder
    BY <1>1, <2>1, FilterKeepsOrder
  <2>3. QED
    BY <2>2 DEF Ordered
<1>5. ItemsOf(r) = ItemsOf(choices) \ {a}
  <2>1. \A b : b \in ItemsOf(r) <=> b \in ItemsOf(choices) /\ b # a
    BY <1>1, <1>2, <1>3, ItemsAre
  <2>2. QED
    BY <2>1
<1>6. ListedOf(r) = ListedOf(choices) \ {a}
  <2>1. \A b : b \in ListedOf(r) <=> b \in ListedOf(choices) /\ b # a
    BY <1>1, <1>2, <1>3, ItemsAre
  <2>2. QED
    BY <2>1
<1>7. QED
  BY <1>2, <1>4, <1>5, <1>6 DEF Chooses

(* After a reload the choices are other objects than those of the list.     *)
LEMMA UnlistedIs ==
  ASSUME NEW choices, Chooses(choices),
         NEW r, r = [i \in DOMAIN choices |-> [choices[i] EXCEPT !.listed = FALSE]]
  PROVE  Chooses(r) /\ ListedOf(r) = {}
<1>1. choices \in Seq(Choice) /\ Ordered(choices, InOrder)
  BY DEF Chooses
<1>2. /\ DOMAIN choices = 1 .. Len(choices) /\ Len(choices) \in Nat
      /\ \A i \in 1 .. Len(choices) : choices[i] \in Choice
  BY <1>1
<1>3. \A i \in 1 .. Len(choices) :
        r[i] \in Choice /\ r[i].item = choices[i].item /\ ~r[i].listed
  BY <1>2 DEF Choice
<1>4. r \in Seq(Choice) /\ Len(r) = Len(choices)
  <2>1. r \in [1 .. Len(choices) -> Choice]
    BY <1>2, <1>3
  <2> HIDE DEF Choice
  <2>2. r \in Seq(Choice)
    BY <1>2, <2>1, Enumerated
  <2>3. DOMAIN r = 1 .. Len(r) /\ DOMAIN r = 1 .. Len(choices) /\ Len(r) \in Nat
    BY <2>1, <2>2
  <2>4. QED
    BY <1>2, <2>2, <2>3
<1>5. Ordered(r, InOrder)
  <2> SUFFICES ASSUME NEW i \in 1 .. Len(r), NEW j \in 1 .. Len(r), i < j
               PROVE  <<r[i], r[j]>> \in InOrder
    BY DEF Ordered
  <2>1. <<choices[i], choices[j]>> \in InOrder
    BY <1>1, <1>4 DEF Ordered
  <2>2. QED
    BY <1>3, <1>4, <2>1, InOrderIs
<1>6. ListedOf(r) = {}
  <2> SUFFICES ASSUME NEW b \in ListedOf(r) PROVE FALSE
    OBVIOUS
  <2>1. PICK c \in Choice : Has(r, c) /\ c.listed
    BY <1>4, ItemsAre
  <2>2. PICK i \in 1 .. Len(r) : r[i] = c
    BY <2>1 DEF Has
  <2>3. QED
    BY <1>3, <1>4, <2>1, <2>2
<1>7. QED
  BY <1>4, <1>5, <1>6 DEF Chooses

-----------------------------------------------------------------------------
(***************************************************************************)
(* Cards and their entries.                                                *)
(***************************************************************************)

(* The element of each entry shows it, and has the id it was made for.      *)
ShowsEntry(element, entry) ==
  element.item = entry.item /\ element.options = entry.options /\ element.key \in Members(entry)
Aligned ==
  Len(elements) = Len(processed) /\ \A i \in 1 .. Len(processed) : ShowsEntry(elements[i], processed[i])

(* An article whose card is about to be removed has a card, and it is       *)
(* covered.                                                                 *)
Covers(a, i) == elements[i].item = a /\ elements[i].covered
LeavingCovered == \A a \in leaving : \E i \in 1 .. Len(elements) : Covers(a, i)

CardsAgree == WellDealt(processed) /\ elements \in Seq(Element) /\ Aligned /\ LeavingCovered

LEMMA CardsAre ==
  ASSUME CardsAgree
  PROVE  /\ Len(elements) \in Nat /\ Len(processed) = Len(elements)
         /\ processed \in Seq(Entry) /\ elements \in Seq(Element)
         /\ DOMAIN elements = 1 .. Len(elements) /\ DOMAIN processed = 1 .. Len(elements)
         /\ \A i \in 1 .. Len(elements) :
              /\ elements[i] \in Element /\ processed[i] \in Entry
              /\ ShowsEntry(elements[i], processed[i]) /\ WellMade(processed[i])
         /\ \A i, j \in 1 .. Len(elements) :
              i # j => Members(processed[i]) \cap Members(processed[j]) = {}
<1>1. processed \in Seq(Entry) /\ elements \in Seq(Element) /\ Len(elements) = Len(processed)
  BY DEF CardsAgree, WellDealt, Aligned
<1>2. /\ \A i \in 1 .. Len(elements) : ShowsEntry(elements[i], processed[i]) /\ WellMade(processed[i])
      /\ \A i, j \in 1 .. Len(elements) :
           i # j => Members(processed[i]) \cap Members(processed[j]) = {}
  BY <1>1 DEF CardsAgree, WellDealt, MembersDiffer, Aligned
<1> DEFINE n == Len(elements)
<1>3. n \in Nat /\ DOMAIN elements = 1 .. n /\ \A i \in 1 .. n : elements[i] \in Element
  BY <1>1
<1>4. DOMAIN processed = 1 .. n /\ \A i \in 1 .. n : processed[i] \in Entry
  <2>1. DOMAIN processed = 1 .. Len(processed) /\ \A i \in 1 .. Len(processed) : processed[i] \in Entry
    BY <1>1
  <2>2. QED
    BY <1>1, <2>1
<1>5. QED
  BY <1>1, <1>2, <1>3, <1>4, Zenon

(* An article is on one card.                                               *)
LEMMA OneCard ==
  ASSUME CardsAgree, NEW i \in 1 .. Len(elements), NEW j \in 1 .. Len(elements), NEW a,
         a \in Members(processed[i]), a \in Members(processed[j])
  PROVE  i = j
BY CardsAre

(* A change of an element that leaves what it shows.                        *)
Like(new, old) ==
  new \in Element /\ new.item = old.item /\ new.options = old.options /\ new.key = old.key
Restyled ==
  /\ UNCHANGED processed /\ DOMAIN elements' = DOMAIN elements
  /\ elements' = [i \in DOMAIN elements |-> elements'[i]]
  /\ \A i \in 1 .. Len(elements) : Like(elements'[i], elements[i])

LEMMA RestyledKeeps ==
  ASSUME CardsAgree, Restyled
  PROVE  Len(elements') = Len(elements) /\ elements' \in Seq(Element) /\ Aligned'
<1>1. /\ Len(elements) \in Nat /\ DOMAIN elements = 1 .. Len(elements)
      /\ Len(processed) = Len(elements)
      /\ \A i \in 1 .. Len(elements) : ShowsEntry(elements[i], processed[i])
  BY CardsAre
<1>2. elements' \in Seq(Element) /\ Len(elements') = Len(elements)
  <2>1. elements' \in [1 .. Len(elements) -> Element]
    BY <1>1 DEF Restyled, Like
  <2>2. elements' \in Seq(Element)
    <3> HIDE DEF Element
    <3>1. QED
      BY <1>1, <2>1, Enumerated
  <2>3. Len(elements') = Len(elements)
    <3> HIDE DEF Element
    <3>1. QED
      BY <1>1, <2>1, ListLength
  <2>4. QED
    BY <2>2, <2>3
<1>3. processed' = processed
  BY DEF Restyled
<1>4. \A i \in 1 .. Len(elements) : ShowsEntry(elements'[i], processed[i])
  BY <1>1 DEF Restyled, Like, ShowsEntry
<1>5. Aligned'
  BY <1>1, <1>2, <1>3, <1>4 DEF Aligned
<1>6. QED
  BY <1>2, <1>5

(* One element after a change of its marks.                                 *)
LEMMA OneRestyled ==
  ASSUME CardsAgree, UNCHANGED processed, NEW i \in 1 .. Len(elements), NEW new,
         Like(new, elements[i]), elements' = [elements EXCEPT ![i] = new]
  PROVE  Restyled
<1>1. /\ DOMAIN elements = 1 .. Len(elements)
      /\ elements = [j \in DOMAIN elements |-> elements[j]]
      /\ \A j \in 1 .. Len(elements) : elements[j] \in Element
  BY CardsAre
<1>2. \A j \in 1 .. Len(elements) : Like(elements'[j], elements[j])
  BY <1>1 DEF Like
<1>3. QED
  BY <1>1, <1>2 DEF Restyled

StayCovered ==
  \A a \in leaving' : \E i \in 1 .. Len(elements) : elements[i].item = a /\ elements'[i].covered

LEMMA RestyledAgrees ==
  ASSUME CardsAgree, Restyled, StayCovered
  PROVE  CardsAgree' /\ Len(elements') = Len(elements)
<1>1. Len(elements') = Len(elements) /\ elements' \in Seq(Element) /\ Aligned'
  BY RestyledKeeps
<1>2. WellDealt(processed')
  BY DEF CardsAgree, Restyled
<1>3. LeavingCovered'
  <2> SUFFICES ASSUME NEW a \in leaving' PROVE \E i \in 1 .. Len(elements') : Covers(a, i)'
    BY DEF LeavingCovered
  <2>1. PICK i \in 1 .. Len(elements) : elements[i].item = a /\ elements'[i].covered
    BY DEF StayCovered
  <2>2. elements'[i].item = a
    BY <2>1 DEF Restyled, Like
  <2>3. QED
    BY <1>1, <2>1, <2>2 DEF Covers
<1>4. QED
  BY <1>1, <1>2, <1>3 DEF CardsAgree

(* A list without some of the cards.                                        *)
Picking(m, some, all) ==
  /\ m \in [1 .. Len(some) -> 1 .. Len(all)]
  /\ \A i, j \in 1 .. Len(some) : m[i] = m[j] => i = j
  /\ \A i \in 1 .. Len(some) : some[i] = all[m[i]]

LEMMA PickedAreWell ==
  ASSUME NEW all, WellDealt(all), NEW some \in Seq(Entry), NEW m, Picking(m, some, all)
  PROVE  WellDealt(some) /\ (Apart(all) => Apart(some))
<1>1. /\ \A i \in 1 .. Len(some) : m[i] \in 1 .. Len(all) /\ some[i] = all[m[i]]
      /\ \A i, j \in 1 .. Len(some) : i # j => m[i] # m[j]
  BY DEF Picking
<1>0. (\A k \in 1 .. Len(all) : WellMade(all[k])) /\ MembersDiffer(all)
  BY DEF WellDealt
<1>2. \A i \in 1 .. Len(some) : WellMade(some[i])
  <2> SUFFICES ASSUME NEW i \in 1 .. Len(some) PROVE WellMade(some[i])
    OBVIOUS
  <2>1. m[i] \in 1 .. Len(all) /\ some[i] = all[m[i]]
    BY <1>1
  <2>2. WellMade(all[m[i]])
    BY <1>0, <2>1
  <2>3. QED
    BY <2>1, <2>2
<1>3. MembersDiffer(some)
  <2> SUFFICES ASSUME NEW i \in 1 .. Len(some), NEW j \in 1 .. Len(some), i # j
               PROVE  Members(some[i]) \cap Members(some[j]) = {}
    BY DEF MembersDiffer
  <2>1. /\ m[i] \in 1 .. Len(all) /\ some[i] = all[m[i]]
        /\ m[j] \in 1 .. Len(all) /\ some[j] = all[m[j]]
        /\ m[i] # m[j]
    BY <1>1
  <2>2. Members(all[m[i]]) \cap Members(all[m[j]]) = {}
    BY <1>0, <2>1 DEF MembersDiffer
  <2>3. QED
    BY <2>1, <2>2
<1>4. ASSUME Apart(all) PROVE Apart(some)
  <2> SUFFICES ASSUME NEW i \in 1 .. Len(some), NEW j \in 1 .. Len(some), i # j,
                      Series[some[i].item] = Series[some[j].item]
               PROVE  Series[some[i].item] = NoSeries
    BY DEF Apart
  <2>1. /\ m[i] \in 1 .. Len(all) /\ some[i] = all[m[i]]
        /\ m[j] \in 1 .. Len(all) /\ some[j] = all[m[j]]
        /\ m[i] # m[j]
    BY <1>1
  <2>2. Series[all[m[i]].item] = Series[all[m[j]].item] => Series[all[m[i]].item] = NoSeries
    BY <1>4, <2>1 DEF Apart
  <2>3. QED
    BY <2>1, <2>2
<1>5. QED
  BY <1>2, <1>3, <1>4 DEF WellDealt

LEMMA AllArePicked ==
  ASSUME NEW all \in Seq(Entry)
  PROVE  \E m : Picking(m, all, all) /\ \A i \in 1 .. Len(all) : m[i] = i
<1> DEFINE m == [i \in 1 .. Len(all) |-> i]
<1>1. Picking(m, all, all) /\ \A i \in 1 .. Len(all) : m[i] = i
  BY DEF Picking
<1>2. QED
  BY <1>1

LEMMA NewShows ==
  ASSUME NEW entry \in Entry, NEW chosen, NEW picked \in BOOLEAN,
         NEW new, new = NewElement(entry, chosen, picked)
  PROVE  new \in Element /\ ShowsEntry(new, entry) /\ new.covered = (entry.item \in chosen)
<1> DEFINE covered == entry.item \in chosen
<1>1. covered \in BOOLEAN /\ entry.item \in ArticleId /\ entry.options \in SUBSET ArticleId
  BY DEF Entry
<1>2. new = [[key |-> entry.item, item |-> entry.item, options |-> entry.options, picked |-> FALSE,
              blocked |-> FALSE, covered |-> FALSE, marked |-> FALSE]
             EXCEPT !.picked = picked, !.covered = covered]
  BY DEF NewElement, Reset
<1> HIDE DEF covered
<1>3. /\ new = [key |-> entry.item, item |-> entry.item, options |-> entry.options, picked |-> picked,
                blocked |-> FALSE, covered |-> covered, marked |-> FALSE]
  BY <1>2
<1>4. new \in Element
  BY <1>1, <1>3 DEF Element
<1>5. /\ new.key = entry.item /\ new.item = entry.item /\ new.options = entry.options
      /\ new.covered = covered
  BY <1>3
<1>6. QED
  BY <1>4, <1>5 DEF ShowsEntry, Members, covered

(* repeat: an entry gets the element it has, or a new one.                  *)
LEMMA RenderIs ==
  ASSUME CardsAgree, NEW entries \in Seq(Entry), NEW m, Picking(m, entries, processed), NEW chosen,
         NEW rendered, rendered = Render(entries, chosen)
  PROVE  /\ rendered \in Seq(Element) /\ Len(rendered) = Len(entries)
         /\ \A i \in 1 .. Len(entries) :
              /\ ShowsEntry(rendered[i], entries[i])
              /\ \/ rendered[i] = elements[m[i]]
                 \/ rendered[i].covered = (entries[i].item \in chosen)
<1> DEFINE Kept(entry) == {e \in ToSet(elements) : e.key = entry.item}
           ElementOf(entry) == IF Kept(entry) # {}
                               THEN CHOOSE e \in Kept(entry) : TRUE
                               ELSE NewElement(entry, chosen, TRUE)
<1>1. /\ DOMAIN entries = 1 .. Len(entries) /\ Len(entries) \in Nat
      /\ \A i \in 1 .. Len(entries) : entries[i] \in Entry
  OBVIOUS
<1>2. \A i \in 1 .. Len(entries) : m[i] \in 1 .. Len(elements) /\ entries[i] = processed[m[i]]
  BY CardsAre DEF Picking
<1>3. rendered = [i \in 1 .. Len(entries) |-> ElementOf(entries[i])]
  BY <1>1 DEF Render
<1>4. ASSUME NEW i \in 1 .. Len(entries)
      PROVE  /\ ElementOf(entries[i]) \in Element
             /\ ShowsEntry(ElementOf(entries[i]), entries[i])
             /\ \/ ElementOf(entries[i]) = elements[m[i]]
                \/ ElementOf(entries[i]).covered = (entries[i].item \in chosen)
  <2>1. CASE Kept(entries[i]) # {}
    <3>1. \A e \in Kept(entries[i]) : e = elements[m[i]]
      <4> TAKE e \in Kept(entries[i])
      <4>1. PICK j \in 1 .. Len(elements) : e = elements[j]
        BY CardsAre DEF ToSet
      <4>2. e.key = entries[i].item /\ e.key \in Members(processed[j])
        BY <4>1, CardsAre DEF ShowsEntry
      <4>3. e.key \in Members(processed[m[i]])
        BY <1>2, <4>2 DEF Members
      <4>4. j = m[i]
        BY <1>2, <4>2, <4>3, OneCard
      <4>5. QED
        BY <4>1, <4>4
    <3>2. ElementOf(entries[i]) = elements[m[i]]
      <4>1. ElementOf(entries[i]) \in Kept(entries[i])
        BY <2>1
      <4> HIDE DEF Kept, ElementOf
      <4>2. QED
        BY <3>1, <4>1
    <3> HIDE DEF ElementOf
    <3>3. QED
      BY <1>2, <3>2, CardsAre
  <2>2. CASE Kept(entries[i]) = {}
    <3>1. ElementOf(entries[i]) = NewElement(entries[i], chosen, TRUE)
      BY <2>2
    <3> HIDE DEF ElementOf
    <3>2. QED
      BY <1>1, <3>1, NewShows
  <2>3. QED
    BY <2>1, <2>2
<1> HIDE DEF ElementOf
<1>5. rendered \in [1 .. Len(entries) -> Element]
  BY <1>3, <1>4
<1>6. rendered \in Seq(Element) /\ Len(rendered) = Len(entries)
  <2> HIDE DEF Element
  <2>1. QED
    BY <1>1, <1>5, Enumerated, ListLength
<1>7. QED
  BY <1>3, <1>4, <1>6

(* The cards after a render, when the list has lost some entries or none.   *)
StillRendered(m, chosen) ==
  \A a \in leaving' : a \in chosen /\
    \E i \in 1 .. Len(processed') : Covers(a, m[i])
Rendered(m, chosen) ==
  processed' \in Seq(Entry) /\ Picking(m, processed', processed) /\ elements' = Render(processed', chosen)

LEMMA RenderAgrees ==
  ASSUME CardsAgree, NEW m, NEW chosen, Rendered(m, chosen), StillRendered(m, chosen)
  PROVE  CardsAgree' /\ (Apart(processed) => Apart(processed'))
<1>1. processed' \in Seq(Entry) /\ Picking(m, processed', processed)
  BY DEF Rendered
<1>2. /\ elements' \in Seq(Element) /\ Len(elements') = Len(processed')
      /\ \A i \in 1 .. Len(processed') :
           /\ ShowsEntry(elements'[i], processed'[i])
           /\ \/ elements'[i] = elements[m[i]]
              \/ elements'[i].covered = (processed'[i].item \in chosen)
  BY <1>1, RenderIs DEF Rendered
<1>3. WellDealt(processed') /\ (Apart(processed) => Apart(processed'))
  BY <1>1, PickedAreWell DEF CardsAgree
<1>4. Aligned'
  BY <1>2 DEF Aligned
<1>5. LeavingCovered'
  <2> SUFFICES ASSUME NEW a \in leaving' PROVE \E i \in 1 .. Len(elements') : Covers(a, i)'
    BY DEF LeavingCovered
  <2>1. PICK i \in 1 .. Len(processed') : Covers(a, m[i])
    BY DEF StillRendered
  <2>2. m[i] \in 1 .. Len(elements) /\ processed'[i] = processed[m[i]]
    BY <1>1, CardsAre DEF Picking
  <2>3. elements'[i].item = a
    BY <1>2, <2>1, <2>2, CardsAre DEF Covers, ShowsEntry
  <2>4. elements'[i].covered
    BY <1>2, <2>1, <2>3 DEF Covers, StillRendered, ShowsEntry
  <2>5. QED
    BY <1>2, <2>3, <2>4 DEF Covers
<1>6. QED
  BY <1>2, <1>3, <1>4, <1>5 DEF CardsAgree

(* One entry taken out of a list.                                           *)
LEMMA TakenOut ==
  ASSUME NEW S, NEW s \in Seq(S), NEW k \in 1 .. Len(s), NEW r, r = RemoveAt(s, k)
  PROVE  r \in Seq(S) /\ \E m : /\ Picking(m, r, s)
                                /\ \A i \in 1 .. Len(r) : m[i] # k
                                /\ \A j \in 1 .. Len(s) : j # k => \E i \in 1 .. Len(r) : m[i] = j
<1> DEFINE n == Len(s)
           f == SubSeq(s, 1, k - 1)
           g == SubSeq(s, k + 1, n)
           m == [i \in 1 .. Len(r) |-> IF i < k THEN i ELSE i + 1]
<1>1. n \in Nat /\ k \in Nat /\ 1 <= k /\ k <= n /\ r = f \o g
  BY DEF RemoveAt
<1>2. f \in Seq(S) /\ Len(f) = k - 1 /\ \A i \in 1 .. k - 1 : f[i] = s[i]
  BY <1>1
<1>3. g \in Seq(S) /\ Len(g) = n - k /\ \A i \in 1 .. n - k : g[i] = s[k + i]
  BY <1>1
<1> HIDE DEF f, g
<1>4. /\ r \in Seq(S) /\ Len(r) = n - 1
      /\ \A i \in 1 .. Len(r) : r[i] = IF i < k THEN f[i] ELSE g[i - (k - 1)]
  BY <1>1, <1>2, <1>3
<1> HIDE DEF n
<1>5. ASSUME NEW i \in 1 .. Len(r)
      PROVE  r[i] = s[m[i]] /\ m[i] \in 1 .. n /\ m[i] # k
  <2>1. CASE i < k
    BY <1>1, <1>2, <1>4, <2>1
  <2>2. CASE i >= k
    <3>1. i - (k - 1) \in 1 .. n - k /\ k + (i - (k - 1)) = i + 1
      BY <1>1, <1>4, <2>2
    <3>2. r[i] = s[i + 1]
      BY <1>1, <1>3, <1>4, <2>2, <3>1
    <3>3. QED
      BY <1>1, <1>4, <2>2, <3>2
  <2>3. QED
    BY <1>1, <2>1, <2>2
<1>6. ASSUME NEW i \in 1 .. Len(r), NEW j \in 1 .. Len(r), m[i] = m[j] PROVE i = j
  BY <1>1, <1>4, <1>6
<1>7. ASSUME NEW j \in 1 .. n, j # k PROVE \E i \in 1 .. Len(r) : m[i] = j
  <2>1. CASE j < k
    <3>1. j \in 1 .. Len(r) /\ m[j] = j
      BY <1>1, <1>4, <2>1
    <3>2. QED
      BY <3>1
  <2>2. CASE j > k
    <3>1. j - 1 \in 1 .. Len(r) /\ ~(j - 1 < k) /\ (j - 1) + 1 = j
      BY <1>1, <1>4, <2>2
    <3>2. QED
      BY <3>1
  <2>3. QED
    BY <1>1, <1>7, <2>1, <2>2
<1>8. m \in [1 .. Len(r) -> 1 .. n]
  BY <1>5
<1> HIDE DEF m
<1>9. Picking(m, r, s)
  BY <1>5, <1>6, <1>8 DEF Picking, n
<1>10. QED
  BY <1>4, <1>5, <1>7, <1>9 DEF n

(* The first of a list that has an id.                                      *)
LEMMA MinOfOne == ASSUME NEW i \in Nat PROVE Min({i}) = i
BY DEF Min

LEMMA CardOfItem ==
  ASSUME CardsAgree, NEW i \in 1 .. Len(elements), NEW a, processed[i].item = a
  PROVE  /\ {j \in 1 .. Len(processed) : processed[j].item = a} = {i}
         /\ Min({j \in 1 .. Len(processed) : processed[j].item = a}) = i
<1> DEFINE I == {j \in 1 .. Len(processed) : processed[j].item = a}
<1>1. I = {i}
  <2>1. i \in I
    BY CardsAre
  <2>2. \A j \in I : j = i
    BY OneCard, CardsAre DEF Members
  <2>3. QED
    BY <2>1, <2>2
<1>2. i \in Nat
  BY CardsAre
<1>3. Min(I) = i
  BY <1>1, <1>2, MinOfOne
<1>4. QED
  BY <1>1, <1>3

-----------------------------------------------------------------------------
(***************************************************************************)
(* What a step does to the cards.                                          *)
(***************************************************************************)

Rest ==
  /\ filtered \in Filtered
  /\ Chooses(constitution)
  /\ leaving \subseteq ListedOf(constitution)
  /\ releasing \in SUBSET (ToSet(Series) \ {NoSeries})
  /\ scans \in Seq(Scan)
  /\ mounts \in 1 .. MaxMounts

BallotInv == Rest /\ CardsAgree

(* Every card still offers what it did.                                     *)
SameCards ==
  /\ Len(processed') = Len(processed)
  /\ \A i \in 1 .. Len(processed) :
       /\ Members(processed'[i]) = Members(processed[i])
       /\ Series[processed'[i].item] = Series[processed[i].item]

LEMMA StartedIs ==
  ASSUME NEW running \in Seq(Scan) PROVE Started(running) \in Seq(Scan)
<1>1. [at |-> 0, ids |-> <<>>] \in Scan
  BY DEF Scan
<1> HIDE DEF Scan
<1>2. QED
  BY <1>1 DEF Started

(* Removals and renders aside, the elements that cover an article stay.     *)
LEMMA QuietAgrees ==
  ASSUME CardsAgree, UNCHANGED processed, UNCHANGED elements, leaving' \subseteq leaving
  PROVE  CardsAgree' /\ SameCards
<1>1. processed' = processed /\ elements' = elements
  OBVIOUS
<1>2. WellDealt(processed') /\ elements' \in Seq(Element) /\ Aligned'
  BY <1>1 DEF CardsAgree, Aligned
<1>3. LeavingCovered'
  BY <1>1 DEF CardsAgree, LeavingCovered, Covers
<1>4. QED
  BY <1>1, <1>2, <1>3 DEF CardsAgree, SameCards

(* A change of the marks of one card that covers it, or leaves its cover.   *)
LEMMA OneMarked ==
  ASSUME CardsAgree, UNCHANGED processed, NEW i \in 1 .. Len(elements), NEW new,
         Like(new, elements[i]), elements' = [elements EXCEPT ![i] = new],
         \A a \in leaving' : a \in leaving \/ a = elements[i].item,
         new.covered \/ elements[i].item \notin leaving'
  PROVE  CardsAgree' /\ SameCards
<1>1. DOMAIN elements = 1 .. Len(elements)
  BY CardsAre
<1>2. Restyled
  BY OneRestyled
<1>3. StayCovered
  <2> SUFFICES ASSUME NEW a \in leaving'
               PROVE  \E j \in 1 .. Len(elements) : elements[j].item = a /\ elements'[j].covered
    BY DEF StayCovered
  <2>1. CASE a = elements[i].item
    <3>1. elements'[i] = new
      BY <1>1
    <3>2. QED
      BY <2>1, <3>1
  <2>2. CASE a # elements[i].item
    <3>1. PICK j \in 1 .. Len(elements) : elements[j].item = a /\ elements[j].covered
      BY <2>2 DEF CardsAgree, LeavingCovered, Covers
    <3>2. elements'[j] = elements[j]
      BY <1>1, <2>2, <3>1
    <3>3. QED
      BY <3>1, <3>2
  <2>3. QED
    BY <2>1, <2>2
<1>4. CardsAgree'
  BY <1>2, <1>3, RestyledAgrees
<1>5. SameCards
  BY DEF SameCards
<1>6. QED
  BY <1>4, <1>5

(* A card that shows another option of its series.                          *)
LEMMA SwappedAgrees ==
  ASSUME CardsAgree, NEW i \in 1 .. Len(elements), NEW option, option \in elements[i].options,
         ~elements[i].covered, NEW new \in Element, new.item = option,
         new.options = elements[i].options, new.key = elements[i].key,
         elements' = [elements EXCEPT ![i] = new],
         processed' = [processed EXCEPT ![i] = [item |-> option, options |-> elements[i].options]],
         UNCHANGED leaving
  PROVE  CardsAgree' /\ SameCards
<1> DEFINE n == Len(elements)
           entry == [item |-> option, options |-> elements[i].options]
<1>1. /\ n \in Nat /\ DOMAIN elements = 1 .. n /\ DOMAIN processed = 1 .. n /\ Len(processed) = n
      /\ processed \in Seq(Entry) /\ elements \in Seq(Element)
  BY CardsAre
<1>2. /\ elements[i] \in Element /\ processed[i] \in Entry
      /\ ShowsEntry(elements[i], processed[i]) /\ WellMade(processed[i])
  BY CardsAre
<1>3. /\ option \in processed[i].options /\ processed[i].item \in processed[i].options
      /\ entry.item = option /\ entry.options = processed[i].options
  BY <1>2 DEF ShowsEntry, WellMade
<1>4. entry \in Entry
  <2>1. elements[i].options \in SUBSET ArticleId /\ option \in ArticleId
    BY <1>2 DEF Element
  <2>2. QED
    BY <2>1 DEF Entry
<1>5. WellMade(entry) /\ Series[entry.item] = Series[processed[i].item]
  BY <1>2, <1>3 DEF WellMade
<1>6. Members(entry) = Members(processed[i])
  BY <1>3 DEF Members
<1>7. ShowsEntry(new, entry)
  BY <1>2, <1>3, <1>6 DEF ShowsEntry
<1>8. \A j \in 1 .. n : processed'[j] = IF j = i THEN entry ELSE processed[j]
  BY <1>1
<1>9. \A j \in 1 .. n : elements'[j] = IF j = i THEN new ELSE elements[j]
  BY <1>1
<1> HIDE DEF entry
<1>10. processed' \in Seq(Entry) /\ Len(processed') = n
  <2>1. processed' \in [1 .. n -> Entry]
    <3> HIDE DEF Entry
    <3>1. processed \in [1 .. n -> Entry]
      BY <1>1
    <3>2. processed' = [processed EXCEPT ![i] = entry]
      BY DEF entry
    <3>3. QED
      BY <1>4, <3>1, <3>2
  <2> HIDE DEF Entry, n
  <2>2. QED
    BY <1>1, <2>1, Enumerated, ListLength
<1>11. elements' \in Seq(Element) /\ Len(elements') = n
  <2> HIDE DEF Element
  <2>1. elements' \in [1 .. n -> Element]
    BY <1>1
  <2> HIDE DEF n
  <2>2. QED
    BY <1>1, <2>1, Enumerated, ListLength
<1> HIDE DEF n
<1>12. SameCards
  BY <1>1, <1>5, <1>6, <1>8, <1>10 DEF SameCards
<1>13. WellDealt(processed')
  <2>1. \A j \in 1 .. n : WellMade(processed'[j])
    BY <1>5, <1>8, CardsAre DEF n
  <2>2. MembersDiffer(processed')
    BY <1>1, <1>10, <1>12 DEF MembersDiffer, SameCards, CardsAgree, WellDealt
  <2>3. QED
    BY <1>10, <2>1, <2>2 DEF WellDealt
<1>14. Aligned'
  <2>1. \A j \in 1 .. n : ShowsEntry(elements'[j], processed'[j])
    BY <1>7, <1>8, <1>9, CardsAre DEF n
  <2>2. QED
    BY <1>10, <1>11, <2>1 DEF Aligned
<1>15. LeavingCovered'
  <2> SUFFICES ASSUME NEW a \in leaving' PROVE \E j \in 1 .. Len(elements') : Covers(a, j)'
    BY DEF LeavingCovered
  <2>1. PICK j \in 1 .. n : elements[j].item = a /\ elements[j].covered
    BY DEF CardsAgree, LeavingCovered, Covers, n
  <2>2. elements'[j] = elements[j]
    BY <1>9, <2>1
  <2>3. QED
    BY <1>11, <2>1, <2>2 DEF Covers
<1>16. QED
  BY <1>11, <1>12, <1>13, <1>14, <1>15 DEF CardsAgree

LEMMA PickOptionAgrees ==
  ASSUME BallotInv, NEW i \in DOMAIN elements, NEW option \in ArticleId, PickOption(i, option)
  PROVE  BallotInv' /\ SameCards
<1>1. CardsAgree /\ i \in 1 .. Len(elements) /\ elements[i] \in Element
  BY CardsAre DEF BallotInv
<1>2. Rest'
  <2>1. scans' \in Seq(Scan)
    BY StartedIs DEF BallotInv, Rest, PickOption
  <2>2. QED
    BY <2>1 DEF BallotInv, Rest, PickOption
<1>3. CASE option = elements[i].item
  <2> DEFINE new == [elements[i] EXCEPT !.picked = TRUE]
  <2>1. UNCHANGED processed /\ leaving' = leaving /\ elements' = [elements EXCEPT ![i] = new]
    BY <1>3 DEF PickOption
  <2>2. Like(new, elements[i]) /\ new.covered = elements[i].covered
    BY <1>1 DEF Like, Element
  <2> HIDE DEF new
  <2>3. Restyled
    BY <1>1, <2>1, <2>2, OneRestyled
  <2>4. StayCovered
    <3> SUFFICES ASSUME NEW a \in leaving'
                 PROVE  \E j \in 1 .. Len(elements) : elements[j].item = a /\ elements'[j].covered
      BY DEF StayCovered
    <3>1. PICK j \in 1 .. Len(elements) : elements[j].item = a /\ elements[j].covered
      BY <1>1, <2>1 DEF CardsAgree, LeavingCovered, Covers
    <3>2. elements'[j].covered = elements[j].covered
      BY <1>1, <2>1, <2>2, CardsAre
    <3>3. QED
      BY <3>1, <3>2
  <2>5. CardsAgree'
    BY <1>1, <2>3, <2>4, RestyledAgrees
  <2>6. SameCards
    BY <2>1 DEF SameCards
  <2>7. QED
    BY <1>2, <2>5, <2>6 DEF BallotInv
<1>4. CASE option # elements[i].item
  <2> DEFINE still == StaysBlocked(elements[i])
             covered == option \in live
             new == [elements[i] EXCEPT !.picked = TRUE, !.item = option, !.blocked = still,
                                        !.covered = covered]
  <2>1. still \in BOOLEAN /\ covered \in BOOLEAN
    <3>1. elements[i].blocked \in BOOLEAN
      BY <1>1 DEF Element
    <3>2. QED
      BY <3>1 DEF StaysBlocked
  <2>2. option \in elements[i].options /\ ~elements[i].covered /\ UNCHANGED leaving
    BY DEF PickOption, HasMenu
  <2>3. processed' = SwapOutItem(elements[i], option)
    BY <1>4 DEF PickOption
  <2>4. elements' = [elements EXCEPT ![i].picked = TRUE, ![i].item = option,
                                     ![i].blocked = still, ![i].covered = covered]
    BY <1>4 DEF PickOption
  <2> HIDE DEF still, covered
  <2>5. elements' = [elements EXCEPT ![i] = new]
    BY <1>1, <2>4
  <2>6. /\ new \in Element /\ new.item = option /\ new.options = elements[i].options
        /\ new.key = elements[i].key
    BY <1>1, <2>1 DEF Element
  <2> HIDE DEF new
  <2>7. SelectInSeq(processed, LAMBDA entry : entry.item = elements[i].item) = i
    <3>1. processed[i].item = elements[i].item
      BY <1>1, CardsAre DEF ShowsEntry
    <3> DEFINE a == elements[i].item
               I == {j \in 1 .. Len(processed) : processed[j].item = a}
    <3> HIDE DEF a
    <3>2. I = {i} /\ Min(I) = i
      BY <1>1, <3>1, CardOfItem DEF a
    <3>3. SelectInSeq(processed, LAMBDA entry : entry.item = a) = IF I # {} THEN Min(I) ELSE 0
      BY DEF SelectInSeq
    <3>4. SelectInSeq(processed, LAMBDA entry : entry.item = a) = i
      BY <3>2, <3>3
    <3>5. QED
      BY <3>4 DEF a
  <2>8. processed' = [processed EXCEPT ![i] = [item |-> option, options |-> elements[i].options]]
    BY <2>3, <2>7 DEF SwapOutItem, ReplaceAt
  <2>9. CardsAgree' /\ SameCards
    BY <1>1, <2>2, <2>5, <2>6, <2>8, SwappedAgrees
  <2>10. QED
    BY <1>2, <2>9 DEF BallotInv
<1>5. QED
  BY <1>3, <1>4

LEMMA SelectArticleAgrees ==
  ASSUME BallotInv, NEW i \in DOMAIN elements, SelectArticle(i)
  PROVE  /\ BallotInv' /\ SameCards
         /\ ItemsOf(constitution') = ItemsOf(constitution) \union {elements[i].item}
<1>1. /\ CardsAgree /\ i \in 1 .. Len(elements) /\ elements[i] \in Element
      /\ elements[i].item \in ArticleId
  BY CardsAre DEF BallotInv, Element
<1>2. Chooses(constitution) /\ elements[i].item \notin ListedOf(constitution)
  BY DEF BallotInv, Rest, SelectArticle, Addable, live, ListedOf
<1>3. constitution' = Insert(constitution, [item |-> elements[i].item, listed |-> TRUE])
  BY DEF SelectArticle
<1>4. /\ Chooses(constitution')
      /\ ItemsOf(constitution') = ItemsOf(constitution) \union {elements[i].item}
      /\ ListedOf(constitution') = ListedOf(constitution) \union {elements[i].item}
  BY <1>1, <1>2, <1>3, InsertIs
<1>5. Rest'
  <2>1. scans' \in Seq(Scan)
    BY StartedIs DEF BallotInv, Rest, SelectArticle
  <2>2. QED
    BY <1>4, <2>1 DEF BallotInv, Rest, SelectArticle
<1> DEFINE new == [elements[i] EXCEPT !.covered = TRUE]
<1>6. /\ UNCHANGED processed /\ leaving' = leaving \union {elements[i].item}
      /\ elements' = [elements EXCEPT ![i] = new]
  BY DEF SelectArticle
<1>7. Like(new, elements[i]) /\ new.covered
  BY <1>1 DEF Like, Element
<1> HIDE DEF new
<1>8. CardsAgree' /\ SameCards
  BY <1>1, <1>6, <1>7, OneMarked
<1>9. QED
  BY <1>4, <1>5, <1>8 DEF BallotInv

(* A render of the same list.                                               *)
LEMMA RenderedSame ==
  ASSUME CardsAgree, UNCHANGED processed, NEW chosen, elements' = Render(processed, chosen),
         leaving' \subseteq leaving, leaving' \subseteq chosen
  PROVE  CardsAgree' /\ SameCards
<1>1. processed \in Seq(Entry) /\ Len(processed) = Len(elements)
  BY CardsAre
<1>2. PICK m : Picking(m, processed, processed) /\ \A i \in 1 .. Len(processed) : m[i] = i
  BY <1>1, AllArePicked
<1>3. Rendered(m, chosen)
  BY <1>1, <1>2 DEF Rendered
<1>4. StillRendered(m, chosen)
  <2> SUFFICES ASSUME NEW a \in leaving' PROVE \E i \in 1 .. Len(processed) : Covers(a, m[i])
    BY DEF StillRendered
  <2>1. PICK i \in 1 .. Len(elements) : Covers(a, i)
    BY DEF CardsAgree, LeavingCovered
  <2>2. QED
    BY <1>1, <1>2, <2>1
<1>5. CardsAgree'
  BY <1>3, <1>4, RenderAgrees
<1>6. QED
  BY <1>5 DEF SameCards

LEMMA DeselectArticleAgrees ==
  ASSUME BallotInv, NEW i \in DOMAIN elements, DeselectArticle(i)
  PROVE  /\ BallotInv' /\ SameCards
         /\ ItemsOf(constitution') = ItemsOf(constitution) \ {elements[i].item}
<1> DEFINE a == elements[i].item
<1>1. CardsAgree /\ i \in 1 .. Len(elements) /\ elements[i] \in Element /\ a \in ArticleId
  BY CardsAre DEF BallotInv, Element
<1>2. /\ Chooses(constitution') /\ ItemsOf(constitution') = ItemsOf(constitution) \ {a}
      /\ ListedOf(constitution') = ListedOf(constitution) \ {a}
  <2>1. Chooses(constitution)
    BY DEF BallotInv, Rest
  <2>2. constitution' = FilterSeq(constitution, {c \in ToSet(constitution) : c.item # a})
    BY DEF DeselectArticle
  <2> HIDE DEF a
  <2>3. QED
    BY <2>1, <2>2, TakeOutIs
<1>3. a \notin leaving
  <2> SUFFICES ASSUME a \in leaving PROVE FALSE
    OBVIOUS
  <2>1. PICK j \in 1 .. Len(elements) : elements[j].item = a /\ elements[j].covered
    BY <1>1 DEF CardsAgree, LeavingCovered, Covers
  <2>2. a \in Members(processed[i]) /\ a \in Members(processed[j])
    BY <1>1, <2>1, CardsAre DEF ShowsEntry, Members
  <2>3. i = j
    BY <1>1, <2>2, OneCard
  <2>4. QED
    BY <2>1, <2>3 DEF DeselectArticle
<1>4. leaving' = leaving /\ leaving \subseteq ListedOf(constitution')
  BY <1>2, <1>3 DEF BallotInv, Rest, DeselectArticle
<1>5. Rest'
  <2>1. scans' \in Seq(Scan)
    BY StartedIs DEF BallotInv, Rest, DeselectArticle
  <2>2. releasing' \in SUBSET (ToSet(Series) \ {NoSeries})
    <3>1. Series[a] \in ToSet(Series)
      BY <1>1, SeriesAssumption DEF ToSet
    <3>2. QED
      BY <3>1 DEF BallotInv, Rest, DeselectArticle
  <2>3. QED
    BY <1>2, <1>4, <2>1, <2>2 DEF BallotInv, Rest, DeselectArticle
<1>6. CardsAgree' /\ SameCards
  <2>1. UNCHANGED processed /\ elements' = Render(processed, live \ {a})
    BY DEF DeselectArticle
  <2>2. leaving' \subseteq live \ {a}
    BY <1>3, <1>4 DEF BallotInv, Rest, live, ListedOf
  <2>3. QED
    BY <1>1, <1>4, <2>1, <2>2, RenderedSame
<1>7. QED
  BY <1>2, <1>5, <1>6 DEF BallotInv

LEMMA MarkInBudgetAgrees ==
  ASSUME BallotInv, NEW i \in DOMAIN elements, MarkInBudget(i)
  PROVE  BallotInv' /\ SameCards
<1>1. CardsAgree /\ i \in 1 .. Len(elements) /\ elements[i] \in Element
  BY CardsAre DEF BallotInv
<1> DEFINE new == [elements[i] EXCEPT !.covered = FALSE, !.marked = TRUE]
<1>2. /\ UNCHANGED <<processed, leaving>> /\ elements' = [elements EXCEPT ![i] = new]
      /\ elements[i].item \notin leaving
  BY <1>1 DEF MarkInBudget, timers
<1>3. Like(new, elements[i])
  BY <1>1 DEF Like, Element
<1> HIDE DEF new
<1>4. CardsAgree' /\ SameCards
  BY <1>1, <1>2, <1>3, OneMarked
<1>5. Rest'
  BY DEF BallotInv, Rest, MarkInBudget, timers
<1>6. QED
  BY <1>4, <1>5 DEF BallotInv

(* Elements that stay as covered as they were.                              *)
LEMMA SameCover ==
  ASSUME CardsAgree, Restyled, \A i \in 1 .. Len(elements) : elements'[i].covered = elements[i].covered,
         leaving' \subseteq leaving
  PROVE  CardsAgree' /\ SameCards
<1>1. StayCovered
  BY DEF StayCovered, CardsAgree, LeavingCovered, Covers
<1>2. CardsAgree'
  BY <1>1, RestyledAgrees
<1>3. QED
  BY <1>2 DEF Restyled, SameCards

LEMMA ResetExclusiveAgrees ==
  ASSUME BallotInv, NEW s, ResetExclusive(s)
  PROVE  BallotInv' /\ SameCards
<1>1. CardsAgree /\ DOMAIN elements = 1 .. Len(elements) /\ \A i \in 1 .. Len(elements) : elements[i] \in Element
  BY CardsAre DEF BallotInv
<1>2. /\ UNCHANGED <<processed, leaving>>
      /\ elements' = [i \in 1 .. Len(elements) |-> IF Series[elements[i].item] = s
                                                   THEN [elements[i] EXCEPT !.blocked = FALSE]
                                                   ELSE elements[i]]
  BY <1>1 DEF ResetExclusive, SetNotBlockedBy
<1>3. ASSUME NEW i \in 1 .. Len(elements)
      PROVE  Like(elements'[i], elements[i]) /\ elements'[i].covered = elements[i].covered
  <2> DEFINE freed == [elements[i] EXCEPT !.blocked = FALSE]
  <2>1. Like(freed, elements[i]) /\ freed.covered = elements[i].covered
    BY <1>1 DEF Like, Element
  <2>2. Like(elements[i], elements[i])
    BY <1>1 DEF Like
  <2>3. elements'[i] = freed \/ elements'[i] = elements[i]
    BY <1>2
  <2> HIDE DEF freed
  <2>4. QED
    BY <2>1, <2>2, <2>3
<1>4. Restyled
  BY <1>1, <1>2, <1>3 DEF Restyled
<1>5. CardsAgree' /\ SameCards
  BY <1>1, <1>2, <1>3, <1>4, SameCover
<1>6. Rest'
  BY DEF BallotInv, Rest, ResetExclusive
<1>7. QED
  BY <1>5, <1>6 DEF BallotInv

(* Scans take note of the constitution and block cards, nothing else.       *)
LEMMA OneLess ==
  ASSUME NEW n \in DOMAIN scans, scans \in Seq(Scan)
  PROVE  RemoveAt(scans, n) \in Seq(Scan)
<1>1. n \in 1 .. Len(scans)
  OBVIOUS
<1> HIDE DEF Scan
<1>2. QED
  BY <1>1, TakenOut

LEMMA OneChanged ==
  ASSUME NEW n \in DOMAIN scans, scans \in Seq(Scan), NEW new \in Scan
  PROVE  [scans EXCEPT ![n] = new] \in Seq(Scan)
<1> HIDE DEF Scan
<1>1. QED
  OBVIOUS

LEMMA NextPlace ==
  ASSUME NEW T, NEW scan \in [at : Nat, ids : T]
  PROVE  [scan EXCEPT !.at = @ + 1] \in [at : Nat, ids : T]
OBVIOUS

LEMMA ScanStepAgrees ==
  ASSUME BallotInv, NEW n \in DOMAIN scans, TakeSnapshot(n) \/ VisitCard(n) \/ MissCard(n)
  PROVE  BallotInv' /\ SameCards
<1>1. /\ CardsAgree /\ scans \in Seq(Scan) /\ scans[n] \in Scan /\ RemoveAt(scans, n) \in Seq(Scan)
      /\ constitution \in Seq(Choice)
  BY OneLess DEF BallotInv, Rest, Chooses
<1>2. CASE TakeSnapshot(n)
  <2>1. UNCHANGED <<filtered, constitution, processed, elements, leaving, releasing, mounts>>
    BY <1>2 DEF TakeSnapshot, cards
  <2>2. CardsAgree' /\ SameCards
    BY <1>1, <2>1, QuietAgrees
  <2>3. scans' \in Seq(Scan)
    <3> DEFINE ids == [i \in DOMAIN constitution |-> constitution[i].item]
               new == [at |-> 1, ids |-> ids]
    <3>1. ids \in Seq(ArticleId)
      <4>1. /\ Len(constitution) \in Nat /\ DOMAIN constitution = 1 .. Len(constitution)
            /\ \A i \in 1 .. Len(constitution) : constitution[i] \in Choice
        BY <1>1
      <4>2. \A i \in 1 .. Len(constitution) : constitution[i].item \in ArticleId
        BY <4>1 DEF Choice
      <4>3. ids \in [1 .. Len(constitution) -> ArticleId]
        BY <4>1, <4>2
      <4> HIDE DEF ids
      <4>4. QED
        BY <4>1, <4>3, Enumerated
    <3> HIDE DEF ids
    <3>2. new \in Scan
      BY <3>1 DEF Scan
    <3>3. scans' = RemoveAt(scans, n) \/ scans' = [scans EXCEPT ![n] = new]
      BY <1>2 DEF TakeSnapshot, ids
    <3> HIDE DEF new
    <3>4. QED
      BY <1>1, <3>2, <3>3, OneChanged
  <2>4. Rest'
    BY <2>1, <2>3 DEF BallotInv, Rest
  <2>5. QED
    BY <2>2, <2>4 DEF BallotInv
<1>3. CASE VisitCard(n)
  <2> DEFINE at == scans[n].at
             new == IF Blocks(scans[n], elements[at]) THEN SetBlockedBy(elements[at]) ELSE elements[at]
  <2>1. /\ UNCHANGED <<filtered, constitution, processed, leaving, releasing, mounts>>
        /\ at \in DOMAIN elements /\ elements' = [elements EXCEPT ![at] = new]
    BY <1>3 DEF VisitCard
  <2>2. at \in 1 .. Len(elements) /\ elements[at] \in Element /\ DOMAIN elements = 1 .. Len(elements)
    BY <1>1, <2>1, CardsAre
  <2>3. Like(new, elements[at]) /\ new.covered = elements[at].covered
    <3> DEFINE blocked == [elements[at] EXCEPT !.blocked = TRUE]
    <3>1. Like(blocked, elements[at]) /\ blocked.covered = elements[at].covered
      BY <2>2 DEF Like, Element
    <3>2. Like(elements[at], elements[at])
      BY <2>2 DEF Like
    <3>3. new = blocked \/ new = elements[at]
      BY DEF SetBlockedBy
    <3> HIDE DEF new, blocked
    <3>4. QED
      BY <3>1, <3>2, <3>3
  <2> HIDE DEF new
  <2>4. Restyled
    BY <1>1, <2>1, <2>2, <2>3, OneRestyled
  <2>5. \A i \in 1 .. Len(elements) : elements'[i].covered = elements[i].covered
    BY <2>1, <2>2, <2>3
  <2>6. CardsAgree' /\ SameCards
    BY <1>1, <2>1, <2>4, <2>5, SameCover
  <2>7. scans' \in Seq(Scan)
    <3> DEFINE next == [scans[n] EXCEPT !.at = @ + 1]
    <3>1. next \in Scan
      <4>1. scans[n] \in [at : Nat, ids : Seq(ArticleId)]
        BY <1>1 DEF Scan
      <4>2. next \in [at : Nat, ids : Seq(ArticleId)]
        BY <4>1, NextPlace
      <4>3. QED
        BY <4>2 DEF Scan
    <3>2. scans' = RemoveAt(scans, n) \/ scans' = [scans EXCEPT ![n] = next]
      BY <1>1, <1>3 DEF VisitCard
    <3> HIDE DEF next
    <3>3. QED
      BY <1>1, <3>1, <3>2, OneChanged
  <2>8. Rest'
    BY <2>1, <2>7 DEF BallotInv, Rest
  <2>9. QED
    BY <2>6, <2>8 DEF BallotInv
<1>4. CASE MissCard(n)
  <2>1. UNCHANGED <<filtered, constitution, processed, elements, leaving, releasing, mounts>>
    BY <1>4 DEF MissCard, cards
  <2>2. CardsAgree' /\ SameCards
    BY <1>1, <2>1, QuietAgrees
  <2>3. scans' \in Seq(Scan)
    BY <1>1, <1>4, StartedIs DEF MissCard
  <2>4. Rest'
    BY <2>1, <2>3 DEF BallotInv, Rest
  <2>5. QED
    BY <2>2, <2>4 DEF BallotInv
<1>5. QED
  BY <1>2, <1>3, <1>4

LEMMA SelectTabAgrees ==
  ASSUME BallotInv, SelectTab PROVE BallotInv' /\ SameCards
<1>1. CardsAgree' /\ SameCards
  <2>1. UNCHANGED <<processed, leaving>> /\ elements' = Render(processed, live)
    BY DEF SelectTab, timers
  <2>2. leaving' \subseteq live
    BY <2>1 DEF BallotInv, Rest, live, ListedOf
  <2>3. QED
    BY <2>1, <2>2, RenderedSame DEF BallotInv
<1>2. Rest'
  BY DEF BallotInv, Rest, SelectTab, timers
<1>3. QED
  BY <1>1, <1>2 DEF BallotInv

(* The card of an article is gone, the others are as they were.             *)
Without(k, m, some, all) ==
  /\ Picking(m, some, all)
  /\ \A i \in 1 .. Len(some) : m[i] # k
  /\ \A j \in 1 .. Len(all) : j # k => \E i \in 1 .. Len(some) : m[i] = j
FormerPlaces == [1 .. Len(processed') -> 1 .. Len(processed)]
OneTaken(a) ==
  \E k \in 1 .. Len(processed), m \in FormerPlaces :
    processed[k].item = a /\ Without(k, m, processed', processed)

LEMMA RemoveFromAvailableAgrees ==
  ASSUME BallotInv, NEW a \in ArticleId, RemoveFromAvailable(a)
  PROVE  /\ BallotInv' /\ OneTaken(a) /\ (Apart(processed) => Apart(processed'))
         /\ a \in ItemsOf(constitution)
<1>1. /\ CardsAgree /\ Len(processed) = Len(elements) /\ processed \in Seq(Entry)
      /\ \A j \in 1 .. Len(elements) : elements[j].item = processed[j].item
  BY CardsAre DEF BallotInv, ShowsEntry
<1>2. PICK k \in 1 .. Len(elements) : Covers(a, k)
  BY DEF RemoveFromAvailable, BallotInv, CardsAgree, LeavingCovered
<1>3. processed[k].item = a
  BY <1>1, <1>2 DEF Covers
<1>4. processed' = RemoveAt(processed, k)
  <2> DEFINE I == {j \in 1 .. Len(processed) : processed[j].item = a}
  <2>1. I = {k} /\ Min(I) = k
    BY <1>1, <1>3, CardOfItem
  <2>2. SelectInSeq(processed, LAMBDA entry : entry.item = a) = IF I # {} THEN Min(I) ELSE 0
    BY DEF SelectInSeq
  <2>3. SelectInSeq(processed, LAMBDA entry : entry.item = a) = k
    BY <2>1, <2>2
  <2>4. processed' = RemoveFirstMatch(processed, LAMBDA entry : entry.item = a)
    BY DEF RemoveFromAvailable
  <2>5. \E j \in 1 .. Len(processed) : processed[j].item = a
    BY <1>1, <1>3
  <2>6. processed' = RemoveAt(processed, SelectInSeq(processed, LAMBDA entry : entry.item = a))
    BY <2>4, <2>5 DEF RemoveFirstMatch
  <2>7. QED
    BY <2>3, <2>6
<1>5. PICK m : processed' \in Seq(Entry) /\ Without(k, m, processed', processed)
  <2> HIDE DEF Entry
  <2>1. k \in 1 .. Len(processed)
    BY <1>1
  <2>2. processed' \in Seq(Entry) /\ \E m : Without(k, m, processed', processed)
    BY <1>1, <1>4, <2>1, TakenOut DEF Without
  <2>3. QED
    BY <2>2
<1>6. Rendered(m, live)
  BY <1>5 DEF Rendered, Without, RemoveFromAvailable
<1>7. leaving' = leaving \ {a} /\ leaving \subseteq live
  BY DEF RemoveFromAvailable, BallotInv, Rest, live, ListedOf
<1>8. StillRendered(m, live)
  <2> SUFFICES ASSUME NEW b \in leaving' PROVE \E i \in 1 .. Len(processed') : Covers(b, m[i])
    BY <1>7 DEF StillRendered
  <2>1. b \in leaving /\ b # a
    BY <1>7
  <2>2. PICK j \in 1 .. Len(elements) : Covers(b, j)
    BY <2>1 DEF BallotInv, CardsAgree, LeavingCovered
  <2>3. j # k
    BY <1>2, <2>1, <2>2 DEF Covers
  <2>4. PICK i \in 1 .. Len(processed') : m[i] = j
    BY <1>1, <1>5, <2>3 DEF Without
  <2>5. QED
    BY <2>2, <2>4
<1>9. CardsAgree' /\ (Apart(processed) => Apart(processed'))
  BY <1>1, <1>6, <1>8, RenderAgrees
<1>10. Rest'
  <2>1. UNCHANGED <<filtered, constitution, releasing, scans, mounts>> /\ leaving' \subseteq leaving
    BY <1>7 DEF RemoveFromAvailable
  <2>2. QED
    BY <2>1 DEF BallotInv, Rest
<1>11. a \in ItemsOf(constitution)
  BY DEF RemoveFromAvailable, BallotInv, Rest, ItemsOf, ListedOf
<1>12. OneTaken(a)
  <2>1. k \in 1 .. Len(processed) /\ m \in FormerPlaces
    BY <1>1, <1>5 DEF Without, Picking, FormerPlaces
  <2>2. QED
    BY <1>3, <1>5, <2>1 DEF OneTaken
<1>13. QED
  BY <1>9, <1>10, <1>11, <1>12 DEF BallotInv

(* The cards when the ballot is shown.                                      *)
Laid(dealt, laid) ==
  /\ WellDealt(dealt) /\ laid \in Seq(Element) /\ Len(laid) = Len(dealt)
  /\ \A i \in 1 .. Len(dealt) : ShowsEntry(laid[i], dealt[i])

LEMMA DealtAreLaid ==
  ASSUME NEW items \in Filtered, NEW dealt, dealt = ProcessBallotItems(items), NEW chosen,
         NEW laid, laid = [i \in DOMAIN dealt |-> NewElement(dealt[i], chosen, Single(dealt[i]))]
  PROVE  /\ Laid(dealt, laid)
         /\ Together(items) => Apart(dealt)
         /\ EndsPlain(items) => \A a \in ToSet(items) : \E i \in 1 .. Len(dealt) : a \in Members(dealt[i])
<1>1. items \in Seq(ArticleId) /\ IsInjective(items)
  BY SeriesAssumption
<1>2. /\ WellDealt(dealt)
      /\ Together(items) => Apart(dealt)
      /\ EndsPlain(items) => \A a \in ToSet(items) : \E i \in 1 .. Len(dealt) : a \in Members(dealt[i])
  BY <1>1, ProcessDeals
<1>3. /\ Len(dealt) \in Nat /\ DOMAIN dealt = 1 .. Len(dealt)
      /\ \A i \in 1 .. Len(dealt) : dealt[i] \in Entry
  BY <1>2 DEF WellDealt
<1>4. ASSUME NEW i \in 1 .. Len(dealt)
      PROVE  laid[i] \in Element /\ ShowsEntry(laid[i], dealt[i])
  <2> DEFINE picked == Single(dealt[i])
             new == NewElement(dealt[i], chosen, picked)
  <2>1. picked \in BOOLEAN
    BY DEF Single
  <2>2. laid[i] = new
    BY <1>3
  <2> HIDE DEF picked
  <2>3. new \in Element /\ ShowsEntry(new, dealt[i])
    BY <1>3, <2>1, NewShows
  <2> HIDE DEF new
  <2>4. QED
    BY <2>2, <2>3
<1>5. laid \in [1 .. Len(dealt) -> Element]
  <2>1. DOMAIN laid = 1 .. Len(dealt) /\ laid = [i \in DOMAIN laid |-> laid[i]]
    BY <1>3
  <2>2. QED
    BY <1>4, <2>1
<1>6. laid \in Seq(Element) /\ Len(laid) = Len(dealt)
  <2> HIDE DEF Element
  <2>1. QED
    BY <1>3, <1>5, Enumerated, ListLength
<1>7. QED
  BY <1>2, <1>4, <1>6 DEF Laid

(* Every article is on a card.                                              *)
AllOffered(items, dealt) == \A a \in ToSet(items) : \E i \in 1 .. Len(dealt) : a \in Members(dealt[i])

LEMMA MountAgrees ==
  ASSUME BallotInv, NEW chosen, Mount(chosen), Chooses(constitution')
  PROVE  /\ BallotInv' /\ mounts' # 1 /\ UNCHANGED filtered
         /\ Together(filtered') => Apart(processed')
         /\ EndsPlain(filtered') => AllOffered(filtered', processed')
<1>1. /\ processed' = ProcessBallotItems(filtered)
      /\ elements' = [i \in DOMAIN processed' |-> NewElement(processed'[i], chosen, Single(processed'[i]))]
      /\ leaving' = {} /\ releasing' = {} /\ scans' = Started(<<>>)
      /\ mounts < MaxMounts /\ mounts' = mounts + 1 /\ UNCHANGED filtered
  BY DEF Mount, Cards
<1>2. filtered \in Filtered
  BY DEF BallotInv, Rest
<1>3. /\ Laid(processed', elements')
      /\ Together(filtered) => Apart(processed')
      /\ EndsPlain(filtered) => AllOffered(filtered, processed')
  BY <1>1, <1>2, DealtAreLaid DEF AllOffered
<1>4. CardsAgree'
  BY <1>1, <1>3 DEF Laid, CardsAgree, Aligned, LeavingCovered
<1>5. mounts' \in 1 .. MaxMounts /\ mounts' # 1
  BY <1>1, SeriesAssumption DEF BallotInv, Rest
<1>6. scans' \in Seq(Scan)
  <2>1. <<>> \in Seq(Scan)
    OBVIOUS
  <2>2. QED
    BY <1>1, <2>1, StartedIs
<1>7. Rest'
  BY <1>1, <1>2, <1>5, <1>6 DEF Rest
<1>8. QED
  BY <1>1, <1>3, <1>4, <1>5, <1>7 DEF BallotInv

(* Each way to show the ballot again.                                       *)
Shown == LeaveAndReturn \/ TryAgain \/ RestoreGame

LEMMA ShownAgrees ==
  ASSUME BallotInv, Shown
  PROVE  /\ BallotInv' /\ mounts' # 1 /\ UNCHANGED filtered
         /\ Together(filtered') => Apart(processed')
         /\ EndsPlain(filtered') => AllOffered(filtered', processed')
<1>1. Chooses(constitution)
  BY DEF BallotInv, Rest
<1>2. CASE LeaveAndReturn
  <2>1. Mount(live) /\ Chooses(constitution')
    BY <1>1, <1>2 DEF LeaveAndReturn
  <2>2. QED
    BY <2>1, MountAgrees
<1>3. CASE TryAgain
  <2>1. Mount({}) /\ Chooses(constitution')
    BY <1>3 DEF TryAgain, Chooses, Ordered
  <2>2. QED
    BY <2>1, MountAgrees
<1>4. CASE RestoreGame
  <2>1. Mount({}) /\ Chooses(constitution')
    BY <1>1, <1>4, UnlistedIs DEF RestoreGame
  <2>2. QED
    BY <2>1, MountAgrees
<1>5. QED
  BY <1>2, <1>3, <1>4 DEF Shown

LEMMA FirstAgrees ==
  ASSUME SeriesInit
  PROVE  /\ BallotInv
         /\ Together(filtered) => Apart(processed)
         /\ EndsPlain(filtered) => AllOffered(filtered, processed)
<1>1. /\ filtered \in Filtered /\ constitution = <<>>
      /\ processed = ProcessBallotItems(filtered)
      /\ elements = [i \in DOMAIN processed |-> NewElement(processed[i], {}, Single(processed[i]))]
      /\ leaving = {} /\ releasing = {} /\ scans = Started(<<>>) /\ mounts = 1
  BY DEF SeriesInit
<1>2. /\ Laid(processed, elements)
      /\ Together(filtered) => Apart(processed)
      /\ EndsPlain(filtered) => AllOffered(filtered, processed)
  BY <1>1, DealtAreLaid DEF AllOffered
<1>3. CardsAgree
  BY <1>1, <1>2 DEF Laid, CardsAgree, Aligned, LeavingCovered
<1>4. scans \in Seq(Scan)
  <2>1. <<>> \in Seq(Scan)
    OBVIOUS
  <2>2. QED
    BY <1>1, <2>1, StartedIs
<1>5. mounts \in 1 .. MaxMounts /\ Chooses(constitution)
  BY <1>1, SeriesAssumption DEF Chooses, Ordered
<1>6. Rest
  BY <1>1, <1>4, <1>5 DEF Rest
<1>7. QED
  BY <1>2, <1>3, <1>6 DEF BallotInv

-----------------------------------------------------------------------------
(***************************************************************************)
(* The invariants of the ballot.                                           *)
(***************************************************************************)

Quiet == SameCards /\ UNCHANGED <<filtered, constitution, leaving, mounts>>

LEMMA BallotStep ==
  ASSUME BallotInv, [SeriesNext]_seriesVars
  PROVE  /\ BallotInv'
         /\ \/ Quiet
            \/ \E i \in DOMAIN elements : SelectArticle(i) \/ DeselectArticle(i)
            \/ \E a \in ArticleId : RemoveFromAvailable(a)
            \/ Shown
<1>1. CASE \E i \in DOMAIN elements, option \in ArticleId : PickOption(i, option)
  <2>1. BallotInv' /\ SameCards
    BY <1>1, PickOptionAgrees
  <2>2. UNCHANGED <<filtered, constitution, leaving, mounts>>
    BY <1>1 DEF PickOption
  <2>3. QED
    BY <2>1, <2>2 DEF Quiet
<1>2. CASE \E i \in DOMAIN elements : SelectArticle(i) \/ DeselectArticle(i)
  BY <1>2, SelectArticleAgrees, DeselectArticleAgrees
<1>3. CASE \E i \in DOMAIN elements : MarkInBudget(i)
  <2>1. BallotInv' /\ SameCards
    BY <1>3, MarkInBudgetAgrees
  <2>2. UNCHANGED <<filtered, constitution, leaving, mounts>>
    BY <1>3 DEF MarkInBudget, timers
  <2>3. QED
    BY <2>1, <2>2 DEF Quiet
<1>4. CASE \E a \in ArticleId : RemoveFromAvailable(a)
  BY <1>4, RemoveFromAvailableAgrees
<1>5. CASE \E s \in ToSet(Series) : ResetExclusive(s)
  <2>1. BallotInv' /\ SameCards
    BY <1>5, ResetExclusiveAgrees
  <2>2. UNCHANGED <<filtered, constitution, leaving, mounts>>
    BY <1>5 DEF ResetExclusive
  <2>3. QED
    BY <2>1, <2>2 DEF Quiet
<1>6. CASE ScanStep
  <2>1. PICK n \in DOMAIN scans : TakeSnapshot(n) \/ VisitCard(n) \/ MissCard(n)
    BY <1>6 DEF ScanStep
  <2>2. BallotInv' /\ SameCards
    BY <2>1, ScanStepAgrees
  <2>3. UNCHANGED <<filtered, constitution, leaving, mounts>>
    BY <2>1 DEF TakeSnapshot, VisitCard, MissCard
  <2>4. QED
    BY <2>2, <2>3 DEF Quiet
<1>7. CASE SelectTab
  <2>1. BallotInv' /\ SameCards
    BY <1>7, SelectTabAgrees
  <2>2. UNCHANGED <<filtered, constitution, leaving, mounts>>
    BY <1>7 DEF SelectTab, timers
  <2>3. QED
    BY <2>1, <2>2 DEF Quiet
<1>8. CASE Shown
  BY <1>8, ShownAgrees
<1>9. CASE UNCHANGED seriesVars
  <2>1. UNCHANGED <<filtered, constitution, processed, elements, leaving, releasing, scans, mounts>>
    BY <1>9 DEF seriesVars, cards, timers
  <2>2. CardsAgree' /\ SameCards
    BY <2>1, QuietAgrees DEF BallotInv
  <2>3. Rest'
    BY <2>1 DEF BallotInv, Rest
  <2>4. QED
    BY <2>1, <2>2, <2>3 DEF Quiet, BallotInv
<1>10. QED
  BY <1>1, <1>2, <1>3, <1>4, <1>5, <1>6, <1>7, <1>8, <1>9 DEF SeriesNext, Shown

LEMMA BallotInvIs ==
  ASSUME BallotInv PROVE SeriesTypeOK /\ CardIsItsEntry
<1>1. SeriesTypeOK
  <2>1. \A i, j \in DOMAIN elements : elements[i].key = elements[j].key => i = j
    BY CardsAre, OneCard DEF BallotInv, ShowsEntry
  <2>2. constitution \in Seq(Choice)
    BY DEF BallotInv, Rest, Chooses
  <2>3. \A i, j \in DOMAIN constitution : i < j => <<constitution[i], constitution[j]>> \in InOrder
    BY <2>2 DEF BallotInv, Rest, Chooses, Ordered
  <2>4. \A i, j \in DOMAIN constitution :
          i < j =>
            /\ ModuleTypeIndex[constitution[i].item] <= ModuleTypeIndex[constitution[j].item]
            /\ constitution[i].listed /\ constitution[j].listed =>
                 constitution[i].item # constitution[j].item
    BY <2>3, InOrderIs
  <2>5. processed \in Seq(Entry) /\ elements \in Seq(Element)
    BY CardsAre DEF BallotInv
  <2>6. leaving \in SUBSET live
    BY DEF BallotInv, Rest, live, ListedOf
  <2>7. QED
    BY <2>1, <2>2, <2>4, <2>5, <2>6 DEF BallotInv, Rest, SeriesTypeOK
<1>2. CardIsItsEntry
  BY CardsAre DEF BallotInv, CardIsItsEntry, ShowsEntry
<1>3. QED
  BY <1>1, <1>2

(* The types, the order of the constitution, and everything the cards and   *)
(* the list agree about, in every state of the ballot.                      *)
THEOREM SeriesInvariant == SeriesSpec => [](SeriesTypeOK /\ BallotInv)
<1>1. SeriesInit => BallotInv
  BY FirstAgrees
<1>2. BallotInv /\ [SeriesNext]_seriesVars => BallotInv'
  BY BallotStep
<1>3. BallotInv => SeriesTypeOK /\ BallotInv
  BY BallotInvIs
<1>4. QED
  BY <1>1, <1>2, <1>3, PTL DEF SeriesSpec

(* A card shows and toggles the article of its entry in the list, however   *)
(* swaps, removals by id and renders follow one another.                    *)
THEOREM CardsMatchEntries == SeriesSpec => []CardIsItsEntry
<1>1. BallotInv => CardIsItsEntry
  BY BallotInvIs
<1>2. QED
  BY <1>1, SeriesInvariant, PTL

-----------------------------------------------------------------------------
(* Every article is on a card, or a chosen one of its series that is on no  *)
(* card has taken its place.                                                *)
Offers(a) == \E i \in 1 .. Len(processed) : a \in Members(processed[i])
Akin(a, b) == a = b \/ (Series[a] # NoSeries /\ Series[b] = Series[a])
TakenBy(a, b) == b \in ItemsOf(constitution) /\ Akin(a, b) /\ ~Offers(b)
OfferedOrTaken ==
  EndsPlain(filtered) => \A a \in ToSet(filtered) : Offers(a) \/ \E b : TakenBy(a, b)

LEMMA OfferedOrTakenKept ==
  ASSUME BallotInv, OfferedOrTaken, [SeriesNext]_seriesVars
  PROVE  OfferedOrTaken'
<1>1. BallotInv'
  BY BallotStep
<1>2. CASE /\ \A a : Offers(a)' <=> Offers(a)
           /\ \A b : ~Offers(b) => (b \in ItemsOf(constitution) => b \in ItemsOf(constitution'))
           /\ UNCHANGED filtered
  <2>1. \A a, b : TakenBy(a, b) => TakenBy(a, b)'
    BY <1>2 DEF TakenBy
  <2>2. QED
    BY <1>2, <2>1 DEF OfferedOrTaken
<1>3. ASSUME SameCards PROVE \A a : Offers(a)' <=> Offers(a)
  BY <1>3 DEF SameCards, Offers
<1>4. CASE Quiet
  BY <1>2, <1>3, <1>4 DEF Quiet
<1>5. CASE \E i \in DOMAIN elements : SelectArticle(i)
  <2>1. PICK i \in DOMAIN elements : SelectArticle(i)
    BY <1>5
  <2>2. SameCards /\ ItemsOf(constitution') = ItemsOf(constitution) \union {elements[i].item}
    BY <2>1, SelectArticleAgrees
  <2>3. UNCHANGED filtered
    BY <2>1 DEF SelectArticle
  <2>4. QED
    BY <1>2, <1>3, <2>2, <2>3
<1>6. CASE \E i \in DOMAIN elements : DeselectArticle(i)
  <2>1. PICK i \in DOMAIN elements : DeselectArticle(i)
    BY <1>6
  <2>2. SameCards /\ ItemsOf(constitution') = ItemsOf(constitution) \ {elements[i].item}
    BY <2>1, DeselectArticleAgrees
  <2>3. UNCHANGED filtered
    BY <2>1 DEF DeselectArticle
  <2>4. Offers(elements[i].item)
    BY <2>1, CardsAre DEF BallotInv, Offers, ShowsEntry, Members
  <2>5. QED
    BY <1>2, <1>3, <2>2, <2>3, <2>4
<1>7. CASE \E a \in ArticleId : RemoveFromAvailable(a)
  <2>1. PICK a \in ArticleId : RemoveFromAvailable(a)
    BY <1>7
  <2>2. OneTaken(a) /\ a \in ItemsOf(constitution) /\ UNCHANGED <<filtered, constitution>>
    BY <2>1, RemoveFromAvailableAgrees DEF RemoveFromAvailable
  <2>3. PICK k \in 1 .. Len(processed), m \in FormerPlaces :
          processed[k].item = a /\ Without(k, m, processed', processed)
    BY <2>2 DEF OneTaken
  <2>4. \A b : Offers(b)' => Offers(b)
    BY <2>3 DEF Offers, Without, Picking
  <2>5. \A b : Offers(b) => Offers(b)' \/ b \in Members(processed[k])
    BY <2>3 DEF Offers, Without, Picking
  <2>6. ~Offers(a)'
    <3> SUFFICES ASSUME NEW i \in 1 .. Len(processed'), a \in Members(processed'[i]) PROVE FALSE
      BY DEF Offers
    <3>1. m[i] \in 1 .. Len(processed) /\ m[i] # k /\ processed'[i] = processed[m[i]]
      BY <2>3 DEF Without, Picking
    <3>2. a \in Members(processed[m[i]]) /\ a \in Members(processed[k])
      BY <2>3, <3>1 DEF Members
    <3>3. CardsAgree /\ Len(processed) = Len(elements)
      BY CardsAre DEF BallotInv
    <3>4. QED
      BY <3>1, <3>2, <3>3, OneCard
  <2>7. \A b \in Members(processed[k]) : Akin(b, a)
    <3>1. WellMade(processed[k])
      BY CardsAre DEF BallotInv
    <3>2. QED
      BY <2>3, <3>1 DEF WellMade, Members, Akin
  <2>8. \A b \in Members(processed[k]) : TakenBy(b, a)'
    BY <2>2, <2>6, <2>7 DEF TakenBy
  <2>9. \A b, c : TakenBy(b, c) => TakenBy(b, c)'
    BY <2>2, <2>4 DEF TakenBy
  <2>10. QED
    BY <2>2, <2>5, <2>8, <2>9 DEF OfferedOrTaken
<1>8. CASE Shown
  <2>1. UNCHANGED filtered /\ (EndsPlain(filtered') => AllOffered(filtered', processed'))
    BY <1>8, ShownAgrees
  <2>2. QED
    BY <2>1 DEF OfferedOrTaken, AllOffered, Offers
<1>9. QED
  BY <1>4, <1>5, <1>6, <1>7, <1>8, BallotStep

LEMMA OfferedIs ==
  ASSUME BallotInv, OfferedOrTaken, EndsPlain(filtered) PROVE EveryArticleIsOffered
<1> SUFFICES ASSUME NEW a \in ToSet(filtered) \ Headers
             PROVE  Offered(a) \/ ({a} \union SeriesIds(a)) \cap Chosen # {}
  BY DEF EveryArticleIsOffered
<1>1. CASE Offers(a)
  <2>1. DOMAIN processed = 1 .. Len(processed)
    BY CardsAre DEF BallotInv
  <2>2. QED
    BY <1>1, <2>1 DEF Offers, Offered, Members
<1>2. CASE \E b : TakenBy(a, b)
  <2>1. PICK b : b \in ItemsOf(constitution) /\ Akin(a, b)
    BY <1>2 DEF TakenBy
  <2>2. b \in Chosen /\ b \in ArticleId
    <3>1. \A c \in ToSet(constitution) : c \in Choice
      BY DEF BallotInv, Rest, Chooses, ToSet
    <3>2. QED
      BY <2>1, <3>1 DEF ItemsOf, Chosen, Choice
  <2>3. QED
    BY <2>1, <2>2 DEF Akin, SeriesIds
<1>3. QED
  BY <1>1, <1>2 DEF OfferedOrTaken

(* Each filtered article is offered or its place taken by a chosen one of   *)
(* its series, if no list ends in a series: the code drops a series that is  *)
(* still open at the end of its list.                                       *)
THEOREM ArticlesOffered ==
  ASSUME \A f \in Filtered : EndsPlain(f)
  PROVE  SeriesSpec => []EveryArticleIsOffered
<1>1. SeriesInit => OfferedOrTaken
  BY FirstAgrees DEF OfferedOrTaken, AllOffered, Offers
<1>2. BallotInv /\ OfferedOrTaken /\ [SeriesNext]_seriesVars => OfferedOrTaken'
  BY OfferedOrTakenKept
<1>3. BallotInv /\ OfferedOrTaken => EveryArticleIsOffered
  BY OfferedIs DEF BallotInv, Rest
<1>4. QED
  BY <1>1, <1>2, <1>3, SeriesInvariant, PTL DEF SeriesSpec

-----------------------------------------------------------------------------
(* As long as the ballot is shown for the first time: the cards that are    *)
(* left are of series none of whose articles is chosen, but for a card that *)
(* is about to leave.                                                       *)
Kin(c, d) == Series[c] # NoSeries /\ Series[d] = Series[c]
NoneChosen(c) == \A b \in ItemsOf(constitution) : Kin(c, b) => b = c
NoneLeft(c) == \A i \in 1 .. Len(processed) : ~Kin(c, processed[i].item)
Settled(c) == NoneChosen(c) /\ (c \in leaving \/ NoneLeft(c))
AllSettled == \A c \in ItemsOf(constitution) : Settled(c)
AtFirst == Together(filtered) => Apart(processed) /\ (mounts = 1 => AllSettled)

LEMMA SameCardsApart ==
  ASSUME SameCards
  PROVE  (Apart(processed) => Apart(processed')) /\ \A c : NoneLeft(c) => NoneLeft(c)'
BY DEF SameCards, Apart, NoneLeft, Kin

LEMMA AtFirstKept ==
  ASSUME BallotInv, AtFirst, [SeriesNext]_seriesVars
  PROVE  AtFirst'
<1>1. CASE Quiet
  BY <1>1, SameCardsApart DEF Quiet, AtFirst, AllSettled, Settled, NoneChosen
<1>2. ASSUME NEW i \in DOMAIN elements, SelectArticle(i) PROVE AtFirst'
  <2> DEFINE d == elements[i].item
  <2>1. SameCards /\ ItemsOf(constitution') = ItemsOf(constitution) \union {d}
    BY <1>2, SelectArticleAgrees
  <2>2. UNCHANGED <<filtered, mounts>> /\ leaving' = leaving \union {d} /\ ~elements[i].covered
    BY <1>2 DEF SelectArticle, Addable
  <2>3. CardsAgree /\ i \in 1 .. Len(elements) /\ Len(processed) = Len(elements) /\ processed[i].item = d
    BY CardsAre DEF BallotInv, ShowsEntry
  <2>4. ASSUME Apart(processed), NEW c \in ItemsOf(constitution), Settled(c) PROVE ~Kin(c, d)
    <3> SUFFICES ASSUME Kin(c, d) PROVE FALSE
      OBVIOUS
    <3>1. c \in leaving
      BY <2>3, <2>4 DEF Settled, NoneLeft
    <3>2. PICK j \in 1 .. Len(elements) : Covers(c, j)
      BY <2>3, <3>1 DEF CardsAgree, LeavingCovered
    <3>3. processed[j].item = c /\ elements[j].covered
      BY <2>3, <3>2, CardsAre DEF Covers, ShowsEntry
    <3>4. i = j
      BY <2>3, <2>4, <3>3 DEF Apart, Kin
    <3>5. QED
      BY <2>2, <3>3, <3>4
  <2> HIDE DEF d
  <2>5. ASSUME Apart(processed), AllSettled PROVE AllSettled'
    <3> SUFFICES ASSUME NEW c \in ItemsOf(constitution') PROVE Settled(c)'
      BY DEF AllSettled
    <3>1. \A b \in ItemsOf(constitution) : Settled(b) /\ ~Kin(b, d)
      BY <2>4, <2>5 DEF AllSettled
    <3>2. CASE c \in ItemsOf(constitution)
      <4>1. NoneChosen(c)'
        BY <2>1, <3>1, <3>2 DEF Settled, NoneChosen
      <4>2. (c \in leaving \/ NoneLeft(c))'
        BY <2>1, <2>2, <3>1, <3>2, SameCardsApart DEF Settled
      <4>3. QED
        BY <4>1, <4>2 DEF Settled
    <3>3. CASE c = d
      <4>1. NoneChosen(c)'
        BY <2>1, <3>1, <3>3 DEF NoneChosen, Kin
      <4>2. QED
        BY <2>2, <3>3, <4>1 DEF Settled
    <3>4. QED
      BY <2>1, <3>2, <3>3
  <2>6. QED
    BY <2>1, <2>2, <2>5, SameCardsApart DEF AtFirst
<1>3. ASSUME NEW i \in DOMAIN elements, DeselectArticle(i) PROVE AtFirst'
  <2>1. SameCards /\ ItemsOf(constitution') = ItemsOf(constitution) \ {elements[i].item}
    BY <1>3, DeselectArticleAgrees
  <2>2. UNCHANGED <<filtered, mounts, leaving>>
    BY <1>3 DEF DeselectArticle
  <2>3. \A c : Settled(c) => Settled(c)'
    BY <2>1, <2>2, SameCardsApart DEF Settled, NoneChosen
  <2>4. QED
    BY <2>1, <2>2, <2>3, SameCardsApart DEF AtFirst, AllSettled
<1>4. ASSUME NEW a \in ArticleId, RemoveFromAvailable(a) PROVE AtFirst'
  <2>1. /\ OneTaken(a) /\ (Apart(processed) => Apart(processed'))
        /\ UNCHANGED <<filtered, constitution, mounts>> /\ leaving' = leaving \ {a}
    BY <1>4, RemoveFromAvailableAgrees DEF RemoveFromAvailable
  <2>2. PICK k \in 1 .. Len(processed), m \in FormerPlaces :
          processed[k].item = a /\ Without(k, m, processed', processed)
    BY <2>1 DEF OneTaken
  <2>3. \A i \in 1 .. Len(processed') :
          m[i] \in 1 .. Len(processed) /\ m[i] # k /\ processed'[i] = processed[m[i]]
    BY <2>2 DEF Without, Picking
  <2>4. \A c : NoneLeft(c) => NoneLeft(c)'
    BY <2>3 DEF NoneLeft, Kin
  <2>5. Apart(processed) => NoneLeft(a)'
    BY <2>2, <2>3 DEF Apart, NoneLeft, Kin
  <2>6. Apart(processed) => \A c : Settled(c) => Settled(c)'
    BY <2>1, <2>4, <2>5 DEF Settled, NoneChosen
  <2>7. QED
    BY <2>1, <2>6 DEF AtFirst, AllSettled
<1>5. CASE Shown
  BY <1>5, ShownAgrees DEF AtFirst
<1>6. QED
  BY <1>1, <1>2, <1>3, <1>4, <1>5, BallotStep

LEMMA AtFirstIs ==
  ASSUME BallotInv, AtFirst, Together(filtered) PROVE OneOfASeriesAtFirst
<1> SUFFICES ASSUME mounts = 1, NEW a \in Chosen, NEW b \in Chosen, b \in SeriesIds(a)
             PROVE  a = b
  BY DEF OneOfASeriesAtFirst, OneOfASeries
<1>1. Settled(a)
  BY DEF AtFirst, AllSettled, Chosen, ItemsOf
<1>2. Kin(a, b)
  BY DEF SeriesIds, Kin
<1>3. QED
  BY <1>1, <1>2 DEF Settled, NoneChosen, Chosen, ItemsOf

(* Of one series at most one article is chosen as long as the ballot is     *)
(* shown for the first time, if every list keeps the articles of a series   *)
(* together: the code makes a second card of a series that is interrupted.  *)
THEOREM SeriesExclusiveAtFirst ==
  ASSUME \A f \in Filtered : Together(f)
  PROVE  SeriesSpec => []OneOfASeriesAtFirst
<1>1. SeriesInit => AtFirst
  <2> SUFFICES ASSUME SeriesInit PROVE AtFirst
    OBVIOUS
  <2>1. ItemsOf(constitution) = {}
    BY DEF SeriesInit, ItemsOf, ToSet
  <2>2. QED
    BY <2>1, FirstAgrees DEF AtFirst, AllSettled
<1>2. BallotInv /\ AtFirst /\ [SeriesNext]_seriesVars => AtFirst'
  BY AtFirstKept
<1>3. BallotInv /\ AtFirst => OneOfASeriesAtFirst
  BY AtFirstIs DEF BallotInv, Rest
<1>4. QED
  BY <1>1, <1>2, <1>3, SeriesInvariant, PTL DEF SeriesSpec
=============================================================================
