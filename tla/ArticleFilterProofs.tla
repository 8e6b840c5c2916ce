------------------------- MODULE ArticleFilterProofs -------------------------
(***************************************************************************)
(* What holds of the stack of cards for every list of items, stack and     *)
(* number of showings: while cards are left to add, card and decision are  *)
(* the same item, and no article is filtered twice in a showing; and of the *)
(* first showing, that the reward of a module is paid once.  And, for       *)
(* every deck, whatever order gestures, frames and refills come in: at rest *)
(* the stack is drawn in order.                                            *)
(***************************************************************************)
EXTENDS ArticleFilter, CardStack, SublistProofs

Item == ToSet(Items)
Count(list, item) == Len(FilterSeq(list, {item}))

(* Refills to come *)
Refills(queue) == Len(FilterSeq(queue, {<<"refill">>}))

(* The number of items before those of the stack, on the first showing *)
Passed == Len(Items) - Len(shown) - Len(left)

Types ==
  /\ page \in {"filter-articles", "elsewhere"}
  /\ mounts \in Nat \ {0}
  /\ filtered \in Seq(Item)
  /\ shown \in Seq(Item) /\ left \in Seq(Item)
  /\ pos \in Nat /\ at \in Nat /\ elements \in Nat
  /\ timers \in Seq(Timer)

(* The timers of a page that was left reach nobody. *)
QueueInv == page = "elsewhere" => timers = <<>>

(* On the first showing the stack and what is not in it yet are the end of  *)
(* the list; the stack is full as long as there is more.                    *)
StackInv ==
  /\ left # <<>> => shown # <<>>
  /\ mounts = 1 =>
       /\ Passed \in Nat
       /\ left # <<>> => Len(shown) = Stack
       /\ \A i \in 1 .. Len(shown) : shown[i] = Items[Passed + i]
       /\ \A i \in 1 .. Len(left) : left[i] = Items[Passed + Len(shown) + i]

(* As long as there is more, the items decided about are those before the   *)
(* stack and one for each refill to come; without one the first card is on  *)
(* top.  A swipe adds an item and a refill, a refill takes both away.       *)
PositionInv ==
  mounts = 1 /\ page = "filter-articles" /\ left # <<>> =>
    /\ at = Passed + Refills(timers)
    /\ Refills(timers) = 0 => pos = 0

(* An article was filtered at most once in each showing, and one whose      *)
(* decision is still to come not yet in this one.                           *)
CountInv ==
  /\ \A item \in Item \ Headers : Count(filtered, item) <= mounts
  /\ page = "filter-articles" =>
       \A k \in 1 .. Len(Items) :
         k > at /\ Items[k] \notin Headers => Count(filtered, Items[k]) < mounts

StackInvs == Types /\ QueueInv /\ StackInv /\ PositionInv
Inv == StackInvs /\ CountInv

(* What the assumption says of the items: the first is a header, and no two *)
(* are the same.                                                            *)
LEMMA ItemsAre ==
  /\ Items \in Seq(Item) /\ Len(Items) \in Nat \ {0}
  /\ \A k \in 1 .. Len(Items) : Items[k] \in Item
  /\ Headers \subseteq Item /\ Items[1] \in Headers
  /\ \A i, j \in 1 .. Len(Items) : Items[i] = Items[j] => i = j
  /\ Stack \in Nat \ {0}
<1>1. Items \in Seq(Item) /\ Headers \subseteq Item /\ Items[1] \in Headers
  BY FilterAssumption DEF Item
<1>2. DOMAIN Items = 1 .. Len(Items) /\ Len(Items) \in Nat
  BY <1>1
<1>3. Item = {Items[k] : k \in 1 .. Len(Items)}
  BY <1>2 DEF Item, ToSet
<1>4. Len(Items) # 0
  BY <1>1, <1>3
<1>5. \A i, j \in 1 .. Len(Items) : Items[i] = Items[j] => i = j
  BY <1>2, FilterAssumption DEF IsInjective
<1>6. Stack \in Nat \ {0}
  BY FilterAssumption
<1>7. QED
  BY <1>1, <1>2, <1>3, <1>4, <1>5, <1>6

(* The timers there are, and that only one of them is a refill *)
LEMMA TimersAre ==
  /\ \A kind \in {"right", "left", "top", "refill", "enableLeft", "enableRight", "auto"} : <<kind>> \in Timer
  /\ \A b \in Button : <<"wait", b>> \in Timer /\ <<"enable", b>> \in Timer
  /\ \A kind \in {"right", "left", "top", "enableLeft", "enableRight", "auto"} : <<kind>> # <<"refill">>
  /\ \A b : <<"wait", b>> # <<"refill">> /\ <<"enable", b>> # <<"refill">>
<1>1. \A b \in Button : <<"wait", b>> \in Timer /\ <<"enable", b>> \in Timer
  BY DEF Timer
<1>2. \A kind \in {"right", "left", "top", "refill", "enableLeft", "enableRight", "auto"} : <<kind>> \in Timer
  BY DEF Timer
<1>3. \A kind \in {"right", "left", "top", "enableLeft", "enableRight", "auto"} : <<kind>> # <<"refill">>
  OBVIOUS
<1>4. ASSUME NEW kind, NEW b PROVE <<kind, b>> # <<"refill">>
  <2>1. Len(<<kind, b>>) = 2 /\ Len(<<"refill">>) = 1
    OBVIOUS
  <2>2. QED
    BY <2>1
<1>5. QED
  BY <1>1, <1>2, <1>3, <1>4

(* A queue with one more timer *)
LEMMA QueueGrows ==
  ASSUME NEW q \in Seq(Timer), NEW t \in Timer
  PROVE  /\ Append(q, t) \in Seq(Timer) /\ q \o <<t>> = Append(q, t)
         /\ Refills(q) \in Nat
         /\ Refills(Append(q, t)) = IF t = <<"refill">> THEN Refills(q) + 1 ELSE Refills(q)
<1>1. Append(q, t) \in Seq(Timer) /\ q \o <<t>> = Append(q, t)
  OBVIOUS
<1>2. FilterSeq(q, {<<"refill">>}) \in Seq(Timer)
  BY FilterEntries
<1>3. Refills(Pushed(q, t)) = IF t = <<"refill">> THEN Refills(q) + 1 ELSE Refills(q)
  BY FilterPushed DEF Refills
<1>4. QED
  BY <1>1, <1>2, <1>3 DEF Refills, Pushed

(* A queue whose first timer has fired *)
LEMMA QueueShrinks ==
  ASSUME NEW q \in Seq(Timer), q # <<>>
  PROVE  /\ Tail(q) \in Seq(Timer) /\ Head(q) \in Timer
         /\ Refills(q) \in Nat /\ Refills(Tail(q)) \in Nat
         /\ Refills(q) = IF Head(q) = <<"refill">> THEN Refills(Tail(q)) + 1 ELSE Refills(Tail(q))
<1>1. Tail(q) \in Seq(Timer) /\ Head(q) \in Timer
  OBVIOUS
<1>2. FilterSeq(q, {<<"refill">>}) \in Seq(Timer) /\ FilterSeq(Tail(q), {<<"refill">>}) \in Seq(Timer)
  BY <1>1, FilterEntries
<1>3. Refills(q) = IF Head(q) = <<"refill">> THEN Refills(Popped(q)) + 1 ELSE Refills(Popped(q))
  BY FilterPopped DEF Refills
<1>4. QED
  BY <1>1, <1>2, <1>3 DEF Refills, Popped

(* A settled stack has no refill to come.                                   *)
LEMMA QueueEmpty == Refills(<<>>) = 0
<1>1. <<>> \in Seq(Timer) /\ Len(<<>>) = 0
  OBVIOUS
<1>2. Len(FilterSeq(<<>>, {<<"refill">>})) <= 0 /\ FilterSeq(<<>>, {<<"refill">>}) \in Seq(Timer)
  BY <1>1, FilterEntries
<1>3. QED
  BY <1>2 DEF Refills

(* The timers set for a swipe by a button bring no refill of their own. *)
Same(q, r) == r \in Seq(Timer) /\ Refills(r) = Refills(q)

LEMMA TopQueue ==
  ASSUME NEW q \in Seq(Timer)
  PROVE  Same(q, q \o TopTimers)
<1>1. q \o <<>> = q
  OBVIOUS
<1>2. CASE pos < elements
  BY <1>2, TimersAre, QueueGrows DEF TopTimers, Same
<1>3. CASE ~(pos < elements)
  BY <1>1, <1>3 DEF TopTimers, Same
<1>4. QED
  BY <1>2, <1>3

(* Likewise those that the buttons below the stack set for a swipe          *)
LEMMA SideQueue ==
  ASSUME NEW q \in Seq(Timer), NEW side \in {"left", "right"}, NEW enable \in {"enableLeft", "enableRight"}
  PROVE  Same(q, q \o SideTimers(side, enable))
<1>1. q \o <<>> = q
  OBVIOUS
<1>2. <<side>> \in Timer /\ <<enable>> \in Timer /\ <<side>> # <<"refill">> /\ <<enable>> # <<"refill">>
  BY TimersAre
<1>3. CASE side \in off
  BY <1>1, <1>3 DEF SideTimers, Same
<1>4. CASE side \notin off /\ pos < elements
  <2>1. q \o Append(<<<<side>>>>, <<enable>>) = Append(Append(q, <<side>>), <<enable>>)
    BY <1>2
  <2>2. Append(q, <<side>>) \in Seq(Timer) /\ Refills(Append(q, <<side>>)) = Refills(q)
    BY <1>2, QueueGrows
  <2>3. Same(q, Append(Append(q, <<side>>), <<enable>>))
    BY <1>2, <2>2, QueueGrows DEF Same
  <2>4. QED
    BY <1>4, <2>1, <2>3 DEF SideTimers, Side
<1>5. CASE side \notin off /\ ~(pos < elements)
  <2>1. Append(<<>>, <<enable>>) = <<<<enable>>>>
    OBVIOUS
  <2>2. Same(q, q \o <<<<enable>>>>)
    BY <1>2, QueueGrows DEF Same
  <2>3. QED
    BY <1>5, <2>1, <2>2 DEF SideTimers, Side
<1>6. QED
  BY <1>3, <1>4, <1>5

(* and those of the automatic selection, on a header as on an article.      *)
LEMMA AutoQueue ==
  ASSUME NEW q \in Seq(Timer), AutomaticallySelectNext(q)
  PROVE  Same(q, timers')
<1>1. <<"auto">> \in Timer /\ <<"auto">> # <<"refill">>
  BY TimersAre
<1>2. Same(q, Append(q \o TopTimers, <<"auto">>))
  BY <1>1, TopQueue, QueueGrows DEF Same
<1>3. Same(q, Append(q \o SideTimers("right", "enableRight"), <<"auto">>))
  <2>1. Same(q, q \o SideTimers("right", "enableRight"))
    BY SideQueue
  <2>2. QED
    BY <1>1, <2>1, QueueGrows DEF Same
<1>4. Same(q, q)
  BY DEF Same
<1>5. \/ timers' = q
      \/ timers' = Append(q \o TopTimers, <<"auto">>)
      \/ timers' = Append(q \o SideTimers("right", "enableRight"), <<"auto">>)
  BY DEF AutomaticallySelectNext
<1>6. QED
  BY <1>2, <1>3, <1>4, <1>5

(* One item more among the filtered ones *)
LEMMA CountGrows ==
  ASSUME NEW list \in Seq(Item), NEW x \in Item
  PROVE  /\ Append(list, x) \in Seq(Item)
         /\ \A item : /\ Count(list, item) \in Nat
                      /\ x = item => Count(Append(list, x), item) = Count(list, item) + 1
                      /\ x # item => Count(Append(list, x), item) = Count(list, item)
<1>1. Append(list, x) \in Seq(Item)
  OBVIOUS
<1>2. SUFFICES ASSUME NEW item
               PROVE  /\ Count(list, item) \in Nat
                      /\ x = item => Count(Pushed(list, x), item) = Count(list, item) + 1
                      /\ x # item => Count(Pushed(list, x), item) = Count(list, item)
  BY <1>1 DEF Pushed
<1>3. FilterSeq(list, {item}) \in Seq(Item)
  BY FilterEntries
<1>4. Count(list, item) \in Nat
  BY <1>3 DEF Count
<1>5. x = item => Count(Pushed(list, x), item) = Count(list, item) + 1
  BY FilterPushed DEF Count
<1>6. x # item => Count(Pushed(list, x), item) = Count(list, item)
  BY FilterPushed DEF Count
<1>7. QED
  BY <1>4, <1>5, <1>6

(* The list the app starts with holds the first header only.                *)
LEMMA CountOfOne ==
  ASSUME NEW x \in Item, NEW item, x # item
  PROVE  <<x>> \in Seq(Item) /\ Count(<<x>>, item) = 0
<1>1. <<>> \in Seq(Item) /\ <<x>> = Append(<<>>, x)
  OBVIOUS
<1>2. FilterSeq(<<>>, {item}) \in Seq(Item) /\ Len(FilterSeq(<<>>, {item})) <= Len(<<>>)
  BY <1>1, FilterEntries
<1>3. Count(<<>>, item) = 0
  BY <1>2 DEF Count
<1>4. Append(<<>>, x) \in Seq(Item) /\ Count(Append(<<>>, x), item) = Count(<<>>, item)
  BY <1>1, CountGrows
<1>5. QED
  BY <1>1, <1>3, <1>4

-----------------------------------------------------------------------------
(* The first showing deals the items from the first one on.                 *)
LEMMA InitInv == Init => Inv
<1> SUFFICES ASSUME Init PROVE Inv
  OBVIOUS
<1>0. /\ page = "filter-articles" /\ mounts = 1 /\ filtered = <<Items[1]>>
      /\ pos = 0 /\ at = 0 /\ timers = <<>>
  BY DEF Init
<1> DEFINE n == IF Len(Items) < Stack THEN Len(Items) ELSE Stack
<1>1. n \in Nat /\ n <= Len(Items) /\ Len(Items) \in Nat /\ (n < Len(Items) => n = Stack)
  BY ItemsAre
<1>2. /\ Items \in Seq(Item) /\ elements = n
      /\ shown = SubSeq(Items, 1, n) /\ left = SubSeq(Items, n + 1, Len(Items))
  BY ItemsAre DEF Init
<1>3. /\ shown \in Seq(Item) /\ Len(shown) = n /\ \A i \in 1 .. Len(shown) : shown[i] = Items[i]
      /\ left \in Seq(Item) /\ Len(left) = Len(Items) - n
      /\ \A i \in 1 .. Len(left) : left[i] = Items[n + i]
  <2>1. SubSeq(Items, 1, n) \in Seq(Item) /\ Len(SubSeq(Items, 1, n)) = n
    BY <1>1, <1>2
  <2>2. \A i \in 1 .. n : SubSeq(Items, 1, n)[i] = Items[i]
    BY <1>1, <1>2
  <2>3. SubSeq(Items, n + 1, Len(Items)) \in Seq(Item) /\ Len(SubSeq(Items, n + 1, Len(Items))) = Len(Items) - n
    BY <1>1, <1>2
  <2>4. \A i \in 1 .. Len(Items) - n : SubSeq(Items, n + 1, Len(Items))[i] = Items[n + i]
    BY <1>1, <1>2
  <2>5. QED
    BY <1>1, <1>2, <2>1, <2>2, <2>3, <2>4
<1> HIDE DEF n
<1>4. Passed = 0
  BY <1>1, <1>3 DEF Passed
<1>5. Items[1] \in Item /\ Items[1] \in Headers
  BY ItemsAre
<1>6. Types
  BY <1>0, <1>1, <1>2, <1>3, <1>5 DEF Types
<1>7. QueueInv
  BY <1>0 DEF QueueInv
<1>8. StackInv
  <2>1. left # <<>> => Len(left) # 0
    BY <1>3
  <2>2. left # <<>> => Len(shown) = Stack
    BY <1>1, <1>3, <2>1
  <2>3. \A i \in 1 .. Len(shown) : 0 + i = i
    BY <1>3, <1>1
  <2>4. \A i \in 1 .. Len(left) : 0 + Len(shown) + i = n + i
    BY <1>1, <1>3
  <2>5. left # <<>> => shown # <<>>
    BY <2>2, <1>3, ItemsAre
  <2>6. QED
    BY <1>3, <1>4, <2>2, <2>3, <2>4, <2>5 DEF StackInv
<1>9. PositionInv
  <2>1. Refills(timers) = 0
    BY <1>0, QueueEmpty
  <2>2. QED
    BY <1>0, <1>4, <2>1 DEF PositionInv
<1>10. CountInv
  <2>1. \A item \in Item \ Headers : Count(filtered, item) = 0
    BY <1>0, <1>5, CountOfOne
  <2>2. \A k \in 1 .. Len(Items) : Items[k] \in Item
    BY ItemsAre
  <2>3. QED
    BY <1>0, <2>1, <2>2 DEF CountInv
<1>11. QED
  BY <1>6, <1>7, <1>8, <1>9, <1>10 DEF Inv, StackInvs

(* A step that sets or takes timers, none of them a refill *)
LEMMA QuietStep ==
  ASSUME Inv, page = "filter-articles", Same(timers, timers'),
         UNCHANGED <<page, mounts, filtered, shown, left, pos, at, elements>>
  PROVE  Inv'
<1>1. Types'
  BY DEF Inv, StackInvs, Types, Same
<1>2. QueueInv'
  BY DEF QueueInv
<1>3. Passed' = Passed
  BY DEF Passed
<1>4. StackInv'
  BY <1>3 DEF Inv, StackInvs, StackInv
<1>5. PositionInv'
  BY <1>3 DEF Inv, StackInvs, PositionInv, Same
<1>6. CountInv'
  BY DEF Inv, CountInv
<1>7. QED
  BY <1>1, <1>2, <1>4, <1>5, <1>6 DEF Inv, StackInvs

(* The page is left: what is filtered stays. *)
LEMMA GoneStep ==
  ASSUME Inv, LeavePage
  PROVE  Inv'
<1> USE DEF LeavePage, Gone, cards
<1>1. Types'
  BY DEF Inv, StackInvs, Types
<1>2. Passed' = Passed
  BY DEF Passed
<1>3. StackInv'
  BY <1>2 DEF Inv, StackInvs, StackInv
<1>4. QueueInv' /\ PositionInv'
  BY DEF QueueInv, PositionInv
<1>5. CountInv'
  BY DEF Inv, CountInv
<1>6. QED
  BY <1>1, <1>3, <1>4, <1>5 DEF Inv, StackInvs

(* A card is swiped away, and its item selected or not. *)
LEMMA SwipeStep ==
  ASSUME Inv, page = "filter-articles", NEW q, Same(timers, q), Advance(q),
         SelectCurrent \/ UNCHANGED <<filtered, known>>
  PROVE  Inv'
<1> USE DEF Advance, Gone
<1>1. /\ at \in Nat /\ at' = at + 1 /\ pos \in Nat /\ pos' = pos + 1
      /\ filtered \in Seq(Item) /\ mounts \in Nat \ {0}
  BY DEF Inv, StackInvs, Types
<1>2. \/ UNCHANGED filtered
      \/ /\ at + 1 \in 1 .. Len(Items) /\ Items[at + 1] \in Item
         /\ filtered' = Append(filtered, Items[at + 1])
  <2>1. CASE UNCHANGED filtered
    BY <2>1
  <2>2. CASE SelectCurrent
    <3>1. CASE at < Len(Items)
      <4>1. at + 1 \in 1 .. Len(Items)
        BY <1>1, <3>1, ItemsAre
      <4>2. QED
        BY <2>2, <3>1, <4>1, ItemsAre DEF SelectCurrent, InRange, Select, Current
    <3>2. CASE ~(at < Len(Items))
      BY <2>2, <3>2 DEF SelectCurrent, InRange
    <3>3. QED
      BY <3>1, <3>2
  <2>3. QED
    BY <2>1, <2>2
<1>3. \/ page' = "elsewhere" /\ timers' = <<>>
      \/ page' = page /\ timers' = Append(q, <<"refill">>)
  OBVIOUS
<1>4. timers' \in Seq(Timer)
  <2>1. <<>> \in Seq(Timer) /\ Append(q, <<"refill">>) \in Seq(Timer)
    BY TimersAre, QueueGrows DEF Same
  <2>2. QED
    BY <1>3, <2>1
<1>5. filtered' \in Seq(Item)
  BY <1>1, <1>2, CountGrows
<1>6. Types'
  BY <1>1, <1>3, <1>4, <1>5 DEF Inv, StackInvs, Types
<1>7. QueueInv'
  BY <1>3 DEF QueueInv
<1>8. Passed' = Passed
  BY DEF Passed
<1>9. StackInv'
  BY <1>8 DEF Inv, StackInvs, StackInv
<1>10. PositionInv'
  <2>1. SUFFICES ASSUME mounts' = 1, page' = "filter-articles", left' # <<>>
                 PROVE  at' = Passed' + Refills(timers') /\ Refills(timers') # 0
    BY DEF PositionInv
  <2>2. timers' = Append(q, <<"refill">>)
    BY <1>3, <2>1
  <2>3. Refills(timers) \in Nat /\ Refills(timers') = Refills(timers) + 1
    BY <2>2, TimersAre, QueueGrows DEF Same
  <2>4. at = Passed + Refills(timers) /\ Passed \in Nat
    BY <2>1 DEF Inv, StackInvs, PositionInv, StackInv
  <2>5. QED
    BY <1>1, <1>8, <2>3, <2>4
<1>11. CountInv'
  <2>1. ASSUME NEW item \in Item \ Headers PROVE Count(filtered', item) <= mounts
    <3>1. Count(filtered, item) <= mounts /\ Count(filtered, item) \in Nat
      BY <1>1, CountGrows DEF Inv, CountInv
    <3>2. CASE UNCHANGED filtered
      BY <3>1, <3>2
    <3>3. CASE /\ at + 1 \in 1 .. Len(Items) /\ Items[at + 1] \in Item
               /\ filtered' = Append(filtered, Items[at + 1])
      <4>1. CASE Items[at + 1] = item
        <5>1. Count(filtered, item) < mounts
          <6>1. at + 1 > at /\ Items[at + 1] \notin Headers
            BY <1>1, <4>1
          <6>2. QED
            BY <3>3, <4>1, <6>1 DEF Inv, CountInv
        <5>2. Count(filtered', item) = Count(filtered, item) + 1
          BY <1>1, <3>3, <4>1, CountGrows
        <5>3. QED
          BY <1>1, <3>1, <5>1, <5>2
      <4>2. CASE Items[at + 1] # item
        BY <1>1, <3>1, <3>3, <4>2, CountGrows
      <4>3. QED
        BY <4>1, <4>2
    <3>4. QED
      BY <1>2, <3>2, <3>3
  <2>2. ASSUME NEW k \in 1 .. Len(Items), k > at + 1, Items[k] \notin Headers
        PROVE  Count(filtered', Items[k]) < mounts
    <3>1. Count(filtered, Items[k]) < mounts
      <4>1. k > at
        BY <1>1, <2>2, ItemsAre
      <4>2. QED
        BY <2>2, <4>1 DEF Inv, CountInv
    <3>2. at + 1 \in 1 .. Len(Items) => Items[at + 1] # Items[k]
      BY <1>1, <2>2, ItemsAre
    <3>3. CASE UNCHANGED filtered
      BY <3>1, <3>3
    <3>4. CASE /\ at + 1 \in 1 .. Len(Items) /\ Items[at + 1] \in Item
               /\ filtered' = Append(filtered, Items[at + 1])
      <4>1. Count(filtered', Items[k]) = Count(filtered, Items[k])
        BY <1>1, <3>2, <3>4, CountGrows
      <4>2. QED
        BY <3>1, <4>1
    <3>5. QED
      BY <1>2, <3>3, <3>4
  <2>3. mounts' = mounts
    OBVIOUS
  <2>4. QED
    BY <1>1, <2>1, <2>2, <2>3 DEF CountInv
<1>12. QED
  BY <1>6, <1>7, <1>9, <1>10, <1>11 DEF Inv, StackInvs

(* The stack that moved up by one: each card is the former next one, the    *)
(* last the first of those that were left.                                  *)
LEMMA ShiftedIs ==
  ASSUME shown \in Seq(Item), shown # <<>>, left \in Seq(Item), left # <<>>
  PROVE  /\ Shifted \in Seq(Item) /\ Len(Shifted) = Len(shown) /\ Len(shown) \in Nat \ {0}
         /\ \A i \in 1 .. Len(shown) : i < Len(shown) => i + 1 \in 1 .. Len(shown) /\ Shifted[i] = shown[i + 1]
         /\ Shifted[Len(shown)] = left[1] /\ 1 \in 1 .. Len(left)
         /\ Tail(left) \in Seq(Item) /\ Len(left) \in Nat /\ Len(Tail(left)) = Len(left) - 1
         /\ \A i \in 1 .. Len(Tail(left)) : i + 1 \in 1 .. Len(left) /\ Tail(left)[i] = left[i + 1]
         /\ Len(Tail(left)) \in Nat
<1>1. /\ Tail(shown) \in Seq(Item) /\ Len(Tail(shown)) = Len(shown) - 1 /\ Len(shown) \in Nat \ {0}
      /\ \A i \in 1 .. Len(Tail(shown)) : Tail(shown)[i] = shown[i + 1]
  OBVIOUS
<1>2. Head(left) \in Item /\ Head(left) = left[1] /\ 1 \in 1 .. Len(left)
  OBVIOUS
<1>3. /\ Tail(left) \in Seq(Item) /\ Len(left) \in Nat /\ Len(Tail(left)) = Len(left) - 1
      /\ \A i \in 1 .. Len(Tail(left)) : i + 1 \in 1 .. Len(left) /\ Tail(left)[i] = left[i + 1]
      /\ Len(Tail(left)) \in Nat
  OBVIOUS
<1>4. /\ Append(Tail(shown), Head(left)) \in Seq(Item)
      /\ Len(Append(Tail(shown), Head(left))) = Len(shown)
      /\ Append(Tail(shown), Head(left))[Len(shown)] = Head(left)
      /\ \A i \in 1 .. Len(Tail(shown)) : Append(Tail(shown), Head(left))[i] = Tail(shown)[i]
  BY <1>1, <1>2
<1>5. \A i \in 1 .. Len(shown) : i < Len(shown) => i + 1 \in 1 .. Len(shown) /\ i \in 1 .. Len(Tail(shown))
  BY <1>1
<1>6. QED
  BY <1>1, <1>2, <1>3, <1>4, <1>5 DEF Shifted

(* A card is added below the stack, or there is none left to add. *)
LEMMA RefillStep ==
  ASSUME Inv, Refill
  PROVE  Inv'
<1> USE DEF Refill, Fires, controls
<1>1. /\ timers # <<>> /\ Head(timers) = <<"refill">> /\ timers' = Tail(timers)
      /\ UNCHANGED <<page, mounts, at>>
  OBVIOUS
<1>2. /\ timers \in Seq(Timer) /\ shown \in Seq(Item) /\ left \in Seq(Item)
      /\ mounts \in Nat \ {0} /\ filtered \in Seq(Item)
  BY DEF Inv, StackInvs, Types
<1>3. /\ timers' \in Seq(Timer)
      /\ Refills(timers) = Refills(timers') + 1 /\ Refills(timers') \in Nat
  BY <1>1, <1>2, QueueShrinks
<1>4. page = "filter-articles"
  BY <1>1 DEF Inv, StackInvs, QueueInv, Types
<1>5. \/ UNCHANGED filtered
      \/ Head(Shifted) \in Headers /\ filtered' = Append(filtered, Head(Shifted))
  BY DEF Select, SelectedOnTop
<1>6. CountInv' /\ filtered' \in Seq(Item)
  <2>1. CASE UNCHANGED filtered
    BY <1>1, <1>2, <2>1 DEF Inv, CountInv
  <2>2. CASE Head(Shifted) \in Headers /\ filtered' = Append(filtered, Head(Shifted))
    <3>1. Head(Shifted) \in Item
      BY <2>2, ItemsAre
    <3>2. ASSUME NEW item \in Item \ Headers
          PROVE  Count(filtered', item) = Count(filtered, item)
      BY <1>2, <2>2, <3>1, <3>2, CountGrows
    <3>3. \A k \in 1 .. Len(Items) : Items[k] \in Item
      BY ItemsAre
    <3>4. QED
      BY <1>1, <1>2, <2>2, <3>1, <3>2, <3>3, CountGrows DEF Inv, CountInv
  <2>3. QED
    BY <1>5, <2>1, <2>2
<1>7. QueueInv'
  BY <1>1, <1>4 DEF QueueInv
<1>8. CASE left = <<>>
  <2>1. UNCHANGED <<shown, left, pos, elements>>
    BY <1>8
  <2>2. Types'
    BY <1>1, <1>3, <1>6, <2>1 DEF Inv, StackInvs, Types
  <2>3. StackInv'
    BY <1>1, <2>1 DEF Inv, StackInvs, StackInv, Passed
  <2>4. PositionInv'
    BY <1>8, <2>1 DEF PositionInv
  <2>5. QED
    BY <1>6, <1>7, <2>2, <2>3, <2>4 DEF Inv, StackInvs
<1>9. CASE left # <<>>
  <2>1. shown' = Shifted /\ left' = Tail(left) /\ pos' = 0 /\ elements' = Len(Shifted)
    BY <1>9
  <2>2. shown # <<>>
    BY <1>9 DEF Inv, StackInvs, StackInv
  <2>3. /\ shown' \in Seq(Item) /\ Len(shown') = Len(shown) /\ Len(shown) \in Nat \ {0}
        /\ \A i \in 1 .. Len(shown) : i < Len(shown) => i + 1 \in 1 .. Len(shown) /\ shown'[i] = shown[i + 1]
        /\ shown'[Len(shown)] = left[1] /\ 1 \in 1 .. Len(left)
        /\ left' \in Seq(Item) /\ Len(left) \in Nat /\ Len(left') = Len(left) - 1
        /\ \A i \in 1 .. Len(left') : i + 1 \in 1 .. Len(left) /\ left'[i] = left[i + 1]
        /\ Len(left') \in Nat
    BY <1>2, <1>9, <2>1, <2>2, ShiftedIs
  <2>4. elements' \in Nat
    BY <2>1, <2>3
  <2> HIDE DEF Refill
  <2>5. Types'
    BY <1>1, <1>3, <1>6, <2>1, <2>3, <2>4 DEF Inv, StackInvs, Types
  <2>6. Len(Items) \in Nat
    BY ItemsAre
  <2>7. Passed' = Passed + 1 /\ Passed \in Int
    BY <2>3, <2>6 DEF Passed
  <2>8. StackInv'
    <3>1. SUFFICES ASSUME mounts = 1
                   PROVE  /\ Passed' \in Nat /\ Len(shown') = Stack
                          /\ \A i \in 1 .. Len(shown') : shown'[i] = Items[Passed' + i]
                          /\ \A i \in 1 .. Len(left') : left'[i] = Items[Passed' + Len(shown') + i]
      BY <1>1, <2>3 DEF StackInv
    <3>2. /\ Passed \in Nat /\ Len(shown) = Stack
          /\ \A i \in 1 .. Len(shown) : shown[i] = Items[Passed + i]
          /\ \A i \in 1 .. Len(left) : left[i] = Items[Passed + Len(shown) + i]
      BY <1>9, <3>1 DEF Inv, StackInvs, StackInv
    <3>3. ASSUME NEW i \in 1 .. Len(shown) PROVE shown'[i] = Items[Passed' + i]
      <4>1. CASE i < Len(shown)
        <5>1. Passed + (i + 1) = Passed' + i
          BY <2>3, <2>7, <3>2
        <5>2. QED
          BY <2>3, <3>2, <4>1, <5>1
      <4>2. CASE i = Len(shown)
        <5>1. Passed + Len(shown) + 1 = Passed' + i
          BY <2>3, <2>7, <3>2, <4>2
        <5>2. QED
          BY <2>3, <3>2, <4>2, <5>1
      <4>3. QED
        BY <2>3, <4>1, <4>2
    <3>4. ASSUME NEW i \in 1 .. Len(left') PROVE left'[i] = Items[Passed' + Len(shown') + i]
      <4>1. Passed + Len(shown) + (i + 1) = Passed' + Len(shown') + i
        BY <2>3, <2>7, <3>2
      <4>2. QED
        BY <2>3, <3>2, <4>1
    <3>5. Passed' \in Nat /\ Len(shown') = Stack
      BY <2>3, <2>7, <3>2
    <3>6. \A i \in 1 .. Len(shown') : shown'[i] = Items[Passed' + i]
      BY <2>3, <3>3
    <3>7. QED
      BY <3>4, <3>5, <3>6
  <2>9. PositionInv'
    <3>1. SUFFICES ASSUME mounts = 1 PROVE at = Passed' + Refills(timers')
      BY <1>1, <2>1 DEF PositionInv
    <3>2. at = Passed + Refills(timers)
      BY <1>4, <1>9, <3>1 DEF Inv, StackInvs, PositionInv
    <3>3. QED
      BY <1>3, <2>7, <3>2
  <2>10. QED
    BY <1>6, <1>7, <2>5, <2>8, <2>9 DEF Inv, StackInvs
<1>10. QED
  BY <1>8, <1>9

(* The page is shown again: the next showing of every article begins. *)
LEMMA MountStep ==
  ASSUME Inv, NEW chosen, ShowAgain(chosen)
  PROVE  Inv'
<1> USE DEF ShowAgain, Mount
<1>1. /\ mounts' = mounts + 1 /\ mounts \in Nat \ {0} /\ filtered \in Seq(Item)
      /\ page' = "filter-articles" /\ timers' = <<>> /\ filtered' = Append(filtered, Items[1])
  BY DEF Inv, StackInvs, Types
<1>2. Items[1] \in Item /\ Items[1] \in Headers
  BY ItemsAre
<1> DEFINE rest == Remaining(chosen)
           n == IF Len(rest) < Stack THEN Len(rest) ELSE Stack
<1>3. rest \in Seq(Item)
  BY ItemsAre, FilterEntries DEF Remaining
<1>4. /\ shown' = SubSeq(rest, 1, n) /\ left' = SubSeq(rest, n + 1, Len(rest))
      /\ elements' = n /\ pos' = 0 /\ at' = 0
  BY DEF Deal
<1> HIDE DEF rest
<1>5. n \in Nat /\ n <= Len(rest) /\ Len(rest) \in Nat /\ (n < Len(rest) => n # 0)
  BY <1>3, ItemsAre
<1> HIDE DEF n
<1>6. /\ SubSeq(rest, 1, n) \in Seq(Item) /\ Len(SubSeq(rest, 1, n)) = n
  BY <1>3, <1>5
<1>7. /\ SubSeq(rest, n + 1, Len(rest)) \in Seq(Item)
      /\ Len(SubSeq(rest, n + 1, Len(rest))) = Len(rest) - n
  BY <1>3, <1>5
<1>8. /\ shown' \in Seq(Item) /\ Len(shown') = n
      /\ left' \in Seq(Item) /\ Len(left') = Len(rest) - n
  BY <1>4, <1>6, <1>7
<1>9. left' # <<>> => shown' # <<>>
  <2>1. left' # <<>> => Len(left') # 0
    BY <1>8
  <2>2. QED
    BY <1>5, <1>8, <2>1
<1>10. filtered' \in Seq(Item)
  BY <1>1, <1>2, CountGrows
<1>11. Types'
  BY <1>1, <1>4, <1>5, <1>8, <1>10 DEF Types
<1>12. QueueInv' /\ StackInv' /\ PositionInv'
  BY <1>1, <1>9 DEF QueueInv, StackInv, PositionInv
<1>13. CountInv'
  <2>1. ASSUME NEW item \in Item \ Headers PROVE Count(filtered', item) < mounts'
    <3>1. Count(filtered, item) <= mounts /\ Count(filtered, item) \in Nat
      BY <1>1, CountGrows DEF Inv, CountInv
    <3>2. Count(filtered', item) = Count(filtered, item)
      BY <1>1, <1>2, CountGrows
    <3>3. QED
      BY <1>1, <3>1, <3>2
  <2>2. ASSUME NEW item \in Item \ Headers PROVE Count(filtered', item) <= mounts'
    <3>1. Count(filtered', item) \in Nat
      BY <1>10, <1>2, CountGrows
    <3>2. QED
      BY <1>1, <2>1, <3>1
  <2>3. \A k \in 1 .. Len(Items) : Items[k] \in Item
    BY ItemsAre
  <2>4. QED
    BY <2>1, <2>2, <2>3 DEF CountInv
<1>14. QED
  BY <1>11, <1>12, <1>13 DEF Inv, StackInvs

-----------------------------------------------------------------------------
(* Every action keeps the invariant: a swipe, a refill, a page change by    *)
(* the lemmas above, all others because they set or take no refill.         *)
LEMMA NextInv == Inv /\ [Next]_vars => Inv'
<1> SUFFICES ASSUME Inv, [Next]_vars PROVE Inv'
  OBVIOUS
<1> USE DEF app, cards, controls
<1>1. timers \in Seq(Timer)
  BY DEF Inv, StackInvs, Types
<1>2. timers # <<>> => page = "filter-articles"
  BY DEF Inv, StackInvs, Types, QueueInv
<1>3. CASE LeavePage
  BY <1>3, GoneStep
<1>4. CASE ReturnToPage \/ RestoreOnPage
  BY <1>4, MountStep DEF ReturnToPage, RestoreOnPage
<1>5. ASSUME NEW header \in Headers, StartManualSelection(header) PROVE Inv'
  <2>1. <<header, "manual">> \in Button
    BY DEF Button
  <2>2. <<"wait", <<header, "manual">>>> \in Timer /\ <<"wait", <<header, "manual">>>> # <<"refill">>
    BY <2>1, TimersAre
  <2>3. timers' = Append(timers \o TopTimers, <<"wait", <<header, "manual">>>>)
    BY <1>5 DEF StartManualSelection
  <2>4. Same(timers, timers')
    BY <1>1, <2>2, <2>3, TopQueue, QueueGrows DEF Same
  <2>5. QED
    BY <1>5, <2>4, QuietStep DEF StartManualSelection, Press, Pressable
<1>6. ASSUME NEW header \in Headers, StartAutoSelection(header) PROVE Inv'
  <2> DEFINE wait == <<"wait", <<header, "auto">>>>
  <2>1. <<header, "auto">> \in Button
    BY DEF Button
  <2>2. wait \in Timer /\ wait # <<"refill">>
    BY <2>1, TimersAre
  <2>3. AutomaticallySelectNext(Append(timers, wait))
    BY <1>6 DEF StartAutoSelection
  <2> HIDE DEF wait
  <2>4. Same(timers, Append(timers, wait))
    BY <1>1, <2>2, QueueGrows DEF Same
  <2>5. Same(timers, timers')
    BY <2>3, <2>4, AutoQueue DEF Same
  <2>6. QED
    BY <1>6, <2>5, QuietStep DEF StartAutoSelection, Press, Pressable
<1>7. CASE ClickLeft \/ ClickRight
  <2>1. PICK side \in {"left", "right"}, enable \in {"enableLeft", "enableRight"} : ClickSide(side, enable)
    BY <1>7 DEF ClickLeft, ClickRight
  <2>2. Same(timers, timers \o SideTimers(side, enable))
    BY <1>1, SideQueue
  <2>3. Same(timers, timers')
    BY <2>1, <2>2 DEF ClickSide
  <2>4. QED
    BY <2>1, <2>3, QuietStep DEF ClickSide, ButtonsShown
<1>8. CASE TouchSwipe
  <2>1. Advance(timers) /\ (SelectCurrent \/ UNCHANGED <<filtered, known>>) /\ page = "filter-articles"
    BY <1>8 DEF TouchSwipe, SwipeRight, SwipeAway
  <2>2. Same(timers, timers)
    BY <1>1 DEF Same
  <2>3. QED
    BY <2>1, <2>2, SwipeStep
<1>9. CASE SwipeTimer
  <2>1. /\ timers # <<>> /\ Head(timers) \in {<<"right">>, <<"left">>, <<"top">>}
        /\ Advance(Tail(timers)) /\ (SelectCurrent \/ UNCHANGED <<filtered, known>>)
    BY <1>9 DEF SwipeTimer, Fires, SwipeRight, SwipeAway
  <2>2. Head(timers) # <<"refill">>
    BY <2>1, TimersAre
  <2>3. Same(timers, Tail(timers))
    BY <1>1, <2>1, <2>2, QueueShrinks DEF Same
  <2>4. QED
    BY <1>2, <2>1, <2>3, SwipeStep
<1>10. CASE EnableTimer
  <2>1. timers # <<>> /\ Head(timers) \in {<<"enableLeft">>, <<"enableRight">>} /\ timers' = Tail(timers)
    BY <1>10 DEF EnableTimer, Fires
  <2>2. Head(timers) # <<"refill">>
    BY <2>1, TimersAre
  <2>3. Same(timers, timers')
    BY <1>1, <2>1, <2>2, QueueShrinks DEF Same
  <2>4. QED
    BY <1>2, <1>10, <2>1, <2>3, QuietStep DEF EnableTimer
<1>11. ASSUME NEW button \in Button, ButtonTimer(button) PROVE Inv'
  <2>1. /\ <<"enable", button>> \in Timer /\ <<"enable", button>> # <<"refill">>
        /\ <<"wait", button>> # <<"refill">>
    BY TimersAre
  <2>2. /\ timers # <<>> /\ Head(timers) \in {<<"wait", button>>, <<"enable", button>>}
        /\ timers' \in {Tail(timers), Append(Tail(timers), <<"enable", button>>)}
    BY <1>11 DEF ButtonTimer, Fires
  <2>3. Same(timers, Tail(timers))
    BY <1>1, <2>1, <2>2, QueueShrinks DEF Same
  <2>4. Same(timers, Append(Tail(timers), <<"enable", button>>))
    BY <2>1, <2>3, QueueGrows DEF Same
  <2>5. QED
    BY <1>2, <1>11, <2>2, <2>3, <2>4, QuietStep DEF ButtonTimer
<1>12. CASE AutoTimer
  <2>1. timers # <<>> /\ Head(timers) = <<"auto">> /\ AutomaticallySelectNext(Tail(timers))
    BY <1>12 DEF AutoTimer, Fires
  <2>2. Head(timers) # <<"refill">>
    BY <2>1, TimersAre
  <2>3. Same(timers, Tail(timers))
    BY <1>1, <2>1, <2>2, QueueShrinks DEF Same
  <2>4. Same(timers, timers')
    BY <2>1, <2>3, AutoQueue DEF Same
  <2>5. QED
    BY <1>2, <1>12, <2>1, <2>4, QuietStep DEF AutoTimer
<1>13. CASE Refill
  BY <1>13, RefillStep
<1>14. CASE UNCHANGED vars
  BY <1>14 DEF vars, Inv, StackInvs, Types, QueueInv, StackInv, PositionInv, CountInv, Passed
<1>15. QED
  BY <1>3, <1>4, <1>5, <1>6, <1>7, <1>8, <1>9, <1>10, <1>11, <1>12, <1>13, <1>14 DEF Next, TimerFires

(* The invariant holds of every behaviour of the filter page.               *)
THEOREM FilterInvariant == Spec => []Inv
<1>1. Init => Inv
  BY InitInv
<1>2. Inv /\ [Next]_vars => Inv'
  BY NextInv
<1>3. QED
  BY <1>1, <1>2, PTL DEF Spec

(* While cards are left to add, the card on top is the item the decision is *)
(* about, however gestures, buttons, automatic selection and refills are    *)
(* ordered.                                                                 *)
THEOREM FilterDoesNotDrift == Spec => []NoDriftBeforeTheEnd
<1>1. Inv => NoDriftBeforeTheEnd
  <2> SUFFICES ASSUME Inv, mounts = 1, page = "filter-articles", timers = <<>>, left # <<>>
               PROVE  pos = 0 /\ Top = Current
    BY DEF NoDriftBeforeTheEnd, Settled
  <2>1. Refills(timers) = 0
    BY QueueEmpty
  <2>2. pos = 0 /\ at = Passed + Refills(timers) /\ Passed \in Nat
    BY <2>1 DEF Inv, StackInvs, PositionInv, StackInv
  <2>3. 1 \in 1 .. Len(shown)
    BY ItemsAre DEF Inv, StackInvs, StackInv
  <2>4. shown[1] = Items[Passed + 1]
    BY <2>3 DEF Inv, StackInvs, StackInv
  <2>5. pos + 1 = 1 /\ at + 1 = Passed + 1
    BY <2>1, <2>2
  <2>6. QED
    BY <2>2, <2>4, <2>5 DEF Top, Current
<1>2. QED
  BY <1>1, FilterInvariant, PTL

(* No article is filtered twice in one showing of the page, for any number  *)
(* of showings.                                                             *)
THEOREM FilterTakesEachOnce == Spec => []FilteredOncePerShowing
<1>1. Inv => FilteredOncePerShowing
  BY DEF Inv, CountInv, FilteredOncePerShowing, Count, Item
<1>2. QED
  BY <1>1, FilterInvariant, PTL

-----------------------------------------------------------------------------
(***************************************************************************)
(* The reward of a module.  The button that earns it is disabled until a   *)
(* refill has taken its card away, since what it sets in the queue is a    *)
(* swipe first and the timer that enables it last.                         *)
(***************************************************************************)

(* The last module is longer than the stack, as in the content of the game. *)
LastModuleIsLong == \A i \in 1 .. Len(Items) : i + Stack > Len(Items) => Items[i] \notin Headers

Place(header) == CHOOSE i \in 1 .. Len(Items) : Items[i] = header

Waits(header) == <<"wait", <<header, "manual">>>>
Enables(header) == <<"enable", <<header, "manual">>>>
Swiping == {<<"left">>, <<"right">>, <<"top">>}
Refilling == {<<"refill">>}

(* How many timers of a kind there are from a place of the queue on.        *)
Counts(c, queue, T) ==
  /\ c \in [1 .. Len(queue) + 1 -> Nat]
  /\ c[Len(queue) + 1] = 0
  /\ \A p \in 1 .. Len(queue) : c[p] = c[p + 1] + (IF queue[p] \in T THEN 1 ELSE 0)

(* When a button is enabled its card is among the first n of the list, with *)
(* the refills before it; and when it waits for that, with the refills to   *)
(* come and those of the swipes before it.                                  *)
EnabledAfter(queue, n, refill) ==
  \A p \in 1 .. Len(queue), header \in Headers :
    queue[p] = Enables(header) => Place(header) <= n + refill[1] - refill[p]
WaitsAfter(queue, n, refill, swipe) ==
  \A p \in 1 .. Len(queue), header \in Headers :
    queue[p] = Waits(header) => Place(header) <= n + refill[1] + swipe[1] - swipe[p]
Follows(queue, n, top, refill, swipe) ==
  /\ Counts(refill, queue, Refilling) /\ Counts(swipe, queue, Swiping)
  /\ EnabledAfter(queue, n, refill) /\ WaitsAfter(queue, n, refill, swipe)
  /\ top <= refill[1]
InTurn(queue, n, top) == \E refill, swipe : Follows(queue, n, top, refill, swipe)

LEMMA HeaderTimers ==
  /\ \A kind, header : <<kind>> # Waits(header) /\ <<kind>> # Enables(header)
  /\ \A g, h : Waits(g) # Enables(h)
  /\ \A g, h : (Waits(g) = Waits(h) => g = h) /\ (Enables(g) = Enables(h) => g = h)
  /\ \A g, h : <<"wait", <<g, "auto">>>> # Waits(h) /\ <<"wait", <<g, "auto">>>> # Enables(h)
  /\ \A g, h : <<"enable", <<g, "auto">>>> # Waits(h) /\ <<"enable", <<g, "auto">>>> # Enables(h)
  /\ \A h \in Headers : Waits(h) \in Timer /\ Enables(h) \in Timer
<1>1. \A kind, header : <<kind>> # Waits(header) /\ <<kind>> # Enables(header)
  <2> SUFFICES ASSUME NEW kind, NEW header PROVE <<kind>> # Waits(header) /\ <<kind>> # Enables(header)
    OBVIOUS
  <2>1. Len(<<kind>>) = 1 /\ Len(Waits(header)) = 2 /\ Len(Enables(header)) = 2
    BY DEF Waits, Enables
  <2>2. QED
    BY <2>1
<1>2. \A g, h : Waits(g) # Enables(h)
  BY DEF Waits, Enables
<1>3. \A g, h : (Waits(g) = Waits(h) => g = h) /\ (Enables(g) = Enables(h) => g = h)
  BY DEF Waits, Enables
<1>4. \A g, h : <<"wait", <<g, "auto">>>> # Waits(h) /\ <<"wait", <<g, "auto">>>> # Enables(h)
  BY DEF Waits, Enables
<1>5. \A g, h : <<"enable", <<g, "auto">>>> # Waits(h) /\ <<"enable", <<g, "auto">>>> # Enables(h)
  BY DEF Waits, Enables
<1>6. \A h \in Headers : Waits(h) \in Timer /\ Enables(h) \in Timer
  BY TimersAre DEF Waits, Enables, Button
<1>7. QED
  BY <1>1, <1>2, <1>3, <1>4, <1>5, <1>6

LEMMA OneMoreTimer ==
  ASSUME NEW q \in Seq(Timer), NEW t \in Timer
  PROVE  /\ Append(q, t) \in Seq(Timer) /\ Len(q) \in Nat /\ Len(Append(q, t)) = Len(q) + 1
         /\ Append(q, t)[Len(q) + 1] = t
         /\ \A p \in 1 .. Len(q) : Append(q, t)[p] = q[p]
OBVIOUS

(* The counts of a longer queue.                                            *)
Raised(d, c, q, one) == \A p \in 1 .. Len(q) + 1 : d[p] = c[p] + one
IsOne(one, t, T) == (t \in T /\ one = 1) \/ (t \notin T /\ one = 0)

LEMMA CountsGrow ==
  ASSUME NEW q \in Seq(Timer), NEW t \in Timer, NEW T, NEW c, Counts(c, q, T),
         NEW r, r = Append(q, t), NEW one, IsOne(one, t, T)
  PROVE  \E d : Counts(d, r, T) /\ Raised(d, c, q, one)
<1> DEFINE n == Len(q)
           d == [p \in 1 .. n + 2 |-> IF p = n + 2 THEN 0 ELSE c[p] + one]
<1>1. one \in Nat /\ one = IF t \in T THEN 1 ELSE 0
  BY DEF IsOne
<1>2. /\ n \in Nat /\ Len(r) = n + 1 /\ r[n + 1] = t
      /\ \A p \in 1 .. n : r[p] = q[p]
  OBVIOUS
<1>3. /\ \A p \in 1 .. n + 1 : c[p] \in Nat
      /\ c[n + 1] = 0
      /\ \A p \in 1 .. n : c[p] = c[p + 1] + (IF q[p] \in T THEN 1 ELSE 0)
  BY DEF Counts
<1> HIDE DEF n
<1>4. \A p \in 1 .. n + 1 : d[p] = c[p] + one
  BY <1>2
<1>5. d[n + 2] = 0
  BY <1>2
<1>6. d \in [1 .. Len(r) + 1 -> Nat] /\ d[Len(r) + 1] = 0
  <2>1. Len(r) + 1 = n + 2
    BY <1>2
  <2>2. d \in [1 .. n + 2 -> Nat]
    BY <1>1, <1>2, <1>3
  <2>3. QED
    BY <1>5, <2>1, <2>2
<1> HIDE DEF d
<1>7. ASSUME NEW p \in 1 .. Len(r) PROVE d[p] = d[p + 1] + (IF r[p] \in T THEN 1 ELSE 0)
  <2>1. CASE p \in 1 .. n
    <3>1. p \in 1 .. n + 1 /\ p + 1 \in 1 .. n + 1
      BY <1>2, <2>1
    <3>2. d[p] = c[p] + one /\ d[p + 1] = c[p + 1] + one /\ r[p] = q[p]
      BY <1>2, <1>4, <2>1, <3>1
    <3>3. c[p] = c[p + 1] + (IF q[p] \in T THEN 1 ELSE 0) /\ c[p] \in Nat /\ c[p + 1] \in Nat
      BY <1>3, <2>1, <3>1
    <3>4. QED
      BY <1>1, <3>2, <3>3
  <2>2. CASE p = n + 1
    <3>1. d[n + 1] = one /\ d[(n + 1) + 1] = 0
      BY <1>1, <1>2, <1>3, <1>4, <1>5
    <3>2. QED
      BY <1>1, <1>2, <2>2, <3>1
  <2>3. QED
    BY <1>2, <2>1, <2>2
<1>8. Counts(d, r, T)
  BY <1>6, <1>7 DEF Counts
<1>9. Raised(d, c, q, one)
  BY <1>4 DEF n, Raised
<1>10. QED
  BY <1>8, <1>9

(* The counts when the first timer has fired.                               *)
Moved(d, c, q) == \A p \in 1 .. Len(q) : d[p] = c[p + 1]

LEMMA CountsShrink ==
  ASSUME NEW q \in Seq(Timer), q # <<>>, NEW T, NEW c, Counts(c, q, T), NEW r, r = Tail(q)
  PROVE  /\ c[1] = c[2] + (IF Head(q) \in T THEN 1 ELSE 0) /\ c[1] \in Nat /\ c[2] \in Nat
         /\ \E d : Counts(d, r, T) /\ Moved(d, c, q)
<1> DEFINE n == Len(q)
           d == [p \in 1 .. n |-> c[p + 1]]
<1>1. /\ n \in Nat /\ n >= 1 /\ Head(q) = q[1] /\ Len(r) + 1 = n /\ Len(r) \in Nat
      /\ \A p \in 1 .. Len(r) : p + 1 \in 1 .. n /\ r[p] = q[p + 1]
  <2>1. Len(q) \in Nat /\ Len(q) >= 1
    OBVIOUS
  <2>2. Head(q) = q[1] /\ r \in Seq(Timer) /\ Len(r) + 1 = Len(q)
        /\ \A p \in 1 .. Len(r) : p + 1 \in 1 .. Len(q) /\ r[p] = q[p + 1]
    <3> HIDE DEF Timer
    <3>1. QED
      BY HeadAndTail
  <2>3. QED
    BY <2>1, <2>2
<1>2. /\ \A p \in 1 .. n + 1 : c[p] \in Nat
      /\ c[n + 1] = 0
      /\ \A p \in 1 .. n : c[p] = c[p + 1] + (IF q[p] \in T THEN 1 ELSE 0)
  BY DEF Counts
<1> HIDE DEF n
<1>3. c[1] = c[2] + (IF Head(q) \in T THEN 1 ELSE 0) /\ c[1] \in Nat /\ c[2] \in Nat
  <2>1. 1 \in 1 .. n /\ 1 \in 1 .. n + 1 /\ 2 \in 1 .. n + 1 /\ 1 + 1 = 2
    BY <1>1
  <2>2. QED
    BY <1>1, <1>2, <2>1
<1>4. \A p \in 1 .. n : d[p] = c[p + 1] /\ p + 1 \in 1 .. n + 1
  BY <1>1
<1>5. d \in [1 .. Len(r) + 1 -> Nat] /\ d[Len(r) + 1] = 0
  BY <1>1, <1>2, <1>4
<1> HIDE DEF d
<1>6. ASSUME NEW p \in 1 .. Len(r) PROVE d[p] = d[p + 1] + (IF r[p] \in T THEN 1 ELSE 0)
  <2>1. p \in 1 .. n /\ p + 1 \in 1 .. n /\ r[p] = q[p + 1]
    BY <1>1
  <2>2. d[p] = c[p + 1] /\ d[p + 1] = c[(p + 1) + 1]
    BY <1>4, <2>1
  <2>3. QED
    BY <1>2, <2>1, <2>2
<1>7. Counts(d, r, T)
  BY <1>5, <1>6 DEF Counts
<1>8. Moved(d, c, q)
  BY <1>4 DEF n, Moved
<1>9. QED
  BY <1>3, <1>7, <1>8

LEMMA PlacesAre ==
  \A header \in Headers :
    /\ Place(header) \in 1 .. Len(Items) /\ Items[Place(header)] = header
    /\ \A i \in 1 .. Len(Items) : Items[i] = header => i = Place(header)
<1> SUFFICES ASSUME NEW header \in Headers
             PROVE  /\ Place(header) \in 1 .. Len(Items) /\ Items[Place(header)] = header
                    /\ \A i \in 1 .. Len(Items) : Items[i] = header => i = Place(header)
  OBVIOUS
<1>1. \E i \in 1 .. Len(Items) : Items[i] = header
  BY ItemsAre DEF Item, ToSet
<1>2. Place(header) \in 1 .. Len(Items) /\ Items[Place(header)] = header
  BY <1>1 DEF Place
<1>3. QED
  BY <1>2, ItemsAre

(* One more timer, which does not enable a button before its card is gone.  *)
Harmless(t, bound) ==
  \A header \in Headers : t # Waits(header) /\ (t = Enables(header) => Place(header) <= bound)

LEMMA FollowGrows ==
  ASSUME NEW q \in Seq(Timer), NEW n \in Int, NEW top \in Int, NEW c, NEW s,
         Follows(q, n, top, c, s), NEW t \in Timer, Harmless(t, n + c[1])
  PROVE  /\ Append(q, t) \in Seq(Timer) /\ InTurn(Append(q, t), n, top)
         /\ t = <<"refill">> => InTurn(Append(q, t), n, top + 1)
<1> DEFINE r == Append(q, t)
           more == IF t \in Refilling THEN 1 ELSE 0
           swiped == IF t \in Swiping THEN 1 ELSE 0
<1>1. Follows(q, n, top, c, s)
  OBVIOUS
<1>2. /\ r \in Seq(Timer) /\ Len(q) \in Nat /\ Len(r) = Len(q) + 1 /\ r[Len(q) + 1] = t
      /\ \A p \in 1 .. Len(q) : r[p] = q[p]
  OBVIOUS
<1>3. /\ more \in Nat /\ IsOne(more, t, Refilling)
      /\ swiped \in Nat /\ IsOne(swiped, t, Swiping)
  BY DEF IsOne
<1> HIDE DEF more, swiped
<1>4. Counts(c, q, Refilling) /\ Counts(s, q, Swiping)
  BY <1>1 DEF Follows
<1>5. (\E d : Counts(d, r, Refilling) /\ Raised(d, c, q, more))
      /\ \E e : Counts(e, r, Swiping) /\ Raised(e, s, q, swiped)
  BY <1>3, <1>4, CountsGrow
<1>6. PICK d : Counts(d, r, Refilling) /\ Raised(d, c, q, more)
  BY <1>5
<1>7. PICK e : Counts(e, r, Swiping) /\ Raised(e, s, q, swiped)
  BY <1>5
<1>8. Counts(d, r, Refilling) /\ \A p \in 1 .. Len(q) + 1 : d[p] = c[p] + more
  BY <1>6 DEF Raised
<1>9. Counts(e, r, Swiping) /\ \A p \in 1 .. Len(q) + 1 : e[p] = s[p] + swiped
  BY <1>7 DEF Raised
<1> HIDE DEF r
<1>10. \A p \in 1 .. Len(q) + 1 : c[p] \in Nat /\ s[p] \in Nat
  BY <1>1 DEF Follows, Counts
<1>11. 1 \in 1 .. Len(q) + 1 /\ \A p \in 1 .. Len(q) : p \in 1 .. Len(q) + 1
  BY <1>2
<1>12. \A p \in 1 .. Len(r) : p \in 1 .. Len(q) \/ (p = Len(r) /\ r[p] = t)
  BY <1>2
<1>13. ASSUME NEW p \in 1 .. Len(r), NEW header \in Headers, r[p] = Enables(header)
      PROVE  Place(header) <= n + d[1] - d[p]
  <2>1. CASE p \in 1 .. Len(q)
    <3>1. Place(header) <= n + c[1] - c[p]
      BY <1>1, <1>2, <1>13, <2>1 DEF Follows, EnabledAfter
    <3>2. n + d[1] - d[p] = n + c[1] - c[p]
      BY <1>3, <1>8, <1>10, <1>11, <2>1
    <3>3. QED
      BY <3>1, <3>2
  <2>2. CASE p = Len(r) /\ r[p] = t
    <3>1. t = Enables(header)
      BY <1>13, <2>2
    <3>2. Place(header) <= n + c[1] /\ t \notin Refilling
      BY <3>1, HeaderTimers DEF Harmless, Refilling
    <3>3. d[p] = 0
      <4>1. d[p] = d[p + 1] + (IF r[p] \in Refilling THEN 1 ELSE 0) /\ d[Len(r) + 1] = 0
        BY <1>8 DEF Counts
      <4>2. QED
        BY <2>2, <3>2, <4>1
    <3>4. d[1] = c[1]
      BY <1>8, <1>10, <1>11, <3>2 DEF more
    <3>5. QED
      BY <1>10, <1>11, <3>2, <3>3, <3>4
  <2>3. QED
    BY <1>12, <2>1, <2>2
<1>14. ASSUME NEW p \in 1 .. Len(r), NEW header \in Headers, r[p] = Waits(header), Place(header) \in Int
       PROVE  Place(header) <= n + d[1] + e[1] - e[p]
  <2>1. p \in 1 .. Len(q) /\ q[p] = Waits(header)
    BY <1>2, <1>12, <1>14 DEF Harmless
  <2>2. Place(header) <= n + c[1] + s[1] - s[p]
    BY <1>1, <2>1 DEF Follows, WaitsAfter
  <2>3. p \in 1 .. Len(q) + 1 /\ 1 \in 1 .. Len(q) + 1
    BY <1>11, <2>1
  <2>4. /\ d[1] = c[1] + more /\ e[1] = s[1] + swiped /\ e[p] = s[p] + swiped
        /\ c[1] \in Nat /\ s[1] \in Nat /\ s[p] \in Nat
    BY <1>8, <1>9, <1>10, <2>3
  <2>5. more \in Nat /\ swiped \in Nat
    BY <1>3
  <2> DEFINE home == Place(header)
             c1 == c[1]
             s1 == s[1]
             sp == s[p]
  <2>6. home \in Int /\ home <= n + c1 + s1 - sp /\ c1 \in Nat /\ s1 \in Nat /\ sp \in Nat
    BY <1>14, <2>2, <2>4
  <2>7. d[1] = c1 + more /\ e[1] = s1 + swiped /\ e[p] = sp + swiped
    BY <2>4
  <2> HIDE DEF home, c1, s1, sp
  <2>8. home <= n + (c1 + more) + (s1 + swiped) - (sp + swiped)
    BY <2>5, <2>6
  <2>9. QED
    BY <2>7, <2>8 DEF home
<1>15. \A header \in Headers : Place(header) \in Int
  BY PlacesAre
<1>16. EnabledAfter(r, n, d) /\ WaitsAfter(r, n, d, e)
  BY <1>13, <1>14, <1>15 DEF EnabledAfter, WaitsAfter
<1>17. top <= d[1] /\ (t = <<"refill">> => top + 1 <= d[1])
  <2>1. top <= c[1] /\ d[1] = c[1] + more /\ c[1] \in Nat
    BY <1>1, <1>8, <1>10, <1>11 DEF Follows
  <2>2. t = <<"refill">> => more = 1
    BY DEF more, Refilling
  <2>3. QED
    BY <1>3, <2>1, <2>2
<1>18. QED
  BY <1>2, <1>8, <1>9, <1>16, <1>17 DEF InTurn, Follows, r

(* A timer that has to do with no button *)
Other(t) == \A header \in Headers : t # Waits(header) /\ t # Enables(header)

LEMMA TurnGrows ==
  ASSUME NEW q \in Seq(Timer), NEW n \in Int, NEW top \in Int, InTurn(q, n, top),
         NEW t \in Timer, Other(t)
  PROVE  /\ Append(q, t) \in Seq(Timer) /\ InTurn(Append(q, t), n, top)
         /\ t = <<"refill">> => InTurn(Append(q, t), n, top + 1)
<1>1. PICK c, s : Follows(q, n, top, c, s)
  BY DEF InTurn
<1>2. Harmless(t, n + c[1])
  BY DEF Other, Harmless
<1>3. QED
  BY <1>1, <1>2, FollowGrows

(* The button of a card that the next swipe takes away is pressed.          *)
LEMMA TurnPressed ==
  ASSUME NEW q \in Seq(Timer), NEW n \in Int, NEW top \in Int, InTurn(q, n, top),
         NEW header \in Headers, Place(header) <= n + top + 1,
         NEW r, r = Append(Append(q, <<"top">>), Waits(header))
  PROVE  r \in Seq(Timer) /\ InTurn(r, n, top)
<1> DEFINE u == Append(q, <<"top">>)
           m == Len(u)
<1>1. <<"top">> \in Timer /\ Waits(header) \in Timer
  BY TimersAre, HeaderTimers
<1>2. u \in Seq(Timer) /\ Len(q) \in Nat /\ m = Len(q) + 1
  BY <1>1
<1>3. PICK c, s : Follows(q, n, top, c, s)
  BY DEF InTurn
<1>4. <<"top">> \notin Refilling /\ <<"top">> \in Swiping /\ Waits(header) \notin Refilling /\ Waits(header) \notin Swiping
  BY HeaderTimers DEF Refilling, Swiping
<1>5. Counts(c, q, Refilling) /\ Counts(s, q, Swiping)
  BY <1>3 DEF Follows
<1>6. /\ IsOne(0, <<"top">>, Refilling) /\ IsOne(1, <<"top">>, Swiping)
      /\ IsOne(0, Waits(header), Refilling) /\ IsOne(0, Waits(header), Swiping)
  BY <1>4 DEF IsOne
<1>7. (\E d : Counts(d, u, Refilling) /\ Raised(d, c, q, 0))
      /\ \E e : Counts(e, u, Swiping) /\ Raised(e, s, q, 1)
  BY <1>1, <1>5, <1>6, CountsGrow
<1>8. PICK d : Counts(d, u, Refilling) /\ Raised(d, c, q, 0)
  BY <1>7
<1>9. PICK e : Counts(e, u, Swiping) /\ Raised(e, s, q, 1)
  BY <1>7
<1>10. Counts(d, u, Refilling) /\ \A p \in 1 .. Len(q) + 1 : d[p] = c[p] + 0
  BY <1>8 DEF Raised
<1>11. Counts(e, u, Swiping) /\ \A p \in 1 .. Len(q) + 1 : e[p] = s[p] + 1
  BY <1>9 DEF Raised
<1>12. /\ \A p \in 1 .. Len(q) + 1 : c[p] \in Nat /\ s[p] \in Nat
      /\ \A p \in 1 .. m + 1 : d[p] \in Nat /\ e[p] \in Nat
  BY <1>3, <1>10, <1>11 DEF Follows, Counts
<1> HIDE DEF u
<1>13. r = Append(u, Waits(header))
  BY DEF u
<1>14. (\E f : Counts(f, r, Refilling) /\ Raised(f, d, u, 0))
      /\ \E g : Counts(g, r, Swiping) /\ Raised(g, e, u, 0)
  BY <1>1, <1>2, <1>6, <1>10, <1>11, <1>13, CountsGrow
<1>15. PICK f : Counts(f, r, Refilling) /\ Raised(f, d, u, 0)
  BY <1>14
<1>16. PICK g : Counts(g, r, Swiping) /\ Raised(g, e, u, 0)
  BY <1>14
<1>17. Counts(f, r, Refilling) /\ \A p \in 1 .. m + 1 : f[p] = d[p] + 0
  BY <1>15 DEF Raised
<1>18. Counts(g, r, Swiping) /\ \A p \in 1 .. m + 1 : g[p] = e[p] + 0
  BY <1>16 DEF Raised
<1>19. /\ r \in Seq(Timer) /\ Len(r) = m + 1 /\ r[m + 1] = Waits(header) /\ m \in Nat
       /\ \A p \in 1 .. m : r[p] = u[p]
  BY <1>1, <1>2, <1>13
<1>20. u[m] = <<"top">> /\ \A p \in 1 .. Len(q) : u[p] = q[p]
  BY <1>1, <1>2 DEF u
<1>21. \A p \in 1 .. Len(r) : \/ p \in 1 .. Len(q) /\ r[p] = q[p]
                              \/ r[p] = <<"top">>
                              \/ p = Len(r) /\ r[p] = Waits(header)
  <2> TAKE p \in 1 .. Len(r)
  <2>1. p \in 1 .. Len(q) \/ p = m \/ p = m + 1
    BY <1>2, <1>19
  <2>2. CASE p \in 1 .. Len(q)
    BY <1>2, <1>19, <1>20, <2>2
  <2>3. CASE p = m
    BY <1>2, <1>19, <1>20, <2>3
  <2>4. CASE p = m + 1
    BY <1>19, <2>4
  <2>5. QED
    BY <2>1, <2>2, <2>3, <2>4
<1>22. /\ 1 \in 1 .. Len(q) + 1 /\ 1 \in 1 .. m + 1
       /\ \A p \in 1 .. Len(q) : p \in 1 .. Len(q) + 1 /\ p \in 1 .. m + 1
  BY <1>2
<1>23. ASSUME NEW p \in 1 .. Len(q) + 1, p \in 1 .. m + 1
      PROVE  f[p] = c[p] /\ g[p] = s[p] + 1 /\ c[p] \in Nat /\ s[p] \in Nat
  <2>1. c[p] \in Nat /\ s[p] \in Nat /\ d[p] = c[p] + 0 /\ e[p] = s[p] + 1
    BY <1>10, <1>11, <1>12
  <2>2. f[p] = d[p] + 0 /\ g[p] = e[p] + 0
    BY <1>17, <1>18, <1>23
  <2>3. QED
    BY <2>1, <2>2
<1>24. /\ f[1] = c[1] /\ g[1] = s[1] + 1 /\ c[1] \in Nat /\ s[1] \in Nat
       /\ \A p \in 1 .. Len(q) : f[p] = c[p] /\ g[p] = s[p] + 1 /\ c[p] \in Nat /\ s[p] \in Nat
  BY <1>22, <1>23
<1>25. g[Len(r)] = 0
  <2>1. Len(r) \in 1 .. Len(r) /\ g[Len(r)] = g[Len(r) + 1] + (IF r[Len(r)] \in Swiping THEN 1 ELSE 0)
    BY <1>18, <1>19 DEF Counts
  <2>2. g[Len(r) + 1] = 0 /\ r[Len(r)] \notin Swiping
    BY <1>4, <1>18, <1>19 DEF Counts
  <2>3. QED
    BY <2>1, <2>2
<1>26. ASSUME NEW p \in 1 .. Len(r), NEW h \in Headers, r[p] = Enables(h)
       PROVE  Place(h) <= n + f[1] - f[p]
  <2>1. p \in 1 .. Len(q) /\ q[p] = Enables(h)
    BY <1>21, <1>26, HeaderTimers
  <2>2. Place(h) <= n + c[1] - c[p]
    BY <1>3, <2>1 DEF Follows, EnabledAfter
  <2>3. QED
    BY <1>24, <2>1, <2>2
<1>27. ASSUME NEW p \in 1 .. Len(r), NEW h \in Headers, r[p] = Waits(h)
       PROVE  Place(h) <= n + f[1] + g[1] - g[p]
  <2>0. Place(h) \in Int
    BY PlacesAre
  <2>1. CASE p \in 1 .. Len(q) /\ q[p] = Waits(h)
    <3>1. Place(h) <= n + c[1] + s[1] - s[p]
      BY <1>3, <2>1 DEF Follows, WaitsAfter
    <3>2. /\ f[1] = c[1] /\ g[1] = s[1] + 1 /\ g[p] = s[p] + 1
          /\ c[1] \in Nat /\ s[1] \in Nat /\ s[p] \in Nat
      BY <1>24, <2>1
    <3> DEFINE home == Place(h)
               c1 == c[1]
               s1 == s[1]
               sp == s[p]
    <3>3. home \in Int /\ home <= n + c1 + s1 - sp /\ c1 \in Nat /\ s1 \in Nat /\ sp \in Nat
      BY <2>0, <3>1, <3>2
    <3>4. f[1] = c1 /\ g[1] = s1 + 1 /\ g[p] = sp + 1
      BY <3>2
    <3> HIDE DEF home, c1, s1, sp
    <3>5. home <= n + c1 + (s1 + 1) - (sp + 1)
      BY <3>3
    <3>6. QED
      BY <3>4, <3>5 DEF home
  <2>2. CASE p = Len(r) /\ h = header
    <3>1. top <= c[1]
      BY <1>3 DEF Follows
    <3>2. g[p] = 0
      BY <1>25, <2>2
    <3>3. Place(h) <= n + top + 1
      BY <2>2
    <3>4. QED
      BY <1>24, <2>0, <3>1, <3>2, <3>3
  <2>3. QED
    BY <1>21, <1>27, <2>1, <2>2, HeaderTimers
<1>28. Follows(r, n, top, f, g)
  BY <1>3, <1>17, <1>18, <1>24, <1>26, <1>27 DEF Follows, EnabledAfter, WaitsAfter
<1>29. QED
  BY <1>19, <1>28 DEF InTurn

(* What is known of the queue behind a timer that fires.                    *)
BehindFirst(q, n, c, s, r, d, e) ==
  /\ Counts(d, r, Refilling) /\ Counts(e, r, Swiping)
  /\ d[1] \in Nat /\ c[1] = d[1] + (IF Head(q) \in Refilling THEN 1 ELSE 0)
  /\ e[1] \in Nat /\ s[1] = e[1] + (IF Head(q) \in Swiping THEN 1 ELSE 0)
  /\ \A p \in 1 .. Len(r), header \in Headers :
       /\ r[p] = Enables(header) => Place(header) <= n + c[1] - d[p]
       /\ r[p] = Waits(header) => Place(header) <= n + c[1] + s[1] - e[p]

LEMMA TurnPops ==
  ASSUME NEW q \in Seq(Timer), q # <<>>, NEW n \in Int, NEW top \in Int,
         NEW c, NEW s, Follows(q, n, top, c, s), NEW r, r = Tail(q)
  PROVE  /\ r \in Seq(Timer) /\ c[1] \in Nat /\ s[1] \in Nat /\ top <= c[1]
         /\ \A header \in Headers :
              /\ Head(q) = Enables(header) => Place(header) <= n
              /\ Head(q) = Waits(header) => Place(header) <= n + c[1]
         /\ \E d, e : BehindFirst(q, n, c, s, r, d, e)
<1>1. /\ r \in Seq(Timer) /\ Head(q) = q[1] /\ 1 \in 1 .. Len(q) /\ Len(r) + 1 = Len(q)
      /\ \A p \in 1 .. Len(r) : p + 1 \in 1 .. Len(q) /\ r[p] = q[p + 1]
  <2> HIDE DEF Timer
  <2>1. QED
    BY HeadAndTail
<1>2. /\ Counts(c, q, Refilling) /\ Counts(s, q, Swiping) /\ top <= c[1]
      /\ EnabledAfter(q, n, c) /\ WaitsAfter(q, n, c, s)
  BY DEF Follows
<1>3. PICK d : Counts(d, r, Refilling) /\ Moved(d, c, q)
  BY <1>2, CountsShrink
<1>4. PICK e : Counts(e, r, Swiping) /\ Moved(e, s, q)
  BY <1>2, CountsShrink
<1>5. Counts(d, r, Refilling) /\ \A p \in 1 .. Len(q) : d[p] = c[p + 1]
  BY <1>3 DEF Moved
<1>6. Counts(e, r, Swiping) /\ \A p \in 1 .. Len(q) : e[p] = s[p + 1]
  BY <1>4 DEF Moved
<1>7. /\ c[1] = c[2] + (IF Head(q) \in Refilling THEN 1 ELSE 0) /\ c[1] \in Nat /\ c[2] \in Nat
      /\ s[1] = s[2] + (IF Head(q) \in Swiping THEN 1 ELSE 0) /\ s[1] \in Nat /\ s[2] \in Nat
  BY <1>2, CountsShrink
<1>8. d[1] = c[2] /\ e[1] = s[2]
  <2>1. d[1] = c[1 + 1] /\ e[1] = s[1 + 1] /\ 1 + 1 = 2
    BY <1>1, <1>5, <1>6
  <2>2. QED
    BY <2>1
<1>9. ASSUME NEW header \in Headers
      PROVE  /\ Head(q) = Enables(header) => Place(header) <= n
             /\ Head(q) = Waits(header) => Place(header) <= n + c[1]
  <2>1. Head(q) = Enables(header) => Place(header) <= n + c[1] - c[1]
    BY <1>1, <1>2 DEF EnabledAfter
  <2>2. Head(q) = Waits(header) => Place(header) <= n + c[1] + s[1] - s[1]
    BY <1>1, <1>2 DEF WaitsAfter
  <2>3. n + c[1] - c[1] = n /\ n + c[1] + s[1] - s[1] = n + c[1]
    BY <1>7
  <2>4. QED
    BY <2>1, <2>2, <2>3
<1>10. ASSUME NEW p \in 1 .. Len(r), NEW header \in Headers
      PROVE  /\ r[p] = Enables(header) => Place(header) <= n + c[1] - d[p]
             /\ r[p] = Waits(header) => Place(header) <= n + c[1] + s[1] - e[p]
  <2>1. p + 1 \in 1 .. Len(q) /\ r[p] = q[p + 1] /\ p \in 1 .. Len(q)
    BY <1>1
  <2>2. d[p] = c[p + 1] /\ e[p] = s[p + 1]
    BY <1>5, <1>6, <2>1
  <2>3. /\ q[p + 1] = Enables(header) => Place(header) <= n + c[1] - c[p + 1]
        /\ q[p + 1] = Waits(header) => Place(header) <= n + c[1] + s[1] - s[p + 1]
    BY <1>2, <2>1 DEF EnabledAfter, WaitsAfter
  <2>4. QED
    BY <2>1, <2>2, <2>3
<1>11. BehindFirst(q, n, c, s, r, d, e)
  BY <1>5, <1>6, <1>7, <1>8, <1>10 DEF BehindFirst
<1>12. QED
  BY <1>1, <1>2, <1>7, <1>9, <1>11

(* A timer fires that is neither a swipe nor a refill.                      *)
LEMMA TurnQuiet ==
  ASSUME NEW q \in Seq(Timer), q # <<>>, NEW n \in Int, NEW top \in Int, InTurn(q, n, top),
         Head(q) \notin Swiping, Head(q) \notin Refilling
  PROVE  /\ Tail(q) \in Seq(Timer) /\ InTurn(Tail(q), n, top)
         /\ \A header \in Headers :
              /\ Head(q) = Enables(header) => Place(header) <= n
              /\ Head(q) = Waits(header) => InTurn(Append(Tail(q), Enables(header)), n, top)
<1> DEFINE r == Tail(q)
<1>1. PICK c, s : Follows(q, n, top, c, s)
  BY DEF InTurn
<1>2. /\ r \in Seq(Timer) /\ c[1] \in Nat /\ s[1] \in Nat /\ top <= c[1]
      /\ \A header \in Headers :
           /\ Head(q) = Enables(header) => Place(header) <= n
           /\ Head(q) = Waits(header) => Place(header) <= n + c[1]
  BY <1>1, TurnPops
<1>3. PICK d, e : BehindFirst(q, n, c, s, r, d, e)
  BY <1>1, TurnPops
<1>4. /\ Counts(d, r, Refilling) /\ Counts(e, r, Swiping)
      /\ d[1] \in Nat /\ c[1] = d[1] + (IF Head(q) \in Refilling THEN 1 ELSE 0)
      /\ e[1] \in Nat /\ s[1] = e[1] + (IF Head(q) \in Swiping THEN 1 ELSE 0)
      /\ \A p \in 1 .. Len(r), header \in Headers :
           /\ r[p] = Enables(header) => Place(header) <= n + c[1] - d[p]
           /\ r[p] = Waits(header) => Place(header) <= n + c[1] + s[1] - e[p]
  BY <1>3 DEF BehindFirst
<1>5. c[1] = d[1] /\ s[1] = e[1]
  BY <1>4
<1> HIDE DEF r
<1>6. Follows(r, n, top, d, e)
  BY <1>2, <1>4, <1>5 DEF Follows, EnabledAfter, WaitsAfter
<1>7. ASSUME NEW header \in Headers, Head(q) = Waits(header)
      PROVE  InTurn(Append(r, Enables(header)), n, top)
  <2>1. Harmless(Enables(header), n + d[1])
    BY <1>2, <1>5, <1>7, HeaderTimers DEF Harmless
  <2>2. Enables(header) \in Timer
    BY HeaderTimers
  <2>3. QED
    BY <1>2, <1>6, <2>1, <2>2, FollowGrows
<1>8. InTurn(r, n, top)
  BY <1>6 DEF InTurn
<1>9. QED
  BY <1>2, <1>7, <1>8 DEF r

(* A swipe, and the refill it sets at the end of the queue                  *)
LEMMA TurnSwipes ==
  ASSUME NEW q \in Seq(Timer), q # <<>>, NEW n \in Int, NEW top \in Int, InTurn(q, n, top),
         Head(q) \in Swiping, Head(q) \notin Refilling,
         NEW u, u = Append(Tail(q), <<"refill">>)
  PROVE  InTurn(u, n, top + 1)
<1> DEFINE r == Tail(q)
<1>1. PICK c, s : Follows(q, n, top, c, s)
  BY DEF InTurn
<1>2. r \in Seq(Timer) /\ c[1] \in Nat /\ s[1] \in Nat /\ top <= c[1]
  BY <1>1, TurnPops
<1>3. PICK d, e : BehindFirst(q, n, c, s, r, d, e)
  BY <1>1, TurnPops
<1>4. /\ Counts(d, r, Refilling) /\ Counts(e, r, Swiping)
      /\ d[1] \in Nat /\ c[1] = d[1] + (IF Head(q) \in Refilling THEN 1 ELSE 0)
      /\ e[1] \in Nat /\ s[1] = e[1] + (IF Head(q) \in Swiping THEN 1 ELSE 0)
      /\ \A p \in 1 .. Len(r), header \in Headers :
           /\ r[p] = Enables(header) => Place(header) <= n + c[1] - d[p]
           /\ r[p] = Waits(header) => Place(header) <= n + c[1] + s[1] - e[p]
  BY <1>3 DEF BehindFirst
<1>5. c[1] = d[1] /\ s[1] = e[1] + 1
  BY <1>4
<1> HIDE DEF r
<1>6. <<"refill">> \in Timer /\ <<"refill">> \in Refilling /\ <<"refill">> \notin Swiping
  BY TimersAre DEF Refilling, Swiping
<1>7. u = Append(r, <<"refill">>)
  BY DEF r
<1>8. IsOne(1, <<"refill">>, Refilling) /\ IsOne(0, <<"refill">>, Swiping)
  BY <1>6 DEF IsOne
<1>9. PICK f : Counts(f, u, Refilling) /\ Raised(f, d, r, 1)
  BY <1>2, <1>4, <1>6, <1>7, <1>8, CountsGrow
<1>10. PICK g : Counts(g, u, Swiping) /\ Raised(g, e, r, 0)
  BY <1>2, <1>4, <1>6, <1>7, <1>8, CountsGrow
<1>11. Counts(f, u, Refilling) /\ \A p \in 1 .. Len(r) + 1 : f[p] = d[p] + 1
  BY <1>9 DEF Raised
<1>12. Counts(g, u, Swiping) /\ \A p \in 1 .. Len(r) + 1 : g[p] = e[p] + 0
  BY <1>10 DEF Raised
<1>13. /\ u \in Seq(Timer) /\ Len(r) \in Nat /\ 1 \in 1 .. Len(r) + 1
      /\ \A p \in 1 .. Len(u) : \/ p \in 1 .. Len(r) /\ p \in 1 .. Len(r) + 1 /\ u[p] = r[p]
                              \/ u[p] = <<"refill">>
  <2>1. /\ u \in Seq(Timer) /\ Len(r) \in Nat /\ Len(u) = Len(r) + 1 /\ u[Len(r) + 1] = <<"refill">>
        /\ \A p \in 1 .. Len(r) : u[p] = r[p]
    <3> DEFINE t == <<"refill">>
    <3>1. r \in Seq(Timer) /\ t \in Timer /\ u = Append(r, t)
      BY <1>2, <1>6, <1>7
    <3> HIDE DEF t
    <3>2. /\ Append(r, t) \in Seq(Timer) /\ Len(r) \in Nat /\ Len(Append(r, t)) = Len(r) + 1
          /\ Append(r, t)[Len(r) + 1] = t
          /\ \A p \in 1 .. Len(r) : Append(r, t)[p] = r[p]
      BY <3>1, OneMoreTimer
    <3>3. QED
      BY <3>1, <3>2, Zenon DEF t
  <2>2. 1 \in 1 .. Len(r) + 1
    BY <2>1
  <2>3. \A p \in 1 .. Len(u) : (p \in 1 .. Len(r) /\ p \in 1 .. Len(r) + 1) \/ p = Len(r) + 1
    BY <2>1
  <2>4. QED
    BY <2>1, <2>2, <2>3
<1>14. \A p \in 1 .. Len(r) + 1 : d[p] \in Nat /\ e[p] \in Nat
  BY <1>4 DEF Counts
<1>15. ASSUME NEW p \in 1 .. Len(u), NEW header \in Headers
       PROVE  /\ u[p] = Enables(header) => Place(header) <= n + f[1] - f[p]
              /\ u[p] = Waits(header) => Place(header) <= n + f[1] + g[1] - g[p]
  <2>1. CASE u[p] = <<"refill">>
    BY <2>1, HeaderTimers
  <2>2. CASE p \in 1 .. Len(r) /\ p \in 1 .. Len(r) + 1 /\ u[p] = r[p]
    <3>1. /\ u[p] = Enables(header) => Place(header) <= n + c[1] - d[p]
          /\ u[p] = Waits(header) => Place(header) <= n + c[1] + s[1] - e[p]
      BY <1>4, <2>2
    <3>2. /\ n + f[1] - f[p] = n + c[1] - d[p]
          /\ n + f[1] + g[1] - g[p] = n + c[1] + s[1] - e[p]
      <4>1. /\ f[1] = d[1] + 1 /\ f[p] = d[p] + 1 /\ g[1] = e[1] + 0 /\ g[p] = e[p] + 0
        BY <1>11, <1>12, <1>13, <2>2
      <4>2. d[1] \in Nat /\ d[p] \in Nat /\ e[1] \in Nat /\ e[p] \in Nat
        BY <1>13, <1>14, <2>2
      <4> DEFINE d1 == d[1]
                 dp == d[p]
                 e1 == e[1]
                 ep == e[p]
      <4>3. /\ f[1] = d1 + 1 /\ f[p] = dp + 1 /\ g[1] = e1 /\ g[p] = ep /\ c[1] = d1 /\ s[1] = e1 + 1
            /\ d1 \in Nat /\ dp \in Nat /\ e1 \in Nat /\ ep \in Nat
        BY <1>5, <4>1, <4>2
      <4> HIDE DEF d1, dp, e1, ep
      <4>4. /\ n + (d1 + 1) - (dp + 1) = n + d1 - dp
            /\ n + (d1 + 1) + e1 - ep = n + d1 + (e1 + 1) - ep
        BY <4>3
      <4>5. QED
        BY <4>3, <4>4 DEF dp, ep
    <3>3. QED
      BY <3>1, <3>2
  <2>3. QED
    BY <1>13, <2>1, <2>2
<1>16. top + 1 <= f[1]
  BY <1>2, <1>5, <1>11, <1>13, <1>14
<1>17. Follows(u, n, top + 1, f, g)
  BY <1>11, <1>12, <1>15, <1>16 DEF Follows, EnabledAfter, WaitsAfter
<1>18. QED
  BY <1>17 DEF InTurn

(* A refill, which takes a card away                                        *)
LEMMA TurnRefills ==
  ASSUME NEW q \in Seq(Timer), q # <<>>, NEW n \in Int, NEW top \in Int, InTurn(q, n, top),
         Head(q) \in Refilling, Head(q) \notin Swiping
  PROVE  InTurn(Tail(q), n + 1, 0)
<1> DEFINE r == Tail(q)
<1>1. PICK c, s : Follows(q, n, top, c, s)
  BY DEF InTurn
<1>2. r \in Seq(Timer) /\ c[1] \in Nat /\ s[1] \in Nat
  BY <1>1, TurnPops
<1>3. PICK d, e : BehindFirst(q, n, c, s, r, d, e)
  BY <1>1, TurnPops
<1>4. /\ Counts(d, r, Refilling) /\ Counts(e, r, Swiping)
      /\ d[1] \in Nat /\ c[1] = d[1] + (IF Head(q) \in Refilling THEN 1 ELSE 0)
      /\ e[1] \in Nat /\ s[1] = e[1] + (IF Head(q) \in Swiping THEN 1 ELSE 0)
      /\ \A p \in 1 .. Len(r), header \in Headers :
           /\ r[p] = Enables(header) => Place(header) <= n + c[1] - d[p]
           /\ r[p] = Waits(header) => Place(header) <= n + c[1] + s[1] - e[p]
  BY <1>3 DEF BehindFirst
<1>5. c[1] = d[1] + 1 /\ s[1] = e[1]
  BY <1>4
<1> HIDE DEF r
<1>6. ASSUME NEW p \in 1 .. Len(r), NEW header \in Headers
      PROVE  /\ r[p] = Enables(header) => Place(header) <= n + 1 + d[1] - d[p]
             /\ r[p] = Waits(header) => Place(header) <= n + 1 + d[1] + e[1] - e[p]
  <2>1. /\ r[p] = Enables(header) => Place(header) <= n + c[1] - d[p]
        /\ r[p] = Waits(header) => Place(header) <= n + c[1] + s[1] - e[p]
    BY <1>4
  <2>2. d[p] \in Nat /\ e[p] \in Nat /\ d[1] \in Nat /\ e[1] \in Nat
    <3>1. Len(r) \in Nat /\ p \in 1 .. Len(r) + 1
      BY <1>2
    <3>2. QED
      BY <1>4, <3>1 DEF Counts
  <2> DEFINE d1 == d[1]
             dp == d[p]
             e1 == e[1]
             ep == e[p]
  <2>3. /\ c[1] = d1 + 1 /\ s[1] = e1 /\ d[p] = dp /\ e[p] = ep
        /\ d1 \in Nat /\ dp \in Nat /\ e1 \in Nat /\ ep \in Nat
    BY <1>5, <2>2
  <2> HIDE DEF d1, dp, e1, ep
  <2>4. /\ n + (d1 + 1) - dp = n + 1 + d1 - dp
        /\ n + (d1 + 1) + e1 - ep = n + 1 + d1 + e1 - ep
    BY <2>3
  <2>5. /\ n + c[1] - d[p] = n + 1 + d1 - dp
        /\ n + c[1] + s[1] - e[p] = n + 1 + d1 + e1 - ep
    BY <2>3, <2>4
  <2>6. QED
    BY <2>1, <2>5 DEF d1, dp, e1, ep
<1>7. EnabledAfter(r, n + 1, d) /\ WaitsAfter(r, n + 1, d, e)
  BY <1>6 DEF EnabledAfter, WaitsAfter
<1>8. Follows(r, n + 1, 0, d, e)
  BY <1>4, <1>7 DEF Follows
<1>9. QED
  BY <1>8 DEF InTurn, r

LEMMA TurnEmpty == ASSUME NEW n \in Int PROVE InTurn(<<>>, n, 0)
<1> DEFINE none == [p \in 1 .. 1 |-> 0]
<1>1. Len(<<>>) = 0 /\ none[1] = 0 /\ none \in [1 .. 1 -> Nat] /\ 0 + 1 = 1
  OBVIOUS
<1> HIDE DEF none
<1>2. Counts(none, <<>>, Refilling) /\ Counts(none, <<>>, Swiping)
  BY <1>1 DEF Counts
<1>3. Follows(<<>>, n, 0, none, none)
  BY <1>1, <1>2 DEF Follows, EnabledAfter, WaitsAfter
<1>4. QED
  BY <1>3 DEF InTurn

-----------------------------------------------------------------------------
(* Timers that buttons and the automatic selection set are of no button.    *)
Turned(q) == q \in Seq(Timer) /\ InTurn(q, Passed, pos)
Places == Passed \in Int /\ pos \in Int

LEMMA OthersAre ==
  /\ \A kind \in {"right", "left", "top", "enableLeft", "enableRight", "auto"} : Other(<<kind>>)
  /\ \A header : Other(<<"wait", <<header, "auto">>>>) /\ Other(<<"enable", <<header, "auto">>>>)
BY HeaderTimers DEF Other

LEMMA TurnedGrows ==
  ASSUME Places, NEW q, Turned(q), NEW t \in Timer, Other(t)
  PROVE  Turned(Append(q, t)) /\ q \o <<t>> = Append(q, t)
<1>1. q \in Seq(Timer) /\ InTurn(q, Passed, pos)
  BY DEF Turned
<1>2. q \o <<t>> = Append(q, t)
  BY <1>1
<1>3. QED
  BY <1>1, <1>2, TurnGrows DEF Turned, Places

LEMMA TurnedTop ==
  ASSUME Places, NEW q, Turned(q)
  PROVE  Turned(q \o TopTimers)
<1>1. q \o <<>> = q
  BY DEF Turned
<1>2. <<"top">> \in Timer /\ Other(<<"top">>)
  BY TimersAre, OthersAre
<1>3. Turned(Append(q, <<"top">>)) /\ q \o <<<<"top">>>> = Append(q, <<"top">>)
  BY <1>2, TurnedGrows
<1>4. QED
  BY <1>1, <1>3 DEF TopTimers

LEMMA TurnedSide ==
  ASSUME Places, NEW q, Turned(q),
         NEW side \in {"left", "right"}, NEW enable \in {"enableLeft", "enableRight"}
  PROVE  Turned(q \o SideTimers(side, enable))
<1>1. q \o <<>> = q /\ q \in Seq(Timer)
  BY DEF Turned
<1>2. <<side>> \in Timer /\ <<enable>> \in Timer /\ Other(<<side>>) /\ Other(<<enable>>)
  BY TimersAre, OthersAre
<1>3. Turned(Append(q, <<enable>>)) /\ q \o <<<<enable>>>> = Append(q, <<enable>>)
  BY <1>2, TurnedGrows
<1>4. Turned(Append(Append(q, <<side>>), <<enable>>))
  <2>1. Turned(Append(q, <<side>>))
    BY <1>2, TurnedGrows
  <2>2. QED
    BY <1>2, <2>1, TurnedGrows
<1>5. /\ q \o Append(<<<<side>>>>, <<enable>>) = Append(Append(q, <<side>>), <<enable>>)
      /\ Append(<<>>, <<enable>>) = <<<<enable>>>>
  BY <1>1, <1>2
<1>6. SideTimers(side, enable) \in {<<>>, Append(<<<<side>>>>, <<enable>>), <<<<enable>>>>}
  BY <1>5 DEF SideTimers, Side
<1>7. QED
  <2>1. CASE SideTimers(side, enable) = <<>>
    BY <1>1, <2>1
  <2>2. CASE SideTimers(side, enable) = Append(<<<<side>>>>, <<enable>>)
    BY <1>4, <1>5, <2>2
  <2>3. CASE SideTimers(side, enable) = <<<<enable>>>>
    BY <1>3, <2>3
  <2>4. QED
    BY <1>6, <2>1, <2>2, <2>3

LEMMA TurnedAuto ==
  ASSUME Places, NEW q, Turned(q), AutomaticallySelectNext(q)
  PROVE  Turned(timers')
<1>1. <<"auto">> \in Timer /\ Other(<<"auto">>)
  BY TimersAre, OthersAre
<1>2. Turned(Append(q \o TopTimers, <<"auto">>))
  BY <1>1, TurnedTop, TurnedGrows
<1>3. Turned(Append(q \o SideTimers("right", "enableRight"), <<"auto">>))
  <2>1. Turned(q \o SideTimers("right", "enableRight"))
    BY TurnedSide
  <2>2. QED
    BY <1>1, <2>1, TurnedGrows
<1>4. \/ timers' = q
      \/ timers' = Append(q \o TopTimers, <<"auto">>)
      \/ timers' = Append(q \o SideTimers("right", "enableRight"), <<"auto">>)
  BY DEF AutomaticallySelectNext
<1>5. QED
  BY <1>2, <1>3, <1>4

-----------------------------------------------------------------------------
(* The modules whose reward cannot be had any more in this showing: their   *)
(* button is disabled, or their card was taken away.                        *)
Spent(header) == <<header, "manual">> \in pressed \/ Place(header) <= Passed
SpentModules == {header \in Headers : Spent(header)}

(* On the first showing each reward spent a module, or another header's     *)
(* button was disabled or enabled in its place.                             *)
Afforded ==
  bonuses \in Nat /\ strays \in Nat /\ bonuses <= Cardinality(SpentModules) + strays

BonusInv ==
  mounts = 1 =>
    /\ elements = Len(shown) /\ Len(shown) <= Stack
    /\ Afforded
    /\ page = "filter-articles" /\ left # <<>> => InTurn(timers, Passed, pos)

LEMMA ModulesFinite ==
  /\ IsFiniteSet(Headers)
  /\ \A S \in SUBSET Headers : IsFiniteSet(S) /\ Cardinality(S) \in Nat /\ Cardinality(S) <= Cardinality(Headers)
<1>1. IsFiniteSet(1 .. Len(Items))
  BY ItemsAre, FS_Interval
<1>2. Items \in Surjection(1 .. Len(Items), Item)
  <2>1. Items \in Seq(Item) /\ DOMAIN Items = 1 .. Len(Items)
    BY ItemsAre
  <2>2. Items \in [1 .. Len(Items) -> Item]
    BY <2>1
  <2>3. \A x \in Item : \E i \in 1 .. Len(Items) : Items[i] = x
    BY <2>1 DEF Item, ToSet
  <2>4. QED
    BY <2>2, <2>3 DEF Surjection
<1>3. IsFiniteSet(Item) /\ Headers \subseteq Item
  BY <1>1, <1>2, ItemsAre, FS_Surjection
<1>4. IsFiniteSet(Headers)
  BY <1>2, <1>3, FS_Subset
<1>5. QED
  BY <1>4, FS_Subset, FS_CardinalityType

(* When no card is left to add, every module's card has been on top.        *)
LEMMA AllPassed ==
  ASSUME LastModuleIsLong, Types, BonusInv, mounts = 1, left = <<>>, NEW header \in Headers
  PROVE  Place(header) <= Passed
<1>1. Passed = Len(Items) - Len(shown) /\ Len(shown) \in Nat /\ Len(Items) \in Nat /\ Stack \in Nat
  BY ItemsAre DEF Passed, Types
<1>2. Place(header) \in 1 .. Len(Items) /\ Items[Place(header)] = header
  BY PlacesAre
<1>3. ~(Place(header) + Stack > Len(Items))
  BY <1>2 DEF LastModuleIsLong
<1>4. Len(shown) <= Stack
  BY DEF BonusInv
<1>5. QED
  BY <1>1, <1>2, <1>3, <1>4

(* A step that earns nothing and moves no card                              *)
NothingMoves == UNCHANGED <<mounts, bonuses, shown, left, elements>>
StaysSpent == \A header \in Headers : Spent(header) => Spent(header)'

LEMMA SpentGrows ==
  ASSUME StaysSpent
  PROVE  Cardinality(SpentModules) \in Nat /\ Cardinality(SpentModules') \in Nat
         /\ Cardinality(SpentModules) <= Cardinality(SpentModules')
<1>1. SpentModules' = {header \in Headers : Spent(header)'}
  BY DEF SpentModules
<1>2. SpentModules \subseteq SpentModules' /\ SpentModules' \subseteq Headers
  BY <1>1 DEF SpentModules, StaysSpent
<1>3. IsFiniteSet(SpentModules')
  BY <1>2, ModulesFinite
<1>4. QED
  BY <1>2, <1>3, FS_Subset, FS_CardinalityType

LEMMA StaysAfforded ==
  ASSUME Afforded, StaysSpent, UNCHANGED bonuses, strays' \in {strays, strays + 1}
  PROVE  Afforded'
<1>1. bonuses \in Nat /\ strays \in Nat /\ bonuses <= Cardinality(SpentModules) + strays
  BY DEF Afforded
<1>2. bonuses' = bonuses /\ strays' \in Nat /\ strays <= strays'
  BY <1>1
<1>3. QED
  BY <1>1, <1>2, SpentGrows DEF Afforded

LEMMA OneMore ==
  ASSUME NEW S, NEW x, IsFiniteSet(S)
  PROVE  /\ IsFiniteSet(S \union {x}) /\ Cardinality(S) \in Nat /\ Cardinality(S \union {x}) \in Nat
         /\ Cardinality(S \union {x}) <= Cardinality(S) + 1
<1>1. Cardinality(S) \in Nat
  BY FS_CardinalityType
<1>2. /\ IsFiniteSet(S \union {x})
      /\ Cardinality(S \union {x}) = IF x \in S THEN Cardinality(S) ELSE Cardinality(S) + 1
  BY FS_AddElement
<1>3. QED
  BY <1>1, <1>2

(* One button was enabled in place of another.                              *)
LEMMA OneForgiven ==
  ASSUME Afforded, UNCHANGED bonuses, strays' = strays + 1, NEW lucky \in Headers,
         \A header \in Headers \ {lucky} : Spent(header) => Spent(header)'
  PROVE  Afforded'
<1>1. SpentModules' = {header \in Headers : Spent(header)'}
  BY DEF SpentModules
<1>2. SpentModules \subseteq SpentModules' \union {lucky}
  BY <1>1 DEF SpentModules
<1>3. IsFiniteSet(SpentModules') /\ Cardinality(SpentModules') \in Nat
  BY <1>1, ModulesFinite
<1>4. /\ IsFiniteSet(SpentModules' \union {lucky})
      /\ Cardinality(SpentModules' \union {lucky}) \in Nat
      /\ Cardinality(SpentModules' \union {lucky}) <= Cardinality(SpentModules') + 1
  BY <1>3, OneMore
<1>5. Cardinality(SpentModules) \in Nat
      /\ Cardinality(SpentModules) <= Cardinality(SpentModules' \union {lucky})
  BY <1>2, <1>4, FS_Subset, FS_CardinalityType
<1>6. QED
  BY <1>3, <1>4, <1>5 DEF Afforded

LEMMA NothingMovesKeeps ==
  ASSUME Types, BonusInv, mounts = 1, NothingMoves, Afforded',
         page' = "filter-articles" /\ left # <<>> => InTurn(timers', Passed, pos')
  PROVE  BonusInv'
<1>1. Passed' = Passed
  BY DEF Passed, NothingMoves
<1>2. elements' = Len(shown') /\ Len(shown') <= Stack
  BY DEF BonusInv, NothingMoves
<1>3. page' = "filter-articles" /\ left' # <<>> => InTurn(timers', Passed', pos')
  BY <1>1 DEF NothingMoves
<1>4. QED
  BY <1>2, <1>3 DEF BonusInv

(* At most one button is looked up.                                         *)
LEMMA FoundOne ==
  ASSUME Types, NEW kind
  PROVE  /\ \A button \in Found(kind) : button[2] = kind
         /\ Found(kind) = {} \/ \E header \in Headers : Found(kind) = {<<header, kind>>}
<1>1. ASSUME NEW f \in Headers, NEW g \in Headers, Foremost(f), Foremost(g) PROVE f = g
  <2>1. PICK i \in 1 .. Len(shown) : shown[i] = f /\ \A j \in 1 .. i - 1 : shown[j] \notin Headers
    BY <1>1 DEF Foremost
  <2>2. PICK k \in 1 .. Len(shown) : shown[k] = g /\ \A j \in 1 .. k - 1 : shown[j] \notin Headers
    BY <1>1 DEF Foremost
  <2>3. ~(i < k) /\ ~(k < i)
    BY <2>1, <2>2
  <2>4. i = k
    BY <2>3
  <2>5. QED
    BY <2>1, <2>2, <2>4
<1>2. QED
  BY <1>1 DEF Found

(* The actions, on the first showing.                                       *)
LEMMA ManualKeeps ==
  ASSUME Inv, LastModuleIsLong, BonusInv, mounts = 1, NEW header \in Headers, StartManualSelection(header)
  PROVE  BonusInv'
<1> DEFINE queue == timers \o TopTimers
<1>1. /\ page = "filter-articles" /\ HasTop /\ Top = header /\ <<header, "manual">> \notin pressed
      /\ pressed' = pressed \union Found("manual") /\ bonuses' = bonuses + 1
      /\ strays' = IF <<header, "manual">> \in Found("manual") THEN strays ELSE strays + 1
      /\ timers' = Append(queue, <<"wait", <<header, "manual">>>>)
      /\ UNCHANGED <<page, mounts, shown, left, pos, elements>>
  BY DEF StartManualSelection, Press, Pressable, cards
<1> HIDE DEF queue
<1>2. /\ Types /\ pos \in Nat /\ Len(shown) \in Nat /\ timers \in Seq(Timer)
      /\ Passed \in Nat /\ Passed' = Passed
      /\ \A i \in 1 .. Len(shown) : shown[i] = Items[Passed + i]
  <2>1. Passed' = Passed
    BY <1>1 DEF Passed
  <2>2. QED
    BY <2>1 DEF Inv, StackInvs, Types, StackInv
<1>3. /\ elements = Len(shown) /\ Len(shown) <= Stack
      /\ bonuses \in Nat /\ strays \in Nat /\ bonuses <= Cardinality(SpentModules) + strays
      /\ left # <<>> => InTurn(timers, Passed, pos)
  BY <1>1 DEF BonusInv, Afforded
<1>4. pos + 1 \in 1 .. Len(shown) /\ Passed + (pos + 1) = Passed + pos + 1
  BY <1>1, <1>2 DEF HasTop
<1>5. Items[Passed + pos + 1] = header
  BY <1>1, <1>2, <1>4 DEF Top
<1>6. Place(header) = Passed + pos + 1
  <2>1. Len(shown) + Len(left) + Passed = Len(Items) /\ Len(left) \in Nat /\ Len(Items) \in Nat
    BY <1>2, ItemsAre DEF Types, Passed
  <2>2. Passed + pos + 1 \in 1 .. Len(Items)
    BY <1>2, <1>4, <2>1
  <2>3. QED
    BY <1>5, <2>2, PlacesAre
<1>7. ~Spent(header)
  BY <1>1, <1>2, <1>6 DEF Spent
<1>8. ASSUME <<header, "manual">> \in Found("manual") PROVE Afforded'
  <2>1. Found("manual") = {<<header, "manual">>}
    BY <1>2, <1>8, FoundOne
  <2>2. \A h \in Headers : Spent(h)' <=> Spent(h) \/ h = header
    BY <1>1, <1>2, <2>1 DEF Spent
  <2>3. SpentModules' = {h \in Headers : Spent(h)'}
    BY DEF SpentModules
  <2>4. SpentModules' = SpentModules \union {header}
    BY <2>2, <2>3 DEF SpentModules
  <2>5. header \notin SpentModules /\ IsFiniteSet(SpentModules) /\ Cardinality(SpentModules) \in Nat
    BY <1>7, ModulesFinite DEF SpentModules
  <2>6. Cardinality(SpentModules') = Cardinality(SpentModules) + 1
    BY <2>4, <2>5, FS_AddElement
  <2>7. strays' = strays
    BY <1>1, <1>8
  <2>8. QED
    <3>1. bonuses' = bonuses + 1 /\ bonuses' \in Nat /\ strays' \in Nat
      BY <1>1, <1>3, <2>7
    <3>2. bonuses' <= Cardinality(SpentModules') + strays'
      BY <1>3, <2>5, <2>6, <2>7, <3>1
    <3>3. QED
      BY <3>1, <3>2 DEF Afforded
<1>9. ASSUME <<header, "manual">> \notin Found("manual") PROVE Afforded'
  <2>1. StaysSpent
    BY <1>1, <1>2 DEF StaysSpent, Spent
  <2>2. strays' = strays + 1
    BY <1>1, <1>9
  <2>3. QED
    <3>1. bonuses' = bonuses + 1 /\ bonuses' \in Nat /\ strays' \in Nat
      BY <1>1, <1>3, <2>2
    <3>2. /\ Cardinality(SpentModules) \in Nat /\ Cardinality(SpentModules') \in Nat
          /\ Cardinality(SpentModules) <= Cardinality(SpentModules')
      BY <2>1, SpentGrows
    <3>3. bonuses' <= Cardinality(SpentModules') + strays'
      BY <1>3, <2>2, <3>1, <3>2
    <3>4. QED
      BY <3>1, <3>3 DEF Afforded
<1>10. left' # <<>> => InTurn(timers', Passed', pos')
  <2> SUFFICES ASSUME left # <<>> PROVE InTurn(timers', Passed, pos)
    BY <1>1, <1>2
  <2>1. queue = Append(timers, <<"top">>)
    <3>1. TopTimers = <<<<"top">>>>
      BY <1>1, <1>3 DEF TopTimers, HasTop
    <3>2. <<"top">> \in Timer
      BY TimersAre
    <3>3. QED
      BY <1>2, <3>1, <3>2 DEF queue
  <2>2. timers' = Append(Append(timers, <<"top">>), Waits(header))
    BY <1>1, <2>1 DEF Waits
  <2>3. InTurn(timers, Passed, pos) /\ Passed \in Int /\ pos \in Int
    BY <1>2, <1>3
  <2>4. Place(header) <= Passed + pos + 1
    BY <1>2, <1>6
  <2>5. QED
    BY <1>2, <2>2, <2>3, <2>4, TurnPressed
<1>11. elements' = Len(shown') /\ Len(shown') <= Stack
  BY <1>1, <1>3
<1>12. QED
  BY <1>8, <1>9, <1>10, <1>11 DEF BonusInv

LEMMA RefillBonus ==
  ASSUME Inv, LastModuleIsLong, BonusInv, mounts = 1, Refill
  PROVE  BonusInv'
<1>1. /\ timers # <<>> /\ Head(timers) = <<"refill">> /\ timers' = Tail(timers)
      /\ UNCHANGED <<page, mounts, bonuses, strays>>
  BY DEF Refill, Fires, pay
<1>2. Types /\ timers \in Seq(Timer) /\ Passed \in Int /\ pos \in Int /\ page = "filter-articles"
  BY <1>1, ItemsAre DEF Inv, StackInvs, Types, QueueInv, Passed
<1>3. CASE left = <<>>
  <2>1. NothingMoves
    BY <1>1, <1>3 DEF Refill, NothingMoves
  <2>2. StaysSpent
    BY <1>1, <1>3, <2>1 DEF Refill, NothingMoves, StaysSpent, Spent, Passed
  <2>3. Afforded'
    BY <1>1, <2>2, StaysAfforded DEF BonusInv
  <2>4. QED
    BY <1>2, <1>3, <2>1, <2>3, NothingMovesKeeps
<1>4. CASE left # <<>>
  <2>1. /\ shown' = Shifted /\ left' = Tail(left) /\ pos' = 0 /\ elements' = Len(Shifted)
        /\ pressed' = {button \in pressed : button[1] # Head(shown)}
    BY <1>4 DEF Refill
  <2>2. /\ Len(shown') = Len(shown) /\ Len(shown) \in Nat
        /\ Len(left) \in Nat /\ Len(left') = Len(left) - 1
    <3>1. shown # <<>> /\ shown \in Seq(Item) /\ left \in Seq(Item)
      BY <1>2, <1>4 DEF Inv, StackInvs, StackInv, Types
    <3>2. QED
      BY <1>4, <2>1, <3>1, ShiftedIs
  <2>3. Passed' = Passed + 1
    BY <2>2, ItemsAre DEF Passed
  <2>4. elements' = Len(shown') /\ Len(shown') <= Stack
    BY <2>1, <2>2 DEF BonusInv
  <2>5. StaysSpent
    <3> SUFFICES ASSUME NEW header \in Headers, Spent(header) PROVE Spent(header)'
      BY DEF StaysSpent
    <3>1. Place(header) \in Int
      BY PlacesAre
    <3>2. CASE header = Head(shown)
      <4>1. shown \in Seq(Item) /\ shown # <<>> /\ shown[1] = Items[Passed + 1] /\ Passed \in Nat
        BY <1>2, <1>4 DEF Inv, StackInvs, StackInv, Types
      <4>2. Head(shown) = shown[1] /\ Passed + 1 \in 1 .. Len(Items)
        BY <2>2, <4>1, ItemsAre DEF Passed
      <4>3. Place(header) = Passed + 1
        BY <3>2, <4>1, <4>2, PlacesAre
      <4>4. QED
        BY <2>3, <4>1, <4>3 DEF Spent
    <3>3. CASE header # Head(shown)
      BY <1>2, <2>1, <2>3, <3>1, <3>3 DEF Spent
    <3>4. QED
      BY <3>2, <3>3
  <2>6. Afforded'
    BY <1>1, <2>5, StaysAfforded DEF BonusInv
  <2>7. InTurn(timers', Passed', pos')
    <3>1. InTurn(timers, Passed, pos)
      BY <1>2, <1>4 DEF BonusInv
    <3>2. Head(timers) \in Refilling /\ Head(timers) \notin Swiping
      BY <1>1 DEF Refilling, Swiping
    <3>3. InTurn(Tail(timers), Passed + 1, 0)
      BY <1>1, <1>2, <3>1, <3>2, TurnRefills
    <3>4. QED
      BY <1>1, <2>1, <2>3, <3>3
  <2>8. QED
    BY <2>4, <2>6, <2>7 DEF BonusInv
<1>5. QED
  BY <1>3, <1>4

(* A swipe, by a gesture or by a timer; the last one leaves the page.       *)
LEMMA AdvanceBonus ==
  ASSUME Inv, BonusInv, mounts = 1, page = "filter-articles",
         NEW queue, Advance(queue),
         queue = timers \/ (timers # <<>> /\ Head(timers) \in Swiping /\ queue = Tail(timers))
  PROVE  BonusInv'
<1>1. /\ pos' = pos + 1 /\ NothingMoves /\ UNCHANGED <<pressed, strays>>
      /\ page' = "elsewhere" \/ timers' = Append(queue, <<"refill">>)
  BY DEF Advance, Gone, NothingMoves, pay
<1>2. Types /\ timers \in Seq(Timer) /\ Passed \in Int /\ pos \in Int
  BY ItemsAre DEF Inv, StackInvs, Types, Passed
<1>3. Afforded'
  <2>1. StaysSpent
    BY <1>1 DEF NothingMoves, StaysSpent, Spent, Passed
  <2>2. QED
    BY <1>1, <2>1, StaysAfforded DEF BonusInv, NothingMoves
<1>4. ASSUME page' = "filter-articles", left # <<>>
      PROVE  InTurn(timers', Passed, pos')
  <2>1. timers' = Append(queue, <<"refill">>) /\ InTurn(timers, Passed, pos)
    BY <1>1, <1>4 DEF BonusInv
  <2>2. CASE queue = timers
    <3>1. <<"refill">> \in Timer /\ Other(<<"refill">>)
      BY TimersAre, HeaderTimers DEF Other
    <3>2. InTurn(Append(timers, <<"refill">>), Passed, pos + 1)
      BY <1>2, <2>1, <3>1, TurnGrows
    <3>3. QED
      BY <1>1, <2>1, <2>2, <3>2
  <2>3. CASE timers # <<>> /\ Head(timers) \in Swiping /\ queue = Tail(timers)
    <3>1. Head(timers) \notin Refilling
      BY <2>3 DEF Swiping, Refilling
    <3>2. InTurn(timers', Passed, pos + 1)
      BY <1>2, <2>1, <2>3, <3>1, TurnSwipes
    <3>3. QED
      BY <1>1, <3>2
  <2>4. QED
    BY <2>2, <2>3
<1>5. QED
  BY <1>1, <1>2, <1>3, <1>4, NothingMovesKeeps

(* The timers of a button                                                   *)
LEMMA ButtonBonus ==
  ASSUME Inv, LastModuleIsLong, BonusInv, mounts = 1, NEW button \in Button, ButtonTimer(button)
  PROVE  BonusInv'
<1>1. /\ timers # <<>>
      /\ UNCHANGED <<page, mounts, bonuses, shown, left, pos, elements>>
      /\ \/ /\ Head(timers) = <<"wait", button>> /\ timers' = Append(Tail(timers), <<"enable", button>>)
            /\ UNCHANGED <<pressed, strays>>
         \/ /\ Head(timers) = <<"enable", button>> /\ timers' = Tail(timers)
            /\ pressed' = pressed \ Found(button[2])
            /\ strays' = IF (pressed \intersect Found(button[2])) \ {button} = {} THEN strays ELSE strays + 1
  BY DEF ButtonTimer, Fires, app, cards
<1>2. /\ Types /\ timers \in Seq(Timer) /\ Passed \in Int /\ pos \in Int
      /\ page = "filter-articles" /\ Passed' = Passed
  <2>1. Passed' = Passed
    BY <1>1 DEF Passed
  <2>2. QED
    BY <1>1, <2>1, ItemsAre DEF Inv, StackInvs, Types, QueueInv, Passed
<1>3. NothingMoves
  BY <1>1 DEF NothingMoves
<1>4. PICK header \in Headers, way \in {"manual", "auto"} : button = <<header, way>>
  BY DEF Button
<1>5. Head(timers) \notin Swiping /\ Head(timers) \notin Refilling
  <2>1. \A kind : <<kind>> # <<"wait", button>> /\ <<kind>> # <<"enable", button>>
    <3> SUFFICES ASSUME NEW kind PROVE <<kind>> # <<"wait", button>> /\ <<kind>> # <<"enable", button>>
      OBVIOUS
    <3>1. Len(<<kind>>) = 1 /\ Len(<<"wait", button>>) = 2 /\ Len(<<"enable", button>>) = 2
      OBVIOUS
    <3>2. QED
      BY <3>1
  <2>2. QED
    BY <1>1, <2>1 DEF Swiping, Refilling
<1>6. ASSUME left # <<>>
      PROVE  /\ Tail(timers) \in Seq(Timer) /\ InTurn(Tail(timers), Passed, pos)
             /\ \A h \in Headers :
                  /\ Head(timers) = Enables(h) => Place(h) <= Passed
                  /\ Head(timers) = Waits(h) => InTurn(Append(Tail(timers), Enables(h)), Passed, pos)
  <2>1. InTurn(timers, Passed, pos)
    BY <1>2, <1>6 DEF BonusInv
  <2>2. QED
    BY <1>1, <1>2, <1>5, <2>1, TurnQuiet
<1>7. Afforded'
  <2>1. /\ Afforded /\ UNCHANGED bonuses /\ strays' \in {strays, strays + 1}
    BY <1>1 DEF BonusInv
  <2>2. button = <<header, way>> /\ button[2] = way
    BY <1>4
  <2>3. CASE \A h \in Headers : <<h, "manual">> \in pressed => <<h, "manual">> \in pressed'
    <3>1. StaysSpent
      BY <1>2, <2>3 DEF StaysSpent, Spent
    <3>2. QED
      BY <2>1, <3>1, StaysAfforded
  <2>4. ASSUME NEW h \in Headers, <<h, "manual">> \in pressed, <<h, "manual">> \notin pressed'
        PROVE  Afforded'
    <3>1. /\ Head(timers) = <<"enable", button>> /\ <<h, "manual">> \in Found(way)
          /\ pressed' = pressed \ Found(way)
          /\ strays' = IF (pressed \intersect Found(way)) \ {button} = {} THEN strays ELSE strays + 1
      BY <1>1, <2>2, <2>4
    <3>2. way = "manual" /\ Found(way) = {<<h, "manual">>}
      <4>1. <<h, "manual">>[2] = "manual"
        OBVIOUS
      <4>2. QED
        BY <1>2, <3>1, <4>1, FoundOne
    <3>3. \A g \in Headers \ {h} : Spent(g) => Spent(g)'
      BY <1>2, <3>1, <3>2 DEF Spent
    <3>4. CASE h # header
      <4>1. (pressed \intersect Found(way)) \ {button} # {}
        BY <2>2, <2>4, <3>2, <3>4
      <4>2. QED
        BY <2>1, <3>1, <3>3, <4>1, OneForgiven
    <3>5. CASE h = header
      <4>1. Head(timers) = Enables(h)
        BY <2>2, <3>1, <3>2, <3>5 DEF Enables
      <4>2. Place(h) <= Passed
        BY <1>2, <1>6, <4>1, AllPassed
      <4>3. StaysSpent
        BY <1>2, <3>3, <4>2 DEF StaysSpent, Spent
      <4>4. QED
        BY <2>1, <4>3, StaysAfforded
    <3>6. QED
      BY <3>4, <3>5
  <2>5. QED
    BY <2>3, <2>4
<1>8. ASSUME left # <<>> PROVE InTurn(timers', Passed, pos')
  <2>1. CASE timers' = Tail(timers)
    BY <1>1, <1>6, <1>8, <2>1
  <2>2. CASE /\ Head(timers) = <<"wait", button>> /\ timers' = Append(Tail(timers), <<"enable", button>>)
             /\ way = "manual"
    <3>1. Head(timers) = Waits(header) /\ timers' = Append(Tail(timers), Enables(header))
      BY <1>4, <2>2 DEF Waits, Enables
    <3>2. InTurn(Append(Tail(timers), Enables(header)), Passed, pos)
      BY <1>6, <1>8, <3>1
    <3>3. QED
      BY <1>1, <3>1, <3>2
  <2>3. CASE /\ timers' = Append(Tail(timers), <<"enable", button>>) /\ way = "auto"
    <3>1. <<"enable", button>> \in Timer /\ Other(<<"enable", button>>)
      BY <1>4, <2>3, TimersAre, OthersAre
    <3>2. Tail(timers) \in Seq(Timer) /\ InTurn(Tail(timers), Passed, pos)
      BY <1>6, <1>8
    <3>3. InTurn(Append(Tail(timers), <<"enable", button>>), Passed, pos)
      BY <1>2, <3>1, <3>2, TurnGrows
    <3>4. QED
      BY <1>1, <2>3, <3>3
  <2>4. QED
    BY <1>1, <1>4, <2>1, <2>2, <2>3
<1>9. QED
  BY <1>2, <1>3, <1>7, <1>8, NothingMovesKeeps

(* All other actions set or take timers of no reward.                       *)
LEMMA OtherBonus ==
  ASSUME Inv, BonusInv, mounts = 1, page = "filter-articles", NothingMoves, UNCHANGED pos,
         pressed \subseteq pressed',
         strays' \in {strays, strays + 1}, Places /\ Turned(timers) => Turned(timers')
  PROVE  BonusInv'
<1>1. Types /\ timers \in Seq(Timer) /\ Places
  BY ItemsAre DEF Inv, StackInvs, Types, Passed, Places
<1>2. Afforded'
  <2>1. StaysSpent
    BY DEF NothingMoves, StaysSpent, Spent, Passed
  <2>2. QED
    BY <2>1, StaysAfforded DEF BonusInv, NothingMoves
<1>3. ASSUME left # <<>> PROVE InTurn(timers', Passed, pos')
  <2>1. InTurn(timers, Passed, pos)
    BY <1>3 DEF BonusInv
  <2>2. Turned(timers')
    BY <1>1, <2>1 DEF Turned
  <2>3. InTurn(timers', Passed, pos)
    BY <2>2 DEF Turned
  <2>4. QED
    BY <2>3
<1>4. QED
  BY <1>1, <1>2, <1>3, NothingMovesKeeps

LEMMA PoppedTurn ==
  ASSUME Places, Turned(timers), timers # <<>>,
         Head(timers) \in {<<"enableLeft">>, <<"enableRight">>, <<"auto">>}
  PROVE  Turned(Tail(timers))
<1>1. Head(timers) \notin Swiping /\ Head(timers) \notin Refilling
  BY DEF Swiping, Refilling
<1>2. timers \in Seq(Timer) /\ InTurn(timers, Passed, pos) /\ Passed \in Int /\ pos \in Int
  BY DEF Turned, Places
<1>3. Tail(timers) \in Seq(Timer) /\ InTurn(Tail(timers), Passed, pos)
  BY <1>1, <1>2, TurnQuiet
<1>4. QED
  BY <1>3 DEF Turned

LEMMA BonusStep ==
  ASSUME LastModuleIsLong, Inv, BonusInv, [Next]_vars
  PROVE  BonusInv'
<1> USE DEF app, pay, cards, controls
<1>1. mounts' = mounts => (mounts' = 1 => mounts = 1)
  OBVIOUS
<1>2. timers # <<>> => page = "filter-articles"
  BY DEF Inv, StackInvs, Types, QueueInv
<1>3. CASE ReturnToPage \/ RestoreOnPage
  <2>1. mounts' = mounts + 1 /\ mounts \in Nat \ {0}
    BY <1>3 DEF ReturnToPage, RestoreOnPage, ShowAgain, Inv, StackInvs, Types
  <2>2. mounts' # 1
    BY <2>1
  <2>3. QED
    BY <2>2 DEF BonusInv
<1>4. CASE mounts # 1 /\ UNCHANGED mounts
  BY <1>4 DEF BonusInv
<1>5. CASE mounts = 1 /\ LeavePage
  <2>1. NothingMoves /\ UNCHANGED <<pressed, strays>> /\ page' # "filter-articles"
    BY <1>5 DEF LeavePage, Gone, NothingMoves
  <2>2. StaysSpent
    BY <2>1 DEF NothingMoves, StaysSpent, Spent, Passed
  <2>3. Types
    BY DEF Inv, StackInvs
  <2>4. Afforded'
    BY <1>5, <2>1, <2>2, StaysAfforded DEF BonusInv, NothingMoves
  <2>5. QED
    BY <1>5, <2>1, <2>3, <2>4, NothingMovesKeeps
<1>6. ASSUME NEW header \in Headers, StartManualSelection(header), mounts = 1 PROVE BonusInv'
  BY <1>6, ManualKeeps
<1>7. ASSUME NEW header \in Headers, StartAutoSelection(header), mounts = 1 PROVE BonusInv'
  <2> DEFINE wait == <<"wait", <<header, "auto">>>>
  <2>1. /\ page = "filter-articles" /\ NothingMoves /\ UNCHANGED pos /\ pressed \subseteq pressed'
        /\ strays' \in {strays, strays + 1}
        /\ AutomaticallySelectNext(Append(timers, wait))
    BY <1>7 DEF StartAutoSelection, Press, Pressable, NothingMoves
  <2>2. wait \in Timer /\ Other(wait)
    <3>1. <<header, "auto">> \in Button
      BY DEF Button
    <3>2. QED
      BY <3>1, TimersAre, OthersAre
  <2> HIDE DEF wait
  <2>3. ASSUME Places, Turned(timers) PROVE Turned(timers')
    <3>1. Turned(Append(timers, wait))
      BY <2>2, <2>3, TurnedGrows
    <3>2. QED
      BY <2>1, <2>3, <3>1, TurnedAuto
  <2>4. QED
    BY <1>7, <2>1, <2>3, OtherBonus
<1>8. CASE mounts = 1 /\ (ClickLeft \/ ClickRight)
  <2>1. PICK side \in {"left", "right"}, enable \in {"enableLeft", "enableRight"} : ClickSide(side, enable)
    BY <1>8 DEF ClickLeft, ClickRight
  <2>2. /\ page = "filter-articles" /\ NothingMoves /\ UNCHANGED pos /\ pressed \subseteq pressed'
        /\ timers' = timers \o SideTimers(side, enable) /\ UNCHANGED strays
    BY <2>1 DEF ClickSide, ButtonsShown, NothingMoves
  <2>3. ASSUME Places, Turned(timers) PROVE Turned(timers')
    BY <2>2, <2>3, TurnedSide
  <2>4. QED
    BY <1>8, <2>2, <2>3, OtherBonus
<1>9. CASE mounts = 1 /\ TouchSwipe
  <2>1. Advance(timers) /\ page = "filter-articles"
    BY <1>9 DEF TouchSwipe, SwipeRight, SwipeAway
  <2>2. QED
    BY <1>9, <2>1, AdvanceBonus
<1>10. CASE mounts = 1 /\ SwipeTimer
  <2>1. timers # <<>> /\ Head(timers) \in Swiping /\ Advance(Tail(timers))
    BY <1>10 DEF SwipeTimer, Fires, SwipeRight, SwipeAway, Swiping
  <2>2. QED
    BY <1>2, <1>10, <2>1, AdvanceBonus
<1>11. CASE mounts = 1 /\ EnableTimer
  <2>1. /\ timers # <<>> /\ Head(timers) \in {<<"enableLeft">>, <<"enableRight">>, <<"auto">>}
        /\ timers' = Tail(timers) /\ NothingMoves /\ UNCHANGED <<pos, strays>> /\ pressed \subseteq pressed'
    BY <1>11 DEF EnableTimer, Fires, NothingMoves
  <2>2. ASSUME Places, Turned(timers) PROVE Turned(timers')
    BY <2>1, <2>2, PoppedTurn
  <2>3. QED
    BY <1>2, <1>11, <2>1, <2>2, OtherBonus
<1>12. ASSUME NEW button \in Button, ButtonTimer(button), mounts = 1 PROVE BonusInv'
  BY <1>12, ButtonBonus
<1>13. CASE mounts = 1 /\ AutoTimer
  <2>1. /\ timers # <<>> /\ Head(timers) \in {<<"enableLeft">>, <<"enableRight">>, <<"auto">>}
        /\ AutomaticallySelectNext(Tail(timers)) /\ NothingMoves /\ UNCHANGED <<pos, strays>> /\ pressed \subseteq pressed'
    BY <1>13 DEF AutoTimer, Fires, NothingMoves
  <2>2. ASSUME Places, Turned(timers) PROVE Turned(timers')
    <3>1. Turned(Tail(timers))
      BY <2>1, <2>2, PoppedTurn
    <3>2. QED
      BY <2>1, <2>2, <3>1, TurnedAuto
  <2>3. QED
    BY <1>2, <1>13, <2>1, <2>2, OtherBonus
<1>14. CASE mounts = 1 /\ Refill
  BY <1>14, RefillBonus
<1>15. CASE UNCHANGED vars
  BY <1>15 DEF vars, BonusInv, Afforded, SpentModules, Spent, Passed
<1>16. \/ ReturnToPage \/ RestoreOnPage \/ UNCHANGED vars
       \/ mounts # 1 /\ UNCHANGED mounts
       \/ mounts = 1 /\ Next
  <2>1. CASE Next /\ mounts # 1 /\ ~ReturnToPage /\ ~RestoreOnPage
    BY <2>1 DEF Next, LeavePage, StartManualSelection, StartAutoSelection, ClickLeft, ClickRight,
        ClickSide, TouchSwipe, SwipeRight, SwipeAway, Advance, TimerFires, SwipeTimer, EnableTimer,
        ButtonTimer, AutoTimer, Refill
  <2>2. QED
    BY <2>1
<1>17. CASE mounts = 1 /\ Next
  BY <1>3, <1>5, <1>6, <1>7, <1>8, <1>9, <1>10, <1>11, <1>12, <1>13, <1>14, <1>17 DEF Next, TimerFires
<1>18. QED
  BY <1>3, <1>4, <1>15, <1>16, <1>17

LEMMA FirstBonus == ASSUME Init PROVE BonusInv
<1> DEFINE n == IF Len(Items) < Stack THEN Len(Items) ELSE Stack
<1>1. /\ mounts = 1 /\ bonuses = 0 /\ strays = 0 /\ timers = <<>> /\ pos = 0
      /\ shown = SubSeq(Items, 1, n) /\ elements = n
  BY DEF Init
<1>2. n \in 0 .. Len(Items) /\ n <= Stack
  BY ItemsAre
<1> HIDE DEF n
<1>3. Len(shown) = n
  BY <1>1, <1>2, ItemsAre
<1>4. Cardinality(SpentModules) \in Nat
  BY ModulesFinite DEF SpentModules
<1>5. Passed \in Int
  BY InitInv, ItemsAre DEF Inv, StackInvs, Types, Passed
<1>6. InTurn(timers, Passed, pos)
  BY <1>1, <1>5, TurnEmpty
<1>7. QED
  BY <1>1, <1>2, <1>3, <1>4, <1>6 DEF BonusInv, Afforded

(* On the first showing the reward of selecting by hand is paid at most     *)
(* once per module, and once more for each time a press or a timer reached  *)
(* the button of another header than its own, whatever swipes, buttons and  *)
(* timers come between; the last module has at least as many articles as    *)
(* the stack has cards.                                                     *)
THEOREM FilterPaysModulesAndStrays ==
  ASSUME LastModuleIsLong
  PROVE  Spec => [](mounts = 1 => OneBonusPerModule)
<1>1. Init => BonusInv
  BY FirstBonus
<1>2. Inv /\ BonusInv /\ [Next]_vars => BonusInv'
  BY BonusStep
<1>3. BonusInv => (mounts = 1 => OneBonusPerModule)
  <2> SUFFICES ASSUME BonusInv, mounts = 1 PROVE OneBonusPerModule
    OBVIOUS
  <2>1. bonuses \in Nat /\ strays \in Nat /\ bonuses <= Cardinality(SpentModules) + strays
    BY DEF BonusInv, Afforded
  <2>2. /\ Cardinality(SpentModules) \in Nat /\ Cardinality(SpentModules) <= Cardinality(Headers)
        /\ Cardinality(Headers) \in Nat
    BY ModulesFinite DEF SpentModules
  <2>3. QED
    BY <2>1, <2>2 DEF OneBonusPerModule
<1>4. QED
  BY <1>1, <1>2, <1>3, FilterInvariant, PTL DEF Spec
-----------------------------------------------------------------------------
(***************************************************************************)
(* The stack as it is drawn.  What a card looks like after the next frame  *)
(* is decided by the last callback that writes its style.                  *)
(***************************************************************************)

(* The stack and what comes later are the end of the deck.                  *)
Dealt == Len(Deck) - Len(visible) - Len(toCome)
Dealing ==
  /\ Dealt \in Nat
  /\ \A i \in 1 .. Len(visible) : visible[i] = Deck[Dealt + i]
  /\ \A i \in 1 .. Len(toCome) : toCome[i] = Deck[Dealt + Len(visible) + i]

(* By the end of the frame the style of a card is in Goal: it is there now,  *)
(* or a callback brings it there, and those that follow keep it.            *)
Settles(queue, style, card, Goal, Brings, Keeps) ==
  \E m \in 0 .. Len(queue) :
    /\ IF m = 0 THEN style[card] \in Goal ELSE queue[m] \in Brings
    /\ \A k \in 1 .. Len(queue) : k > m => queue[k] \in Keeps

LooksAt(where) == {s \in Style : s.at = where}
LooksFirst == {s \in Style : s.depth = 0 /\ s.z \in 5 .. 6}
Spares(card) == {cb \in Callback : cb.at = "update" \/ cb.card # card}
Holds(card, where) == {cb \in Callback : cb.at \in {"update", where} \/ cb.card # card}

BehindTop(queue, style, i) ==
  Settles(queue, style, visible[i], {InStack(i - 1 - place)}, {UpdateUi}, Spares(visible[i]))
FirstDrawn(queue, style, card) ==
  Settles(queue, style, card, LooksFirst, {UpdateUi}, Callback)
InMiddle(queue, style, card) ==
  Settles(queue, style, card, LooksAt("stack"), {UpdateUi, TransformUi(card, "stack")},
          Holds(card, "stack"))
IsAway(queue, style, card) ==
  Settles(queue, style, card, LooksAt("away"), {TransformUi(card, "away")}, Holds(card, "away"))

AllAway == \A i \in 1 .. place : IsAway(frames, look, visible[i])
InPlace ==
  HasTopCard =>
    /\ current = TopCard
    /\ FirstDrawn(frames, look, TopCard)
    /\ InMiddle(frames, look, TopCard) \/ displaced \/ (touching /\ moved # "none")
    /\ \A i \in place + 2 .. Len(visible) : BehindTop(frames, look, i)

CardsInv == StackTypeOK /\ Dealing /\ (touching => fingers > 0) /\ AllAway /\ InPlace

-----------------------------------------------------------------------------
LEMMA DeckIs ==
  /\ Deck \in Seq(Card) /\ Len(Deck) \in Nat /\ Len(Deck) >= 2
  /\ \A k \in 1 .. Len(Deck) : Deck[k] \in Card
  /\ \A i, j \in 1 .. Len(Deck) : Deck[i] = Deck[j] => i = j
  /\ Size \in 2 .. 5
<1>1. Deck \in Seq(Card) /\ Len(Deck) >= 2 /\ Size \in 2 .. 5
  BY StackAssumption DEF Card
<1>2. DOMAIN Deck = 1 .. Len(Deck) /\ Len(Deck) \in Nat
  BY <1>1
<1>3. QED
  BY <1>1, <1>2, StackAssumption DEF IsInjective

(* The cards of the stack are different ones.                               *)
LEMMA VisibleDiffer ==
  ASSUME StackTypeOK, Dealing
  PROVE  /\ Len(visible) \in Nat \ {0} /\ Len(visible) <= Size /\ DOMAIN visible = 1 .. Len(visible)
         /\ place \in Nat /\ place <= Len(visible)
         /\ \A i \in 1 .. Len(visible) : visible[i] \in Card
         /\ \A i, j \in 1 .. Len(visible) : visible[i] = visible[j] => i = j
<1>1. /\ visible \in Seq(Card) /\ visible # <<>> /\ Len(visible) <= Size
      /\ toCome \in Seq(Card) /\ place \in 0 .. Len(visible)
  BY DEF StackTypeOK
<1>2. Len(visible) \in Nat \ {0} /\ DOMAIN visible = 1 .. Len(visible) /\ Len(toCome) \in Nat
  BY <1>1
<1>3. \A i \in 1 .. Len(visible) : Dealt + i \in 1 .. Len(Deck)
  <2> DEFINE n == Len(visible)
             l == Len(toCome)
             d == Len(Deck)
  <2>1. n \in Nat /\ l \in Nat /\ d \in Nat /\ Dealt = d - n - l /\ Dealt \in Nat
    BY <1>2, DeckIs DEF Dealing, Dealt
  <2> HIDE DEF n, l, d
  <2>2. \A i \in 1 .. n : Dealt + i \in 1 .. d
    BY <2>1
  <2>3. QED
    BY <2>2 DEF n, d
<1>4. ASSUME NEW i \in 1 .. Len(visible), NEW j \in 1 .. Len(visible), visible[i] = visible[j]
      PROVE  i = j
  <2>1. Deck[Dealt + i] = Deck[Dealt + j]
    BY <1>4 DEF Dealing
  <2>2. Dealt + i = Dealt + j
    BY <1>3, <2>1, DeckIs
  <2>3. Dealt \in Nat /\ i \in Nat /\ j \in Nat
    BY <1>2 DEF Dealing
  <2>4. QED
    BY <2>2, <2>3
<1>5. QED
  BY <1>1, <1>2, <1>4

(* updateUi draws the cards from the current one on, and no other.          *)
LEMMA UpdatedIs ==
  ASSUME StackTypeOK, Dealing, NEW style \in [Card -> Style]
  PROVE  /\ Updated(style) \in [Card -> Style]
         /\ \A i \in place + 1 .. Len(visible) : Updated(style)[visible[i]] = InStack(i - 1 - place)
         /\ \A i \in 1 .. place : Updated(style)[visible[i]] = style[visible[i]]
<1> DEFINE n == Len(visible)
           drawn(c) == \E i \in place + 1 .. n : visible[i] = c
           index(c) == CHOOSE i \in DOMAIN visible : visible[i] = c
<1>1. /\ n \in Nat \ {0} /\ n <= Size /\ DOMAIN visible = 1 .. n /\ place \in Nat /\ place <= n
      /\ Size \in 2 .. 5
  BY VisibleDiffer, DeckIs
<1>2. ASSUME NEW i \in 1 .. n PROVE index(visible[i]) = i
  BY <1>1, VisibleDiffer
<1>3. ASSUME NEW i \in place + 1 .. n
      PROVE  i \in 1 .. n /\ InStack(i - 1 - place) \in Style
  <2> HIDE DEF n
  <2>1. i - 1 - place \in 0 .. Size /\ 5 - (i - 1 - place) \in 0 .. 6 /\ i \in 1 .. n
    BY <1>1
  <2>2. QED
    BY <2>1 DEF InStack, Style
<1>4. ASSUME NEW i \in place + 1 .. n
      PROVE  Updated(style)[visible[i]] = InStack(i - 1 - place)
  <2>1. visible[i] \in Card /\ drawn(visible[i]) /\ index(visible[i]) = i
    BY <1>2, <1>3, VisibleDiffer
  <2>2. QED
    BY <2>1 DEF Updated
<1>5. ASSUME NEW i \in 1 .. place
      PROVE  Updated(style)[visible[i]] = style[visible[i]]
  <2>1. i \in 1 .. n
    <3> HIDE DEF n
    <3>1. QED
      BY <1>1
  <2>2. ~drawn(visible[i])
    <3>1. ASSUME NEW j \in place + 1 .. n, visible[j] = visible[i] PROVE FALSE
      <4>1. j = i
        BY <1>3, <2>1, <3>1, VisibleDiffer
      <4>2. QED
        BY <1>1, <4>1
    <3>2. QED
      BY <3>1
  <2>3. visible[i] \in Card
    BY <2>1, VisibleDiffer
  <2>4. QED
    BY <2>2, <2>3 DEF Updated
<1>6. ASSUME NEW c \in Card PROVE Updated(style)[c] \in Style
  <2>1. CASE drawn(c)
    <3>1. PICK i \in place + 1 .. n : visible[i] = c
      BY <2>1
    <3>2. QED
      BY <1>3, <1>4, <3>1
  <2>2. CASE ~drawn(c)
    BY <2>2 DEF Updated
  <2>3. QED
    BY <2>1, <2>2
<1>7. Updated(style) \in [Card -> Style]
  <2>1. Updated(style) = [c \in Card |-> Updated(style)[c]]
    BY DEF Updated
  <2>2. QED
    BY <1>6, <2>1
<1>8. QED
  BY <1>4, <1>5, <1>7

LEMMA DrawnIs ==
  ASSUME StackTypeOK, Dealing, NEW style \in [Card -> Style], NEW cb \in Callback
  PROVE  /\ Drawn(style, cb) \in [Card -> Style]
         /\ cb = UpdateUi => Drawn(style, cb) = Updated(style)
         /\ cb.at = "update" => cb = UpdateUi
         /\ cb.at # "update" =>
              /\ cb.card \in Card /\ cb.at \in {"stack", "finger", "away"}
              /\ Drawn(style, cb) = [style EXCEPT ![cb.card].at = cb.at]
<1>1. CASE cb.at = "update"
  <2>1. cb = UpdateUi /\ Drawn(style, cb) = Updated(style)
    BY <1>1 DEF Callback, UpdateUi, Drawn
  <2>2. QED
    BY <1>1, <2>1, UpdatedIs
<1>2. CASE cb.at # "update"
  <2>1. cb.card \in Card /\ cb.at \in {"stack", "finger", "away"} /\ cb # UpdateUi
    BY <1>2 DEF Callback, UpdateUi
  <2>2. Drawn(style, cb) = [style EXCEPT ![cb.card].at = cb.at]
    BY <1>2 DEF Drawn
  <2>3. style[cb.card] \in Style
    BY <2>1
  <2>4. [style[cb.card] EXCEPT !.at = cb.at] \in Style
    BY <2>1, <2>3 DEF Style
  <2>5. QED
    BY <1>2, <2>1, <2>2, <2>4
<1>3. QED
  BY <1>1, <1>2

(* A frame draws step by step.                                              *)
LEMMA FrameSteps ==
  ASSUME StackTypeOK, Dealing
  PROVE  \E f \in [0 .. Len(frames) -> [Card -> Style]] :
           /\ f[0] = look
           /\ \A n \in 0 .. Len(frames) : n < Len(frames) => f[n + 1] = Drawn(f[n], frames[n + 1])
           /\ f[Len(frames)] = FoldLeft(Drawn, look, frames)
<1> DEFINE D == DOMAIN frames
           V == [Card -> Style]
           step == [p \in V \X Callback |-> Drawn(p[1], p[2])]
           next(g, t) == Drawn(g[t \ {Max(t)}], frames[Max(t)])
           draws(g) == g = [t \in SUBSET D |-> IF t = {} THEN look ELSE next(g, t)]
           k == CHOOSE g : draws(g)
<1>1. /\ look \in V /\ frames \in Seq(Callback) /\ IsFiniteSet(D) /\ Picks(LastOf(D), D)
      /\ D = 1 .. Len(frames) /\ Len(frames) \in Nat
      /\ \A i \in D : frames[i] \in Callback
  BY LastPicks DEF StackTypeOK
<1>2. step \in [V \X Callback -> V]
  BY DrawnIs
<1>3. PICK g : FoldsList(g, frames, Callback, V, look, step)
  <2> HIDE DEF V, step
  <2>1. QED
    BY <1>1, <1>2, ListFoldExists
<1>3a. g \in [SUBSET D -> V] /\ ListFolds(g, frames, look, step)
  BY <1>3 DEF FoldsList
<1>4. ASSUME NEW t \in SUBSET D, t # {}
      PROVE  /\ LastOf(D)[t] = Max(t) /\ t \ {Max(t)} \in SUBSET D /\ g[t] = next(g, t)
  <2>1. Max(t) \in t /\ LastOf(D)[t] = Max(t)
    BY <1>1, <1>4 DEF LastOf, Picks
  <2>2. g[t] = step[<<g[t \ {Max(t)}], frames[Max(t)]>>]
    <3> HIDE DEF step
    <3>1. QED
      BY <1>3a, <1>4 DEF ListFolds
  <2>3. Max(t) \in D /\ t \ {Max(t)} \in SUBSET D
    BY <2>1
  <2>4. g[t \ {Max(t)}] \in V /\ frames[Max(t)] \in Callback
    <3> HIDE DEF V
    <3>1. QED
      BY <1>1, <1>3a, <2>3
  <2>5. <<g[t \ {Max(t)}], frames[Max(t)]>> \in V \X Callback
    BY <2>4
  <2>6. QED
    BY <2>1, <2>2, <2>3, <2>5
<1>5. g[{}] = look
  BY <1>3a DEF ListFolds
<1>6. draws(g)
  <2>1. \A t \in SUBSET D : g[t] = IF t = {} THEN look ELSE next(g, t)
    BY <1>4, <1>5
  <2> HIDE DEF next, D, V
  <2>2. QED
    BY <1>3a, <2>1
<1>7. FoldLeft(Drawn, look, frames) = k[D]
  BY DEF FoldLeft, MapThenFoldSet
<1>8. draws(k)
  <2> HIDE DEF draws
  <2>1. QED
    BY <1>6
<1>9. StepAlike(k, g, D, LastOf(D))
  <2>1. k[{}] = g[{}]
    BY <1>5, <1>8
  <2>2. ASSUME NEW t \in SUBSET D, t # {}, k[t \ {LastOf(D)[t]}] = g[t \ {LastOf(D)[t]}]
        PROVE  k[t] = g[t]
    <3>1. k[t] = next(k, t) /\ g[t] = next(g, t)
      <4> HIDE DEF next, D, k
      <4>1. QED
        BY <1>4, <1>8, <2>2
    <3>2. QED
      BY <1>4, <2>2, <3>1
  <2> HIDE DEF D, k, next, draws
  <2>3. QED
    BY <2>1, <2>2 DEF StepAlike
<1>10. PICK f \in [0 .. Len(frames) -> V] :
         ListSteps(f, frames, look, step) /\ f[Len(frames)] = k[D]
  <2>1. StepAlike(k, g, DOMAIN frames, LastOf(DOMAIN frames))
    BY <1>9
  <2> HIDE DEF V, step, k, D
  <2>2. \E f \in [0 .. Len(frames) -> V] :
          ListSteps(f, frames, look, step) /\ f[Len(frames)] = k[DOMAIN frames]
    BY <1>3, <2>1, FoldedInSteps
  <2>3. QED
    BY <2>2 DEF D
<1>11. ASSUME NEW n \in 0 .. Len(frames), n < Len(frames)
       PROVE  f[n + 1] = Drawn(f[n], frames[n + 1])
  <2>1. f[n + 1] = step[<<f[n], frames[n + 1]>>]
    <3> HIDE DEF step, V
    <3>1. QED
      BY <1>10, <1>11 DEF ListSteps
  <2>2. f[n] \in V /\ n + 1 \in D
    <3> HIDE DEF V
    <3>1. QED
      BY <1>1, <1>10, <1>11
  <2>3. <<f[n], frames[n + 1]>> \in V \X Callback
    BY <1>1, <2>2
  <2>4. QED
    BY <2>1, <2>3
<1>12. f[0] = look
  BY <1>10 DEF ListSteps
<1>13. QED
  <2> HIDE DEF k, step, V
  <2>1. f \in [0 .. Len(frames) -> V] /\ f[Len(frames)] = FoldLeft(Drawn, look, frames)
    BY <1>7, <1>10
  <2>2. QED
    BY <1>11, <1>12, <2>1 DEF V

-----------------------------------------------------------------------------
(***************************************************************************)
(* Settling.                                                               *)
(***************************************************************************)

(* One more callback that keeps the goal, and a style changed at once that   *)
(* leaves it.                                                               *)
LEMMA SettlesStill ==
  ASSUME NEW queue \in Seq(Callback), NEW style, NEW new, NEW card, NEW Goal, NEW Brings, NEW Keeps,
         Settles(queue, style, card, Goal, Brings, Keeps),
         style[card] \in Goal => new[card] \in Goal
  PROVE  /\ Settles(queue, new, card, Goal, Brings, Keeps)
         /\ \A cb \in Callback \cap Keeps : Settles(Append(queue, cb), new, card, Goal, Brings, Keeps)
<1>1. PICK m \in 0 .. Len(queue) :
        /\ IF m = 0 THEN style[card] \in Goal ELSE queue[m] \in Brings
        /\ \A k \in 1 .. Len(queue) : k > m => queue[k] \in Keeps
  BY DEF Settles
<1>2. IF m = 0 THEN new[card] \in Goal ELSE queue[m] \in Brings
  BY <1>1
<1>3. ASSUME NEW cb \in Callback, cb \in Keeps
      PROVE  Settles(Append(queue, cb), new, card, Goal, Brings, Keeps)
  <2> DEFINE r == Append(queue, cb)
             n == Len(queue)
  <2>1. /\ n \in Nat /\ Len(r) = n + 1 /\ r[n + 1] = cb
        /\ \A k \in 1 .. n : r[k] = queue[k]
    OBVIOUS
  <2> HIDE DEF r
  <2>2. m \in 0 .. Len(r) /\ (m # 0 => r[m] = queue[m])
    BY <1>1, <2>1
  <2>3. ASSUME NEW k \in 1 .. Len(r), k > m PROVE r[k] \in Keeps
    <3>1. CASE k = n + 1
      BY <1>3, <2>1, <3>1
    <3>2. CASE k # n + 1
      <4>1. k \in 1 .. n
        BY <2>1, <3>2
      <4>2. QED
        BY <1>1, <2>1, <2>3, <4>1
    <3>3. QED
      BY <3>1, <3>2
  <2>4. Settles(r, new, card, Goal, Brings, Keeps)
    BY <1>2, <2>2, <2>3 DEF Settles
  <2>5. QED
    BY <2>4 DEF r
<1>4. Settles(queue, new, card, Goal, Brings, Keeps)
  BY <1>1, <1>2 DEF Settles
<1>5. QED
  BY <1>3, <1>4

(* The last callback brings the card to the goal.                           *)
LEMMA SettlesNow ==
  ASSUME NEW queue \in Seq(Callback), NEW style, NEW card, NEW Goal, NEW Brings, NEW Keeps,
         NEW cb \in Callback, cb \in Brings
  PROVE  Settles(Append(queue, cb), style, card, Goal, Brings, Keeps)
<1> DEFINE r == Append(queue, cb)
           n == Len(queue) + 1
<1>1. n \in Nat /\ n # 0 /\ Len(r) = n /\ r[n] = cb
  OBVIOUS
<1> HIDE DEF r, n
<1>2. n \in 0 .. Len(r) /\ \A k \in 1 .. Len(r) : ~(k > n)
  BY <1>1
<1>3. Settles(r, style, card, Goal, Brings, Keeps)
  BY <1>1, <1>2 DEF Settles
<1>4. QED
  BY <1>3 DEF r

(* Once the frame is drawn it is there.                                     *)
LEMMA SettledDraws ==
  ASSUME StackTypeOK, Dealing, NEW card, NEW Goal, NEW Brings, NEW Keeps,
         Settles(frames, look, card, Goal, Brings, Keeps),
         \A style \in [Card -> Style], cb \in Callback :
           /\ cb \in Brings => Drawn(style, cb)[card] \in Goal
           /\ cb \in Keeps /\ style[card] \in Goal => Drawn(style, cb)[card] \in Goal
  PROVE  FoldLeft(Drawn, look, frames)[card] \in Goal
<1> DEFINE N == Len(frames)
<1>1. PICK f \in [0 .. N -> [Card -> Style]] :
           /\ f[0] = look
           /\ \A n \in 0 .. N : n < N => f[n + 1] = Drawn(f[n], frames[n + 1])
           /\ f[N] = FoldLeft(Drawn, look, frames)
  BY FrameSteps
<1>2. PICK m \in 0 .. N :
        /\ IF m = 0 THEN look[card] \in Goal ELSE frames[m] \in Brings
        /\ \A k \in 1 .. N : k > m => frames[k] \in Keeps
  BY DEF Settles
<1>3. /\ N \in Nat /\ frames \in Seq(Callback)
      /\ \A n \in 0 .. N : n < N => n + 1 \in 1 .. N /\ frames[n + 1] \in Callback
  BY DEF StackTypeOK
<1> HIDE DEF N
<1>4. ASSUME NEW n \in 0 .. N, n < N
      PROVE  n + 1 \in 1 .. N /\ f[n] \in [Card -> Style] /\ frames[n + 1] \in Callback
             /\ f[n + 1] = Drawn(f[n], frames[n + 1])
  BY <1>1, <1>3, <1>4
<1>5. f[m][card] \in Goal
  <2>1. CASE m = 0
    BY <1>1, <1>2, <2>1
  <2>2. CASE m # 0
    <3>1. m - 1 \in 0 .. N /\ m - 1 < N /\ (m - 1) + 1 = m
      BY <1>2, <1>3, <2>2
    <3>2. f[m - 1] \in [Card -> Style] /\ frames[m] \in Callback /\ f[m] = Drawn(f[m - 1], frames[m])
      BY <1>4, <3>1
    <3>3. QED
      BY <1>2, <2>2, <3>2
  <2>3. QED
    BY <2>1, <2>2
<1> DEFINE S == {n \in 0 .. N : n < m \/ f[n][card] \in Goal}
<1>6. 0 \in S
  BY <1>2, <1>3, <1>5
<1>7. ASSUME NEW n \in 0 .. N, n \in S, n < N PROVE n + 1 \in S
  <2>1. n + 1 \in 0 .. N
    BY <1>3, <1>7
  <2>2. CASE n + 1 < m
    BY <2>1, <2>2
  <2>3. CASE n + 1 = m
    BY <1>5, <2>1, <2>3
  <2>4. CASE n + 1 > m
    <3>1. ~(n < m)
      BY <1>2, <1>3, <2>4
    <3>2. f[n][card] \in Goal /\ frames[n + 1] \in Keeps
      BY <1>2, <1>4, <1>7, <2>4, <3>1
    <3>3. f[n + 1][card] \in Goal
      BY <1>4, <1>7, <3>2
    <3>4. QED
      BY <2>1, <3>3
  <2>5. QED
    BY <1>2, <1>3, <2>1, <2>2, <2>3, <2>4
<1>8. \A n \in 0 .. N : n \in S
  <2> HIDE DEF S
  <2>1. QED
    BY <1>3, <1>6, <1>7, Induction
<1>9. N \in S /\ ~(N < m)
  BY <1>2, <1>3, <1>8
<1>10. QED
  BY <1>1, <1>9 DEF N

LEMMA SettlesAtOnce ==
  ASSUME NEW style, NEW card, NEW Goal, NEW Brings, NEW Keeps, style[card] \in Goal
  PROVE  Settles(<<>>, style, card, Goal, Brings, Keeps)
<1>1. Len(<<>>) = 0 /\ 0 \in 0 .. 0 /\ \A k \in 1 .. 0 : FALSE
  OBVIOUS
<1>2. QED
  BY <1>1 DEF Settles

(* The card on top, those behind it and those before it.                    *)
LEMMA TopIs ==
  ASSUME StackTypeOK, Dealing
  PROVE  /\ HasTopCard =>
              /\ place + 1 \in 1 .. Len(visible) /\ TopCard \in Card
              /\ \A i \in place + 2 .. Len(visible) : visible[i] \in Card /\ visible[i] # TopCard
              /\ \A i \in 1 .. place : visible[i] # TopCard
         /\ \A i \in 1 .. place : i \in 1 .. Len(visible) /\ visible[i] \in Card
         /\ UpdateUi \in Callback /\ \A c \in Card : UpdateUi \in Spares(c)
         /\ \A c \in Card, where \in {"stack", "finger", "away"} :
              /\ TransformUi(c, where) \in Callback
              /\ TransformUi(c, where).card = c /\ TransformUi(c, where).at = where
              /\ UpdateUi \in Holds(c, where) /\ TransformUi(c, where) \in Holds(c, where)
         /\ \A c \in Card, d \in Card, w \in {"stack", "finger", "away"}, v \in {"stack", "away"} :
              c # d => TransformUi(d, w) \in Spares(c) \cap Holds(c, v)
<1> DEFINE n == Len(visible)
<1>1. /\ n \in Nat \ {0} /\ place \in Nat /\ place <= n
      /\ \A i \in 1 .. n : visible[i] \in Card
      /\ \A i, j \in 1 .. n : visible[i] = visible[j] => i = j
  BY VisibleDiffer
<1>2. HasTopCard <=> place < n
  BY DEF HasTopCard
<1> HIDE DEF n
<1>3. \A i \in 1 .. place : i \in 1 .. n /\ i # place + 1
  BY <1>1
<1>4. \A i \in place + 2 .. n : i \in 1 .. n /\ i # place + 1
  BY <1>1
<1>5. HasTopCard => place + 1 \in 1 .. n
  BY <1>1, <1>2
<1>6. /\ UpdateUi \in Callback /\ UpdateUi.at = "update"
      /\ \A c \in Card, where \in {"stack", "finger", "away"} :
              /\ TransformUi(c, where) \in Callback
              /\ TransformUi(c, where).card = c /\ TransformUi(c, where).at = where
  BY DEF UpdateUi, TransformUi, Callback
<1>7. \A c \in Card : UpdateUi \in Spares(c)
  BY <1>6 DEF Spares
<1>8. \A c \in Card, where \in {"stack", "finger", "away"} :
         UpdateUi \in Holds(c, where) /\ TransformUi(c, where) \in Holds(c, where)
  BY <1>6 DEF Holds
<1>9. \A c \in Card, d \in Card, w \in {"stack", "finger", "away"}, v \in {"stack", "away"} :
         c # d => TransformUi(d, w) \in Spares(c) \cap Holds(c, v)
  BY <1>6 DEF Holds, Spares
<1>10. HasTopCard =>
         /\ TopCard \in Card
         /\ \A i \in place + 2 .. n : visible[i] \in Card /\ visible[i] # TopCard
         /\ \A i \in 1 .. place : visible[i] # TopCard
  BY <1>1, <1>3, <1>4, <1>5 DEF TopCard
<1>11. QED
  BY <1>1, <1>3, <1>5, <1>6, <1>7, <1>8, <1>9, <1>10 DEF n

(* A z-index is written on the top card alone.                              *)
LEMMA ZindexIs ==
  ASSUME StackTypeOK, Dealing, HasTopCard, NEW z \in {5, 6}
  PROVE  /\ SetZindex(z) \in [Card -> Style]
         /\ \A c \in Card : c # TopCard => SetZindex(z)[c] = look[c]
         /\ SetZindex(z)[TopCard].at = look[TopCard].at
         /\ look[TopCard] \in LooksFirst => SetZindex(z)[TopCard] \in LooksFirst
         /\ \A where : look[TopCard] \in LooksAt(where) => SetZindex(z)[TopCard] \in LooksAt(where)
<1>1. look \in [Card -> Style] /\ TopCard \in Card
  BY TopIs DEF StackTypeOK
<1> DEFINE new == SetZindex(z)
<1>2. /\ new = [look EXCEPT ![TopCard] = [look[TopCard] EXCEPT !.z = z]]
  BY DEF SetZindex
<1>3. look[TopCard] \in Style
  BY <1>1
<1>4. /\ [look[TopCard] EXCEPT !.z = z] \in Style
      /\ [look[TopCard] EXCEPT !.z = z].z = z
      /\ [look[TopCard] EXCEPT !.z = z].depth = look[TopCard].depth
      /\ [look[TopCard] EXCEPT !.z = z].at = look[TopCard].at
  BY <1>3 DEF Style
<1>5. /\ new \in [Card -> Style] /\ new[TopCard] = [look[TopCard] EXCEPT !.z = z]
      /\ \A c \in Card : c # TopCard => new[c] = look[c]
  BY <1>1, <1>2, <1>4
<1> HIDE DEF new
<1>6. z \in 5 .. 6
  OBVIOUS
<1>7. /\ look[TopCard] \in LooksFirst => new[TopCard] \in LooksFirst
      /\ \A where : look[TopCard] \in LooksAt(where) => new[TopCard] \in LooksAt(where)
  BY <1>4, <1>5, <1>6 DEF LooksFirst, LooksAt
<1>8. QED
  BY <1>4, <1>5, <1>7 DEF new

(* What the callbacks of a frame do to the cards of the stack.              *)
LEMMA TransformsDraw ==
  ASSUME StackTypeOK, Dealing, NEW style \in [Card -> Style], NEW cb \in Callback, cb.at # "update",
         NEW c \in Card
  PROVE  /\ cb.card # c => Drawn(style, cb)[c] = style[c]
         /\ cb.card = c => Drawn(style, cb)[c] \in LooksAt(cb.at)
         /\ style[c] \in LooksFirst => Drawn(style, cb)[c] \in LooksFirst
<1>1. /\ Drawn(style, cb) = [style EXCEPT ![cb.card].at = cb.at] /\ cb.card \in Card
      /\ Drawn(style, cb) \in [Card -> Style] /\ cb.at \in {"stack", "finger", "away"}
  BY DrawnIs
<1>2. CASE cb.card # c
  BY <1>1, <1>2
<1>3. CASE cb.card = c
  <2>1. Drawn(style, cb)[c] = [style[c] EXCEPT !.at = cb.at]
    BY <1>1, <1>3
  <2>2. style[c] \in Style
    OBVIOUS
  <2>3. /\ [style[c] EXCEPT !.at = cb.at] \in Style
        /\ [style[c] EXCEPT !.at = cb.at].at = cb.at
        /\ [style[c] EXCEPT !.at = cb.at].depth = style[c].depth
        /\ [style[c] EXCEPT !.at = cb.at].z = style[c].z
    BY <1>1, <2>2 DEF Style
  <2>4. QED
    BY <1>3, <2>1, <2>3 DEF LooksAt, LooksFirst
<1>4. QED
  BY <1>2, <1>3

LEMMA UpdateDraws ==
  ASSUME StackTypeOK, Dealing, NEW style \in [Card -> Style]
  PROVE  /\ \A i \in place + 1 .. Len(visible) :
              Drawn(style, UpdateUi)[visible[i]] = InStack(i - 1 - place)
         /\ \A i \in 1 .. place : Drawn(style, UpdateUi)[visible[i]] = style[visible[i]]
         /\ HasTopCard => Drawn(style, UpdateUi)[TopCard] \in LooksFirst \cap LooksAt("stack")
<1>1. Drawn(style, UpdateUi) = Updated(style) /\ Updated(style) \in [Card -> Style]
  BY UpdatedIs DEF Drawn, UpdateUi
<1>2. ASSUME HasTopCard PROVE Updated(style)[TopCard] \in LooksFirst \cap LooksAt("stack")
  <2>1. place + 1 \in 1 .. Len(visible) /\ TopCard \in Card /\ place \in Nat
    BY <1>2, TopIs, VisibleDiffer
  <2>2. place + 1 \in place + 1 .. Len(visible) /\ (place + 1) - 1 - place = 0
    BY <2>1
  <2>3. Updated(style)[TopCard] = InStack((place + 1) - 1 - place)
    BY <2>2, UpdatedIs DEF TopCard
  <2>4. Updated(style)[TopCard] = InStack(0)
    BY <2>2, <2>3
  <2>5. Updated(style)[TopCard] \in Style
    BY <1>1, <2>1
  <2>6. QED
    BY <2>4, <2>5 DEF InStack, LooksFirst, LooksAt
<1>3. QED
  BY <1>1, <1>2, UpdatedIs

-----------------------------------------------------------------------------
(***************************************************************************)
(* The steps.                                                              *)
(***************************************************************************)

LEMMA FrameKeeps == ASSUME CardsInv, Frame PROVE CardsInv'
<1> DEFINE drawn == FoldLeft(Drawn, look, frames)
<1>1. /\ StackTypeOK /\ Dealing /\ AllAway /\ InPlace /\ (touching => fingers > 0)
      /\ look' = drawn /\ frames' = <<>>
      /\ UNCHANGED <<visible, toCome, place, current, refills, fingers, touching, moved, displaced>>
  BY DEF CardsInv, Frame, stack, gesture
<1>2. drawn \in [Card -> Style]
  <2>1. PICK f \in [0 .. Len(frames) -> [Card -> Style]] : f[Len(frames)] = drawn
    BY <1>1, FrameSteps
  <2>2. Len(frames) \in 0 .. Len(frames)
    BY <1>1 DEF StackTypeOK
  <2>3. QED
    BY <2>1, <2>2
<1>3. ASSUME NEW i \in 1 .. place PROVE drawn[visible[i]] \in LooksAt("away")
  <2> DEFINE c == visible[i]
  <2>1. c \in Card /\ IsAway(frames, look, c)
    BY <1>1, TopIs DEF AllAway
  <2>2. ASSUME NEW style \in [Card -> Style], NEW cb \in Callback
        PROVE  /\ cb \in {TransformUi(c, "away")} => Drawn(style, cb)[c] \in LooksAt("away")
               /\ cb \in Holds(c, "away") /\ style[c] \in LooksAt("away") =>
                    Drawn(style, cb)[c] \in LooksAt("away")
    <3>1. CASE cb.at = "update"
      <4>0. TransformUi(c, "away").at = "away"
        BY DEF TransformUi
      <4>1. cb = UpdateUi /\ cb # TransformUi(c, "away")
        BY <1>1, <3>1, <4>0, DrawnIs
      <4>2. Drawn(style, cb)[c] = style[c]
        BY <1>1, <4>1, UpdateDraws
      <4>3. QED
        BY <4>1, <4>2
    <3>2. CASE cb.at # "update"
      <4>1. /\ cb.card # c => Drawn(style, cb)[c] = style[c]
            /\ cb.card = c => Drawn(style, cb)[c] \in LooksAt(cb.at)
        BY <1>1, <2>1, <3>2, TransformsDraw
      <4>2. TransformUi(c, "away").card = c /\ TransformUi(c, "away").at = "away"
        BY DEF TransformUi
      <4> HIDE DEF c
      <4>3. QED
        BY <3>2, <4>1, <4>2 DEF Holds
    <3>3. QED
      BY <3>1, <3>2
  <2> HIDE DEF c
  <2>3. drawn[c] \in LooksAt("away")
    BY <1>1, <2>1, <2>2, SettledDraws DEF IsAway
  <2>4. QED
    BY <2>3 DEF c
<1>4. ASSUME HasTopCard, NEW i \in place + 2 .. Len(visible)
      PROVE  drawn[visible[i]] \in {InStack(i - 1 - place)}
  <2> DEFINE c == visible[i]
             d == InStack(i - 1 - place)
  <2>1. c \in Card /\ BehindTop(frames, look, i)
    BY <1>1, <1>4, TopIs DEF InPlace
  <2>2. i \in place + 1 .. Len(visible)
    BY <1>1, VisibleDiffer
  <2>3. ASSUME NEW style \in [Card -> Style], NEW cb \in Callback
        PROVE  /\ cb \in {UpdateUi} => Drawn(style, cb)[c] \in {d}
               /\ cb \in Spares(c) /\ style[c] \in {d} => Drawn(style, cb)[c] \in {d}
    <3>1. CASE cb.at = "update"
      <4>1. cb = UpdateUi
        BY <1>1, <3>1, DrawnIs
      <4>2. QED
        BY <1>1, <2>2, <4>1, UpdateDraws
    <3>2. CASE cb.at # "update"
      <4>1. cb.card # c => Drawn(style, cb)[c] = style[c]
        BY <1>1, <2>1, <3>2, TransformsDraw
      <4>2. cb # UpdateUi
        BY <3>2 DEF UpdateUi
      <4> HIDE DEF c
      <4>3. QED
        BY <3>2, <4>1, <4>2 DEF Spares
    <3>3. QED
      BY <3>1, <3>2
  <2>4. Settles(frames, look, c, {d}, {UpdateUi}, Spares(c))
    BY <2>1 DEF BehindTop
  <2> HIDE DEF c, d
  <2>5. drawn[c] \in {d}
    BY <1>1, <2>3, <2>4, SettledDraws
  <2>6. QED
    BY <2>5 DEF c, d
<1>5. ASSUME HasTopCard
      PROVE  /\ drawn[TopCard] \in LooksFirst
             /\ InMiddle(frames, look, TopCard) => drawn[TopCard] \in LooksAt("stack")
  <2> DEFINE c == TopCard
  <2>1. c \in Card /\ FirstDrawn(frames, look, c)
    BY <1>1, <1>5, TopIs DEF InPlace
  <2>2. ASSUME NEW style \in [Card -> Style], NEW cb \in Callback
        PROVE  /\ cb.at = "update" => cb = UpdateUi /\ Drawn(style, cb)[c] \in LooksFirst \cap LooksAt("stack")
               /\ cb.at # "update" =>
                    /\ cb # UpdateUi
                    /\ cb.card # c => Drawn(style, cb)[c] = style[c]
                    /\ cb.card = c => Drawn(style, cb)[c] \in LooksAt(cb.at)
                    /\ style[c] \in LooksFirst => Drawn(style, cb)[c] \in LooksFirst
    <3>1. CASE cb.at = "update"
      <4>1. cb = UpdateUi
        BY <1>1, <3>1, DrawnIs
      <4>2. QED
        BY <1>1, <1>5, <3>1, <4>1, UpdateDraws
    <3>2. CASE cb.at # "update"
      <4>1. cb # UpdateUi
        BY <3>2 DEF UpdateUi
      <4>2. QED
        BY <1>1, <2>1, <3>2, <4>1, TransformsDraw
    <3>3. QED
      BY <3>1, <3>2
  <2> HIDE DEF c
  <2>3. UpdateUi.at = "update"
    BY DEF UpdateUi
  <2>4. drawn[c] \in LooksFirst
    <3>1. \A style \in [Card -> Style], cb \in Callback :
            /\ cb \in {UpdateUi} => Drawn(style, cb)[c] \in LooksFirst
            /\ cb \in Callback /\ style[c] \in LooksFirst => Drawn(style, cb)[c] \in LooksFirst
      BY <2>2, <2>3
    <3>2. QED
      BY <1>1, <2>1, <3>1, SettledDraws DEF FirstDrawn
  <2>5. ASSUME InMiddle(frames, look, c) PROVE drawn[c] \in LooksAt("stack")
    <3> DEFINE brings == {UpdateUi, TransformUi(c, "stack")}
               G == LooksAt("stack")
    <3>1. ASSUME NEW style \in [Card -> Style], NEW cb \in Callback
          PROVE  /\ cb \in brings => Drawn(style, cb)[c] \in G
                 /\ cb \in Holds(c, "stack") /\ style[c] \in G => Drawn(style, cb)[c] \in G
      <4>1. TransformUi(c, "stack").card = c /\ TransformUi(c, "stack").at = "stack"
        BY DEF TransformUi
      <4>2. cb \in Holds(c, "stack") => cb.at \in {"update", "stack"} \/ cb.card # c
        BY DEF Holds
      <4>3. CASE cb.at = "update"
        BY <2>2, <4>3
      <4>4. CASE cb.at # "update"
        BY <2>2, <4>1, <4>2, <4>4
      <4>5. QED
        BY <4>3, <4>4
    <3>2. Settles(frames, look, c, G, brings, Holds(c, "stack"))
      BY <2>5 DEF InMiddle
    <3> HIDE DEF brings, G
    <3>3. drawn[c] \in G
      BY <1>1, <3>1, <3>2, SettledDraws
    <3>4. QED
      BY <3>3 DEF G
  <2>6. QED
    BY <2>4, <2>5 DEF c
<1> HIDE DEF drawn
<1>6. StackTypeOK' /\ Dealing' /\ (touching' => fingers' > 0)
  <2>1. StackTypeOK'
    BY <1>1, <1>2 DEF StackTypeOK
  <2>2. QED
    BY <1>1, <2>1 DEF Dealing, Dealt
<1>7. AllAway'
  BY <1>1, <1>3, SettlesAtOnce DEF AllAway, IsAway
<1>8. InPlace'
  <2> SUFFICES ASSUME HasTopCard
               PROVE  /\ current = TopCard
                      /\ FirstDrawn(<<>>, drawn, TopCard)
                      /\ InMiddle(<<>>, drawn, TopCard) \/ displaced \/ (touching /\ moved # "none")
                      /\ \A i \in place + 2 .. Len(visible) : BehindTop(<<>>, drawn, i)
    BY <1>1 DEF InPlace, HasTopCard, TopCard, BehindTop
  <2>1. current = TopCard /\ (InMiddle(frames, look, TopCard) \/ displaced \/ (touching /\ moved # "none"))
    BY <1>1 DEF InPlace
  <2>2. FirstDrawn(<<>>, drawn, TopCard)
    BY <1>5, SettlesAtOnce DEF FirstDrawn
  <2>3. InMiddle(frames, look, TopCard) => InMiddle(<<>>, drawn, TopCard)
    BY <1>5, SettlesAtOnce DEF InMiddle
  <2>4. \A i \in place + 2 .. Len(visible) : BehindTop(<<>>, drawn, i)
    BY <1>4, SettlesAtOnce DEF BehindTop
  <2>5. QED
    BY <2>1, <2>2, <2>3, <2>4
<1>9. QED
  BY <1>6, <1>7, <1>8 DEF CardsInv

LEMMA TwoAppended ==
  ASSUME NEW S, NEW q \in Seq(S), NEW a \in S, NEW b \in S
  PROVE  q \o <<a, b>> = Append(Append(q, a), b)
<1> DEFINE r == Append(Append(q, a), b)
           t == q \o <<a, b>>
           n == Len(q)
<1>1. n \in Nat /\ <<a, b>> \in Seq(S) /\ Len(<<a, b>>) = 2
  OBVIOUS
<1>2. /\ t \in Seq(S) /\ Len(t) = n + 2
      /\ \A k \in 1 .. n : t[k] = q[k]
      /\ t[n + 1] = a /\ t[n + 2] = b
  BY <1>1
<1>3. /\ r \in Seq(S) /\ Len(r) = n + 2
      /\ \A k \in 1 .. n : r[k] = q[k]
      /\ r[n + 1] = a /\ r[n + 2] = b
  <2> DEFINE p == Append(q, a)
  <2>1. /\ p \in Seq(S) /\ Len(p) = n + 1 /\ p[n + 1] = a
        /\ \A k \in 1 .. n : p[k] = q[k]
    OBVIOUS
  <2> HIDE DEF p
  <2>2. /\ Append(p, b) \in Seq(S) /\ Len(Append(p, b)) = n + 2 /\ Append(p, b)[n + 2] = b
        /\ \A k \in 1 .. n + 1 : Append(p, b)[k] = p[k]
    BY <1>1, <2>1
  <2>3. QED
    BY <1>1, <2>1, <2>2 DEF p
<1> HIDE DEF r, t, n
<1>4. \A k \in 1 .. n + 2 : t[k] = r[k]
  BY <1>1, <1>2, <1>3
<1>5. t = r
  BY <1>1, <1>2, <1>3, <1>4
<1>6. QED
  BY <1>5 DEF r, t

(* The top card leaves, the next one is drawn on top.                       *)
LEMMA SwipeKeeps ==
  ASSUME StackTypeOK, Dealing, AllAway, InPlace, Swipe(frames)
  PROVE  /\ visible' \in Seq(Card) /\ toCome' \in Seq(Card) /\ visible' # <<>> /\ Len(visible') <= Size
         /\ place' \in 0 .. Len(visible') /\ current' \in Card /\ look' \in [Card -> Style]
         /\ frames' \in Seq(Callback) /\ refills' \in Nat /\ displaced' \in BOOLEAN
         /\ Dealing' /\ AllAway' /\ (HasTopCard' => current' = TopCard' /\ FirstDrawn(frames', look', TopCard')
                                   /\ InMiddle(frames', look', TopCard')
                                   /\ \A i \in place' + 2 .. Len(visible') : BehindTop(frames, look, i)')
<1> DEFINE T == TransformUi(current, "away")
           q == Append(frames, T)
<1>1. /\ HasTopCard /\ place' = place + 1 /\ frames' = frames \o <<T, UpdateUi>>
      /\ current' = IF place + 1 < Len(visible) THEN visible[place + 2] ELSE current
      /\ refills' = refills + 1 /\ look' = SetZindex(6) /\ displaced' = FALSE
      /\ visible' = visible /\ toCome' = toCome
  BY DEF Swipe, RemoveNoTransition
<1>2. /\ current = TopCard /\ TopCard \in Card
      /\ \A i \in 1 .. place : i \in 1 .. Len(visible) /\ visible[i] \in Card /\ visible[i] # TopCard
      /\ frames \in Seq(Callback) /\ current \in Card
  BY <1>1, TopIs DEF InPlace, StackTypeOK
<1>3. /\ T \in Callback /\ UpdateUi \in Callback /\ T \in {TransformUi(TopCard, "away")}
      /\ UpdateUi \in Holds(TopCard, "away")
      /\ \A i \in 1 .. place : T \in Holds(visible[i], "away") /\ UpdateUi \in Holds(visible[i], "away")
  BY <1>2, TopIs
<1> HIDE DEF T
<1>4. q \in Seq(Callback) /\ frames' = Append(q, UpdateUi)
  BY <1>1, <1>2, <1>3, TwoAppended
<1>5. /\ look' \in [Card -> Style]
      /\ \A c \in Card : c # TopCard => look'[c] = look[c]
  BY <1>1, ZindexIs
<1> HIDE DEF q
<1>6. /\ Len(visible) \in Nat \ {0} /\ place \in Nat /\ place + 1 <= Len(visible) /\ place + 1 \in 0 .. Len(visible)
      /\ TopCard = visible[place + 1]
      /\ \A i \in 1 .. Len(visible) : visible[i] \in Card
  BY <1>1, VisibleDiffer DEF HasTopCard, TopCard
<1>7. current' \in Card
  <2>1. place + 1 < Len(visible) => place + 2 \in 1 .. Len(visible)
    BY <1>6
  <2>2. QED
    BY <1>1, <1>2, <1>6, <2>1
<1>8. /\ visible' \in Seq(Card) /\ toCome' \in Seq(Card) /\ visible' # <<>> /\ Len(visible') <= Size
      /\ place' \in 0 .. Len(visible') /\ frames' \in Seq(Callback) /\ refills' \in Nat
      /\ displaced' \in BOOLEAN
  <2>1. frames' \in Seq(Callback)
    BY <1>3, <1>4
  <2>2. refills' \in Nat /\ place' \in 0 .. Len(visible')
    BY <1>1, <1>6 DEF StackTypeOK
  <2>3. QED
    BY <1>1, <2>1, <2>2 DEF StackTypeOK
<1>9. Dealing'
  BY <1>1 DEF Dealing, Dealt
<1>10. AllAway'
  <2>1. ASSUME NEW i \in 1 .. place PROVE IsAway(frames', look', visible[i])
    <3> DEFINE c == visible[i]
    <3>1. c \in Card /\ look'[c] = look[c] /\ IsAway(frames, look, c)
      BY <1>2, <1>5 DEF AllAway
    <3>2. T \in Callback \cap Holds(c, "away") /\ UpdateUi \in Callback \cap Holds(c, "away")
      BY <1>3
    <3> HIDE DEF c
    <3>3. IsAway(q, look', c)
      BY <1>2, <3>1, <3>2, SettlesStill DEF IsAway, q
    <3>4. IsAway(frames', look', c)
      BY <1>4, <3>2, <3>3, SettlesStill DEF IsAway
    <3>5. QED
      BY <3>4 DEF c
  <2>2. IsAway(frames', look', visible[place + 1])
    <3>1. IsAway(q, look', TopCard)
      BY <1>2, <1>3, SettlesNow DEF IsAway, q
    <3>2. IsAway(frames', look', TopCard)
      BY <1>3, <1>4, <3>1, SettlesStill DEF IsAway
    <3>3. QED
      BY <1>6, <3>2
  <2>3. \A i \in 1 .. place + 1 : i \in 1 .. place \/ i = place + 1
    BY <1>6
  <2>4. \A i \in 1 .. place + 1 : IsAway(frames', look', visible[i])
    BY <2>1, <2>2, <2>3
  <2>5. QED
    BY <1>1, <2>4 DEF AllAway
<1>11. ASSUME HasTopCard'
       PROVE  /\ current' = TopCard' /\ FirstDrawn(frames', look', TopCard')
              /\ InMiddle(frames', look', TopCard')
              /\ \A i \in place' + 2 .. Len(visible') : BehindTop(frames, look, i)'
  <2>1. place + 1 < Len(visible) /\ TopCard' = visible[(place + 1) + 1] /\ (place + 1) + 1 = place + 2
    BY <1>1, <1>6, <1>11 DEF HasTopCard, TopCard
  <2>2. current' = TopCard'
    BY <1>1, <2>1
  <2>3. \A i \in place' + 2 .. Len(visible') : BehindTop(frames, look, i)'
    BY <1>3, <1>4, SettlesNow DEF BehindTop
  <2>4. FirstDrawn(frames', look', TopCard') /\ InMiddle(frames', look', TopCard')
    BY <1>3, <1>4, SettlesNow DEF FirstDrawn, InMiddle
  <2>5. QED
    BY <2>2, <2>3, <2>4
<1>12. QED
  BY <1>5, <1>7, <1>8, <1>9, <1>10, <1>11

(* The first card goes, and one that was to come is drawn behind the rest.  *)
LEMMA AddCardKeeps == ASSUME CardsInv, AddCard PROVE CardsInv'
<1>1. /\ StackTypeOK /\ Dealing /\ AllAway /\ InPlace /\ (touching => fingers > 0)
      /\ refills > 0 /\ HasTopCard /\ refills' = refills - 1
      /\ UNCHANGED <<fingers, touching, moved>>
  BY DEF CardsInv, AddCard, gesture
<1>2. refills' \in Nat
  BY <1>1 DEF StackTypeOK
<1>3. CASE toCome = <<>>
  <2>1. UNCHANGED <<visible, toCome, place, current, look, frames, displaced>>
    BY <1>3 DEF AddCard, stack
  <2>2. StackTypeOK'
    BY <1>1, <1>2, <2>1 DEF StackTypeOK
  <2>3. Dealing' /\ AllAway' /\ InPlace'
    BY <1>1, <2>1 DEF Dealing, Dealt, AllAway, InPlace, HasTopCard, TopCard, BehindTop
  <2>4. QED
    BY <1>1, <2>2, <2>3 DEF CardsInv
<1>4. CASE toCome # <<>>
  <2> DEFINE t == Tail(visible)
             n == Len(visible)
             l == Len(toCome)
  <2>1. /\ visible' = Append(t, Head(toCome)) /\ toCome' = Tail(toCome) /\ place' = 0
        /\ look' = [look EXCEPT ![Head(visible)] = Plain] /\ displaced' = FALSE
        /\ current' = visible'[1] /\ frames' = Append(frames, UpdateUi)
    BY <1>4 DEF AddCard, Refresh
  <2>2. /\ visible \in Seq(Card) /\ visible # <<>> /\ toCome \in Seq(Card) /\ n <= Size
        /\ look \in [Card -> Style] /\ frames \in Seq(Callback)
    BY <1>1 DEF StackTypeOK
  <2>3. /\ Head(visible) \in Card /\ t \in Seq(Card) /\ Len(t) + 1 = n /\ n \in Nat
        /\ \A i \in 1 .. Len(t) : i + 1 \in 1 .. n /\ t[i] = visible[i + 1]
    BY <2>2, HeadAndTail
  <2>4. /\ Head(toCome) \in Card /\ Head(toCome) = toCome[1] /\ 1 \in 1 .. l /\ l \in Nat
        /\ Tail(toCome) \in Seq(Card) /\ Len(Tail(toCome)) + 1 = l
        /\ \A i \in 1 .. Len(Tail(toCome)) : i + 1 \in 1 .. l /\ Tail(toCome)[i] = toCome[i + 1]
    BY <1>4, <2>2, HeadAndTail
  <2>5. /\ visible' \in Seq(Card) /\ Len(visible') = n /\ visible'[n] = Head(toCome)
        /\ \A i \in 1 .. n : i # n => i \in 1 .. Len(t) /\ visible'[i] = t[i]
    <3> HIDE DEF t, n
    <3>1. /\ visible' \in Seq(Card) /\ Len(visible') = Len(t) + 1 /\ visible'[Len(t) + 1] = Head(toCome)
          /\ \A i \in 1 .. Len(t) : visible'[i] = t[i]
      BY <2>1, <2>3, <2>4
    <3>2. Len(t) \in Nat
      BY <2>3
    <3>3. \A i \in 1 .. n : i # n => i \in 1 .. Len(t)
      BY <2>3, <3>2
    <3>4. QED
      BY <2>3, <3>1, <3>3
  <2> HIDE DEF t, n, l
  <2>6. n # 0 /\ 1 \in 1 .. n
    BY <2>3
  <2>7. Plain \in Style
    BY DeckIs DEF Plain, Style
  <2>8. look' \in [Card -> Style] /\ frames' \in Seq(Callback) /\ current' \in Card
    <3>1. frames' \in Seq(Callback)
      BY <1>1, <2>1, <2>2, TopIs
    <3>2. visible'[1] \in Card
      BY <2>5, <2>6
    <3>3. QED
      BY <2>1, <2>2, <2>3, <2>7, <3>1, <3>2
  <2>9. StackTypeOK'
    <3>1. visible' # <<>> /\ Len(visible') <= Size /\ place' \in 0 .. Len(visible')
      BY <2>1, <2>2, <2>3, <2>5, <2>6 DEF n
    <3>2. displaced' \in BOOLEAN
      BY <2>1
    <3>3. toCome' \in Seq(Card)
      BY <2>1, <2>4
    <3>4. QED
      BY <1>1, <1>2, <2>5, <2>8, <3>1, <3>2, <3>3 DEF StackTypeOK
  <2>10. Dealing'
    <3> DEFINE d == Dealt
               N == Len(Deck)
    <3>1. /\ N \in Nat /\ d = N - n - l /\ d \in Nat /\ Dealt' = N - Len(visible') - Len(toCome')
      BY <1>1, DeckIs DEF Dealing, Dealt, n, l
    <3>2. Dealt' = d + 1 /\ Len(toCome') = l - 1
      <4>1. Len(visible') = n /\ Len(toCome') + 1 = l /\ n \in Nat /\ l \in Nat
        BY <2>1, <2>3, <2>4, <2>5
      <4>2. Len(toCome') \in Nat
        BY <2>1, <2>4
      <4> HIDE DEF d, N
      <4>3. QED
        BY <3>1, <4>1, <4>2
    <3>3. ASSUME NEW i \in 1 .. n PROVE visible'[i] = Deck[(d + 1) + i]
      <4>1. CASE i # n
        <5>1. visible'[i] = visible[i + 1] /\ i + 1 \in 1 .. n
          BY <2>3, <2>5, <4>1
        <5>2. visible[i + 1] = Deck[d + (i + 1)]
          BY <1>1, <5>1 DEF Dealing, n
        <5>3. d + (i + 1) = (d + 1) + i
          BY <2>3, <3>1
        <5>4. QED
          BY <5>1, <5>2, <5>3
      <4>2. CASE i = n
        <5>1. visible'[i] = toCome[1]
          BY <2>4, <2>5, <4>2
        <5>2. toCome[1] = Deck[d + n + 1]
          BY <1>1, <2>4 DEF Dealing, n, l
        <5>3. d + n + 1 = (d + 1) + i
          BY <2>3, <3>1, <4>2
        <5>4. QED
          BY <5>1, <5>2, <5>3
      <4>3. QED
        BY <4>1, <4>2
    <3>4. ASSUME NEW i \in 1 .. Len(toCome') PROVE toCome'[i] = Deck[(d + 1) + n + i]
      <4>1. i + 1 \in 1 .. l /\ toCome'[i] = toCome[i + 1]
        BY <2>1, <2>4
      <4>2. toCome[i + 1] = Deck[d + n + (i + 1)]
        BY <1>1, <4>1 DEF Dealing, n, l
      <4>3. d + n + (i + 1) = (d + 1) + n + i
        <5>1. i \in Nat
          BY <2>4, <3>2
        <5>2. QED
          BY <2>3, <3>1, <5>1
      <4>4. QED
        BY <4>1, <4>2, <4>3
    <3>5. Dealt' \in Nat
      BY <3>1, <3>2
    <3> HIDE DEF d
    <3>6. QED
      BY <2>5, <3>2, <3>3, <3>4, <3>5 DEF Dealing
  <2>11. AllAway'
    <3>1. \A i \in 1 .. 0 : FALSE
      OBVIOUS
    <3>2. QED
      BY <2>1, <3>1 DEF AllAway
  <2>12. InPlace'
    <3>1. TopCard' = visible'[1]
      <4>1. 0 + 1 = 1
        OBVIOUS
      <4>2. QED
        BY <2>1, <4>1 DEF TopCard
    <3>2. UpdateUi \in Callback
      BY <1>1, TopIs
    <3>3. FirstDrawn(frames', look', TopCard') /\ InMiddle(frames', look', TopCard')
      BY <2>1, <2>2, <3>2, SettlesNow DEF FirstDrawn, InMiddle
    <3>4. \A i \in place' + 2 .. Len(visible') : BehindTop(frames, look, i)'
      BY <2>1, <2>2, <3>2, SettlesNow DEF BehindTop
    <3>5. QED
      BY <2>1, <3>1, <3>3, <3>4 DEF InPlace
  <2>13. QED
    BY <1>1, <2>9, <2>10, <2>11, <2>12 DEF CardsInv
<1>5. QED
  BY <1>3, <1>4

(* The z-index of the top card and callbacks for it move no other card.     *)
LEMMA TopOnly ==
  ASSUME StackTypeOK, Dealing, AllAway, HasTopCard, NEW new,
         \A c \in Card : c # TopCard => new[c] = look[c]
  PROVE  /\ \A i \in 1 .. place : IsAway(frames, new, visible[i])
         /\ \A w \in {"stack", "finger", "away"} : \A i \in 1 .. place :
              IsAway(Append(frames, TransformUi(TopCard, w)), new, visible[i])
         /\ \A i \in place + 2 .. Len(visible) : BehindTop(frames, look, i) =>
              /\ BehindTop(frames, new, i)
              /\ \A w \in {"stack", "finger", "away"} :
                   BehindTop(Append(frames, TransformUi(TopCard, w)), new, i)
<1>1. frames \in Seq(Callback) /\ TopCard \in Card
  BY TopIs DEF StackTypeOK
<1>2. ASSUME NEW i \in 1 .. place
      PROVE  /\ IsAway(frames, new, visible[i])
             /\ \A w \in {"stack", "finger", "away"} :
                  IsAway(Append(frames, TransformUi(TopCard, w)), new, visible[i])
  <2> DEFINE c == visible[i]
  <2>1. /\ c \in Card /\ c # TopCard /\ IsAway(frames, look, c)
        /\ \A w \in {"stack", "finger", "away"} : TransformUi(TopCard, w) \in Callback \cap Holds(c, "away")
    BY <1>1, TopIs DEF AllAway
  <2> HIDE DEF c
  <2>2. new[c] = look[c]
    BY <2>1
  <2>3. /\ IsAway(frames, new, c)
        /\ \A w \in {"stack", "finger", "away"} : IsAway(Append(frames, TransformUi(TopCard, w)), new, c)
    BY <1>1, <2>1, <2>2, SettlesStill DEF IsAway
  <2>4. QED
    BY <2>3 DEF c
<1>3. ASSUME NEW i \in place + 2 .. Len(visible), BehindTop(frames, look, i)
      PROVE  /\ BehindTop(frames, new, i)
             /\ \A w \in {"stack", "finger", "away"} :
                  BehindTop(Append(frames, TransformUi(TopCard, w)), new, i)
  <2> DEFINE c == visible[i]
             d == {InStack(i - 1 - place)}
  <2>1. /\ c \in Card /\ c # TopCard /\ Settles(frames, look, c, d, {UpdateUi}, Spares(c))
        /\ \A w \in {"stack", "finger", "away"} : TransformUi(TopCard, w) \in Callback \cap Spares(c)
    BY <1>1, <1>3, TopIs DEF BehindTop
  <2> HIDE DEF c, d
  <2>2. new[c] = look[c]
    BY <2>1
  <2>3. /\ Settles(frames, new, c, d, {UpdateUi}, Spares(c))
        /\ \A w \in {"stack", "finger", "away"} :
             Settles(Append(frames, TransformUi(TopCard, w)), new, c, d, {UpdateUi}, Spares(c))
    BY <1>1, <2>1, <2>2, SettlesStill
  <2>4. QED
    BY <2>3 DEF c, d, BehindTop
<1>4. QED
  BY <1>2, <1>3

(* A z-index on top, and perhaps a callback for the top card.               *)
LEMMA GesturesKeep ==
  ASSUME CardsInv, HasTopCard, UNCHANGED stack,
         \/ look' = look
         \/ \E z \in {5, 6} : look' = SetZindex(z),
         \/ frames' = frames
         \/ \E w \in {"stack", "finger"} : frames' = Append(frames, TransformUi(TopCard, w))
  PROVE  /\ look' \in [Card -> Style] /\ frames' \in Seq(Callback)
         /\ Dealing' /\ AllAway'
         /\ HasTopCard' /\ current' = TopCard' /\ TopCard' = TopCard
         /\ FirstDrawn(frames', look', TopCard)
         /\ frames' = frames /\ InMiddle(frames, look, TopCard) => InMiddle(frames', look', TopCard)
         /\ frames' = Append(frames, TransformUi(TopCard, "stack")) => InMiddle(frames', look', TopCard)
         /\ \A i \in place' + 2 .. Len(visible') : BehindTop(frames, look, i)'
<1>1. /\ StackTypeOK /\ Dealing /\ AllAway /\ InPlace
      /\ visible' = visible /\ toCome' = toCome /\ place' = place /\ current' = current
      /\ frames \in Seq(Callback) /\ look \in [Card -> Style]
  BY DEF CardsInv, stack, StackTypeOK
<1>2. /\ look' \in [Card -> Style]
      /\ \A c \in Card : c # TopCard => look'[c] = look[c]
      /\ look[TopCard] \in LooksFirst => look'[TopCard] \in LooksFirst
      /\ \A where : look[TopCard] \in LooksAt(where) => look'[TopCard] \in LooksAt(where)
  BY <1>1, ZindexIs
<1>3. /\ TopCard \in Card /\ current = TopCard
      /\ \A w \in {"stack", "finger", "away"} : TransformUi(TopCard, w) \in Callback
  BY <1>1, TopIs DEF InPlace
<1>4. frames' \in Seq(Callback)
  BY <1>1, <1>3
<1>5. Dealing'
  BY <1>1 DEF Dealing, Dealt
<1>6. /\ \A i \in 1 .. place : IsAway(frames', look', visible[i])
      /\ \A i \in place + 2 .. Len(visible) : BehindTop(frames', look', i)
  BY <1>1, <1>2, TopOnly DEF InPlace
<1>7. AllAway'
  BY <1>1, <1>6 DEF AllAway
<1>8. \A i \in place' + 2 .. Len(visible') : BehindTop(frames, look, i)'
  BY <1>1, <1>6 DEF BehindTop
<1>9. HasTopCard' /\ TopCard' = TopCard
  BY <1>1 DEF HasTopCard, TopCard
<1>10. FirstDrawn(frames', look', TopCard)
  <2>1. FirstDrawn(frames, look, TopCard)
    BY <1>1 DEF InPlace
  <2>2. CASE frames' = frames
    BY <1>1, <1>2, <2>1, <2>2, SettlesStill DEF FirstDrawn
  <2>3. ASSUME NEW w \in {"stack", "finger"}, frames' = Append(frames, TransformUi(TopCard, w))
        PROVE  FirstDrawn(frames', look', TopCard)
    <3>1. TransformUi(TopCard, w) \in Callback \cap Callback
      BY <1>3
    <3>2. FirstDrawn(Append(frames, TransformUi(TopCard, w)), look', TopCard)
      BY <1>1, <1>2, <2>1, <3>1, SettlesStill DEF FirstDrawn
    <3>3. QED
      BY <2>3, <3>2
  <2>4. QED
    BY <2>2, <2>3
<1>11. frames' = frames /\ InMiddle(frames, look, TopCard) => InMiddle(frames', look', TopCard)
  BY <1>1, <1>2, SettlesStill DEF InMiddle
<1>12. frames' = Append(frames, TransformUi(TopCard, "stack")) => InMiddle(frames', look', TopCard)
  BY <1>1, <1>3, SettlesNow DEF InMiddle
<1>13. QED
  BY <1>1, <1>2, <1>3, <1>4, <1>5, <1>7, <1>8, <1>9, <1>10, <1>11, <1>12

LEMMA GestureStartKeeps == ASSUME CardsInv, GestureStart PROVE CardsInv'
<1>1. /\ HasTopCard /\ fingers < 2 /\ fingers' = fingers + 1 /\ touching' = TRUE /\ moved' = "none"
      /\ look' = SetZindex(6) /\ displaced' = (displaced \/ moved # "none")
      /\ UNCHANGED stack /\ frames' = frames /\ refills' = refills
  BY DEF GestureStart
<1>2. /\ look' \in [Card -> Style] /\ frames' \in Seq(Callback) /\ Dealing' /\ AllAway'
      /\ HasTopCard' /\ current' = TopCard' /\ TopCard' = TopCard /\ FirstDrawn(frames', look', TopCard)
      /\ InMiddle(frames, look, TopCard) => InMiddle(frames', look', TopCard)
      /\ \A i \in place' + 2 .. Len(visible') : BehindTop(frames, look, i)'
  BY <1>1, GesturesKeep
<1>3. StackTypeOK /\ fingers \in 0 .. 2 /\ displaced \in BOOLEAN /\ moved \in Move
  BY DEF CardsInv, StackTypeOK
<1>4. fingers' \in 0 .. 2 /\ fingers' > 0 /\ displaced' \in BOOLEAN /\ moved' \in Move
  BY <1>1, <1>3 DEF Move
<1>5. StackTypeOK'
  BY <1>1, <1>2, <1>3, <1>4 DEF StackTypeOK, stack
<1>6. InMiddle(frames', look', TopCard') \/ displaced'
  BY <1>1, <1>2 DEF CardsInv, InPlace
<1>7. InPlace'
  BY <1>2, <1>6 DEF InPlace
<1>8. QED
  BY <1>2, <1>4, <1>5, <1>7 DEF CardsInv

LEMMA GestureMoveKeeps == ASSUME CardsInv, NEW move \in Move, GestureMove(move) PROVE CardsInv'
<1>1. /\ HasTopCard /\ fingers > 0 /\ move # "none" /\ moved' = move
      /\ frames' = Append(frames, TransformUi(current, "finger"))
      /\ displaced' = (displaced \/ ~touching)
      /\ UNCHANGED stack /\ look' = look /\ refills' = refills /\ fingers' = fingers
      /\ touching' = touching
  BY DEF GestureMove
<1>2. /\ StackTypeOK /\ displaced \in BOOLEAN /\ touching \in BOOLEAN /\ current = TopCard
  BY <1>1 DEF CardsInv, StackTypeOK, InPlace
<1>3. /\ look' \in [Card -> Style] /\ frames' \in Seq(Callback) /\ Dealing' /\ AllAway'
      /\ HasTopCard' /\ current' = TopCard' /\ TopCard' = TopCard /\ FirstDrawn(frames', look', TopCard)
      /\ \A i \in place' + 2 .. Len(visible') : BehindTop(frames, look, i)'
  BY <1>1, <1>2, GesturesKeep
<1>4. StackTypeOK'
  BY <1>1, <1>2, <1>3 DEF StackTypeOK, stack
<1>5. displaced' \/ (touching' /\ moved' # "none")
  BY <1>1, <1>2
<1>6. InPlace'
  BY <1>3, <1>5 DEF InPlace
<1>7. QED
  BY <1>1, <1>3, <1>4, <1>6 DEF CardsInv

LEMMA ButtonSwipeKeeps == ASSUME CardsInv, ButtonSwipe PROVE CardsInv'
<1>1. /\ StackTypeOK /\ Dealing /\ AllAway /\ InPlace /\ Swipe(frames)
      /\ UNCHANGED <<fingers, touching, moved>>
  BY DEF CardsInv, ButtonSwipe, gesture
<1>2. StackTypeOK'
  BY <1>1, SwipeKeeps DEF StackTypeOK
<1>3. Dealing' /\ AllAway' /\ InPlace'
  BY <1>1, SwipeKeeps DEF InPlace
<1>4. QED
  BY <1>1, <1>2, <1>3 DEF CardsInv

LEMMA GestureEndKeeps == ASSUME CardsInv, NEW far \in BOOLEAN, GestureEnd(far) PROVE CardsInv'
<1>1. /\ HasTopCard /\ fingers > 0 /\ fingers' = fingers - 1 /\ touching' = FALSE
      /\ moved' = IF fingers = 1 THEN "none" ELSE moved
  BY DEF GestureEnd
<1>2. /\ StackTypeOK /\ Dealing /\ AllAway /\ InPlace /\ current = TopCard
      /\ fingers \in 0 .. 2 /\ moved \in Move /\ {touching, displaced} \subseteq BOOLEAN
  BY <1>1 DEF CardsInv, StackTypeOK, InPlace
<1>3. fingers' \in 0 .. 2 /\ moved' \in Move /\ touching' \in BOOLEAN
  <2>1. fingers' \in 0 .. 2
    BY <1>1, <1>2
  <2>2. moved' \in Move
    BY <1>1, <1>2 DEF Move
  <2>3. QED
    BY <1>1, <2>1, <2>2
<1>4. CASE /\ ~touching \/ moved \in {"none", "straight"}
           /\ displaced' = (displaced \/ (touching /\ moved = "straight"))
           /\ UNCHANGED <<stack, look, frames, refills>>
  <2>1. /\ look' \in [Card -> Style] /\ frames' \in Seq(Callback) /\ Dealing' /\ AllAway'
        /\ HasTopCard' /\ current' = TopCard' /\ TopCard' = TopCard /\ FirstDrawn(frames', look', TopCard)
        /\ InMiddle(frames, look, TopCard) => InMiddle(frames', look', TopCard)
        /\ \A i \in place' + 2 .. Len(visible') : BehindTop(frames, look, i)'
    BY <1>1, <1>4, GesturesKeep
  <2>2. StackTypeOK'
    BY <1>2, <1>3, <1>4, <2>1 DEF StackTypeOK, stack
  <2>3. InMiddle(frames', look', TopCard') \/ displaced'
    BY <1>1, <1>2, <1>4, <2>1 DEF InPlace
  <2>4. InPlace'
    BY <2>1, <2>3 DEF InPlace
  <2>5. QED
    BY <1>1, <2>1, <2>2, <2>4 DEF CardsInv
<1>5. CASE Swipe(frames)
  <2>1. StackTypeOK'
    BY <1>2, <1>3, <1>5, SwipeKeeps DEF StackTypeOK
  <2>2. Dealing' /\ AllAway' /\ InPlace'
    BY <1>2, <1>5, SwipeKeeps DEF InPlace
  <2>3. QED
    BY <1>1, <2>1, <2>2 DEF CardsInv
<1>6. CASE BackToMiddle(frames) /\ UNCHANGED <<stack, refills>>
  <2>1. /\ frames' = Append(frames, TransformUi(TopCard, "stack")) /\ look' = SetZindex(5)
        /\ displaced' = FALSE
    BY <1>2, <1>6 DEF BackToMiddle
  <2>2. /\ look' \in [Card -> Style] /\ frames' \in Seq(Callback) /\ Dealing' /\ AllAway'
        /\ HasTopCard' /\ current' = TopCard' /\ TopCard' = TopCard /\ FirstDrawn(frames', look', TopCard)
        /\ InMiddle(frames', look', TopCard)
        /\ \A i \in place' + 2 .. Len(visible') : BehindTop(frames, look, i)'
    BY <1>1, <1>6, <2>1, GesturesKeep
  <2>3. StackTypeOK'
    BY <1>2, <1>3, <1>6, <2>1, <2>2 DEF StackTypeOK, stack
  <2>4. InPlace'
    BY <2>2 DEF InPlace
  <2>5. QED
    BY <1>1, <2>2, <2>3, <2>4 DEF CardsInv
<1>7. QED
  BY <1>4, <1>5, <1>6 DEF GestureEnd

LEMMA StackInitHolds == ASSUME StackInit PROVE CardsInv
<1> DEFINE n == IF Len(Deck) < Size THEN Len(Deck) ELSE Size
           l == Len(Deck)
<1>1. /\ visible = SubSeq(Deck, 1, n) /\ toCome = SubSeq(Deck, n + 1, l)
      /\ place = 0 /\ current = Deck[1]
      /\ look = [c \in Card |-> Plain] /\ frames = <<UpdateUi>> /\ refills = 0
      /\ fingers = 0 /\ touching = FALSE /\ moved = "none" /\ displaced = FALSE
  BY DEF StackInit
<1>2. n \in 2 .. 5 /\ n <= l /\ n <= Size /\ l \in Nat /\ Deck \in Seq(Card)
  <2>1. l \in Nat /\ l >= 2 /\ Size \in 2 .. 5
    BY DeckIs
  <2> HIDE DEF l
  <2>2. n = (IF l < Size THEN l ELSE Size)
    BY DEF l
  <2> HIDE DEF n
  <2>3. n \in 2 .. 5 /\ n <= l /\ n <= Size
    BY <2>1, <2>2
  <2>4. QED
    BY <2>1, <2>3, DeckIs
<1> HIDE DEF n
<1>3. /\ visible \in Seq(Card) /\ Len(visible) = n
      /\ \A i \in 1 .. n : visible[i] = Deck[i]
  BY <1>1, <1>2
<1>4. /\ toCome \in Seq(Card) /\ Len(toCome) = l - n
      /\ \A i \in 1 .. Len(toCome) : toCome[i] = Deck[n + i]
  BY <1>1, <1>2
<1>5. Dealt = 0
  BY <1>2, <1>3, <1>4 DEF Dealt
<1>6. Dealing
  <2>1. \A i \in 1 .. Len(visible) : Deck[0 + i] = Deck[i]
    OBVIOUS
  <2>2. \A i \in 1 .. Len(visible) : visible[i] = Deck[Dealt + i]
    BY <1>3, <1>5, <2>1
  <2>3. Dealt + Len(visible) = n
    BY <1>2, <1>3, <1>5
  <2>4. QED
    BY <1>4, <1>5, <2>2, <2>3 DEF Dealing
<1>7. Plain \in Style
  BY <1>2, DeckIs DEF Plain, Style
<1>8. UpdateUi \in Callback /\ frames \in Seq(Callback) /\ Len(frames) = 1 /\ frames[1] = UpdateUi
  <2>1. UpdateUi \in Callback
    BY DEF UpdateUi, Callback
  <2>2. QED
    BY <1>1, <2>1
<1>9. StackTypeOK
  <2>1. visible # <<>>
    BY <1>2, <1>3
  <2>2. current \in Card
    BY <1>1, DeckIs
  <2>3. look \in [Card -> Style]
    BY <1>1, <1>7
  <2>4. place \in 0 .. Len(visible) /\ Len(visible) <= Size /\ refills \in Nat /\ fingers \in 0 .. 2
    BY <1>1, <1>2, <1>3
  <2>5. moved \in Move
    BY <1>1 DEF Move
  <2>6. QED
    BY <1>1, <1>3, <1>4, <1>8, <2>1, <2>2, <2>3, <2>4, <2>5 DEF StackTypeOK
<1>10. \A card, Goal, Keeps : Settles(frames, look, card, Goal, {UpdateUi}, Keeps)
  <2> TAKE card, Goal, Keeps
  <2>1. 1 \in 0 .. Len(frames) /\ frames[1] \in {UpdateUi}
    BY <1>8
  <2>2. \A j \in 1 .. Len(frames) : j > 1 => frames[j] \in Keeps
    BY <1>8
  <2>3. QED
    BY <2>1, <2>2 DEF Settles
<1>11. \A card : InMiddle(frames, look, card)
  <2> TAKE card
  <2>1. 1 \in 0 .. Len(frames) /\ frames[1] \in {UpdateUi, TransformUi(card, "stack")}
    BY <1>8
  <2>2. \A j \in 1 .. Len(frames) : j > 1 => frames[j] \in Holds(card, "stack")
    BY <1>8
  <2>3. QED
    BY <2>1, <2>2 DEF InMiddle, Settles
<1>12. InPlace
  <2>1. current = TopCard
    <3>1. visible[0 + 1] = Deck[1]
      BY <1>2, <1>3
    <3>2. QED
      BY <1>1, <3>1 DEF TopCard
  <2>2. QED
    BY <1>10, <1>11, <2>1 DEF InPlace, FirstDrawn, BehindTop
<1>13. AllAway
  BY <1>1 DEF AllAway
<1>14. QED
  BY <1>1, <1>6, <1>9, <1>12, <1>13 DEF CardsInv

LEMMA CardsInvStays == ASSUME CardsInv, UNCHANGED stackVars PROVE CardsInv'
<1>1. /\ visible' = visible /\ toCome' = toCome /\ place' = place /\ current' = current
      /\ look' = look /\ frames' = frames /\ refills' = refills /\ fingers' = fingers
      /\ touching' = touching /\ moved' = moved /\ displaced' = displaced
  BY DEF stackVars, stack, gesture
<1>2. StackTypeOK'
  BY <1>1 DEF CardsInv, StackTypeOK
<1>3. Dealing' /\ (touching' => fingers' > 0)
  BY <1>1 DEF CardsInv, Dealing, Dealt
<1>4. AllAway'
  BY <1>1 DEF CardsInv, AllAway
<1>5. TopCard' = TopCard /\ HasTopCard' = HasTopCard
  BY <1>1 DEF TopCard, HasTopCard
<1>6. \A i : BehindTop(frames, look, i)' = BehindTop(frames, look, i)
  BY <1>1 DEF BehindTop
<1>7. InPlace'
  BY <1>1, <1>5, <1>6 DEF CardsInv, InPlace
<1>8. QED
  BY <1>2, <1>3, <1>4, <1>7 DEF CardsInv

(* At any time of the stack: the cards shown are a window on the deck, and  *)
(* the callbacks that wait will leave each of them where it belongs         *)
(* (the frame, swipes, refills and gestures of oap-swipable-cards.js).      *)
THEOREM StackInvariant == StackSpec => []CardsInv
<1>1. StackInit => CardsInv
  BY StackInitHolds
<1>2. CardsInv /\ [StackNext]_stackVars => CardsInv'
  BY FrameKeeps, ButtonSwipeKeeps, AddCardKeeps, GestureStartKeeps, GestureMoveKeeps,
     GestureEndKeeps, CardsInvStays DEF StackNext
<1>3. QED
  BY <1>1, <1>2, PTL DEF StackSpec

(* With no callback waiting, a card is where the invariant says it will be. *)
LEMMA SettledNow ==
  ASSUME NEW style, NEW card, NEW Goal, NEW Brings, NEW Keeps,
         Settles(<<>>, style, card, Goal, Brings, Keeps)
  PROVE  style[card] \in Goal
BY DEF Settles

(* However gestures, buttons, frames and refills follow one another: at     *)
(* rest the stack lies in order and the card on top is the one a finger     *)
(* would take (updateUi, transformUi and refresh).                          *)
THEOREM StackOrdered == StackSpec => []StackIsInOrder
<1>1. ASSUME CardsInv, AtRest PROVE StackIsInOrder
  <2>1. /\ HasTopCard /\ frames = <<>> /\ fingers = 0 /\ ~touching
        /\ StackTypeOK /\ Dealing /\ AllAway /\ InPlace
    BY <1>1 DEF AtRest, CardsInv, StackTypeOK
  <2>2. current = TopCard /\ look[TopCard] \in LooksFirst
    BY <2>1, SettledNow DEF InPlace, FirstDrawn
  <2>3. ~displaced => look[TopCard] \in LooksAt("stack")
    BY <2>1, SettledNow DEF InPlace, InMiddle
  <2>4. \A i \in 1 .. place : look[visible[i]].at = "away"
    <3> TAKE i \in 1 .. place
    <3>1. look[visible[i]] \in LooksAt("away")
      BY <2>1, SettledNow DEF AllAway, IsAway
    <3>2. QED
      BY <3>1 DEF LooksAt
  <2>5. \A i \in place + 2 .. Len(visible) : look[visible[i]] = InStack(i - 1 - place)
    <3> TAKE i \in place + 2 .. Len(visible)
    <3>1. BehindTop(<<>>, look, i)
      BY <2>1 DEF InPlace
    <3>2. look[visible[i]] \in {InStack(i - 1 - place)}
      BY <3>1, SettledNow DEF BehindTop
    <3>3. QED
      BY <3>2
  <2>6. place \in Nat /\ Len(visible) \in Nat
    BY <2>1, VisibleDiffer
  <2>6a. ASSUME NEW d
         PROVE  /\ InStack(d).at = "stack" /\ InStack(d).depth = d
                /\ InStack(d).z = 5 - d
    BY DEF InStack
  <2>7. ASSUME NEW i \in place + 2 .. Len(visible)
        PROVE  /\ look[visible[i]].at = "stack" /\ look[visible[i]].depth = i - 1 - place
               /\ look[visible[i]].z < look[visible[i - 1]].z
    <3>1. /\ look[visible[i]].at = "stack" /\ look[visible[i]].depth = i - 1 - place
          /\ look[visible[i]].z = 5 - (i - 1 - place)
      BY <2>5, <2>6a
    <3>2. CASE i = place + 2
      <4>1. i - 1 = place + 1
        BY <2>6, <3>2
      <4>2. look[visible[i - 1]].z \in 5 .. 6
        BY <2>2, <4>1 DEF TopCard, LooksFirst
      <4>3. 5 - (i - 1 - place) = 4
        BY <2>6, <3>2
      <4>4. QED
        BY <3>1, <4>2, <4>3
    <3>3. CASE i # place + 2
      <4>1. i - 1 \in place + 2 .. Len(visible)
        BY <2>6, <3>3
      <4>2. look[visible[i - 1]].z = 5 - (i - 1 - 1 - place)
        BY <2>5, <2>6a, <4>1
      <4>3. 5 - (i - 1 - place) < 5 - (i - 1 - 1 - place)
        BY <2>6
      <4>4. QED
        BY <3>1, <4>2, <4>3
    <3>4. QED
      BY <3>1, <3>2, <3>3
  <2>8. look[TopCard].depth = 0 /\ (~displaced => look[TopCard].at = "stack")
    BY <2>2, <2>3 DEF LooksFirst, LooksAt
  <2>9. QED
    BY <2>2, <2>4, <2>7, <2>8 DEF StackIsInOrder
<1>2. CardsInv => StackIsInOrder
  BY <1>1 DEF StackIsInOrder
<1>3. QED
  BY <1>2, StackInvariant, PTL
=============================================================================
