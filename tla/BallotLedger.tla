---------------------------- MODULE BallotLedger ----------------------------
(***************************************************************************)
(* The choice-point ledger of the article ballot: what is in the           *)
(* constitution, what was paid for it, what the citizens' attitudes gave   *)
(* back or took, and what of all that survives leaving the page, trying    *)
(* again and reloading a saved game.                                       *)
(*                                                                         *)
(* The state lives in four places of the client: oap-app (persisted by the *)
(* autosave), oap-3d-budget (toggleBudgetItem), oap-ballot (the available  *)
(* list and its 450 ms and 600 ms timers) and oap-article-item (the cards).*)
(* LitElement hands a change from the budget to the app in the microtask   *)
(* after it, so the two copies are one variable here.                      *)
(*                                                                         *)
(* An article object is "live" when the object in the available list is    *)
(* the one in selectedItems: toggleBudgetItem compares objects, while      *)
(* _removeItemFromArray compares ids.  A game restored from JSON has two   *)
(* objects per selected article, and the selected one is an "orphan".      *)
(***************************************************************************)
EXTENDS Integers

CONSTANTS
  Article,      \* ids of the articles that passed the filter, headers left out
  Price,        \* item.price
  Bonus,        \* sum of the distinct bonuses of an article for the country
  Penalty,      \* sum of the distinct penalties of an article for the country
  Cost,         \* what a set of articles costs together
  BonusSum,     \* what the bonuses of a set of articles add up to
  StartPoints,  \* totalChoicePoints when filtering starts: 100 + quiz points
  MaxRestores,  \* bound: how many times a saved game is reloaded
  NoSave        \* nothing in localStorage

(* F is the additive extension of f to sets of articles. *)
Extends(F, f) ==
  /\ F \in [SUBSET Article -> Nat]
  /\ F[{}] = 0
  /\ \A S \in SUBSET Article : \A a \in Article \ S : F[S \union {a}] = F[S] + f[a]

ASSUME LedgerAssumption ==
  /\ Price \in [Article -> Nat \ {0}]
  /\ Bonus \in [Article -> Nat]
  /\ Penalty \in [Article -> Nat]
  /\ Extends(Cost, Price)
  /\ Extends(BonusSum, Bonus)
  /\ StartPoints \in Nat \ {0}
  /\ MaxRestores \in Nat

VARIABLES
  page,       \* oap-app._page
  total,      \* totalChoicePoints
  used,       \* usedChoicePoints
  saved,      \* savedChoicePoints; 0 while undefined
  live,       \* articles whose listed object is in selectedItems
  orphans,    \* other objects of the article in selectedItems, after a restore
  usedKeys,   \* articles with a key in usedBonusesAndPenalties
  cards,      \* available list of the mounted ballot (processedBallotItems)
  marked,     \* cards whose component shows the remove button (selected = true)
  marking,    \* cards with a 600 ms setInBudget timer started by the mount
  leaving,    \* cards with a 450 ms removeFromAvailableItems timer
  checking,   \* articles with a 600 ms _checkBonusesAndPenalties timer
  stale,      \* such timers of a ballot that is no longer on the page
  visited,    \* the browser's history holds an /area-ballot entry
  disk,       \* the saved game in localStorage
  restores    \* reloads of a saved game so far

points == <<total, used, saved, usedKeys>>
chosen == <<live, orphans>>
ballot == <<cards, marked, marking, leaving, checking>>
storage == <<disk, restores>>
vars == <<page, points, chosen, ballot, stale, visited, storage>>

Page == {"filter-articles", "area-ballot", "review"}

SavedGame ==
  [page : Page, total : Nat, used : Nat, saved : Nat,
   copies : [Article -> Nat], usedKeys : SUBSET Article]

TypeOK ==
  /\ page \in Page
  /\ total \in Nat /\ used \in Nat /\ saved \in Nat
  /\ live \in SUBSET Article
  /\ orphans \in [Article -> Nat]
  /\ usedKeys \in SUBSET Article
  /\ cards \in SUBSET Article
  /\ marked \in SUBSET Article
  /\ marking \in SUBSET Article
  /\ leaving \in SUBSET Article
  /\ checking \in SUBSET Article
  /\ stale \in SUBSET Article
  /\ visited \in BOOLEAN
  /\ disk = NoSave \/ disk \in SavedGame
  /\ restores \in 0 .. MaxRestores

Init ==
  /\ page = "filter-articles"
  /\ total = StartPoints /\ used = 0 /\ saved = 0
  /\ live = {} /\ orphans = [a \in Article |-> 0]
  /\ usedKeys = {}
  /\ cards = {} /\ marked = {} /\ marking = {} /\ leaving = {} /\ checking = {}
  /\ stale = {}
  /\ visited = FALSE
  /\ disk = NoSave /\ restores = 0

-----------------------------------------------------------------------------
(***************************************************************************)
(* Opening and leaving the ballot page.                                    *)
(***************************************************************************)

(* The page is rendered anew: every filtered article has a card, and a card *)
(* whose object is already selected gets a setInBudget timer.               *)
Mount(selected) ==
  /\ page' = "area-ballot"
  /\ visited' = TRUE
  /\ cards' = Article
  /\ marked' = {}
  /\ marking' = selected
  /\ leaving' = {}
  /\ checking' = {}

(* The elements are dropped but their timers are not cancelled: a check     *)
(* still to come records its key in the object the app holds (it holds one  *)
(* once a key was recorded) and adds its points to a budget nobody shows.   *)
Unmount(next) ==
  /\ page' = next
  /\ cards' = {} /\ marked' = {} /\ marking' = {} /\ leaving' = {} /\ checking' = {}
  /\ stale' = IF usedKeys = {} THEN stale ELSE stale \union checking

(* The stack of filter cards can be worked through once: shown again, it    *)
(* has no card to act on (ArticleFilter).  A reload or a retry deals it     *)
(* anew, and then lists articles twice, which is left to that module.       *)
FinishFiltering ==
  /\ page = "filter-articles"
  /\ ~visited
  /\ saved' = total
  /\ Mount(live)
  /\ UNCHANGED <<total, used, usedKeys, chosen, stale, storage>>

(* The browser's back button returns to the filter page, and its forward    *)
(* button to the ballot, without filteringFinished.                         *)
GoBack ==
  /\ page = "area-ballot"
  /\ Unmount("filter-articles")
  /\ UNCHANGED <<points, chosen, visited, storage>>

GoForward ==
  /\ page = "filter-articles"
  /\ visited
  /\ Mount(live)
  /\ UNCHANGED <<points, chosen, stale, storage>>

InConstitution == live \union {a \in Article : orphans[a] > 0}

(* The ballot was posted and the server answered constitution_ok. *)
SubmitBallot ==
  /\ page = "area-ballot"
  /\ InConstitution # {}
  /\ Unmount("review")
  /\ UNCHANGED <<points, chosen, visited, storage>>

ClearSelection_Forgotten == UNCHANGED chosen
ClearSelection ==
  /\ live' = {}
  /\ orphans' = [a \in Article |-> 0]

ResetPoints_KeepsUsed == total' = saved /\ UNCHANGED used
ResetPoints ==
  IF saved # 0 THEN total' = saved /\ used' = 0 ELSE UNCHANGED <<total, used>>

(* "Try again selecting articles": filteredItems is copied, the points go   *)
(* back to those of the end of filtering; usedBonusesAndPenalties stays.    *)
ResetSelectArticles ==
  /\ page = "review"
  /\ ClearSelection
  /\ ResetPoints
  /\ Mount({})
  /\ UNCHANGED <<saved, usedKeys, stale, storage>>

-----------------------------------------------------------------------------
(***************************************************************************)
(* Choosing articles.                                                      *)
(***************************************************************************)

(* A card can be clicked unless its opacity layer covers it, from the click *)
(* (or the mount) to the end of its timers.  A disabled button is no guard: *)
(* _toggleInBudget looks at the element clicked, which is the price in it.  *)
Clickable_NoOverlay(a) == page = "area-ballot" /\ a \in cards
Clickable(a) ==
  /\ page = "area-ballot"
  /\ a \in cards \ (leaving \union marking)

Fits_AnyPointsLeft(a) == used < total
Fits(a) == used + Price[a] <= total

Refund_Twice(a) == used' = used - 2 * Price[a]
Refund(a) == used' = used - Price[a]

(* toggleBudgetItem, an object that is not selected and fits; when it does  *)
(* not fit an error is shown and nothing changes.                           *)
SelectArticle(a) ==
  /\ Clickable(a)
  /\ a \notin live
  /\ Fits(a)
  /\ live' = live \union {a}
  /\ used' = used + Price[a]
  /\ leaving' = leaving \union {a}
  /\ checking' = checking \union {a}
  /\ UNCHANGED <<page, total, saved, usedKeys, orphans, cards, marked, marking,
                 stale, visited, storage>>

(* toggleBudgetItem, a selected object: every object with its id goes, and  *)
(* one price comes back.  Only a card that shows the remove button offers   *)
(* it; the card in the available list keeps showing that button.            *)
DeselectArticle(a) ==
  /\ Clickable(a)
  /\ a \in live
  /\ a \in marked
  /\ live' = live \ {a}
  /\ orphans' = [orphans EXCEPT ![a] = 0]
  /\ Refund(a)
  /\ UNCHANGED <<page, total, saved, usedKeys, ballot, stale, visited, storage>>

(* 450 ms after the click: removeFromAvailableItems. *)
RemoveFromAvailable(a) ==
  /\ a \in leaving
  /\ leaving' = leaving \ {a}
  /\ cards' = cards \ {a}
  /\ marked' = marked \ {a}
  /\ UNCHANGED <<page, points, chosen, marking, checking, stale, visited, storage>>

(* 600 ms after the mount: setInBudget of a card that was already selected. *)
MarkInBudget(a) ==
  /\ a \in marking
  /\ marking' = marking \ {a}
  /\ marked' = marked \union {a}
  /\ UNCHANGED <<page, points, chosen, cards, leaving, checking, stale, visited, storage>>

-----------------------------------------------------------------------------
(***************************************************************************)
(* Bonuses and penalties.                                                  *)
(***************************************************************************)

HasEffects(a) == Bonus[a] + Penalty[a] > 0

FirstTime_Unkeyed(a) == HasEffects(a)
FirstTime(a) == HasEffects(a) /\ a \notin usedKeys

CheckDue_CardListed(a) == a \in checking \ leaving /\ a \in cards
CheckDue(a) == a \in checking \ leaving

(* The points after every bonus, then every penalty of a: a penalty never   *)
(* takes the total below what is already used (the order of the penalties   *)
(* does not matter, so their sum decides).                                  *)
AfterEffects_NotClamped(a) == total + Bonus[a] - Penalty[a]
AfterEffects(a) ==
  LET earned == total + Bonus[a]
      fined == earned - Penalty[a]
  IN  IF Penalty[a] = 0 THEN earned ELSE IF fined >= used THEN fined ELSE used

(* 600 ms after the click, after the 450 ms timer of the same click. *)
CheckBonusesAndPenalties(a) ==
  /\ CheckDue(a)
  /\ checking' = checking \ {a}
  /\ IF FirstTime(a)
     THEN /\ total' = AfterEffects(a)
          /\ usedKeys' = usedKeys \union {a}
     ELSE UNCHANGED <<total, usedKeys>>
  /\ UNCHANGED <<page, used, saved, chosen, cards, marked, marking, leaving,
                 stale, visited, storage>>

(* The same timer of a ballot that was left: the key counts, the points do  *)
(* not reach the app.                                                       *)
StaleCheck(a) ==
  /\ a \in stale
  /\ stale' = stale \ {a}
  /\ usedKeys' = IF HasEffects(a) THEN usedKeys \union {a} ELSE usedKeys
  /\ UNCHANGED <<page, total, used, saved, chosen, ballot, visited, storage>>

-----------------------------------------------------------------------------
(***************************************************************************)
(* The saved game.                                                         *)
(***************************************************************************)

Snapshot ==
  [page |-> page, total |-> total, used |-> used, saved |-> saved,
   copies |-> [a \in Article |-> orphans[a] + (IF a \in live THEN 1 ELSE 0)],
   usedKeys |-> usedKeys]

(* The debounce timer fires five seconds after a change, in whatever state  *)
(* the game then is.  A save that the bound lets nobody reload is left out. *)
AutoSave ==
  /\ restores < MaxRestores
  /\ disk # Snapshot
  /\ disk' = Snapshot
  /\ UNCHANGED <<page, points, chosen, ballot, stale, visited, restores>>

(* The page is reloaded and "Reload saved game" chosen: the timers are gone *)
(* and every selected object is a fresh one.                                *)
RestoreGame ==
  /\ disk # NoSave
  /\ restores < MaxRestores
  /\ restores' = restores + 1
  /\ total' = disk.total /\ used' = disk.used /\ saved' = disk.saved
  /\ usedKeys' = disk.usedKeys
  /\ live' = {}
  /\ orphans' = disk.copies
  /\ page' = disk.page
  /\ visited' = (visited \/ disk.page = "area-ballot")
  /\ cards' = IF disk.page = "area-ballot" THEN Article ELSE {}
  /\ marked' = {} /\ marking' = {} /\ leaving' = {} /\ checking' = {}
  /\ stale' = {}
  /\ UNCHANGED disk

-----------------------------------------------------------------------------
TimerFires(a) ==
  \/ RemoveFromAvailable(a)
  \/ MarkInBudget(a)
  \/ CheckBonusesAndPenalties(a)
  \/ StaleCheck(a)

Next ==
  \/ FinishFiltering
  \/ GoBack
  \/ GoForward
  \/ SubmitBallot
  \/ ResetSelectArticles
  \/ AutoSave
  \/ RestoreGame
  \/ \E a \in Article : SelectArticle(a) \/ DeselectArticle(a)
  \/ \E a \in Article : TimerFires(a)

(* Browser timers fire; users need not act. *)
Fairness == \A a \in Article : WF_vars(RemoveFromAvailable(a)) /\ WF_vars(MarkInBudget(a))
                               /\ WF_vars(CheckBonusesAndPenalties(a)) /\ WF_vars(StaleCheck(a))

Spec == Init /\ [][Next]_vars /\ Fairness

-----------------------------------------------------------------------------
(***************************************************************************)
(* Properties.                                                             *)
(***************************************************************************)

(* The player is never in debt: whatever the order of selections, late      *)
(* penalties, retries and reloads, the points used never exceed the points  *)
(* there are, in the running game and in the saved one (the clamp in        *)
(* _checkBonusesAndPenalties and the guard in toggleBudgetItem together).   *)
NeverOverspent ==
  /\ used <= total
  /\ disk # NoSave => disk.used <= disk.total

(* No bonus is earned twice: by no sequence of deselecting, going back,     *)
(* retrying and reloading do the points exceed those of the quiz plus one   *)
(* bonus for each article with a recorded key.                              *)
NoBonusTwice ==
  /\ total <= StartPoints + BonusSum[usedKeys]
  /\ saved <= StartPoints + BonusSum[usedKeys]
  /\ disk # NoSave =>
       /\ disk.total <= StartPoints + BonusSum[disk.usedKeys]
       /\ disk.saved <= StartPoints + BonusSum[disk.usedKeys]

(* No article is free: the articles toggled in this page load were paid for *)
(* in full, also after reloads that lost object identity.                   *)
NoFreeArticle == Cost[live] <= used

(* "You have selected {n} articles for a total of {selectedBudget}cp": the  *)
(* points used are the prices of the articles in the constitution, each of  *)
(* them there once.  It holds as long as no saved game was reloaded.        *)
UsedIsCostOfSelection ==
  /\ used = Cost[InConstitution]
  /\ \A a \in Article : orphans[a] <= IF a \in live THEN 0 ELSE 1

(* On the ballot no article is lost between its card, the 450 ms removal    *)
(* and the constitution: each is on a card or in the constitution.          *)
EveryArticleIsSomewhere ==
  page = "area-ballot" => Article \subseteq cards \union live

(* The effects of an article chosen on the page are recorded unless the     *)
(* player leaves it.                                                        *)
EffectsAreRecorded ==
  \A a \in Article :
    (a \in checking /\ HasEffects(a)) ~> (a \in usedKeys \/ page # "area-ballot")

(* The ledger implements the account: whatever the timers, pages and        *)
(* reloads do, each step charges, repays, judges once or reopens.           *)
Account == INSTANCE ChoicePointAccount
             WITH balance <- total - used, constitution <- live, judged <- usedKeys

ImplementsAccount == Account!Spec
=============================================================================
