------------------------- MODULE BallotLedgerProofs -------------------------
(***************************************************************************)
(* Proofs about BallotLedger for every set of articles, every price, bonus *)
(* and penalty, every number of starting points and reloads.               *)
(*                                                                         *)
(* No conjunct is inductive alone: used stays a natural number because the *)
(* articles of the page load are paid for, they are because a reload and a *)
(* retry drop them, and a retry leaves no debt because savedChoicePoints   *)
(* is a natural number.  The prices and bonuses of sets enter only through *)
(* the additivity of Cost and BonusSum.                                    *)
(***************************************************************************)
EXTENDS BallotLedger, TLAPS

LedgerInv ==
  /\ TypeOK
  /\ NeverOverspent
  /\ NoBonusTwice
  /\ NoFreeArticle

(* Buying an article adds its price to the cost of the set. *)
LEMMA CostOfAdding ==
  ASSUME NEW S \in SUBSET Article, NEW a \in Article, a \notin S
  PROVE  /\ Cost[S] \in Nat
         /\ Price[a] \in Nat \ {0}
         /\ Cost[S \union {a}] = Cost[S] + Price[a]
BY LedgerAssumption DEF Extends

(* Dropping an article takes its price out of the cost of the set. *)
LEMMA CostOfRemoving ==
  ASSUME NEW S \in SUBSET Article, NEW a \in S
  PROVE  /\ Cost[S \ {a}] \in Nat
         /\ Price[a] \in Nat \ {0}
         /\ Cost[S] = Cost[S \ {a}] + Price[a]
<1>1. (S \ {a}) \union {a} = S
  OBVIOUS
<1>2. QED
  BY <1>1, CostOfAdding, S \ {a} \in SUBSET Article, a \in Article, a \notin S \ {a}

(* A further recorded key adds at most the bonus of its article. *)
LEMMA BonusSumGrows ==
  ASSUME NEW S \in SUBSET Article, NEW a \in Article
  PROVE  /\ BonusSum[S] \in Nat
         /\ BonusSum[S \union {a}] \in Nat
         /\ BonusSum[S] <= BonusSum[S \union {a}]
         /\ a \notin S => BonusSum[S \union {a}] = BonusSum[S] + Bonus[a]
<1>1. BonusSum \in [SUBSET Article -> Nat] /\ Bonus[a] \in Nat
  BY LedgerAssumption DEF Extends
<1>2. CASE a \in S
  <2>1. S \union {a} = S
    BY <1>2
  <2>2. BonusSum[S] \in Nat
    BY <1>1
  <2>3. QED
    BY <1>2, <2>1, <2>2
<1>3. CASE a \notin S
  BY <1>1, <1>3, LedgerAssumption DEF Extends
<1>4. QED
  BY <1>2, <1>3

(* The effects of one article: the total stays a natural number, no lower   *)
(* than what is used, and rises by the article's bonus at most.             *)
LEMMA EffectsAreBounded ==
  ASSUME NEW a \in Article, total \in Nat, used \in Nat, used <= total
  PROVE  /\ AfterEffects(a) \in Nat
         /\ used <= AfterEffects(a)
         /\ AfterEffects(a) <= total + Bonus[a]
<1>1. Bonus[a] \in Nat /\ Penalty[a] \in Nat
  BY LedgerAssumption
<1>2. QED
  BY <1>1 DEF AfterEffects

-----------------------------------------------------------------------------
LEMMA InitEstablishesLedgerInv == Init => LedgerInv
<1> SUFFICES ASSUME Init PROVE LedgerInv
  OBVIOUS
<1>1. StartPoints \in Nat /\ MaxRestores \in Nat /\ Cost[{}] = 0 /\ BonusSum[{}] = 0
  BY LedgerAssumption DEF Extends
<1>2. TypeOK
  <2>1. 0 \in 0 .. MaxRestores
    BY <1>1
  <2>2. QED
    BY <1>1, <2>1 DEF Init, TypeOK, Page
<1>3. NeverOverspent /\ NoBonusTwice /\ NoFreeArticle
  BY <1>1 DEF Init, NeverOverspent, NoBonusTwice, NoFreeArticle
<1>4. QED
  BY <1>2, <1>3 DEF LedgerInv

LEMMA StepPreservesLedgerInv == LedgerInv /\ [Next]_vars => LedgerInv'
<1> SUFFICES ASSUME LedgerInv, [Next]_vars PROVE LedgerInv'
  OBVIOUS
<1> USE DEF points, chosen, ballot, storage, ClearSelection, ResetPoints, Fits, Refund,
            FirstTime, CheckDue
<1>0. /\ TypeOK /\ NeverOverspent /\ NoBonusTwice /\ NoFreeArticle
      /\ Cost[live] \in Nat /\ BonusSum[usedKeys] \in Nat
      /\ Cost[{}] = 0 /\ StartPoints \in Nat /\ MaxRestores \in Nat
  BY LedgerAssumption DEF LedgerInv, TypeOK, Extends
<1>1. CASE FinishFiltering
  BY <1>0, <1>1 DEF FinishFiltering, Mount, LedgerInv, TypeOK, Page,
       NeverOverspent, NoBonusTwice, NoFreeArticle
<1>2. CASE GoBack
  BY <1>0, <1>2 DEF GoBack, Unmount, LedgerInv, TypeOK, Page,
       NeverOverspent, NoBonusTwice, NoFreeArticle
<1>3. CASE GoForward
  BY <1>0, <1>3 DEF GoForward, Mount, LedgerInv, TypeOK, Page,
       NeverOverspent, NoBonusTwice, NoFreeArticle
<1>4. CASE SubmitBallot
  BY <1>0, <1>4 DEF SubmitBallot, Unmount, LedgerInv, TypeOK, Page,
       NeverOverspent, NoBonusTwice, NoFreeArticle
<1>5. CASE ResetSelectArticles
  BY <1>0, <1>5 DEF ResetSelectArticles, Mount, LedgerInv, TypeOK, Page,
       NeverOverspent, NoBonusTwice, NoFreeArticle
<1>6. CASE AutoSave
  <2>1. /\ Snapshot \in SavedGame
        /\ Snapshot.total = total /\ Snapshot.used = used /\ Snapshot.saved = saved
        /\ Snapshot.usedKeys = usedKeys
    BY <1>0 DEF Snapshot, SavedGame, TypeOK
  <2>2. QED
    BY <1>0, <1>6, <2>1 DEF AutoSave, LedgerInv, TypeOK,
         NeverOverspent, NoBonusTwice, NoFreeArticle
<1>7. CASE RestoreGame
  <2>1. disk \in SavedGame
    BY <1>0, <1>7 DEF RestoreGame, TypeOK
  <2>2. /\ disk.page \in Page /\ disk.total \in Nat /\ disk.used \in Nat /\ disk.saved \in Nat
        /\ disk.copies \in [Article -> Nat] /\ disk.usedKeys \in SUBSET Article
    BY <2>1 DEF SavedGame
  <2>3. TypeOK'
    BY <1>0, <1>7, <2>2 DEF RestoreGame, TypeOK
  <2>4. NeverOverspent' /\ NoBonusTwice' /\ NoFreeArticle'
    BY <1>0, <1>7, <2>2 DEF RestoreGame, NeverOverspent, NoBonusTwice, NoFreeArticle
  <2>5. QED
    BY <2>3, <2>4 DEF LedgerInv
<1>8. ASSUME NEW a \in Article, SelectArticle(a)
      PROVE  LedgerInv'
  <2>1. /\ Price[a] \in Nat \ {0}
        /\ Cost[live \union {a}] = Cost[live] + Price[a]
    BY <1>0, <1>8, CostOfAdding DEF SelectArticle, TypeOK
  <2>2. TypeOK'
    BY <1>0, <1>8, <2>1 DEF SelectArticle, TypeOK
  <2>3. NeverOverspent' /\ NoBonusTwice' /\ NoFreeArticle'
    BY <1>0, <1>8, <2>1 DEF SelectArticle, TypeOK, NeverOverspent, NoBonusTwice, NoFreeArticle
  <2>4. QED
    BY <2>2, <2>3 DEF LedgerInv
<1>9. ASSUME NEW a \in Article, DeselectArticle(a)
      PROVE  LedgerInv'
  <2>1. /\ Cost[live \ {a}] \in Nat
        /\ Price[a] \in Nat \ {0}
        /\ Cost[live] = Cost[live \ {a}] + Price[a]
    BY <1>0, <1>9, CostOfRemoving DEF DeselectArticle, TypeOK
  <2>2. used - Price[a] \in Nat /\ Cost[live \ {a}] <= used - Price[a]
    BY <1>0, <2>1 DEF TypeOK, NoFreeArticle
  <2>3. TypeOK'
    BY <1>0, <1>9, <2>2 DEF DeselectArticle, TypeOK
  <2>4. NeverOverspent' /\ NoBonusTwice' /\ NoFreeArticle'
    BY <1>0, <1>9, <2>1, <2>2 DEF DeselectArticle, TypeOK, NeverOverspent, NoBonusTwice, NoFreeArticle
  <2>5. QED
    BY <2>3, <2>4 DEF LedgerInv
<1>10. ASSUME NEW a \in Article, RemoveFromAvailable(a)
       PROVE  LedgerInv'
  BY <1>0, <1>10 DEF RemoveFromAvailable, LedgerInv, TypeOK,
       NeverOverspent, NoBonusTwice, NoFreeArticle
<1>11. ASSUME NEW a \in Article, MarkInBudget(a)
       PROVE  LedgerInv'
  BY <1>0, <1>11 DEF MarkInBudget, LedgerInv, TypeOK,
       NeverOverspent, NoBonusTwice, NoFreeArticle
<1>12. ASSUME NEW a \in Article, CheckBonusesAndPenalties(a)
       PROVE  LedgerInv'
  <2>1. CASE HasEffects(a) /\ a \notin usedKeys
    <3>1. /\ AfterEffects(a) \in Nat
          /\ used <= AfterEffects(a)
          /\ AfterEffects(a) <= total + Bonus[a]
      BY <1>0, EffectsAreBounded DEF TypeOK, NeverOverspent
    <3>2. /\ BonusSum[usedKeys \union {a}] \in Nat
          /\ BonusSum[usedKeys \union {a}] = BonusSum[usedKeys] + Bonus[a]
          /\ Bonus[a] \in Nat
      BY <1>0, <2>1, BonusSumGrows, LedgerAssumption DEF TypeOK
    <3>3. total' = AfterEffects(a) /\ usedKeys' = usedKeys \union {a}
      BY <1>12, <2>1 DEF CheckBonusesAndPenalties
    <3>4. TypeOK'
      BY <1>0, <1>12, <3>1, <3>3 DEF CheckBonusesAndPenalties, TypeOK
    <3>5. NeverOverspent' /\ NoBonusTwice' /\ NoFreeArticle'
      BY <1>0, <1>12, <3>1, <3>2, <3>3
        DEF CheckBonusesAndPenalties, TypeOK, NeverOverspent, NoBonusTwice, NoFreeArticle
    <3>6. QED
      BY <3>4, <3>5 DEF LedgerInv
  <2>2. CASE ~ (HasEffects(a) /\ a \notin usedKeys)
    BY <1>0, <1>12, <2>2 DEF CheckBonusesAndPenalties, LedgerInv, TypeOK,
         NeverOverspent, NoBonusTwice, NoFreeArticle
  <2>3. QED
    BY <2>1, <2>2
<1>13. ASSUME NEW a \in Article, StaleCheck(a)
       PROVE  LedgerInv'
  <2>1. /\ BonusSum[usedKeys \union {a}] \in Nat
        /\ BonusSum[usedKeys] <= BonusSum[usedKeys \union {a}]
    BY <1>0, BonusSumGrows DEF TypeOK
  <2>2. TypeOK'
    BY <1>0, <1>13 DEF StaleCheck, TypeOK
  <2>3. NeverOverspent' /\ NoBonusTwice' /\ NoFreeArticle'
    BY <1>0, <1>13, <2>1 DEF StaleCheck, TypeOK, NeverOverspent, NoBonusTwice, NoFreeArticle
  <2>4. QED
    BY <2>2, <2>3 DEF LedgerInv
<1>14. CASE UNCHANGED vars
  BY <1>0, <1>14 DEF vars, LedgerInv, TypeOK, NeverOverspent, NoBonusTwice, NoFreeArticle
<1>15. QED
  BY <1>1, <1>2, <1>3, <1>4, <1>5, <1>6, <1>7, <1>8, <1>9, <1>10, <1>11, <1>12, <1>13, <1>14
    DEF Next, TimerFires

(* The inductive invariant holds in every behaviour of the ballot. *)
THEOREM LedgerInvariant == Spec => []LedgerInv
BY InitEstablishesLedgerInv, StepPreservesLedgerInv, PTL DEF Spec

(* Every variable keeps its type; in particular no point count is negative. *)
THEOREM LedgerTypeCorrect == Spec => []TypeOK
BY LedgerInvariant, PTL DEF LedgerInv

(* toggleBudgetItem and _checkBonusesAndPenalties never leave the player in *)
(* debt, in whatever order selections, checks, retries and reloads come.    *)
THEOREM LedgerNeverOverspent == Spec => []NeverOverspent
BY LedgerInvariant, PTL DEF LedgerInv

(* No sequence of moves earns the bonus of an article twice. *)
THEOREM LedgerNoBonusTwice == Spec => []NoBonusTwice
BY LedgerInvariant, PTL DEF LedgerInv

(* The articles toggled since the page was loaded are paid for in full. *)
THEOREM LedgerNoFreeArticle == Spec => []NoFreeArticle
BY LedgerInvariant, PTL DEF LedgerInv

-----------------------------------------------------------------------------
(***************************************************************************)
(* No article is lost: a card under removal belongs to a selected article. *)
(***************************************************************************)
PlacesInv ==
  /\ leaving \subseteq live
  /\ EveryArticleIsSomewhere

LEMMA StepPreservesPlacesInv == PlacesInv /\ [Next]_vars => PlacesInv'
<1> SUFFICES ASSUME PlacesInv, [Next]_vars PROVE PlacesInv'
  OBVIOUS
<1> USE DEF points, chosen, ballot, storage, ClearSelection, ResetPoints, Fits, Refund,
            FirstTime, CheckDue, PlacesInv, EveryArticleIsSomewhere
<1>1. CASE FinishFiltering \/ GoForward
  BY <1>1 DEF FinishFiltering, GoForward, Mount
<1>2. CASE GoBack \/ SubmitBallot
  BY <1>2 DEF GoBack, SubmitBallot, Unmount
<1>3. CASE ResetSelectArticles
  BY <1>3 DEF ResetSelectArticles, Mount
<1>4. CASE AutoSave
  BY <1>4 DEF AutoSave
<1>5. CASE RestoreGame
  BY <1>5 DEF RestoreGame
<1>6. ASSUME NEW a \in Article, SelectArticle(a)
      PROVE  PlacesInv'
  BY <1>6 DEF SelectArticle
<1>7. ASSUME NEW a \in Article, DeselectArticle(a)
      PROVE  PlacesInv'
  BY <1>7 DEF DeselectArticle, Clickable
<1>8. ASSUME NEW a \in Article, RemoveFromAvailable(a)
      PROVE  PlacesInv'
  BY <1>8 DEF RemoveFromAvailable
<1>9. ASSUME NEW a \in Article, MarkInBudget(a) \/ CheckBonusesAndPenalties(a) \/ StaleCheck(a)
      PROVE  PlacesInv'
  BY <1>9 DEF MarkInBudget, CheckBonusesAndPenalties, StaleCheck
<1>10. CASE UNCHANGED vars
  BY <1>10 DEF vars
<1>11. QED
  BY <1>1, <1>2, <1>3, <1>4, <1>5, <1>6, <1>7, <1>8, <1>9, <1>10 DEF Next, TimerFires

(* On the ballot page every filtered article is on a card or in the         *)
(* constitution: the 450 ms removal never takes the card of an article that *)
(* was deselected meanwhile.                                                *)
THEOREM LedgerKeepsEveryArticle == Spec => []EveryArticleIsSomewhere
<1>1. Init => PlacesInv
  BY DEF Init, PlacesInv, EveryArticleIsSomewhere
<1>2. QED
  BY <1>1, StepPreservesPlacesInv, PTL DEF Spec, PlacesInv

-----------------------------------------------------------------------------
(***************************************************************************)
(* In a game that is never reloaded the points used are the cost of the    *)
(* constitution.  A retry sets them to zero only when savedChoicePoints is *)
(* not 0, so the invariant has to show that a review never sees it at 0.   *)
(***************************************************************************)
ExactInv ==
  /\ LedgerInv
  /\ disk = NoSave
  /\ orphans = [a \in Article |-> 0]
  /\ used = Cost[live]
  /\ page # "filter-articles" => visited
  /\ page = "review" => saved # 0
  /\ visited /\ saved = 0 => total = 0 /\ checking = {}

(* Whoever has an article has points. *)
LEMMA SelectionCostsPoints ==
  ASSUME LedgerInv, live # {}
  PROVE  total > 0
<1>1. PICK a \in live : TRUE
  OBVIOUS
<1>2. Cost[live \ {a}] \in Nat /\ Price[a] \in Nat \ {0} /\ Cost[live] = Cost[live \ {a}] + Price[a]
  BY CostOfRemoving DEF LedgerInv, TypeOK
<1>3. QED
  BY <1>2 DEF LedgerInv, TypeOK, NeverOverspent, NoFreeArticle

LEMMA StepPreservesExactInv ==
  ASSUME MaxRestores = 0, ExactInv, [Next]_vars
  PROVE  ExactInv'
<1> USE DEF points, chosen, ballot, storage, ClearSelection, ResetPoints, Fits, Refund,
            FirstTime, CheckDue
<1>0. /\ LedgerInv /\ LedgerInv'
      /\ Cost[{}] = 0 /\ total \in Nat /\ used \in Nat /\ saved \in Nat
      /\ used <= total /\ restores = 0
      /\ live \in SUBSET Article /\ usedKeys \in SUBSET Article
  BY StepPreservesLedgerInv, LedgerAssumption DEF ExactInv, LedgerInv, TypeOK, Extends, NeverOverspent
<1>1. CASE FinishFiltering
  BY <1>0, <1>1 DEF FinishFiltering, Mount, ExactInv
<1>2. CASE GoBack
  BY <1>0, <1>2 DEF GoBack, Unmount, ExactInv
<1>3. CASE GoForward
  BY <1>0, <1>3 DEF GoForward, Mount, ExactInv
<1>4. CASE SubmitBallot
  <2>1. InConstitution = live
    BY DEF ExactInv, InConstitution
  <2>2. total > 0
    BY <1>0, <1>4, <2>1, SelectionCostsPoints DEF SubmitBallot
  <2>3. saved # 0
    BY <1>4, <2>2 DEF SubmitBallot, ExactInv
  <2>4. QED
    BY <1>0, <1>4, <2>3 DEF SubmitBallot, Unmount, ExactInv
<1>5. CASE ResetSelectArticles
  BY <1>0, <1>5 DEF ResetSelectArticles, Mount, ExactInv
<1>6. CASE AutoSave
  BY <1>0, <1>6 DEF AutoSave
<1>7. CASE RestoreGame
  BY <1>0, <1>7 DEF RestoreGame
<1>8. ASSUME NEW a \in Article, SelectArticle(a)
      PROVE  ExactInv'
  <2>1. Price[a] \in Nat \ {0} /\ Cost[live \union {a}] = Cost[live] + Price[a]
    BY <1>0, <1>8, CostOfAdding DEF SelectArticle
  <2>2. total > 0
    BY <1>0, <1>8, <2>1 DEF SelectArticle
  <2>3. visited
    BY <1>8 DEF SelectArticle, Clickable, ExactInv
  <2>4. QED
    BY <1>0, <1>8, <2>1, <2>2, <2>3 DEF SelectArticle, ExactInv
<1>9. ASSUME NEW a \in Article, DeselectArticle(a)
      PROVE  ExactInv'
  <2>1. Cost[live \ {a}] \in Nat /\ Price[a] \in Nat \ {0} /\ Cost[live] = Cost[live \ {a}] + Price[a]
    BY <1>0, <1>9, CostOfRemoving DEF DeselectArticle
  <2>2. [orphans EXCEPT ![a] = 0] = [b \in Article |-> 0]
    BY DEF ExactInv
  <2>3. QED
    BY <1>0, <1>9, <2>1, <2>2 DEF DeselectArticle, ExactInv
<1>10. ASSUME NEW a \in Article, RemoveFromAvailable(a) \/ MarkInBudget(a)
       PROVE  ExactInv'
  BY <1>0, <1>10 DEF RemoveFromAvailable, MarkInBudget, ExactInv
<1>11. ASSUME NEW a \in Article, CheckBonusesAndPenalties(a)
       PROVE  ExactInv'
  <2>1. ~ (visited /\ saved = 0)
    BY <1>11 DEF CheckBonusesAndPenalties, ExactInv
  <2>2. QED
    BY <1>0, <1>11, <2>1 DEF CheckBonusesAndPenalties, ExactInv
<1>12. ASSUME NEW a \in Article, StaleCheck(a)
       PROVE  ExactInv'
  BY <1>0, <1>12 DEF StaleCheck, ExactInv
<1>13. CASE UNCHANGED vars
  BY <1>0, <1>13 DEF vars, ExactInv
<1>14. QED
  BY <1>1, <1>2, <1>3, <1>4, <1>5, <1>6, <1>7, <1>8, <1>9, <1>10, <1>11, <1>12, <1>13
    DEF Next, TimerFires

(* Without a reload, usedChoicePoints is exactly what the articles in the   *)
(* constitution cost, through every selection, deselection, page change and *)
(* retry.                                                                   *)
THEOREM LedgerIsExact == MaxRestores = 0 => (Spec => []UsedIsCostOfSelection)
<1> SUFFICES ASSUME MaxRestores = 0 PROVE Spec => []UsedIsCostOfSelection
  OBVIOUS
<1>1. Init => ExactInv
  <2> SUFFICES ASSUME Init PROVE ExactInv
    OBVIOUS
  <2>1. LedgerInv
    BY InitEstablishesLedgerInv
  <2>2. Cost[{}] = 0
    BY LedgerAssumption DEF Extends
  <2>3. QED
    BY <2>1, <2>2 DEF Init, ExactInv
<1>2. ExactInv /\ [Next]_vars => ExactInv'
  BY StepPreservesExactInv
<1>3. ExactInv => UsedIsCostOfSelection
  <2> SUFFICES ASSUME ExactInv PROVE UsedIsCostOfSelection
    OBVIOUS
  <2>1. InConstitution = live
    BY DEF ExactInv, InConstitution
  <2>2. QED
    BY <2>1 DEF ExactInv, UsedIsCostOfSelection
<1>4. QED
  BY <1>1, <1>2, <1>3, PTL DEF Spec

-----------------------------------------------------------------------------
(***************************************************************************)
(* The ledger implements the account of ChoicePointAccount.                *)
(***************************************************************************)

(* What is on disk was recorded no later than now. *)
SavedKeysInv == disk # NoSave => disk.usedKeys \subseteq usedKeys

AccountInv == LedgerInv /\ SavedKeysInv

LEMMA StepPreservesSavedKeys ==
  ASSUME TypeOK, SavedKeysInv, [Next]_vars
  PROVE  SavedKeysInv'
<1> USE DEF points, chosen, ballot, storage, ClearSelection, ResetPoints, Fits, Refund,
            FirstTime, CheckDue, SavedKeysInv
<1>1. CASE AutoSave
  BY <1>1 DEF AutoSave, Snapshot
<1>2. CASE RestoreGame
  BY <1>2 DEF RestoreGame
<1>3. ASSUME NEW a \in Article, CheckBonusesAndPenalties(a) \/ StaleCheck(a)
      PROVE  SavedKeysInv'
  BY <1>3 DEF CheckBonusesAndPenalties, StaleCheck
<1>4. CASE UNCHANGED <<disk, usedKeys>>
  BY <1>4
<1>5. CASE FinishFiltering \/ GoBack \/ GoForward \/ SubmitBallot \/ ResetSelectArticles
  BY <1>5, <1>4 DEF FinishFiltering, GoBack, GoForward, SubmitBallot, ResetSelectArticles
<1>6. ASSUME NEW a \in Article,
             SelectArticle(a) \/ DeselectArticle(a) \/ RemoveFromAvailable(a) \/ MarkInBudget(a)
      PROVE  SavedKeysInv'
  BY <1>6, <1>4 DEF SelectArticle, DeselectArticle, RemoveFromAvailable, MarkInBudget
<1>7. QED
  BY <1>1, <1>2, <1>3, <1>4, <1>5, <1>6 DEF Next, TimerFires, vars

LEMMA StepImplementsAccount ==
  ASSUME AccountInv, [Next]_vars
  PROVE  [Account!Next]_(Account!vars)
<1> USE DEF points, chosen, ballot, storage, ClearSelection, ResetPoints, Fits, Refund,
            FirstTime, CheckDue
<1>0. /\ total \in Nat /\ used \in Nat /\ used <= total /\ saved \in Nat
      /\ usedKeys \in SUBSET Article /\ live \in SUBSET Article
      /\ BonusSum[usedKeys] \in Nat /\ StartPoints \in Nat
      /\ saved <= StartPoints + BonusSum[usedKeys]
      /\ total <= StartPoints + BonusSum[usedKeys]
  BY LedgerAssumption DEF AccountInv, LedgerInv, TypeOK, Extends, NeverOverspent, NoBonusTwice
<1>1. CASE UNCHANGED <<total, used, live, usedKeys>>
  BY <1>1 DEF Account!vars
<1>2. CASE FinishFiltering \/ GoBack \/ GoForward \/ SubmitBallot \/ AutoSave
  BY <1>2, <1>1 DEF FinishFiltering, GoBack, GoForward, SubmitBallot, AutoSave
<1>3. CASE ResetSelectArticles
  <2>1. live' = {} /\ usedKeys' = usedKeys
    BY <1>3 DEF ResetSelectArticles
  <2>2. total' - used' \in 0 .. StartPoints + BonusSum[usedKeys]
    BY <1>0, <1>3 DEF ResetSelectArticles
  <2>3. Account!Reopen
    BY <2>1, <2>2 DEF Account!Reopen
  <2>4. QED
    BY <2>3 DEF Account!Next
<1>4. CASE RestoreGame
  <2>1. disk \in SavedGame /\ disk.usedKeys \subseteq usedKeys
    BY <1>4 DEF RestoreGame, AccountInv, LedgerInv, TypeOK, SavedKeysInv
  <2>2. /\ disk.total \in Nat /\ disk.used \in Nat /\ disk.used <= disk.total
        /\ disk.usedKeys \in SUBSET Article
        /\ disk.total <= StartPoints + BonusSum[disk.usedKeys]
    BY <1>4, <2>1 DEF RestoreGame, SavedGame, AccountInv, LedgerInv, NeverOverspent, NoBonusTwice
  <2>3. BonusSum[disk.usedKeys] \in Nat
    BY <2>2, LedgerAssumption DEF Extends
  <2>4. disk.total - disk.used \in 0 .. StartPoints + BonusSum[disk.usedKeys]
    BY <1>0, <2>2, <2>3
  <2>5. Account!Reopen
    BY <1>4, <2>1, <2>4 DEF RestoreGame, Account!Reopen
  <2>6. QED
    BY <2>5 DEF Account!Next
<1>5. ASSUME NEW a \in Article, SelectArticle(a)
      PROVE  Account!Next
  <2>1. Price[a] \in Nat
    BY LedgerAssumption
  <2>2. Account!Choose(a)
    BY <1>0, <1>5, <2>1 DEF SelectArticle, Account!Choose
  <2>3. QED
    BY <2>2 DEF Account!Next
<1>6. ASSUME NEW a \in Article, DeselectArticle(a)
      PROVE  Account!Next
  <2>1. Price[a] \in Nat
    BY LedgerAssumption
  <2>2. Account!Drop(a)
    BY <1>0, <1>6, <2>1 DEF DeselectArticle, Account!Drop
  <2>3. QED
    BY <2>2 DEF Account!Next
<1>7. ASSUME NEW a \in Article, RemoveFromAvailable(a) \/ MarkInBudget(a)
      PROVE  [Account!Next]_(Account!vars)
  BY <1>7, <1>1 DEF RemoveFromAvailable, MarkInBudget
<1>8. ASSUME NEW a \in Article, CheckBonusesAndPenalties(a)
      PROVE  [Account!Next]_(Account!vars)
  <2>1. CASE HasEffects(a) /\ a \notin usedKeys
    <3>1. Bonus[a] \in Nat /\ Penalty[a] \in Nat
      BY LedgerAssumption
    <3>2. /\ total' = AfterEffects(a) /\ usedKeys' = usedKeys \union {a}
          /\ used' = used /\ live' = live
      BY <1>8, <2>1 DEF CheckBonusesAndPenalties
    <3>3. LET due == total - used + Bonus[a] - Penalty[a]
          IN  AfterEffects(a) - used = IF due >= 0 THEN due ELSE 0
      BY <1>0, <3>1 DEF AfterEffects
    <3>4. Account!Judge(a)
      BY <2>1, <3>2, <3>3 DEF Account!Judge
    <3>5. QED
      BY <3>4 DEF Account!Next
  <2>2. CASE ~ (HasEffects(a) /\ a \notin usedKeys)
    BY <1>8, <2>2, <1>1 DEF CheckBonusesAndPenalties
  <2>3. QED
    BY <2>1, <2>2
<1>9. ASSUME NEW a \in Article, StaleCheck(a)
      PROVE  [Account!Next]_(Account!vars)
  <2>1. CASE HasEffects(a)
    <3>1. Account!Forgo(a)
      BY <1>9, <2>1 DEF StaleCheck, Account!Forgo
    <3>2. QED
      BY <3>1 DEF Account!Next
  <2>2. CASE ~ HasEffects(a)
    BY <1>9, <2>2, <1>1 DEF StaleCheck
  <2>3. QED
    BY <2>1, <2>2
<1>10. QED
  BY <1>1, <1>2, <1>3, <1>4, <1>5, <1>6, <1>7, <1>8, <1>9 DEF Next, TimerFires, vars

(* Every step of the pages, cards, timers and saved games is a step of the  *)
(* account or leaves it alone: the account's promises are the ballot's.     *)
THEOREM LedgerImplementsAccount == Spec => ImplementsAccount
<1>1. Init => AccountInv
  BY InitEstablishesLedgerInv DEF Init, AccountInv, SavedKeysInv
<1>2. AccountInv /\ [Next]_vars => AccountInv'
  BY StepPreservesLedgerInv, StepPreservesSavedKeys DEF AccountInv, LedgerInv
<1>3. Init => Account!Init
  BY LedgerAssumption DEF Init, Account!Init
<1>4. AccountInv /\ [Next]_vars => [Account!Next]_(Account!vars)
  BY StepImplementsAccount
<1>5. QED
  BY <1>1, <1>2, <1>3, <1>4, PTL DEF Spec, ImplementsAccount, Account!Spec
=============================================================================
