----------------------------- MODULE CountryGame -----------------------------
(***************************************************************************)
(* A country is picked from a list or made by the player                   *)
(* (oap-country-creation.js), articles are chosen and their effects paid   *)
(* by its attitudes, and the constitution is reviewed (oap-review.js).     *)
(*                                                                         *)
(* The list of countries is one object of the configuration.  The page     *)
(* changes its last country, the player's own, in place, and what the app  *)
(* keeps as the game's country is that very object.                        *)
(*                                                                         *)
(* Here the effects of an article are paid one by one, each once per game,  *)
(* and judged again by the review; BallotLedger has the ballot's cards and  *)
(* the saved games, and the quiz and the filter come before the ballot.     *)
(***************************************************************************)
EXTENDS AttitudeRules

CONSTANTS
  Countries,   \* the list of the configuration; the last one is the player's own
  Items,       \* the articles
  Modules,     \* the module types
  StartPoints, \* the choice points when the filter is finished
  Sliders,     \* the attitudes that the player moves
  SliderValue, \* the values a slider is moved to
  MaxChosen,   \* bound on the articles chosen
  MaxReturns   \* bound on the ballots gone back from or tried again

Own == Len(Countries)
Need == [name |-> 2, description |-> 2, population |-> 1, geographicalSize |-> 1]
Field == DOMAIN Need
Length == 0 .. 2  \* lengths of what is typed; from two on they are all the same
Country == [fields : [Field -> Length], culturalAttitutes : [attitutes -> Value]]
NoCountry == 0

ASSUME CountriesAssumption ==
  /\ Own > 0
  /\ Countries \in Seq(Country)
  /\ \A c \in 1 .. Own - 1 : \A f \in Field : Countries[c].fields[f] > 0
ASSUME ItemsAssumption ==
  \A item \in Items :
    /\ item.module \in Modules /\ item.authorshipPercent \in Nat /\ item.price \in Nat \ {0}
    /\ item.bonus \in Seq(Rules) /\ item.penalty \in Seq(Rules)
ASSUME ModulesAssumption == IsFiniteSet(Modules)
ASSUME SliderAssumption == Sliders \subseteq attitutes /\ SliderValue \subseteq 0 .. 9
ASSUME PointsAssumption == StartPoints \in Nat \ {0}
ASSUME BoundAssumption == MaxChosen \in Nat /\ MaxReturns \in Nat

VARIABLES
  countryList,    \* client_config's list, as it has become
  page,           \* "create-country", "area-ballot" or "review"
  picked,         \* the entry picked in the page's menu
  submitDisabled,
  country,        \* the country of the game, an entry of the list
  chosen,         \* the articles chosen, each with the country of that time
  total,          \* totalChoicePoints
  used,           \* usedChoicePoints
  usedKeys,       \* usedBonusesAndPenalties: articles with an effect of theirs
  removable,      \* articles whose card shows the remove button
  checking,       \* articles with a 600 ms _checkBonusesAndPenalties timer
  stale,          \* such timers of a ballot that was left
  forgiven,       \* history: what penalties took less than their value
  unpaid,         \* history: keys may have been recorded or kept without their points
  returns,        \* ballots gone back from or tried again
  results         \* what the review page computed

form == <<picked, submitDisabled>>
points == <<total, used, usedKeys, forgiven>>
ballot == <<removable, checking, stale>>
vars == <<countryList, page, form, country, chosen, points, ballot, unpaid, returns, results>>

NoResults == [attituteReviews |-> <<>>, verdict |-> "none", isConstitutionViable |-> TRUE,
              info |-> NoInfo]

TypeOK ==
  /\ countryList \in [1 .. Own -> Country]
  /\ page \in {"create-country", "area-ballot", "review"}
  /\ picked \in NoCountry .. Own /\ country \in NoCountry .. Own
  /\ submitDisabled \in BOOLEAN
  /\ \A c \in chosen : c.item \in Items /\ c.under \in 1 .. Own
  /\ total \in Int /\ used \in Int /\ forgiven \in Int /\ unpaid \in BOOLEAN
  /\ returns \in 0 .. MaxReturns
  /\ \A k \in usedKeys : k.item \in Items
  /\ removable \subseteq Items /\ checking \subseteq Items
  /\ \A c \in stale : c.item \in Items /\ c.under \in 1 .. Own
  /\ results.verdict \in {"none", "highNetPenalties", "breakEven", "highNetBonuses"}

customCountry == picked = Own

-----------------------------------------------------------------------------
(***************************************************************************)
(* The page that makes a country.                                          *)
(***************************************************************************)

(* What the page shows once an entry is picked: texts and raw numbers, to be *)
(* typed for any country but the name, sliders for the values of the         *)
(* player's own, and the button.                                             *)
FormShown == page = "create-country" /\ picked # NoCountry
TextTyped(f, length) ==
  FormShown /\ f \in {"name", "description"} /\ (f = "name" => customCountry) /\ length \in 1 .. 2
StatTyped(f, length) == FormShown /\ f \in {"population", "geographicalSize"} /\ length = 1
Slides(v) == FormShown /\ customCountry /\ v # 0
Submittable == FormShown /\ ~submitDisabled

Complete(c) == \A f \in Field : countryList'[c].fields[f] >= Need[f]

(* submitDisabled is cleared here and set by nothing the player types.      *)
CheckIfOkToProceed(disabled) == submitDisabled' = (disabled /\ ~Complete(Own))

(* Picking the player's own empties its name; picking another writes the    *)
(* name of the menu's entry into it.                                        *)
CountrySelected(c) ==
  /\ page = "create-country" /\ c # picked
  /\ picked' = c
  /\ countryList' = [countryList EXCEPT ![Own].fields.name = IF c = Own THEN 0 ELSE 2]
  /\ IF c = Own THEN CheckIfOkToProceed(TRUE) ELSE submitDisabled' = FALSE
  /\ UNCHANGED <<page, country, chosen, points, ballot, unpaid, returns, results>>

(* setName and the like take no empty text, and none for another country.   *)
SetField(f, length) ==
  /\ TextTyped(f, length) \/ StatTyped(f, length)
  /\ customCountry
  /\ countryList' = [countryList EXCEPT ![Own].fields[f] = length]
  /\ CheckIfOkToProceed(submitDisabled)
  /\ UNCHANGED <<page, picked, country, chosen, points, ballot, unpaid, returns, results>>

(* The sliders, whose maximum is 9, report every value they are given; a 0  *)
(* is not taken.                                                            *)
ChangeAttitute(a, v) ==
  /\ Slides(v)
  /\ countryList' = [countryList EXCEPT ![picked].culturalAttitutes[a] = v]
  /\ UNCHANGED <<page, form, country, chosen, points, ballot, unpaid, returns, results>>

SelectedItems == {c.item : c \in chosen}

(* The ballot is an element of its own each time: a card whose article is   *)
(* selected then shows the remove button.                                   *)
Mount(selected) ==
  /\ page' = "area-ballot"
  /\ removable' = selected /\ checking' = {}

(* Its timers outlive it.  What they record reaches the app's object, once  *)
(* the ballot holds that one; the points do not.                            *)
Unmount(next) ==
  /\ page' = next
  /\ removable' = {} /\ checking' = {}
  /\ stale' = IF usedKeys = {} THEN stale
              ELSE stale \union {[item |-> item, under |-> country] : item \in checking}
  /\ unpaid' = (unpaid \/ checking # {})

CreateCountryFinished ==
  /\ Submittable
  /\ country' = picked
  /\ Mount(SelectedItems)
  /\ UNCHANGED <<countryList, form, chosen, points, stale, unpaid, returns, results>>

(* The browser's buttons.  A page shown again is a new element over the     *)
(* list as it is.                                                           *)
BackToCountry ==
  /\ page = "area-ballot" /\ returns < MaxReturns
  /\ returns' = returns + 1
  /\ Unmount("create-country")
  /\ picked' = NoCountry /\ submitDisabled' = TRUE
  /\ UNCHANGED <<countryList, country, chosen, points, results>>

ForwardToBallot ==
  /\ page = "create-country" /\ country # NoCountry
  /\ Mount(SelectedItems)
  /\ UNCHANGED <<countryList, form, country, chosen, points, stale, unpaid, returns, results>>

-----------------------------------------------------------------------------
(***************************************************************************)
(* The ballot and the review.                                              *)
(***************************************************************************)

AttitutesOf(c) == countryList[c].culturalAttitutes
Attitutes == AttitutesOf(country)
Key(item, e) == [item |-> item, effect |-> e]
Signed(e) == IF e.type = "bonus" THEN e.value ELSE -e.value

(* toggleBudgetItem takes an article that fits; its effects are due later.  *)
Choose(item) ==
  /\ page = "area-ballot" /\ Cardinality(chosen) < MaxChosen
  /\ item \notin SelectedItems
  /\ used + item.price <= total
  /\ chosen' = chosen \union {[item |-> item, under |-> country]}
  /\ used' = used + item.price
  /\ removable' = removable \ {item} /\ checking' = checking \union {item}
  /\ UNCHANGED <<countryList, page, form, country, total, usedKeys, forgiven, stale, unpaid, returns, results>>

(* It gives back the price, and none of the effects.                        *)
Deselect(item) ==
  /\ page = "area-ballot" /\ item \in removable \intersect SelectedItems
  /\ chosen' = {c \in chosen : c.item # item}
  /\ used' = used - item.price
  /\ UNCHANGED <<countryList, page, form, country, total, usedKeys, forgiven, ballot, unpaid, returns, results>>

PayEffect_Unkeyed(item, p, e) ==
  LET sum == p.total + Signed(e)
      lack == IF e.type = "penalty" /\ sum < used THEN used - sum ELSE 0
  IN  [keys |-> p.keys \union {Key(item, e)}, total |-> sum + lack, forgiven |-> p.forgiven + lack]

(* An effect is paid unless its key is recorded; a penalty takes no point   *)
(* that is used.                                                            *)
PayEffect(item, p, e) ==
  LET sum == p.total + Signed(e)
      lack == IF e.type = "penalty" /\ sum < used THEN used - sum ELSE 0
  IN  IF Key(item, e) \in p.keys THEN p
      ELSE [keys |-> p.keys \union {Key(item, e)}, total |-> sum + lack, forgiven |-> p.forgiven + lack]

CheckBonusesAndPenalties(item) ==
  /\ item \in checking
  /\ checking' = checking \ {item}
  /\ LET before == [keys |-> usedKeys, total |-> total, forgiven |-> forgiven]
         after == FoldLeft(LAMBDA p, e : PayEffect(item, p, e), before,
                           GetBonusesAndPenaltiesForItem(item, Attitutes))
     IN  usedKeys' = after.keys /\ total' = after.total /\ forgiven' = after.forgiven
  /\ UNCHANGED <<countryList, page, form, country, chosen, used, removable, stale, unpaid, returns, results>>

(* The check of a ballot that was left, by that ballot's country.           *)
StaleCheck(c) ==
  /\ c \in stale
  /\ stale' = stale \ {c}
  /\ usedKeys' = usedKeys \union
       {Key(c.item, e) : e \in Range(GetBonusesAndPenaltiesForItem(c.item, AttitutesOf(c.under)))}
  /\ UNCHANGED <<countryList, page, form, country, chosen, total, used, forgiven,
                 removable, checking, unpaid, returns, results>>

SubmitBallot ==
  /\ page = "area-ballot" /\ chosen # {}
  /\ Unmount("review")
  /\ results' = GetResultsForReview(SelectedItems, Modules, Attitutes)
  /\ UNCHANGED <<countryList, form, country, chosen, points, returns>>

(* "Try again selecting articles": the keys stay. *)
ResetSelectArticles ==
  /\ page = "review" /\ returns < MaxReturns
  /\ returns' = returns + 1
  /\ chosen' = {}
  /\ total' = StartPoints /\ used' = 0 /\ unpaid' = TRUE
  /\ Mount({})
  /\ UNCHANGED <<countryList, form, country, usedKeys, forgiven, stale, results>>

-----------------------------------------------------------------------------
Init ==
  /\ countryList = Countries
  /\ page = "create-country"
  /\ picked = NoCountry /\ submitDisabled = TRUE
  /\ country = NoCountry
  /\ chosen = {}
  /\ total = StartPoints /\ used = 0 /\ usedKeys = {}
  /\ removable = {} /\ checking = {} /\ stale = {}
  /\ forgiven = 0 /\ unpaid = FALSE /\ returns = 0
  /\ results = NoResults

Next ==
  \/ \E c \in 1 .. Own : CountrySelected(c)
  \/ \E f \in Field, length \in Length : SetField(f, length)
  \/ \E a \in Sliders, v \in SliderValue : ChangeAttitute(a, v)
  \/ CreateCountryFinished \/ BackToCountry \/ ForwardToBallot
  \/ \E item \in Items : Choose(item) \/ Deselect(item) \/ CheckBonusesAndPenalties(item)
  \/ \E c \in stale : StaleCheck(c)
  \/ SubmitBallot \/ ResetSelectArticles

Spec == Init /\ [][Next]_vars

-----------------------------------------------------------------------------
(* A constitution chosen under one country of the list is judged by just    *)
(* what the game gained and lost by it, point by point, and by what the     *)
(* penalties were short of (_checkBonusesAndPenalties, getResultsForReview).*)
(* It is not when an article was taken out again, whose effects stay paid,  *)
(* a ballot was left before a check of it or tried again, or an article has *)
(* one effect twice, which is paid once and judged twice.                   *)
EffectsOf(item) == GetBonusesAndPenaltiesForItem(item, Attitutes)
KeysOf(items) == UNION {{Key(item, e) : e \in Range(EffectsOf(item))} : item \in items}
JudgedAsPaid ==
  /\ page = "review" /\ country # Own /\ (\A c \in chosen : c.under = country)
  /\ ~unpaid
  /\ usedKeys \subseteq KeysOf(SelectedItems)
  /\ \A item \in SelectedItems : IsInjective(EffectsOf(item))
  =>
    results.info.total.bonus - results.info.total.penalty = (total - StartPoints) - forgiven

(* One more article that costs nothing in this country never makes the      *)
(* constitution's verdict worse, nor its lack one better.                   *)
Rank(verdict) ==
  CASE verdict = "highNetPenalties" -> 0 [] verdict = "breakEven" -> 1
    [] verdict = "highNetBonuses" -> 2
VerdictOf(items) == Rank(GetResultsForReview(items, Modules, Attitutes).verdict)
VerdictIsMonotone ==
  country # NoCountry =>
    \A item \in SelectedItems :
      GetPenaltiesForItem(item, Attitutes) = <<>> =>
        VerdictOf(SelectedItems) >= VerdictOf(SelectedItems \ {item})

(* "if they do not match the Cultural Values of your electorate, you will   *)
(* pay a Choice Point penalty" (openSelectionInfoDialog): a penalty rule    *)
(* for the level that the country has in that attitude is paid.             *)
MismatchesCost ==
  \A c \in {d \in chosen : ~unpaid /\ d.under # Own /\ d.item \notin checking} : \A rule \in Range(c.item.penalty) :
    LET a == FixupWord(rule.attitute)
    IN  (a \in attitutes /\ CountryLevel(Countries[c.under].culturalAttitutes[a]) = rule.level) =>
          \E k \in usedKeys : k.item = c.item /\ k.effect.type = "penalty" /\ k.effect.attitute = a
=============================================================================
