---------------------------- MODULE AttitudeRules ----------------------------
(***************************************************************************)
(* What an article gives and costs in a country, and how a finished        *)
(* constitution is judged (oap-bonuses-and-penalties.js).                  *)
(*                                                                         *)
(* An article's bonus and penalty columns are lists of rules such as "high *)
(* liberty": a level and an attitude, in the many spellings of the         *)
(* spreadsheet, which fixupRules brings together.  A country has a number  *)
(* from 0 to 10 for every attitude.                                        *)
(***************************************************************************)
EXTENDS Integers, Sequences, FiniteSets, SequencesExt, FiniteSetsExt, Sublists

attitutes == {"lawAndOrder", "progressivism", "authority", "science", "collective",
              "privacy", "liberty", "tradition", "independence"}
Level == {"high", "medium", "low"}
Value == 0 .. 10
Rules == [level : Level, attitute : STRING]

-----------------------------------------------------------------------------
(***************************************************************************)
(* Rules.                                                                  *)
(***************************************************************************)

ToLowerCase(word) == IF word = "lawAndOrder" THEN "lawandorder" ELSE word

(* The words of the spreadsheet, lower-cased, and what they are taken for.  *)
Respelled ==
  [ word \in {"law/order", "law and order", "law & order", "law/iorder"} |-> "lawAndOrder" ]
  @@ [ word \in {"progressivisim", "progressism", "progressive", "progrevissim",
                 "social progress"} |-> "progressivism" ]
  @@ ("sovreignty" :> "independence") @@ ("collectivism" :> "collective")

FixupWord(word) == IF word \in DOMAIN Respelled THEN Respelled[word] ELSE word
FixupRules(rule) == [rule EXCEPT !.attitute = FixupWord(@)]

(* Penalties are fixed up and then lower-cased once more. *)
PenaltyRule(rule) == [rule EXCEPT !.attitute = ToLowerCase(FixupWord(@))]

High(v) == v >= 7
Medium(v) == v >= 3 /\ v < 7
Low(v) == v >= 0 /\ v < 3
Within(level, v) ==
  \/ level = "high" /\ High(v)
  \/ level = "medium" /\ Medium(v)
  \/ level = "low" /\ Low(v)

Worth == [high |-> 7, medium |-> 5, low |-> 2]

(* An attitude that is not found is undefined, which is within no level; to *)
(* the bonuses 0 is as good as undefined.                                   *)
BonusApplies(rule, country) ==
  /\ rule.attitute \in DOMAIN country
  /\ country[rule.attitute] # 0
  /\ Within(rule.level, country[rule.attitute])

PenaltyApplies(rule, country) ==
  rule.attitute \in DOMAIN country /\ Within(rule.level, country[rule.attitute])

Effect(type, rule) ==
  [type |-> type, value |-> Worth[rule.level], attitute |-> rule.attitute, level |-> rule.level]

Mapped(s, Op(_)) == [i \in DOMAIN s |-> Op(s[i])]

GetBonusesForItem(item, country) ==
  LET rules == Mapped(item.bonus, FixupRules)
      applying == {rule \in Range(rules) : BonusApplies(rule, country)}
      effect(rule) == Effect("bonus", rule)
  IN  Mapped(FilterSeq(rules, applying), effect)

GetPenaltiesForItem(item, country) ==
  LET rules == Mapped(item.penalty, PenaltyRule)
      applying == {rule \in Range(rules) : PenaltyApplies(rule, country)}
      effect(rule) == Effect("penalty", rule)
  IN  Mapped(FilterSeq(rules, applying), effect)

GetBonusesAndPenaltiesForItem(item, country) ==
  GetBonusesForItem(item, country) \o GetPenaltiesForItem(item, country)

-----------------------------------------------------------------------------
(***************************************************************************)
(* The review.                                                             *)
(***************************************************************************)

SaveItemToObject_OneTotal(info, e) ==
  [info EXCEPT !.total["bonus"] = @ + e.value, !.byAttitute[e.type][e.attitute] = @ + e.value]

(* saveItemToObject keeps totals, and sums by attitude, of either type. *)
SaveItemToObject(info, e) ==
  [info EXCEPT !.total[e.type] = @ + e.value, !.byAttitute[e.type][e.attitute] = @ + e.value]

NoInfo ==
  LET none == [bonus |-> 0, penalty |-> 0]
      nowhere == [a \in attitutes |-> 0]
  IN  [total |-> none, byAttitute |-> [bonus |-> nowhere, penalty |-> nowhere]]

BonusPenaltyInfo(selectedItems, country) ==
  FoldSet(LAMBDA item, info :
            FoldLeft(SaveItemToObject, info, GetBonusesAndPenaltiesForItem(item, country)),
          NoInfo, selectedItems)

AttituteVerdict(info, a) ==
  LET profitLoss == info.byAttitute.bonus[a] - info.byAttitute.penalty[a]
  IN  IF profitLoss \in -10 .. 10 THEN "breakEven"
      ELSE IF profitLoss < 0 THEN "highPenalty" ELSE "highBonus"

CountryLevel(v) == IF v > 6 THEN "high" ELSE IF v > 2 THEN "medium" ELSE "low"

(* The paragraph of an attitude is picked by its verdict and the level.     *)
AttituteReviews(info, country) ==
  [a \in attitutes |-> <<AttituteVerdict(info, a), CountryLevel(country[a])>>]

(* The share of its module that the selected articles of it were written.   *)
Counted(selectedItems, module) ==
  LET counted == {item \in selectedItems : item.module = module}
  IN  SumFunction([item \in counted |-> item.authorshipPercent])

GetCompletionScoreByModuleType(modules, selectedItems) ==
  [module \in modules |-> IF Counted(selectedItems, module) >= 15 THEN "viable" ELSE "weak"]

Weak(score) == {module \in DOMAIN score : score[module] = "weak"}

NetVerdict(info) ==
  LET profitLoss == info.total.bonus - info.total.penalty
  IN  IF profitLoss \in -15 .. 15 THEN "breakEven"
      ELSE IF profitLoss < 0 THEN "highNetPenalties" ELSE "highNetBonuses"

(* More than one weak module spoils the verdict, a single one a good one.   *)
WithWeak_Forgiving(verdict, weak) ==
  IF Cardinality(weak) > 1 THEN "breakEven"
  ELSE IF weak # {} /\ verdict = "highNetBonuses" THEN "highNetPenalties"
  ELSE verdict

WithWeak(verdict, weak) ==
  IF Cardinality(weak) > 1 THEN "highNetPenalties"
  ELSE IF weak # {} /\ verdict = "highNetBonuses" THEN "breakEven"
  ELSE verdict

GetResultsForReview(selectedItems, modules, country) ==
  LET info == BonusPenaltyInfo(selectedItems, country)
      score == GetCompletionScoreByModuleType(modules, selectedItems)
  IN  [attituteReviews |-> AttituteReviews(info, country),
       verdict |-> WithWeak(NetVerdict(info), Weak(score)),
       isConstitutionViable |-> Weak(score) = {},
       info |-> info]
=============================================================================
