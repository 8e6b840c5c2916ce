--------------------------- MODULE CountryGameProofs ---------------------------
(***************************************************************************)
(* What the review makes of a constitution, for every list of countries    *)
(* and every set of articles.                                              *)
(*                                                                         *)
(* The sums of the rules are folds, over a set of articles or the effects  *)
(* of one: what such a fold computes is what any function on the subsets   *)
(* does that takes one element after the other, and does not depend on     *)
(* which is taken first.                                                   *)
(***************************************************************************)
EXTENDS CountryGame, SublistProofs

-----------------------------------------------------------------------------
(***************************************************************************)
(* Sums over finite sets.                                                  *)
(***************************************************************************)

(* h takes one element of a set after the other, whichever, and adds up.    *)
IsSum(h, w, X) ==
  /\ h \in [SUBSET X -> Int] /\ w \in [X -> Int]
  /\ h[{}] = 0
  /\ \A t \in SUBSET X : t # {} => \E x \in t : h[t] = w[x] + h[t \ {x}]

(* Whichever is taken out first, what is left adds up with it.              *)
AnyAdds(h, w, X) == \A t \in SUBSET X : \A x \in t : h[t] = w[x] + h[t \ {x}]

LEMMA AnyFirst ==
  ASSUME NEW X, IsFiniteSet(X), NEW h, NEW w, IsSum(h, w, X)
  PROVE  AnyAdds(h, w, X)
<1> DEFINE G == {t \in SUBSET X : \A x \in t : h[t] = w[x] + h[t \ {x}]}
<1>1. h \in [SUBSET X -> Int] /\ w \in [X -> Int]
  BY DEF IsSum
<1>2. ASSUME NEW t \in SUBSET X, \A x \in t : t \ {x} \in G PROVE t \in G
  <2>1. ASSUME NEW x \in t PROVE h[t] = w[x] + h[t \ {x}]
    <3>1. PICK y \in t : h[t] = w[y] + h[t \ {y}]
      BY <2>1 DEF IsSum
    <3>2. CASE x = y
      BY <3>1, <3>2
    <3>3. CASE x # y
      <4>1. x \in t \ {y} /\ y \in t \ {x}
        BY <3>3
      <4>2. h[t \ {y}] = w[x] + h[(t \ {y}) \ {x}] /\ h[t \ {x}] = w[y] + h[(t \ {x}) \ {y}]
        BY <1>2, <4>1
      <4>3. (t \ {y}) \ {x} = (t \ {x}) \ {y} /\ (t \ {x}) \ {y} \in SUBSET X
        OBVIOUS
      <4> DEFINE r == h[(t \ {x}) \ {y}]
      <4>4. w[x] \in Int /\ w[y] \in Int /\ r \in Int
        BY <1>1, <4>3
      <4>5. h[t] = w[y] + (w[x] + r) /\ h[t \ {x}] = w[y] + r
        BY <3>1, <4>2, <4>3
      <4> HIDE DEF r
      <4>6. QED
        BY <4>4, <4>5
    <3>4. QED
      BY <3>2, <3>3
  <2>2. QED
    BY <2>1
<1>3. \A t \in SUBSET X : t \in G
  <2> HIDE DEF G
  <2>1. QED
    BY <1>2, SubsetInduction
<1>4. QED
  BY <1>3 DEF AnyAdds

(* Two sums over sets that correspond are one.                              *)
LEMMA SumsAgree ==
  ASSUME NEW X, IsFiniteSet(X), NEW h, NEW w, IsSum(h, w, X),
         NEW Y, IsFiniteSet(Y), NEW k, NEW v, IsSum(k, v, Y),
         NEW m \in [X -> Y], \A x, y \in X : m[x] = m[y] => x = y,
         \A x \in X : w[x] = v[m[x]]
  PROVE  \A t \in SUBSET X : h[t] = k[{m[x] : x \in t}]
<1> DEFINE Image(t) == {m[x] : x \in t}
           G == {t \in SUBSET X : h[t] = k[Image(t)]}
<1>1. ASSUME NEW t \in SUBSET X, \A x \in t : t \ {x} \in G PROVE t \in G
  <2>1. CASE t = {}
    <3>1. Image(t) = {}
      BY <2>1
    <3>2. h[t] = 0 /\ k[Image(t)] = 0
      BY <2>1, <3>1 DEF IsSum
    <3>3. QED
      BY <3>2
  <2>2. CASE t # {}
    <3>1. PICK x \in t : TRUE
      BY <2>2
    <3>2. Image(t) \in SUBSET Y /\ m[x] \in Image(t)
      OBVIOUS
    <3>3. Image(t \ {x}) = Image(t) \ {m[x]}
      OBVIOUS
    <3>4. h[t] = w[x] + h[t \ {x}]
      BY AnyFirst DEF AnyAdds
    <3>5. k[Image(t)] = v[m[x]] + k[Image(t) \ {m[x]}]
      <4> HIDE DEF Image
      <4>1. QED
        BY <3>2, AnyFirst DEF AnyAdds
    <3>6. h[t \ {x}] = k[Image(t \ {x})]
      BY <1>1
    <3>7. w[x] = v[m[x]]
      OBVIOUS
    <3>8. h[t] = k[Image(t)]
      <4> HIDE DEF Image
      <4>1. QED
        BY <3>3, <3>4, <3>5, <3>6, <3>7
    <3>9. QED
      BY <3>8
  <2>3. QED
    BY <2>1, <2>2
<1>2. \A t \in SUBSET X : t \in G
  <2> HIDE DEF G
  <2>1. QED
    BY <1>1, SubsetInduction
<1>3. QED
  BY <1>2

(* A sum of naturals is one.                                                *)
LEMMA SumOfNaturals ==
  ASSUME NEW X, IsFiniteSet(X), NEW h, NEW w, IsSum(h, w, X), \A x \in X : w[x] >= 0
  PROVE  \A t \in SUBSET X : h[t] >= 0
<1> DEFINE G == {t \in SUBSET X : h[t] >= 0}
<1>1. ASSUME NEW t \in SUBSET X, \A x \in t : t \ {x} \in G PROVE t \in G
  <2>1. CASE t = {}
    BY <2>1 DEF IsSum
  <2>2. CASE t # {}
    <3>1. PICK x \in t : h[t] = w[x] + h[t \ {x}]
      BY <2>2 DEF IsSum
    <3>2. w[x] \in Int /\ h[t \ {x}] \in Int /\ w[x] >= 0 /\ h[t \ {x}] >= 0
      BY <1>1 DEF IsSum
    <3>3. QED
      BY <3>1, <3>2
  <2>3. QED
    BY <2>1, <2>2
<1>2. \A t \in SUBSET X : t \in G
  <2> HIDE DEF G
  <2>1. QED
    BY <1>1, SubsetInduction
<1>3. QED
  BY <1>2

(* The first element of a set, as folds take it. *)
First(X) == [t \in SUBSET X |-> CHOOSE x \in t : TRUE]

LEMMA FirstPicks ==
  ASSUME NEW X PROVE Picks(First(X), X)
<1>1. ASSUME NEW t \in SUBSET X, t # {} PROVE First(X)[t] \in t
  <2>1. (CHOOSE x \in t : TRUE) \in t
    BY <1>1
  <2>2. QED
    BY <2>1 DEF First
<1>2. QED
  BY <1>1 DEF Picks

(* SumFunction of the community modules is the sum.                         *)
LEMMA SumIs ==
  ASSUME NEW X, IsFiniteSet(X), NEW w \in [X -> Int]
  PROVE  \E h : IsSum(h, w, X) /\ SumFunction(w) = h[X]
<1> DEFINE step == [p \in X \X Int |-> w[p[1]] + p[2]]
           first(t) == CHOOSE x \in t : TRUE
           next(g, t) == w[first(t)] + g[t \ {first(t)}]
           sums(g) == g = [t \in SUBSET X |-> IF t = {} THEN 0 ELSE next(g, t)]
           k == CHOOSE g : sums(g)
<1>1. step \in [X \X Int -> Int]
  OBVIOUS
<1>2. PICK h \in [SUBSET X -> Int] : Folds(h, X, First(X), 0, step)
  <2> DEFINE V == Int
  <2>1. step \in [X \X V -> V] /\ 0 \in V
    BY <1>1
  <2> HIDE DEF step, V
  <2>2. \E h \in [SUBSET X -> V] : Folds(h, X, First(X), 0, step)
    BY <2>1, FoldExists, FirstPicks
  <2>3. QED
    BY <2>2 DEF V
<1>3. ASSUME NEW t \in SUBSET X, t # {}
      PROVE  first(t) \in t /\ First(X)[t] = first(t) /\ h[t] = next(h, t)
  <2>1. first(t) \in t /\ First(X)[t] = first(t)
    BY <1>3, FirstPicks DEF First, Picks
  <2>2. h[t] = step[<<first(t), h[t \ {first(t)}]>>]
    <3> HIDE DEF step, first
    <3>1. QED
      BY <1>2, <1>3, <2>1 DEF Folds
  <2> HIDE DEF first
  <2>3. first(t) \in X /\ t \ {first(t)} \in SUBSET X
    BY <2>1
  <2>4. <<first(t), h[t \ {first(t)}]>> \in X \X Int
    BY <1>2, <2>3
  <2>5. h[t] = next(h, t)
    BY <2>2, <2>4
  <2>6. QED
    BY <2>1, <2>5
<1>4. h[{}] = 0
  BY <1>2 DEF Folds
<1>5. sums(h)
  <2>1. \A t \in SUBSET X : h[t] = IF t = {} THEN 0 ELSE next(h, t)
    BY <1>3, <1>4
  <2> HIDE DEF next
  <2>2. QED
    BY <1>2, <2>1
<1>6. SumFunction(w) = k[X]
  <2>1. DOMAIN w = X
    OBVIOUS
  <2>2. QED
    BY <2>1 DEF SumFunction, SumFunctionOnSet, FoldFunctionOnSet, MapThenFoldSet
<1>7. sums(k)
  <2> HIDE DEF sums
  <2>1. QED
    BY <1>5
<1>8. \A t \in SUBSET X : k[t] = h[t]
  <2>1. k[{}] = h[{}]
    BY <1>4, <1>7
  <2>2. ASSUME NEW t \in SUBSET X, t # {}, k[t \ {First(X)[t]}] = h[t \ {First(X)[t]}]
        PROVE  k[t] = h[t]
    <3>1. k[t] = next(k, t) /\ h[t] = next(h, t)
      <4> HIDE DEF next, k
      <4>1. QED
        BY <1>3, <1>7, <2>2
    <3> HIDE DEF k, first
    <3>2. QED
      BY <1>3, <2>2, <3>1
  <2>3. StepAlike(k, h, X, First(X))
    <3> HIDE DEF k
    <3>1. QED
      BY <2>1, <2>2 DEF StepAlike
  <2> HIDE DEF k
  <2>4. QED
    BY <2>3, FirstPicks, SameSteps
<1>9. IsSum(h, w, X)
  <2>1. ASSUME NEW t \in SUBSET X, t # {} PROVE \E x \in t : h[t] = w[x] + h[t \ {x}]
    <3> HIDE DEF first
    <3>1. QED
      BY <1>3, <2>1
  <2>2. QED
    BY <1>4, <2>1 DEF IsSum
<1>10. SumFunction(w) = h[X]
  <2> HIDE DEF k
  <2>1. QED
    BY <1>6, <1>8
<1>11. QED
  BY <1>9, <1>10

-----------------------------------------------------------------------------
(***************************************************************************)
(* The effects of an article.                                              *)
(***************************************************************************)

CountryAttitutes == [attitutes -> Value]
EffectOf(kind) == [type : {kind}, value : Nat, attitute : attitutes, level : Level]
Effects == EffectOf("bonus") \union EffectOf("penalty")

(* What a list of rules comes to: an effect for each rule that applies.     *)
LEMMA RulesApplied ==
  ASSUME NEW kind \in {"bonus", "penalty"}, NEW rules, NEW S, rules \in Seq(S), NEW T,
         \A rule \in T : rule.level \in Level /\ rule.attitute \in attitutes
  PROVE  LET effect(rule) == Effect(kind, rule)
         IN  Mapped(FilterSeq(rules, T), effect) \in Seq(EffectOf(kind))
<1> DEFINE left == FilterSeq(rules, T)
           made == [i \in 1 .. Len(left) |-> Effect(kind, left[i])]
<1>1. left \in Seq(S) /\ \A i \in 1 .. Len(left) : left[i] \in T
  BY FilterEntries
<1>2. Len(left) \in Nat /\ DOMAIN left = 1 .. Len(left)
  BY <1>1
<1>3. ASSUME NEW i \in 1 .. Len(left) PROVE Effect(kind, left[i]) \in EffectOf(kind)
  <2>1. left[i].level \in Level /\ left[i].attitute \in attitutes
    BY <1>1
  <2>2. Worth[left[i].level] \in Nat
    BY <2>1 DEF Worth, Level
  <2>3. QED
    BY <2>1, <2>2 DEF Effect, EffectOf
<1>4. made \in Seq(EffectOf(kind))
  <2> HIDE DEF left
  <2>1. made \in [1 .. Len(left) -> EffectOf(kind)]
    BY <1>3
  <2>2. QED
    BY <1>2, <2>1
<1>5. QED
  BY <1>2, <1>4 DEF Mapped

LEMMA BonusesTyped ==
  ASSUME NEW item \in Items, NEW c \in CountryAttitutes
  PROVE  GetBonusesForItem(item, c) \in Seq(EffectOf("bonus"))
<1> DEFINE rules == Mapped(item.bonus, FixupRules)
           T == {rule \in Range(rules) : BonusApplies(rule, c)}
<1>1. item.bonus \in Seq(Rules)
  BY ItemsAssumption
<1>2. rules = [i \in 1 .. Len(item.bonus) |-> FixupRules(item.bonus[i])] /\ Len(item.bonus) \in Nat
  BY <1>1 DEF Mapped
<1>3. rules \in Seq(Range(rules))
  <2>1. rules \in [1 .. Len(item.bonus) -> Range(rules)]
    BY <1>2 DEF Range
  <2>2. QED
    BY <1>2, <2>1, Enumerated
<1>4. ASSUME NEW rule \in T PROVE rule.level \in Level /\ rule.attitute \in attitutes
  <2>1. PICK i \in 1 .. Len(item.bonus) : rule = FixupRules(item.bonus[i])
    BY <1>2 DEF Range
  <2>2. item.bonus[i] \in Rules
    BY <1>1, <2>1
  <2>3. rule.level \in Level
    BY <2>1, <2>2 DEF FixupRules, Rules
  <2>4. rule.attitute \in attitutes
    BY DEF BonusApplies, CountryAttitutes
  <2>5. QED
    BY <2>3, <2>4
<1> HIDE DEF rules, T
<1>5. QED
  BY <1>3, <1>4, RulesApplied DEF GetBonusesForItem, rules, T

LEMMA PenaltiesTyped ==
  ASSUME NEW item \in Items, NEW c \in CountryAttitutes
  PROVE  GetPenaltiesForItem(item, c) \in Seq(EffectOf("penalty"))
<1> DEFINE rules == Mapped(item.penalty, PenaltyRule)
           T == {rule \in Range(rules) : PenaltyApplies(rule, c)}
<1>1. item.penalty \in Seq(Rules)
  BY ItemsAssumption
<1>2. rules = [i \in 1 .. Len(item.penalty) |-> PenaltyRule(item.penalty[i])] /\ Len(item.penalty) \in Nat
  BY <1>1 DEF Mapped
<1>3. rules \in Seq(Range(rules))
  <2>1. rules \in [1 .. Len(item.penalty) -> Range(rules)]
    BY <1>2 DEF Range
  <2>2. QED
    BY <1>2, <2>1, Enumerated
<1>4. ASSUME NEW rule \in T PROVE rule.level \in Level /\ rule.attitute \in attitutes
  <2>1. PICK i \in 1 .. Len(item.penalty) : rule = PenaltyRule(item.penalty[i])
    BY <1>2 DEF Range
  <2>2. item.penalty[i] \in Rules
    BY <1>1, <2>1
  <2>3. rule.level \in Level
    BY <2>1, <2>2 DEF PenaltyRule, Rules
  <2>4. rule.attitute \in attitutes
    BY DEF PenaltyApplies, CountryAttitutes
  <2>5. QED
    BY <2>3, <2>4
<1> HIDE DEF rules, T
<1>5. QED
  BY <1>3, <1>4, RulesApplied DEF GetPenaltiesForItem, rules, T

LEMMA EffectsTyped ==
  ASSUME NEW item \in Items, NEW c \in CountryAttitutes
  PROVE  /\ GetBonusesAndPenaltiesForItem(item, c) \in Seq(Effects)
         /\ GetPenaltiesForItem(item, c) = <<>> =>
              GetBonusesAndPenaltiesForItem(item, c) \in Seq(EffectOf("bonus"))
<1> DEFINE b == GetBonusesForItem(item, c)
           p == GetPenaltiesForItem(item, c)
<1>1. b \in Seq(EffectOf("bonus")) /\ p \in Seq(EffectOf("penalty"))
  BY BonusesTyped, PenaltiesTyped
<1> HIDE DEF b, p
<1>2. b \in Seq(Effects) /\ p \in Seq(Effects)
  BY <1>1 DEF Effects
<1>3. b \o p \in Seq(Effects)
  BY <1>2
<1>4. p = <<>> => b \o p = b
  BY <1>1
<1>5. QED
  BY <1>1, <1>3, <1>4 DEF GetBonusesAndPenaltiesForItem, b, p

-----------------------------------------------------------------------------
(***************************************************************************)
(* What the effects of an article come to.                                 *)
(***************************************************************************)

Kind == {"bonus", "penalty"}
Info == [total : [Kind -> Int], byAttitute : [Kind -> [attitutes -> Int]]]
Balance(info) == info.total.bonus - info.total.penalty

LEMMA Indices ==
  ASSUME NEW s \in Seq(Effects)
  PROVE  /\ DOMAIN s = 1 .. Len(s) /\ Len(s) \in Nat /\ IsFiniteSet(DOMAIN s)
         /\ Picks(LastOf(DOMAIN s), DOMAIN s)
         /\ \A i \in DOMAIN s : s[i] \in Effects /\ s[i].value \in Nat /\ Signed(s[i]) \in Int
<1>1. DOMAIN s = 1 .. Len(s) /\ Len(s) \in Nat
  OBVIOUS
<1>2. IsFiniteSet(DOMAIN s)
  BY <1>1, FS_Interval
<1>3. Picks(LastOf(DOMAIN s), DOMAIN s)
  BY <1>1, MaxIsIn DEF LastOf, Picks
<1>4. ASSUME NEW i \in DOMAIN s
      PROVE  s[i] \in Effects /\ s[i].value \in Nat /\ Signed(s[i]) \in Int
  <2>1. s[i] \in Effects
    BY <1>4
  <2>2. s[i].value \in Nat
    BY <2>1 DEF Effects, EffectOf
  <2>3. QED
    BY <2>1, <2>2 DEF Signed
<1>5. QED
  BY <1>1, <1>2, <1>3, <1>4

(* Net is the sum of the effects, each with its sign.                       *)
Net(effects) == SumFunction([i \in DOMAIN effects |-> Signed(effects[i])])

LEMMA NetSum ==
  ASSUME NEW s \in Seq(Effects)
  PROVE  /\ Net(s) \in Int
         /\ \E h : /\ IsSum(h, [i \in DOMAIN s |-> Signed(s[i])], DOMAIN s)
                   /\ Net(s) = h[DOMAIN s]
<1> DEFINE D == DOMAIN s
           w == [i \in D |-> Signed(s[i])]
<1>1. IsFiniteSet(D) /\ w \in [D -> Int]
  BY Indices
<1>2. PICK h : IsSum(h, w, D) /\ SumFunction(w) = h[D]
  <2> HIDE DEF D, w
  <2>1. QED
    BY <1>1, SumIs
<1>3. h[D] \in Int
  <2> HIDE DEF w
  <2>1. QED
    BY <1>2 DEF IsSum
<1>4. QED
  BY <1>2, <1>3 DEF Net

(* Bonuses only do not cost anything.                                       *)
LEMMA NetOfBonuses ==
  ASSUME NEW s \in Seq(EffectOf("bonus"))
  PROVE  Net(s) >= 0
<1> DEFINE D == DOMAIN s
           w == [i \in D |-> Signed(s[i])]
<1>1. s \in Seq(Effects)
  BY DEF Effects
<1>2. PICK h : IsSum(h, w, D) /\ Net(s) = h[D]
  BY <1>1, NetSum
<1>3. IsFiniteSet(D)
  BY <1>1, Indices
<1>4. ASSUME NEW i \in D PROVE w[i] >= 0
  <2>1. s[i] \in EffectOf("bonus")
    OBVIOUS
  <2>2. s[i].type = "bonus" /\ s[i].value \in Nat
    BY <2>1 DEF EffectOf
  <2>3. QED
    BY <2>2 DEF Signed
<1>5. h[D] >= 0
  <2> HIDE DEF D, w
  <2>1. D \in SUBSET D
    OBVIOUS
  <2>2. QED
    BY <1>2, <1>3, <1>4, <2>1, SumOfNaturals
<1>6. QED
  BY <1>2, <1>5

LEMMA BalanceIsInt ==
  ASSUME NEW info \in Info PROVE Balance(info) \in Int
BY DEF Balance, Info, Kind

LEMMA Shifted ==
  ASSUME NEW a \in Int, NEW x \in Int, NEW y \in Int
  PROVE  a + (x + y) = (a + x) + y
OBVIOUS

(* An effect is added to the total of its type.                             *)
LEMMA SavedIsAdded ==
  ASSUME NEW info \in Info, NEW e \in Effects
  PROVE  /\ SaveItemToObject(info, e) \in Info
         /\ Balance(SaveItemToObject(info, e)) = Signed(e) + Balance(info)
<1> DEFINE saved == SaveItemToObject(info, e)
           sums == [info.total EXCEPT ![e.type] = @ + e.value]
           by == [info.byAttitute EXCEPT ![e.type][e.attitute] = @ + e.value]
<1>1. e.type \in Kind /\ e.value \in Nat /\ e.attitute \in attitutes
  BY DEF Effects, EffectOf, Kind
<1>2. info.total \in [Kind -> Int] /\ info.byAttitute \in [Kind -> [attitutes -> Int]]
  BY DEF Info
<1>3. saved = [total |-> sums, byAttitute |-> by]
  <2>1. info = [total |-> info.total, byAttitute |-> info.byAttitute]
    BY DEF Info
  <2>2. saved = [[info EXCEPT !.total = sums] EXCEPT !.byAttitute = by]
    BY <2>1 DEF SaveItemToObject
  <2> HIDE DEF saved, sums, by
  <2>3. QED
    BY <2>1, <2>2
<1>4. sums \in [Kind -> Int]
  BY <1>1, <1>2
<1>5. by \in [Kind -> [attitutes -> Int]]
  <2>1. info.byAttitute[e.type] \in [attitutes -> Int]
    BY <1>1, <1>2
  <2>2. [info.byAttitute[e.type] EXCEPT ![e.attitute] = @ + e.value] \in [attitutes -> Int]
    BY <1>1, <2>1
  <2>3. by = [info.byAttitute EXCEPT ![e.type] =
                 [info.byAttitute[e.type] EXCEPT ![e.attitute] = @ + e.value]]
    BY <1>1, <1>2
  <2>4. QED
    BY <1>1, <1>2, <2>2, <2>3
<1>6. /\ info.total.bonus \in Int /\ info.total.penalty \in Int
      /\ sums.bonus = IF e.type = "bonus" THEN info.total.bonus + e.value ELSE info.total.bonus
      /\ sums.penalty = IF e.type = "bonus" THEN info.total.penalty ELSE info.total.penalty + e.value
  BY <1>1, <1>2 DEF Kind
<1>7. Balance(saved) = sums.bonus - sums.penalty
  BY <1>3 DEF Balance
<1> HIDE DEF saved, sums, by
<1>8. Balance(saved) = Signed(e) + Balance(info)
  BY <1>1, <1>6, <1>7 DEF Balance, Signed
<1>9. saved \in Info
  BY <1>3, <1>4, <1>5 DEF Info
<1>10. QED
  BY <1>8, <1>9 DEF saved

(* The effects of an article change the balance by its net.                 *)
LEMMA SavedIsNet ==
  ASSUME NEW s \in Seq(Effects), NEW info \in Info
  PROVE  /\ FoldLeft(SaveItemToObject, info, s) \in Info
         /\ Balance(FoldLeft(SaveItemToObject, info, s)) = Net(s) + Balance(info)
<1> DEFINE D == DOMAIN s
           step == [p \in D \X Info |-> SaveItemToObject(p[2], s[p[1]])]
           next(g, t) == SaveItemToObject(g[t \ {Max(t)}], s[Max(t)])
           saves(g) == g = [t \in SUBSET D |-> IF t = {} THEN info ELSE next(g, t)]
           k == CHOOSE g : saves(g)
<1>1. /\ IsFiniteSet(D) /\ Picks(LastOf(D), D)
      /\ \A i \in D : s[i] \in Effects /\ Signed(s[i]) \in Int
  BY Indices
<1>2. step \in [D \X Info -> Info]
  BY <1>1, SavedIsAdded
<1>3. PICK h \in [SUBSET D -> Info] : Folds(h, D, LastOf(D), info, step)
  <2> HIDE DEF D, step
  <2>1. QED
    BY <1>1, <1>2, FoldExists
<1>4. ASSUME NEW t \in SUBSET D, t # {}
      PROVE  /\ Max(t) \in D /\ LastOf(D)[t] = Max(t)
             /\ t \ {Max(t)} \in SUBSET D /\ h[t \ {Max(t)}] \in Info
             /\ h[t] = next(h, t)
  <2>1. Max(t) \in t /\ LastOf(D)[t] = Max(t)
    BY <1>1, <1>4 DEF LastOf, Picks
  <2>2. h[t] = step[<<Max(t), h[t \ {Max(t)}]>>]
    <3> HIDE DEF step, D
    <3>1. QED
      BY <1>3, <1>4, <2>1 DEF Folds
  <2>3. Max(t) \in D /\ t \ {Max(t)} \in SUBSET D
    BY <2>1
  <2>4. h[t \ {Max(t)}] \in Info /\ <<Max(t), h[t \ {Max(t)}]>> \in D \X Info
    BY <1>3, <2>3
  <2>5. h[t] = next(h, t)
    BY <2>2, <2>4
  <2>6. QED
    BY <2>1, <2>3, <2>4, <2>5
<1>5. h[{}] = info
  BY <1>3 DEF Folds
<1>6. saves(h)
  <2>1. \A t \in SUBSET D : h[t] = IF t = {} THEN info ELSE next(h, t)
    BY <1>4, <1>5
  <2> HIDE DEF next, D
  <2>2. QED
    BY <1>3, <2>1
<1>7. FoldLeft(SaveItemToObject, info, s) = k[D]
  BY DEF FoldLeft, MapThenFoldSet
<1>8. saves(k)
  <2> HIDE DEF saves
  <2>1. QED
    BY <1>6
<1>9. \A t \in SUBSET D : k[t] = h[t]
  <2>1. k[{}] = h[{}]
    BY <1>5, <1>8
  <2>2. ASSUME NEW t \in SUBSET D, t # {}, k[t \ {LastOf(D)[t]}] = h[t \ {LastOf(D)[t]}]
        PROVE  k[t] = h[t]
    <3>1. k[t] = next(k, t) /\ h[t] = next(h, t)
      <4> HIDE DEF next, D, k
      <4>1. QED
        BY <1>4, <1>8, <2>2
    <3>2. QED
      BY <1>4, <2>2, <3>1
  <2>3. StepAlike(k, h, D, LastOf(D))
    <3> HIDE DEF D, k, next, saves
    <3>1. QED
      BY <2>1, <2>2 DEF StepAlike
  <2> HIDE DEF D, k, next, saves
  <2>4. QED
    BY <1>1, <2>3, SameSteps
<1>10. FoldLeft(SaveItemToObject, info, s) = h[D] /\ h[D] \in Info
  <2> HIDE DEF k
  <2>1. QED
    BY <1>3, <1>7, <1>9
<1>11. PICK f \in [SUBSET D -> Int] :
         /\ Net(s) = f[D] /\ f[{}] = 0
         /\ \A t \in SUBSET D : \A i \in t : f[t] = Signed(s[i]) + f[t \ {i}]
  <2> DEFINE w == [i \in D |-> Signed(s[i])]
  <2>1. PICK f : IsSum(f, w, D) /\ Net(s) = f[D]
    BY NetSum
  <2>2. \A t \in SUBSET D : \A i \in t : w[i] = Signed(s[i])
    OBVIOUS
  <2> HIDE DEF D, w
  <2>3. f \in [SUBSET D -> Int] /\ f[{}] = 0
    BY <2>1 DEF IsSum
  <2>4. IsFiniteSet(D) /\ IsSum(f, w, D)
    BY <1>1, <2>1
  <2>5. AnyAdds(f, w, D)
    BY <2>4, AnyFirst
  <2>6. QED
    BY <2>1, <2>2, <2>3, <2>5 DEF AnyAdds
<1> DEFINE b == [t \in SUBSET D |-> Balance(h[t])]
           n == [t \in SUBSET D |-> f[t] + Balance(info)]
<1>12. StepAlike(b, n, D, LastOf(D))
  <2>1. Balance(info) \in Int
    BY BalanceIsInt
  <2>2. b[{}] = n[{}]
    BY <1>5, <1>11, <2>1
  <2>3. ASSUME NEW t \in SUBSET D, t # {}, b[t \ {LastOf(D)[t]}] = n[t \ {LastOf(D)[t]}]
        PROVE  b[t] = n[t]
    <3> DEFINE r == t \ {Max(t)}
               e == s[Max(t)]
    <3>1. /\ r \in SUBSET D /\ h[r] \in Info /\ h[t] = SaveItemToObject(h[r], e)
          /\ e \in Effects /\ Signed(e) \in Int /\ LastOf(D)[t] = Max(t)
      BY <1>1, <1>4, <2>3
    <3>2. f[t] = Signed(e) + f[r] /\ f[r] \in Int
      <4>1. Max(t) \in t
        BY <1>1, <2>3, <3>1 DEF Picks
      <4>2. QED
        BY <1>11, <3>1, <4>1
    <3>3. b[r] = n[r] /\ b[r] = Balance(h[r]) /\ n[r] = f[r] + Balance(info)
      BY <2>3, <3>1
    <3>4. b[t] = Balance(h[t]) /\ n[t] = f[t] + Balance(info)
      OBVIOUS
    <3> HIDE DEF r, e, b, n, D
    <3>5. Balance(h[t]) = Signed(e) + Balance(h[r])
      BY <3>1, SavedIsAdded
    <3>6. Signed(e) + (f[r] + Balance(info)) = (Signed(e) + f[r]) + Balance(info)
      BY <2>1, <3>1, <3>2, Shifted
    <3>7. QED
      BY <3>2, <3>3, <3>4, <3>5, <3>6, Zenon
  <2> HIDE DEF b, n
  <2>4. QED
    BY <2>2, <2>3 DEF StepAlike
<1>13. b[D] = n[D]
  <2> HIDE DEF D, b, n
  <2>1. D \in SUBSET D
    OBVIOUS
  <2>2. QED
    BY <1>1, <1>12, <2>1, SameSteps
<1>14. Balance(h[D]) = Net(s) + Balance(info)
  BY <1>11, <1>13
<1>15. QED
  <2> HIDE DEF D
  <2>1. QED
    BY <1>10, <1>14

(* The balance of a constitution is the sum of the nets of its articles.    *)
NetsOf(S, c) == [item \in S |-> Net(GetBonusesAndPenaltiesForItem(item, c))]

LEMMA NoInfoTyped == NoInfo \in Info /\ Balance(NoInfo) = 0
<1> DEFINE none == [bonus |-> 0, penalty |-> 0]
           nowhere == [a \in attitutes |-> 0]
           by == [bonus |-> nowhere, penalty |-> nowhere]
<1>1. none \in [Kind -> Int] /\ none.bonus = 0 /\ none.penalty = 0
  BY DEF Kind
<1>2. nowhere \in [attitutes -> Int]
  OBVIOUS
<1>3. by \in [Kind -> [attitutes -> Int]]
  <2> HIDE DEF nowhere
  <2>1. QED
    BY <1>2 DEF Kind
<1>4. NoInfo = [total |-> none, byAttitute |-> by]
  BY DEF NoInfo
<1> HIDE DEF none, by
<1>5. QED
  BY <1>1, <1>3, <1>4 DEF Info, Balance

LEMMA InfoSum ==
  ASSUME NEW S \in SUBSET Items, IsFiniteSet(S), NEW c \in CountryAttitutes
  PROVE  /\ BonusPenaltyInfo(S, c) \in Info
         /\ \E h : IsSum(h, NetsOf(S, c), S) /\ Balance(BonusPenaltyInfo(S, c)) = h[S]
<1> DEFINE eff(item) == GetBonusesAndPenaltiesForItem(item, c)
           add(item, info) == FoldLeft(SaveItemToObject, info, eff(item))
           step == [p \in S \X Info |-> add(p[1], p[2])]
           first(t) == CHOOSE x \in t : TRUE
           next(g, t) == add(first(t), g[t \ {first(t)}])
           saves(g) == g = [t \in SUBSET S |-> IF t = {} THEN NoInfo ELSE next(g, t)]
           k == CHOOSE g : saves(g)
<1>1. ASSUME NEW item \in S
      PROVE  eff(item) \in Seq(Effects) /\ Net(eff(item)) \in Int
  BY EffectsTyped, NetSum
<1>2. ASSUME NEW item \in S, NEW info \in Info
      PROVE  add(item, info) \in Info /\ Balance(add(item, info)) = Net(eff(item)) + Balance(info)
  <2> HIDE DEF eff
  <2>1. QED
    BY <1>1, SavedIsNet
<1>3. step \in [S \X Info -> Info]
  <2> HIDE DEF add
  <2>1. QED
    BY <1>2
<1>4. PICK h \in [SUBSET S -> Info] : Folds(h, S, First(S), NoInfo, step)
  <2> HIDE DEF step
  <2>1. QED
    BY <1>3, FoldExists, FirstPicks, NoInfoTyped
<1>5. ASSUME NEW t \in SUBSET S, t # {}
      PROVE  /\ first(t) \in t /\ first(t) \in S /\ First(S)[t] = first(t)
             /\ t \ {first(t)} \in SUBSET S /\ h[t \ {first(t)}] \in Info /\ h[t] = next(h, t)
  <2>1. first(t) \in t /\ First(S)[t] = first(t)
    BY <1>5, FirstPicks DEF First, Picks
  <2>2. h[t] = step[<<first(t), h[t \ {first(t)}]>>]
    <3> HIDE DEF step, first
    <3>1. QED
      BY <1>4, <1>5, <2>1 DEF Folds
  <2> HIDE DEF first, add
  <2>3. first(t) \in S /\ t \ {first(t)} \in SUBSET S
    BY <2>1
  <2>4. h[t \ {first(t)}] \in Info /\ <<first(t), h[t \ {first(t)}]>> \in S \X Info
    BY <1>4, <2>3
  <2>5. h[t] = next(h, t)
    BY <2>2, <2>4
  <2>6. QED
    BY <2>1, <2>3, <2>4, <2>5
<1>6. h[{}] = NoInfo
  BY <1>4 DEF Folds
<1>7. saves(h)
  <2>1. \A t \in SUBSET S : h[t] = IF t = {} THEN NoInfo ELSE next(h, t)
    <3> HIDE DEF next
    <3>1. QED
      BY <1>5, <1>6
  <2> HIDE DEF next
  <2>2. QED
    BY <1>4, <2>1
<1>8. BonusPenaltyInfo(S, c) = k[S]
  BY DEF BonusPenaltyInfo, FoldSet, MapThenFoldSet
<1>9. saves(k)
  <2> HIDE DEF saves
  <2>1. QED
    BY <1>7
<1>10. \A t \in SUBSET S : k[t] = h[t]
  <2>1. k[{}] = h[{}]
    <3> HIDE DEF next, k
    <3>1. QED
      BY <1>6, <1>9
  <2>2. ASSUME NEW t \in SUBSET S, t # {}, k[t \ {First(S)[t]}] = h[t \ {First(S)[t]}]
        PROVE  k[t] = h[t]
    <3>1. k[t] = next(k, t) /\ h[t] = next(h, t)
      <4> HIDE DEF next, k
      <4>1. QED
        BY <1>5, <1>9, <2>2
    <3> HIDE DEF k, first, add
    <3>2. QED
      BY <1>5, <2>2, <3>1
  <2>3. StepAlike(k, h, S, First(S))
    <3> HIDE DEF k
    <3>1. QED
      BY <2>1, <2>2 DEF StepAlike
  <2> HIDE DEF k
  <2>4. QED
    BY <2>3, FirstPicks, SameSteps
<1>11. BonusPenaltyInfo(S, c) = h[S] /\ h[S] \in Info
  <2> HIDE DEF k
  <2>1. QED
    BY <1>4, <1>8, <1>10
<1> DEFINE b == [t \in SUBSET S |-> Balance(h[t])]
           w == NetsOf(S, c)
<1>12. IsSum(b, w, S)
  <2>1. w \in [S -> Int] /\ \A item \in S : w[item] = Net(eff(item))
    <3>1. w = [item \in S |-> Net(eff(item))]
      BY DEF NetsOf
    <3> HIDE DEF w, eff
    <3>2. QED
      BY <1>1, <3>1
  <2>2. b \in [SUBSET S -> Int]
    <3>1. \A t \in SUBSET S : Balance(h[t]) \in Int
      BY <1>4, BalanceIsInt
    <3>2. QED
      BY <3>1
  <2>3. b[{}] = 0
    BY <1>6, NoInfoTyped
  <2>4. ASSUME NEW t \in SUBSET S, t # {} PROVE \E x \in t : b[t] = w[x] + b[t \ {x}]
    <3> DEFINE x == first(t)
               r == t \ {x}
    <3>1. x \in t /\ x \in S /\ r \in SUBSET S /\ h[r] \in Info /\ h[t] = add(x, h[r])
      BY <1>5, <2>4
    <3>2. b[t] = Balance(h[t]) /\ b[r] = Balance(h[r])
      BY <3>1
    <3> HIDE DEF x, add, eff, b, w
    <3>3. Balance(h[t]) = Net(eff(x)) + Balance(h[r])
      <4> HIDE DEF r
      <4>1. QED
        BY <1>2, <3>1
    <3>4. b[t] = w[x] + b[t \ {x}]
      BY <2>1, <3>1, <3>2, <3>3
    <3>5. QED
      BY <3>1, <3>4
  <2> HIDE DEF b, w
  <2>5. QED
    BY <2>1, <2>2, <2>3, <2>4 DEF IsSum
<1>13. Balance(BonusPenaltyInfo(S, c)) = b[S]
  BY <1>11
<1>14. QED
  <2> HIDE DEF b
  <2>1. QED
    BY <1>11, <1>12, <1>13

(* A sum with an element and without it. *)
LEMMA SumWithout ==
  ASSUME NEW X, IsFiniteSet(X), NEW h, NEW w, IsSum(h, w, X), NEW x \in X,
         NEW k, NEW v, IsSum(k, v, X \ {x}), \A y \in X \ {x} : v[y] = w[y]
  PROVE  h[X] = w[x] + k[X \ {x}]
<1> DEFINE Y == X \ {x}
           m == [y \in Y |-> y]
<1>1. IsFiniteSet(Y) /\ Y \in SUBSET X
  BY FS_Subset
<1>2. m \in [Y -> X] /\ (\A y, z \in Y : m[y] = m[z] => y = z) /\ \A y \in Y : v[y] = w[m[y]]
  OBVIOUS
<1>3. Y \in SUBSET Y /\ {m[y] : y \in Y} = Y
  OBVIOUS
<1>4. IsSum(k, v, Y)
  OBVIOUS
<1>5. k[Y] = h[{m[y] : y \in Y}]
  <2> HIDE DEF Y, m
  <2>1. QED
    BY <1>1, <1>2, <1>3, <1>4, SumsAgree
<1>6. AnyAdds(h, w, X)
  BY AnyFirst
<1>7. h[X] = w[x] + h[X \ {x}]
  <2>1. X \in SUBSET X
    OBVIOUS
  <2>2. QED
    BY <1>6, <2>1 DEF AnyAdds
<1>8. k[X \ {x}] = h[X \ {x}]
  BY <1>3, <1>5
<1>9. QED
  BY <1>7, <1>8

-----------------------------------------------------------------------------
(***************************************************************************)
(* The verdict.                                                            *)
(***************************************************************************)

LEMMA BalanceWithout ==
  ASSUME NEW S \in SUBSET Items, IsFiniteSet(S), NEW c \in CountryAttitutes, NEW item \in S
  PROVE  Balance(BonusPenaltyInfo(S, c)) =
           Net(GetBonusesAndPenaltiesForItem(item, c)) + Balance(BonusPenaltyInfo(S \ {item}, c))
<1>1. IsFiniteSet(S \ {item}) /\ S \ {item} \in SUBSET Items
  BY FS_Subset
<1>2. PICK h : IsSum(h, NetsOf(S, c), S) /\ Balance(BonusPenaltyInfo(S, c)) = h[S]
  BY InfoSum
<1>3. PICK k : /\ IsSum(k, NetsOf(S \ {item}, c), S \ {item})
               /\ Balance(BonusPenaltyInfo(S \ {item}, c)) = k[S \ {item}]
  BY <1>1, InfoSum
<1> DEFINE w == NetsOf(S, c)
           v == NetsOf(S \ {item}, c)
<1>4. (\A y \in S \ {item} : v[y] = w[y]) /\ w[item] = Net(GetBonusesAndPenaltiesForItem(item, c))
  BY DEF NetsOf
<1> HIDE DEF w, v
<1>5. IsSum(h, w, S) /\ IsSum(k, v, S \ {item})
  BY <1>2, <1>3 DEF w, v
<1>6. h[S] = w[item] + k[S \ {item}]
  BY <1>4, <1>5, SumWithout
<1>7. QED
  BY <1>2, <1>3, <1>4, <1>6

(* An article more of a module does not lessen what is counted of it.       *)
LEMMA CountedWithout ==
  ASSUME NEW S \in SUBSET Items, IsFiniteSet(S), NEW item \in S, NEW module
  PROVE  /\ Counted(S, module) \in Int /\ Counted(S \ {item}, module) \in Int
         /\ Counted(S \ {item}, module) <= Counted(S, module)
<1> DEFINE C == {i \in S : i.module = module}
           B == {i \in S \ {item} : i.module = module}
           w == [i \in C |-> i.authorshipPercent]
           v == [i \in B |-> i.authorshipPercent]
<1>1. IsFiniteSet(C) /\ IsFiniteSet(B)
  <2>1. C \in SUBSET S /\ B \in SUBSET S
    OBVIOUS
  <2>2. QED
    BY <2>1, FS_Subset
<1>2. w \in [C -> Int] /\ v \in [B -> Int] /\ \A i \in S : i.authorshipPercent \in Nat
  BY ItemsAssumption
<1>3. Counted(S, module) = SumFunction(w) /\ Counted(S \ {item}, module) = SumFunction(v)
  BY DEF Counted
<1>4. PICK h : IsSum(h, w, C) /\ SumFunction(w) = h[C]
  <2> HIDE DEF C, w
  <2>1. QED
    BY <1>1, <1>2, SumIs
<1>5. PICK k : IsSum(k, v, B) /\ SumFunction(v) = k[B]
  <2> HIDE DEF B, v
  <2>1. QED
    BY <1>1, <1>2, SumIs
<1>6. h[C] \in Int /\ k[B] \in Int
  <2> HIDE DEF C, B, w, v
  <2>1. QED
    BY <1>4, <1>5 DEF IsSum
<1>7. CASE item.module = module
  <2>1. item \in C /\ B = C \ {item} /\ w[item] \in Nat /\ \A i \in B : v[i] = w[i]
    BY <1>2, <1>7
  <2>2. h[C] = w[item] + k[B]
    <3> HIDE DEF C, B, w, v
    <3>1. QED
      BY <1>1, <1>4, <1>5, <2>1, SumWithout
  <2> HIDE DEF C, B, w, v
  <2>3. QED
    BY <1>3, <1>4, <1>5, <1>6, <2>1, <2>2
<1>8. CASE item.module # module
  <2>1. B = C
    BY <1>8
  <2>2. v = w
    BY <2>1
  <2> HIDE DEF C, B, w, v
  <2>3. QED
    BY <1>3, <1>4, <1>5, <1>6, <2>2
<1>9. QED
  BY <1>7, <1>8

WeakOf(S) == Weak(GetCompletionScoreByModuleType(Modules, S))

LEMMA WeakWithout ==
  ASSUME NEW S \in SUBSET Items, IsFiniteSet(S), NEW item \in S
  PROVE  WeakOf(S) \subseteq WeakOf(S \ {item}) /\ IsFiniteSet(WeakOf(S \ {item}))
<1>1. \A T : WeakOf(T) = {module \in Modules : ~(Counted(T, module) >= 15)}
  BY DEF WeakOf, Weak, GetCompletionScoreByModuleType
<1>2. ASSUME NEW module \in Modules, ~(Counted(S, module) >= 15)
      PROVE  ~(Counted(S \ {item}, module) >= 15)
  <2> DEFINE a == Counted(S, module)
             b == Counted(S \ {item}, module)
  <2>1. a \in Int /\ b \in Int /\ b <= a
    BY CountedWithout
  <2> HIDE DEF a, b
  <2>2. ~(a >= 15) => ~(b >= 15)
    BY <2>1
  <2>3. QED
    BY <1>2, <2>2 DEF a, b
<1>3. IsFiniteSet(WeakOf(S \ {item}))
  <2>1. WeakOf(S \ {item}) \in SUBSET Modules
    BY <1>1
  <2>2. QED
    BY <2>1, ModulesAssumption, FS_Subset
<1>4. QED
  BY <1>1, <1>2, <1>3

(* The better balance with fewer weak modules has no worse verdict.         *)
LEMMA VerdictsOrdered ==
  ASSUME NEW i \in Info, NEW j \in Info, Balance(i) >= Balance(j),
         NEW W, NEW V, IsFiniteSet(V), W \subseteq V
  PROVE  Rank(WithWeak(NetVerdict(i), W)) >= Rank(WithWeak(NetVerdict(j), V))
<1>1. Rank("highNetPenalties") = 0 /\ Rank("breakEven") = 1 /\ Rank("highNetBonuses") = 2
  BY DEF Rank
<1>2. ASSUME NEW info \in Info
      PROVE  NetVerdict(info) = IF Balance(info) \in -15 .. 15 THEN "breakEven"
                                ELSE IF Balance(info) < 0 THEN "highNetPenalties" ELSE "highNetBonuses"
  BY DEF NetVerdict, Balance
<1>3. Balance(i) \in Int /\ Balance(j) \in Int
  BY BalanceIsInt
<1>4. /\ NetVerdict(i) \in {"highNetPenalties", "breakEven", "highNetBonuses"}
      /\ NetVerdict(j) \in {"highNetPenalties", "breakEven", "highNetBonuses"}
      /\ NetVerdict(i) = "highNetPenalties" => NetVerdict(j) = "highNetPenalties"
      /\ NetVerdict(j) = "highNetBonuses" => NetVerdict(i) = "highNetBonuses"
  BY <1>2, <1>3
<1>5. /\ Cardinality(W) \in Nat /\ Cardinality(V) \in Nat /\ Cardinality(W) <= Cardinality(V)
  BY FS_Subset, FS_CardinalityType
<1>6. CASE Cardinality(V) > 1
  <2>1. WithWeak(NetVerdict(j), V) = "highNetPenalties"
    BY <1>6 DEF WithWeak
  <2>2. WithWeak(NetVerdict(i), W) \in {"highNetPenalties", "breakEven", "highNetBonuses"}
    BY <1>4 DEF WithWeak
  <2>3. QED
    BY <1>1, <2>1, <2>2
<1>7. CASE ~(Cardinality(V) > 1)
  <2>1. ~(Cardinality(W) > 1) /\ (V = {} => W = {})
    BY <1>5, <1>7
  <2>2. /\ WithWeak(NetVerdict(j), V) =
             IF V # {} /\ NetVerdict(j) = "highNetBonuses" THEN "breakEven" ELSE NetVerdict(j)
        /\ WithWeak(NetVerdict(i), W) =
             IF W # {} /\ NetVerdict(i) = "highNetBonuses" THEN "breakEven" ELSE NetVerdict(i)
    BY <1>7, <2>1 DEF WithWeak
  <2>3. QED
    BY <1>1, <1>4, <2>1, <2>2
<1>8. QED
  BY <1>6, <1>7

(* An article without a penalty does not make the verdict worse.            *)
LEMMA OneMoreArticle ==
  ASSUME NEW S \in SUBSET Items, IsFiniteSet(S), NEW c \in CountryAttitutes, NEW item \in S,
         GetPenaltiesForItem(item, c) = <<>>
  PROVE  Rank(GetResultsForReview(S, Modules, c).verdict) >=
           Rank(GetResultsForReview(S \ {item}, Modules, c).verdict)
<1> DEFINE i == BonusPenaltyInfo(S, c)
           j == BonusPenaltyInfo(S \ {item}, c)
           e == GetBonusesAndPenaltiesForItem(item, c)
<1>1. IsFiniteSet(S \ {item}) /\ S \ {item} \in SUBSET Items
  BY FS_Subset
<1>2. i \in Info /\ j \in Info
  BY <1>1, InfoSum
<1>3. Balance(i) >= Balance(j)
  <2>1. Balance(i) = Net(e) + Balance(j)
    BY BalanceWithout
  <2>2. e \in Seq(EffectOf("bonus")) /\ e \in Seq(Effects)
    BY EffectsTyped
  <2> HIDE DEF e, i, j
  <2>3. Net(e) >= 0 /\ Net(e) \in Int
    BY <2>2, NetOfBonuses, NetSum
  <2>4. Balance(j) \in Int
    BY <1>2, BalanceIsInt
  <2>5. QED
    BY <2>1, <2>3, <2>4
<1>4. /\ GetResultsForReview(S, Modules, c).verdict = WithWeak(NetVerdict(i), WeakOf(S))
      /\ GetResultsForReview(S \ {item}, Modules, c).verdict =
           WithWeak(NetVerdict(j), WeakOf(S \ {item}))
  BY DEF GetResultsForReview, WeakOf
<1> HIDE DEF i, j
<1>5. QED
  BY <1>2, <1>3, <1>4, WeakWithout, VerdictsOrdered

-----------------------------------------------------------------------------
(***************************************************************************)
(* What is paid.                                                           *)
(***************************************************************************)

Keys == [item : Items, effect : Effects]
KeySum(K) == SumFunction([k \in K |-> Signed(k.effect)])

LEMMA SignedTyped ==
  ASSUME NEW e \in Effects
  PROVE  e.value \in Nat /\ Signed(e) \in Int /\ (e.type = "bonus" \/ e.type = "penalty")
<1>1. e.value \in Nat /\ (e.type = "bonus" \/ e.type = "penalty")
  BY DEF Effects, EffectOf
<1>2. QED
  BY <1>1 DEF Signed

LEMMA KeySumIs ==
  ASSUME NEW K \in SUBSET Keys, IsFiniteSet(K)
  PROVE  /\ \E h : IsSum(h, [k \in K |-> Signed(k.effect)], K) /\ KeySum(K) = h[K]
         /\ KeySum(K) \in Int
<1> DEFINE w == [k \in K |-> Signed(k.effect)]
<1>1. w \in [K -> Int]
  <2>1. \A k \in K : Signed(k.effect) \in Int
    BY SignedTyped DEF Keys
  <2>2. QED
    BY <2>1
<1>2. KeySum(K) = SumFunction(w)
  BY DEF KeySum
<1>3. PICK h : IsSum(h, w, K) /\ SumFunction(w) = h[K]
  <2> HIDE DEF w
  <2>1. QED
    BY <1>1, SumIs
<1>4. h[K] \in Int
  <2> HIDE DEF w
  <2>1. QED
    BY <1>3 DEF IsSum
<1>5. QED
  BY <1>2, <1>3, <1>4

LEMMA KeySumNone == KeySum({}) = 0
<1>1. IsFiniteSet({}) /\ {} \in SUBSET Keys
  BY FS_EmptySet
<1> DEFINE w == [k \in {} |-> Signed(k.effect)]
<1>2. PICK h : IsSum(h, w, {}) /\ KeySum({}) = h[{}]
  BY <1>1, KeySumIs
<1>3. QED
  <2> HIDE DEF w
  <2>1. QED
    BY <1>2 DEF IsSum

(* A key more adds its effect.                                              *)
LEMMA KeySumMore ==
  ASSUME NEW K \in SUBSET Keys, IsFiniteSet(K), NEW x \in Keys, x \notin K
  PROVE  /\ IsFiniteSet(K \union {x}) /\ K \union {x} \in SUBSET Keys
         /\ KeySum(K \union {x}) = Signed(x.effect) + KeySum(K)
<1> DEFINE X == K \union {x}
           w == [k \in X |-> Signed(k.effect)]
           v == [k \in K |-> Signed(k.effect)]
<1>1. IsFiniteSet(X) /\ X \in SUBSET Keys /\ x \in X /\ X \ {x} = K
  BY FS_AddElement
<1>2. PICK h : IsSum(h, w, X) /\ KeySum(X) = h[X]
  <2> HIDE DEF X
  <2>1. QED
    BY <1>1, KeySumIs
<1>3. PICK g : IsSum(g, v, K) /\ KeySum(K) = g[K]
  BY KeySumIs
<1>4. w[x] = Signed(x.effect) /\ \A k \in K : v[k] = w[k]
  OBVIOUS
<1>5. h[X] = w[x] + g[X \ {x}]
  <2> HIDE DEF X, w, v
  <2>1. IsSum(g, v, X \ {x}) /\ \A k \in X \ {x} : v[k] = w[k]
    BY <1>1, <1>3, <1>4
  <2>2. QED
    BY <1>1, <1>2, <2>1, SumWithout
<1> HIDE DEF X, w, v
<1>6. KeySum(X) = Signed(x.effect) + KeySum(K)
  BY <1>1, <1>2, <1>3, <1>4, <1>5
<1>7. QED
  BY <1>1, <1>6 DEF X

LEMMA KeySumUnion ==
  ASSUME NEW K \in SUBSET Keys, IsFiniteSet(K), NEW L \in SUBSET Keys, IsFiniteSet(L),
         K \intersect L = {}
  PROVE  KeySum(K \union L) = KeySum(L) + KeySum(K)
<1> DEFINE G == {t \in SUBSET L : IsFiniteSet(K \union t) /\ KeySum(K \union t) = KeySum(t) + KeySum(K)}
<1>1. ASSUME NEW t \in SUBSET L, \A x \in t : t \ {x} \in G PROVE t \in G
  <2>1. CASE t = {}
    <3>1. K \union t = K /\ KeySum(t) = 0 /\ KeySum(K) \in Int
      BY <2>1, KeySumNone, KeySumIs
    <3>2. QED
      BY <3>1
  <2>2. CASE t # {}
    <3>1. PICK x \in t : TRUE
      BY <2>2
    <3> DEFINE r == t \ {x}
    <3>2. /\ IsFiniteSet(K \union r) /\ KeySum(K \union r) = KeySum(r) + KeySum(K)
          /\ r \in SUBSET Keys /\ IsFiniteSet(r) /\ x \in Keys /\ x \notin r
          /\ K \union r \in SUBSET Keys /\ x \notin K \union r
          /\ t = r \union {x} /\ K \union t = (K \union r) \union {x}
      BY <1>1, FS_Subset
    <3> HIDE DEF r
    <3>3. /\ KeySum(t) = Signed(x.effect) + KeySum(r)
          /\ IsFiniteSet(K \union t) /\ KeySum(K \union t) = Signed(x.effect) + KeySum(K \union r)
      BY <3>2, KeySumMore
    <3>4. Signed(x.effect) \in Int /\ KeySum(r) \in Int /\ KeySum(K) \in Int
      BY <3>2, KeySumIs, SignedTyped DEF Keys
    <3>5. KeySum(K \union t) = KeySum(t) + KeySum(K)
      BY <3>2, <3>3, <3>4
    <3>6. QED
      BY <3>3, <3>5
  <2>3. QED
    BY <2>1, <2>2
<1>2. \A t \in SUBSET L : t \in G
  <2> HIDE DEF G
  <2>1. QED
    BY <1>1, SubsetInduction
<1>3. QED
  BY <1>2

Account == [keys : {K \in SUBSET Keys : IsFiniteSet(K)}, total : Int, forgiven : Int]
Start(p) == (p.total - p.forgiven) - KeySum(p.keys)

(* An effect that is paid leaves the points before all effects as they were.*)
LEMMA PaidOnce ==
  ASSUME NEW item \in Items, NEW p \in Account, NEW e \in Effects, used \in Int
  PROVE  /\ PayEffect(item, p, e) \in Account
         /\ PayEffect(item, p, e).keys = p.keys \union {Key(item, e)}
         /\ Start(PayEffect(item, p, e)) = Start(p)
<1> DEFINE sum == p.total + Signed(e)
           lack == IF e.type = "penalty" /\ sum < used THEN used - sum ELSE 0
           x == Key(item, e)
           paid == [keys |-> p.keys \union {x}, total |-> sum + lack, forgiven |-> p.forgiven + lack]
<1>1. /\ p.keys \in SUBSET Keys /\ IsFiniteSet(p.keys) /\ p.total \in Int /\ p.forgiven \in Int
      /\ Signed(e) \in Int
  BY SignedTyped DEF Account
<1>2. x \in Keys /\ x.effect = e
  BY DEF Key, Keys
<1>3. CASE x \in p.keys
  <2>1. PayEffect(item, p, e) = p /\ p.keys \union {x} = p.keys
    BY <1>3 DEF PayEffect
  <2>2. QED
    BY <2>1
<1>4. CASE x \notin p.keys
  <2>1. PayEffect(item, p, e) = paid
    BY <1>4 DEF PayEffect
  <2>2. sum \in Int /\ lack \in Int
    BY <1>1
  <2> HIDE DEF x, lack
  <2>3. /\ IsFiniteSet(p.keys \union {x}) /\ p.keys \union {x} \in SUBSET Keys
        /\ KeySum(p.keys \union {x}) = Signed(e) + KeySum(p.keys)
    BY <1>1, <1>2, <1>4, KeySumMore
  <2>4. paid \in Account
    BY <1>1, <2>2, <2>3 DEF Account
  <2>5. KeySum(p.keys) \in Int
    BY <1>1, KeySumIs
  <2>6. Start(paid) = Start(p)
    BY <1>1, <2>2, <2>3, <2>5 DEF Start
  <2>7. QED
    BY <2>1, <2>4, <2>6 DEF x
<1>5. QED
  BY <1>3, <1>4

PaidBy(item, s, p) == FoldLeft(LAMBDA q, e : PayEffect(item, q, e), p, s)

LEMMA PaidAll ==
  ASSUME NEW item \in Items, NEW p \in Account, NEW s \in Seq(Effects), used \in Int
  PROVE  /\ PaidBy(item, s, p) \in Account
         /\ PaidBy(item, s, p).keys = p.keys \union {Key(item, e) : e \in Range(s)}
         /\ Start(PaidBy(item, s, p)) = Start(p)
<1> DEFINE D == DOMAIN s
           step == [q \in D \X Account |-> PayEffect(item, q[2], s[q[1]])]
           next(g, t) == PayEffect(item, g[t \ {Max(t)}], s[Max(t)])
           pays(g) == g = [t \in SUBSET D |-> IF t = {} THEN p ELSE next(g, t)]
           k == CHOOSE g : pays(g)
<1>1. /\ IsFiniteSet(D) /\ Picks(LastOf(D), D)
      /\ \A i \in D : s[i] \in Effects
  BY Indices
<1>2. step \in [D \X Account -> Account]
  BY <1>1, PaidOnce
<1>3. PICK h \in [SUBSET D -> Account] : Folds(h, D, LastOf(D), p, step)
  <2> HIDE DEF D, step
  <2>1. QED
    BY <1>1, <1>2, FoldExists
<1>4. ASSUME NEW t \in SUBSET D, t # {}
      PROVE  /\ Max(t) \in t /\ Max(t) \in D /\ LastOf(D)[t] = Max(t)
             /\ t \ {Max(t)} \in SUBSET D /\ h[t \ {Max(t)}] \in Account
             /\ h[t] = next(h, t)
  <2>1. Max(t) \in t /\ LastOf(D)[t] = Max(t)
    BY <1>1, <1>4 DEF LastOf, Picks
  <2>2. h[t] = step[<<Max(t), h[t \ {Max(t)}]>>]
    <3> HIDE DEF step, D
    <3>1. QED
      BY <1>3, <1>4, <2>1 DEF Folds
  <2>3. Max(t) \in D /\ t \ {Max(t)} \in SUBSET D
    BY <2>1
  <2>4. h[t \ {Max(t)}] \in Account /\ <<Max(t), h[t \ {Max(t)}]>> \in D \X Account
    BY <1>3, <2>3
  <2>5. h[t] = next(h, t)
    BY <2>2, <2>4
  <2>6. QED
    BY <2>1, <2>3, <2>4, <2>5
<1>5. h[{}] = p
  BY <1>3 DEF Folds
<1>6. pays(h)
  <2>1. \A t \in SUBSET D : h[t] = IF t = {} THEN p ELSE next(h, t)
    BY <1>4, <1>5
  <2> HIDE DEF next, D
  <2>2. QED
    BY <1>3, <2>1
<1>7. PaidBy(item, s, p) = k[D]
  BY DEF PaidBy, FoldLeft, MapThenFoldSet
<1>8. pays(k)
  <2> HIDE DEF pays
  <2>1. QED
    BY <1>6
<1>9. \A t \in SUBSET D : k[t] = h[t]
  <2>1. k[{}] = h[{}]
    BY <1>5, <1>8
  <2>2. ASSUME NEW t \in SUBSET D, t # {}, k[t \ {LastOf(D)[t]}] = h[t \ {LastOf(D)[t]}]
        PROVE  k[t] = h[t]
    <3>1. k[t] = next(k, t) /\ h[t] = next(h, t)
      <4> HIDE DEF next, D, k
      <4>1. QED
        BY <1>4, <1>8, <2>2
    <3> HIDE DEF k
    <3>2. QED
      BY <1>4, <2>2, <3>1
  <2>3. StepAlike(k, h, D, LastOf(D))
    <3> HIDE DEF D, k, next, pays
    <3>1. QED
      BY <2>1, <2>2 DEF StepAlike
  <2> HIDE DEF D, k, next, pays
  <2>4. QED
    BY <1>1, <2>3, SameSteps
<1> DEFINE KeysTo(t) == {Key(item, s[i]) : i \in t}
           G == {t \in SUBSET D : h[t].keys = p.keys \union KeysTo(t) /\ Start(h[t]) = Start(p)}
<1>10. ASSUME NEW t \in SUBSET D, \A x \in t : t \ {x} \in G PROVE t \in G
  <2>1. CASE t = {}
    BY <1>5, <2>1
  <2>2. CASE t # {}
    <3> DEFINE m == Max(t)
    <3>1. /\ m \in t /\ s[m] \in Effects /\ h[t \ {m}] \in Account
          /\ h[t] = PayEffect(item, h[t \ {m}], s[m])
      BY <1>1, <1>4, <2>2
    <3> HIDE DEF m
    <3>2. h[t \ {m}].keys = p.keys \union KeysTo(t \ {m}) /\ Start(h[t \ {m}]) = Start(p)
      BY <1>10, <3>1
    <3>3. h[t].keys = h[t \ {m}].keys \union {Key(item, s[m])} /\ Start(h[t]) = Start(p)
      <4> DEFINE q == h[t \ {m}]
                 e == s[m]
      <4>1. q \in Account /\ e \in Effects /\ h[t] = PayEffect(item, q, e) /\ Start(q) = Start(p)
        BY <3>1, <3>2
      <4> HIDE DEF q, e, D
      <4>2. h[t].keys = q.keys \union {Key(item, e)} /\ Start(h[t]) = Start(q)
        BY <4>1, PaidOnce
      <4>3. QED
        BY <4>1, <4>2 DEF q, e
    <3>4. KeysTo(t) = KeysTo(t \ {m}) \union {Key(item, s[m])}
      BY <3>1
    <3>5. QED
      BY <3>2, <3>3, <3>4
  <2>3. QED
    BY <2>1, <2>2
<1>11. \A t \in SUBSET D : t \in G
  <2> HIDE DEF G
  <2>1. QED
    BY <1>1, <1>10, SubsetInduction
<1>12. PaidBy(item, s, p) = h[D] /\ h[D] \in Account
  <2> HIDE DEF k
  <2>1. QED
    BY <1>3, <1>7, <1>9
<1>13. KeysTo(D) = {Key(item, e) : e \in Range(s)}
  BY DEF Range
<1>14. QED
  <2>1. D \in G
    <3> HIDE DEF G
    <3>1. QED
      BY <1>11
  <2>2. QED
    BY <1>12, <1>13, <2>1

(* Effects that differ are worth, as keys, what they come to.               *)
LEMMA KeysOfOne ==
  ASSUME NEW item \in Items, NEW s \in Seq(Effects), IsInjective(s)
  PROVE  LET K == {Key(item, e) : e \in Range(s)}
         IN  K \in SUBSET Keys /\ IsFiniteSet(K) /\ KeySum(K) = Net(s)
<1> DEFINE D == DOMAIN s
           K == {Key(item, e) : e \in Range(s)}
           w == [i \in D |-> Signed(s[i])]
           v == [x \in K |-> Signed(x.effect)]
           m == [i \in D |-> Key(item, s[i])]
<1>1. IsFiniteSet(D) /\ \A i \in D : s[i] \in Effects
  BY Indices
<1>2. K = {m[i] : i \in D} /\ K \in SUBSET Keys
  BY <1>1 DEF Range, Keys, Key
<1>3. IsFiniteSet(K)
  <2>1. m \in Surjection(D, K)
    BY <1>2 DEF Surjection
  <2> HIDE DEF m, K, D
  <2>2. QED
    BY <1>1, <2>1, FS_Surjection
<1>4. PICK h : IsSum(h, w, D) /\ Net(s) = h[D]
  BY NetSum
<1>5. PICK g : IsSum(g, v, K) /\ KeySum(K) = g[K]
  <2> HIDE DEF K
  <2>1. QED
    BY <1>2, <1>3, KeySumIs
<1>6. m \in [D -> K] /\ \A i \in D : w[i] = v[m[i]]
  BY <1>2 DEF Key
<1>7. \A i, j \in D : m[i] = m[j] => i = j
  BY DEF IsInjective, Key
<1>8. h[D] = g[K]
  <2> HIDE DEF D, K, w, v, m
  <2>1. D \in SUBSET D
    OBVIOUS
  <2>2. h[D] = g[{m[i] : i \in D}]
    BY <1>1, <1>3, <1>4, <1>5, <1>6, <1>7, <2>1, SumsAgree
  <2>3. QED
    BY <1>2, <2>2
<1>9. QED
  BY <1>2, <1>3, <1>4, <1>5, <1>8

(* What the review makes of articles is what the keys of all their effects  *)
(* are worth, unless one has an effect twice.                               *)
LEMMA JudgedByKeys ==
  ASSUME NEW S \in SUBSET Items, IsFiniteSet(S), Attitutes \in CountryAttitutes,
         \A item \in S : IsInjective(EffectsOf(item))
  PROVE  Balance(BonusPenaltyInfo(S, Attitutes)) = KeySum(KeysOf(S))
<1> DEFINE w == NetsOf(S, Attitutes)
<1>1. PICK h : IsSum(h, w, S) /\ Balance(BonusPenaltyInfo(S, Attitutes)) = h[S]
  BY InfoSum
<1>2. ASSUME NEW item \in S
      PROVE  /\ w[item] = KeySum(KeysOf({item}))
             /\ KeysOf({item}) \in SUBSET Keys /\ IsFiniteSet(KeysOf({item}))
             /\ \A x \in KeysOf({item}) : x.item = item
  <2> DEFINE s == EffectsOf(item)
  <2>1. s \in Seq(Effects) /\ IsInjective(s)
    BY EffectsTyped DEF EffectsOf
  <2>2. KeysOf({item}) = {Key(item, e) : e \in Range(s)} /\ w[item] = Net(s)
    BY DEF KeysOf, NetsOf, EffectsOf
  <2> HIDE DEF s, w
  <2>3. item \in Items
    OBVIOUS
  <2> DEFINE K == {Key(item, e) : e \in Range(s)}
  <2>4. K \in SUBSET Keys /\ IsFiniteSet(K) /\ KeySum(K) = Net(s)
    BY <2>1, <2>3, KeysOfOne
  <2>5. \A x \in K : x.item = item
    BY DEF Key
  <2> HIDE DEF K
  <2>6. QED
    BY <2>2, <2>4, <2>5 DEF K
<1> DEFINE G == {t \in SUBSET S : /\ KeysOf(t) \in SUBSET Keys /\ IsFiniteSet(KeysOf(t))
                                  /\ h[t] = KeySum(KeysOf(t))
                                  /\ \A x \in KeysOf(t) : x.item \in t}
<1>3. ASSUME NEW t \in SUBSET S, \A x \in t : t \ {x} \in G PROVE t \in G
  <2>1. CASE t = {}
    <3>1. KeysOf(t) = {} /\ h[t] = 0
      <4> HIDE DEF w
      <4>1. QED
        BY <1>1, <2>1 DEF KeysOf, IsSum
    <3>2. QED
      BY <2>1, <3>1, KeySumNone, FS_EmptySet
  <2>2. CASE t # {}
    <3>1. PICK item \in t : h[t] = w[item] + h[t \ {item}]
      <4> HIDE DEF w
      <4>1. QED
        BY <1>1, <2>2 DEF IsSum
    <3> DEFINE r == t \ {item}
               A == KeysOf(r)
               B == KeysOf({item})
    <3>2. KeysOf(t) = A \union B
      BY DEF KeysOf
    <3>3. /\ A \in SUBSET Keys /\ IsFiniteSet(A) /\ h[r] = KeySum(A)
          /\ \A x \in A : x.item \in r
      BY <1>3
    <3>4. /\ B \in SUBSET Keys /\ IsFiniteSet(B) /\ w[item] = KeySum(B)
          /\ \A x \in B : x.item = item
      <4> HIDE DEF w
      <4>1. QED
        BY <1>2
    <3>5. A \intersect B = {}
      BY <3>3, <3>4
    <3>6. \A x \in A \union B : x.item \in t
      BY <3>3, <3>4
    <3> HIDE DEF A, B, w
    <3>7. IsFiniteSet(A \union B) /\ A \union B \in SUBSET Keys
      BY <3>3, <3>4, FS_Union
    <3>8. KeySum(A \union B) = KeySum(B) + KeySum(A)
      BY <3>3, <3>4, <3>5, KeySumUnion
    <3>9. h[t] = KeySum(KeysOf(t))
      BY <3>1, <3>2, <3>3, <3>4, <3>8
    <3>10. QED
      BY <3>2, <3>6, <3>7, <3>9
  <2>3. QED
    BY <2>1, <2>2
<1>4. \A t \in SUBSET S : t \in G
  <2> HIDE DEF G
  <2>1. QED
    BY <1>3, SubsetInduction
<1>5. QED
  BY <1>1, <1>4

-----------------------------------------------------------------------------
(***************************************************************************)
(* The game.                                                               *)
(***************************************************************************)

(* No country is left without being chosen, and only the player's own is    *)
(* changed in the list.                                                     *)
Places ==
  /\ page # "create-country" => country # NoCountry
  /\ page = "create-country" /\ ~submitDisabled => picked # NoCountry
  /\ \A k \in 1 .. Own : k # Own => countryList[k].culturalAttitutes = Countries[k].culturalAttitutes

(* A check that is due is one of the ballot on the page; the others have    *)
(* recorded every effect, and the points show what all of them are worth.   *)
KeysUnder(item, k) ==
  {Key(item, e) : e \in Range(GetBonusesAndPenaltiesForItem(item, Countries[k].culturalAttitutes))}
Due ==
  /\ page # "area-ballot" => checking = {}
  /\ \A c \in chosen : c.item \in checking => c.under = country
Recorded ==
  \A c \in chosen : c.under # Own /\ c.item \notin checking => KeysUnder(c.item, c.under) \subseteq usedKeys
Ledger ==
  /\ IsFiniteSet(chosen)
  /\ usedKeys \in SUBSET Keys /\ IsFiniteSet(usedKeys)
  /\ ~unpaid => /\ (total - forgiven) - KeySum(usedKeys) = StartPoints
                /\ Recorded
                /\ stale = {}

Judged == page = "review" => results = GetResultsForReview(SelectedItems, Modules, Attitutes)

GameInv == TypeOK /\ Places /\ Due /\ Ledger /\ Judged

LEMMA ListTyped == Own \in Nat /\ Own > 0 /\ Countries \in [1 .. Own -> Country]
BY CountriesAssumption DEF Own

LEMMA AttitutesTyped ==
  ASSUME TypeOK, country # NoCountry
  PROVE  Attitutes \in CountryAttitutes /\ country \in 1 .. Own
<1>1. country \in 1 .. Own
  BY ListTyped DEF TypeOK, NoCountry
<1>2. countryList[country] \in Country
  BY <1>1 DEF TypeOK
<1>3. QED
  BY <1>1, <1>2 DEF Attitutes, AttitutesOf, Country, CountryAttitutes

LEMMA SelectedTyped ==
  ASSUME TypeOK, IsFiniteSet(chosen)
  PROVE  SelectedItems \in SUBSET Items /\ IsFiniteSet(SelectedItems)
<1> DEFINE m == [c \in chosen |-> c.item]
<1>1. SelectedItems = {c.item : c \in chosen} /\ \A c \in chosen : c.item \in Items
  BY DEF SelectedItems, TypeOK
<1>2. m \in Surjection(chosen, SelectedItems)
  BY <1>1 DEF Surjection
<1>3. IsFiniteSet(SelectedItems)
  <2> HIDE DEF m
  <2>1. QED
    BY <1>2, FS_Surjection
<1>4. QED
  BY <1>1, <1>3

(* The list with a field of the player's own country changed.               *)
LEMMA OwnFieldTyped ==
  ASSUME TypeOK, NEW f \in Field, NEW length \in Length,
         countryList' = [countryList EXCEPT ![Own].fields[f] = length]
  PROVE  /\ countryList' \in [1 .. Own -> Country]
         /\ \A k \in 1 .. Own : countryList'[k].culturalAttitutes = countryList[k].culturalAttitutes
<1>1. Own \in 1 .. Own /\ countryList[Own] \in Country
  BY ListTyped DEF TypeOK
<1> DEFINE c == countryList[Own]
           d == [c EXCEPT !.fields[f] = length]
<1>2. c.fields \in [Field -> Length]
  BY <1>1 DEF Country
<1>3. [c.fields EXCEPT ![f] = length] \in [Field -> Length]
  <2> HIDE DEF c
  <2>1. QED
    BY <1>2
<1>4. d \in Country /\ d.culturalAttitutes = c.culturalAttitutes
  BY <1>1, <1>3 DEF Country
<1>5. countryList' = [countryList EXCEPT ![Own] = d]
  OBVIOUS
<1> HIDE DEF d
<1>6. QED
  BY <1>1, <1>4, <1>5 DEF TypeOK

LEMMA LedgerStays ==
  ASSUME Ledger, UNCHANGED <<chosen, points, ballot, unpaid>>
  PROVE  Ledger'
BY DEF Ledger, Recorded, KeysUnder, points, ballot

LEMMA CountrySelectedKeeps ==
  ASSUME GameInv, NEW c \in 1 .. Own, CountrySelected(c) PROVE GameInv'
<1>1. /\ page = "create-country" /\ picked' = c /\ TypeOK /\ Places /\ Due /\ Ledger
      /\ countryList' = [countryList EXCEPT ![Own].fields.name = IF c = Own THEN 0 ELSE 2]
      /\ UNCHANGED <<page, country, chosen, points, ballot, unpaid, returns, results>>
      /\ submitDisabled' \in BOOLEAN
  BY DEF CountrySelected, GameInv, CheckIfOkToProceed
<1> DEFINE length == IF c = Own THEN 0 ELSE 2
<1>2. /\ "name" \in Field /\ length \in Length
      /\ countryList' = [countryList EXCEPT ![Own].fields["name"] = length]
  <2>1. "name" \in Field
    BY DEF Field, Need
  <2>2. length \in Length
    BY DEF Length
  <2>3. QED
    BY <1>1, <2>1, <2>2
<1>3. /\ countryList' \in [1 .. Own -> Country]
      /\ \A k \in 1 .. Own : countryList'[k].culturalAttitutes = countryList[k].culturalAttitutes
  <2> HIDE DEF length
  <2>1. QED
    BY <1>1, <1>2, OwnFieldTyped
<1>4. TypeOK'
  BY <1>1, <1>3, ListTyped DEF TypeOK, NoCountry, points, ballot
<1>5. Places'
  BY <1>1, <1>3, ListTyped DEF Places, NoCountry
<1>6. Due' /\ Ledger' /\ Judged'
  BY <1>1, LedgerStays DEF Due, Judged, points, ballot
<1>7. QED
  BY <1>4, <1>5, <1>6 DEF GameInv

LEMMA SetFieldKeeps ==
  ASSUME GameInv, NEW f \in Field, NEW length \in Length, SetField(f, length) PROVE GameInv'
<1>1. /\ page = "create-country" /\ picked # NoCountry /\ TypeOK /\ Places /\ Due /\ Ledger
      /\ countryList' = [countryList EXCEPT ![Own].fields[f] = length]
      /\ UNCHANGED <<page, picked, country, chosen, points, ballot, unpaid, returns, results>>
      /\ submitDisabled' \in BOOLEAN
  BY DEF SetField, TextTyped, StatTyped, FormShown, GameInv, CheckIfOkToProceed
<1>2. /\ countryList' \in [1 .. Own -> Country]
      /\ \A k \in 1 .. Own : countryList'[k].culturalAttitutes = countryList[k].culturalAttitutes
  BY <1>1, OwnFieldTyped
<1>3. TypeOK'
  BY <1>1, <1>2 DEF TypeOK, points, ballot
<1>4. Places'
  BY <1>1, <1>2 DEF Places
<1>5. Due' /\ Ledger' /\ Judged'
  BY <1>1, LedgerStays DEF Due, Judged, points, ballot
<1>6. QED
  BY <1>3, <1>4, <1>5 DEF GameInv

LEMMA ChangeAttituteKeeps ==
  ASSUME GameInv, NEW a \in Sliders, NEW v \in SliderValue, ChangeAttitute(a, v) PROVE GameInv'
<1>1. /\ page = "create-country" /\ picked = Own /\ TypeOK /\ Places /\ Due /\ Ledger
      /\ countryList' = [countryList EXCEPT ![Own].culturalAttitutes[a] = v]
      /\ UNCHANGED <<page, form, country, chosen, points, ballot, unpaid, returns, results>>
  BY DEF ChangeAttitute, Slides, customCountry, FormShown, GameInv
<1> DEFINE c == countryList[Own]
           d == [c EXCEPT !.culturalAttitutes[a] = v]
<1>2. Own \in 1 .. Own /\ c \in Country /\ a \in attitutes /\ v \in Value
  BY <1>1, ListTyped, SliderAssumption DEF TypeOK, Value
<1>3. [c.culturalAttitutes EXCEPT ![a] = v] \in [attitutes -> Value]
  <2>1. c.culturalAttitutes \in [attitutes -> Value]
    BY <1>2 DEF Country
  <2> HIDE DEF c
  <2>2. QED
    BY <1>2, <2>1
<1>4. d \in Country
  BY <1>2, <1>3 DEF Country
<1>5. countryList' = [countryList EXCEPT ![Own] = d]
  BY <1>1
<1> HIDE DEF d
<1>6. countryList' \in [1 .. Own -> Country]
  BY <1>1, <1>2, <1>4, <1>5 DEF TypeOK
<1>7. \A k \in 1 .. Own : k # Own => countryList'[k] = countryList[k]
  BY <1>1, <1>5 DEF TypeOK
<1>8. TypeOK'
  BY <1>1, <1>6 DEF TypeOK, form, points, ballot
<1>9. Places'
  BY <1>1, <1>7 DEF Places, form
<1>10. Due' /\ Ledger' /\ Judged'
  BY <1>1, LedgerStays DEF Due, Judged, points, ballot, form
<1>11. QED
  BY <1>8, <1>9, <1>10 DEF GameInv

(* A ballot that is left with no check to come has nothing unpaid.          *)
LEMMA UnmountKeeps ==
  ASSUME TypeOK, Due, Ledger, page = "area-ballot", country \in 1 .. Own,
         NEW next, Unmount(next), next # "area-ballot", UNCHANGED <<country, chosen, points>>
  PROVE  /\ Due' /\ Ledger' /\ unpaid' \in BOOLEAN
         /\ removable' \subseteq Items /\ checking' \subseteq Items
         /\ \A c \in stale' : c.item \in Items /\ c.under \in 1 .. Own
<1>1. /\ page' = next /\ removable' = {} /\ checking' = {} /\ unpaid' = (unpaid \/ checking # {})
      /\ stale' = IF usedKeys = {} THEN stale
                  ELSE stale \union {[item |-> item, under |-> country] : item \in checking}
  BY DEF Unmount
<1>2. Due'
  BY <1>1 DEF Due
<1>3. \A c \in stale' : c.item \in Items /\ c.under \in 1 .. Own
  BY <1>1 DEF TypeOK
<1>4. ASSUME ~unpaid'
      PROVE  (total' - forgiven') - KeySum(usedKeys)' = StartPoints /\ Recorded' /\ stale' = {}
  <2>1. ~unpaid /\ checking = {} /\ stale = {} /\ Recorded
    BY <1>1, <1>4 DEF Ledger
  <2>2. stale' = {}
    BY <1>1, <2>1
  <2>3. Recorded'
    BY <1>1, <2>1 DEF Recorded, KeysUnder, points
  <2>4. QED
    BY <2>1, <2>2, <2>3 DEF Ledger, points, KeySum
<1>5. Ledger'
  BY <1>4 DEF Ledger, points
<1>6. QED
  BY <1>1, <1>2, <1>3, <1>5 DEF TypeOK

LEMMA ShownKeeps ==
  ASSUME GameInv, CreateCountryFinished \/ ForwardToBallot PROVE GameInv'
<1>1. /\ TypeOK /\ Places /\ Due /\ Ledger
      /\ page = "create-country" /\ page' = "area-ballot" /\ checking' = {}
      /\ removable' = SelectedItems
      /\ UNCHANGED <<countryList, chosen, points, stale, unpaid, returns, results>>
  BY DEF GameInv, CreateCountryFinished, ForwardToBallot, Mount, Submittable, FormShown
<1>2. checking = {} /\ SelectedItems \subseteq Items
  BY <1>1, SelectedTyped DEF Due, Ledger
<1>3. TypeOK' /\ Places'
  <2>1. CASE CreateCountryFinished
    BY <1>1, <1>2, <2>1, ListTyped
       DEF CreateCountryFinished, Submittable, FormShown, TypeOK, Places, form, NoCountry, points
  <2>2. CASE ForwardToBallot
    BY <1>1, <1>2, <2>2 DEF ForwardToBallot, TypeOK, Places, form, points
  <2>3. QED
    BY <2>1, <2>2, <1>1
<1>4. Due' /\ Judged'
  BY <1>1 DEF Due, Judged
<1>5. Ledger'
  BY <1>1, <1>2 DEF Ledger, Recorded, KeysUnder, points
<1>6. QED
  BY <1>3, <1>4, <1>5 DEF GameInv

LEMMA BackToCountryKeeps ==
  ASSUME GameInv, BackToCountry PROVE GameInv'
<1>1. /\ TypeOK /\ Places /\ Due /\ Ledger /\ page = "area-ballot" /\ Unmount("create-country")
      /\ picked' = NoCountry /\ submitDisabled' = TRUE /\ returns < MaxReturns /\ returns' = returns + 1
      /\ UNCHANGED <<countryList, country, chosen, points, results>>
  BY DEF GameInv, BackToCountry
<1>2. country \in 1 .. Own
  BY <1>1, AttitutesTyped DEF Places
<1>3. /\ Due' /\ Ledger' /\ unpaid' \in BOOLEAN
      /\ removable' \subseteq Items /\ checking' \subseteq Items
      /\ \A c \in stale' : c.item \in Items /\ c.under \in 1 .. Own
  BY <1>1, <1>2, UnmountKeeps
<1>4. page' = "create-country"
  BY <1>1 DEF Unmount
<1>5. TypeOK'
  BY <1>1, <1>3, <1>4, ListTyped, BoundAssumption DEF TypeOK, NoCountry, points
<1>6. Places' /\ Judged'
  BY <1>1, <1>4 DEF Places, Judged
<1>7. QED
  BY <1>3, <1>5, <1>6 DEF GameInv

LEMMA ChooseKeeps ==
  ASSUME GameInv, NEW item \in Items, Choose(item) PROVE GameInv'
<1> DEFINE new == [item |-> item, under |-> country]
<1>1. /\ page = "area-ballot" /\ item \notin SelectedItems /\ TypeOK /\ Places /\ Due /\ Ledger
      /\ chosen' = chosen \union {new} /\ used' = used + item.price
      /\ removable' = removable \ {item} /\ checking' = checking \union {item}
      /\ UNCHANGED <<countryList, page, form, country, total, usedKeys, forgiven, stale, unpaid,
                     returns, results>>
  BY DEF Choose, GameInv
<1>2. country \in 1 .. Own /\ item.price \in Int
  BY <1>1, AttitutesTyped, ItemsAssumption DEF Places
<1>3. TypeOK'
  BY <1>1, <1>2 DEF TypeOK, form
<1>4. Places' /\ Judged'
  BY <1>1 DEF Places, Judged, form
<1>5. new.item = item /\ new.under = country /\ \A c \in chosen : c.item # item
  BY <1>1 DEF SelectedItems
<1> HIDE DEF new
<1>6. Due'
  BY <1>1, <1>5 DEF Due
<1>7. IsFiniteSet(chosen')
  BY <1>1, FS_AddElement DEF Ledger
<1>8. Recorded => Recorded'
  BY <1>1, <1>5 DEF Recorded, KeysUnder
<1>9. Ledger'
  BY <1>1, <1>7, <1>8 DEF Ledger
<1>10. QED
  BY <1>3, <1>4, <1>6, <1>9 DEF GameInv

LEMMA DeselectKeeps ==
  ASSUME GameInv, NEW item \in Items, Deselect(item) PROVE GameInv'
<1>1. /\ page = "area-ballot" /\ TypeOK /\ Places /\ Due /\ Ledger
      /\ chosen' = {c \in chosen : c.item # item} /\ used' = used - item.price
      /\ UNCHANGED <<countryList, page, form, country, total, usedKeys, forgiven, ballot, unpaid,
                     returns, results>>
  BY DEF Deselect, GameInv
<1>2. TypeOK'
  BY <1>1, ItemsAssumption DEF TypeOK, form, ballot
<1>3. Places' /\ Due' /\ Judged'
  BY <1>1 DEF Places, Due, Judged, form, ballot
<1>4. IsFiniteSet(chosen')
  <2>1. chosen' \in SUBSET chosen
    BY <1>1
  <2>2. QED
    BY <1>1, <2>1, FS_Subset DEF Ledger
<1>5. Recorded => Recorded'
  BY <1>1 DEF Recorded, KeysUnder, ballot
<1>6. Ledger'
  BY <1>1, <1>4, <1>5 DEF Ledger, ballot
<1>7. QED
  BY <1>2, <1>3, <1>6 DEF GameInv

LEMMA CheckKeeps ==
  ASSUME GameInv, NEW item \in Items, CheckBonusesAndPenalties(item) PROVE GameInv'
<1> DEFINE before == [keys |-> usedKeys, total |-> total, forgiven |-> forgiven]
           s == EffectsOf(item)
           after == PaidBy(item, s, before)
<1>1. /\ item \in checking /\ TypeOK /\ Places /\ Due /\ Ledger
      /\ checking' = checking \ {item}
      /\ usedKeys' = after.keys /\ total' = after.total /\ forgiven' = after.forgiven
      /\ UNCHANGED <<countryList, page, form, country, chosen, used, removable, stale, unpaid,
                     returns, results>>
  BY DEF CheckBonusesAndPenalties, GameInv, PaidBy, EffectsOf
<1>2. page = "area-ballot" /\ country \in 1 .. Own /\ Attitutes \in CountryAttitutes
  <2>1. page = "area-ballot"
    BY <1>1 DEF Due
  <2>2. QED
    BY <1>1, <2>1, AttitutesTyped DEF Places
<1>3. s \in Seq(Effects) /\ before \in Account /\ used \in Int
  BY <1>1, <1>2, EffectsTyped DEF EffectsOf, Account, Ledger, TypeOK
<1>4. /\ after \in Account /\ Start(after) = Start(before)
      /\ after.keys = usedKeys \union {Key(item, e) : e \in Range(s)}
  <2>1. before.keys = usedKeys
    OBVIOUS
  <2> HIDE DEF s, before
  <2>2. QED
    BY <1>3, <2>1, PaidAll
<1>5. /\ usedKeys' \in SUBSET Keys /\ IsFiniteSet(usedKeys') /\ total' \in Int /\ forgiven' \in Int
      /\ (total' - forgiven') - KeySum(usedKeys') = (total - forgiven) - KeySum(usedKeys)
  <2>1. Start(before) = (total - forgiven) - KeySum(usedKeys)
    BY DEF Start
  <2> HIDE DEF after, before
  <2>2. QED
    BY <1>1, <1>4, <2>1 DEF Account, Start
<1>6. ASSUME Recorded, NEW c \in chosen, c.under # Own, c.item \notin checking'
      PROVE  KeysUnder(c.item, c.under) \subseteq usedKeys'
  <2>1. CASE c.item = item
    <3>1. c.under = country /\ country # Own
      BY <1>1, <1>6, <2>1 DEF Due
    <3>2. Attitutes = Countries[country].culturalAttitutes
      BY <1>1, <1>2, <3>1 DEF Places, Attitutes, AttitutesOf
    <3>3. KeysUnder(c.item, c.under) = {Key(item, e) : e \in Range(s)}
      BY <2>1, <3>1, <3>2 DEF KeysUnder, EffectsOf
    <3> HIDE DEF after, s
    <3>4. QED
      BY <1>1, <1>4, <3>3
  <2>2. CASE c.item # item
    <3>1. KeysUnder(c.item, c.under) \subseteq usedKeys
      BY <1>1, <1>6, <2>2 DEF Recorded
    <3> HIDE DEF after, s
    <3>2. QED
      BY <1>1, <1>4, <3>1
  <2>3. QED
    BY <2>1, <2>2
<1> HIDE DEF after, before, s
<1>7. Recorded => Recorded'
  <2>1. KeysUnder(1, 1)' = KeysUnder(1, 1) /\ chosen' = chosen
    BY <1>1 DEF KeysUnder
  <2>2. QED
    BY <1>6, <2>1 DEF Recorded, KeysUnder
<1>8. Ledger'
  <2>1. KeySum(usedKeys)' = KeySum(usedKeys')
    BY DEF KeySum
  <2>2. QED
    BY <1>1, <1>5, <1>7, <2>1 DEF Ledger
<1>9. TypeOK'
  <2>1. \A k \in usedKeys' : k.item \in Items
    BY <1>5 DEF Keys
  <2>2. QED
    BY <1>1, <1>5, <2>1 DEF TypeOK, form
<1>10. Places' /\ Due' /\ Judged'
  BY <1>1, <1>2 DEF Places, Due, Judged, form
<1>11. QED
  BY <1>8, <1>9, <1>10 DEF GameInv

LEMMA StaleCheckKeeps ==
  ASSUME GameInv, NEW c \in stale, StaleCheck(c) PROVE GameInv'
<1> DEFINE s == GetBonusesAndPenaltiesForItem(c.item, AttitutesOf(c.under))
           L == {Key(c.item, e) : e \in Range(s)}
<1>1. /\ TypeOK /\ Places /\ Due /\ Ledger /\ Judged
      /\ stale' = stale \ {c} /\ usedKeys' = usedKeys \union L
      /\ UNCHANGED <<countryList, page, form, country, chosen, total, used, forgiven,
                     removable, checking, unpaid, returns, results>>
  BY DEF StaleCheck, GameInv
<1>2. c.item \in Items /\ c.under \in 1 .. Own /\ unpaid
  BY <1>1 DEF TypeOK, Ledger
<1>3. AttitutesOf(c.under) \in CountryAttitutes
  BY <1>1, <1>2 DEF TypeOK, AttitutesOf, Country, CountryAttitutes
<1>4. s \in Seq(Effects)
  BY <1>2, <1>3, EffectsTyped
<1>5. L \in SUBSET Keys /\ IsFiniteSet(L)
  <2> DEFINE D == DOMAIN s
             m == [i \in D |-> Key(c.item, s[i])]
  <2>1. IsFiniteSet(D) /\ \A i \in D : s[i] \in Effects
    BY <1>4, Indices
  <2>2. m \in Surjection(D, L)
    BY DEF Surjection, Range
  <2>3. L \in SUBSET Keys
    BY <1>2, <2>1 DEF Range, Keys, Key
  <2> HIDE DEF D, L, m
  <2>4. QED
    BY <2>1, <2>2, <2>3, FS_Surjection
<1> HIDE DEF L
<1>6. Ledger'
  <2>1. usedKeys' \in SUBSET Keys /\ IsFiniteSet(usedKeys') /\ unpaid'
    BY <1>1, <1>2, <1>5, FS_Union DEF Ledger
  <2>2. QED
    BY <1>1, <2>1 DEF Ledger
<1>7. TypeOK'
  <2>1. \A k \in usedKeys' : k.item \in Items
    BY <1>1, <1>5 DEF Keys, TypeOK
  <2>2. QED
    BY <1>1, <2>1 DEF TypeOK, form
<1>8. Places' /\ Due' /\ Judged'
  BY <1>1 DEF Places, Due, Judged, form, Attitutes, AttitutesOf, SelectedItems
<1>9. QED
  BY <1>6, <1>7, <1>8 DEF GameInv

LEMMA ResetKeeps ==
  ASSUME GameInv, ResetSelectArticles PROVE GameInv'
<1>1. /\ TypeOK /\ Places /\ Due /\ Ledger /\ page = "review"
      /\ page' = "area-ballot" /\ chosen' = {} /\ total' = StartPoints /\ used' = 0 /\ unpaid' = TRUE
      /\ removable' = {} /\ checking' = {} /\ returns < MaxReturns /\ returns' = returns + 1
      /\ UNCHANGED <<countryList, form, country, usedKeys, forgiven, stale, results>>
  BY DEF ResetSelectArticles, Mount, GameInv
<1>2. TypeOK'
  BY <1>1, PointsAssumption, BoundAssumption DEF TypeOK, form
<1>3. Places' /\ Due' /\ Judged'
  BY <1>1 DEF Places, Due, Judged, form
<1>4. Ledger'
  BY <1>1, FS_EmptySet DEF Ledger
<1>5. QED
  BY <1>2, <1>3, <1>4 DEF GameInv

LEMMA VerdictsTyped ==
  ASSUME NEW S, NEW c
  PROVE  GetResultsForReview(S, Modules, c).verdict
           \in {"none", "highNetPenalties", "breakEven", "highNetBonuses"}
BY DEF GetResultsForReview, WithWeak, NetVerdict

LEMMA SubmitBallotKeeps ==
  ASSUME GameInv, SubmitBallot PROVE GameInv'
<1>1. /\ page = "area-ballot" /\ Unmount("review") /\ TypeOK /\ Places /\ Due /\ Ledger
      /\ results' = GetResultsForReview(SelectedItems, Modules, Attitutes)
      /\ UNCHANGED <<countryList, form, country, chosen, points, returns>>
  BY DEF SubmitBallot, GameInv
<1>2. country \in 1 .. Own /\ page' = "review"
  BY <1>1, AttitutesTyped DEF Places, Unmount
<1>3. Attitutes' = Attitutes /\ SelectedItems' = SelectedItems
  BY <1>1 DEF Attitutes, AttitutesOf, SelectedItems
<1>4. Judged'
  BY <1>1, <1>3 DEF Judged
<1>5. /\ Due' /\ Ledger' /\ unpaid' \in BOOLEAN
      /\ removable' \subseteq Items /\ checking' \subseteq Items
      /\ \A c \in stale' : c.item \in Items /\ c.under \in 1 .. Own
  BY <1>1, <1>2, UnmountKeeps
<1>6. TypeOK'
  BY <1>1, <1>2, <1>5, VerdictsTyped DEF TypeOK, form, points
<1>7. Places'
  BY <1>1, <1>2 DEF Places, form
<1>8. QED
  BY <1>4, <1>5, <1>6, <1>7 DEF GameInv

LEMMA InitHolds == Init => GameInv
<1> SUFFICES ASSUME Init PROVE GameInv
  OBVIOUS
<1>1. TypeOK
  <2>1. countryList \in [1 .. Own -> Country] /\ NoCountry \in NoCountry .. Own
    BY ListTyped DEF Init, NoCountry
  <2>2. total \in Int /\ used \in Int /\ forgiven \in Int /\ returns \in 0 .. MaxReturns
    BY PointsAssumption, BoundAssumption DEF Init
  <2>3. results.verdict = "none"
    BY DEF Init, NoResults
  <2>4. QED
    BY <2>1, <2>2, <2>3 DEF Init, TypeOK
<1>2. Places /\ Due
  BY DEF Init, Places, Due
<1>3. Ledger
  <2>1. (total - forgiven) - KeySum(usedKeys) = StartPoints
    BY KeySumNone, PointsAssumption DEF Init
  <2>2. QED
    BY <2>1, FS_EmptySet DEF Init, Ledger, Recorded
<1>4. Judged
  BY DEF Init, Judged
<1>5. QED
  BY <1>1, <1>2, <1>3, <1>4 DEF GameInv

(* The inductive invariant: only the player's own country is ever changed,  *)
(* the points show what the recorded effects are worth but for what was     *)
(* forgiven, every article has its effects recorded or a check to come, and *)
(* the review has judged the constitution that was submitted.               *)
THEOREM GameInvariant == Spec => []GameInv
<1>1. GameInv /\ [Next]_vars => GameInv'
  <2> SUFFICES ASSUME GameInv, [Next]_vars PROVE GameInv'
    OBVIOUS
  <2>1. CASE UNCHANGED vars
    BY <2>1 DEF vars, form, points, ballot, GameInv, TypeOK, Places, Due, Ledger, Recorded, KeysUnder,
               Judged, Attitutes, AttitutesOf, SelectedItems
  <2>2. QED
    BY <2>1, CountrySelectedKeeps, SetFieldKeeps, ChangeAttituteKeeps, ShownKeeps, BackToCountryKeeps,
       ChooseKeeps, DeselectKeeps, CheckKeeps, StaleCheckKeeps, SubmitBallotKeeps, ResetKeeps DEF Next
<1>2. QED
  BY <1>1, InitHolds, PTL DEF Spec

(* Whatever an article without a penalty in the game's country is added to, *)
(* the review's verdict is no worse for it (getResultsForReview).           *)
THEOREM GameVerdictIsMonotone == Spec => []VerdictIsMonotone
<1>1. GameInv => VerdictIsMonotone
  <2> SUFFICES ASSUME GameInv, country # NoCountry, NEW item \in SelectedItems,
                      GetPenaltiesForItem(item, Attitutes) = <<>>
               PROVE  VerdictOf(SelectedItems) >= VerdictOf(SelectedItems \ {item})
    BY DEF VerdictIsMonotone
  <2>1. TypeOK /\ IsFiniteSet(chosen)
    BY DEF GameInv, Ledger
  <2>2. SelectedItems \in SUBSET Items /\ IsFiniteSet(SelectedItems)
    BY <2>1, SelectedTyped
  <2>3. Attitutes \in CountryAttitutes
    BY <2>1, AttitutesTyped
  <2>4. QED
    BY <2>2, <2>3, OneMoreArticle DEF VerdictOf
<1>2. QED
  BY <1>1, GameInvariant, PTL

(* A constitution chosen under one country of the list, with every effect   *)
(* paid, is judged by what the game gained and lost by it and what its      *)
(* penalties were short of (_checkBonusesAndPenalties, getResultsForReview).*)
THEOREM GameJudgedAsPaid == Spec => []JudgedAsPaid
<1>1. GameInv => JudgedAsPaid
  <2> SUFFICES ASSUME GameInv, page = "review", country # Own, \A c \in chosen : c.under = country,
                      ~unpaid, usedKeys \subseteq KeysOf(SelectedItems),
                      \A item \in SelectedItems : IsInjective(EffectsOf(item))
               PROVE  results.info.total.bonus - results.info.total.penalty
                        = (total - StartPoints) - forgiven
    BY DEF JudgedAsPaid
  <2>1. TypeOK /\ Places /\ Due /\ Ledger /\ Judged
    BY DEF GameInv
  <2>2. country \in 1 .. Own /\ Attitutes \in CountryAttitutes /\ checking = {}
    BY <2>1, AttitutesTyped DEF Places, Due
  <2>3. Attitutes = Countries[country].culturalAttitutes
    BY <2>1, <2>2 DEF Places, Attitutes, AttitutesOf
  <2>4. SelectedItems \in SUBSET Items /\ IsFiniteSet(SelectedItems)
    BY <2>1, SelectedTyped DEF Ledger
  <2>5. usedKeys = KeysOf(SelectedItems)
    <3>1. ASSUME NEW item \in SelectedItems, NEW e \in Range(EffectsOf(item))
          PROVE  Key(item, e) \in usedKeys
      <4>1. PICK c \in chosen : c.item = item
        BY DEF SelectedItems
      <4>2. KeysUnder(c.item, c.under) \subseteq usedKeys
        BY <2>1, <2>2 DEF Ledger, Recorded
      <4>3. QED
        BY <2>3, <4>1, <4>2 DEF KeysUnder, EffectsOf
    <3>2. QED
      BY <3>1 DEF KeysOf
  <2>6. Balance(BonusPenaltyInfo(SelectedItems, Attitutes)) = KeySum(usedKeys)
    BY <2>2, <2>4, <2>5, JudgedByKeys
  <2>7. results.info = BonusPenaltyInfo(SelectedItems, Attitutes)
    BY <2>1 DEF Judged, GetResultsForReview
  <2>8. results.info.total.bonus - results.info.total.penalty = KeySum(usedKeys)
    BY <2>6, <2>7 DEF Balance
  <2>9. /\ total \in Int /\ forgiven \in Int /\ KeySum(usedKeys) \in Int /\ StartPoints \in Int
        /\ (total - forgiven) - KeySum(usedKeys) = StartPoints
    BY <2>1, KeySumIs, PointsAssumption DEF TypeOK, Ledger
  <2>10. KeySum(usedKeys) = (total - StartPoints) - forgiven
    BY <2>9
  <2>11. QED
    BY <2>8, <2>10
<1>2. QED
  BY <1>1, GameInvariant, PTL
=============================================================================
