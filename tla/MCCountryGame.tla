---------------------------- MODULE MCCountryGame ----------------------------
(* Two countries of the list and the player's own; three articles.            *)
EXTENDS CountryGame

Filled == [f \in Field |-> 2]
Blank == [f \in Field |-> 0]

MCCountries == <<
  [fields |-> Filled, culturalAttitutes |->
     [a \in attitutes |-> IF a \in {"lawAndOrder", "liberty"} THEN 10 ELSE 3]],
  [fields |-> Filled, culturalAttitutes |->
     [a \in attitutes |-> IF a = "liberty" THEN 0 ELSE 6]],
  [fields |-> Blank, culturalAttitutes |-> [a \in attitutes |-> 0]] >>

Rule(l, a) == [level |-> l, attitute |-> a]
Free == [name |-> "free", price |-> 5, module |-> "rights", authorshipPercent |-> 15,
         bonus |-> <<Rule("high", "liberty"), Rule("high", "law & order"), Rule("low", "liberty")>>,
         penalty |-> <<Rule("low", "authority")>>]
Policed == [name |-> "policed", price |-> 5, module |-> "powers", authorshipPercent |-> 15,
            bonus |-> <<Rule("medium", "sovreignty")>>,
            penalty |-> <<Rule("high", "liberty"), Rule("high", "law and order")>>]
Held == [name |-> "held", price |-> 4, module |-> "powers", authorshipPercent |-> 5,
         bonus |-> <<>>, penalty |-> <<Rule("medium", "collectivism"), Rule("low", "liberty"), Rule("medium", "science"), Rule("medium", "privacy")>>]
MCItems == {Free, Policed, Held}
MCSliders == {"liberty"}
MCModules == {"rights", "powers"}
MCSliderValue == {0, 2}
=============================================================================
