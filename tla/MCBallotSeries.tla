--------------------------- MODULE MCBallotSeries ---------------------------
(* Instances of BallotSeries for TLC. *)
EXTENDS BallotSeries

CONSTANTS h, a1, a2, a3, b1, b2, x, y

MCDeck == <<h, a1, a2, a3, b1, b2, x, y>>
MCHeaders == {h}
MCSeries == [i \in ToSet(MCDeck) |->
  IF i \in {a1, a2, a3} THEN "a" ELSE IF i \in {b1, b2} THEN "b" ELSE NoSeries]

MCModuleIndex == [i \in ToSet(MCDeck) |-> IF i \in {x, y} THEN 2 ELSE 1]

(* Two series side by side, ended by the header of the next module; and one *)
(* series ended by an article of none.                                      *)
MCAdjacent == {<<a1, b1, b2, h>>, <<h, a1, a2, x>>}
=============================================================================
