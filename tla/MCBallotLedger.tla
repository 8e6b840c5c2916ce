-------------------------- MODULE MCBallotLedger --------------------------
(* Small instances of BallotLedger for TLC. *)
EXTENDS BallotLedger, FiniteSetsExt

CONSTANTS a1, a2, a3

MCTwo == {a1, a2}
MCThree == {a1, a2, a3}

(* a1 pays for itself, a2 is fined more than it leaves, a3 is indifferent. *)
MCPrice == [a \in Article |-> IF a = a1 THEN 2 ELSE 3]
MCBonus == [a \in Article |-> IF a = a1 THEN 2 ELSE 0]
MCPenalty == [a \in Article |-> IF a = a2 THEN 2 ELSE 0]

MCCost == [S \in SUBSET Article |-> MapThenSumSet(LAMBDA a : Price[a], S)]
MCBonusSum == [S \in SUBSET Article |-> MapThenSumSet(LAMBDA a : Bonus[a], S)]
=============================================================================
