------------------------------ MODULE MCCardStack ------------------------------
(* Six cards, four of them in the stack: two refills add a card and the   *)
(* others come at the end.                                                  *)
EXTENDS CardStack

MCItems == <<"module", "law", "right", "army", "vote", "court">>
=============================================================================
