----------------------------- MODULE MCBudgetScene -----------------------------
(* Two articles of different modules, the later one chosen first or last;   *)
(* both fit unless a penalty was given.                                     *)
EXTENDS BudgetScene

MCArticle == {"law", "right"}
MCModuleIndex == [a \in MCArticle |-> IF a = "right" THEN 2 ELSE 3]
MCPrice == [a \in MCArticle |-> IF a = "law" THEN 3 ELSE 2]
MCAmounts == {2, -3}
=============================================================================
