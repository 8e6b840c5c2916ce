------------------------- MODULE ChoicePointAccount -------------------------
(***************************************************************************)
(* What the ballot promises about choice points, without cards, timers,    *)
(* pages or saved games: an account that is never in debt, charges an      *)
(* article when it is chosen and repays the same price when it is dropped, *)
(* and lets the citizens judge an article at most once.                    *)
(***************************************************************************)
EXTENDS Integers

CONSTANTS Article, Price, Bonus, Penalty, BonusSum, StartPoints

VARIABLES
  balance,       \* points left to spend
  constitution,  \* articles charged to the account
  judged         \* articles whose bonuses and penalties were settled

vars == <<balance, constitution, judged>>

Init ==
  /\ balance = StartPoints
  /\ constitution = {}
  /\ judged = {}

Choose(a) ==
  /\ a \notin constitution
  /\ balance >= Price[a]
  /\ balance' = balance - Price[a]
  /\ constitution' = constitution \union {a}
  /\ UNCHANGED judged

Drop(a) ==
  /\ a \in constitution
  /\ balance' = balance + Price[a]
  /\ constitution' = constitution \ {a}
  /\ UNCHANGED judged

(* A bonus is paid in full, a penalty as far as the balance reaches. *)
Judge(a) ==
  /\ a \notin judged
  /\ judged' = judged \union {a}
  /\ LET due == balance + Bonus[a] - Penalty[a]
     IN  balance' = IF due >= 0 THEN due ELSE 0
  /\ UNCHANGED constitution

(* The judgement comes when nobody is there to receive it. *)
Forgo(a) ==
  /\ judged' = judged \union {a}
  /\ UNCHANGED <<balance, constitution>>

(* A retry or a reload opens a new account, never with more than the quiz   *)
(* points and the bonuses of the articles that stay judged.                 *)
Reopen ==
  /\ constitution' = {}
  /\ judged' \in SUBSET judged
  /\ balance' \in 0 .. StartPoints + BonusSum[judged']

Next ==
  \/ Reopen
  \/ \E a \in Article : Choose(a) \/ Drop(a) \/ Judge(a) \/ Forgo(a)

Spec == Init /\ [][Next]_vars
=============================================================================
