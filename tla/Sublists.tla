------------------------------- MODULE Sublists -------------------------------
(***************************************************************************)
(* What is left of a list when it is filtered by a set.                    *)
(***************************************************************************)
EXTENDS Naturals, Sequences

(* The entries of a list that are in a set, in the order of the list        *)
(* (Array.prototype.filter).                                                *)
FilterSeq(list, T) ==
  LET upTo[n \in 0 .. Len(list)] ==
        IF n = 0 THEN <<>>
        ELSE IF list[n] \in T THEN Append(upTo[n - 1], list[n]) ELSE upTo[n - 1]
  IN  upTo[Len(list)]

Others(list, T) == {list[i] : i \in 1 .. Len(list)} \ T

(* An entry goes after those of a set and before all others: push, and then *)
(* the stable sort of a list that was sorted before.                        *)
InsertAfter(list, T, x) == FilterSeq(list, T) \o <<x>> \o FilterSeq(list, Others(list, T))
=============================================================================
