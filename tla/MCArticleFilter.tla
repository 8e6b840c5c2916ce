--------------------------- MODULE MCArticleFilter ---------------------------
(* Instances of ArticleFilter for TLC: two modules.  As in the content of    *)
(* the game the last module is longer than the stack of cards (44 articles,  *)
(* five cards); a shorter one leaves its header on top at the end.           *)
EXTENDS ArticleFilter

CONSTANTS h1, a1, a2, h2, b1, b2, b3

MCItems == <<h1, a1, a2, h2, b1, b2, b3>>
MCShort == <<h1, a1, h2, b1, b2, b3>>
MCHeaders == {h1, h2}
=============================================================================
