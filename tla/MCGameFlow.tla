---- MODULE MCGameFlow ----
EXTENDS GameFlow
MCSupported == {"en", "is"}
MCLinkLocale == {"fr"}
MCLinks == {AreaBallot, Review(1), <<"voting-completed", NoSub>>}
====
