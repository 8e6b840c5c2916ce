----------------------------- MODULE MCPostViewer -----------------------------
(* Three posts: one with a long description and points on both sides and    *)
(* one on neither, one without a description, one a law issue without       *)
(* points; the first has a player in the cover.                             *)
EXTENDS PostViewer
CONSTANTS a, b, c, a1, a2, a3, a4, b1

MCPosts == {a, b, c}
MCPointsOf == [p \in MCPosts |->
  CASE p = a -> <<[id |-> a1, value |-> 2], [id |-> a2, value |-> 1],
                  [id |-> a3, value |-> 0], [id |-> a4, value |-> 2]>>
    [] p = b -> <<[id |-> b1, value |-> 0]>>
    [] p = c -> <<>>]
MCDescribed == {a, c}
MCLawIssues == {c}
MCPlayable == {a}
MCFormatted == {a}
MCVotingOff == {b}
=============================================================================
