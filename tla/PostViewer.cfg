SPECIFICATION Spec
CONSTANTS
  a = a  b = b  c = c  a1 = a1  a2 = a2  a3 = a3  a4 = a4  b1 = b1
  Null = Null  Empty = Empty  NoId = NoId
  Posts <- MCPosts
  PointsOf <- MCPointsOf
  Described <- MCDescribed
  LawIssues <- MCLawIssues
  Playable <- MCPlayable
  Formatted <- MCFormatted
  VotingOff <- MCVotingOff
  MaxAsked = 2
INVARIANTS OnePostOnPage DescriptionIsShown EveryPointIsShown
PROPERTY SpinnersStop
CHECK_DEADLOCK FALSE
