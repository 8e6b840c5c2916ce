SPECIFICATION Spec
CONSTANTS
  a1 = a1
  a2 = a2
  a3 = a3
  NoSave = NoSave
  Article <- MCThree
  Price <- MCPrice
  Bonus <- MCBonus
  Penalty <- MCPenalty
  Cost <- MCCost
  BonusSum <- MCBonusSum
  StartPoints = 6
  MaxRestores = 0
INVARIANTS UsedIsCostOfSelection EveryArticleIsSomewhere
PROPERTY EffectsAreRecorded
