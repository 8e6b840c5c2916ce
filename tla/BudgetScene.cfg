SPECIFICATION Spec
CONSTANTS
  Null = Null
  Article <- MCArticle
  ModuleIndex <- MCModuleIndex
  Price <- MCPrice
  StartPoints = 6
  Amounts <- MCAmounts
  MaxShowings = 2
  MaxAwards = 2
INVARIANTS BlocksShowSelection WidthsAreOfTotal NumberIsPointsLeft
PROPERTY SceneComesToRest
CHECK_DEADLOCK FALSE
