SPECIFICATION Spec
CONSTANTS
  Supported <- MCSupported
  LinkLocale <- MCLinkLocale
  DefaultLanguage = "is"
  NoSave = NoSave
  Links <- MCLinks
  HistoryLimit = 3
  MaxLoads = 2
  MaxPosts = 1
INVARIANTS PrerequisitesMet SavedGameIsResumable OwnReviewIsPosted
PROPERTIES SavedGameSurvivesTheOffer GuardsSettle CountryIsSaved
CHECK_DEADLOCK FALSE
