SPECIFICATION SeriesSpec
CHECK_DEADLOCK FALSE
CONSTANTS
  h = h
  a1 = a1
  a2 = a2
  a3 = a3
  b1 = b1
  b2 = b2
  x = x
  y = y
  NoSeries = NoSeries
  Deck <- MCDeck
  Headers <- MCHeaders
  Series <- MCSeries
  ModuleTypeIndex <- MCModuleIndex
  Filtered <- MCAdjacent
  MaxMounts = 2
  MaxScans = 3
INVARIANTS
  OneOfASeriesAtFirst
  EveryArticleIsOffered
  CardIsItsEntry
PROPERTY ScansEnd
