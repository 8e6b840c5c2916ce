SPECIFICATION StackSpec
CONSTANTS
  Deck <- MCItems
  Size = 4
  MaxFrames = 3
INVARIANTS StackIsInOrder
CHECK_DEADLOCK FALSE
