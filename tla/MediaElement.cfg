SPECIFICATION MediaSpec
CONSTANTS
  NoItem = NoItem
  Items <- MCItems
  MaxPending = 2
  MaxListeners = 3
INVARIANTS MediaIsOfPoint ListenedToOnce
CHECK_DEADLOCK FALSE
