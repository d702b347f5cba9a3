SPECIFICATION FairSpec
CONSTANTS
  Handlers = {h1, h2, h3}
  MaxPushes = 3
  InputsMayBeMissing = TRUE
INVARIANTS OneRowPerJob EmptyStaysTracked
PROPERTIES OnlyListsCloseEmpty RefusalIsFinal VerdictArrives
CHECK_DEADLOCK FALSE
