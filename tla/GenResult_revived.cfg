SPECIFICATION Spec
CONSTANTS
  Handlers = {h1, h2}
  MaxPushes = 0
  InputsMayBeMissing = TRUE
INVARIANT RefusedStaysFailed
CHECK_DEADLOCK FALSE
