SPECIFICATION CtSpec
CONSTANTS
  MaxTrips = 1
  MaxTrashFaults = 1
PROPERTIES DeletedIsNotClaimed
CHECK_DEADLOCK FALSE
