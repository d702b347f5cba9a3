SPECIFICATION ServicesSpec
CONSTANTS
  NoAgent = NoAgent  NoJob = NoJob  NoRequest = NoRequest
  Requests = {r1, r2}
  Agents = {a1}
  Agent = a1
  Jobs = {j1, j2}
  Slots = {s1, s2}
  MaxTries = 2
  MaxUpdates = 2
  CallsArePrompt = TRUE
  MaxChanges = 2
  MaxTelFaults = 2
  Reasons = {ra, rb}
  Waiters = {w1, w2}
  MaxSignals = 4
  Secrets = {sa, sb}
  Tabs = {ta, tb}
  NoTab = NoTab
  Polls = {p1, p2}
  MaxRequests = 4
  MaxActive = 2
  MaxKept = 2
  TtCards = {c1}
  TtOps = {o1, o2, o3}
  TtProcs = {x1, x2}
  MaxEdits = 1
  MaxTtFaults = 2
  MaxTrips = 2
  MaxTrashFaults = 2
INVARIANTS UpdateCutsNothingOff NoReasonIsLost NobodySleepsOnWork RecoveryIsPossible  PaidJobIsKept
PROPERTIES PlacementIsKept EveryMarkIsTaken ImplementsCardPlace RestoredIsSettled 
CHECK_DEADLOCK FALSE
