SPECIFICATION FairSpec
CONSTANTS
  a1 = a1  a2 = a2  b1 = b1  pc1 = pc1  pc2 = pc2  s1 = s1  s2 = s2  s3 = s3
  r1 = r1  r2 = r2  j1 = j1  j2 = j2
  NoAgent = NoAgent  NoJob = NoJob  NoSlot = NoSlot  NoRequest = NoRequest
  Requests = {r1}
  Agents = {a1, a2}
  Jobs = {j1}
  Devices = {pc1}
  Slots = {s1, s2}
  DeviceOf <- MCDeviceOf
  AgentOf <- MCAgentOf
  Alike <- MCUnlike
  MaxTries = 1
  MaxConfirms = 1
  AttemptsArePrompt = TRUE
PROPERTIES PaidJobIsAttached NoClaimIsStranded
CHECK_DEADLOCK FALSE
