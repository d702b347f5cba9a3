SPECIFICATION ComSpec
CONSTANTS
  Media = {m1}
  Requests = {q1}
  MaxCollects = 1
  MaxComFaults = 1
INVARIANTS SavedIsWhole OneCardEach
PROPERTIES SettledStands EvidenceIsKept RunIsDecided
