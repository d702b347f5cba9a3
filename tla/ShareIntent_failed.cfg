SPECIFICATION ShareSpec
CONSTANTS
    Kinds = {"finalize"}
    Modes = {TRUE}
    MaxSeq = 1
    MaxFaults = 4
    MaxOthers = 0
PROPERTY FailedStaysFailed
\* All requests made and closed: nothing is left to do.
CHECK_DEADLOCK FALSE
