SPECIFICATION ShareAndSwapSpec
CONSTANTS
    Kinds <- ShareKinds
    Modes <- Both
    MaxSeq = 2
    MaxFaults = 2
    MaxOthers = 1
    Accounts = {A}
    NoAccount = NoAccount
    Unread = Unread
    NoOne = NoOne
    Servers = {t1}
    Workers = {t1}
    SetRestores = {rs}
    FileRestores = {rf}
    MaxLogins = 1
    MaxSwapFaults = 1
INVARIANTS ConfirmedWasSeen NothingOutlivesItsDatabase ServedIsWhole
PROPERTIES MirrorIsFresh NewerRequestStands TakenBackStaysFailed EveryIntentCloses WaitersGoOn
\* All requests made and closed: nothing is left to do.
CHECK_DEADLOCK FALSE
