\* Nothing is left to do once the bounds on changes of the guest and on crashes
\* are reached.
CHECK_DEADLOCK FALSE
SPECIFICATION Spec
CONSTANTS
    None = None
    c1 = c1
    c2 = c2
    Command = {c1, c2}
    Action <- RebootAndStop
    Handler = {h1, h2}
    MaxPreviews = 2
    MaxReceipts = 2
    MaxEvents = 7
    MaxRevision = 2
    MaxCrashes = 2
INVARIANTS
    TypeOK
    CancelIsFinal
PROPERTIES
    LedgerSpec
    RestartWithRoom
