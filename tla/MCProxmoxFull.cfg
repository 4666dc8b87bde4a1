\* Nothing is left to do once the bounds on changes of the guest and on crashes
\* are reached.
CHECK_DEADLOCK FALSE
SPECIFICATION Spec
CONSTANTS
    None = None
    c1 = c1
    c2 = c2
    Command = {c1, c2}
    Action <- StartAndStop
    Handler = {h1}
    MaxPreviews = 2
    MaxReceipts = 2
    MaxEvents = 3
    MaxRevision = 3
    MaxCrashes = 1
PROPERTIES
    RestartResolves
