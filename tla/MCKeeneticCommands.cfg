SPECIFICATION Spec
CONSTANTS
    None = None
    Command = {c1, c2}
    HighRisk = {c1}
    Packaged = FALSE
    MaxCommands = 2
    MaxEvents = 6
    MaxPreviews = 1
    MaxReceipts = 1
    MaxRevision = 2
INVARIANTS
    TypeOK
    AtMostOnce
    RoomToFinish
PROPERTIES
    CleanRunSucceeds
    CrashResolves
    LedgerSpec
