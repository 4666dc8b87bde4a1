SPECIFICATION Spec
CONSTANTS
    None = None
    Job = {j1}
    Dispatcher = {d1, d2}
    Backlog = 2
    MaxFaults = 3
    MaxMeddling = 1
INVARIANTS
    TypeOK
    StartsOwn
    OneRunning
PROPERTIES
    LedgerSpecs
    QuietAfterDeadline
    CancelEnds
    EveryJobEnds
