\* A household may stop booking.
CHECK_DEADLOCK FALSE
SPECIFICATION Spec
CONSTANTS
    None = None
    Tablet = {a, m}
    Admin = {a}
    Command = {k1, k2, k3}
    Handler = {h1, h2}
    Resource = {r1, r2}
    Default = r1
    Capacities = {1, 2}
    Draft <- Drafts
    Offset <- Zone
    MaxReservations = 2
    MaxMishaps = 1
INVARIANTS
    TypeOK
    NoOverbooking
    HistoryVerifies
    ToldTheTruth
    NoLostUpdate
    LostAnswerFound
SYMMETRY Symmetry
