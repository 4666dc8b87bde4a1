\* A finished or wedged restore may leave nothing to do.
CHECK_DEADLOCK FALSE
SPECIFICATION Spec
CONSTANTS
    c1 = c1
    c2 = c2
    Volumes = 2
    Container = {c1, c2}
    Owner <- TwoServices
    MaxFaults = 1
    MaxMeddling = 0
INVARIANTS
    PublishesEverything
