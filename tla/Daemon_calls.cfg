\* Two registrations and an unregister while launchd's daemon ends and another one joins it.
CONSTANTS
    Pids = {p1, p2, p3}
    NoPid = NoPid
    Panes = {a, b}
    Closers = {x}
    First = a
    Nobody = Nobody
    MaxManual = 1
    MaxEnds = 1
SPECIFICATION FairSpec
INVARIANTS TypeOK
PROPERTIES ImplementsCallContract ComesBack
CHECK_DEADLOCK FALSE
