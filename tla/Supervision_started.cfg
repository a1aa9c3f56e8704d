\* The watchdog, from nothing or replacing an old one, and the worker.
CONSTANTS
    Pids = {p1, p2, p3}
    NoPid = NoPid
    Callers = {c1, c2}
    Nobody = Nobody
    MaxEvents = 1
SPECIFICATION FairSpec
INVARIANTS TypeOK
PROPERTIES CurrentRuns
CHECK_DEADLOCK FALSE
