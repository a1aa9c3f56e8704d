\* Two sessions claim the address, their pumps overlap or follow each other.
CONSTANTS
    Jobs = {j1}
    Sessions = {s1, s2}
    Pumps = {p1, p2}
    NoSession = NoSession
    NoPump = NoPump
    MaxRegistrations = 2
    MaxStops = 1
SPECIFICATION Spec
SYMMETRY Symmetry
INVARIANTS TypeOK EventIsMarked SentTruthful OncePerConnection AtMostOneEvent
PROPERTIES HandledStaysHandled
CHECK_DEADLOCK FALSE
