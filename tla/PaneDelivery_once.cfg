\* Two messages and one pane: senders, watchdog and hooks on one lock, a lease that runs out.
CONSTANTS
    Jobs = {j1, j2}
    Panes = {a}
    NoPane = NoPane
    MaxAttach = 2
    StarveLimit = 1
    MaxDeaths = 0
    MaxLapses = 1
    MaxMoves = 0
SPECIFICATION Spec
SYMMETRY Symmetry
INVARIANTS TypeOK HandedOverOnce
CHECK_DEADLOCK FALSE
