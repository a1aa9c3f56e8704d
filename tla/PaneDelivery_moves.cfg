\* One message, an address that moves between two panes, deaths and leases that run out.
CONSTANTS
    Jobs = {j1}
    Panes = {a, b}
    NoPane = NoPane
    MaxAttach = 1
    StarveLimit = 1
    MaxDeaths = 1
    MaxLapses = 1
    MaxMoves = 1
SPECIFICATION FairSpec
INVARIANTS TypedIsMarked NeverLost LeaseHasHolder
PROPERTIES MailReachesPane
CHECK_DEADLOCK FALSE
