\* Two panes and a thread under two labels, the daemon, channels, mail and pruning.
CONSTANTS
    MaxLabel = 2
    Panes = {p, q}
    Threads = {t}
    Nobody = Nobody
    Pruners = {w}
    MaxLate = 1
    MaxMail = 1
SPECIFICATION Spec
SYMMETRY Symmetry
INVARIANTS TypeOK OneLabelPerOwner ThreadMailStays
PROPERTIES ImplementsAddressContract LivePaneKeepsLabel
CHECK_DEADLOCK FALSE
