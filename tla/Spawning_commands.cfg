\* Two commands in any order and side by side, with panes that come and go.
CONSTANTS
    Panes = {u, p1, p2}
    NoPane = NoPane
    Labels = {h, l1, l2}
    Mail = Mail
    Calls = {c1, c2}
    User = u
    Home = h
    MailLabels = {l2}
SPECIFICATION Spec
SYMMETRY Symmetry
INVARIANTS TypeOK SpawnedKnown
PROPERTIES HandOpenedStay
CHECK_DEADLOCK FALSE
