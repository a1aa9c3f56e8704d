\* Two messages to one owner: a late answer to the first meets the second.
CONSTANTS
    Jobs = {j1, j2}
    Threads = {t1}
    NoThread = NoThread
    NoJob = NoJob
    PolicyChoices = {"idle"}
    UserChoices = {}
    MaxAttempts = 2
    MaxRegistrations = 1
    MaxCrashes = 1
SPECIFICATION Spec
SYMMETRY Symmetry
INVARIANTS AtMostOnce DeliveredTruthful
PROPERTIES ImplementsContract
CHECK_DEADLOCK FALSE
