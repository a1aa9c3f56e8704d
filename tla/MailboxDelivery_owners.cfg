\* One message, two threads that claim the address in turn.
CONSTANTS
    Jobs = {j1}
    Threads = {t1, t2}
    NoThread = NoThread
    NoJob = NoJob
    PolicyChoices = {"idle", "immediate"}
    UserChoices = {"active", "closed"}
    MaxAttempts = 3
    MaxRegistrations = 2
    MaxCrashes = 1
SPECIFICATION Spec
SYMMETRY Symmetry
INVARIANTS TypeOK RightRecipient RetryableNotAccepted InboxBelongsToOwner
PROPERTIES HandledNeverSent
CHECK_DEADLOCK FALSE
