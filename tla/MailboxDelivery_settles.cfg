\* Every message comes to an end under fair scheduling.
CONSTANTS
    Jobs = {j1}
    Threads = {t1}
    NoThread = NoThread
    NoJob = NoJob
    PolicyChoices = {"idle", "immediate"}
    UserChoices = {"active", "closed"}
    MaxAttempts = 3
    MaxRegistrations = 1
    MaxCrashes = 1
SPECIFICATION FairSpec
PROPERTIES MailSettles
CHECK_DEADLOCK FALSE
