SPECIFICATION FairSpec
CONSTANTS
    flaky = flaky
    nov = nov
    pageFault = pageFault
    illegal = illegal
    Nil = Nil
    Failed = Failed
    NoToken = NoToken
    Patients = {flaky, nov}
    Restartable = {flaky}
    Cause <- CauseOf
    Tokens = {pageFault, illegal}
    Files <- ImageFiles
    MAX_RESTARTS = 1
    ESCALATE_AT = 2
    SEEN_MAX = 2
    KB_NUMBERS = 10
    MAX_ISSUES = 2
    DIRENTS_PER_BLOCK = 2
    SPARE_BLOCKS = 1
    KB_HEAD_BLOCKS = 2
    Devices = {"absent", "failing"}
    MaxBoots = 1
INVARIANTS
    CacheCoherent
PROPERTIES
    PatientsReleased
    CountsReachDisk
CHECK_DEADLOCK FALSE
