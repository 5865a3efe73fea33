SPECIFICATION FairSpec
CONSTANTS
    flaky = flaky
    nov = nov
    pageFault = pageFault
    illegal = illegal
    Nil = Nil
    Failed = Failed
    NoToken = NoToken
    Patients = {nov}
    Restartable = {}
    Cause <- CauseOf
    Tokens = {pageFault, illegal}
    Files <- ImageFiles
    MAX_RESTARTS = 1
    ESCALATE_AT = 3
    SEEN_MAX = 3
    KB_NUMBERS = 10
    MAX_ISSUES = 3
    DIRENTS_PER_BLOCK = 3
    SPARE_BLOCKS = 2
    KB_HEAD_BLOCKS = 2
    Devices = {"sound"}
    MaxBoots = 1
PROPERTIES
    NovelRecorded
CHECK_DEADLOCK FALSE
