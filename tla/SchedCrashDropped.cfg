SPECIFICATION Spec
CONSTANTS
    MAX_TASKS = 4
    CAP_SLOTS = 3
    MAX_RESTARTS = 1
    CRASH_EP = crashEp
    CRASH_CAP = 0
    Endpoints = {mainEp, crashEp}
    mainEp = mainEp
    crashEp = crashEp
    dev = dev
    Nil = Nil
    KernelTasks = {3}
    Idle = 3
    Healer = 0
    Irqs = {}
    Delegable = {"Endpoint"}
    InitCaps <- HealCaps
    CrashBadge <- HealBadge
    Program <- HealProgram
PROPERTIES
    CrashesDrained
