SPECIFICATION Spec
CONSTANTS
    MAX_TASKS = 5
    CAP_SLOTS = 2
    MAX_RESTARTS = 1
    CRASH_EP = crashEp
    CRASH_CAP = 0
    Endpoints = {mainEp, crashEp}
    mainEp = mainEp
    crashEp = crashEp
    dev = dev
    Nil = Nil
    KernelTasks = {2,3,4}
    Idle = 4
    Healer = 0
    Irqs = {dev}
    Delegable = {"Endpoint"}
    InitCaps <- KernelCaps
    CrashBadge <- KernelBadge
    Program <- KernelProgram
PROPERTIES
    ReplyWakesCaller
