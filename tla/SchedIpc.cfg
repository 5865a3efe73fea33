SPECIFICATION Spec
CONSTANTS
    MAX_TASKS = 5
    CAP_SLOTS = 2
    MAX_RESTARTS = 1
    CRASH_EP = crashEp
    CRASH_CAP = 0
    Endpoints = {mainEp, crashEp}
    mainEp = mainEp
    crashEp = crashEp
    dev = dev
    Nil = Nil
    KernelTasks = {4}
    Idle = 4
    Healer = 0
    Irqs = {}
    Delegable = {"Endpoint"}
    InitCaps <- IpcCaps
    CrashBadge <- IpcBadge
    Program <- IpcProgram
INVARIANTS
    TypeOK
    OneRunning
    SuccessorExists
    ReplyCapNamesWaiter
    NoMissedRendezvous
