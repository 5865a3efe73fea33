SPECIFICATION FairSystemSpec
CONSTANTS
    Nil = Nil
    None = None
    Mangled = Mangled
    IS_MEM_LEN = 3
    VIRTIO_SLOTS = 3
    TASK_SLOTS = 27
    CAP_SLOTS = 4
    MAX_RESTARTS = 1
    CRASH_CAP = 0
    CRASH_EP = CRASH_EP
    EP0 = EP0
    ENTROPY_EP = ENTROPY_EP
    DEFER_EP = DEFER_EP
    BLK_EP = BLK_EP
    GATE_EP = GATE_EP
    GRANT_EP = GRANT_EP
    LEASE_EP = LEASE_EP
    CHAN_EP = CHAN_EP
    NET_EP = NET_EP
    Endpoints = {CRASH_EP, EP0, ENTROPY_EP, DEFER_EP, BLK_EP, GATE_EP, GRANT_EP, LEASE_EP, CHAN_EP, NET_EP}
    Delegable = {"Endpoint"}
    Boards <- MCBoards
    Reference <- MCReference
    ReferenceIds <- MCReferenceIds
    Groups <- MCGroups
    Ranks = {{0, 3, 5, 16, 9}, {1, 4, 6, 17, 10}, {2, 7, 18, 11}, {8, 12}, {19}}
    Name <- MCName
    MAX_TASKS = 26
    InitCaps <- MCInitCaps
    CrashBadge <- MCCrashBadge
    KernelTasks = {13, 19, 21, 23, 24, 25}
    Healer = 9
    Idle = 25
    Irqs = {4, 5, 6}
    Program <- MCProgram
INVARIANTS
    ParseFaithful
    DriverOwnsDevice
    TablesSound
    ExitCodes
PROPERTIES
    ComponentsEnd
