SPECIFICATION Spec
CONSTANTS
    rtc = rtc
    blk = blk
    needy = needy
    master = master
    Nil = Nil
    RADIX = 4
    RamBase = 20
    NumFrames = 40
    KernelRanges <- Kernel
    UserText <- Text
    Components = {rtc, blk, needy}
    Virtio = {blk}
    Stack <- StackOf
    Device <- DeviceOf
    Master = master
    Garbage <- Leftover
CHECK_DEADLOCK FALSE
INVARIANTS
    FreeExact
    Isolated
    Complete
    NoAssertionFails
PROPERTIES
    ImplementsAddressSpaces
