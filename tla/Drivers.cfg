SPECIFICATION FairSpec
CONSTANTS
    Devs = {"blk", "rng"}
    Machines = {{"blk"}, {"rng"}}
    IDX_MOD = 4
    Clients = {0, 1}
    Blocks = {0}
    BadBlock = 9
    Contents = {x, y}
    IoErrors = TRUE
    Words = {u, v}
    Nil = Nil
INVARIANTS
    CompletionSeen
    NoDrawRepeats
PROPERTIES
    ChainStable
    ImplementsBlockStore
    RequestAnswered
    PoolSeeded
CHECK_DEADLOCK FALSE
