SPECIFICATION FairSpec
CONSTANTS
    serverA = serverA
    serverB = serverB
    Servers = {serverA, serverB}
    Unleased = Unleased
    Attempts = 16
    MaxLate = 1
    Lossy = TRUE
    Nil = Nil
INVARIANTS
    FrameStable
    NoSleepOnReply
    AdoptedIsLeased
    FactsEarned
PROPERTIES
    AnsweredOrLost
