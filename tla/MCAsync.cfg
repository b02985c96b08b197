\* Two workers' worth of threads, restarts, retries, raising callbacks.
SPECIFICATION FairSpec
CONSTANTS
    e1 = e1
    e2 = e2
    e3 = e3
    w1 = w1
    w2 = w2
    w3 = w3
    Events <- TwoEvents
    Workers <- TwoWorkers
    NumWorkers = 1
    QueueCap = 2
    MaxAttempts = 2
    CallbacksRaise = TRUE
INVARIANTS
    TypeOK
    NoEventLost
    ZeroLossHonest
    GivenUpAfterEveryAttempt
    CleanDrainReports
    OrphansOnlyAfterUncleanStop
PROPERTIES
    ContractSpec
    EventuallyAccounted
    StopReturns
