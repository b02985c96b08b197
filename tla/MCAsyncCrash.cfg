\* Callbacks that raise: the thread they end is joined like one that has finished.
SPECIFICATION FairSpec
CONSTANTS
    e1 = e1
    e2 = e2
    e3 = e3
    w1 = w1
    w2 = w2
    w3 = w3
    Events <- TwoEvents
    Workers <- TwoWorkers
    NumWorkers = 1
    QueueCap = 2
    MaxAttempts = 2
    CallbacksRaise = TRUE
INVARIANT
    CleanStopMeansNoCrash
