\* A queue with less room than the events in flight: the worker that requeues is
\* also the only one that could make room.
SPECIFICATION FairSpec
CONSTANTS
    e1 = e1
    e2 = e2
    e3 = e3
    w1 = w1
    w2 = w2
    w3 = w3
    Events <- ThreeEvents
    Workers <- OneWorker
    NumWorkers = 1
    QueueCap = 1
    MaxAttempts = 2
    CallbacksRaise = FALSE
PROPERTY
    EveryEventReported
CHECK_DEADLOCK FALSE
