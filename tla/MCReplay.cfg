\* Two batched events in a window of two, one recorded at once, one kept off the
\* ledger, one worker as in run_stage.py, two attempts.
SPECIFICATION ReplayFairSpec
CONSTANTS
    b1 = b1
    b2 = b2
    i1 = i1
    o1 = o1
    w1 = w1
    Events = {b1, b2, i1, o1}
    OffChain = {o1}
    Immediate = {i1}
    BatchSize = 2
    Workers = {w1}
    NumWorkers = 1
    QueueCap = 4
    MaxAttempts = 2
    CallbacksRaise = FALSE
INVARIANTS
    ZeroLossMeansAnchored
    OneUserOfPipeline
PROPERTIES
    TrialEnds
