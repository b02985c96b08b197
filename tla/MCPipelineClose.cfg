\* A window that never fills: a second close() after one that failed half way.
SPECIFICATION FairSpec
CONSTANTS
    b1 = b1
    b2 = b2
    b3 = b3
    i1 = i1
    o1 = o1
    Events = {b1, b2, i1, o1}
    OffChain = {o1}
    Immediate = {i1}
    BatchSize = 3
    MaxSubmits = 5
    MaxFailures = 2
INVARIANT
    NothingLeftUnanchored
