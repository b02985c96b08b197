\* Three batched events and a window of three, one event recorded at once and one
\* kept off the ledger; five submits, two failures, any number of restarts.
SPECIFICATION FairSpec
CONSTANTS
    b1 = b1
    b2 = b2
    b3 = b3
    i1 = i1
    o1 = o1
    Events = {b1, b2, b3, i1, o1}
    OffChain = {o1}
    Immediate = {i1}
    BatchSize = 3
    MaxSubmits = 5
    MaxFailures = 2
INVARIANTS
    ReturnedIsKept
    EvidenceForEveryRecord
    RootsMatchRecords
    CloseAnchorsAll
PROPERTY
    EventuallyAnchored
