\* Files of up to five rows; three models in three runs; three flows and
\* classes; five flows to gate; three digests in batches of five.
SPECIFICATION Spec
CONSTANTS
    None = None
    Missing = Missing
    Outlier = Outlier
    NaN = NaN
    NotThere = NotThere
    Damaged = Damaged
    Failure = Failure
    NoGate = NoGate
    d1 = d1
    d2 = d2
    d3 = d3
    RawRows <- MCRawRows
    MaxRows = 5
    ChunkSizes = {2, 5}
    NarrowMin <- MCNarrowMin
    NarrowMax = 2
    Exact = 4
    RUN <- MCRun
    VOTING_MEMBERS = {"lightgbm", "xgboost"}
    labels <- MCLabels
    Alphabetical <- MCClasses
    OnNumbers = {"cascade", "xgboost"}
    MaxRuns = 3
    LABELS <- MCLabels
    ModelClasses <- MCClasses
    Vectors <- MCVectors
    MaxFlows = 3
    Grid <- MCGrid
    One = 2
    Rounds = 3
    ScoreUnit = 60
    Tolerance = 2
    MaxRows8 = 5
    MaxScore = 15
    RawScores <- MCRawScores
    Isotonic08 <- MCIsotonic08
    Uniform = {0, 4, 9, 15}
    MaxDistinct = 4
    Targets <- MCTargets
    Deployed = 67
    Fallback = 6
    Unit = 4
    MaxNumber = 8
    Taus = {3, 5, 6}
    Values <- MCValues
    FeatureStats <- MCStats
    Digests = {d1, d2, d3}
    MaxBatch = 5
INVARIANTS
    SplitsAreSound
    ComparisonIsOfOneFit
    ThresholdsOnlyImprove
    GateIsEfficient
    AdmittedAsProduced
    ProofsFitTheirBatch
CHECK_DEADLOCK FALSE
