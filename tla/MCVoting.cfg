\* Three models, two of them in the vote, two runs.
SPECIFICATION CompareSpec
CONSTANTS
    NotThere = NotThere
    Damaged = Damaged
    Failure = Failure
    RUN <- MCRun
    VOTING_MEMBERS = {"lightgbm", "xgboost"}
    labels <- MCLabels
    Alphabetical <- MCAlphabetical
    OnNumbers = {"cascade", "xgboost"}
    MaxRuns = 2
INVARIANTS
    VotingAveragesByClass
CHECK_DEADLOCK FALSE
