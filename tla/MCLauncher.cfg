\* Two launches, two data sets; one thing done by hand: a file
\* changed, the data set replaced, or script 10 run alone.
SPECIFICATION Spec
CONSTANTS
    d1 = d1
    d2 = d2
    Data = {d1, d2}
    Shipped = d1
    None = None
    Torn = Torn
    Edited = Edited
    Synthetic = Synthetic
    Commands <- MCCommands
    Alone = {10}
    MaxLaunches = 2
    MaxEdits = 1
INVARIANTS
    CompletedExportIsCurrent
    AlertsComeFromTheirModel
    ReplayIsOfTheAudited
    CompletedMeansWhole
CHECK_DEADLOCK FALSE
