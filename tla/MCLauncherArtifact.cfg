\* As MCLauncher.cfg, with nothing done by hand.
SPECIFICATION Spec
CONSTANTS
    d1 = d1
    d2 = d2
    Data = {d1, d2}
    Shipped = d1
    None = None
    Torn = Torn
    Edited = Edited
    Synthetic = Synthetic
    Commands <- MCCommands
    Alone = {10}
    MaxLaunches = 2
    MaxEdits = 0
INVARIANTS
    AnchoredDescribesTheDetector
CHECK_DEADLOCK FALSE
