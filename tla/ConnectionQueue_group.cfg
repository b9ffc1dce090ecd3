SPECIFICATION Spec
CONSTANTS
    Worker = {w1, w2}
    Main = main
    MaxTasks = 3
    MaxFirst = 2
    Spare = 1
    Interrupts = FALSE
INVARIANTS GroupOutlives
CHECK_DEADLOCK FALSE
