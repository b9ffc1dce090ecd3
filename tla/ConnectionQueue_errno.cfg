SPECIFICATION Spec
CONSTANTS
    Worker = {w1, w2}
    Main = main
    MaxTasks = 3
    MaxFirst = 2
    Spare = 1
    Interrupts = TRUE
INVARIANTS WokenForTasks
CHECK_DEADLOCK FALSE
