SPECIFICATION Spec
CONSTANTS
    p1 = p1
    p2 = p2
    c1 = c1
    c2 = c2
    c3 = c3
    Process = {p1}
    Conn = {c1}
    Home <- MCOneProcess
    Page <- MCPages
    MaxTx = 1
    CrashAt <- MCKillSteps
    WalFaults = {}
    Careful = FALSE
    FreshTransaction = TRUE
INVARIANTS NoFault
