SPECIFICATION Spec
CONSTANTS
    p1 = p1
    p2 = p2
    c1 = c1
    c2 = c2
    c3 = c3
    Process = {p1, p2}
    Conn = {c1, c2, c3}
    Home <- MCTwoProcesses
    Page <- MCPages
    MaxTx = 2
    CrashAt <- MCKillSteps
    WalFaults = {"open", "size"}
    Careful = TRUE
    FreshTransaction = TRUE
SYMMETRY MCSymmetry
INVARIANTS TypeOK WriterAlone
PROPERTIES ImplementsAtomicStorage
