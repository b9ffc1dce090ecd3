SPECIFICATION Spec
CONSTANTS
    Base = {a1, a2}
    Forwarder = {f}
    Listener = {l1, l2}
    Flag = {initial, updated}
    Initial = initial
    None = none
    MaxId = 3
INVARIANTS NobodyDeaf
CHECK_DEADLOCK FALSE
