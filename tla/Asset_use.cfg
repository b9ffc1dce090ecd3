SPECIFICATION FairSpec
CONSTANTS
    r1 = r1
    r2 = r2
    w1 = w1
    c1 = c1
    cache = cache
    self = self
    Request = {r1, r2, w1, c1}
    Kind <- MCKind
    Key <- MCKey
    Swap = {w1}
    Clear = c1
    Brief = {c1}
    Repeated = {w1, c1}
    MaxVersion = 3
    MaxKills = 1
    MaxSaves = 1
    Polite = TRUE
INVARIANTS
    TypeOK
    WriterExcludes
    NobodyForgotten
    SwapHasFile
    NeverClaimsMore
    FlagsAgree
PROPERTIES
    ReadStable
    SwapFinishes
