SPECIFICATION SourceSpec
CONSTANTS
    l1 = l1
    l2 = l2
    d1 = d1
    d2 = d2
    w1 = w1
    c1 = c1
    self = self
    asset = asset
    page1 = page1
    page2 = page2
    image = image
    style = style
    Request = {l1, l2, d1, d2, w1, c1}
    Kind <- MCKind
    Key <- MCKey
    Swap = {w1}
    Clear = c1
    Brief = {c1}
    Repeated = {l1, l2, w1, c1}
    MaxVersion = 2
    MaxKills = 0
    MaxSaves = 1
    Polite = TRUE
    Load = {l1, l2}
    Draw = {d1, d2}
    External = {image, style}
    Refers <- MCRefers
    Broken = {}
    MaxActs = 2
    Patient = FALSE
INVARIANTS
    OpensItsFile
    HeldForAReason
    ActualIsShown
PROPERTIES
    DrawStable
    NewFileShown
