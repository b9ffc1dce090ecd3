SPECIFICATION Spec
CONSTANTS
    Self = self
    Trees <- MCTrees
    Sources <- MCSources
    Categories <- MCCategories
    Views <- MCViews
    Saved <- MCSaved
    SliceMax = 1
    Origin = 3
    MaxEdition = 1
    MaxAsked = 2
    Patient = FALSE
INVARIANTS Window
CHECK_DEADLOCK FALSE
