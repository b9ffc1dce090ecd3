SPECIFICATION FairSpec
CONSTANTS
    Self = self
    Trees <- MCTrees
    Sources <- MCSources
    Categories <- MCCategories
    Views <- MCViews
    Saved <- MCSaved
    SliceMax = 1
    Origin = 3
    MaxEdition = 2
    MaxAsked = 1
    Patient = TRUE
INVARIANTS Window
PROPERTIES SlicesExact Settles
CHECK_DEADLOCK FALSE
