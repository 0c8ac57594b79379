SPECIFICATION FairSpec
CONSTANTS
  Desks <- Everything
  MaxMoves = 1
  MaxFails = 1
INVARIANT ButtonsWork
INVARIANT NeverStranded
PROPERTY PagesAreTrue
PROPERTY FormsHold
CHECK_DEADLOCK FALSE
