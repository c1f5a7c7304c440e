CONSTANTS
  Base = 2
  Bodies <- MixedBodies
  ReadSize = 20
  MaxWritten = 2
SPECIFICATION FairSpec
CHECK_DEADLOCK FALSE
INVARIANTS TypeOK PanicsOnlyOnHuge
INVARIANT NothingLost
INVARIANT EndMeansAll
PROPERTY ImplementsLink
PROPERTY EverythingArrives
