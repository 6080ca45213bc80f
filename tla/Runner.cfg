SPECIFICATION Spec
CONSTANTS
  N = 3
  MaxGaps = 1
INVARIANTS
  ExactlyOneResult
  TimeoutOnlyAfterDeadline
  NoGapLost
  GapBlamedOnOwner
PROPERTIES
  CallerEventuallyDone
  ImplementsStream
