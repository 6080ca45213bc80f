SPECIFICATION Spec
CONSTANTS
  Collectors <- DrivesOnly
  HostsOf <- MCHostsOf
  LossesOf <- MCLossesOf
INVARIANT FailedAssessmentIsCritical
CHECK_DEADLOCK FALSE
