SPECIFICATION Spec
CONSTANTS
  Collectors <- MCCollectors
  HostsOf <- MCHostsOf
  LossesOf <- MCLossesOf
INVARIANTS
  FailureNeverClears
  FailureNeverAccuses
CHECK_DEADLOCK FALSE
