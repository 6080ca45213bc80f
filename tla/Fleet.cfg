SPECIFICATION LiveSpec
CONSTANTS
  shared = shared
  single = single
  load = load
  NoOutput = NoOutput
  N = 3
  Machines = {shared, single}
  MachineOf <- MCMachineOf
  MayBeInvalid = {2, 3}
  Concurrency = 2
  Shapes = {load}
  Reports <- MCReports
  MaxOutages = 1
INVARIANTS
  TypeOK
  CompleteOnReturn
  NothingLeftUnreported
  CleanupErrorHasItsOwnCause
  SummaryIsTrue
PROPERTY
  EventuallyReturns
