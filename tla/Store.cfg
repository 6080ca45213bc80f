SPECIFICATION Spec
CONSTANTS
  a1 = a1
  a2 = a2
  b1 = b1
  a = a
  b = b
  Procs = {a1, a2, b1}
  Hosts = {a, b}
  HostOf <- MCHostOf
  NoProc = NoProc
  Unreadable = Unreadable
  MaxEntries = 2
  MaxRuns = 4
INVARIANTS
  AckedEntryKept
  WithinLimit
PROPERTIES
  OnlyOwnOldestRemoved
  ImplementsHistory
