CONSTANTS
  Hosts <- MCHosts
  HiddenSets <- MCHidden
  Flags <- MCFlags
SPECIFICATION CISSpec
\* The command ends when it has shown its report.
CHECK_DEADLOCK FALSE
INVARIANTS
  EachControlOnce
  ViewNeverFlips
  FailuresShow
