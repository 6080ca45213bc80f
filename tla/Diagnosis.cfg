SPECIFICATION Spec
CONSTANTS
  Panels <- MCPanels
  Settings <- MCSettings
INVARIANTS
  DisclosesUnmeasured
  ContradictionsExcluded
  
CHECK_DEADLOCK FALSE
