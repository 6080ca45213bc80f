SPECIFICATION Spec
CONSTANTS
  Methods = {"ReadFile", "Glob", "Cached", "Run"}
  Cols = {1, 2}
  MaxInputs = 1
  MaxCalls = 2
INVARIANTS
  CountedReadsAreOwn
  
  ReplayReproduces
