SPECIFICATION Spec
CONSTANTS
  Checks = {c1}
  Subs = {whole, part}
  Whole = whole
  MaxFindings = 2
INVARIANTS
  CoverageMatchesVerdict
  SnapshotMirrorsCoverage
  UnknownNeverImproves
  
  
  PassMeansNoRegression
