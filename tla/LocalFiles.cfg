CONSTANTS
  Procs = {p1, p2, p3}
  MaxRelease = 2
  Lens = {1, 2}
SPECIFICATION Spec
INVARIANTS SavesAreAtomic RunsAreCounted
PROPERTIES UnreadableStateStays InstalledAsAnnounced
SYMMETRY Symmetry
