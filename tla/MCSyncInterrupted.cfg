SPECIFICATION Spec
CONSTANTS
  Names = {c1, c2}
  Versions = {v1, v2}
  Archives = {a1, a2}
  Range = Range
  Empty = Empty
  Absent = Absent
  Missing = Missing
  Damaged = Damaged
  MaxPublications = 2
  MaxRuns = 4
  Faults = {"kill"}
SYMMETRY Symmetry
CHECK_DEADLOCK FALSE
INVARIANTS
  SyncedMeansInstalled
