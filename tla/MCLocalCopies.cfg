\* A checkout of two components; a flag that is changed through two instances,
\* or through one that reads another flag as well; a page whose user and whose
\* flags change during two requests; one whose theme changes during three.
\* Every step may fail.
SPECIFICATION CopiesSpec
CONSTANTS
  Names = {c1, c2}
  Versions = {v1, v2}
  Archives = {a1, a2}
  Range = Range
  Empty = Empty
  Absent = Absent
  Missing = Missing
  Damaged = Damaged
  MaxPublications = 3
  MaxRuns = 2
  Faults = {"kill", "remove", "lockFile"}
  Keys = {k1, k2}
  Instances = {i1, i2}
  OnlyInstance = i1
  OnlyFlag = k1
  user1 = user1
  session1 = session1
  tenant1 = tenant1
  Users <- OneUser
  Tenants <- OneTenant
  Sessions <- OneSession
  Anonymous = Anonymous
  None = None
  Bucket <- TwoBuckets
  Updates <- FewUpdates
  Stored <- HalfRolledOut
  TTL = 1
  Visitors = {u1, u2}
  Visitor = u1
  MaxChecks = 2
  Default = Default
  Themes = {t1, t2}
  Styled = {t1}
  MaxRequests = 3
SYMMETRY Symmetry
CHECK_DEADLOCK FALSE
INVARIANTS
  CopiesTypeOK
  LockedWasPublished
  InstalledIsLocked
  UpdateKeepsOthers
  SyncedMeansPresent
  UpdatesBuildOnStored
  FlagsAreOfThisPage
  ThemeIsTheLastHeard
PROPERTIES
  RolloutOnlyGrows
