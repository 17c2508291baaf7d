\* A hook whose component passes new options in each render, other callers,
\* configuration and resets at any time.
SPECIFICATION FairSpec
CONSTANTS
  Hooks = {h1}
  Restless = {h1}
  Options <- OwnOptions
  Configs <- Custom
  DefaultConfig <- Defaults
  MaxRetries = 1
  None = None
  MaxLoads = 3
  MaxGenerations = 1
INVARIANTS TypeOK LoadsAreShared
PROPERTIES ModuleStays LoadingEnds
