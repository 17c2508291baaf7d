\* One hook, whose component passes the same options in each render.
SPECIFICATION Spec
CONSTANTS
  Hooks = {h1}
  Restless = {}
  Options <- NoOptions
  Configs <- Custom
  DefaultConfig <- Defaults
  MaxRetries = 1
  None = None
  MaxLoads = 2
  MaxGenerations = 1
INVARIANT ReadyIsRenderable
