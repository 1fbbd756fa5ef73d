CONSTANTS
  Ping = TRUE
  Talk = TRUE
SPECIFICATION Spec
INVARIANT PipeStopped
