CONSTANTS
  Ping = TRUE
  Talk = TRUE
SPECIFICATION Spec
INVARIANTS TypeOK AdcStopped
PROPERTY HostGone
