CONSTANTS
  Que = 8
  HwSlots = 4
  Window = 7
  Pipe = TRUE
  Overlap = FALSE
SPECIFICATION Spec
INVARIANTS TypeOK OwesQueued OneInFlight WakeupPending
PROPERTY ImplementsFifo
