CONSTANTS
  Que = 8
  HwSlots = 4
  Window = 3
  Pipe = FALSE
  Overlap = TRUE
SPECIFICATION Spec
CHECK_DEADLOCK FALSE
PROPERTY Transmitted
