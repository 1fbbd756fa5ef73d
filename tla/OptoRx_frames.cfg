CONSTANTS
  HwSlots = 4
  Pool = 3
  Losses = 2
SPECIFICATION Spec
INVARIANTS TypeOK NotStranded
PROPERTIES InOrder Received Transmits
CHECK_DEADLOCK FALSE
