CONSTANTS
  bg = bg
  isr = isr
  txq = txq
  N = 4
  Load = 4
  Bg = bg
  Contexts <- MCContexts
  Holders <- MCHolders
SPECIFICATION Spec
CHECK_DEADLOCK FALSE
INVARIANTS TypeOK Exclusive HeldIsInUse CountExact StallOnlyWhenFull
PROPERTIES Approaches Fetched ImplementsPool
