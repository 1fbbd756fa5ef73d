CONSTANTS
  Cnt = 2
  Blks = 3
  Que = 3
  Packets = {3, 7}
  Runs = 2
  Wire = 1
SPECIFICATION Spec
INVARIANTS InOrder Complete
PROPERTY Ends
CHECK_DEADLOCK FALSE
