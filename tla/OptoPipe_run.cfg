CONSTANTS
  Pkts = 3
  Span = 2
  Backlog = 1
SPECIFICATION Spec
INVARIANTS TypeOK SinglePacket
PROPERTIES InOrder DoneWhenOut Completes
