CONSTANTS
  Pkts = 3
  Span = 2
  Backlog = 2
SPECIFICATION Spec
INVARIANT SinglePacket
