CONSTANTS
  None = None
  Slots = {s1, s2, s3}
  Kinds = {"OPEN", "CLOSE", "VER", "PING", "RUN", "NOP", "BAD"}
  Ids = {r1}
  Frames = 1
  RxQue = 8
  TxQue = 8
SPECIFICATION Spec
INVARIANTS TypeOK NoLeak ServersKeepUp AnsweredOnce
PROPERTIES ImplementsPool AllAnswered
CHECK_DEADLOCK FALSE
