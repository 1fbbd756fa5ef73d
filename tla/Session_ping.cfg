CONSTANTS
  Ping = 7
  Timeout = 28
  FwTimeout = 16
  MaxLag = 1
SPECIFICATION Spec
INVARIANTS TypeOK PatientHost PatientBoard
PROPERTIES GivesUp BoardNotices
