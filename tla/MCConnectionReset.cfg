\* A client aborts while its request is being read.
SPECIFICATION ConnSpec
CONSTANTS
  Conns = {c1}
  Requests <- GoodRequests
  HeaderLen = 2
  MaxResponse = 1
  Faults = {"reset"}
CHECK_DEADLOCK FALSE
INVARIANTS
  ReadErrorEndsOneConnection
