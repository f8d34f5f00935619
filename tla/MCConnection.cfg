\* One connection is enough (connections share nothing but the process); two
\* header units and up to three body units cut the stream in every way.
SPECIFICATION ConnSpec
CONSTANTS
  Conns = {c1}
  Requests <- AllRequests
  HeaderLen = 2
  MaxResponse = 3
  Faults = {"fin", "reset", "storage"}
\* The client may have nothing left to do and the thread nothing left to read.
CHECK_DEADLOCK FALSE
INVARIANTS
  ConnTypeOK
  HandledWhole
  ClosedMeansAnswered
PROPERTIES
  OneRequestPerConnection
  WholeRequestAnswered
  OneShotSpec
