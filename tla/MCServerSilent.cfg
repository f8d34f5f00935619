\* A client that connects and stays silent, and one that delivers its request.
SPECIFICATION Spec
CONSTANTS
  Conns = {c1, c2}
  Requests <- ShortRequests
  HeaderLen = 1
  MaxResponse = 1
  Workers = {w1}
  Tasks = {}
  MaxSize = 1
  NoTask = NoTask
  MaxConnections = 2
  Handlers = {}
  Iocp = iocp
  Acceptor = acceptor
  Stats = stats
  NoConn = NoConn
  Faults = {}
  Prompt = {c1}
\* The process ends, and a server may have nothing to do.
CHECK_DEADLOCK FALSE
PROPERTIES
  IndependentService
