\* One Ctrl-C at any time, and a worker that may or may not reach pop before the flag is
\* cleared; room for one of two clients, the other one may stay silent or not read its
\* answer, and the completion port may refuse a socket.
SPECIFICATION Spec
CONSTANTS
  Conns = {c1, c2}
  Requests <- BareRequests
  HeaderLen = 1
  MaxResponse = 1
  Workers = {w1}
  Tasks = {}
  MaxSize = 1
  NoTask = NoTask
  MaxConnections = 1
  Handlers = {h1}
  Iocp = iocp
  Acceptor = acceptor
  Stats = stats
  NoConn = NoConn
  Faults = {"associate"}
  Prompt = {c1}
\* The process ends, and a server may have nothing to do.
CHECK_DEADLOCK FALSE
INVARIANTS
  AdmissionBound
PROPERTIES
  ReceptionSpec
  ShutdownEnds
  EveryClientServed
