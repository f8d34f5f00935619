\* Two clients that may reset their connections, room for both, every failure of start,
\* accept and storage; two Ctrl-C at any time, also while start still starts threads.
SPECIFICATION SafeSpec
CONSTANTS
  Conns = {c1, c2}
  Requests <- BareRequests
  HeaderLen = 1
  MaxResponse = 1
  Workers = {w1}
  Tasks = {}
  MaxSize = 1
  NoTask = NoTask
  MaxConnections = 2
  Handlers = {h1, h2}
  Iocp = iocp
  Acceptor = acceptor
  Stats = stats
  NoConn = NoConn
  Faults = {"reset", "storage", "start", "associate", "thread"}
  Prompt = {c1, c2}
\* The process ends, and a server may have nothing to do.
CHECK_DEADLOCK FALSE
SYMMETRY HandlersAlike
INVARIANTS
  TypeOK
  AtMostOneLate
  SerialService
  SocketsOwned
  StopMeansQuiet
  NobodyLeftInPop
PROPERTIES
  ReceptionSpec
