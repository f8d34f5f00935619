\* One Ctrl-C and no worker thread (the third argument of the program is 0), so that
\* nothing blocks stop.
SPECIFICATION SafeSpec
CONSTANTS
  Conns = {c1}
  Requests <- ShortRequests
  HeaderLen = 1
  MaxResponse = 1
  Workers = {}
  Tasks = {}
  MaxSize = 1
  NoTask = NoTask
  MaxConnections = 1
  Handlers = {h1}
  Iocp = iocp
  Acceptor = acceptor
  Stats = stats
  NoConn = NoConn
  Faults = {}
  Prompt = {c1}
\* The process ends, and a server may have nothing to do.
CHECK_DEADLOCK FALSE
INVARIANTS
  CleanExit
