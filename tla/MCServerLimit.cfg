\* Two clients one after the other, both well behaved, room for one at a time.
SPECIFICATION SafeSpec
CONSTANTS
  Conns = {c1, c2}
  Requests <- ShortRequests
  HeaderLen = 1
  MaxResponse = 1
  Workers = {w1}
  Tasks = {}
  MaxSize = 1
  NoTask = NoTask
  MaxConnections = 1
  Handlers = {}
  Iocp = iocp
  Acceptor = acceptor
  Stats = stats
  NoConn = NoConn
  Faults = {}
  Prompt = {c1, c2}
\* The process ends, and a server may have nothing to do.
CHECK_DEADLOCK FALSE
PROPERTIES
  RejectedOnlyWhenFull
