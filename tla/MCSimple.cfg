\* Three clients that may meet on a file, cut at every file system call; one of them
\* may stay silent.
SPECIFICATION SimpleSpec
CONSTANTS
  Reqs = {r1, r2, r3}
  r1 = r1
  r2 = r2
  r3 = r3
  a = a
  b = b
  Names = {a, b}
  BadNames = {}
  NoName = NoName
  Asks <- SomeAsks
  Ops <- SomeOps
  Beginnings <- Shorter
  OldFiles <- LongOld
  Faults = {"listen", "thread"}
  MaxThreads = 3
  Prompt = {r1, r2}
  Backlog = 2
\* All requests may have been answered.
CHECK_DEADLOCK FALSE
INVARIANTS
  FileTypeOK
  SimpleTypeOK
  WholeUnlessShared
  SavedStays
  LeftByTheEnd
  RemovedOnce
PROPERTIES
  EveryClientAnswered
