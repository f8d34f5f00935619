\* One request at a time, as in Server: three requests of any kind, one after the other.
SPECIFICATION SafeSpec
CONSTANTS
  Reqs = {r1, r2, r3}
  a = a
  b = b
  bad = bad
  Names = {a, b}
  BadNames = {bad}
  NoName = NoName
  Ops <- AllOps
  OldFiles <- SomeOld
  Faults = {"open", "mkdir"}
  MaxThreads = 1
\* All requests may have been answered.
CHECK_DEADLOCK FALSE
PROPERTIES
  ShelfSpec
