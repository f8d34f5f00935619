\* One upload of two files, and a disk that may be full.
SPECIFICATION SafeSpec
CONSTANTS
  Reqs = {r1}
  a = a
  b = b
  bad = bad
  Names = {a, b}
  BadNames = {bad}
  NoName = NoName
  Ops <- TwoFiles
  OldFiles <- LongOld
  Faults = {"full"}
  MaxThreads = 1
\* All requests may have been answered.
CHECK_DEADLOCK FALSE
PROPERTIES
  SavedMeansStored
