\* An upload of up to two parts, then a listing, a download and a removal in any order. A name has at most
\* five bytes, so that names at and beyond the limit occur.
SPECIFICATION Spec
CONSTANTS
  NameLimit = 5
  NonAscii <- SomeNonAscii
  Alike <- SomeAlike
  Devices <- SomeDevices
  Parts <- SomeParts
  MaxParts = 2
  Found <- SomeFound
  Paths <- SomePaths
  MaxRequests <- OneOfEach
  Troubles <- NoneOrAll
\* The client may have made all its requests.
CHECK_DEADLOCK FALSE
INVARIANTS
  HttpTypeOK
  WholePartsOnly
  CheckedNameIsReadName
PROPERTIES
  EveryRequestEnds
  LinksWork
  OnlyNamedFilesChange
  StatusTellsUpload
