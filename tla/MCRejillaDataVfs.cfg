SPECIFICATION Spec
CONSTANTS
  Disk <- MCDisk
  MaxNode = 20
  LongNames <- MCLong
  ShortName <- MCShort
  NewNames = {"y"}
  MaxOps = 3
  MaxSaves = 1
  Inputs = {}
INVARIANTS
  TypeOK
  BooksAgree
  ExportIsTheTree
  ReopenedAsSaved
PROPERTY
  LoadingEnds
