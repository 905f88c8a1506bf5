SPECIFICATION FairSpec
CONSTANTS
  Kinds = {"file", "rip", "disc", "clone", "copy", "blank", "check"}
  MaxImagers = 1
  MayNeedReload = {"clone"}
INVARIANTS
  TasksRunLocked
  EraseIsAgreed
  RecordLeavesNothing
PROPERTY EveryRecordReturns
