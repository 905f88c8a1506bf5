SPECIFICATION Spec
CONSTANTS
  Discs <- MCDiscs
  Setups <- MCSetups
  Stored <- MCStored
  MaxSize = 2
  Reuse = FALSE
INVARIANTS
  TypeOK
  ValidityIsCurrent
PROPERTIES
  SettingsSurvive
  ReadyIsRecordable
  MergeKeeps
CHECK_DEADLOCK FALSE
