SPECIFICATION Spec
CONSTANTS
  Kinds = {"disc"}
  MaxImagers = 1
  MayNeedReload = {}
INVARIANT RecordIsAgreed
