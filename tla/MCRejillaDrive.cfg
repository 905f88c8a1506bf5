SPECIFICATION FairSpec
CONSTANTS
  Discs = {d1}
  d1 = d1
  Threads = {t1, t2}
  t1 = t1
  t2 = t2
  MaxMoves = 4
  EarlyMoves = FALSE
INVARIANTS
  DeviceHasOneUser
  NothingIsForgotten
PROPERTY MainGoesOn
