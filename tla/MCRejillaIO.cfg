SPECIFICATION FairSpec
CONSTANTS
  j1 = j1
  j2 = j2
  b1 = b1
  b2 = b2
  shared = shared
  own = own
  Jobs = {j1, j2}
  Bases = {b1, b2}
  BaseOf <- MCBaseOf
  MethodsOf <- MCMethodsOf
  MaxThread = 2
  NumberOfResults = 1
  ResultsPerJob = 2
  Drops = "last"
  PutBack = "outside"
INVARIANTS
  TypeOK
  DeliveryIsOrderly
  NothingDangles
PROPERTIES
  UsesPool
  EveryRequestEnds
