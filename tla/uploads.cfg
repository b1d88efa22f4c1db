SPECIFICATION Spec
CONSTANTS
  r1 = r1
  r2 = r2
  Recordings = {r1, r2}
  Limit = 1
  MaxPackets = 1
  MaxMeddling = 1
INVARIANTS
  TypeOK
  StagedIsDurable
  CompletedIsWhole
  ConflictIsForeign
PROPERTIES
  UploadsSettle
CHECK_DEADLOCK FALSE
