SPECIFICATION BoundedSpec
CONSTANTS
  Takes = {t1, t2}
  Cameras = {c1, c2}
  NoTake = NoTake
  MaxEvents = 2
SYMMETRY Symmetry
INVARIANTS
  TypeOK
  TakeRowsAgree
  EveryRowLoads
  CompletedIsStored
  RecordingPinsConnection
  RecoverySettles
  ProvisionedHasConnection
  OpenFileHasInput
  ConnectionFollowsInput
PROPERTIES
  FailureIsIsolated
  DeletionIsFinal
  LedgerSpec
