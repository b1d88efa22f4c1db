SPECIFICATION Spec
CONSTANTS
  t1 = t1
  Takes = {t1}
  NoTake = NoTake
  Camera = Camera
  Capacity = 2
  MaxEvents = 2
INVARIANTS
  NoSilentGap
CHECK_DEADLOCK FALSE
