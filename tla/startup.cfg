SPECIFICATION Spec
CONSTANTS
  Takes = {t1}
  Cameras = {c1, c2}
  NoTake = NoTake
  MaxEvents = 1
INVARIANT StartupSucceeds
