SPECIFICATION Spec
CONSTANTS
  Takes = {t1}
  Cameras = {c1}
  NoTake = NoTake
  MaxEvents = 1
PROPERTY InputChangeKeepsBackendUp
