SPECIFICATION Spec
CONSTANTS
  Sessions = {s1, s2}
  c1 = c1
  Cameras = {c1, c2}
  NoCamera = NoCamera
  SessionOf <- MCSessionOf
  Tokens = {k1}
  NoToken = NoToken
  Subscribers = {u1}
  Lifetime = 1
  Capacity = 2
  MaxFrames = 2
  MaxBytes = 3
  Size <- MCSize
  MaxTime = 1
  MaxPackets <- MCMaxPackets
INVARIANTS
  TypeOK
  PublicationLives
  StreamIsWhole
  AccessIsGranted
PROPERTIES
  AccessEnds
  ShutdownReturns
