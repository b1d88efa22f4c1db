SPECIFICATION Spec
CONSTANTS
  c1 = c1
  c2 = c2
  c3 = c3
  c4 = c4
  s1 = s1
  s2 = s2
  Cameras = {c1, c2, c3, c4}
  NoCamera = NoCamera
  Sessions = {s1, s2}
  SessionOf <- MCSessionOf
  LastPort = 2
  RistPorts = {1, 2}
SYMMETRY MCSymmetry
INVARIANTS
  TypeOK
  RegistrationIsWhole
  SavedPortIsServed
