SPECIFICATION Spec
CONSTANTS
  Flows = {f1, f2, f3}
  Ports = {p1, p2, p3}
  NoFlow = NoFlow
  NoPort = NoPort
INVARIANTS
  TypeOK
  TimeoutsAreExact
  AttributionIsExclusive
