SPECIFICATION ContendedSpec
CONSTANTS
  Takes = {t1, t2}
  Cameras = {c1}
  NoTake = NoTake
  NoCamera = NoCamera
  MaxActive = 3
SYMMETRY Symmetry
INVARIANTS
  TypeOK
  DecisionsStand
  DeadlocksAreKnown
PROPERTY TransactionsAreAtomic

