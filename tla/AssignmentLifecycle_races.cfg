SPECIFICATION Spec
CONSTANTS
  Attempts = {a1}
  Workers = {w1}
  Flights = {f1, f2}
  Slots = 1
  Actors = {}
  MaxCoord = 2
  MaxWorkerEpoch = 1
  MaxSeq = 2
  MaxEpoch = 2
  MaxRev = 5
INVARIANTS
  TypeOK
  CustodyAgreement
  PreparedBeforeDispatch
PROPERTIES
  DeposedCoordinatorWritesNothing
SYMMETRY Symmetry
CHECK_DEADLOCK FALSE
