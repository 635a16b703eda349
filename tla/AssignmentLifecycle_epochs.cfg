SPECIFICATION Spec
CONSTANTS
  Attempts = {a1}
  Workers = {w1}
  Flights = {f1}
  Slots = 1
  Actors = {}
  MaxCoord = 1
  MaxWorkerEpoch = 2
  MaxSeq = 2
  MaxEpoch = 2
  MaxRev = 5
PROPERTIES
  CustodyRefinement
CHECK_DEADLOCK FALSE
