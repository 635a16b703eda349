SPECIFICATION Spec
CONSTANTS
  Attempts = {a1, a2}
  Workers = {w1}
  Flights = {f1}
  Slots = 1
  Actors = {"waits"}
  MaxCoord = 1
  MaxWorkerEpoch = 1
  MaxSeq = 1
  MaxEpoch = 1
  MaxRev = 5
PROPERTIES
  CapacityReacquired
SYMMETRY Symmetry
CHECK_DEADLOCK FALSE
