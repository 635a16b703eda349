SPECIFICATION Spec
CONSTANTS
  Attempts = {a1}
  Workers = {w1}
  Flights = {f1}
  Slots = 1
  Actors = {"throttle"}
  MaxCoord = 1
  MaxWorkerEpoch = 1
  MaxSeq = 2
  MaxEpoch = 1
  MaxRev = 7
PROPERTIES
  RecoveredStaysUnassigned
CHECK_DEADLOCK FALSE
