SPECIFICATION Spec
CONSTANTS
  Attempts = {a1}
  Workers = {w1}
  Flights = {f1}
  Slots = 1
  Actors = {"admin"}
  MaxCoord = 1
  MaxWorkerEpoch = 1
  MaxSeq = 1
  MaxEpoch = 2
  MaxRev = 6
PROPERTIES
  EndedNeverClaimed
CHECK_DEADLOCK FALSE
