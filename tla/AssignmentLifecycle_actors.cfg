SPECIFICATION Spec
CONSTANTS
  Attempts = {a1}
  Workers = {w1}
  Flights = {f1}
  Slots = 1
  Actors = {"throttle", "waits", "admin"}
  MaxCoord = 1
  MaxWorkerEpoch = 1
  MaxSeq = 2
  MaxEpoch = 1
  MaxRev = 5
INVARIANTS
  ParkHasWaker
PROPERTIES
  NoLostUpdate
  EndedUnlessOffered
  StoppingNeedsProof
  ParkHeld
CHECK_DEADLOCK FALSE
