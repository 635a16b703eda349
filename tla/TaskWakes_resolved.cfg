SPECIFICATION FairSpec
CONSTANTS
  a1 = a1
  a2 = a2
  w1 = w1
  w2 = w2
  r1 = r1
  r2 = r2
  NoWait = NoWait
  Attempts = {a1}
  Waits = {w1, w2}
  Of <- OneOf
  Runners = {r1}
  Actors = {"moves", "ends", "archive"}
  MaxRev = 4
PROPERTY EveryWakeResolved
CHECK_DEADLOCK FALSE
