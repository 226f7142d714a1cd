SPECIFICATION Spec
CONSTANTS
  Worker = {w1, w2}
  Payload = {1, 2, 3}
  Field <- SharedName
  MaxBatch = 2
  MaxFaults = 0
  MaxCrashes = 0
INVARIANT
  OwnConference
