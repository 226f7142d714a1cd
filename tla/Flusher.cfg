SPECIFICATION Spec
CONSTANTS
  Worker = {w1, w2}
  Payload = {1, 2, 3, 4}
  Field <- TwoTenants
  MaxBatch = 2
  MaxFaults = 1
  MaxCrashes = 1
SYMMETRY Symmetry
INVARIANTS
  AllOrNothing
  NoSilentLoss
  EwmaIsolated
