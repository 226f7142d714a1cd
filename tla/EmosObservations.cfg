SPECIFICATION Spec
CONSTANTS
  c1 = c1  s1 = s1
  Session = {s1}
  Conn = {c1}
  SessionOf <- MCSessionOf
  Sample <- MCSample
  Ice <- MCIce
  Config <- MCConfig
  LossCoeff = 75
  MaxConns = 2
  PerSecond = 2
  MaxInstant = 2
  MaxJobs = 2
  MaxFaults = 1
PROPERTY ObservationsOnAll
