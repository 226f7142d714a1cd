SPECIFICATION FairSpec
CONSTANTS
  c1 = c1  c2 = c2  s1 = s1  s2 = s2  s3 = s3
  p1 = p1  p2 = p2  p3 = p3  r1 = r1  r2 = r2
  Conf = {c1, c2}
  Session = {s1, s3}
  Report = {p1, p3}
  Request = {r1, r2}
  AppOf <- MCApp
  Name <- TwoNames
  ConfOf <- MCConfOf
  SessionOf <- MCSessionOf
  Caller <- MCCaller
  Target <- MCTarget
  BatchSize = 2
  EmosCap = 1
  MaxFaults = 1
INVARIANTS
  StaleSendSafe
  AcceptedStoredAtExit
PROPERTIES
  EndedAtStable
  StaleClosesIdle
  EndedIsScored
  ShutdownCompletes
