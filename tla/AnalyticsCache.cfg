SPECIFICATION FairCacheSpec
CONSTANTS
  a1 = a1  overview = overview  breakdown = breakdown  stats = stats  e1 = e1
  r1 = r1  r2 = r2
  App = {a1}
  Key = {overview, breakdown, stats}
  Reader = {r1, r2}
  Ender = {e1}
  AppOf <- MCAppOf
  Kind <- MCKind
  EnderApp <- MCEnderApp
  TTL <- MCTTL
  MaxDelay = 1
  MaxVersion = 1
  MaxFaults = 1
INVARIANTS
  InvalidationComplete
  StaleBounded
PROPERTY EventuallyFresh
