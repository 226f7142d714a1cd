SPECIFICATION ApisSpec
CONSTANTS
  App = {"a"}
  Slot = {1, 2}
  Menus <- MCMenus
  MaxKeys = 5
  MaxFaults = 1
  Report <- MCReport
  FullAt = {0, 1, 2, 4, 8}
  SessionOf <- MCSessionOf
  PartOf <- MCPartOf
  ConfOf <- MCConfOf
  AppOf <- MCAppOf
  ConnStart <- MCConnStart
  Joined <- MCJoined
  Start <- MCStart
  Limit = 1
  Token = {"t"}
  User = {"u", "v"}
  Admin = {"u"}
  MaxViews = 3
  appKey = appKey  serverKey = serverKey
  m1 = m1  m2 = m2  nomsg = nomsg
  r1 = r1  r2 = r2  r3 = r3  r4 = r4  r5 = r5  r6 = r6  r7 = r7  r8 = r8  r9 = r9
  Key = {appKey, serverKey}
  Request = {r1, r2, r3, r4, r5, r6, r7, r8, r9}
  KeyOf <- MCKeyOf
  RateLimit = 2
  WindowSecs = 2
  PerSecond = 2
  MaxInstant = 6
  MaxRedisFaults = 1
  Message = {m1, m2}
  MsgOf <- MCMsgOf
  TextOf <- MCTextOf
  NoMsg = nomsg
  Stamp <- MCStamp
  Until <- MCUntil
  Flaw <- MCFlaw
  Skew = 1
  Traffic <- MCTraffic
INVARIANTS
  KeysAsTold
  WalkShowsAll
  DetailIsWhole
  TokensAsTold
  WithinLimit
  PassedOnce
  DuplicateWasHandedOn
PROPERTY DeniedWhenFull
