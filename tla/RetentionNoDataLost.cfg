SPECIFICATION JobSpec
CONSTANTS
  a = a  b = b  c = c
  App = {a, b, c}
  RetentionDays <- MCRetentionDays
  TicksPerDay = 2
  DaysPerMonth = 2
  RunTick = 1
  DeleteBatch = 1
  MaxTick = 9
  MaxErrors = 1
  MaxRestarts = 1
CHECK_DEADLOCK FALSE
INVARIANT
  NoDataLost
