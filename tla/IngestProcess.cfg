SPECIFICATION ProcessSpec
CONSTANTS
  Payload = {p1, p2, p3}
  Worker = {w1, w2}
  Stopper = {s1, s2}
  BatchSize = 2
  ChannelCap = 2
  a = a  b = b  c = c
  App = {a, b, c}
  RetentionDays <- MCRetentionDays
  TicksPerDay = 2
  DaysPerMonth = 2
  RunTick = 1
  DeleteBatch = 1
  MaxTick = 9
  MaxErrors = 1
  MaxRestarts = 1
INVARIANTS
  NeverSendClosed
  ExactlyOnce
  InOrder
  ShutdownDrains
  EventsKept
  ShortestKept
PROPERTIES
  EventuallyFlushed
  ShutdownTerminates
  ImplementsContract
  OldEventsDeleted
  OldPartitionsDropped
  ShutdownReturns
