SPECIFICATION FairSpec
CONSTANTS
  s1 = s1  s2 = s2  x1 = x1  x2 = x2  p1 = p1  p2 = p2
  Senders = {s1, s2}
  Sessions = {x1}
  Procs = {p1}
  SessionOf <- SharedSession
  ProcOf <- OneProcess
  NoOne = NoOne
  Unset = Unset
  RawValues = {5}
  Interval <- IntervalRange
  PerHour <- HourRange
  PerDay <- DayRange
  Hour = 2
  Day = 3
  LookupPause = 1
  MaxTime = 3
  MaxSends = 3
  MaxEdits = 1
  MaxCrashes = 1
INVARIANTS TypeOK MutualExclusion SpacedSends WindowLimits NoCallsWhilePaused
PROPERTIES HandlerReturns
CHECK_DEADLOCK FALSE
