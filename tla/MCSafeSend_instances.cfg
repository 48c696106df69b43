SPECIFICATION Spec
CONSTANTS
  s1 = s1  s2 = s2  x1 = x1  x2 = x2  p1 = p1  p2 = p2
  Senders = {s1, s2}
  Sessions = {x1, x2}
  Procs = {p1, p2}
  SessionOf <- OwnSession
  ProcOf <- TwoProcesses
  NoOne = NoOne
  Unset = Unset
  RawValues = {5}
  Interval <- IntervalRange
  PerHour <- HourRange
  PerDay <- DayRange
  Hour = 3
  Day = 5
  LookupPause = 1
  MaxTime = 3
  MaxSends = 3
  MaxEdits = 0
  MaxCrashes = 1
INVARIANTS SpacedSends
CHECK_DEADLOCK FALSE
