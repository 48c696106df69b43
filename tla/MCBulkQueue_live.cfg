SPECIFICATION FairSpec
CONSTANTS
  h1 = h1  h2 = h2  c1 = c1  c2 = c2
  Handlers = {h1}
  Loop = Loop
  Accounts = {1, 2}
  Contents = {c1}
  Files <- OneRecord
  Timeout = 0
  BatchSize = 1
  SendLimit = 2
  MaxRows = 1
  MaxActions = 2
  MaxFaults = 1
  MaxCrashes = 1
  MaxLogouts = 1
PROPERTIES QueueDrains SendingEnds IndexReturns
CHECK_DEADLOCK FALSE
