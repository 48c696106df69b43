SPECIFICATION Spec
CONSTANTS
  h1 = h1  h2 = h2  c1 = c1  c2 = c2
  Handlers = {h1, h2}
  Loop = Loop
  Accounts = {1}
  Contents = {c1}
  Files <- RepeatedRecord
  Timeout = 0
  BatchSize = 1
  SendLimit = 1
  MaxRows = 2
  MaxActions = 3
  MaxFaults = 1
  MaxCrashes = 0
  MaxLogouts = 1
INVARIANTS TypeOK DeliveredOnce SentWasDelivered RefusedOnlyByRebuild
PROPERTIES OnlyClaimedGoOut
SYMMETRY HandlerSymmetry
CHECK_DEADLOCK FALSE
