SPECIFICATION Spec
CONSTANTS
  a = a  b = b
  Peers = {a, b}
  Slots = {1, 2}
  Modes <- AllModes
  Wanted = 1
  Initial = 2
  Least = 1
  RetryLimit = 3
  MaxKeys = 3
  MaxSent = 3
  Starts <- Scenarios
CHECK_DEADLOCK FALSE
INVARIANT AckedAfterHandlers
