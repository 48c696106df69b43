\* No sender, no fault: only notifications, missing keys and their arrival.
SPECIFICATION Spec
CONSTANTS
  f1 = f1  f2 = f2  s1 = s1  i1 = i1  i2 = i2
  None = None
  Indexes = {i1, i2}
  Keys = {1, 2}
  FirstKeys = {1}
  Patches <- TwoKeys
  Own = {i1}
  Fetchers = {f1}
  Senders = {}
  MaxVersion = 2
  MaxMutations = 2
  MaxCalls = 0
INVARIANTS EventsDispatched
CHECK_DEADLOCK FALSE
