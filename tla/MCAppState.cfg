\* A fetching goroutine, a sender and recoveries on a log of two patches.
SPECIFICATION Spec
CONSTANTS
  f1 = f1  f2 = f2  s1 = s1  i1 = i1  i2 = i2
  None = None
  Indexes = {i1, i2}
  Keys = {1, 2}
  FirstKeys = {1}
  Patches <- Odd
  Own = {i1}
  Fetchers = {f1}
  Senders = {s1}
  MaxVersion = 2
  MaxMutations = 2
  MaxCalls = 2
INVARIANTS TypeOK StoredPairIsServers MACsAgree UploadsVerify ToldUpToVersion CaughtUpWhenIdle
\* A client that caught up has nothing to do.
CHECK_DEADLOCK FALSE
