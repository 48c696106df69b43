SPECIFICATION Spec
CONSTANTS
  h1 = h1
  h2 = h2
  d0 = d0
  d1 = d1
  t1 = t1
  Handlers <- MCHandlers
  Devices <- MCDevices
  Tokens <- MCTokens
  Admin = Admin
  None = None
  Legacy = None
  MaxErrors = 0
  MaxFaults = 0
  MaxRestarts = 0
PROPERTIES
  NewCodeAfterExpiry
