SPECIFICATION Spec
CONSTANTS
  h1 = h1
  h2 = h2
  d0 = d0
  d1 = d1
  t1 = t1
  Handlers <- MCHandlers
  Devices <- MCDevices
  Tokens <- MCTokens
  Admin = Admin
  None = None
  Legacy = d0
  MaxErrors = 1
  MaxFaults = 1
  MaxRestarts = 1
SYMMETRY MCSymmetry
INVARIANTS
  TypeOK
  OneSession
  AutoMessageOnce
  RowMatchesActive
PROPERTIES
  LogoutForgets
