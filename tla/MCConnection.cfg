\* A client that reconnects by itself, and two websockets; either one request, whose answers
\* race the loss of the connection, or none and more faults.
CONSTANTS
  s1 = s1
  s2 = s2
  r1 = r1
  None = None
  Sockets <- MCSockets
  Requests <- MCRequests
  EnableAutoReconnect = TRUE
  Starts <- MCStarts
  MaxCalls = 2
SYMMETRY MCSymmetry
SPECIFICATION Spec
\* The client stops when nobody calls it any more and it gave up, or panicked.
CHECK_DEADLOCK FALSE
INVARIANTS TypeOK OneConnection SomeoneReconnects WaitsOnCurrent OneWriter
PROPERTY ImplementsAccount
