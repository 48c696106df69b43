\* Three frames, websocket messages of up to nine bytes.
CONSTANTS
  Data <- MCData
  MaxMessage = 9
SPECIFICATION Spec
CHECK_DEADLOCK FALSE
INVARIANTS FramesIntact
