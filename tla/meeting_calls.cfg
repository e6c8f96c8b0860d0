SPECIFICATION Spec
CONSTANTS
  Participants = {1, 2}
  None = None
  MaxPeers = 3
  Scenarios <- MCQuiet
CHECK_DEADLOCK FALSE
PROPERTIES CallsConnect
