SPECIFICATION FairSpec
CONSTANTS
  Sessions = {s1}
  Requests = {r1, r2}
  None = None
PROPERTY ConnectedConverges
CHECK_DEADLOCK FALSE
