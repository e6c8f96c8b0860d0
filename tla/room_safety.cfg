SPECIFICATION PartSpec
CONSTANTS
  Sessions = {s1, s2}
  Requests = {r1, r2}
  None = None
  Channels = {ch1, ch2, ch3}
  MaxAttempts = 2
  NoChannel = NoChannel
SYMMETRY Symmetry
INVARIANTS
  CommandsMeetTheirCanvas AckIsDurable RefusedIsNotCommitted
  ChannelsAccounted ConnectedIsCurrent RecoveryNotForgotten
PROPERTIES ViewNeverRegresses DisposedIsQuiet
CHECK_DEADLOCK FALSE
