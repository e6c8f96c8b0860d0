SPECIFICATION PartSpec
CONSTANTS
  Packets = {p1}
  Drafts = {blank, addressed}
  Addressed = {addressed}
  Unaddressed = blank
  Requests = {r1}
  Executors = {server}
  Modes = {"resend"}
  Quota = 1
  MaxEvents = 3
  FickleProvider = FALSE
  session = session
  commands = {c1, c2}
  None = None
  Channels = {ch1, ch2}
  MaxAttempts = 2
  NoChannel = NoChannel
INVARIANT NewestEventShows
PROPERTIES
   DeliveryIsShown RevisionAppliedOrReported CommandSettles
  RecoveryEnds DisposalEnds
CHECK_DEADLOCK FALSE
