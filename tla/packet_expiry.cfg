SPECIFICATION Spec
CONSTANTS
  Packets = {p1}
  Drafts = {blank, a}
  Addressed = {a}
  Unaddressed = blank
  Requests = {r1}
  Executors = {e1}
  Modes = {"resend"}
  Quota = 1
  MaxEvents = 0
  FickleProvider = FALSE
SYMMETRY Interchangeable
INVARIANT RefusedIsOver
