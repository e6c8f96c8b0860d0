SPECIFICATION Spec
CONSTANTS
  Packets = {p1}
  Drafts = {blank, a}
  Addressed = {a}
  Unaddressed = blank
  Requests = {r1, r2}
  Executors = {e1, e2}
  Modes = {"preview", "resend"}
  Quota = 1
  MaxEvents = 1
  FickleProvider = FALSE
SYMMETRY Interchangeable
INVARIANT OneEmailPerApproval
INVARIANT RecordIsTrue
INVARIANT ReportsAreHonest
