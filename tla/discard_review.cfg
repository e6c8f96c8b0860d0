SPECIFICATION ReviewSpec
CONSTANTS
  Ids = {i1}
  None = None
  MaxX = 0
  Widths = {2}
  Lines = {l1, l2}
  NoteLimit = 2
  MaxRevision = 5
INVARIANT ChangedTargetRefused
CHECK_DEADLOCK FALSE
