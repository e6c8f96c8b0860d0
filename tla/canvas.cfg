SPECIFICATION PartSpec
CONSTANTS
  Ids = {i1, i2, i3}
  None = None
  MaxX = 1
  Widths = {2}
  Lines = {l1}
  NoteLimit = 1
  RevisionLimit = 5
  ObjectLimit = 3
  ChangeLimit = 2
INVARIANTS PreviewIsSound CommittedLoads ReversalsAgree PlansAreCommitted
PROPERTIES PreviewPinnedStaysPut PreviewImplementsHistory ImplementsHistory
SYMMETRY Symmetry
CHECK_DEADLOCK FALSE
