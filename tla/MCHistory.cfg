CONSTANTS
  Writer = {w1, w2}
  Folder = {f}
  Stream = {s}
  Pager = {p}
  PageLimit = 1
  TailEvents = 1
  OpenRebuilds = FALSE
  MaxLog = 4
  MaxFaults = 1
SPECIFICATION Spec
INVARIANTS ProjectionExact ReadersMissNothing
PROPERTIES RowNeverBack
SYMMETRY Symmetry
CHECK_DEADLOCK FALSE
