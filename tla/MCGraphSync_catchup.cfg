SPECIFICATION Spec
CONSTANTS
  s = s
  g = g
  v1 = v1
  v2 = v2
  None = None
  Node = {s, g}
  Sink = {s}
  Control = {g}
  Value = {v1, v2}
  MaxPending = 5
  Patient = TRUE
SYMMETRY ValueSymmetry
INVARIANTS TypeOK  SourcesAreChilds HooksLinkedOnce UpdatesEndWithBlock
