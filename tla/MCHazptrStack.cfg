SPECIFICATION Spec
CONSTANTS
  p1 = p1
  p2 = p2
  p3 = p3
  a = a
  b = b
  num_threads = 2
  Threshold = 1
  Cells <- MCCells
  Values <- MCValues
SYMMETRY Symmetry
INVARIANTS
  NoUseAfterFree
  Accounted
PROPERTY
  ImplementsStack
CHECK_DEADLOCK FALSE
