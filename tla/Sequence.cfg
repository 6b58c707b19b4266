SPECIFICATION Spec
CONSTANTS
  Names = {q1, q2}
  short_capacity = 2
  Values = {1, 2}
  MaxLen = 3
  Chunk = 1
SYMMETRY Symmetry
VIEW Stored
INVARIANT
  OwnsItsElements
PROPERTY
  ImplementsArray
CHECK_DEADLOCK FALSE
