SPECIFICATION Spec
CONSTANTS
  t1 = t1
  t2 = t2
  Thieves <- MCThieves
  Owner = owner
  QSize = 4
  TagMod = 8
  MaxPush = 4
SYMMETRY Symmetry
INVARIANTS
  TypeOK
  Conserved
  IInv
PROPERTY
  ImplementsQueue
CHECK_DEADLOCK FALSE
