SPECIFICATION BlockedSpec
CONSTANTS
  SizeMod = 256
  num_threads = 2
  Loops <- MCLoops
  Ranged <- MCRanged
INVARIANTS
  IInv
  EachOnce
  BlocksCover
PROPERTY
  Returns
