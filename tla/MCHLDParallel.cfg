SPECIFICATION All
CONSTANTS
  IntBits = 6
  Inputs <- FewInputs
  Trees <- NoTrees
  ParTrees <- NoTrees
  Granularity = 3
  ObjBits = 4
  MaxN = 1
  Vals <- MCVals
  Simple = FALSE
  Values <- FewValues
  NewVals = {5}
  MaxUpdates = 1
  Rounds = 2
  RootKth <- MCRootKth
  RootDepth <- MCRootDepth
INVARIANT
  SameInParallel
