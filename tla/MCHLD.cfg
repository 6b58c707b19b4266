SPECIFICATION All
CONSTANTS
  IntBits = 27
  Inputs <- MCInputs
  Trees <- MCTrees
  ParTrees <- MCParTrees
  Granularity = 3
  ObjBits = 4
  MaxN = 5
  Vals <- MCVals
  Simple = TRUE
  Values <- MCValues
  NewVals = {1}
  MaxUpdates = 1
  Rounds = 2
  RootKth <- MCRootKth
  RootDepth <- MCRootDepth
INVARIANTS
  LcaIsLowest
  ChainsIntact
  PathSums
  ParallelPassesRight
  TreeRebuilt
PROPERTY
  RoundsAgree
  ImplementsArray
