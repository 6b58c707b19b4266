SPECIFICATION Spec
CONSTANTS
  w1 = w1
  w2 = w2
  Threads <- MCThreads
  list_length = 2
  max_blocks = 6
  MaxPoolSize = 500
  LargeThreshold = 256
  ListLength = 2
  CounterBits = 12
  Requests <- MCRequests
  Mallocs <- MCMallocs
  Places <- MCPlaces
  Slots <- MCSlots
  MaxCalls = 3
SYMMETRY Symmetry
VIEW Read
INVARIANTS
  BlocksAccounted
  CountsUsed
  HeldFit
CHECK_DEADLOCK FALSE
