SPECIFICATION Spec
CONSTANTS
  w1 = w1
  w2 = w2
  Threads <- MCThreads
  m = 7
  Keys = {1, 2, 3}
  Vals = {1, 2}
  Hashes <- MCHashes
  MaxInserts = 3
  MaxDeletes = 3
  MaxFinds = 1
INVARIANTS
  CanonicalLayout
  NoneLost
  FindsWhatIsThere
PROPERTY
  CallsReturn
CHECK_DEADLOCK FALSE
