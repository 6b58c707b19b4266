SPECIFICATION Spec
CONSTANTS
  Threads = {w0, w1, w2}
  Main = w0
  MaxJobs = 1
INVARIANTS
  SleepersCounted
PROPERTY
  Terminates
