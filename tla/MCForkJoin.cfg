SPECIFICATION Spec
CONSTANTS
  w0 = w0
  w1 = w1
  w2 = w2
  Workers <- MCWorkers
  Main = w0
  Tasks <- MCTasks
  Root = 1
  Forks <- MCForks
  Left <- MCLeft
  Right <- MCRight
  Conservative <- MCConservative
INVARIANTS
  TypeOK
  OwnDequeInStep
  JobAlive
PROPERTIES
  RunsTree
  Terminates
