SPECIFICATION FairSpec
CONSTANTS
  Task = {t1, t2, t3}
  Worker = {w1, w2}
  Main = main
  NoTask = none
INVARIANTS
  NoDanglingDependent
  Containers
  JoinedWhenDone
PROPERTIES
  ImplementsTaskGraph
