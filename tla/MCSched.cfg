\* One manager, main, that inserts and removes the other two tasks.
CONSTANTS
  main = main
  t1 = t1
  t2 = t2
  Boot = Boot
  NoTask = NoTask
  Tasks <- MCTasks
  Main = main
  Managers = {main}
  MayRemove <- MainManages
  RegValues = 2
SPECIFICATION FairSpec
INVARIANTS
  TypeOK
  ListClosed
  NoTaskLost
  ContextIntegrity
PROPERTIES
  PreemptionTransparent
  NoStarvation
  RemovalReturns
  Multiplexes
