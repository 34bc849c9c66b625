\* main inserts and removes the other two tasks and itself.
CONSTANTS
  main = main
  t1 = t1
  t2 = t2
  Boot = Boot
  NoTask = NoTask
  Tasks <- MCTasks
  Main = main
  Managers = {main}
  MayRemove <- MainLeaves
  RegValues = 1
SPECIFICATION Spec
INVARIANT StrayOnlyLeaving
