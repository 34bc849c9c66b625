\* Two tasks call scheduler functions, which share the boot stack.
CONSTANTS
  main = main
  t1 = t1
  t2 = t2
  Boot = Boot
  NoTask = NoTask
  Tasks <- MCTasks
  Main = main
  Managers = {main, t1}
  MayRemove = {}
  RegValues = 1
SPECIFICATION Spec
INVARIANT ReturnsToCaller
