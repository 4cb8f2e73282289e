CONSTANTS
  main = main
  w1 = w1
  w2 = w2
  idle = idle
  Thread = {main, w1, w2, idle}
  Idle = idle
  Main = main
  Prio <- MCPrio
  InitPrio <- MCTiered
  WaitList = {}
  Sleeper = {w2}
  Victim = {w1}
  Retuned = {w2}
  MaxLock = 1
  Exclusive = TRUE
SPECIFICATION Spec
INVARIANTS TypeOK  TimerMeansSuspended  ReclaimSafe
PROPERTIES PreemptedFirst
