CONSTANTS
  main = main
  w1 = w1
  w2 = w2
  idle = idle
  Thread = {main, w1, w2, idle}
  Idle = idle
  Main = main
  Prio <- MCPrio
  InitPrio <- MCFlat
  WaitList = {}
  Sleeper = {}
  Victim = {}
  Retuned = {}
  MaxLock = 1
  Exclusive = TRUE
SPECIFICATION Spec
PROPERTIES YieldedLast
