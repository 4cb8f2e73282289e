CONSTANTS
  high = high
  work = work
  low = low
  idle = idle
  x = x
  y = y
  Thread = {high, work, low, idle}
  Idle = idle
  Main = high
  Prio <- MCPrio
  InitPrio <- MCInitPrio
  WaitList = {"sync", "done"}
  Worker = work
  Client = {high, low}
  Work = {x, y}
  None = None
  MaxCalls = 3
  Waiter = low
  Doer <- MCDoer
SPECIFICATION FairSpec
INVARIANTS NoLostWork OnOneList DelayedIsArmed NoMissedCompletion
PROPERTIES SleepKept 
