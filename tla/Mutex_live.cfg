CONSTANTS
  high = high
  mid = mid
  low = low
  idle = idle
  Thread = {high, mid, low, idle}
  Idle = idle
  Main = high
  Prio <- MCPrio
  InitPrio <- MCInitPrio
  WaitList = {a}
  Mutexes = {a}
  None = None
  NoPrio = 255
  Ceiling = {1}
  Victim = {mid}
  MaxHold = 2
SPECIFICATION FairSpec
INVARIANTS InheritanceSound
PROPERTIES UrgentGetsMutex
