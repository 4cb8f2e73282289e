CONSTANTS
  high = high
  mid = mid
  low = low
  idle = idle
  Thread = {high, mid, low, idle}
  Idle = idle
  Main = high
  Prio <- MCPrio
  InitPrio <- MCInitPrio
  WaitList = {a, b}
  Mutexes = {a, b}
  None = None
  NoPrio = 255
  Ceiling = {}
  Victim = {}
  MaxHold = 1
SPECIFICATION Spec
INVARIANTS BoostReturned
