CONSTANTS
  r1 = r1
  s1 = s1
  s2 = s2
  idle = idle
  m1 = m1
  m2 = m2
  Thread = {r1, s1, s2, idle}
  Idle = idle
  Main = r1
  Prio <- MCPrio
  InitPrio <- MCInitPrio
  WaitList = {"receivers", "senders"}
  Value = {m1, m2}
  Cell = {c1, c2}
  Null = Null
  Flag = "PRIO"
  Sender = {s1, s2}
  Sends <- MCSends
  IsrSends = {m2}
  Receiver = {r1}
  Resetter = {r1}
SPECIFICATION Spec
INVARIANTS CellsAccounted NoLostWakeup
PROPERTIES QueueSpec
