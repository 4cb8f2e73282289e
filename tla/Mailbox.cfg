CONSTANTS
  r1 = r1
  r2 = r2
  s1 = s1
  s2 = s2
  s3 = s3
  idle = idle
  Thread = {r1, r2, s2, idle}
  Idle = idle
  Main = s2
  Prio <- MCPrio
  InitPrio <- MCInitPrio
  WaitList = {"receivers", "senders"}
  Value = {u, v}
  Nothing = Nothing
  Size = 2
  Flag = "FIFO"
  Sender = {s2}
  Receiver = {r1, r2}
  Resetter = {s2}
SPECIFICATION Spec
INVARIANTS NoLostWakeup
PROPERTIES QueueSpec
