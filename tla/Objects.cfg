CONSTANTS
  t1 = t1
  t2 = t2
  idle = idle
  b1 = b1
  b2 = b2
  byteA = byteA
  byteB = byteB
  Thread = {t1, t2, idle}
  Idle = idle
  Main = t1
  Prio <- MCPrio
  InitPrio <- MCInitPrio
  WaitList = {"sem", "event", "pool", "pushers", "poppers", "rx_cpt", "tx_cpt"}
  ValueMax = 2
  SemFlag = "FIFO"
  Taker = {t1, t2}
  Releaser = {t2}
  SemReset = {t2}
  Bit = {b1, b2}
  EventFlag = "PRIO"
  Listener = {t1, t2}
  Asks <- MCAsks
  Notifier = {t2}
  EventReset = {t2}
  Block = {m1, m2}
  Allocator = {t1, t2}
  Item = {i1, i2}
  NoItem = NoItem
  ItemMax = 2
  LowMark = 1
  Pusher = {t1, t2}
  Popper = {t1, t2}
  QueueReset = {t2}
  Byte = {byteA, byteB}
  Blank = Blank
  BufSize = 2
  Shell = t1
  Reader = t1
  Queuer = {t1, t2}
  Writer = t2
  Text <- MCText
  Setups <- MCSetups
SPECIFICATION Spec
INVARIANTS NoIdleWait BlocksAccounted NoLostBlock   WaitsWhereItSays
PROPERTIES  BitsKept DataKept BytesKept
