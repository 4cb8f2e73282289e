CONSTANTS
  a = a
  b = b
  c = c
  Timer = {a, b, c}
  None = None
  Off = Off
  TickMax = 7
  Delay <- MCDelay
  Again <- MCAgain
SPECIFICATION Spec
INVARIANTS InOrder NoDangling
PROPERTIES PromiseKept CheckEnds
