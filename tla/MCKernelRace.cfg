SPECIFICATION Spec
CONSTANTS
  a = a
  b = b
  c = c
  idle = idle
  clock = clock
  device = device
  Thread <- Three
  Idle = idle
  NULL = NULL
  Object = object
  WaitQueue = {object}
  MinPri = 2
  Ticks = 1
  CountSize = 4
  InitPri <- RacePri
  Calls <- RaceCalls
  Interrupt = {clock, device}
  Clock = clock
  DsrCalls = {"counted_wake"}
  MaxSuspend = 1
  MaxWakeup = 1
  MaxHeld = 0
INVARIANT ReinitializesExited
