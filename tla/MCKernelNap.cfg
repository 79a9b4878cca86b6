SPECIFICATION Spec
CONSTANTS
  a = a
  b = b
  c = c
  idle = idle
  clock = clock
  device = device
  Thread <- Two
  Idle = idle
  NULL = NULL
  Object = object
  WaitQueue = {object}
  MinPri = 2
  Ticks = 2
  CountSize = 8
  InitPri <- EqualPri
  Calls <- NapCalls
  Interrupt = {clock, device}
  Clock = clock
  DsrCalls = {"counted_wake"}
  MaxSuspend = 1
  MaxWakeup = 1
  MaxHeld = 0
INVARIANT TimesliceLeft
