SPECIFICATION Spec
CONSTANTS
  a = a
  b = b
  c = c
  idle = idle
  clock = clock
  device = device
  Thread <- Two
  Idle = idle
  NULL = NULL
  Object = object
  WaitQueue = {object}
  MinPri = 2
  Ticks = 1
  CountSize = 4
  InitPri <- EqualPri
  Calls <- ObjectCalls
  Interrupt = {clock, device}
  Clock = clock
  DsrCalls = {"counted_wake", "signal", "resume"}
  MaxSuspend = 1
  MaxWakeup = 1
  MaxHeld = 2
INVARIANTS WaitQueues HighestRuns LockPerThread LockPrecondition NoDsrWaits
