SPECIFICATION Spec
CONSTANTS
  a = a
  b = b
  c = c
  idle = idle
  clock = clock
  device = device
  Thread <- Two
  Idle = idle
  NULL = NULL
  Object = object
  WaitQueue = {object}
  MinPri = 2
  Ticks = 1
  CountSize = 4
  InitPri <- ApartPri
  Calls <- ThreadCalls
  Interrupt = {clock, device}
  Clock = clock
  DsrCalls = {"counted_wake", "suspend", "release"}
  MaxSuspend = 2
  MaxWakeup = 1
  MaxHeld = 0
INVARIANTS TypeOK RunQueues StatesAgree TimersInSleep NoDeadThreadRuns
PROPERTY KillSticks
