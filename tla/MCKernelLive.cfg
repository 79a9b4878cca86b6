SPECIFICATION FairSpec
CONSTANTS
  a = a
  b = b
  c = c
  idle = idle
  clock = clock
  device = device
  Thread <- Three
  Idle = idle
  NULL = NULL
  Object = object
  WaitQueue = {object}
  MinPri = 2
  Ticks = 2
  CountSize = 8
  InitPri <- LivePri
  Calls <- LiveCalls
  Interrupt = {clock, device}
  Clock = clock
  DsrCalls = {"signal"}
  MaxSuspend = 1
  MaxWakeup = 0
  MaxHeld = 0
PROPERTIES TakeTurns DsrServed KilledExits
