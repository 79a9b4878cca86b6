SPECIFICATION FairSpec
CONSTANTS
  low = low
  middle = middle
  high = high
  idle = idle
  inheriting = inheriting
  ceiling = ceiling
  Thread <- Threads
  Idle = idle
  NULL = NULL
  Mutex = {inheriting, ceiling}
  WaitQueue = {inheriting, ceiling}
  MinPri = 3
  Ticks = 1
  CountSize = 4
  InitPri <- ThreadPri
  Ceiling <- Ceilings
  Settable <- Priorities
INVARIANTS BaseKept Boosted
PROPERTY NoInversion
