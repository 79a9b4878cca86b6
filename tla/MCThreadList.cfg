SPECIFICATION Spec
CONSTANTS
  idle = idle
  Thread = {idle, a, b}
  Idle = idle
  Caller = {p, q}
  NULL = NULL
  IdSize = 3
INVARIANT RingExact
PROPERTIES EnumerationRight ShownAlive
SYMMETRY Symmetry
