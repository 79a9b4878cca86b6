SPECIFICATION ChainSpec
CONSTANTS
  i1 = i1
  i2 = i2
  i3 = i3
  v = v
  w = w
  Interrupt = {i1, i2, i3}
  NULL = NULL
  MaxPosts = 2
  Vector = {v, w}
  Index = {1}
  HAL_TRANSLATE_VECTOR <- MCIndex
  vector <- MCVector
  priority <- MCPriority
  HasDsr = {i1, i2, i3}
  MaxNest = 2
INVARIANTS TypeOK TailMatchesHead CalledWithPosts NoneMissed DisableHolds
PROPERTY ImplementsQueue
