SPECIFICATION FairCacheSpec
CONSTANTS
  Callers = {c1, c2}
  Background = background
  Free = free
  Point <- MCPoint
  Batches <- Singles
  MaxFlushes = 0
PROPERTIES AddsReturn
CHECK_DEADLOCK FALSE
