SPECIFICATION CacheSpec
CONSTANTS
  Callers = {c1, c2}
  Background = background
  Free = free
  Point <- MCPoint
  Batches <- Singles
  MaxFlushes = 1
PROPERTIES ClearedIsWritten
CHECK_DEADLOCK FALSE
