SPECIFICATION FairSpec
CONSTANTS
  Writers = {t1, t2}
  Replayer = replayer
  Free = free
  Torn = Torn
  Bad = Bad
  Point <- MCPoint
  Partition <- MCPartition
  NoPart <- MCNoPart
  PartitionOf <- MCPartitionOf
  Kind <- MCKind
  Batches <- Endings
  Modes = {"plain", "skip"}
  EnableWal = TRUE
  SegmentMax = 1
  MaxRetries = 0
  MaxCalls = 2
  MaxFaults = 1
  MaxReplays = 0
PROPERTIES CallsReturn
CHECK_DEADLOCK FALSE
