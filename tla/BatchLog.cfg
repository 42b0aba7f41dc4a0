SPECIFICATION Spec
CONSTANTS
  Writers = {t1, t2}
  Replayer = replayer
  Free = free
  Torn = Torn
  Bad = Bad
  Point <- MCPoint
  Partition <- MCPartition
  NoPart <- MCNoPart
  PartitionOf <- MCPartitionOf
  Kind <- MCKind
  Batches <- Mixed
  Modes = {"plain", "atomic", "retry", "skip"}
  EnableWal = TRUE
  SegmentMax = 1
  MaxRetries = 1
  MaxCalls = 2
  MaxFaults = 1
  MaxReplays = 1
SYMMETRY WriterSymmetry
INVARIANTS TypeOK AckedStored LoggedFirst GroupTogether
CHECK_DEADLOCK FALSE
