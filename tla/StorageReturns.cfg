SPECIFICATION FairSpec
CONSTANTS
  Writers = {w1, w2}
  Readers = {}
  Cleaners = {}
  Free = Free
  Main = Main
  Torn = Torn
  Bad = Bad
  File <- MCFile
  NoFile <- MCNoFile
  Measurement <- MCMeasurement
  MeasOf <- MCMeasOf
  FileKey <- MCFileKey
  Point <- MCPoint
  Ts <- MCTs
  PartitionOf <- MCPartitionOf
  Kind <- MCKind
  Batches <- EndingBatches
  Width = 2
  Retention = 3
  MaxLag = 1
  MaxNow = 0
  MaxCalls = 3
  MaxFaults = 1
PROPERTIES WritesReturn
