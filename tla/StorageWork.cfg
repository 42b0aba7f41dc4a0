SPECIFICATION Spec
CONSTANTS
  Writers = {w1}
  Readers = {r1}
  Cleaners = {c1, c2}
  Free = Free
  Main = Main
  Torn = Torn
  Bad = Bad
  File <- CpuFile
  NoFile <- MCNoFile
  Measurement <- CpuMeasurement
  MeasOf <- CpuMeasOf
  FileKey <- CpuFileKey
  Point <- CpuPoint
  Ts <- CpuTs
  PartitionOf <- CpuPartitionOf
  Kind <- CpuKind
  Batches <- SpanningBatches
  Width = 2
  Retention = 3
  MaxLag = 1
  MaxNow = 4
  MaxCalls = 2
  MaxFaults = 1
INVARIANTS TypeOK AckedRetained SessionListed ReadComplete
ACTION_CONSTRAINT TwoJobs
SYMMETRY CleanerSymmetry
