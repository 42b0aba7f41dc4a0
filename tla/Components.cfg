\* Each component alone: index reads, index files, write cache, a file, metadata, series.
SPECIFICATION Spec
CONSTANTS
    l1 = l1
    l2 = l2
    a = a
    b = b
    Location <- MCLocation
    Tag <- MCTag
    Time <- MCTime
    MaxBlocks = 4
    Sample <- MCSample
    NegInf <- MCNegInf
    Inf = 9
    Bit = {1, 2, 3}
    Hash <- MCHash
    NoFilter = NoFilter
    MaxPoints = 2
    MaxSteps = 6
    Torn = Torn
    Bad = Bad
    Unreadable = Unreadable
    Down = Down
    MaxUpdates = 3
    MaxFaults = 2
    MaxSaves = 2
    Callers = {c1, c2}
    Background = background
    Free = free
    Point <- MCPoint
    Batches <- MCBatches
    MaxFlushes = 3
    Writers = {w1}
    Line = {d1, d2, d3, d4}
    Unserialisable = {d3}
    Inode = {n1, n2, n3}
    NoFile = NoFile
    Cut = Cut
    MaxFileFaults = 2
    Path = {q1, q2}
    Key = {"a", "b"}
    Value = {"x", "y"}
    Stamp = {1, 2, 3}
    Records <- MCRecords
    NoMetadata = NoMetadata
    Garbage = Garbage
    MaxRecords = 3
    Comma = 2
    Equals = 3
    Backslash = 4
    Series <- MCSeries
    MaxSeries = 2
INVARIANTS
    SearchComplete
    ReadsComplete
    RangesInOrder
    SkipsNothingIndexed
    NothingToLose
    WrittenOnce
    FileIntact
    NothingSkipped
    SeriesIdentified
PROPERTIES
    ImplementsDurable
CHECK_DEADLOCK FALSE
