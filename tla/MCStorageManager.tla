-------------------------- MODULE MCStorageManager --------------------------
(***************************************************************************)
(* Finite instances of StorageManager.  A partition interval is two units  *)
(* of time, the retention three, so with MaxLag = 1 the assumption on the  *)
(* three is met with nothing to spare.  Points are numbers; the tables     *)
(* below give their timestamps and kinds.  Points 1 and 2 share a          *)
(* partition, 3 is in the next one, 4 belongs to another measurement.      *)
(***************************************************************************)
EXTENDS StorageManager, FiniteSets, TLC

MCFile == {<<"cpu", 0>>, <<"cpu", 1>>, <<"mem", 0>>}
MCMeasurement == {"cpu", "mem"}
MCMeasOf == [f \in MCFile |-> f[1]]
MCFileKey == [f \in MCFile |-> f[2]]
MCNoFile == <<>>

MCPoint == 1..7
MCTs == <<0, 1, 2, 0, 0, 1, 0>>
MCKind == <<"ok", "ok", "ok", "ok", "invalid", "range", "unserialisable">>
MCPartitionOf ==
    [p \in MCPoint |-> IF p = 4 THEN <<"mem", 0>> ELSE <<"cpu", MCTs[p] \div 2>>]

\* The part of it that one measurement needs.
CpuFile == {f \in MCFile : f[1] = "cpu"}
CpuPoint == 1..3
CpuTs == [p \in CpuPoint |-> MCTs[p]]
CpuKind == [p \in CpuPoint |-> MCKind[p]]
CpuPartitionOf == [p \in CpuPoint |-> MCPartitionOf[p]]
CpuMeasOf == [f \in CpuFile |-> "cpu"]
CpuFileKey == [f \in CpuFile |-> f[2]]
CpuMeasurement == {"cpu"}
CleanerSymmetry == Permutations(Cleaners)

\* A batch that spans two partitions, one that shares the older of them.
SpanningBatches == {<<1, 3>>, <<2>>}

\* One of each way a call can end: all stored, a point refused, a timestamp
\* that has no date, a value that has no JSON form after one that has.
EndingBatches == {<<1, 3>>, <<5, 2>>, <<1, 6>>, <<3, 2, 7>>}

\* What goes on beside the writer: two cleanups, or a reader and a cleanup.
Jobs == {t \in Readers : r[t].pc # "idle"} \cup {t \in Cleaners : c[t].pc # "idle"}
TwoJobs == Cardinality(Jobs') =< 2
=============================================================================
