----------------------------- MODULE Algorithms -----------------------------
(***************************************************************************)
(* Algorithms over lists: a subject is chosen, and its input, a list of     *)
(* elements that belong to it, grows by one of them a step.  What the       *)
(* calendar and the statistics promise is stated of every such list.        *)
(***************************************************************************)
EXTENDS Statistics, Partitions, Serialization

CONSTANTS
    Inputs,              \* subject -> [of, upto]: its elements, and how many of them
    Intervals, Origins,  \* of windows
    Retentions           \* of a cleanup, in days

ASSUME InputsAssumption ==
    /\ \A p \in Inputs.batches.of : IsDataPoint(p)
    /\ Inputs.windows.of \subseteq Int /\ Intervals \subseteq Nat \ {0} /\ Origins \subseteq Int
    /\ \A n \in Inputs.windows.of \cup Intervals \cup Origins : Rounded(n) = n
    /\ Calendar /\ Inputs.moments.of \subseteq Moments /\ Retentions \subseteq Nat
    /\ Lo \in Int /\ Width \in Nat \ {0} /\ NumBuckets \in Nat \ {0}
    /\ Inputs.values.of \subseteq Int /\ Percents \subseteq 1..100
    /\ Inputs.counters.of \subseteq Nat \X Int

VARIABLES subject, input

InputsInit == subject \in DOMAIN Inputs /\ input = <<>>

Grow ==
    /\ UNCHANGED subject
    /\ Len(input) < Inputs[subject].upto
    /\ \E x \in Inputs[subject].of : input' = Append(input, x)

InputsSpec == InputsInit /\ [][Grow]_<<subject, input>>

-----------------------------------------------------------------------------
(* Properties *)

\* TimeSeriesSerializer: values come back with their types, no change to a
\* document is read as another batch, and tag references lead to the tags.
BatchReadsBack == subject = "batches" => BatchRestored(input) /\ TagsRestored(input)

\* TimePartitioner: boundaries and path of a partition agree, a range is visited
\* but for its last partition, and what a cleanup of hours, days or months no longer
\* than its allowance drops is older than the retention.
PartitionsAgree ==
    (subject = "moments" /\ Len(input) = 2) =>
        \A retention_days \in Retentions : RangeAgrees(input[1], input[2], retention_days)

\* list_partitions_in_range, as its docstring has it: every partition that overlaps
\* the range is listed.  It is not.
PartitionsListed ==
    (subject = "moments" /\ Len(input) = 2 /\ input[1] =< input[2]) =>
        RangeListed(input[1], input[2])

\* WindowAggregator: windows partition the timestamps, as long as no step rounds.
WindowsTile ==
    subject = "windows" => \A interval \in Intervals, origin \in Origins : Tiled(input, interval, origin)

\* HistogramQuantile and exact_percentile: they agree to half a bucket and the gap
\* between the neighbours that the exact one interpolates between.
PercentilesAgree == subject = "values" => RanksAgree(input)

\* rate, total_increase and rate_over_window agree; an element is the time since
\* the last sample, and the value.
IncreaseAddsUp ==
    subject = "counters" =>
        GapsAddUp([i \in DOMAIN input |->
            [ts |-> SumOf([j \in 1..i |-> input[j][1]]), value |-> input[i][2]]])
=============================================================================
