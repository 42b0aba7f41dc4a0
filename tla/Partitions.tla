----------------------------- MODULE Partitions -----------------------------
(***************************************************************************)
(* TimePartitioner of src/tsdb/storage/partitioning.py, and the day files  *)
(* FileManager.read_data_points visits: calendar arithmetic on any         *)
(* calendar.  Time is counted in ticks from the start of the first month.  *)
(***************************************************************************)
EXTENDS Integers, Sequences

CONSTANTS
    Second, HourTicks,   \* ticks in a second and in an hour
    HoursPerDay,
    MonthStart,          \* where each month starts, and where the last one ends
    ApproxMonth          \* the 30 days of cleanup_old_partitions

Interval == {"hour", "day", "month"}

DayTicks == HourTicks * HoursPerDay
EndOfTime == MonthStart[Len(MonthStart)]
Moments == 0..(EndOfTime - 1)

\* Months are made of days, one after the other.
Calendar ==
    /\ HourTicks \in Nat \ {0} /\ HoursPerDay \in Nat \ {0}
    /\ Second \in 1..HourTicks /\ ApproxMonth \in Nat
    /\ MonthStart \in Seq(Nat) /\ Len(MonthStart) > 1 /\ MonthStart[1] = 0
    /\ \A m, n \in DOMAIN MonthStart : m < n => MonthStart[m] < MonthStart[n]
    /\ \A m \in DOMAIN MonthStart : MonthStart[m] % DayTicks = 0

\* The fields of a datetime.
Month(t) == CHOOSE m \in 1..(Len(MonthStart) - 1) : MonthStart[m] =< t /\ t < MonthStart[m + 1]
MonthDays(m) == (MonthStart[m + 1] - MonthStart[m]) \div DayTicks
Day(t) == (t - MonthStart[Month(t)]) \div DayTicks + 1
Hour(t) == (t % DayTicks) \div HourTicks
DateTime(m, d, h) == MonthStart[m] + (d - 1) * DayTicks + h * HourTicks

\* get_partition_path: the directories under the base.
PartitionPath(interval, t) ==
    CASE interval = "month" -> <<Month(t)>>
      [] interval = "day" -> <<Month(t), Day(t)>>
      [] interval = "hour" -> <<Month(t), Day(t), Hour(t)>>

\* Mutant of PartitionBoundaries: the end is the start of the next partition.
BoundariesClosed(interval, t) ==
    CASE interval = "hour" -> LET s == DateTime(Month(t), Day(t), Hour(t)) IN <<s, s + HourTicks>>
      [] interval = "day" -> LET s == DateTime(Month(t), Day(t), 0) IN <<s, s + DayTicks>>
      [] interval = "month" -> <<MonthStart[Month(t)], MonthStart[Month(t) + 1]>>

\* get_partition_boundaries: hours and days end a second before the next, months
\* at their last moment.
PartitionBoundaries(interval, t) ==
    CASE interval = "hour" ->
            LET s == DateTime(Month(t), Day(t), Hour(t)) IN <<s, s + HourTicks - Second>>
      [] interval = "day" ->
            LET s == DateTime(Month(t), Day(t), 0) IN <<s, s + DayTicks - Second>>
      [] interval = "month" -> <<MonthStart[Month(t)], MonthStart[Month(t) + 1] - 1>>

\* get_partition_info: the boundaries, read off the path.
InfoBoundaries(interval, path) ==
    CASE interval = "hour" ->
            LET s == DateTime(path[1], path[2], path[3]) IN <<s, s + HourTicks - Second>>
      [] interval = "day" ->
            LET s == DateTime(path[1], path[2], 0) IN <<s, s + DayTicks - Second>>
      [] interval = "month" -> <<DateTime(path[1], 1, 0), DateTime(path[1] + 1, 1, 0) - 1>>

\* Mutant of Visited: the next month is entered at the same day.
VisitedSameDay(interval, start, end) ==
    {t \in start..end :
        IF interval = "month" THEN t - MonthStart[Month(t)] = start - MonthStart[Month(start)]
        ELSE (t - start) % (IF interval = "day" THEN DayTicks ELSE HourTicks) = 0}

\* Where the loop from start to end looks: every hour, every day, or start and
\* then the same hour of the first of each month.
Visited(interval, start, end) ==
    CASE interval = "hour" -> {t \in start..end : (t - start) % HourTicks = 0}
      [] interval = "day" -> {t \in start..end : (t - start) % DayTicks = 0}
      [] interval = "month" ->
            {t \in start..end : t = start \/ t = MonthStart[Month(t)] + HourTicks * Hour(start)}

OnTheHour(t) == t - (t % HourTicks)

\* The partitions list_partitions_in_range looks for.
ListedInRange(interval, start, end) ==
    {PartitionPath(interval, t) : t \in Visited(interval, OnTheHour(start), OnTheHour(end))}

\* The day files read_data_points looks for.
DaysRead(start, end) == {PartitionPath("day", t) : t \in Visited("day", start, end)}

\* Mutant of Cutoff: the interval is not allowed for.
CutoffEarly(interval, now, retention_days) == now - retention_days * DayTicks

\* cleanup_old_partitions: a partition goes when its start is before this.
Cutoff(interval, now, retention_days) ==
    now - retention_days * DayTicks
        - (CASE interval = "hour" -> HourTicks
             [] interval = "day" -> DayTicks
             [] interval = "month" -> ApproxMonth * DayTicks)

PartitionStart(interval, t) == PartitionBoundaries(interval, t)[1]

-----------------------------------------------------------------------------
(* Properties of a range start =< end, of a moment end and of a retention  *)

\* A timestamp is inside the boundaries of its partition, except in the last
\* second of an hour or a day; boundaries never reach into another partition;
\* and those read off a path are those of the timestamps that have the path.
BoundariesOf(t) ==
    \A interval \in Interval :
        LET b == PartitionBoundaries(interval, t)
        IN /\ b[1] =< t
           /\ t =< b[2] \/ (interval # "month" /\ t < b[2] + Second)
           /\ \A end \in {b[1], b[2]} : PartitionPath(interval, end) = PartitionPath(interval, t)
           /\ InfoBoundaries(interval, PartitionPath(interval, t)) = b

Overlapping(interval, start, end) == {PartitionPath(interval, t) : t \in start..end}

\* A listing has no partition outside the range, every one but perhaps the last,
\* and the last too when the intervals are hours or when the range does not start
\* at a later hour of the day than it ends; so have the day files of a read.  That
\* the last may be missing otherwise is no promise: see RangeListed.
ListingOf(start, end) ==
    LET Missing(interval, listed) == Overlapping(interval, start, end) \ listed
    IN /\ \A interval \in Interval :
             LET listed == ListedInRange(interval, start, end)
             IN /\ listed \subseteq Overlapping(interval, start, end)
                /\ Missing(interval, listed) \subseteq {PartitionPath(interval, end)}
                /\ (interval = "hour" \/ Hour(start) =< Hour(end)) => Missing(interval, listed) = {}
       /\ Missing("day", DaysRead(start, end)) \subseteq {PartitionPath("day", end)}
       /\ (start % DayTicks) =< (end % DayTicks) => Missing("day", DaysRead(start, end)) = {}

\* partitioning.py: "Include all partitions that overlap with query range".
RangeListed(start, end) ==
    \A interval \in Interval :
        Overlapping(interval, start, end) \subseteq ListedInRange(interval, start, end)

\* Whatever goes in a cleanup of hours, of days or of months no longer than the
\* allowance is older than the retention.  Nothing is said of a longer month.
CleanupOf(now, retention_days) ==
    \A interval \in Interval, t \in 0..now :
        /\ interval = "month" => MonthDays(Month(t)) =< ApproxMonth
        /\ PartitionStart(interval, t) < Cutoff(interval, now, retention_days)
        => now - t > retention_days * DayTicks

\* Boundaries and path of a partition agree, a range is visited but for its last
\* partition, and a cleanup at its end keeps what is younger than the retention.
RangeAgrees(start, end, retention_days) ==
    /\ BoundariesOf(start) /\ BoundariesOf(end)
    /\ start =< end => ListingOf(start, end)
    /\ CleanupOf(end, retention_days)
=============================================================================
