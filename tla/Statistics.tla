----------------------------- MODULE Statistics -----------------------------
(***************************************************************************)
(* The arithmetic of src/tsdb/query on lists of values and of timestamps:  *)
(* aggregations.py, time_windows.py, percentiles.py, advanced_agg.py, and   *)
(* p95_latency of src/tsdb/server/monitoring.py.  A fraction is a record   *)
(* [num, den]; floats are exact but for those of windows, where they are    *)
(* whole numbers of a unit of which every float is one.                     *)
(***************************************************************************)
EXTENDS Integers, FiniteSets, FiniteSetsExt, SequencesExt

CONSTANTS
    Rounded(_),             \* the float that arithmetic gives for a number of units
    Exact,                  \* every number up to this one is a float
    Lo, Width, NumBuckets,  \* a histogram: its lower end, the width and number of its buckets
    Percents                \* percentages asked for, besides 0

ASSUME ArithmeticAssumption ==
    Exact \in Nat /\ \A n \in (-Exact)..Exact : Rounded(n) = n

Agg == {"count", "sum", "mean", "min", "max"}

Fraction(num, den) == [kind |-> "number", num |-> num, den |-> den]
None == [kind |-> "none", num |-> 0, den |-> 1]
NaN == [kind |-> "nan", num |-> 0, den |-> 1]
Same(a, b) == a.kind = b.kind /\ a.num * b.den = b.num * a.den

SumOf(s) ==
    LET total[n \in 0..Len(s)] == IF n = 0 THEN 0 ELSE total[n - 1] + s[n]
    IN total[Len(s)]

\* sorted: at each place the element that as many come before.
Ascending(s) ==
    LET Place(i) == 1 + Cardinality({j \in DOMAIN s : s[j] < s[i] \/ (s[j] = s[i] /\ j < i)})
    IN [k \in DOMAIN s |-> s[CHOOSE i \in DOMAIN s : Place(i) = k]]

-----------------------------------------------------------------------------
(* aggregations.py, over values [t, n] of type num, nan, bool, str or none    *)

IsNumber(v) == v.t = "num"

NewAggregators == [n |-> 0, sum |-> 0, mean |-> Fraction(0, 1), min |-> None, max |-> None]

\* _mean += (value - _mean) / _n
Moved(mean, v, n) == Fraction(mean.num * n + (v * mean.den - mean.num), mean.den * n)

\* Mutant of UpdateAll: the least value so far begins as zero.
UpdateAllFromZero(a, v) ==
    IF ~IsNumber(v) THEN a
    ELSE [n |-> a.n + 1, sum |-> a.sum + v.n,
          mean |-> Moved(a.mean, v.n, a.n + 1),
          min |-> IF v.n < a.min.num THEN Fraction(v.n, 1) ELSE a.min,
          max |-> IF a.max = None \/ v.n > a.max.num THEN Fraction(v.n, 1) ELSE a.max]

\* update of all five at once; the mean moves by a part of the distance to v.
UpdateAll(a, v) ==
    IF ~IsNumber(v) THEN a
    ELSE [n |-> a.n + 1, sum |-> a.sum + v.n,
          mean |-> Moved(a.mean, v.n, a.n + 1),
          min |-> IF a.min = None \/ v.n < a.min.num THEN Fraction(v.n, 1) ELSE a.min,
          max |-> IF a.max = None \/ v.n > a.max.num THEN Fraction(v.n, 1) ELSE a.max]

\* aggregate_field.
AggregateField(values, agg) ==
    LET a == FoldLeft(UpdateAll, NewAggregators, values)
    IN CASE agg = "count" -> Fraction(a.n, 1)
         [] agg = "sum" -> IF a.n > 0 THEN Fraction(a.sum, 1) ELSE None
         [] agg = "mean" -> IF a.n > 0 THEN a.mean ELSE None
         [] agg = "min" -> a.min
         [] agg = "max" -> a.max

-----------------------------------------------------------------------------
(* time_windows.py *)

\* Mutant of WindowStart: the division is of the timestamp itself.
WindowStartUnshifted(ts, interval, origin) ==
    Rounded(origin + Rounded(Rounded(ts \div interval) * interval))

\* // of two floats is the floor of their quotient; the other steps round.
WindowStart(ts, interval, origin) ==
    LET bucket == Rounded(Rounded(ts - origin) \div interval)
    IN Rounded(origin + Rounded(bucket * interval))

\* What w is before each turn of the loop of fill_empty, and behind the last one.
Fill(first, last, interval) ==
    LET Turn(w) == IF w > last THEN w ELSE Rounded(w + interval)
        before[n \in 0..(last - first + 1)] == IF n = 0 THEN first ELSE Turn(before[n - 1])
    IN before

\* WindowAggregator.aggregate, of which the counts: a window for each start there
\* is, and with fill_empty for each w.  (The list is sorted by them.)  A w that
\* addition does not move any more never gets past the last start.
Aggregate(ts, interval, origin, fill_empty) ==
    LET Of(t) == WindowStart(t, interval, origin)
        starts == {Of(t) : t \in ToSet(ts)}
        filled == IF ts = <<>> \/ ~fill_empty THEN {}
                  ELSE Range(Fill(Min(starts), Max(starts), interval))
    IN [ends |-> filled # {} => \E s \in filled : s > Max(starts),
        windows |-> {[start |-> s, end |-> Rounded(s + interval),
                      count |-> Cardinality({i \in DOMAIN ts : Of(ts[i]) = s})] :
                         s \in starts \cup {s \in filled : s =< Max(starts)}}]

-----------------------------------------------------------------------------
(* percentiles.py *)

\* exact_percentile, in hundredths; p95_latency is this with p = 95.
ExactPercentile(values, p) ==
    LET s == Ascending(values)
        rank == p * (Len(s) - 1)
        lo == rank \div 100
        hi == IF rank % 100 = 0 THEN lo ELSE lo + 1
    IN s[lo + 1] * 100 + (rank % 100) * (s[hi + 1] - s[lo + 1])

\* _bucket_index: towards zero, and into the range.
BucketIndex(v) ==
    LET i == IF v < Lo THEN 0 ELSE (v - Lo) \div Width
    IN IF i > NumBuckets - 1 THEN NumBuckets - 1 ELSE i

TargetRank(values, p) == (p * Len(values) + 99) \div 100

\* Mutant of BucketPercentile: the bucket behind the one that reaches the rank.
BucketPercentileLate(values, p) ==
    LET Cumulative(i) == Cardinality({k \in DOMAIN values : BucketIndex(values[k]) < i})
    IN CHOOSE i \in 0..NumBuckets :
          /\ Cumulative(i) >= TargetRank(values, p)
          /\ \A j \in 0..(i - 1) : Cumulative(j) < TargetRank(values, p)

\* The first bucket that reaches the rank; the answer is its middle, twice.
BucketPercentile(values, p) ==
    LET Cumulative(i) == Cardinality({k \in DOMAIN values : BucketIndex(values[k]) =< i})
    IN CHOOSE i \in 0..(NumBuckets - 1) :
          /\ Cumulative(i) >= TargetRank(values, p)
          /\ \A j \in 0..(i - 1) : Cumulative(j) < TargetRank(values, p)

TwicePercentile(values, p) == 2 * Lo + (2 * BucketPercentile(values, p) + 1) * Width

-----------------------------------------------------------------------------
(* advanced_agg.py, over samples [ts, value] in the order of time *)

Steps(samples) == [i \in 1..(Len(samples) - 1) |->
                      [ts |-> samples[i + 1].ts, dt |-> samples[i + 1].ts - samples[i].ts,
                       from |-> samples[i].value, to |-> samples[i + 1].value]]

\* Mutant of Increase: a reset counts nothing.
IncreaseNoReset(step, counter) == IF counter /\ step.to < step.from THEN 0 ELSE step.to - step.from

\* A drop of a counter is a reset to zero.
Increase(step, counter) == IF counter /\ step.to < step.from THEN step.to ELSE step.to - step.from

\* Pairs of one moment are left out.
Gaps(steps) ==
    LET kept[n \in 0..Len(steps)] ==
            IF n = 0 THEN <<>>
            ELSE IF steps[n].dt = 0 THEN kept[n - 1] ELSE Append(kept[n - 1], steps[n])
    IN kept[Len(steps)]

\* rate and, when counter is FALSE, derivative.
Rate(samples, counter) ==
    LET gaps == Gaps(Steps(samples))
    IN [i \in DOMAIN gaps |->
           [ts |-> gaps[i].ts, value |-> Fraction(Increase(gaps[i], counter), gaps[i].dt)]]

TotalIncrease(samples, counter) ==
    SumOf([i \in DOMAIN Steps(samples) |-> Increase(Steps(samples)[i], counter)])

RateOverWindow(samples, counter) ==
    LET dt == Last(samples).ts - samples[1].ts
    IN IF Len(samples) < 2 \/ dt = 0 THEN None ELSE Fraction(TotalIncrease(samples, counter), dt)

-----------------------------------------------------------------------------
(* Properties *)

\* No step of the arithmetic rounds: timestamps, and what is up to a window before
\* and behind them, are exact from zero and from the origin.
NoRounding(ts, interval, origin) ==
    \A t \in ToSet(ts) :
        /\ t - interval \in (-Exact)..Exact /\ t + interval \in (-Exact)..Exact
        /\ t - origin - interval \in (-Exact)..Exact /\ t - origin \in (-Exact)..Exact

\* As long as nothing rounds: each timestamp is counted in the one window that holds
\* it, windows do not overlap, and the loop that fills ends and leaves no gap,
\* wherever the origin is and for timestamps before it.
Tiled(ts, interval, origin) ==
    NoRounding(ts, interval, origin) => \A fill_empty \in BOOLEAN :
        LET result == Aggregate(ts, interval, origin, fill_empty)
            ws == result.windows
        IN /\ result.ends
           /\ \A i \in DOMAIN ts : \E w \in ws : w.start =< ts[i] /\ ts[i] < w.end
           /\ \A w \in ws : w.count = Cardinality({i \in DOMAIN ts : w.start =< ts[i] /\ ts[i] < w.end})
           /\ \A v, w \in ws : v = w \/ v.end =< w.start \/ w.end =< v.start
           /\ fill_empty => \A v, w \in ws : v.end < w.end => \E u \in ws : u.start = v.end

\* A value outside the range of the histogram, as its nearest end.
Clamped(v) == IF v < Lo THEN Lo
              ELSE IF v > Lo + NumBuckets * Width THEN Lo + NumBuckets * Width ELSE v

\* How far apart the two values are between which exact_percentile interpolates.
NeighbourGap(values, p) ==
    LET s == Ascending(values)
        rank == p * (Len(s) - 1)
    IN IF rank % 100 = 0 THEN 0 ELSE s[rank \div 100 + 2] - s[rank \div 100 + 1]

\* What the histogram answers for values differs from the exact percentile of those
\* values, moved into its range, by half a bucket and the gap between two neighbours
\* at most (so by half a bucket where the rank is whole, and not in general); the
\* exact percentile grows with p from the least to the greatest value.
RanksAgree(values) ==
    values # <<>> =>
        LET inside == [i \in DOMAIN values |-> Clamped(values[i])]
            s == Ascending(values)
        IN /\ \A p \in Percents :
                 LET distance == 50 * TwicePercentile(values, p) - ExactPercentile(inside, p)
                     most == 50 * Width + 100 * NeighbourGap(inside, p)
                 IN -most =< distance /\ distance =< most
           /\ ExactPercentile(values, 0) = 100 * s[1]
           /\ ExactPercentile(values, 100) = 100 * Last(s)
           /\ \A p, q \in {0} \cup Percents :
                 p =< q => ExactPercentile(values, p) =< ExactPercentile(values, q)

\* The increase of a counter is its last value less its first and what it had
\* at each reset; rates over the gaps add up to it, but for the increases
\* between samples of one moment; and the rate over all is what they average to.
GapsAddUp(samples) ==
    LET steps == Steps(samples)
        total == TotalIncrease(samples, TRUE)
        rates == Rate(samples, TRUE)
        gaps == Gaps(steps)
        lost == SumOf([i \in DOMAIN steps |-> IF steps[i].to < steps[i].from THEN steps[i].from ELSE 0])
        instant == SumOf([i \in DOMAIN steps |-> IF steps[i].dt = 0 THEN Increase(steps[i], TRUE) ELSE 0])
    IN Len(samples) >= 2 =>
        /\ total = Last(samples).value - samples[1].value + lost
        /\ total - instant =
             SumOf([i \in DOMAIN rates |-> (rates[i].value.num * gaps[i].dt) \div rates[i].value.den])
        /\ TotalIncrease(samples, FALSE) = Last(samples).value - samples[1].value
        /\ LET over == RateOverWindow(samples, TRUE)
           IN IF Last(samples).ts = samples[1].ts THEN over = None
              ELSE over.num = total /\ over.den = Last(samples).ts - samples[1].ts
=============================================================================
