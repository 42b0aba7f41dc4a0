--------------------------- MODULE QueryExecution ---------------------------
(***************************************************************************)
(* Queries over points: the predicates of src/tsdb/query/basic_filtering.py,*)
(* ExecutionEngine of src/tsdb/server/execution_engine.py and GroupByEngine *)
(* of src/tsdb/query/groupby.py.                                            *)
(*                                                                         *)
(* A point is [ts, tags, fields], where tags and fields are functions of    *)
(* the keys that are there.  A value is [t, n]: a number, a NaN, a boolean  *)
(* or a string of rank n; tags are ranks of strings, above 0.               *)
(***************************************************************************)
EXTENDS Statistics

Missing == 0   \* None, in a group key

Numeric(v) == v.t \in {"num", "nan", "bool"}

\* a < b for Python; a NaN is neither below nor above anything.
Less(a, b) == a.t # "nan" /\ b.t # "nan" /\ a.n < b.n
Equal(a, b) == /\ a.t # "nan" /\ b.t # "nan" /\ a.n = b.n
               /\ Numeric(a) <=> Numeric(b)
Ordered(a, b) == Numeric(a) <=> Numeric(b)

AsText(holds) == IF holds THEN "true" ELSE "false"

\* The comparison of a string with a number raises, but for = and !=.
Compare(op, a, b) ==
    CASE op = "=" -> AsText(Equal(a, b))
      [] op = "!=" -> AsText(~Equal(a, b))
      [] ~Ordered(a, b) -> "raises"
      [] op = "<" -> AsText(Less(a, b))
      [] op = "<=" -> AsText(Less(a, b) \/ Equal(a, b))
      [] op = ">" -> AsText(Less(b, a))
      [] op = ">=" -> AsText(Less(b, a) \/ Equal(a, b))

Tag(p, key) == [t |-> "str", n |-> p.tags[key]]

-----------------------------------------------------------------------------
(* basic_filtering.py *)

EvaluateComparison(c, p) ==
    IF c.key \notin (IF c.on_tag THEN DOMAIN p.tags ELSE DOMAIN p.fields) THEN "false"
    ELSE Compare(c.op, IF c.on_tag THEN Tag(p, c.key) ELSE p.fields[c.key], c.value)

\* Comparison.evaluate and BoolNode.evaluate: children in order, until one decides.
RECURSIVE Evaluate(_, _)
Evaluate(predicate, p) ==
    LET Decide(neutral) ==
            FoldLeft(LAMBDA done, child : IF done # neutral THEN done ELSE Evaluate(child, p),
                     neutral, predicate.children)
    IN CASE predicate.kind = "comparison" -> EvaluateComparison(predicate, p)
         [] predicate.kind = "and" -> Decide("true")
         [] predicate.kind = "or" -> Decide("false")

And(children) == [kind |-> "and", children |-> children]
OnTag(c) == c.kind = "comparison" /\ c.on_tag
NotOnTag(c) == ~OnTag(c)

\* Mutant of SplitForPushdown: a disjunction is taken apart too.
SplitAny(predicate) ==
    IF predicate.kind = "comparison"
    THEN IF predicate.on_tag THEN [tag |-> predicate, field |-> And(<<>>)]
         ELSE [tag |-> And(<<>>), field |-> predicate]
    ELSE [tag |-> And(SelectSeq(predicate.children, OnTag)),
          field |-> And(SelectSeq(predicate.children, NotOnTag))]

\* split_for_pushdown; no part is an empty conjunction.
SplitForPushdown(predicate) ==
    CASE predicate.kind = "comparison" /\ predicate.on_tag ->
            [tag |-> predicate, field |-> And(<<>>)]
      [] predicate.kind = "and" ->
            [tag |-> And(SelectSeq(predicate.children, OnTag)),
             field |-> And(SelectSeq(predicate.children, NotOnTag))]
      [] OTHER -> [tag |-> And(<<>>), field |-> predicate]

-----------------------------------------------------------------------------
(* execution_engine.py: a query is [agg, field, conditions, group_by] *)

\* _match: a tag hides the field of the same name.
Match(p, c) ==
    CASE c.key \in DOMAIN p.tags -> Compare(c.op, Tag(p, c.key), c.value)
      [] c.key \in DOMAIN p.fields -> Compare(c.op, p.fields[c.key], c.value)
      [] OTHER -> "false"

MatchAll(p, conditions) ==
    FoldLeft(LAMBDA done, c : IF done # "true" THEN done ELSE Match(p, c), "true", conditions)

Absent == [t |-> "none", n |-> 0]
FieldOf(p, field) == IF field \in DOMAIN p.fields THEN p.fields[field] ELSE Absent

\* min() and max() of Python keep the first of two that are not ordered.
First(values, before(_, _)) ==
    FoldLeft(LAMBDA best, v : IF before(v, best) THEN v ELSE best, values[1], values)

Plain(v) == IF v.t = "nan" THEN NaN ELSE Fraction(v.n, 1)

\* _aggregate; a NaN is a number here, a boolean is not.
AggregateValues(values, agg) ==
    LET numeric == SelectSeq(values, LAMBDA v : v.t \in {"num", "nan"})
        undefined == \E i \in DOMAIN numeric : numeric[i].t = "nan"
        total == SumOf([i \in DOMAIN numeric |-> numeric[i].n])
    IN CASE agg = "count" -> Fraction(Len(numeric), 1)
         [] numeric = <<>> -> None
         [] agg \in {"sum", "mean"} /\ undefined -> NaN
         [] agg = "sum" -> Fraction(total, 1)
         [] agg = "mean" -> Fraction(total, Len(numeric))
         [] agg = "min" -> Plain(First(numeric, Less))
         [] agg = "max" -> Plain(First(numeric, LAMBDA a, b : Less(b, a)))

\* make_group_key, and the key of execute.
GroupKey(p, group_by) ==
    [i \in DOMAIN group_by |->
        IF group_by[i] \in DOMAIN p.tags THEN p.tags[group_by[i]] ELSE Missing]

\* The keys of a dict, in the order they came.
Keys(points, group_by) ==
    FoldLeft(LAMBDA ks, p : LET k == GroupKey(p, group_by)
                            IN IF Contains(ks, k) THEN ks ELSE Append(ks, k),
             <<>>, points)

DifferAt(j, k, i) == j[i] # k[i] /\ \A h \in 1..(i - 1) : j[h] = k[h]
Before(j, k) == \E i \in DOMAIN j : DifferAt(j, k, i) /\ j[i] < k[i]

\* Two keys that agree up to where one of them has None: no sort without a TypeError.
Unsortable(keys) ==
    \E j, k \in ToSet(keys) : \E i \in DOMAIN j : DifferAt(j, k, i) /\ Missing \in {j[i], k[i]}

InGroup(points, group_by, key) == SelectSeq(points, LAMBDA p : GroupKey(p, group_by) = key)
ValuesOf(points, field) == [i \in DOMAIN points |-> FieldOf(points[i], field)]

\* Mutant of Kept: the first condition alone is looked at.
KeptByFirst(points, query) ==
    SelectSeq(points, LAMBDA p : query.conditions = <<>> \/ Match(p, query.conditions[1]) = "true")

Kept(points, query) == SelectSeq(points, LAMBDA p : MatchAll(p, query.conditions) = "true")

\* execute
Execute(points, query) ==
    LET filtered == Kept(points, query)
        keys == IF query.group_by = <<>> THEN <<<<>>>> ELSE Keys(filtered, query.group_by)
        sorted == SortSeq(keys, Before)
        Value(key) == AggregateValues(ValuesOf(InGroup(filtered, query.group_by, key), query.field),
                                      query.agg)
    IN [raises |-> \/ \E i \in DOMAIN points : MatchAll(points[i], query.conditions) = "raises"
                   \/ Unsortable(keys),
        rows |-> [i \in DOMAIN sorted |-> [key |-> sorted[i], value |-> Value(sorted[i])]]]

-----------------------------------------------------------------------------
(* groupby.py, with the aggregator of aggregations.py named agg *)

\* group; _sort_key puts None first.
Group(points, group_by, field, agg) ==
    LET sorted == SortSeq(Keys(points, group_by), Before)
    IN [i \in DOMAIN sorted |->
           LET members == InGroup(points, group_by, sorted[i])
           IN [key |-> sorted[i], value |-> AggregateField(ValuesOf(members, field), agg),
               count |-> Len(members)]]

\* group_windowed: a function of group key and window.
GroupWindowed(points, group_by, field, agg, interval) ==
    LET In(p) == <<GroupKey(p, group_by), WindowStart(p.ts, interval, 0)>>
    IN [kw \in {In(points[i]) : i \in DOMAIN points} |->
           LET members == SelectSeq(points, LAMBDA p : In(p) = kw)
           IN [value |-> AggregateField(ValuesOf(members, field), agg), count |-> Len(members)]]

-----------------------------------------------------------------------------
(* Properties *)

\* A condition on a tag with this outcome stands behind another child with that one.
Behind(predicate, p, outcome, first) ==
    \E i, j \in DOMAIN predicate.children :
        /\ i < j
        /\ NotOnTag(predicate.children[i]) /\ Evaluate(predicate.children[i], p) = first
        /\ OnTag(predicate.children[j]) /\ Evaluate(predicate.children[j], p) = outcome

\* Filtering by the tag part and then by the field part does to a point what the
\* whole predicate does, but for two changes of the order, both of a conjunction: a
\* condition on a tag that raises is no longer hidden by a child in front of it that
\* is false, and one that is false now hides a child in front of it that raises.
PushdownExact(predicate, p) ==
    LET parts == SplitForPushdown(predicate)
        tag == Evaluate(parts.tag, p)
        pushed == IF tag = "true" THEN Evaluate(parts.field, p) ELSE tag
        whole == Evaluate(predicate, p)
    IN pushed # whole =>
        /\ predicate.kind = "and"
        /\ \/ pushed = "raises" /\ whole = "false" /\ Behind(predicate, p, "raises", "false")
           \/ pushed = "false" /\ whole = "raises" /\ Behind(predicate, p, "false", "raises")

Finite(values) == \A i \in DOMAIN values : values[i].t # "nan"

\* The engine's aggregates, the streaming aggregators and the group engine give one
\* answer for values that are finite, whatever booleans, strings and absent fields
\* are among them; the engine's rows are the groups of what it kept, in order; and
\* a group is the union of its windows.
OneAnswer(points, query) ==
    LET result == Execute(points, query)
        kept == SelectSeq(points, LAMBDA p : \A i \in DOMAIN query.conditions :
                                                Match(p, query.conditions[i]) = "true")
        groups == Group(kept, query.group_by, query.field, query.agg)
        windows == GroupWindowed(kept, query.group_by, query.field, query.agg, 2)
    IN Finite(ValuesOf(points, query.field)) /\ ~result.raises =>
        /\ query.group_by = <<>> => Len(result.rows) = 1
        /\ query.group_by # <<>> \/ kept # <<>> => Len(result.rows) = Len(groups)
        /\ \A i \in DOMAIN groups : /\ result.rows[i].key = groups[i].key
                                    /\ Same(result.rows[i].value, groups[i].value)
                                    /\ groups[i].count = MapThenSumSet(LAMBDA kw : windows[kw].count,
                                          {kw \in DOMAIN windows : kw[1] = groups[i].key})
=============================================================================
