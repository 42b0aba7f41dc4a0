----------------------------- MODULE QueryPlan -----------------------------
(***************************************************************************)
(* QueryOptimizer of src/tsdb/query/optimization.py.  A plan is a sequence  *)
(* of stages [type, on_tag, keep, limit]: a filter keeps one row of 2^keep, *)
(* a limit its number of rows.  Input rows are multiples of all of them.    *)
(***************************************************************************)
EXTENDS Integers, FiniteSets, SequencesExt

StageType == {"scan", "filter", "group", "aggregate", "limit"}

IsFilter(stage) == stage.type = "filter"
IsNoFilter(stage) == stage.type # "filter"
IsTagFilter(stage) == IsFilter(stage) /\ stage.on_tag
IsNoTagFilter(stage) == ~IsTagFilter(stage)

Positions(plan, type) == {i \in DOMAIN plan : plan[i].type = type}
FirstOf(plan, type) == CHOOSE i \in Positions(plan, type) :
                          \A j \in Positions(plan, type) : i =< j
Upto(plan, i) == SubSeq(plan, 1, i)
From(plan, i) == SubSeq(plan, i, Len(plan))

-----------------------------------------------------------------------------
\* Mutant of MergeFilters: a tag filter next to a field filter makes a tag filter.
MergeAnyTag(plan) ==
    FoldLeft(LAMBDA merged, s :
                IF IsFilter(s) /\ merged # <<>> /\ IsFilter(Last(merged))
                THEN Append(Front(merged), [s EXCEPT !.on_tag = @ \/ Last(merged).on_tag,
                                                     !.keep = @ + Last(merged).keep])
                ELSE Append(merged, s),
             <<>>, plan)

\* merge_filters: the selectivities of neighbours are multiplied, and only tag
\* filters make a tag filter.
MergeFilters(plan) ==
    FoldLeft(LAMBDA merged, s :
                IF IsFilter(s) /\ merged # <<>> /\ IsFilter(Last(merged))
                THEN Append(Front(merged), [s EXCEPT !.on_tag = @ /\ Last(merged).on_tag,
                                                     !.keep = @ + Last(merged).keep])
                ELSE Append(merged, s),
             <<>>, plan)

\* push_tag_filters_into_scan
PushTagFilters(plan) ==
    LET rest == SelectSeq(plan, IsNoTagFilter)
        tags == SelectSeq(plan, IsTagFilter)
        scan == IF Positions(rest, "scan") = {} THEN Len(rest) ELSE FirstOf(rest, "scan")
    IN Upto(rest, scan) \o tags \o From(rest, scan + 1)

\* Mutant of ReorderFilters: filters behind the aggregate stay where they are.
ReorderBefore(plan) ==
    IF Positions(plan, "aggregate") = {} THEN plan
    ELSE LET a == FirstOf(plan, "aggregate")
         IN SelectSeq(Upto(plan, a - 1), IsNoFilter) \o SelectSeq(Upto(plan, a - 1), IsFilter)
               \o From(plan, a)

\* reorder_filters_before_aggregate: all filters, those before a GROUP or a LIMIT
\* too, end just before the first aggregate.
ReorderFilters(plan) ==
    IF Positions(plan, "aggregate") = {} THEN plan
    ELSE LET a == FirstOf(plan, "aggregate")
         IN SelectSeq(Upto(plan, a - 1), IsNoFilter) \o SelectSeq(plan, IsFilter)
               \o <<plan[a]>> \o SelectSeq(From(plan, a + 1), IsNoFilter)

\* push_limit_down
PushLimit(plan) ==
    IF Positions(plan, "limit") = {} THEN plan
    ELSE LET l == FirstOf(plan, "limit")
         IN IF \A i \in 1..(l - 1) : plan[i].type = "scan"
            THEN <<plan[l]>> \o Upto(plan, l - 1) \o From(plan, l + 1)
            ELSE plan

Optimize(plan) == PushLimit(ReorderFilters(PushTagFilters(MergeFilters(plan))))

\* estimate_cost and the rows that are left, after a stage.
AfterStage(sum, s) ==
    [cost |-> sum.cost + sum.rows,
     rows |-> CASE s.type = "filter" -> sum.rows \div 2^s.keep
                [] s.type = "limit" -> IF s.limit < sum.rows THEN s.limit ELSE sum.rows
                [] OTHER -> sum.rows]
Estimate(plan, input_rows) == FoldLeft(AfterStage, [cost |-> 0, rows |-> input_rows], plan)

-----------------------------------------------------------------------------
(* Properties *)

NoFilterAfter(plan, type) ==
    \A i \in Positions(plan, type) : \A j \in (i + 1)..Len(plan) : ~IsFilter(plan[j])

NoFilterBefore(plan, type) ==
    \A i \in Positions(plan, type) : \A j \in 1..(i - 1) : ~IsFilter(plan[j])

Selectivity(plan) == FoldLeft(LAMBDA n, s : IF IsFilter(s) THEN n + s.keep ELSE n, 0, plan)

\* What optimize keeps of every plan: the stages that are no filters, in their order
\* but for a limit that moves in front of the scan, and the product of the
\* selectivities; no filter is left behind the first aggregate.  If no filter has to
\* cross a limit, as many rows come out; and if the filters are of one kind and none
\* has to move behind a group, the plan costs no more.
PlanKept(plan, input_rows) ==
    LET optimized == Optimize(plan)
        before == Estimate(plan, input_rows)
        after == Estimate(optimized, input_rows)
        others == SelectSeq(plan, IsNoFilter)
        OneKind == \E tag \in BOOLEAN : \A i \in Positions(plan, "filter") : plan[i].on_tag = tag
        NoneCrosses == NoFilterAfter(plan, "limit") /\ NoFilterBefore(plan, "limit")
    IN /\ SelectSeq(optimized, IsNoFilter) \in {others, PushLimit(others)}
       /\ Selectivity(optimized) = Selectivity(plan)
       /\ Positions(optimized, "aggregate") # {} =>
             \A i \in Positions(optimized, "filter") : i < FirstOf(optimized, "aggregate")
       /\ NoneCrosses => after.rows = before.rows
       /\ NoneCrosses /\ OneKind /\ NoFilterBefore(plan, "group") => after.cost =< before.cost
=============================================================================
