------------------------------ MODULE IndexReads ------------------------------
(***************************************************************************)
(* Reads through the indexes: OptimizedTagIndex (index_optimization.py),   *)
(* IndexedReader (read_ops.py) and RangeQueryEngine (range_queries.py) over *)
(* a tag index, a time index and the locations they point to, while a      *)
(* caller writes points, registers locations and drops them.               *)
(***************************************************************************)
EXTENDS TimeIndex, TagIndex

CONSTANTS
    Sample,         \* [ts : Time, tags : SUBSET Tag, hot : BOOLEAN]; hot: the predicate holds
    NegInf, Inf,    \* the bounds of an unbounded range
    Bit, Hash,      \* Tag -> the bits of its token in a Bloom filter
    NoFilter,
    MaxPoints, MaxSteps   \* bounds

ASSUME ReadsAssumption ==
    /\ Sample \subseteq [ts : Time, tags : SUBSET Tag, hot : BOOLEAN]
    /\ NegInf \in Int /\ Inf \in Int /\ NegInf < Inf
    /\ \A x \in Time : NegInf < x /\ x < Inf
    /\ Hash \in [Tag -> SUBSET Bit]
    /\ \A bits \in SUBSET Bit : NoFilter # bits
    /\ MaxPoints \in Nat

VARIABLES
    content,   \* location -> its points in the order of time, what read_location returns
    entries,   \* the tag index
    filters,   \* location -> the bits of its Bloom filter
    indexed,   \* entries that came through index_location and are not removed (history)
    steps

readVars == <<timeVars, content, entries, filters, indexed, steps>>

ReadsInit ==
    /\ TimeInit
    /\ content = [l \in Location |-> <<>>]
    /\ entries = {} /\ indexed = {}
    /\ filters = [l \in Location |-> NoFilter]
    /\ steps = 0

-----------------------------------------------------------------------------
(* The caller *)

\* Data reaches a location, in the order of time.
WritePoint(l, p) ==
    /\ Len(content[l]) < MaxPoints
    /\ \A i \in DOMAIN content[l] : content[l][i].ts =< p.ts
    /\ content' = [content EXCEPT ![l] = Append(@, p)]
    /\ UNCHANGED <<timeVars, entries, filters, indexed>>

\* add_block with the bounds of what is there now.
RegisterBlock(l) ==
    /\ content[l] # <<>>
    /\ AddBlock([location |-> l, min_ts |-> content[l][1].ts,
                 max_ts |-> content[l][Len(content[l])].ts])
    /\ UNCHANGED <<content, entries, filters, indexed>>

\* The blocks of the locations as they are now, with the bounds either way round.
BlocksPresent == {x \in Block : \E i, j \in DOMAIN content[x.location] :
               /\ {i, j} = {1, Len(content[x.location])}
               /\ x.min_ts = content[x.location][i].ts /\ x.max_ts = content[x.location][j].ts}

\* add_blocks for all locations; one of two with its bounds swapped makes it raise.
RegisterAll ==
    /\ \E new \in [1..2 -> BlocksPresent] : AddBlocks(new) \/ AddBlocksRaises(new)
    /\ UNCHANGED <<content, entries, filters, indexed>>

Pairs(tags, l) == {[tag |-> t, location |-> l] : t \in tags}

\* Mutant of IndexLocation: a filter is built anew for every call.
IndexLocationFresh(l, tags) ==
    /\ filters' = [filters EXCEPT ![l] = UNION {Hash[t] : t \in tags}]
    /\ entries' = entries \cup Pairs(tags, l)
    /\ indexed' = indexed \cup Pairs(tags, l)
    /\ UNCHANGED <<timeVars, content>>

\* index_location: the filter of the location is extended, then the index.
IndexLocation(l, tags) ==
    /\ filters' = [filters EXCEPT ![l] = (IF @ = NoFilter THEN {} ELSE @)
                                            \cup UNION {Hash[t] : t \in tags}]
    /\ entries' = entries \cup Pairs(tags, l)
    /\ indexed' = indexed \cup Pairs(tags, l)
    /\ UNCHANGED <<timeVars, content>>

\* add_data_point of the index inside, past the filter.
IndexPoint(l, p) ==
    /\ entries' = AddDataPoint(entries, p.tags, l)
    /\ UNCHANGED <<timeVars, content, filters, indexed>>

\* Retention: the file goes, and the location from the tag index; neither its
\* filter nor its blocks.
DropLocation(l) ==
    /\ content[l] # <<>>
    /\ content' = [content EXCEPT ![l] = <<>>]
    /\ entries' = RemoveLocation(entries, l)
    /\ indexed' = RemoveLocation(indexed, l)
    /\ UNCHANGED <<timeVars, filters>>

ReadsNext ==
    /\ steps < MaxSteps /\ steps' = steps + 1
    /\ \/ \E l \in Location : \/ RegisterBlock(l) \/ DropLocation(l)
                              \/ \E p \in Sample : WritePoint(l, p)
                              \/ \E i \in DOMAIN content[l] :
                                    \/ IndexLocation(l, content[l][i].tags)
                                    \/ IndexPoint(l, content[l][i])
       \/ RegisterAll

ReadsSpec == ReadsInit /\ [][ReadsNext]_readVars

-----------------------------------------------------------------------------
(* might_have, lookup_with_skip *)

MightHave(l, tag) == filters[l] = NoFilter \/ Hash[tag] \subseteq filters[l]

LookupWithSkip(tag, candidates) ==
    {l \in candidates : MightHave(l, tag) /\ l \in Lookup(entries, tag)}

(* IndexedReader *)

Query == [tags : {f \in SUBSET Tag : Cardinality(f) =< 2},
          start : Time \cup {NegInf}, end : Time \cup {Inf}, predicate : BOOLEAN]

\* Mutant of Bounded: both ends must be given.
BoundedTwice(q) == q.start # NegInf /\ q.end # Inf

Bounded(q) == q.start # NegInf \/ q.end # Inf

FindLocationsInRange(start, end) ==
    LET found == FindBlocksInRange(start, end)
    IN [k \in DOMAIN found |-> found[k].location]

\* Neither index applies: no location at all.
Plan(q) ==
    LET tagged == LookupMultiple(entries, q.tags, "and")
        timed == ToSet(FindLocationsInRange(q.start, q.end))
    IN CASE q.tags # {} /\ Bounded(q) -> tagged \cap timed
         [] q.tags # {} /\ ~Bounded(q) -> tagged
         [] q.tags = {} /\ Bounded(q) -> timed
         [] OTHER -> {}

Wanted(q, p) ==
    /\ q.start =< p.ts /\ p.ts =< q.end
    /\ q.tags \subseteq p.tags
    /\ q.predicate => p.hot

\* The points execute returns, as places in locations; it sorts them by time.
Execute(q) ==
    {x \in Plan(q) \X (1..MaxPoints) :
        x[2] \in DOMAIN content[x[1]] /\ Wanted(q, content[x[1]][x[2]])}

(* RangeQueryEngine *)

\* The points of a location before the first of the places in stop, without
\* those before start.
Scanned(l, stop, start) ==
    LET upto == IF stop = {} THEN Len(content[l]) ELSE Min(stop) - 1
        Kept[n \in 0..upto] ==
            IF n = 0 THEN <<>>
            ELSE IF content[l][n].ts >= start THEN Append(Kept[n - 1], content[l][n])
            ELSE Kept[n - 1]
    IN Kept[upto]

\* Mutant of LocationStream: the first point before the range ends the scan.
LocationStreamStops(l, start, end) ==
    Scanned(l, {i \in DOMAIN content[l] : content[l][i].ts > end \/ content[l][i].ts < start}, start)

\* _location_stream: up to the first point behind the range.
LocationStream(l, start, end) == Scanned(l, {i \in DOMAIN content[l] : content[l][i].ts > end}, start)

Places(streams) == UNION {{i} \X DOMAIN streams[i] : i \in DOMAIN streams}

\* merge_sorted_streams: the heap yields the least key, of the first stream
\* that has it, once for each item there is.
MergeSortedStreams(streams) ==
    LET total == Cardinality(Places(streams))
        Merged[n \in 0..total] ==
            IF n = 0 THEN [out |-> <<>>, at |-> [i \in DOMAIN streams |-> 1]]
            ELSE LET m == Merged[n - 1]
                     heap == {i \in DOMAIN streams : m.at[i] =< Len(streams[i])}
                     Item(i) == streams[i][m.at[i]]
                     least == CHOOSE i \in heap : \A j \in heap :
                                 \/ Item(i).ts < Item(j).ts
                                 \/ Item(i).ts = Item(j).ts /\ i =< j
                 IN [out |-> Append(m.out, Item(least)), at |-> [m.at EXCEPT ![least] = @ + 1]]
    IN Merged[total].out

RangeQuery(start, end) ==
    LET locations == FindLocationsInRange(start, end)
    IN MergeSortedStreams([k \in DOMAIN locations |-> LocationStream(locations[k], start, end)])

-----------------------------------------------------------------------------
(* Properties *)

\* A block of a returned call spans the point.
Covered(l, p) == \E b \in listed : b.location = l /\ b.min_ts =< p.ts /\ p.ts =< b.max_ts

\* A query with a tag filter or a bounded range returns every point that matches
\* and that is covered by a registered block (if a range is given) in a location
\* listed for every tag asked for (if tags are), and returns no other point:
\* while locations grow, are registered again, dropped and used again.
ReadsComplete ==
    \A q \in Query : (q.start =< q.end /\ (q.tags # {} \/ {q.start, q.end} # {NegInf, Inf})) =>
        LET result == Execute(q)
        IN \A l \in Location : \A i \in DOMAIN content[l] :
              LET p == content[l][i]
              IN /\ (/\ Wanted(q, p) /\ ({q.start, q.end} # {NegInf, Inf} => Covered(l, p))
                     /\ Pairs(q.tags, l) \subseteq entries)
                    => <<l, i>> \in result
                 /\ <<l, i>> \in result => Wanted(q, p)

\* The Bloom filter in front of the tag index never skips a location that was
\* indexed through it for the tag, after more calls for the same location and
\* after its removal and return.
SkipsNothingIndexed ==
    \A e \in indexed : e.location \in LookupWithSkip(e.tag, Location)

\* A range query yields points in the order of time, in range, and every covered
\* one in range, though the scan of a location ends at the first point behind it.
RangesInOrder ==
    \A start, end \in Time : start =< end =>
        LET out == RangeQuery(start, end)
        IN /\ \A i, j \in DOMAIN out : i < j => out[i].ts =< out[j].ts
           /\ \A i \in DOMAIN out : start =< out[i].ts /\ out[i].ts =< end
           /\ \A l \in Location : \A i \in DOMAIN content[l] :
                 LET p == content[l][i]
                 IN (start =< p.ts /\ p.ts =< end /\ Covered(l, p)) =>
                       p \in {out[k] : k \in DOMAIN out}
=============================================================================
