-------------------------- MODULE PartitionMetadata --------------------------
(***************************************************************************)
(* PartitionMetadata of src/tsdb/storage/partitioning.py: what partitions  *)
(* hold, kept in memory and in one JSON file.  An update turns the value    *)
(* sets of a partition into lists, and the next one for the same key finds  *)
(* a list where it wants a set.                                             *)
(***************************************************************************)
EXTENDS Integers, FiniteSets, SequencesExt

CONSTANTS
    Path, Key, Value, Stamp,   \* Stamp: timestamps
    Records,                   \* sequences of data points, the second argument
    NoMetadata, Garbage,
    MaxRecords                 \* bound

Partial(D, R) == UNION {[K -> R] : K \in SUBSET D}

DataPoint == [ts : Stamp, tags : Partial(Key, Value)]

Partition == [min : Stamp, max : Stamp,
              tags : Partial(Key, [kind : {"set", "list"}, values : SUBSET Value])]

ASSUME MetadataAssumption ==
    /\ Stamp \subseteq Int /\ Records \subseteq Seq(DataPoint) \ {<<>>}
    /\ NoMetadata # Garbage /\ {NoMetadata, Garbage} \cap Partial(Path, Partition) = {}

VARIABLES
    store,     \* self.metadata_store: path -> what is known of it
    saved,     \* the file: NoMetadata, a store, or Garbage
    loaded,    \* the constructor returned
    recorded,  \* <<path, point>> of the updates that returned (history)
    nrecords

metadataVars == <<store, saved, loaded, recorded, nrecords>>

MetadataInit ==
    /\ store = <<>> /\ saved = NoMetadata /\ loaded = TRUE
    /\ recorded = {} /\ nrecords = 0

\* What JSON cannot hold.
HasSet(s) == \E q \in DOMAIN s : \E k \in DOMAIN s[q].tags : s[q].tags[k].kind = "set"

MinOf(S) == CHOOSE x \in S : \A y \in S : x =< y
MaxOf(S) == CHOOSE x \in S : \A y \in S : x >= y

\* Mutant of Widened: elif, so that one update never moves both ends.
WidenedOnce(known, dps) ==
    LET first == MinOf({dps[i].ts : i \in DOMAIN dps})
        last == MaxOf({dps[i].ts : i \in DOMAIN dps})
    IN IF known = {} THEN [min |-> first, max |-> first]
       ELSE LET m == CHOOSE x \in known : TRUE
            IN IF first < m.min THEN [min |-> first, max |-> m.max]
               ELSE [min |-> m.min, max |-> IF last > m.max THEN last ELSE m.max]

\* The new bounds; known is empty for a new partition.
Widened(known, dps) ==
    LET stamps == {dps[i].ts : i \in DOMAIN dps} \cup {m.min : m \in known} \cup {m.max : m \in known}
    IN [min |-> MinOf(stamps), max |-> MaxOf(stamps)]

\* The (point, key) pairs the loop visits before it meets a key that is a list:
\* all points before k, and of point k any of the keys that are no lists.
Visits(tags, dps) ==
    LET Lists == {key \in DOMAIN tags : tags[key].kind = "list"}
        Clean(i) == DOMAIN dps[i].tags \cap Lists = {}
        Upto(k) == {x \in (1..k) \X Key : x[2] \in DOMAIN dps[x[1]].tags}
    IN IF \A i \in DOMAIN dps : Clean(i) THEN {[whole |-> TRUE, pairs |-> Upto(Len(dps))]}
       ELSE LET k == MinOf({i \in DOMAIN dps : ~Clean(i)})
            IN {[whole |-> FALSE, pairs |-> Upto(k - 1) \cup {<<k, key>> : key \in K}] :
                   K \in SUBSET (DOMAIN dps[k].tags \ Lists)}

\* The value sets after the pairs have been added.
Tagged(tags, dps, pairs) ==
    [key \in DOMAIN tags \cup {x[2] : x \in pairs} |->
        LET new == {dps[x[1]].tags[key] : x \in {y \in pairs : y[2] = key}}
        IN IF key \in DOMAIN tags THEN [tags[key] EXCEPT !.values = @ \cup new]
           ELSE [kind |-> "set", values |-> new]]

AsLists(tags) == [key \in DOMAIN tags |-> [tags[key] EXCEPT !.kind = "list"]]

\* update_partition_metadata.  It raises at a key that is a list, with the
\* bounds changed and some sets left behind; and in json.dump, once the file is
\* truncated, when any partition holds a set.
RecordPoints(q, dps) ==
    /\ loaded /\ nrecords < MaxRecords /\ nrecords' = nrecords + 1
    /\ LET known == IF q \in DOMAIN store THEN {store[q]} ELSE {}
           tags == IF q \in DOMAIN store THEN store[q].tags ELSE <<>>
           ends == Widened(known, dps)
       IN \E v \in Visits(tags, dps) :
             LET added == Tagged(tags, dps, v.pairs)
                 entry == [min |-> ends.min, max |-> ends.max, tags |-> IF v.whole THEN AsLists(added) ELSE added]
                 new == [p \in DOMAIN store \cup {q} |-> IF p = q THEN entry ELSE store[p]]
             IN /\ store' = new
                /\ saved' = IF ~v.whole THEN saved ELSE IF HasSet(new) THEN Garbage ELSE new
                /\ recorded' = IF v.whole /\ ~HasSet(new)
                               THEN recorded \cup {<<q, dps[i]>> : i \in DOMAIN dps}
                               ELSE recorded
    /\ UNCHANGED loaded

\* A new process loads the file; JSONDecodeError leaves the constructor.
Reopen ==
    /\ loaded
    /\ IF saved = Garbage THEN loaded' = FALSE /\ UNCHANGED store
       ELSE loaded' = TRUE /\ store' = IF saved = NoMetadata THEN <<>> ELSE saved
    /\ UNCHANGED <<saved, recorded, nrecords>>

MetadataNext == Reopen \/ \E q \in Path, dps \in Records : RecordPoints(q, dps)

MetadataSpec == MetadataInit /\ [][MetadataNext]_metadataVars

-----------------------------------------------------------------------------
\* get_partitions_for_query, as a set; it is returned in the order of the starts.
GetPartitionsForQuery(start, end, tag_filters) ==
    {q \in DOMAIN store :
        /\ store[q].max >= start /\ store[q].min =< end
        /\ \A key \in DOMAIN tag_filters :
              key \in DOMAIN store[q].tags /\ tag_filters[key] \in store[q].tags[key].values}

\* A partition is skipped only if it holds nothing that matches: every point of
\* an update that returned is found by each query its time and tags satisfy,
\* after updates that raised halfway and after a restart from the file.
NothingSkipped ==
    loaded => \A x \in recorded : \A start, end \in Stamp :
        \A keys \in SUBSET DOMAIN x[2].tags :
            (start =< x[2].ts /\ x[2].ts =< end) =>
                x[1] \in GetPartitionsForQuery(start, end, [k \in keys |-> x[2].tags[k]])
=============================================================================
