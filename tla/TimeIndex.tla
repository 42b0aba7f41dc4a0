------------------------------ MODULE TimeIndex ------------------------------
(***************************************************************************)
(* TimeRangeIndex of src/tsdb/index/time_index.py: blocks in the order of  *)
(* their start, with the starts in a parallel list for the binary search.  *)
(* A bulk load that raises leaves the two lists of different length.       *)
(***************************************************************************)
EXTENDS Integers, FiniteSets, SequencesExt, Locations

CONSTANTS Time, MaxBlocks   \* MaxBlocks bounds the length of the list

ASSUME TimeAssumption == Time \subseteq Int /\ MaxBlocks \in Nat

VARIABLES
    blocks,     \* self._blocks
    min_keys,   \* self._min_keys
    listed      \* the blocks of the calls that returned (history)

timeVars == <<blocks, min_keys, listed>>

Block == [location : Location, min_ts : Time, max_ts : Time]

Valid(b) == b.min_ts =< b.max_ts

Overlaps(b, start, end) == b.min_ts =< end /\ b.max_ts >= start

\* bisect on a list that is in order: how many keys are before the place.
BisectLeft(keys, x) == Cardinality({i \in DOMAIN keys : keys[i] < x})
BisectRight(keys, x) == Cardinality({i \in DOMAIN keys : keys[i] =< x})

MinKeys(bs) == [i \in DOMAIN bs |-> bs[i].min_ts]

\* The order of the sort of add_blocks.
Precedes(a, b) == a.min_ts < b.min_ts \/ (a.min_ts = b.min_ts /\ a.max_ts =< b.max_ts)

\* The stable sort of bs: positions p in order, equal blocks as they were.
Sortings(bs) ==
    {[i \in DOMAIN bs |-> bs[p[i]]] :
        p \in {q \in [DOMAIN bs -> DOMAIN bs] :
                  /\ \A k \in DOMAIN bs : \E i \in DOMAIN bs : q[i] = k
                  /\ \A i, j \in DOMAIN bs : i < j =>
                        /\ q[i] # q[j] /\ Precedes(bs[q[i]], bs[q[j]])
                        /\ Precedes(bs[q[j]], bs[q[i]]) => q[i] < q[j]}}

-----------------------------------------------------------------------------
TimeInit == blocks = <<>> /\ min_keys = <<>> /\ listed = {}

AddBlock(b) ==
    /\ Valid(b) /\ Len(blocks) < MaxBlocks
    /\ LET i == BisectLeft(min_keys, b.min_ts) + 1
       IN blocks' = InsertAt(blocks, i, b) /\ min_keys' = InsertAt(min_keys, i, b.min_ts)
    /\ listed' = listed \cup {b}

AddBlocks(new) ==
    /\ \A i \in DOMAIN new : Valid(new[i])
    /\ Len(blocks) + Len(new) =< MaxBlocks
    /\ blocks' \in Sortings(blocks \o new)
    /\ min_keys' = MinKeys(blocks')
    /\ listed' = listed \cup {new[i] : i \in DOMAIN new}

\* Mutant of AddBlocksRaises: the keys are kept up in the loop.
AddBlocksRaisesKeyed(new) ==
    /\ Len(blocks) + Len(new) =< MaxBlocks
    /\ \E k \in DOMAIN new :
         /\ ~Valid(new[k]) /\ \A i \in 1..(k - 1) : Valid(new[i])
         /\ blocks' = blocks \o SubSeq(new, 1, k - 1)
         /\ min_keys' = min_keys \o MinKeys(SubSeq(new, 1, k - 1))
    /\ UNCHANGED listed

\* ValueError at block k: those before it are appended, neither sorted nor keyed.
AddBlocksRaises(new) ==
    /\ Len(blocks) + Len(new) =< MaxBlocks
    /\ \E k \in DOMAIN new :
         /\ ~Valid(new[k]) /\ \A i \in 1..(k - 1) : Valid(new[i])
         /\ blocks' = blocks \o SubSeq(new, 1, k - 1)
    /\ UNCHANGED <<min_keys, listed>>

TimeNext ==
    \/ \E b \in Block : AddBlock(b)
    \/ \E new \in Seq(Block) : AddBlocks(new) \/ AddBlocksRaises(new)

TimeSpec == TimeInit /\ [][TimeNext]_timeVars

-----------------------------------------------------------------------------
(* find_blocks_in_range *)

\* The places in the list of the blocks it returns, in the order of the list.
Hits(start, end) ==
    {i \in 1..BisectRight(min_keys, end) : blocks[i].max_ts >= start}

FindBlocksInRange(start, end) ==
    LET hits == Hits(start, end)
        Place(k) == CHOOSE i \in hits : Cardinality({j \in hits : j < i}) = k - 1
    IN [k \in 1..Cardinality(hits) |-> blocks[Place(k)]]

\* Every block of a call that returned is found by every search it overlaps, a
\* search returns nothing else than overlapping blocks, and those in the order
\* of their start: after a bulk load that raised halfway, too, when the list is
\* longer than the keys and not in order.
SearchComplete ==
    \A start, end \in Time : start =< end =>
        /\ \A b \in listed : Overlaps(b, start, end) => \E i \in Hits(start, end) : blocks[i] = b
        /\ \A i \in Hits(start, end) : Overlaps(blocks[i], start, end)
        /\ \A i, j \in Hits(start, end) : i < j => blocks[i].min_ts =< blocks[j].min_ts
=============================================================================
