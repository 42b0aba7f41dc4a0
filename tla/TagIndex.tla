------------------------------ MODULE TagIndex ------------------------------
(***************************************************************************)
(* TagIndex of src/tsdb/index/tag_index.py: the inverted index, as the set *)
(* of pairs of a tag (key and value) and a location.  A posting list that  *)
(* becomes empty is deleted with its key, so there is nothing else to it.  *)
(***************************************************************************)
EXTENDS Naturals, Locations

CONSTANT Tag

Entry == [tag : Tag, location : Location]

\* The updates of updates.log: a pair is added, or a location is removed.
Update == [op : {"add"}, tag : Tag, location : Location] \cup [op : {"remove"}, location : Location]

\* add_entry: adding the same pair twice changes nothing.
AddEntry(index, tag, location) == index \cup {[tag |-> tag, location |-> location]}

\* remove_location: out of every posting list.
RemoveLocation(index, location) == {e \in index : e.location # location}

\* add_data_point: every tag of a point.
AddDataPoint(index, tags, location) ==
    index \cup {[tag |-> t, location |-> location] : t \in tags}

\* lookup: the posting list of one tag.
Lookup(index, tag) == {e.location : e \in {x \in index : x.tag = tag}}

\* lookup_multiple: no filter matches nothing.
LookupMultiple(index, filters, mode) ==
    IF mode = "and" /\ filters # {}
    THEN {l \in Location : \A t \in filters : l \in Lookup(index, t)}
    ELSE UNION {Lookup(index, t) : t \in filters}

Apply(index, op) ==
    IF op.op = "add" THEN AddEntry(index, op.tag, op.location)
                     ELSE RemoveLocation(index, op.location)
=============================================================================
