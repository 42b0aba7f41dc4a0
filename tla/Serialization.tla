---------------------------- MODULE Serialization ----------------------------
(***************************************************************************)
(* DataPoint and TimeSeriesSerializer of src/tsdb/storage/serialization.py. *)
(*                                                                         *)
(* A value is [kind, n]; the numbers of bools are 0 and 1.  A JSON document *)
(* is the record it stands for, and its checksum is its content: MD5 is     *)
(* taken to tell two texts apart.                                          *)
(***************************************************************************)
EXTENDS Integers, FiniteSets, SequencesExt

Raises == [ok |-> FALSE]
Gives(x) == [ok |-> TRUE, value |-> x]

\* isinstance: a bool is an int.
Kinds(v) == IF v.kind = "bool" THEN {"bool", "int"} ELSE {v.kind}

FieldTypes == {"bool", "int", "float", "str"}

\* Mutant of FieldType: bools are not looked for first.
FieldTypeIntFirst(v) ==
    LET types == Kinds(v) \cap FieldTypes
    IN IF types = {} THEN "none" ELSE IF "int" \in types THEN "int" ELSE CHOOSE t \in types : TRUE

\* The type to_dict writes beside a value.
FieldType(v) ==
    LET types == Kinds(v) \cap FieldTypes
    IN IF types = {} THEN "none" ELSE IF "bool" \in types THEN "bool" ELSE CHOOSE t \in types : TRUE

\* What from_dict calls with the value.
Convert(v, type) == [kind |-> type, n |-> IF type = "bool" /\ v.n # 0 THEN 1 ELSE v.n]

\* DataPoint(...): what it lets through.
Accepted(p) ==
    /\ p.measurement # "" /\ p.timestamp >= 0
    /\ \A k \in DOMAIN p.tags : p.tags[k].kind = "str"
    /\ p.fields # <<>>

\* A DataPoint that exists.  Of the kind "none" is a value of no type it knows.
IsDataPoint(p) ==
    /\ p = [measurement |-> p.measurement, timestamp |-> p.timestamp, tags |-> p.tags, fields |-> p.fields]
    /\ p.fields = [f \in DOMAIN p.fields |-> p.fields[f]]
    /\ \A f \in DOMAIN p.fields :
          LET v == p.fields[f]
          IN /\ v = [kind |-> v.kind, n |-> v.n] /\ v.kind \in FieldTypes \cup {"none"}
             /\ v.kind = "bool" => v.n \in {0, 1}
    /\ Accepted(p)

ToDict(p) ==
    [p EXCEPT !.fields = [f \in DOMAIN p.fields |-> [value |-> p.fields[f], type |-> FieldType(p.fields[f])]]]

FromDict(d) ==
    LET p == [d EXCEPT !.fields = [f \in DOMAIN d.fields |-> Convert(d.fields[f].value, d.fields[f].type)]]
    IN IF (\A f \in DOMAIN d.fields : d.fields[f].type \in FieldTypes) /\ Accepted(p) THEN Gives(p) ELSE Raises

-----------------------------------------------------------------------------
(* Batches *)

Version == "1.0"
NoChecksum == [version |-> "", count |-> 0, data_points |-> <<>>]

\* Mutant of CalculateChecksum: only the points.
ChecksumOfPoints(version, count, data_points) == [version |-> "", count |-> 0, data_points |-> data_points]

CalculateChecksum(version, count, data_points) ==
    [version |-> version, count |-> count, data_points |-> data_points]

SerializeBatch(points) ==
    LET dicts == [i \in DOMAIN points |-> ToDict(points[i])]
    IN IF \E i \in DOMAIN points : \E f \in DOMAIN points[i].fields : FieldType(points[i].fields[f]) = "none"
       THEN Raises
       ELSE Gives([version |-> Version, count |-> Len(points), data_points |-> dicts,
                   checksum |-> CalculateChecksum(Version, Len(points), dicts)])

DeserializeBatch(doc) ==
    LET read == [i \in DOMAIN doc.data_points |-> FromDict(doc.data_points[i])]
    IN IF \/ doc.version # Version
          \/ doc.checksum # CalculateChecksum(doc.version, doc.count, doc.data_points)
          \/ \E i \in DOMAIN read : ~read[i].ok
       THEN Raises
       ELSE Gives([i \in DOMAIN read |-> read[i].value])

\* What the points of a document may turn into before it is read: a value, a type
\* or a time changed, a point gone or there twice.
DamagedPoints(ps) ==
    LET n == Len(ps)
    IN {RemoveAt(ps, i) : i \in 1..n} \cup {InsertAt(ps, i, ps[i]) : i \in 1..n}
       \cup {[ps EXCEPT ![i].timestamp = @ + 1] : i \in 1..n}
       \cup UNION {{[ps EXCEPT ![i].fields[f].value.n = 1 - @] : f \in DOMAIN ps[i].fields} : i \in 1..n}
       \cup UNION {{[ps EXCEPT ![i].fields[f].type = t] :
                       f \in DOMAIN ps[i].fields, t \in FieldTypes} : i \in 1..n}

\* Those, or a header or the checksum changed.
Damaged(doc) ==
    {[doc EXCEPT !.version = "1.1"], [doc EXCEPT !.count = @ + 1], [doc EXCEPT !.checksum = NoChecksum]}
    \cup {[doc EXCEPT !.data_points = ps] : ps \in DamagedPoints(doc.data_points)}

-----------------------------------------------------------------------------
(* compress_tags *)

\* Mutant of TagRef: points with equal tags do not share an entry.
TagRefOfPoint(points, i) == i - 1

\* The id of the first point that had these tags, counted over distinct ones.
TagRef(points, i) ==
    LET Seen(j) == \E k \in 1..(j - 1) : points[k].tags = points[j].tags
        Opens(k) == ~Seen(k) /\ points[k].tags = points[i].tags
        first == CHOOSE k \in 1..i : Opens(k)
    IN Cardinality({k \in 1..(first - 1) : ~Seen(k)})

CompressTags(points) ==
    [points |-> [i \in DOMAIN points |-> [tag_ref |-> TagRef(points, i), measurement |-> points[i].measurement,
                                          timestamp |-> points[i].timestamp, fields |-> points[i].fields]],
     tag_dictionary |-> [id \in {TagRef(points, i) : i \in DOMAIN points} |->
                            points[CHOOSE i \in DOMAIN points : TagRef(points, i) = id].tags]]

-----------------------------------------------------------------------------
\* A batch comes back with every value of the type it had, or does not go out
\* at all; and no change to the document on its way is read as another batch.
BatchRestored(points) ==
    LET doc == SerializeBatch(points)
        whole == \A i \in DOMAIN points : \A f \in DOMAIN points[i].fields : points[i].fields[f].kind # "none"
    IN IF ~whole THEN ~doc.ok
       ELSE /\ doc.ok /\ DeserializeBatch(doc.value) = Gives(points)
            /\ \A d \in Damaged(doc.value) \ {doc.value} : ~DeserializeBatch(d).ok

\* Docstring of compress_tags: each distinct set of tags is stored once, and
\* the reference of a point leads to its own.
TagsRestored(points) ==
    LET c == CompressTags(points)
    IN /\ \A i \in DOMAIN points : c.tag_dictionary[c.points[i].tag_ref] = points[i].tags
       /\ \A a, b \in DOMAIN c.tag_dictionary : c.tag_dictionary[a] = c.tag_dictionary[b] => a = b
       /\ DOMAIN c.tag_dictionary = 0..(Cardinality(DOMAIN c.tag_dictionary) - 1)
=============================================================================
