----------------------------- MODULE SeriesKeys -----------------------------
(***************************************************************************)
(* SeriesManager of src/tsdb/index/series_keys.py: the text that is the    *)
(* key of a series, and the ids given out for keys.  A text is a sequence  *)
(* of characters, numbers whose order is that of the characters.           *)
(***************************************************************************)
EXTENDS Integers, FiniteSets, SequencesExt

CONSTANTS
    Comma, Equals, Backslash,   \* characters
    MaxSeries,                  \* bound
    Series                      \* a set of [measurement, tags]: texts, and pairs of texts by key

Text == Seq(Int)

\* Names are texts, and the tags of a series a dict.
ASSUME SeriesAssumption ==
    /\ {Comma, Equals, Backslash} \subseteq Int
    /\ Comma # Equals /\ Comma # Backslash /\ Equals # Backslash
    /\ \A s \in Series :
          /\ s = [measurement |-> s.measurement, tags |-> s.tags]
          /\ s.measurement \in Text \ {<<>>}
          /\ s.tags \subseteq Text \X Text /\ IsFiniteSet(s.tags)
          /\ \A t, u \in s.tags : t[1] = u[1] => t = u

VARIABLES
    keys,      \* _id_to_key: the keys in the order of their ids
    given      \* series -> the ids get_or_create_id returned for it (history)

seriesVars == <<keys, given>>

SeriesInit == keys = <<>> /\ given = [s \in Series |-> {}]

\* Mutant of Escape: a backslash in a name stays alone.
EscapeSome(text) ==
    FlattenSeq([i \in DOMAIN text |->
        IF text[i] \in {Comma, Equals} THEN <<Backslash, text[i]>> ELSE <<text[i]>>])

\* _escape: what a name may not hold unmarked.
Escape(text) ==
    FlattenSeq([i \in DOMAIN text |->
        IF text[i] \in {Comma, Equals, Backslash} THEN <<Backslash, text[i]>> ELSE <<text[i]>>])

Before(a, b) ==
    \/ IsStrictPrefix(a, b)
    \/ \E i \in DOMAIN a \cap DOMAIN b : a[i] < b[i] /\ \A j \in 1..(i - 1) : a[j] = b[j]

Sorted(tags) ==
    [k \in 1..Cardinality(tags) |->
        CHOOSE t \in tags : Cardinality({u \in tags : Before(u[1], t[1])}) = k - 1]

\* make_series_key: tags in the order of their keys.
MakeSeriesKey(s) ==
    LET tags == Sorted(s.tags)
    IN Escape(s.measurement)
         \o FlattenSeq([i \in DOMAIN tags |->
                <<Comma>> \o Escape(tags[i][1]) \o <<Equals>> \o Escape(tags[i][2])])

\* get_or_create_id.
GetOrCreateId(s) ==
    LET key == MakeSeriesKey(s)
        id == IF key \in ToSet(keys) THEN CHOOSE i \in DOMAIN keys : keys[i] = key ELSE Len(keys) + 1
    IN /\ keys' = IF id > Len(keys) THEN Append(keys, key) ELSE keys
       /\ given' = [given EXCEPT ![s] = @ \cup {id}]

SeriesNext ==
    \E s \in Series : (given[s] # {} \/ Len(keys) < MaxSeries) /\ GetOrCreateId(s)

SeriesSpec == SeriesInit /\ [][SeriesNext]_seriesVars

-----------------------------------------------------------------------------
(* parse_series_key *)

\* A backslash goes and what is behind it stays.
Unmark(r, c) ==
    IF ~r.open /\ c = Backslash THEN [out |-> r.out, open |-> TRUE]
    ELSE [out |-> Append(r.out, c), open |-> FALSE]

Unescape(text) ==
    LET read[n \in 0..Len(text)] ==
            IF n = 0 THEN [out |-> <<>>, open |-> FALSE] ELSE Unmark(read[n - 1], text[n])
    IN read[Len(text)].out

\* Parts are split at commas that no backslash precedes, and lose their
\* backslashes on the way; then they are unescaped once more.
Split(r, c) ==
    IF ~r.open /\ c = Backslash THEN [parts |-> r.parts, part |-> r.part, open |-> TRUE]
    ELSE IF ~r.open /\ c = Comma THEN [parts |-> Append(r.parts, r.part), part |-> <<>>, open |-> FALSE]
    ELSE [parts |-> r.parts, part |-> Append(r.part, c), open |-> FALSE]

SplitParts(key) ==
    LET read[n \in 0..Len(key)] ==
            IF n = 0 THEN [parts |-> <<>>, part |-> <<>>, open |-> FALSE] ELSE Split(read[n - 1], key[n])
        end == read[Len(key)]
        parts == Append(end.parts, end.part)
    IN [i \in DOMAIN parts |-> Unescape(parts[i])]

\* What it gives: a pair is split at the first equals sign; without one it raises.
ParseSeriesKey(key) ==
    LET parts == SplitParts(key)
        At(p) == {i \in DOMAIN p : p[i] = Equals}
        Least(S) == CHOOSE i \in S : \A j \in S : i =< j
    IN IF \E i \in 2..Len(parts) : At(parts[i]) = {} THEN [ok |-> FALSE]
       ELSE [ok |-> TRUE, measurement |-> parts[1],
             tags |-> {<<SubSeq(parts[i], 1, Least(At(parts[i])) - 1),
                         SubSeq(parts[i], Least(At(parts[i])) + 1, Len(parts[i]))>> : i \in 2..Len(parts)}]

-----------------------------------------------------------------------------
\* A series has one id, and another series another one, whatever separators and
\* backslashes are in names and values.  The key gives the series back unless a
\* name holds a backslash, or the key of a tag an equals sign.
SeriesIdentified ==
    LET met == {s \in Series : given[s] # {}}
    IN /\ \A s, u \in met : given[s] \cap given[u] # {} => s = u
       /\ \A s \in met :
             /\ Cardinality(given[s]) = 1
             /\ (/\ \A t \in s.tags : Equals \notin ToSet(t[1]) /\ Backslash \notin ToSet(t[1]) \cup ToSet(t[2])
                 /\ Backslash \notin ToSet(s.measurement))
                => \A id \in given[s] : ParseSeriesKey(keys[id]) =
                       [ok |-> TRUE, measurement |-> s.measurement, tags |-> s.tags]
=============================================================================
