---------------------------- MODULE LineProtocol ----------------------------
(***************************************************************************)
(* A point with one tag of any value, a string field of any value and one   *)
(* more of each, written by DataPoint.to_line_protocol (serialization.py)  *)
(* and read back by LineProtocolParser (line_protocol.py).  A text is a     *)
(* sequence of characters; a name, a number or a word is one character.    *)
(***************************************************************************)
EXTENDS Integers, FiniteSets, SequencesExt

CONSTANTS
    Name,          \* the characters that names may have
    Number,        \* the characters that are numbers
    SecondDigits,  \* digits of a timestamp in seconds: 10
    UnitDigits,    \* digits that each smaller unit adds: 3
    Horizon        \* the latest timestamp parse_timestamp takes: now and a day

Backslash == "\\"
Quote == "\""
Separators == {" ", ",", "="}

\* What a parser gives, or ParseError, or ValueError of int() and float().
Gives(x) == [ok |-> TRUE, value |-> x]
ParseError == [ok |-> FALSE, error |-> "ParseError"]
ValueError == [ok |-> FALSE, error |-> "ValueError"]

-----------------------------------------------------------------------------
(* to_line_protocol *)

\* Mutant of Escape: the comma is not escaped.
EscapeTwo(s) == FlattenSeq([i \in DOMAIN s |-> IF s[i] \in {" ", "="} THEN <<Backslash, s[i]>> ELSE <<s[i]>>])

Escape(s) ==
    FlattenSeq([i \in DOMAIN s |-> IF s[i] \in Separators THEN <<Backslash, s[i]>> ELSE <<s[i]>>])

\* A field value is [type, text]: the text of a number or a word, or the string.
FieldText(v) ==
    CASE v.type = "boolean" -> v.text
      [] v.type = "integer" -> v.text \o <<"i">>
      [] v.type = "float" -> v.text
      [] v.type = "string" -> <<Quote>> \o Escape(v.text) \o <<Quote>>

\* key=value,key=value from pairs of texts.
Joined(pairs) ==
    FlattenSeq([i \in DOMAIN pairs |->
        (IF i = 1 THEN <<>> ELSE <<",">>) \o pairs[i][1] \o <<"=">> \o pairs[i][2]])

\* A point is [measurement, tags, fields, timestamp], tags and fields in order.
ToLineProtocol(p) ==
    LET tags == Joined([i \in DOMAIN p.tags |-> <<Escape(p.tags[i][1]), Escape(p.tags[i][2])>>])
        fields == Joined([i \in DOMAIN p.fields |->
                             <<Escape(p.fields[i][1]), FieldText(p.fields[i][2])>>])
    IN p.measurement \o (IF tags = <<>> THEN <<>> ELSE <<",">> \o tags)
           \o <<" ">> \o fields \o <<" ", p.timestamp>>

-----------------------------------------------------------------------------
(* LineProtocolParser *)

\* The pieces of s between the positions at, which are left out.
Pieces(s, at) ==
    LET cuts == {0, Len(s) + 1} \cup at
        Cut(k) == CHOOSE i \in cuts : Cardinality({j \in cuts : j < i}) = k
    IN [k \in 1..(Cardinality(cuts) - 1) |-> SubSeq(s, Cut(k - 1) + 1, Cut(k) - 1)]

First(n, S) == {i \in S : Cardinality({j \in S : j < i}) < n}

EvenQuotesBehind(s, i) == Cardinality({j \in (i + 1)..Len(s) : s[j] = Quote}) % 2 = 0
Escaped(s, i) == i > 1 /\ s[i - 1] = Backslash

\* The split patterns; between two parts of a line there is one space.
Parts(s) == Pieces(s, First(2, {i \in DOMAIN s : s[i] = " " /\ ~Escaped(s, i) /\ EvenQuotesBehind(s, i)}))
TagParts(s) == Pieces(s, {i \in DOMAIN s : s[i] = "," /\ ~Escaped(s, i)})
FieldParts(s) == Pieces(s, {i \in DOMAIN s : s[i] = "," /\ EvenQuotesBehind(s, i)})
KeyValue(s) == Pieces(s, First(1, {i \in DOMAIN s : s[i] = "="}))

Strip(s) ==
    LET kept == {i \in DOMAIN s : s[i] # " "}
    IN IF kept = {} THEN <<>>
       ELSE SubSeq(s, CHOOSE i \in kept : \A j \in kept : i =< j,
                      CHOOSE i \in kept : \A j \in kept : i >= j)

ValidName(s) == s # <<>> /\ ToSet(s) \subseteq Name

\* unescape_string: for a tag a backslash before a separator goes; in a field two
\* are one and one before a quote goes, from the left.
UnescapeTag(s) ==
    LET kept == {i \in DOMAIN s : ~(s[i] = Backslash /\ i < Len(s) /\ s[i + 1] \in Separators)}
        Nth(k) == CHOOSE i \in kept : Cardinality({j \in kept : j < i}) = k - 1
    IN [k \in 1..Cardinality(kept) |-> s[Nth(k)]]

UnescapeField(s) ==
    FoldLeft(LAMBDA r, c :
        IF r.open /\ c \in {Backslash, Quote} THEN [out |-> Append(Front(r.out), c), open |-> FALSE]
        ELSE [out |-> Append(r.out, c), open |-> c = Backslash],
        [out |-> <<>>, open |-> FALSE], s).out

DetectFieldType(s) ==
    CASE Last(s) = "i" -> IF Len(s) = 2 /\ s[1] \in Number
                          THEN Gives([type |-> "integer", text |-> Front(s)]) ELSE ValueError
      [] Last(s) # "i" /\ s[1] = Quote /\ Last(s) = Quote ->
            Gives([type |-> "string", text |-> UnescapeField(SubSeq(s, 2, Len(s) - 1))])
      [] s \in {<<"true">>, <<"false">>} -> Gives([type |-> "boolean", text |-> s])
      [] OTHER -> IF Len(s) = 1 /\ s[1] \in Number
                  THEN Gives([type |-> "float", text |-> s]) ELSE ValueError

\* All results are given, or the first that is not.
All(results) ==
    LET bad == {i \in DOMAIN results : ~results[i].ok}
    IN IF bad = {} THEN Gives([i \in DOMAIN results |-> results[i].value])
       ELSE results[CHOOSE i \in bad : \A j \in bad : i =< j]

ParseFields(s) ==
    LET Parse(kv) == LET both == KeyValue(kv)
                     IN IF Len(both) # 2 \/ ~ValidName(Strip(both[1])) \/ Strip(both[Len(both)]) = <<>>
                        THEN ParseError
                        ELSE LET v == DetectFieldType(Strip(both[2]))
                             IN IF v.ok THEN Gives(<<Strip(both[1]), v.value>>) ELSE v
        parts == SelectSeq([i \in DOMAIN FieldParts(s) |-> Strip(FieldParts(s)[i])],
                           LAMBDA x : x # <<>>)
    IN All([i \in DOMAIN parts |-> Parse(parts[i])])

ParseTags(parts) ==
    LET Parse(kv) == LET both == KeyValue(kv)
                     IN IF Len(both) # 2 \/ ~ValidName(Strip(both[1])) THEN ParseError
                        ELSE Gives(<<Strip(both[1]), UnescapeTag(Strip(both[2]))>>)
    IN All([i \in DOMAIN parts |-> Parse(parts[i])])

\* parse_line: the fields first, then the rest.  Tags and fields are dicts in the
\* code, here lists: no key is there twice.
ParseLine(line) ==
    LET parts == Parts(Strip(line))
        fields == ParseFields(parts[2])
        head == TagParts(parts[1])
        tags == ParseTags(Tail(head))
    IN CASE Len(parts) < 2 -> ParseError
         [] Len(parts) >= 2 /\ ~fields.ok -> fields
         [] Len(parts) >= 2 /\ fields.ok /\ ~ValidName(Strip(head[1])) -> ParseError
         [] Len(parts) >= 2 /\ fields.ok /\ ValidName(Strip(head[1])) ->
               IF ~tags.ok THEN tags
               ELSE Gives([measurement |-> Strip(head[1]), tags |-> tags.value, fields |-> fields.value,
                           timestamp |-> IF Len(parts) = 3 THEN parts[3][1] ELSE "none"])

-----------------------------------------------------------------------------
(* Timestamps, in the smallest unit *)

Unit == 10^UnitDigits
Digits(n) == CHOOSE d \in 1..(n + 1) : n < 10^d /\ (d = 1 \/ n >= 10^(d - 1))

\* Mutant of ParseTimestamp: a millisecond is taken for a microsecond.
ParseTimestampShifted(n) ==
    LET d == Digits(n)
        value == CASE d = SecondDigits -> n * Unit^3
                   [] d = SecondDigits + UnitDigits -> n * Unit
                   [] d = SecondDigits + 2 * UnitDigits -> n * Unit
                   [] d = SecondDigits + 3 * UnitDigits -> n
                   [] OTHER -> -1
    IN IF value = -1 \/ value > Horizon THEN ParseError ELSE Gives(value)

\* parse_timestamp: how many digits there are tells the unit.
ParseTimestamp(n) ==
    LET d == Digits(n)
        value == CASE d = SecondDigits -> n * Unit^3
                   [] d = SecondDigits + UnitDigits -> n * Unit^2
                   [] d = SecondDigits + 2 * UnitDigits -> n * Unit
                   [] d = SecondDigits + 3 * UnitDigits -> n
                   [] OTHER -> -1
    IN IF value = -1 \/ value > Horizon THEN ParseError ELSE Gives(value)

-----------------------------------------------------------------------------
(* Properties *)

\* A tag value without backslash or quote that does not end in a space, and a
\* string without either, are read back from the line with the other tag and
\* field: the tag value as it was, but the string with what escaped it, since
\* only tag values are unescaped of separators.
LineReadsBack(v, s) ==
    LET Point(t) == [measurement |-> <<"m">>, timestamp |-> "now",
                     tags |-> << <<<<"k">>, v>>, <<<<"j">>, <<"x">>>> >>,
                     fields |-> << <<<<"f">>, [type |-> "string", text |-> t]>>,
                                   <<<<"g">>, [type |-> "integer", text |-> <<"1">>]>>,
                                   <<<<"h">>, [type |-> "float", text |-> <<"1">>]>>,
                                   <<<<"b">>, [type |-> "boolean", text |-> <<"true">>]>> >>]
    IN (/\ {Backslash, Quote} \cap (ToSet(v) \cup ToSet(s)) = {}
        /\ v # <<>> => Last(v) # " ")
       => ParseLine(ToLineProtocol(Point(s))) = Gives(Point(Escape(s)))

\* A moment is read from each unit it is given in as what the digits say; later
\* than a day from now it is refused, and with fewer digits of seconds it is
\* refused or read as another one.
TimestampRead(t) ==
    LET early == t < 10^(SecondDigits + 3 * UnitDigits - 1)
    IN /\ (~early /\ t =< Horizon) =>
             \A k \in 0..3 : ParseTimestamp(t \div Unit^k) = Gives((t \div Unit^k) * Unit^k)
       /\ (~early /\ t > Horizon) => ParseTimestamp(t) = ParseError
       /\ early /\ ParseTimestamp(t).ok => ParseTimestamp(t).value # t
=============================================================================
