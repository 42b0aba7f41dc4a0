------------------------------- MODULE Codecs -------------------------------
(***************************************************************************)
(* The encoders of src/tsdb/storage/compression.py.  A byte is a number; a *)
(* byte of a varint holds a digit to Base, and Base more when another one   *)
(* follows.  A decoder gives values or raises ValueError.                  *)
(***************************************************************************)
EXTENDS Integers, FiniteSets, SequencesExt
LOCAL INSTANCE Bitwise

CONSTANTS
    Base,     \* 128 in the code
    Groups,   \* a decoder raises behind so many bytes that say another follows: 10
    Milli     \* ticks in a millisecond

Gives(values) == [ok |-> TRUE, values |-> values]
Raises == [ok |-> FALSE, values |-> <<>>]

Sums(first, deltas) == [i \in 1..(Len(deltas) + 1) |-> FoldLeft(+, first, SubSeq(deltas, 1, i - 1))]
Deltas(values) == [i \in 1..(Len(values) - 1) |-> values[i + 1] - values[i]]
MapSeq(Op(_), s) == [i \in DOMAIN s |-> Op(s[i])]

-----------------------------------------------------------------------------
(* Variable-length integers *)

EncodeVariableInt(n) ==
    LET k == CHOOSE k \in 1..(n + 1) : n < Base^k /\ (k = 1 \/ n >= Base^(k - 1))
    IN [i \in 1..k |-> ((n \div Base^(i - 1)) % Base) + (IF i < k THEN Base ELSE 0)]

Varint(value, shift) == [value |-> value, shift |-> shift]

Continued(v, byte) == Varint(v.value + (byte % Base) * Base^v.shift, v.shift + 1)

\* All varints of data: each ends with a byte below Base.
Varints(data) ==
    LET end == FoldLeft(LAMBDA s, byte :
                   LET next == Continued(s.v, byte)
                   IN IF ~s.ok THEN s
                      ELSE IF byte < Base
                      THEN [s EXCEPT !.out = Append(@, next.value), !.v = Varint(0, 0)]
                      ELSE [s EXCEPT !.v = next, !.ok = next.shift < Groups],
                   [ok |-> TRUE, v |-> Varint(0, 0), out |-> <<>>], data)
    IN IF end.ok /\ end.v.shift = 0 THEN Gives(end.out) ELSE Raises

EncodeAll(ns) == FlattenSeq(MapSeq(EncodeVariableInt, ns))

ZigZag(n) == IF n >= 0 THEN 2 * n ELSE -2 * n - 1
UnZigZag(n) == IF n % 2 = 0 THEN n \div 2 ELSE -((n + 1) \div 2)

-----------------------------------------------------------------------------
(* DeltaEncoder *)

\* Mutant of EncodeIntegers: the differences are taken from the first value.
EncodeFromFirst(values) ==
    EncodeAll([i \in DOMAIN values |-> ZigZag(IF i = 1 THEN values[1] ELSE values[i] - values[1])])

EncodeIntegers(values) ==
    IF values = <<>> THEN <<>>
    ELSE EncodeAll(MapSeq(ZigZag, <<values[1]>> \o Deltas(values)))

DecodeIntegers(data) ==
    LET read == Varints(data)
        ns == MapSeq(UnZigZag, read.values)
    IN IF data = <<>> THEN Gives(<<>>)
       ELSE IF read.ok THEN Gives(Sums(ns[1], Tail(ns))) ELSE Raises

\* int(round(ts * 1000)): halves go to the even neighbour.
RoundMs(t) ==
    LET q == t \div Milli
    IN IF 2 * (t % Milli) < Milli \/ (2 * (t % Milli) = Milli /\ q % 2 = 0) THEN q ELSE q + 1

\* Mutant of EncodeTimestamps: it is the differences that are rounded.
EncodeRoundedDeltas(ts) ==
    IF ts = <<>> THEN <<>>
    ELSE <<ts[1]>> \o EncodeAll(MapSeq(LAMBDA d : ZigZag(RoundMs(d)), Deltas(ts)))

\* The first timestamp as it is, in front of the bytes; a missing one raises.
EncodeTimestamps(ts) ==
    IF ts = <<>> THEN <<>>
    ELSE <<ts[1]>> \o EncodeAll(MapSeq(ZigZag, Deltas(MapSeq(RoundMs, ts))))

DecodeTimestamps(data) ==
    IF data = <<>> THEN Gives(<<>>)
    ELSE LET read == Varints(Tail(data))
             ms == Sums(RoundMs(data[1]), MapSeq(UnZigZag, read.values))
         IN IF read.ok
            THEN Gives([i \in DOMAIN ms |-> IF i = 1 THEN data[1] ELSE ms[i] * Milli])
            ELSE Raises

-----------------------------------------------------------------------------
(* RunLengthEncoder, over values [text : Seq(bytes), class]; values of one    *)
(* class are equal in Python, as True and 1 are, whatever their text          *)

Runs(values) ==
    FoldLeft(LAMBDA runs, v :
        IF runs # <<>> /\ Last(runs).value.class = v.class
        THEN [runs EXCEPT ![Len(runs)].count = @ + 1]
        ELSE Append(runs, [value |-> v, count |-> 1]), <<>>, values)

\* Mutant of EncodeValues: the last run is not flushed.
EncodeValuesUnflushed(values) ==
    LET runs == IF values = <<>> THEN <<>> ELSE Front(Runs(values))
    IN FlattenSeq(MapSeq(LAMBDA r : EncodeVariableInt(r.count) \o r.value.text \o <<0>>, runs))

EncodeValues(values) ==
    FlattenSeq(MapSeq(LAMBDA r : EncodeVariableInt(r.count) \o r.value.text \o <<0>>, Runs(values)))

\* A count, then the text up to the next NUL, as often as the count says.
DecodeValues(data) ==
    LET end == FoldLeft(LAMBDA s, byte :
                   LET next == Continued(s.v, byte)
                   IN CASE ~s.ok -> s
                        [] s.ok /\ ~s.counted /\ byte < Base -> [s EXCEPT !.counted = TRUE, !.v = next]
                        [] s.ok /\ ~s.counted /\ byte >= Base -> [s EXCEPT !.v = next, !.ok = next.shift < Groups]
                        [] s.ok /\ s.counted /\ byte # 0 -> [s EXCEPT !.text = Append(@, byte)]
                        [] s.ok /\ s.counted /\ byte = 0 ->
                              [s EXCEPT !.out = @ \o [i \in 1..s.v.value |-> s.text],
                                        !.counted = FALSE, !.v = Varint(0, 0), !.text = <<>>],
                   [ok |-> TRUE, counted |-> FALSE, v |-> Varint(0, 0), text |-> <<>>, out |-> <<>>], data)
    IN IF end.ok /\ ~end.counted /\ end.v.shift = 0 THEN Gives(end.out) ELSE Raises

\* The numbers analyze_runs derives the others from.
AnalyzeRuns(values) ==
    [total_values |-> Len(values), total_runs |-> Len(Runs(values)),
     unique_values |-> Cardinality({values[i].class : i \in DOMAIN values})]

-----------------------------------------------------------------------------
(* GorillaCompressor, over bit patterns; DictionaryCompressor *)

EncodeFloats(bits) ==
    IF bits = <<>> THEN <<>>
    ELSE <<Len(bits), bits[1]>>
            \o EncodeAll([i \in 1..(Len(bits) - 1) |-> bits[i + 1] ^^ bits[i]])

\* Mutant of Complete: bytes behind the last value are ignored.
AtLeast(read, n) == read.ok /\ Len(read.values) >= n

Complete(read, n) == read.ok /\ Len(read.values) = n

\* As many values as the header says, and nothing behind them.
DecodeFloats(data) ==
    LET read == Varints(SubSeq(data, 3, Len(data)))
        Bits[i \in 1..data[1]] == IF i = 1 THEN data[2] ELSE Bits[i - 1] ^^ read.values[i - 1]
    IN IF data = <<>> THEN Gives(<<>>)
       ELSE IF Len(data) < 2 THEN Raises
       ELSE IF data[1] = 0 THEN Gives(<<>>)
       ELSE IF Complete(read, data[1] - 1)
       THEN Gives([i \in 1..data[1] |-> Bits[i]]) ELSE Raises

\* The index of a string is the number of strings met before it.
StringIndex(strings, s) ==
    LET first == CHOOSE i \in DOMAIN strings : strings[i] = s /\ \A j \in 1..(i - 1) : strings[j] # s
    IN Cardinality({strings[j] : j \in 1..(first - 1)})

EncodeStrings(strings) ==
    [data |-> EncodeAll(MapSeq(LAMBDA s : StringIndex(strings, s), strings)),
     dictionary |-> [n \in {StringIndex(strings, s) : s \in ToSet(strings)} |->
                        CHOOSE s \in ToSet(strings) : StringIndex(strings, s) = n]]

\* Mutant of DecodeStrings: indexes from one.
DecodeStringsFromOne(data, dictionary) ==
    LET read == Varints(data)
    IN IF read.ok /\ \A i \in DOMAIN read.values : read.values[i] - 1 \in DOMAIN dictionary
       THEN Gives(MapSeq(LAMBDA n : dictionary[n - 1], read.values)) ELSE Raises

DecodeStrings(data, dictionary) ==
    LET read == Varints(data)
    IN IF read.ok /\ ToSet(read.values) \subseteq DOMAIN dictionary
       THEN Gives(MapSeq(LAMBDA n : dictionary[n], read.values)) ELSE Raises

-----------------------------------------------------------------------------
(* Properties of a list *)

\* What a payload gives once it is cut anywhere: it raises, or some of the values.
CutGives(Decode(_), data, values) ==
    \A k \in 0..Len(data) :
        LET read == Decode(SubSeq(data, 1, k))
        IN read.ok => IsPrefix(read.values, values)

\* A list of integers is decoded as it was, and when a difference is too large
\* for the decoder it raises rather than give other numbers.
IntegersSurvive(values) ==
    LET data == EncodeIntegers(values)
        fits == \A n \in ToSet(Deltas(values)) \cup {values[i] : i \in DOMAIN values \cap {1}} : ZigZag(n) < Base^Groups
    IN /\ DecodeIntegers(data) = IF fits THEN Gives(values) ELSE Raises
       /\ CutGives(DecodeIntegers, data, values)

\* Timestamps come back within half a millisecond, however many there are, and
\* as they were when they are whole milliseconds; the first always does.
TimestampsSurvive(ts) ==
    LET data == EncodeTimestamps(ts)
        read == DecodeTimestamps(data)
        Near(a, b) == 2 * (a - b) =< Milli /\ 2 * (b - a) =< Milli
    IN /\ read.ok => /\ Len(read.values) = Len(ts)
                     /\ \A i \in DOMAIN ts : /\ Near(read.values[i], ts[i])
                                             /\ ts[i] % Milli = 0 => read.values[i] = ts[i]
                     /\ ts # <<>> => read.values[1] = ts[1]
       /\ (\A n \in ToSet(Deltas(MapSeq(RoundMs, ts))) : ZigZag(n) < Base^Groups) => read.ok

\* Runs come back as the texts of the values they began with: as the texts that
\* went in, unless equal values have different texts or a text holds a NUL.  The
\* analysis counts the runs that are written.
RunsSurvive(values) ==
    LET data == EncodeValues(values)
        texts == MapSeq(LAMBDA v : v.text, values)
        plain == \A v \in ToSet(values) : 0 \notin ToSet(v.text)
        first == [i \in DOMAIN values |->
                    texts[CHOOSE j \in 1..i : /\ \A k \in j..i : values[k].class = values[i].class
                                              /\ j = 1 \/ values[j - 1].class # values[i].class]]
    IN plain => /\ DecodeValues(data) = Gives(first)
                /\ CutGives(DecodeValues, data, first)
                /\ Cardinality({i \in DOMAIN data : data[i] = 0}) = AnalyzeRuns(values).total_runs

\* Floats come back bit by bit, and a payload with a byte less or more raises.
FloatsSurvive(bits) ==
    LET data == EncodeFloats(bits)
    IN /\ DecodeFloats(data) = Gives(bits)
       /\ \A k \in 1..(Len(data) - 1) : ~DecodeFloats(SubSeq(data, 1, k)).ok
       /\ bits # <<>> => \A byte \in 0..(2 * Base - 1) : ~DecodeFloats(Append(data, byte)).ok

\* Strings come back from the indexes and the dictionary, which holds each once.
StringsSurvive(strings) ==
    LET e == EncodeStrings(strings)
    IN /\ DecodeStrings(e.data, e.dictionary) = Gives(strings)
       /\ DOMAIN e.dictionary = 0..(Cardinality(ToSet(strings)) - 1)
       /\ CutGives(LAMBDA d : DecodeStrings(d, e.dictionary), e.data, strings)
=============================================================================
