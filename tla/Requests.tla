------------------------------ MODULE Requests ------------------------------
(***************************************************************************)
(* The text of requests and answers: what Client of                        *)
(* src/tsdb/server/client.py writes and reads, what handle_request of       *)
(* error_handling.py makes of it, and the parsers of protocol.py.           *)
(*                                                                         *)
(* A text is a sequence of characters; a protocol version, a command and a *)
(* status are one character each.                                          *)
(***************************************************************************)
EXTENDS Integers, FiniteSets, SequencesExt

CONSTANTS
    VERSION, PING, WRITE, QUERY,   \* characters that stand for a word
    OK, ERROR,
    Digit, PathChar                \* characters of numbers; `/' and what else leads out of a directory

Space == " "
NewLine == "n"

-----------------------------------------------------------------------------
(* str methods *)

Join(parts, separator) ==
    FoldLeft(LAMBDA done, i : IF i = 1 THEN parts[1] ELSE done \o separator \o parts[i],
             <<>>, [i \in DOMAIN parts |-> i])

\* split(c)
SplitOn(text, c) ==
    LET cuts == [done |-> <<>>, word |-> <<>>]
        r == FoldLeft(LAMBDA acc, ch :
                          IF ch = c THEN [done |-> Append(acc.done, acc.word), word |-> <<>>]
                          ELSE [acc EXCEPT !.word = Append(@, ch)],
                      cuts, text)
    IN Append(r.done, r.word)

\* split(): runs of blanks separate, and none is at an end.
Words(text) ==
    LET blanks == [i \in DOMAIN text |-> IF text[i] = NewLine THEN Space ELSE text[i]]
    IN SelectSeq(SplitOn(blanks, Space), LAMBDA w : w # <<>>)

\* Mutant of Cut: the last "=".
CutLast(text) == CHOOSE k \in DOMAIN text : text[k] = "=" /\ \A j \in (k + 1)..Len(text) : text[j] # "="

\* Where split("=", 1) cuts a text with a "=".
Cut(text) == CHOOSE k \in DOMAIN text : text[k] = "=" /\ \A j \in 1..(k - 1) : text[j] # "="
KeyPart(text) == SubSeq(text, 1, Cut(text) - 1)
ValuePart(text) == SubSeq(text, Cut(text) + 1, Len(text))

\* dict: the last of the values a key is given.
Dict(pairs) ==
    [k \in {KeyPart(pairs[i]) : i \in DOMAIN pairs} |->
        LET last == CHOOSE i \in DOMAIN pairs :
                       /\ KeyPart(pairs[i]) = k
                       /\ \A j \in (i + 1)..Len(pairs) : KeyPart(pairs[j]) # k
        IN ValuePart(pairs[last])]

Pairs(d) == {<<k, d[k]>> : k \in DOMAIN d}
IsNumber(text) == text # <<>> /\ \A i \in DOMAIN text : text[i] \in Digit

-----------------------------------------------------------------------------
(* Client: a point is [measurement, tags, fields, ts], with pairs in lists *)

PairText(pair) == pair[1] \o <<"=">> \o pair[2]
Section(pairs) == Join([i \in DOMAIN pairs |-> PairText(pairs[i])], <<",">>)

\* Client.write; no timestamp is <<>>.
WriteText(p) ==
    <<VERSION, Space, WRITE, Space>> \o
    Join(<<p.measurement, Section(p.tags), Section(p.fields)>> \o (IF p.ts = <<>> THEN <<>> ELSE <<p.ts>>),
         <<Space>>)

-----------------------------------------------------------------------------
(* handle_request *)

Answered(code) == [code |-> code, call |-> "none"]

\* kv raises.
Broken(section) == \E i \in DOMAIN SplitOn(section, ",") : ~Contains(SplitOn(section, ",")[i], "=")

\* validate_write; what is left of its rules cannot fail for what was parsed.
Valid(measurement, tags) ==
    /\ \A i \in DOMAIN measurement : measurement[i] \notin PathChar
    /\ <<>> \notin DOMAIN tags

\* _parse_write_args, validate_write and the call of the handler.  A timestamp that
\* is no number raises a ValueError, before anything is validated.
HandleWrite(args) ==
    LET parts == Words(args)
    IN CASE Len(parts) < 3 -> Answered(400)
         [] Broken(parts[2]) \/ Broken(parts[3]) -> Answered(400)
         [] Len(parts) > 3 /\ ~IsNumber(parts[4]) -> Answered(500)
         [] ~Valid(parts[1], Dict(SplitOn(parts[2], ","))) -> Answered(400)
         [] OTHER -> [code |-> 200,
                      call |-> [measurement |-> parts[1],
                                tags |-> Pairs(Dict(SplitOn(parts[2], ","))),
                                fields |-> Pairs(Dict(SplitOn(parts[3], ","))),
                                ts |-> IF Len(parts) > 3 THEN parts[4] ELSE <<>>]]

\* _split_request and the dispatch; validate_query is about the text of the query.
HandleRequest(text) ==
    LET words == Words(text)
        Rest == SubSeq(text, CHOOSE k \in 0..Len(text) : Len(Words(SubSeq(text, 1, k))) = 2
                                                    /\ \A j \in 0..(k - 1) : Len(Words(SubSeq(text, 1, j))) < 2,
                       Len(text))
    IN CASE Len(words) < 2 \/ words[1] # <<VERSION>> -> Answered(400)
         [] words[2] = <<PING>> -> Answered(200)
         [] words[2] = <<WRITE>> -> HandleWrite(SubSeq(Rest, 2, Len(Rest)))
         [] words[2] = <<QUERY>> -> IF Len(words) = 2 THEN Answered(422) ELSE Answered(200)
         [] OTHER -> Answered(404)

-----------------------------------------------------------------------------
(* The answer: rows are lists of pairs, written by _row_to_line and make_ok *)

\* Mutant of AnswerText: commas between the fields of a row.
AnswerTextCommas(rows) ==
    Join(<<<<VERSION, Space, OK>>>> \o [i \in DOMAIN rows |-> Section(rows[i])], <<NewLine>>)

AnswerText(rows) ==
    Join(<<<<VERSION, Space, OK>>>> \o
         [i \in DOMAIN rows |-> Join([k \in DOMAIN rows[i] |-> PairText(rows[i][k])], <<Space>>)],
         <<NewLine>>)

\* _parse_status and the loop of Client.query; a word without "=" raises.
ReadRows(text) ==
    LET lines == SplitOn(text, NewLine)
        body == SubSeq(lines, 2, Len(lines))
    IN [raises |-> \E i \in DOMAIN body : \E k \in DOMAIN Words(body[i]) : ~Contains(Words(body[i])[k], "="),
        rows |-> [i \in DOMAIN body |->
                    Pairs(Dict(SelectSeq(Words(body[i]), LAMBDA w : Contains(w, "="))))]]

-----------------------------------------------------------------------------
(* protocol.py *)

\* build_request
BuildRequest(command, args) ==
    <<VERSION, Space, command>> \o (IF args = <<>> THEN <<>> ELSE <<Space>> \o args)

\* What rstrip("\n") leaves.
RStrip(text) ==
    SubSeq(text, 1, CHOOSE k \in 0..Len(text) :
                       /\ \A i \in (k + 1)..Len(text) : text[i] = NewLine
                       /\ k = 0 \/ text[k] # NewLine)

\* Mutant of ThirdPart: the third word only.
ThirdWord(text) == IF Len(Words(text)) < 3 THEN <<>> ELSE Words(text)[3]

\* What split(maxsplit=2) leaves as third part: blanks in front are gone.
ThirdPart(text) ==
    LET begins == {k \in DOMAIN text : Len(Words(SubSeq(text, 1, k))) = 3}
    IN IF begins = {} THEN <<>>
       ELSE SubSeq(text, CHOOSE k \in begins : \A j \in begins : k =< j, Len(text))

\* parse_request
ParseRequest(text) ==
    LET line == RStrip(text)
        words == Words(line)
    IN IF Len(words) < 2 \/ words[1] # <<VERSION>> \/ words[2] \notin {<<PING>>, <<WRITE>>, <<QUERY>>}
       THEN [error |-> TRUE, command |-> <<>>, args |-> <<>>]
       ELSE [error |-> FALSE, command |-> words[2], args |-> ThirdPart(line)]

\* format_response; the code is a number of one digit, 0 for none.
FormatResponse(status, code, body) ==
    Join(<<<<VERSION, Space, status>> \o
             (IF status = ERROR \/ code # "0" THEN <<Space, code>> ELSE <<>>)>> \o body, <<NewLine>>)

\* splitlines: a line break at the end begins no line.
Lines(text) ==
    LET lines == SplitOn(text, NewLine)
    IN IF Last(lines) = <<>> THEN Front(lines) ELSE lines

\* parse_response of what format_response can have written.
ParseResponse(text) ==
    LET lines == Lines(text)
        words == Words(lines[1])
    IN [status |-> words[2][1], code |-> IF Len(words) = 3 THEN words[3][1] ELSE "0",
        body |-> SubSeq(lines, 2, Len(lines))]

-----------------------------------------------------------------------------
(* Properties *)

Without(text, chars) == \A i \in DOMAIN text : text[i] \notin chars
PlainPair(pair) ==
    pair[1] # <<>> /\ Without(pair[1], {Space, NewLine, ",", "="}) /\ Without(pair[2], {Space, NewLine, ","})
PlainPairs(pairs) == pairs # <<>> /\ \A i \in DOMAIN pairs : PlainPair(pairs[i])
Distinct(pairs) == \A i, j \in DOMAIN pairs : pairs[i][1] = pairs[j][1] => i = j

\* The handler is called with the point the client was given, when no name or value
\* holds a separator; a point with no tags or no fields, or with a measurement that
\* is a path, is refused as the client's fault.
WriteCarried(p) ==
    LET answer == HandleRequest(WriteText(p))
        Plain == p.measurement # <<>> /\ Without(p.measurement, {Space, NewLine})
    IN /\ Plain /\ PlainPairs(p.tags) /\ PlainPairs(p.fields) /\ Distinct(p.tags) /\ Distinct(p.fields) =>
            IF Without(p.measurement, PathChar)
            THEN answer = [code |-> 200, call |-> [measurement |-> p.measurement,
                                                    tags |-> ToSet(p.tags), fields |-> ToSet(p.fields),
                                                    ts |-> p.ts]]
            ELSE answer = Answered(400)
       /\ Plain /\ ((p.tags = <<>> /\ PlainPairs(p.fields)) \/ (PlainPairs(p.tags) /\ p.fields = <<>>))
            => answer = Answered(400)

\* The rows the client returns are the rows of the answer, and it does not raise,
\* when no name or value holds a blank.
RowsCarried(rows) ==
    (\A i \in DOMAIN rows : PlainPairs(rows[i]) /\ Distinct(rows[i])) =>
        ReadRows(AnswerText(rows)) = [raises |-> FALSE, rows |-> [i \in DOMAIN rows |-> ToSet(rows[i])]]

\* protocol.py reads back what it writes, but for blanks around the arguments and
\* for empty lines at the end of a body.
EnvelopeReadBack(text) ==
    /\ text = <<>> \/ (text[1] \notin {Space, NewLine} /\ Last(text) # NewLine) =>
          \A command \in {PING, WRITE, QUERY} :
              ParseRequest(BuildRequest(command, text)) =
                  [error |-> FALSE, command |-> <<command>>, args |-> text]
    /\ LET body == SplitOn(text, NewLine)
       IN Last(body) # <<>> =>
            \A status \in {OK, ERROR}, code \in {"0", "4"} :
                ParseResponse(FormatResponse(status, code, body)) =
                    [status |-> status, code |-> code, body |-> body]
=============================================================================
