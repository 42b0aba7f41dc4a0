---------------------------- MODULE MCAlgorithms ----------------------------
(***************************************************************************)
(* The algorithms without state, over all inputs up to a length: a subject *)
(* is chosen, and its input, a list, grows by one element a step.          *)
(***************************************************************************)
EXTENDS Algorithms, TLC

C == INSTANCE Codecs WITH Base <- 2, Groups <- 3, Milli <- 2

\* Two digits a unit; a second is a number of one digit.
L == INSTANCE LineProtocol WITH
        Name <- {"m", "k", "j", "f", "g", "h", "b", "x"}, Number <- {"1"},
        SecondDigits <- 1, UnitDigits <- 2, Horizon <- 5000000

\* A float has three significant digits to the base 2; ties go to the even one.
MCRounded(n) ==
    LET m == IF n < 0 THEN -n ELSE n
        unit == CHOOSE u \in {1, 2, 4, 8, 16} : m < 8 * u /\ (u = 1 \/ m >= 4 * u)
        up == 2 * (m % unit) > unit \/ (2 * (m % unit) = unit /\ (m \div unit) % 2 = 1)
        r == (m \div unit + IF up THEN 1 ELSE 0) * unit
    IN IF n < 0 THEN -r ELSE r

\* Months of two, one and three days of two hours; a month counts as two days.
MCMonthStart == <<0, 16, 24, 48>>

E == INSTANCE QueryExecution
O == INSTANCE QueryPlan

\* One letter for each keyword; x is the one identifier, and an aggregation.
MCKeyword(word) ==
    CASE word = <<"S">> -> "select" [] word = <<"F">> -> "from" [] word = <<"W">> -> "where"
      [] word = <<"A">> -> "and" [] word = <<"G">> -> "group" [] word = <<"B">> -> "by"
      [] OTHER -> ""
Q == INSTANCE QueryParser WITH
        Letters <- {"S", "F", "W", "A", "G", "B", "x"}, Digits <- {"1"},
        Keyword <- MCKeyword, AGG_FUNCS <- {<<"x">>}

R == INSTANCE Requests WITH
        VERSION <- "V", PING <- "P", WRITE <- "W", QUERY <- "Q", OK <- "O", ERROR <- "E",
        Digit <- {"1", "4", "0"}, PathChar <- {"/"}

-----------------------------------------------------------------------------
(* Elements of the lists *)

\* Two texts of one value, and one of another.
RunValues == {[text |-> <<1>>, class |-> 1], [text |-> <<2, 1>>, class |-> 1], [text |-> <<1>>, class |-> 2]}

Value(kind, n) == [kind |-> kind, n |-> n]
BatchPoints ==
    {[measurement |-> "m", timestamp |-> t, tags |-> tags, fields |-> fields] :
        t \in {0, 1},
        tags \in {<<>>, [r |-> Value("str", 1)], [r |-> Value("str", 2)]},
        fields \in {[x |-> Value("bool", 1)], [x |-> Value("int", 1)], [x |-> Value("none", 0)],
                    [x |-> Value("float", 0), y |-> Value("str", 1)]}}

\* Around the powers of ten, and around the horizon.
Stamps == {1, 9, 10, 99, 100, 999, 1000, 12345, 99999, 100000, 999999, 1000000, 1234567,
           4999999, 5000000, 5000001, 9999999}

Num(n) == [t |-> "num", n |-> n]
QueryPoint(ts, tags, f) == [ts |-> ts, tags |-> tags, fields |-> f]
QueryPoints ==
    {QueryPoint(0, <<>>, "f" :> Num(1)), QueryPoint(1, "r" :> 1, "f" :> Num(2)),
     QueryPoint(2, "r" :> 2 @@ "h" :> 1, "f" :> Num(-1) @@ "g" :> Num(1)),
     QueryPoint(1, "r" :> 1 @@ "h" :> 2, "f" :> [t |-> "bool", n |-> 1]),
     QueryPoint(2, "r" :> 2 @@ "h" :> 2, "g" :> [t |-> "str", n |-> 1]),
     QueryPoint(0, "r" :> 2, "f" :> [t |-> "nan", n |-> 0])}
Comparison(on_tag, key, op, value) ==
    [kind |-> "comparison", on_tag |-> on_tag, key |-> key, op |-> op, value |-> value]
Leaves == {Comparison(TRUE, "r", "=", [t |-> "str", n |-> 1]), Comparison(TRUE, "h", "<", [t |-> "str", n |-> 2]),
           Comparison(TRUE, "r", "<", Num(1)),
           Comparison(FALSE, "f", ">", Num(0)), Comparison(FALSE, "g", "<=", Num(1))}
Nodes(children) == {[kind |-> k, children |-> c] : k \in {"and", "or"}, c \in children}
Predicates == LET twos == Nodes({<<a, b>> : a \in Leaves, b \in Leaves})
              IN Leaves \cup twos \cup Nodes({<<a, b>> : a \in Leaves, b \in twos})
Queries == [agg : E!Agg, field : {"f"}, group_by : {<<>>, <<"r">>, <<"r", "h">>},
            conditions : {<<>>, <<Comparison(FALSE, "f", ">=", Num(1))>>,
                          <<Comparison(TRUE, "r", "=", [t |-> "str", n |-> 1]), Comparison(FALSE, "f", "<", Num(2))>>}]

Stage(type) == [type |-> type, on_tag |-> FALSE, keep |-> 0, limit |-> 0]
Filter(on_tag, keep) == [Stage("filter") EXCEPT !.on_tag = on_tag, !.keep = keep]
Stages == {Stage("group"), Stage("aggregate"), [Stage("limit") EXCEPT !.limit = 16],
           Filter(TRUE, 1), Filter(FALSE, 1), Filter(FALSE, 2)}

Tokens == {Q!Token(MCKeyword(<<w>>), <<w>>) : w \in {"S", "F", "W", "A", "G", "B"}}
          \cup {Q!Token("ident", <<"x">>), Q!Token("op", <<"=">>), Q!Token("number", <<"1">>)}
          \cup {Q!Token(c, <<c>>) : c \in {"(", ")", ","}}
TokenChars == {"S", "x", "1", "-", ".", "'", "=", "!", "<", "(", ",", " ", "?"}

\* What is enumerated for each subject: the elements, and how many of them.
MCInputs ==
    [integers |-> [of |-> {-3, -1, 0, 1, 2, 3}, upto |-> 4],
     timestamps |-> [of |-> 0..7, upto |-> 4],
     runs |-> [of |-> RunValues, upto |-> 4],
     floats |-> [of |-> 0..7, upto |-> 4],
     strings |-> [of |-> {"a", "b", "c"}, upto |-> 4],
     batches |-> [of |-> BatchPoints, upto |-> 3],
     lines |-> [of |-> {"x", " ", ",", "=", L!Backslash, L!Quote}, upto |-> 4],
     stamps |-> [of |-> Stamps, upto |-> 1],
     moments |-> [of |-> Moments, upto |-> 2],
     windows |-> [of |-> (-4)..5 \cup {-7, 8, 14}, upto |-> 3],
     values |-> [of |-> {-1, 0, 1, 3, 5, 8, 11, 14}, upto |-> 4],
     counters |-> [of |-> {0, 2, 3} \X (0..3), upto |-> 4],
     points |-> [of |-> QueryPoints, upto |-> 3],
     plans |-> [of |-> Stages, upto |-> 5],
     tokens |-> [of |-> Tokens, upto |-> 20],
     texts |-> [of |-> TokenChars, upto |-> 4],
     requests |-> [of |-> {"x", "1", "/", ",", "=", R!Space, R!NewLine}, upto |-> 4]]

\* Tokens that cannot become a query are not continued.
Next ==
    /\ subject = "tokens" => Q!ErrorAt(input) \in {0, Len(input) + 1}
    /\ Grow

Spec == InputsInit /\ [][Next]_<<subject, input>>
-----------------------------------------------------------------------------
(* Properties: those of the modules, of every input *)

\* No encoder changes what it is given unseen: integers, floats and strings come
\* back as they were or the decoder raises, for a payload cut anywhere too;
\* timestamps within half a millisecond, with no error that adds up; runs as the
\* texts they began with.
CodecsReadBack ==
    CASE subject = "integers" -> C!IntegersSurvive(input)
      [] subject = "timestamps" -> C!TimestampsSurvive(input)
      [] subject = "runs" -> C!RunsSurvive(input)
      [] subject = "floats" -> C!FloatsSurvive(input)
      [] subject = "strings" -> C!StringsSurvive(input)
      [] OTHER -> TRUE

\* to_line_protocol and parse_line, with the text as a tag value and a part of it
\* as a string field; a moment is read the same in every unit.
LineReadsBack ==
    /\ subject = "lines" => \A k \in 0..Len(input) :
           L!LineReadsBack(input, SubSeq(input, 1, k)) /\ L!LineReadsBack(SubSeq(input, 1, k), input)
    /\ subject = "stamps" => \A t \in ToSet(input) : L!TimestampRead(t)

\* However a query is run there is one answer: split_for_pushdown keeps the points
\* the whole predicate keeps, but for exceptions it uncovers or hides; engine,
\* aggregators and group engine agree.
OneAnswer ==
    subject = "points" =>
        /\ Len(input) = 1 => \A p \in Predicates : E!PushdownExact(p, input[1])
        /\ \A q \in Queries : E!OneAnswer(input, q)

\* QueryOptimizer: what is left of a plan, and when it costs no more.
PlanKept == subject = "plans" => O!PlanKept(<<Stage("scan")>> \o input, 1024)

\* Parser and tokenize: what is accepted is a query, token by token; no character
\* is lost, and tokens written apart are the same tokens.
ParsesExactly ==
    /\ subject = "tokens" => Q!ParsesExactly(input, Tokens)
    /\ subject = "texts" => Q!TokensReadBack(input)

\* Client to server and back: the text in any place of a point reaches the handler,
\* in any place of a row the caller, and protocol.py reads back what it writes.
TextsCarried ==
    LET x == <<"x">>
        Points == {[measurement |-> m, tags |-> tags, fields |-> fields, ts |-> ts] :
                      m \in {x, input},
                      tags \in {<<>>, <<<<input, x>>>>, <<<<x, input>>, <<<<"1">>, x>>>>},
                      fields \in {<<>>, <<<<x, x>>>>, <<<<x, input>>>>, <<<<x, x>>, <<input, <<"1">>>>>>},
                      ts \in {<<>>, <<"1">>}}
        Rows == {<<>>, <<<<<<x, input>>>>>>, <<<<<<x, x>>, <<input, x>>>>, <<<<x, input>>>>>>}
    IN subject = "requests" => /\ \A p \in Points : R!WriteCarried(p)
                               /\ \A rows \in Rows : R!RowsCarried(rows)
                               /\ R!EnvelopeReadBack(input)
=============================================================================
