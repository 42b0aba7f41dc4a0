---------------------------- MODULE QueryParser ----------------------------
(***************************************************************************)
(* tokenize and Parser of src/tsdb/server/query_parser.py.  A text is a     *)
(* sequence of characters, a token [type, text]; the keywords are given in  *)
(* lower case and one character stands for a keyword or an aggregation.     *)
(***************************************************************************)
EXTENDS Integers, FiniteSets, SequencesExt

CONSTANTS
    Letters, Digits,       \* characters of identifiers and of numbers
    Keyword(_),            \* what word an identifier is the keyword of, or ""
    AGG_FUNCS              \* identifiers that name an aggregation

-----------------------------------------------------------------------------
(* tokenize *)

At(text, i) == IF i =< Len(text) THEN text[i] ELSE ""

\* How far a run of characters of a set goes on from position i.
RunEnd(text, i, set) ==
    CHOOSE e \in i..(Len(text) + 1) :
        At(text, e) \notin set /\ \A k \in i..(e - 1) : text[k] \in set

\* Where a match of each type at i ends; i is no match.
StringEnd(text, i) ==
    LET quotes == {k \in (i + 1)..Len(text) : text[k] = "'"}
    IN IF text[i] = "'" /\ quotes # {} THEN 1 + CHOOSE k \in quotes : \A l \in quotes : k =< l
       ELSE i

NumberEnd(text, i) ==
    LET first == IF text[i] = "-" THEN i + 1 ELSE i
        whole == RunEnd(text, first, Digits)
        fraction == IF At(text, whole) = "." THEN RunEnd(text, whole + 1, Digits) ELSE whole
    IN IF whole = first THEN i ELSE IF fraction > whole + 1 THEN fraction ELSE whole

\* Mutant of OpEnd: the alternatives of one character come first.
OpEndShort(text, i) == IF text[i] \in {"=", "<", ">"} THEN i + 1 ELSE
                       IF text[i] = "!" /\ At(text, i + 1) = "=" THEN i + 2 ELSE i

OpEnd(text, i) ==
    CASE text[i] \in {"!", "<", ">"} /\ At(text, i + 1) = "=" -> i + 2
      [] text[i] \in {"=", "<", ">"} -> i + 1
      [] OTHER -> i

IdentEnd(text, i) == IF text[i] \in Letters THEN RunEnd(text, i, Letters \cup Digits) ELSE i

Token(type, text) == [type |-> type, text |-> text]

\* One iteration of tokenize at i: the token, and where the next begins.
TokenAt(text, i) ==
    LET Slice(e) == SubSeq(text, i, e - 1)
    IN CASE StringEnd(text, i) > i ->
              [to |-> StringEnd(text, i), token |-> Token("string", Slice(StringEnd(text, i)))]
         [] NumberEnd(text, i) > i ->
              [to |-> NumberEnd(text, i), token |-> Token("number", Slice(NumberEnd(text, i)))]
         [] OpEnd(text, i) > i -> [to |-> OpEnd(text, i), token |-> Token("op", Slice(OpEnd(text, i)))]
         [] text[i] \in {"(", ")", ","} -> [to |-> i + 1, token |-> Token(text[i], <<text[i]>>)]
         [] IdentEnd(text, i) > i ->
              LET word == Slice(IdentEnd(text, i))
              IN [to |-> IdentEnd(text, i),
                  token |-> IF Keyword(word) # "" THEN Token(Keyword(word), word)
                            ELSE Token("ident", word)]
         [] text[i] = " " -> [to |-> i + 1, token |-> Token("space", <<>>)]
         [] OTHER -> [to |-> 0, token |-> Token("error", <<>>)]

RECURSIVE TokensFrom(_, _)
TokensFrom(text, i) ==
    IF i > Len(text) THEN <<>>
    ELSE LET step == TokenAt(text, i)
         IN CASE step.token.type = "error" -> <<step.token>>
              [] step.token.type = "space" -> TokensFrom(text, step.to)
              [] OTHER -> <<step.token>> \o TokensFrom(text, step.to)

Tokenize(text) == TokensFrom(text, 1)

-----------------------------------------------------------------------------
(* Parser: a result is a query, or says at which token the ParseError is *)

\* _expect and _peek
Has(tokens, i, type) == i =< Len(tokens) /\ tokens[i].type = type

\* The first position from which a repetition of n tokens is not continued by `more'.
LoopEnd(tokens, i, n, more) ==
    LET Continued(k) == Has(tokens, i + (n + 1) * k - 1, more)
    IN CHOOSE k \in 1..(Len(tokens) + 1) : ~Continued(k) /\ \A j \in 1..(k - 1) : Continued(j)

\* _parse_where from i: the number of its conditions.
NumConditions(tokens, i) == IF Has(tokens, i, "where") THEN LoopEnd(tokens, i + 1, 3, "and") ELSE 0
GroupPosition(tokens, i) == i + 4 * NumConditions(tokens, i)

\* Mutant of NumTags: GROUP BY takes one tag.
NumTagsOne(tokens, g) == IF Has(tokens, g, "group") THEN 1 ELSE 0

\* _parse_group_by from g: the number of its tags.
NumTags(tokens, g) == IF Has(tokens, g, "group") THEN LoopEnd(tokens, g + 2, 1, ",") ELSE 0

EndPosition(tokens, g) == IF Has(tokens, g, "group") THEN g + 1 + 2 * NumTags(tokens, g) ELSE g

\* What the parser expects at each position, given the loops it has gone through.
Expected(tokens) ==
    LET g == GroupPosition(tokens, 8)
        end == EndPosition(tokens, g)
        Fits(i) ==
            CASE i = 1 -> Has(tokens, i, "select")
              [] i = 2 -> Has(tokens, i, "ident") /\ tokens[i].text \in AGG_FUNCS
              [] i = 3 -> Has(tokens, i, "(")
              [] i \in {4, 7} -> Has(tokens, i, "ident")
              [] i = 5 -> Has(tokens, i, ")")
              [] i = 6 -> Has(tokens, i, "from")
              [] i \in 8..(g - 1) /\ i % 4 = 1 -> Has(tokens, i, "ident")
              [] i \in 8..(g - 1) /\ i % 4 = 2 -> Has(tokens, i, "op")
              [] i \in 8..(g - 1) /\ i % 4 = 3 -> Has(tokens, i, "string") \/ Has(tokens, i, "number")
              [] i = g + 1 -> Has(tokens, i, "by")
              [] i > g + 1 /\ (i - g) % 2 = 0 -> Has(tokens, i, "ident")
              [] OTHER -> TRUE   \* where, group, and the `and' and commas that LoopEnd has seen
    IN [i \in 1..(end - 1) |-> Fits(i)]

\* parse: 0 when the tokens are a query, else the position where it raises; one
\* behind the last token is `unexpected end of query'.
ErrorAt(tokens) ==
    LET fits == Expected(tokens)
        wrong == {i \in DOMAIN fits : ~fits[i]}
    IN IF wrong # {} THEN CHOOSE i \in wrong : \A j \in wrong : i =< j
       ELSE IF Len(tokens) > Len(fits) THEN Len(fits) + 1 ELSE 0

\* The Query of tokens that have no error.
Parsed(tokens) ==
    LET g == GroupPosition(tokens, 8)
    IN [agg |-> tokens[2].text, field |-> tokens[4].text, measurement |-> tokens[7].text,
        conditions |-> [k \in 1..NumConditions(tokens, 8) |-> SubSeq(tokens, 5 + 4 * k, 7 + 4 * k)],
        group_by |-> [k \in 1..NumTags(tokens, g) |-> tokens[g + 2 * k].text]]

-----------------------------------------------------------------------------
(* Properties *)

Ident(text) == Token("ident", text)
Word(type) == Token(type, CHOOSE w \in {<<l>> : l \in Letters} : Keyword(w) = type)
Separated(parts, separator) ==
    FoldLeft(LAMBDA done, part : IF done = <<>> THEN part ELSE done \o <<separator>> \o part, <<>>, parts)

\* The tokens a query is written with.
Written(q) ==
    <<Word("select"), Ident(q.agg), Token("(", <<"(">>), Ident(q.field), Token(")", <<")">>),
      Word("from"), Ident(q.measurement)>>
    \o (IF q.conditions = <<>> THEN <<>>
        ELSE <<Word("where")>> \o Separated(q.conditions, Word("and")))
    \o (IF q.group_by = <<>> THEN <<>>
        ELSE <<Word("group"), Word("by")>>
                \o Separated([k \in DOMAIN q.group_by |-> <<Ident(q.group_by[k])>>], Token(",", <<",">>)))

\* A query with one condition or one tag more.
Extended(q) ==
    {[q EXCEPT !.group_by = Append(@, q.field)],
     [q EXCEPT !.conditions = Append(@, <<Ident(q.field), Token("op", <<"=">>), Token("number", <<>>)>>)]}

\* What the parser accepts is a query, written down token by token: nothing is
\* left out or read twice, and with one condition or tag more it is accepted as
\* that query.  An error within the tokens stays one, whatever follows.
ParsesExactly(tokens, more) ==
    LET at == ErrorAt(tokens)
    IN /\ at = 0 => /\ Written(Parsed(tokens)) = tokens /\ Parsed(tokens).agg \in AGG_FUNCS
                    /\ \A q \in Extended(Parsed(tokens)) :
                          ErrorAt(Written(q)) = 0 /\ Parsed(Written(q)) = q
       /\ at \in 1..Len(tokens) => \A t \in more : ErrorAt(Append(tokens, t)) = at
       /\ at > Len(tokens) => at = Len(tokens) + 1

OPERATORS == {<<"=">>, <<"!", "=">>, <<"<">>, <<"<", "=">>, <<">">>, <<">", "=">>}

Spaced(tokens) == FlattenSeq([i \in DOMAIN tokens |-> tokens[i].text \o <<" ">>])

\* The tokens of a text hold all its characters but spaces outside quotes, and
\* written apart they are read again as the same tokens; an operator is one token.
TokensReadBack(text) ==
    LET tokens == Tokenize(text)
        NoSpace(s) == SelectSeq(s, LAMBDA c : c # " ")
    IN (\A i \in DOMAIN tokens : tokens[i].type # "error") =>
         /\ NoSpace(FlattenSeq([i \in DOMAIN tokens |-> tokens[i].text])) = NoSpace(text)
         /\ Tokenize(Spaced(tokens)) = tokens
         /\ text \in OPERATORS => Len(tokens) = 1
=============================================================================
