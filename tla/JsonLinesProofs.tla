--------------------------- MODULE JsonLinesProofs ---------------------------
(***************************************************************************)
(* What appending to a file of JSON lines keeps, for any set of values.    *)
(***************************************************************************)
EXTENDS JsonLines, TLAPS

\* The lines of a file of values from S.
LinesOf(S) == S \cup {Torn, Bad}

\* Appending a value gives lines; every line stays but a torn last one, which
\* becomes a bad one; the value, or the line it spoiled, is in the file.
LEMMA AppendLineKeeps ==
    ASSUME NEW S, NEW ls \in Seq(LinesOf(S)), NEW x \in S
    PROVE  /\ AppendLine(ls, x) \in Seq(LinesOf(S))
           /\ \A i \in DOMAIN ls :
                 /\ i \in DOMAIN AppendLine(ls, x)
                 /\ \/ AppendLine(ls, x)[i] = ls[i]
                    \/ ls[i] = Torn /\ AppendLine(ls, x)[i] = Bad
           /\ \A i \in DOMAIN AppendLine(ls, x) :
                 \/ AppendLine(ls, x)[i] \in {x, Bad}
                 \/ i \in DOMAIN ls /\ AppendLine(ls, x)[i] = ls[i]
           /\ \E i \in DOMAIN AppendLine(ls, x) : AppendLine(ls, x)[i] \in {x, Bad}
<1> USE DEF LinesOf
<1>1. CASE Endless(ls)
  <2>1. AppendLine(ls, x) = [ls EXCEPT ![Len(ls)] = Bad]
    BY <1>1 DEF AppendLine
  <2>2. Len(ls) \in DOMAIN ls /\ ls[Len(ls)] = Torn
    BY <1>1 DEF Endless
  <2> QED BY <2>1, <2>2
<1>2. CASE ~Endless(ls)
  <2>1. AppendLine(ls, x) = Append(ls, x)
    BY <1>2 DEF AppendLine
  <2>2. x \in LinesOf(S)
    OBVIOUS
  <2> QED BY <2>1, <2>2
<1> QED BY <1>1, <1>2

\* A torn append adds at most one line, Torn, and changes none.
LEMMA AppendTornKeeps ==
    ASSUME NEW S, NEW ls \in Seq(LinesOf(S))
    PROVE  /\ AppendTorn(ls) \in Seq(LinesOf(S))
           /\ \A i \in DOMAIN ls :
                 i \in DOMAIN AppendTorn(ls) /\ AppendTorn(ls)[i] = ls[i]
           /\ \A i \in DOMAIN AppendTorn(ls) :
                 \/ AppendTorn(ls)[i] = Torn
                 \/ i \in DOMAIN ls /\ AppendTorn(ls)[i] = ls[i]
BY DEF AppendTorn, LinesOf
=============================================================================
