------------------------------ MODULE JsonLines ------------------------------
(***************************************************************************)
(* Files of one JSON value per line, as the storage manager, the batch     *)
(* writer, its write-ahead log and the index log append to them.           *)
(*                                                                         *)
(* A line is the value it holds, Torn (the unterminated beginning of a     *)
(* line, left by a failed flush or a killed process) or Bad (a terminated  *)
(* line that does not parse).                                              *)
(***************************************************************************)
EXTENDS Sequences, Naturals

CONSTANTS Torn, Bad

ASSUME TornAssumption == Torn # Bad

Endless(ls) == ls # <<>> /\ ls[Len(ls)] = Torn

\* A value appended behind a torn line ends that line and spoils it.
AppendLine(ls, x) ==
    IF Endless(ls) THEN [ls EXCEPT ![Len(ls)] = Bad] ELSE Append(ls, x)

\* Only the beginning of a line gets there.
AppendTorn(ls) == IF Endless(ls) THEN ls ELSE Append(ls, Torn)
=============================================================================
