---------------------------- MODULE MCBatchWriter ----------------------------
(***************************************************************************)
(* Finite instances of BatchWriter.  Points 1, 3, 5 and 6 share a          *)
(* partition, 2 and 4 the other; 5 fails validation, 6 has no JSON form.   *)
(***************************************************************************)
EXTENDS BatchWriter, TLC

MCPoint == 1..6
MCPartition == {"a", "b"}
MCNoPart == "none"
MCPartitionOf == <<"a", "b", "a", "b", "a", "a">>
MCKind == <<"ok", "ok", "ok", "ok", "invalid", "unserialisable">>

\* A group of two, two groups of one, and two of which one has no JSON form.
Mixed == {<<1, 3>>, <<2, 1>>, <<2, 6>>}

\* Every way a call can end.
Endings == {<<1, 2>>, <<3, 5>>, <<4, 6>>}

WriterSymmetry == Permutations(Writers)
=============================================================================
