---------------------------- MODULE MCWriteCache ----------------------------
(***************************************************************************)
(* Finite instances of WriteCache: three points, added alone or in pairs.  *)
(***************************************************************************)
EXTENDS WriteCache

MCPoint == {"p1", "p2", "p3"}
Singles == {{"p1"}, {"p2"}}
=============================================================================
