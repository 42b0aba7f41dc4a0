---------------------------- MODULE MCConnection ----------------------------
(***************************************************************************)
(* A finite instance of Connection: five requests, the second of them      *)
(* empty, the third longer than the others.  Which ones are not UTF-8 is   *)
(* for the configuration to say.                                           *)
(***************************************************************************)
EXTENDS Connection

MCSizes == <<1, 0, 2, 1, 1>>
=============================================================================
