----------------------------- MODULE MCService -----------------------------
(***************************************************************************)
(* Model values for Service: a client that writes or sends no UTF-8, one   *)
(* that queries or sends a timestamp that is no number.                    *)
(***************************************************************************)
EXTENDS Service, TLC

CONSTANTS c1, c2, s1, old

MCClients == {c1, c2}
MCStoppers == {s1}
MCFiles == {<<old>>, <<old, Torn>>}
MCKinds == c1 :> {"write"} @@ c2 :> {"query", "untimed", "undecodable"}
=============================================================================
