------------------------------ MODULE Exchange ------------------------------
(***************************************************************************)
(* What a connection promises: requests are handled one after the other in *)
(* the order they were sent, each at most once, and the answers come back  *)
(* whole, in that order.  Either side may stop at any time.                *)
(***************************************************************************)
EXTENDS Naturals, Sequences

CONSTANTS Request, Answer(_)

VARIABLES asked, handled, got

Init == asked = <<>> /\ handled = <<>> /\ got = <<>>

Ask == /\ \E r \in Request : asked' = Append(asked, r)
       /\ UNCHANGED <<handled, got>>

Handle == /\ Len(handled) < Len(asked)
          /\ handled' = Append(handled, asked[Len(handled) + 1])
          /\ UNCHANGED <<asked, got>>

Get == /\ Len(got) < Len(handled)
       /\ got' = Append(got, Answer(handled[Len(got) + 1]))
       /\ UNCHANGED <<asked, handled>>

Spec == Init /\ [][Ask \/ Handle \/ Get]_<<asked, handled, got>>
=============================================================================
