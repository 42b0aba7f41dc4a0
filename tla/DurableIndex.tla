---------------------------- MODULE DurableIndex ----------------------------
(***************************************************************************)
(* What IndexPersistence and its caller promise: a live index and a        *)
(* durable one that change together, one update at a time.  An update that *)
(* fails may reach the durable one alone, make it unreadable, or fray it:  *)
(* then the next update makes it unreadable.  A crash ends the live index, *)
(* and a restart takes the durable one for it.                             *)
(***************************************************************************)
EXTENDS TagIndex

CONSTANTS Unreadable, Down

VARIABLES durable, frayed, live

Init == durable = {} /\ frayed = FALSE /\ live = {}

Change ==
    /\ live # Down
    /\ \E op \in Update :
         /\ live' = Apply(live, op)
         /\ durable' = IF durable = Unreadable \/ frayed THEN Unreadable ELSE Apply(durable, op)
    /\ frayed' = FALSE

\* What a failed update does to the durable index.
Unharmed == UNCHANGED <<durable, frayed>>
Ruined == durable' = Unreadable /\ frayed' = FALSE
Reached ==
    /\ durable # Unreadable /\ ~frayed
    /\ \E op \in Update : durable' = Apply(durable, op)
    /\ frayed' \in BOOLEAN

Fail == live # Down /\ (Ruined \/ Reached) /\ live' = live

\* All is written again from the live index.
Mend == live # Down /\ durable' = live /\ frayed' = FALSE /\ live' = live

Die == live # Down /\ live' = Down /\ (Unharmed \/ Ruined \/ Reached)

Restart == live = Down /\ durable # Unreadable /\ live' = durable /\ UNCHANGED <<durable, frayed>>

Next == Change \/ Fail \/ Mend \/ Die \/ Restart

Spec == Init /\ [][Next]_<<durable, frayed, live>>
=============================================================================
