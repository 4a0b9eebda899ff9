---------------------------- MODULE InputStream ----------------------------
(***************************************************************************)
(* What becomes of the inputs of a player: the client makes one after the  *)
(* other, each with the clicks made until then; the server has one of them *)
(* and goes over to a later one, never back, and fires as often as the     *)
(* clicks between the two tell it to.  It may leave inputs out.            *)
(***************************************************************************)
EXTENDS Integers, Sequences

VARIABLES
    made,       \* the clicks of every input the client has made
    applied,    \* the input the server has; 0 is none
    fired       \* what the game was told to fire

vars == <<made, applied, fired>>

ClicksOf(n) == IF n = 0 THEN 0 ELSE made[n]

Init == made = <<>> /\ applied = 0 /\ fired = 0

\* Clicks are never taken back.
Make ==
    /\ Len(made') = Len(made) + 1
    /\ made' = Append(made, made'[Len(made')])
    /\ made'[Len(made')] >= ClicksOf(Len(made))
    /\ UNCHANGED <<applied, fired>>

Apply ==
    /\ applied' \in applied + 1 .. Len(made)
    /\ fired' = ClicksOf(applied')
    /\ UNCHANGED made

Next == Make \/ Apply

Spec == Init /\ [][Next]_vars
=============================================================================
