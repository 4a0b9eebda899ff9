------------------------------ MODULE UndoList ------------------------------
(***************************************************************************)
(* What the editor promises whoever edits a map: an undo list.  There is a *)
(* list of maps, and the map there is is the one at the place in the list. *)
(* An edit drops what was undone and either becomes a new map of the list  *)
(* or replaces the last one (an edit that goes on with the one before it); *)
(* undo and redo go back and forth; the list forgets its oldest map.       *)
(***************************************************************************)
EXTENDS Integers, Sequences

CONSTANTS Start, MaxHistory

VARIABLES maps, at, value

vars == <<maps, at, value>>

Init == maps = <<Start>> /\ at = 1 /\ value = Start

Kept == SubSeq(maps, 1, at)
Forget(s) == IF Len(s) > MaxHistory + 1 THEN Tail(s) ELSE s

\* value' is any map.
NewEdit ==
    /\ maps' = Forget(Append(Kept, value'))
    /\ at' = Len(maps')

SameEdit ==
    /\ at > 1
    /\ maps' = [Kept EXCEPT ![at] = value']
    /\ at' = at

UndoEdit == at > 1 /\ at' = at - 1 /\ value' = maps[at'] /\ UNCHANGED maps
RedoEdit == at < Len(maps) /\ at' = at + 1 /\ value' = maps[at'] /\ UNCHANGED maps

Next == NewEdit \/ SameEdit \/ UndoEdit \/ RedoEdit

Spec == Init /\ [][Next]_vars
=============================================================================
