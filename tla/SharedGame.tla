----------------------------- MODULE SharedGame -----------------------------
(***************************************************************************)
(* What the network game promises its players, without turns or messages:  *)
(* there is one history of the game, and every player watches it from some *)
(* point on.  A player who joins sees the game as it is at that moment;    *)
(* then the player's view only moves forward along the history.            *)
(***************************************************************************)
EXTENDS Sequences, SequencesExt

CONSTANTS
    Players,
    Absent      \* the view of somebody who does not play

VARIABLES
    history,    \* all that has happened in the game
    view        \* what each player has seen of it

vars == <<history, view>>

Init == history = <<>> /\ view = [p \in Players |-> Absent]

\* The game goes on.
Advance == IsStrictPrefix(history, history') /\ UNCHANGED view

\* p joins and sees the present state of the game.
Join(p) ==
    /\ view[p] = Absent
    /\ view' = [view EXCEPT ![p] = history]
    /\ UNCHANGED history

\* p watches what happened next.
Follow(p) ==
    /\ view[p] # Absent /\ view'[p] # Absent
    /\ IsStrictPrefix(view[p], view'[p]) /\ IsPrefix(view'[p], history)
    /\ view' = [view EXCEPT ![p] = view'[p]]
    /\ UNCHANGED history

Quit(p) ==
    /\ view[p] # Absent
    /\ view' = [view EXCEPT ![p] = Absent]
    /\ UNCHANGED history

Next == Advance \/ \E p \in Players : Join(p) \/ Follow(p) \/ Quit(p)

Spec == Init /\ [][Next]_vars
=============================================================================
