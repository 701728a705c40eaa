----------------------------- MODULE MCLockstep -----------------------------
(* Instances of Lockstep for TLC. *)
EXTENDS LockstepInv

TwoSlots == 2
OneOrder == {"MoveCritter"}
AllTurns == {0, 1, 2}
LongTurns == {1, 2}
OneTurn == {2}

\* Every client in step runs the inputs of the server one after the other: the
\* second frame of a turn too, which it runs after it has posted its answer.
EveryFrameRuns == \A k \in {2, 5} : InputsRun(k)
=============================================================================
