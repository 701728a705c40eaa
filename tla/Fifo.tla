-------------------------------- MODULE Fifo --------------------------------
(***************************************************************************)
(* What the player of a single player game is promised: the orders of a    *)
(* click are executed one by one in the order they were given, and all of  *)
(* them before the next click is read.                                     *)
(***************************************************************************)
EXTENDS Sequences

CONSTANTS
    Clicks,     \* sequences of orders
    None

VARIABLES
    waiting,    \* orders given and not yet executed
    executed    \* the order that was executed last, until all are done

Init == waiting = <<>> /\ executed = None

Give == waiting = <<>> /\ waiting' \in Clicks /\ UNCHANGED executed

Execute ==
    /\ waiting # <<>>
    /\ executed' = Head(waiting) /\ waiting' = Tail(waiting)

Rest == waiting = <<>> /\ executed' = None /\ UNCHANGED waiting

Spec == Init /\ [][Give \/ Execute \/ Rest]_<<waiting, executed>>
=============================================================================
