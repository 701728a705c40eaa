------------------------------- MODULE Rounds -------------------------------
(***************************************************************************)
(* What counting the rounds of the benchmark promises, without datagrams:  *)
(* a packet is counted after it has been at the server, and the next one   *)
(* gets there only after that.  So a count is a count of round trips.      *)
(***************************************************************************)
EXTENDS Naturals

CONSTANT Clients

VARIABLES
    reached,    \* how many packets of each client have been at the server
    counted     \* how many round trips each client has counted

vars == <<reached, counted>>

Init == reached = [c \in Clients |-> 0] /\ counted = [c \in Clients |-> 0]

Reach(c) ==
    /\ reached[c] = counted[c]
    /\ reached' = [reached EXCEPT ![c] = @ + 1]
    /\ UNCHANGED counted

Count(c) ==
    /\ counted[c] < reached[c]
    /\ counted' = [counted EXCEPT ![c] = @ + 1]
    /\ UNCHANGED reached

Next == \E c \in Clients : Reach(c) \/ Count(c)

Spec == Init /\ [][Next]_vars
=============================================================================
