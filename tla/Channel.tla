------------------------------ MODULE Channel ------------------------------
(***************************************************************************)
(* What a connection promises to the turn protocol: two queues of whole    *)
(* messages, one each way.  What is delivered is delivered once and in the *)
(* order it was written.  A message is lost only when the client leaves,   *)
(* and then all that were written after it are lost too.  When a part of a *)
(* message fails to be sent, the way is Broken and nothing is promised.    *)
(***************************************************************************)
EXTENDS Naturals, Sequences

CONSTANTS
    Ways,       \* both directions
    Conns,      \* connections
    Messages,
    Broken

VARIABLES
    written,    \* written[w][c]: all that was written
    channel,    \* channel[w][c]: the messages under way and those delivered
    left        \* connections whose client has left

vars == <<written, channel, left>>

Init ==
    /\ written = [w \in Ways |-> [c \in Conns |-> <<>>]]
    /\ channel = [w \in Ways |-> [c \in Conns |-> [transit |-> <<>>, delivered |-> <<>>]]]
    /\ left = {}

FirstOf(s, n) == SubSeq(s, 1, n)
Rest(s, n)    == SubSeq(s, n + 1, Len(s))

\* The server may write to a client that has left; that goes nowhere.
Put(w, c, m) ==
    channel' = IF channel[w][c] = Broken \/ c \in left THEN channel
               ELSE [channel EXCEPT ![w][c].transit = Append(@, m)]

Write(w, c) ==
    /\ \E m \in Messages :
           /\ written' = [written EXCEPT ![w][c] = Append(@, m)]
           /\ Put(w, c, m)
    /\ UNCHANGED left

\* One recv may complete several messages.
Moved(q, n) == [transit |-> Rest(q.transit, n), delivered |-> q.delivered \o FirstOf(q.transit, n)]

Deliver(w, c) ==
    /\ channel[w][c] # Broken
    /\ \E n \in 1 .. Len(channel[w][c].transit) :
           channel' = [channel EXCEPT ![w][c] = Moved(@, n)]
    /\ UNCHANGED <<written, left>>

\* The end of what is on its way to the server may be lost, and all that is on
\* its way to the client, which may still process something in its last moments.
Cut(q, n) == IF q = Broken THEN Broken ELSE [q EXCEPT !.transit = FirstOf(@, n)]

Under(q) == IF q = Broken THEN 0 ELSE Len(q.transit)

Leave(c) ==
    /\ c \notin left /\ left' = left \union {c}
    /\ \E kept \in 0 .. Under(channel["up"][c]), last \in 0 .. Under(channel["down"][c]) :
           channel' = [channel EXCEPT
               !["up"][c] = Cut(@, kept),
               !["down"][c] = IF @ = Broken THEN Broken ELSE Cut(Moved(@, last), 0)]
    /\ UNCHANGED written

Break(w, c) ==
    /\ channel' = [channel EXCEPT ![w][c] = Broken]
    /\ UNCHANGED <<written, left>>

Next ==
    \E c \in Conns : Leave(c) \/ \E w \in Ways : Write(w, c) \/ Deliver(w, c) \/ Break(w, c)

Spec == Init /\ [][Next]_vars
=============================================================================
