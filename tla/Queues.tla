------------------------------- MODULE Queues -------------------------------
(***************************************************************************)
(* The Queue of core/queue.c as operators on a record: a chain of items on *)
(* the heap.  A freed item stays where `last' may still point to, until    *)
(* malloc gives it out again.                                              *)
(***************************************************************************)
EXTENDS Naturals, Sequences

CONSTANTS
    Cells,      \* heap addresses for items
    Null

ASSUME QueueAssumption == Null \notin Cells

NewQueue == [first |-> Null, last |-> Null, size |-> 0, heap |-> <<>>]

\* malloc: any address that is not allocated.
FreeCells(q) == Cells \ DOMAIN q.heap

Allocated(q, cell, it) ==
    [x \in DOMAIN q.heap \union {cell} |->
        IF x = cell THEN [next |-> Null, item |-> it] ELSE q.heap[x]]

\* (the test is for `last', which queue_pop leaves behind)
PushAtLast(q, cell, it) ==
    LET heap == Allocated(q, cell, it)
    IN  IF q.last = Null
        THEN [first |-> cell, last |-> cell, size |-> q.size + 1, heap |-> heap]
        ELSE [q EXCEPT !.last = cell, !.size = @ + 1,
                       !.heap = [heap EXCEPT ![q.last].next = cell]]

Push(q, cell, it) ==
    LET heap == Allocated(q, cell, it)
    IN  IF q.first = Null
        THEN [first |-> cell, last |-> cell, size |-> q.size + 1, heap |-> heap]
        ELSE [q EXCEPT !.last = cell, !.size = @ + 1,
                       !.heap = [heap EXCEPT ![q.last].next = cell]]

First(q) == IF q.first = Null THEN Null ELSE q.heap[q.first].item

Pop(q) ==
    IF q.first = Null THEN q
    ELSE [q EXCEPT !.first = q.heap[q.first].next, !.size = @ - 1,
                   !.heap = [x \in DOMAIN q.heap \ {q.first} |-> q.heap[x]]]

\* The items from the first on, as far as the chain leads.
Items(q) ==
    LET step(x) == IF x \in DOMAIN q.heap THEN q.heap[x].next ELSE Null
        at[n \in 1 .. q.size] == IF n = 1 THEN q.first ELSE step(at[n - 1])
    IN  [n \in {m \in 1 .. q.size : at[m] \in DOMAIN q.heap} |-> q.heap[at[n]].item]
=============================================================================
