------------------------------- MODULE Arrays -------------------------------
(***************************************************************************)
(* The Array of core/array.c as operators on a record: a block of memory   *)
(* for size elements, of which the first count are in use.  The block      *)
(* doubles when one place is left and halves when less than a quarter of   *)
(* it is in use, but never to MinArraySize or below.                       *)
(***************************************************************************)
EXTENDS Naturals

CONSTANTS
    MinArraySize,   \* MIN_ARRAY_SIZE (32)
    Junk            \* what is in memory nobody has written

ASSUME ArrayAssumption == MinArraySize \in Nat \ {0}

NewArray ==
    [size |-> MinArraySize, count |-> 0, data |-> [i \in 0 .. MinArraySize - 1 |-> Junk]]

Realloc(data, size) == [i \in 0 .. size - 1 |-> IF i \in DOMAIN data THEN data[i] ELSE Junk]

Put(a, size, elem) ==
    [size |-> size, count |-> a.count + 1,
     data |-> [Realloc(a.data, size) EXCEPT ![a.count] = elem]]

\* (the size of the block grows without the block)
AddSizeOnly(a, elem) ==
    IF a.count + 1 = a.size THEN [Put(a, a.size, elem) EXCEPT !.size = 2 * a.size]
    ELSE Put(a, a.size, elem)

\* (the block grows when an element is added to a full block)
AddLate(a, elem) ==
    IF a.count = a.size THEN Put(a, 2 * a.size, elem) ELSE Put(a, a.size, elem)

Add(a, elem) ==
    IF a.count + 1 = a.size THEN Put(a, 2 * a.size, elem) ELSE Put(a, a.size, elem)

\* (one element less is moved)
ClosedShort(a, i) ==
    [j \in DOMAIN a.data |-> IF i <= j /\ j + 2 < a.count THEN a.data[j + 1] ELSE a.data[j]]

\* memmove of what comes after the place i.
Closed(a, i) ==
    [j \in DOMAIN a.data |-> IF i <= j /\ j + 1 < a.count THEN a.data[j + 1] ELSE a.data[j]]

Remove(a, i) ==
    LET count == a.count - 1
        size  == IF count < a.size \div 4 /\ a.size \div 2 > MinArraySize
                 THEN a.size \div 2 ELSE a.size
    IN  [size |-> size, count |-> count, data |-> Realloc(Closed(a, i), size)]

\* ptrarray_free: the first place that holds the pointer is removed.
Places(a, ptr) == {i \in 0 .. a.count - 1 : a.data[i] = ptr}

Free(a, ptr) ==
    IF Places(a, ptr) = {} THEN a
    ELSE Remove(a, CHOOSE i \in Places(a, ptr) : \A j \in Places(a, ptr) : i <= j)

Clear(a) ==
    [size |-> MinArraySize, count |-> 0, data |-> Realloc(a.data, MinArraySize)]

\* The elements in use.
Contents(a) == [k \in 1 .. a.count |-> a.data[k - 1]]
=============================================================================
