-------------------------------- MODULE Rand --------------------------------
(***************************************************************************)
(* The generator of core/rand.c.  It multiplies its state modulo           *)
(*     Modulus = Multiplier * Quotient + Rest                              *)
(* (16807 * 127773 + 2836 = 2^31 - 1) in a way that the products fit into  *)
(* a long of 32 bits.  ai.c draws with it on the server and on every       *)
(* client; all depends on their states being the same number.              *)
(***************************************************************************)
EXTENDS Integers

CONSTANTS
    Multiplier,   \* 16807
    Quotient,     \* 127773
    Rest,         \* 2836
    Replacement,  \* 123459876, which takes the place of the state 0
    Width,        \* 2^32: a state is an unsigned int
    RandMax       \* RAND_MAX

Modulus == Multiplier * Quotient + Rest

ASSUME RandAssumption ==
    /\ Multiplier \in Nat \ {0} /\ Quotient \in Nat \ {0} /\ Rest \in Nat
    /\ 2 * Rest < Quotient
    /\ Width = 2 * (Modulus + 1)
    /\ Replacement \in 1 .. Modulus - 1
    /\ RandMax \in Nat

\* 2^31 - 1 is a prime: some number undoes the multiplication.
ASSUME InvertibleAssumption ==
    \E inverse \in 1 .. Modulus - 1 : (Multiplier * inverse) % Modulus = 1

Words == 0 .. Width - 1

VARIABLES
    seed,   \* the state, ai_seed or next
    drawn   \* the number that was returned last

vars == <<seed, drawn>>

\* (the state is not split)
LowWhole(s) == Multiplier * s

\* The terms of the product, hi and lo of the state times their factors.
Low(s)  == Multiplier * (s % Quotient)
High(s) == Rest * (s \div Quotient)

\* (only the low part is multiplied)
AdvanceLow(s) == Low(s) % Modulus

\* (a negative difference stays)
AdvanceNegative(s) == Low(s) - High(s)

Advance(s) ==
    IF Low(s) < High(s) THEN Low(s) - High(s) + Modulus ELSE Low(s) - High(s)

Usable(s) == IF s = 0 THEN Replacement ELSE s

Init == seed \in Words /\ drawn = 0

DoRand ==
    /\ seed' = Advance(Usable(seed))
    /\ drawn' = seed' % (RandMax + 1)

Spec == Init /\ [][DoRand]_vars

-----------------------------------------------------------------------------
\* The state is an unsigned int, whatever it starts with, and what is drawn is
\* in the range of rand().
TypeOK == seed \in Words /\ drawn \in 0 .. RandMax

\* The two products and their difference fit into a signed long of half the
\* width: do_rand does not overflow, also where a long has 32 bits.
FitsLong ==
    LET s == Usable(seed)
        Long == -(Modulus + 1) .. Modulus
    IN  Low(s) \in Long /\ High(s) \in Long /\ Low(s) - High(s) \in Long

\* Schrage's method: from one state of the sequence to the next is one
\* multiplication modulo the prime, as the comment in do_rand says, and 0 is
\* never reached again, so that its replacement is needed once at most.
Sequence == 1 .. Modulus - 1

Lehmer ==
    [][LET next == (Multiplier * seed) % Modulus
       IN  seed \in Sequence => seed' = next /\ next # 0]_vars
=============================================================================
