---------------------------- MODULE IntMapProofs ----------------------------
(***************************************************************************)
(* The IntMap keeps what is put into it, for every set of keys, every hash *)
(* function and every number of elements.  The inductive invariant is IInv *)
(* below: the table holds each of its entries in one slot only, counts its *)
(* free slots rightly and has a quarter of them free.  All operations keep *)
(* that, and what they do to the entries is said by the lemmas about them; *)
(* the loops (over the slots of an old table, or over the entries of a     *)
(* snapshot) are followed step by step, by induction over the naturals.    *)
(***************************************************************************)
EXTENDS IntMap, TLAPS, SequenceTheorems, FunctionTheorems, FiniteSetTheorems

-----------------------------------------------------------------------------
(* Numbers, and induction over them, in a form that speaks of sets and not *)
(* of predicates.                                                          *)

LEMMA DivMod ==
    ASSUME NEW s \in Nat, NEW q \in Nat \ {0}
    PROVE  /\ s \div q \in Nat
           /\ s % q \in 0 .. q - 1
           /\ s = q * (s \div q) + (s % q)
  <1>1. s \div q \in Int /\ s % q \in 0 .. q - 1
    BY SMT
  <1>2. s = q * (s \div q) + (s % q)
    BY Z3
  <1>3. s \div q >= 0
    BY Z3
  <1> QED BY <1>1, <1>2, <1>3, SMT

LEMMA ModUnique ==
    ASSUME NEW m \in Nat \ {0}, NEW k \in Int, NEW r \in 0 .. m - 1
    PROVE  (m * k + r) % m = r
  BY Z3

\* Counting on from a, modulo n, comes past every remainder.
LEMMA EveryRemainder ==
    ASSUME NEW a \in Nat, NEW n \in Nat \ {0}, NEW r \in 0 .. n - 1
    PROVE  \E k \in 0 .. n - 1 : (a + k) % n = r
  <1>1. PICK q \in Nat, s \in 0 .. n - 1 : a = n * q + s
    BY DivMod
  <1>2. n * q \in Nat /\ n * (q + 1) = n * q + n
    BY Z3
  <1>3. CASE s <= r
    <2>1. a + (r - s) = n * q + r /\ r - s \in 0 .. n - 1
      BY <1>1, <1>2, <1>3
    <2>2. (n * q + r) % n = r
      BY ModUnique
    <2> QED
      BY <2>1, <2>2
  <1>4. CASE s > r
    <2>1. a + (n - s + r) = n * (q + 1) + r /\ n - s + r \in 0 .. n - 1
      BY <1>1, <1>2, <1>4
    <2>2. (n * (q + 1) + r) % n = r
      BY ModUnique
    <2> QED
      BY <2>1, <2>2
  <1> QED
    BY <1>3, <1>4

LEMMA LeastNatural ==
    ASSUME NEW T \in SUBSET Nat, T # {}
    PROVE  \E n \in T : \A m \in T : n <= m
  <1>1. PICK n \in T : \A m \in T : ~(<<m, n>> \in OpToRel(<, Nat))
    BY NatLessThanWellFounded, WFMin, Zenon
  <1>2. \A m \in T : ~(m < n)
    BY <1>1 DEF OpToRel
  <1>3. \A m \in T : n <= m
    BY <1>2
  <1> QED
    BY <1>3

\* Up to a bound.
LEMMA BoundedInduction ==
    ASSUME NEW N \in Nat, NEW S, 0 \in S, \A n \in 0 .. N - 1 : n \in S => n + 1 \in S
    PROVE  0 .. N \subseteq S
  <1> DEFINE T == {n \in 0 .. N : n \notin S}
  <1>1. SUFFICES ASSUME T # {} PROVE FALSE
    OBVIOUS
  <1>2. PICK n \in T : \A m \in T : n <= m
    <2>1. T \in SUBSET Nat
      OBVIOUS
    <2> HIDE DEF T
    <2> QED
      BY <1>1, <2>1, LeastNatural
  <1>3. n # 0 /\ n - 1 \in 0 .. N - 1 /\ ~(n <= n - 1)
    OBVIOUS
  <1>4. n - 1 \in S /\ (n - 1) + 1 = n
    BY <1>2, <1>3
  <1> QED
    BY <1>3, <1>4

\* f is the function that starts with first and goes on by F.
Recurses(f, N, first, F) ==
    f[0] = first /\ \A k \in 1 .. N : f[k] = F[<<f[k - 1], k>>]

RecursiveIn(S, N, first, F) == \E f \in [0 .. N -> S] : Recurses(f, N, first, F)

\* Such a function exists, and stays in the set it starts in.
LEMMA Recursion ==
    ASSUME NEW N \in Nat, NEW S, NEW first \in S, NEW F \in [S \X (1 .. N) -> S]
    PROVE  RecursiveIn(S, N, first, F)
  <1> DEFINE UpTo(n) == {f \in [0 .. n -> S] : /\ f[0] = first
                                               /\ \A k \in 1 .. n : f[k] = F[<<f[k - 1], k>>]}
             D == {n \in 0 .. N : UpTo(n) # {}}
  <1>1. 0 \in D
    <2> DEFINE f == [k \in 0 .. 0 |-> first]
    <2>1. f \in [0 .. 0 -> S] /\ f[0] = first
      OBVIOUS
    <2>2. \A k \in 1 .. 0 : f[k] = F[<<f[k - 1], k>>]
      OBVIOUS
    <2> HIDE DEF f
    <2> QED
      BY <2>1, <2>2
  <1>2. ASSUME NEW n \in 0 .. N - 1, n \in D PROVE n + 1 \in D
    <2>1. PICK f \in [0 .. n -> S] : f[0] = first /\ \A k \in 1 .. n : f[k] = F[<<f[k - 1], k>>]
      BY <1>2
    <2> DEFINE g == [k \in 0 .. n + 1 |-> IF k <= n THEN f[k] ELSE F[<<f[n], n + 1>>]]
    <2>2. F[<<f[n], n + 1>>] \in S
      OBVIOUS
    <2>3. g \in [0 .. n + 1 -> S]
      BY <2>2
    <2>4. g[0] = first
      BY <2>1
    <2>5. ASSUME NEW k \in 1 .. n + 1 PROVE g[k] = F[<<g[k - 1], k>>]
      <3>1. CASE k <= n
        BY <3>1, <2>1
      <3>2. CASE k = n + 1
        BY <3>2
      <3> QED
        BY <3>1, <3>2
    <2> HIDE DEF g
    <2>6. g \in UpTo(n + 1) /\ n + 1 \in 0 .. N
      BY <2>3, <2>4, <2>5
    <2> QED
      BY <2>6
  <1> HIDE DEF D
  <1>3. N \in D
    BY <1>1, <1>2, BoundedInduction
  <1> QED
    BY <1>3 DEF D, RecursiveIn, Recurses

\* A function that F leads from each of the sets P into the next.
RecursiveThrough(P, N, first, F) ==
    \E f : /\ f = [k \in 0 .. N |-> f[k]]
          /\ Recurses(f, N, first, F) /\ \A k \in 0 .. N : f[k] \in P[k]

LEMMA RecursionThrough ==
    ASSUME NEW N \in Nat, NEW P, NEW first \in P[0], NEW F,
           \A k \in 1 .. N : \A t \in P[k - 1] : F[<<t, k>>] \in P[k]
    PROVE  RecursiveThrough(P, N, first, F)
  <1> DEFINE S == UNION {P[k] : k \in 0 .. N}
             UpTo(n) == {f \in [0 .. n -> S] : Recurses(f, n, first, F) /\ \A k \in 0 .. n : f[k] \in P[k]}
             D == {n \in 0 .. N : UpTo(n) # {}}
  <1>1. 0 \in D
    <2> DEFINE f == [k \in 0 .. 0 |-> first]
    <2>1. 0 .. 0 = {0} /\ 1 .. 0 = {} /\ 0 \in 0 .. N /\ first \in S
      OBVIOUS
    <2> HIDE DEF S
    <2>2. f \in [0 .. 0 -> S] /\ f[0] = first
      BY <2>1
    <2> HIDE DEF f
    <2>3. f \in UpTo(0)
      BY <2>1, <2>2 DEF Recurses
    <2> QED
      BY <2>1, <2>3
  <1>2. ASSUME NEW n \in 0 .. N - 1, n \in D PROVE n + 1 \in D
    <2>1. PICK f \in [0 .. n -> S] : Recurses(f, n, first, F) /\ \A k \in 0 .. n : f[k] \in P[k]
      BY <1>2
    <2>2. PICK next : next = F[<<f[n], n + 1>>]
      OBVIOUS
    <2> DEFINE g == [k \in 0 .. n + 1 |-> IF k <= n THEN f[k] ELSE next]
    <2>3. n \in 0 .. n /\ n + 1 \in 1 .. N /\ (n + 1) - 1 = n /\ n + 1 \in 0 .. N
      OBVIOUS
    <2>4. next \in P[n + 1]
      <3>1. f[n] \in P[(n + 1) - 1]
        BY <2>1, <2>3
      <3> QED
        BY <2>2, <2>3, <3>1
    <2>5. next \in S
      BY <2>3, <2>4
    <2> HIDE DEF S
    <2>6. g \in [0 .. n + 1 -> S]
      BY <2>5
    <2>7. g[0] = first /\ g[n + 1] = next /\ \A k \in 0 .. n : g[k] = f[k]
      BY <2>1 DEF Recurses
    <2> HIDE DEF g
    <2>8. ASSUME NEW k \in 1 .. n + 1 PROVE g[k] = F[<<g[k - 1], k>>]
      <3>1. CASE k <= n
        BY <2>1, <2>7, <3>1 DEF Recurses
      <3>2. CASE k = n + 1
        <4>1. k - 1 = n /\ n \in 0 .. n
          BY <3>2
        <4>2. g[k] = next /\ g[k - 1] = f[n]
          BY <2>7, <3>2, <4>1
        <4> QED
          BY <2>2, <3>2, <4>2, Zenon
      <3> QED
        BY <3>1, <3>2
    <2>9. ASSUME NEW k \in 0 .. n + 1 PROVE g[k] \in P[k]
      <3>1. CASE k <= n
        BY <2>1, <2>7, <3>1
      <3>2. CASE k = n + 1
        BY <2>4, <2>7, <3>2
      <3> QED
        BY <3>1, <3>2
    <2>10. g \in UpTo(n + 1)
      BY <2>6, <2>7, <2>8, <2>9 DEF Recurses
    <2> QED
      BY <2>3, <2>10
  <1> HIDE DEF D
  <1>3. N \in D
    <2>1. 0 .. N \subseteq D
      BY <1>1, <1>2, BoundedInduction
    <2> QED
      BY <2>1
  <1>4. PICK f \in [0 .. N -> S] : Recurses(f, N, first, F) /\ \A k \in 0 .. N : f[k] \in P[k]
    BY <1>3 DEF D
  <1> QED
    BY <1>4, Zenon DEF RecursiveThrough

\* Whatever is defined in this way, goes through the sets.
LEMMA StaysThrough ==
    ASSUME NEW N \in Nat, NEW P, NEW F, NEW f, f[0] \in P[0],
           \A k \in 1 .. N : f[k - 1] \in P[k - 1] => f[k] = F[<<f[k - 1], k>>],
           \A k \in 1 .. N : \A t \in P[k - 1] : F[<<t, k>>] \in P[k]
    PROVE  \A k \in 0 .. N : f[k] \in P[k]
  <1> DEFINE D == {n \in 0 .. N : f[n] \in P[n]}
  <1>1. 0 \in D
    OBVIOUS
  <1>2. ASSUME NEW n \in 0 .. N - 1, n \in D PROVE n + 1 \in D
    <2>1. n + 1 \in 1 .. N /\ (n + 1) - 1 = n /\ n + 1 \in 0 .. N
      OBVIOUS
    <2>2. f[n] \in P[n]
      BY <1>2
    <2>3. f[n + 1] = F[<<f[n], n + 1>>]
      BY <2>1, <2>2
    <2>4. f[n + 1] \in P[n + 1]
      BY <2>1, <2>2, <2>3
    <2> QED
      BY <2>1, <2>4
  <1> HIDE DEF D
  <1>3. 0 .. N \subseteq D
    BY <1>1, <1>2, BoundedInduction
  <1> QED
    BY <1>3 DEF D

\* What the slots before the i-th hold, and what all of them hold.
Part(t, i)  == {t.at[h] : h \in 0 .. i - 1} \ {Empty}
Contents(t) == Part(t, t.size)

Slotted(t) ==
    /\ t = [size |-> t.size, free |-> t.free, at |-> t.at]
    /\ t.size \in Nat \ {0}
    /\ t.free \in Nat
    /\ t.at \in [0 .. t.size - 1 -> Entry \union {Empty}]

Once(t) == \A g, h \in 0 .. t.size - 1 : t.at[g] = t.at[h] /\ t.at[g] # Empty => g = h

Table(t) == Slotted(t) /\ Once(t)

Counted(t) == t.size = t.free + Cardinality(Contents(t))

Roomy(t) == 4 * t.free > t.size /\ \E m \in Nat : t.size = 4 * m

Good(t) == Table(t) /\ Counted(t) /\ Roomy(t)

-----------------------------------------------------------------------------
(* The slots.                                                              *)

LEMMA KeysHaveHomes == \A e \in Entry : e.key \in Keys /\ Home[e.key] \in Nat
  BY KeysAssumption, TableAssumption DEF Entry

\* There are finitely many entries in a table, and at most one per slot.
LEMMA PartFinite ==
    ASSUME NEW t, NEW i \in Nat
    PROVE  IsFiniteSet(Part(t, i))
  <1> DEFINE S == {t.at[h] : h \in 0 .. i - 1}
  <1>1. IsFiniteSet(0 .. i - 1)
    BY FS_Interval
  <1>2. IsFiniteSet(S)
    <2> DEFINE f == [h \in 0 .. i - 1 |-> t.at[h]]
    <2>1. f \in Surjection(0 .. i - 1, S)
      BY DEF Surjection
    <2> HIDE DEF f, S
    <2> QED
      BY <1>1, <2>1, FS_Surjection DEF ExistsSurjection
  <1>3. Part(t, i) \subseteq S
    BY DEF Part
  <1> QED
    BY <1>2, <1>3, FS_Subset

\* The empty slots are those that no entry takes.
LEMMA EmptyCount ==
    ASSUME NEW t, Table(t)
    PROVE  Cardinality(EmptySlots(t)) = t.size - Cardinality(Contents(t))
  <1>1. IsFiniteSet(Contents(t)) /\ Cardinality(Contents(t)) \in Nat
    BY PartFinite, FS_CardinalityType DEF Contents, Table, Slotted
  <1> DEFINE D == 0 .. t.size - 1
             T == D \ EmptySlots(t)
             f == [h \in T |-> t.at[h]]
  <1>2. IsFiniteSet(D) /\ Cardinality(D) = t.size
    <2>1. PICK n : n = t.size
      OBVIOUS
    <2>2. n \in Nat \ {0}
      BY <2>1 DEF Table, Slotted
    <2>3. IsFiniteSet(0 .. n - 1) /\ Cardinality(0 .. n - 1) = n
      BY <2>2, FS_Interval
    <2> QED
      BY <2>1, <2>3, Zenon
  <1>3. EmptySlots(t) \subseteq D /\ T = {h \in D : t.at[h] # Empty}
    BY DEF EmptySlots, Table, Slotted
  <1>4. f \in Bijection(T, Contents(t))
    <2>1. f \in [T -> Contents(t)]
      BY <1>3 DEF Contents, Part
    <2>2. \A g, h \in T : f[g] = f[h] => g = h
      BY <1>3 DEF Table, Once
    <2>3. \A e \in Contents(t) : \E h \in T : f[h] = e
      BY <1>3 DEF Contents, Part
    <2> HIDE DEF f, T
    <2> QED
      BY <2>1, <2>2, <2>3 DEF Bijection, Injection, Surjection, IsInjective
  <1>5. Cardinality(T) = Cardinality(Contents(t))
    <2> HIDE DEF f, T
    <2>1. ExistsBijection(T, Contents(t))
      BY <1>4, Zenon DEF ExistsBijection
    <2> QED
      BY <1>1, <2>1, FS_Bijection, Fun_ExistsBijSymmetric, Zenon
  <1>6. /\ IsFiniteSet(EmptySlots(t))
        /\ Cardinality(D \ EmptySlots(t)) = Cardinality(D) - Cardinality(EmptySlots(t))
    <2>1. IsFiniteSet(EmptySlots(t))
      BY <1>2, <1>3, FS_Subset
    <2>2. D \intersect EmptySlots(t) = EmptySlots(t)
      BY <1>3
    <2> HIDE DEF D
    <2>3. Cardinality(D \ EmptySlots(t)) = Cardinality(D) - Cardinality(D \intersect EmptySlots(t))
      BY <1>2, FS_Difference
    <2> QED
      BY <2>1, <2>2, <2>3, Zenon
  <1>7. Cardinality(EmptySlots(t)) \in Nat
    BY <1>6, FS_CardinalityType
  <1> QED
    BY <1>2, <1>5, <1>6, <1>7 DEF Table, Slotted

\* A search ends in one of the slots it looks for, when there is one.
LEMMA FirstProbedIn ==
    ASSUME NEW t, Slotted(t), NEW key, Home[key] \in Nat,
           NEW wanted \in SUBSET (0 .. t.size - 1), wanted # {}
    PROVE  FirstProbed(t, key, wanted) \in wanted
  <1> DEFINE Probe(k) == (Home[key] + k) % t.size
             W == {k \in 0 .. t.size - 1 : Probe(k) \in wanted}
  <1>1. t.size \in Nat \ {0}
    BY DEF Slotted
  <1>2. PICK r \in 0 .. t.size - 1 : r \in wanted
    OBVIOUS
  <1>3. \E k \in 0 .. t.size - 1 : Probe(k) = r
    BY <1>1, EveryRemainder
  <1>4. W \in SUBSET Nat /\ W # {}
    BY <1>1, <1>2, <1>3
  <1>5. PICK k \in W : \A m \in W : k <= m
    <2> HIDE DEF W
    <2> QED
      BY <1>4, LeastNatural
  <1>6. \A j \in 0 .. k - 1 : Probe(j) \notin wanted
    <2>1. SUFFICES ASSUME NEW j \in 0 .. k - 1, Probe(j) \in wanted PROVE FALSE
      OBVIOUS
    <2>2. j \in W /\ ~(k <= j)
      BY <1>1, <1>4, <1>5, <2>1
    <2> QED
      BY <1>5, <2>2
  <1> DEFINE Best(n) == Probe(n) \in wanted /\ \A j \in 0 .. n - 1 : Probe(j) \notin wanted
  <1>7. k \in 0 .. t.size - 1 /\ Best(k)
    BY <1>5, <1>6
  <1>8. Best(CHOOSE n \in 0 .. t.size - 1 : Best(n))
    <2> HIDE DEF Best
    <2> QED
      BY <1>7, Zenon
  <1> QED
    BY <1>8, Zenon DEF FirstProbed

-----------------------------------------------------------------------------
(* One slot is written.                                                    *)

LEMMA EntryInSlot ==
    ASSUME NEW t, Table(t), NEW h \in 0 .. t.size - 1, t.at[h] = Empty,
           NEW e \in Entry, e \notin Contents(t), NEW f \in Nat,
           NEW u, u = [size |-> t.size, free |-> f, at |-> [t.at EXCEPT ![h] = e]]
    PROVE  Table(u) /\ Contents(u) = Contents(t) \union {e}
  <1>1. /\ u.size = t.size /\ u.free = f /\ u.at = [t.at EXCEPT ![h] = e]
        /\ u = [size |-> u.size, free |-> u.free, at |-> u.at]
    OBVIOUS
  <1>2. t.size \in Nat \ {0} /\ t.at \in [0 .. t.size - 1 -> Entry \union {Empty}]
    BY DEF Table, Slotted
  <1>3. u.at[h] = e /\ \A g \in 0 .. t.size - 1 : g # h => u.at[g] = t.at[g]
    BY <1>1, <1>2
  <1>4. u.at \in [0 .. u.size - 1 -> Entry \union {Empty}]
    BY <1>1, <1>2
  <1>5. e # Empty
    BY EmptyAssumption
  <1>6. \A g \in 0 .. t.size - 1 : t.at[g] # e
    BY <1>5 DEF Contents, Part
  <1>7. Slotted(u)
    BY <1>1, <1>2, <1>4, Zenon DEF Slotted
  <1>8. Once(u)
    <2>1. SUFFICES ASSUME NEW g \in 0 .. u.size - 1, NEW i \in 0 .. u.size - 1,
                          u.at[g] = u.at[i], u.at[g] # Empty
                   PROVE  g = i
      BY Zenon DEF Once
    <2>2. g \in 0 .. t.size - 1 /\ i \in 0 .. t.size - 1
      BY <1>1, Zenon
    <2>3. CASE g # h /\ i # h
      BY <1>3, <2>1, <2>2, <2>3, Zenon DEF Table, Once
    <2>4. CASE g = h /\ i # h
      BY <1>3, <1>6, <2>1, <2>2, <2>4, Zenon
    <2>5. CASE g # h /\ i = h
      BY <1>3, <1>6, <2>1, <2>2, <2>5, Zenon
    <2> QED
      BY <2>3, <2>4, <2>5, Zenon
  <1>9. Contents(u) = Contents(t) \union {e}
    <2>1. Contents(u) = {u.at[g] : g \in 0 .. t.size - 1} \ {Empty}
      BY <1>1, Zenon DEF Contents, Part
    <2>2. Contents(t) = {t.at[g] : g \in 0 .. t.size - 1} \ {Empty}
      BY Zenon DEF Contents, Part
    <2> HIDE DEF Contents, Part
    <2>3. ASSUME NEW g \in 0 .. t.size - 1, u.at[g] # Empty
          PROVE  u.at[g] \in Contents(t) \union {e}
      <3>1. CASE g = h
        BY <1>3, <3>1, Zenon
      <3>2. CASE g # h
        BY <1>3, <2>2, <2>3, <3>2, Zenon
      <3> QED
        BY <3>1, <3>2
    <2>4. ASSUME NEW g \in 0 .. t.size - 1, t.at[g] # Empty PROVE t.at[g] \in Contents(u)
      <3>1. g # h /\ u.at[g] = t.at[g]
        BY <1>3, <2>4, Zenon
      <3> QED
        BY <2>1, <2>4, <3>1, Zenon
    <2>5. e \in Contents(u)
      BY <1>3, <1>5, <2>1, Zenon
    <2>6. ASSUME NEW x \in Contents(u) PROVE x \in Contents(t) \union {e}
      <3>1. PICK g \in 0 .. t.size - 1 : x = u.at[g] /\ u.at[g] # Empty
        BY <2>1, Zenon
      <3> QED
        BY <2>3, <3>1, Zenon
    <2>7. ASSUME NEW x \in Contents(t) PROVE x \in Contents(u)
      <3>1. PICK g \in 0 .. t.size - 1 : x = t.at[g] /\ t.at[g] # Empty
        BY <2>2, Zenon
      <3> QED
        BY <2>4, <3>1, Zenon
    <2> QED
      BY <2>5, <2>6, <2>7
  <1> QED
    BY <1>7, <1>8, <1>9 DEF Table

LEMMA SlotFreed ==
    ASSUME NEW t, Table(t), NEW h \in 0 .. t.size - 1, NEW f \in Nat,
           NEW u, u = [size |-> t.size, free |-> f, at |-> [t.at EXCEPT ![h] = Empty]]
    PROVE  Table(u) /\ Contents(u) = Contents(t) \ {t.at[h]}
  <1>1. /\ u.size = t.size /\ u.free = f /\ u.at = [t.at EXCEPT ![h] = Empty]
        /\ u = [size |-> u.size, free |-> u.free, at |-> u.at]
    OBVIOUS
  <1>2. t.size \in Nat \ {0} /\ t.at \in [0 .. t.size - 1 -> Entry \union {Empty}]
    BY DEF Table, Slotted
  <1>3. u.at[h] = Empty /\ \A g \in 0 .. t.size - 1 : g # h => u.at[g] = t.at[g]
    BY <1>1, <1>2
  <1>4. u.at \in [0 .. u.size - 1 -> Entry \union {Empty}]
    BY <1>1, <1>2
  <1>5. Slotted(u)
    BY <1>1, <1>2, <1>4, Zenon DEF Slotted
  <1>6. Once(u)
    <2>1. SUFFICES ASSUME NEW g \in 0 .. u.size - 1, NEW i \in 0 .. u.size - 1,
                          u.at[g] = u.at[i], u.at[g] # Empty
                   PROVE  g = i
      BY Zenon DEF Once
    <2>2. g \in 0 .. t.size - 1 /\ i \in 0 .. t.size - 1
      BY <1>1, Zenon
    <2>3. g # h /\ i # h /\ u.at[g] = t.at[g] /\ u.at[i] = t.at[i]
      BY <1>3, <2>1, <2>2, Zenon
    <2> QED
      BY <2>1, <2>2, <2>3, Zenon DEF Table, Once
  <1>7. Contents(u) = Contents(t) \ {t.at[h]}
    <2>1. Contents(u) = {u.at[g] : g \in 0 .. t.size - 1} \ {Empty}
      BY <1>1, Zenon DEF Contents, Part
    <2>2. Contents(t) = {t.at[g] : g \in 0 .. t.size - 1} \ {Empty}
      BY Zenon DEF Contents, Part
    <2>3. ASSUME NEW g \in 0 .. t.size - 1, u.at[g] # Empty
          PROVE  u.at[g] \in Contents(t) /\ u.at[g] # t.at[h]
      <3>1. g # h /\ u.at[g] = t.at[g]
        BY <1>3, <2>3, Zenon
      <3>2. t.at[g] # t.at[h]
        BY <2>3, <3>1, Zenon DEF Table, Once
      <3> QED
        BY <2>2, <2>3, <3>1, <3>2, Zenon
    <2>4. ASSUME NEW g \in 0 .. t.size - 1, t.at[g] # Empty, t.at[g] # t.at[h]
          PROVE  t.at[g] \in Contents(u)
      <3>1. u.at[g] = t.at[g]
        BY <1>3, <2>4, Zenon
      <3> QED
        BY <2>1, <2>4, <3>1, Zenon
    <2>5. ASSUME NEW x \in Contents(u) PROVE x \in Contents(t) \ {t.at[h]}
      BY <2>1, <2>3, Zenon
    <2>6. ASSUME NEW x \in Contents(t) \ {t.at[h]} PROVE x \in Contents(u)
      BY <2>2, <2>4, Zenon
    <2> QED
      BY <2>5, <2>6, Zenon
  <1> QED
    BY <1>5, <1>6, <1>7 DEF Table

\* The probing for an empty slot finds one when there are fewer entries than
\* slots.
LEMMA FreeSlotFound ==
    ASSUME NEW t, Table(t), Cardinality(Contents(t)) < t.size,
           NEW key, Home[key] \in Nat
    PROVE  LET h == FirstProbed(t, key, EmptySlots(t))
           IN  EmptySlots(t) # {} /\ h \in 0 .. t.size - 1 /\ t.at[h] = Empty
  <1>1. t.size \in Nat /\ t.at \in [0 .. t.size - 1 -> Entry \union {Empty}]
    BY DEF Table, Slotted
  <1>2. EmptySlots(t) = {h \in 0 .. t.size - 1 : t.at[h] = Empty}
    BY <1>1, Zenon DEF EmptySlots
  <1>3. Cardinality(Contents(t)) \in Nat
    BY <1>1, PartFinite, FS_CardinalityType, Zenon DEF Contents
  <1>4. EmptySlots(t) # {}
    <2>1. Cardinality(EmptySlots(t)) = t.size - Cardinality(Contents(t))
      BY EmptyCount
    <2>2. Cardinality(EmptySlots(t)) # 0
      BY <1>1, <1>3, <2>1
    <2> QED
      BY <2>2, FS_EmptySet, Zenon
  <1>5. FirstProbed(t, key, EmptySlots(t)) \in EmptySlots(t)
    <2>1. EmptySlots(t) \in SUBSET (0 .. t.size - 1) /\ Slotted(t)
      BY <1>2 DEF Table
    <2> QED
      BY <1>4, <2>1, FirstProbedIn, Zenon
  <1> QED
    BY <1>2, <1>4, <1>5, Zenon

-----------------------------------------------------------------------------
(* Moving to a table of another size.                                      *)

LEMMA RelocKeeps ==
    ASSUME NEW t, Table(t), NEW e \in Entry, e \notin Contents(t),
           Cardinality(Contents(t)) < t.size
    PROVE  /\ Table(Reloc(t, e)) /\ Reloc(t, e).size = t.size /\ Reloc(t, e).free = t.free
           /\ Contents(Reloc(t, e)) = Contents(t) \union {e}
  <1>1. PICK h : h = FirstProbed(t, e.key, EmptySlots(t))
    OBVIOUS
  <1>2. EmptySlots(t) # {} /\ h \in 0 .. t.size - 1 /\ t.at[h] = Empty
    BY <1>1, KeysHaveHomes, FreeSlotFound
  <1>3. PICK u : u = [size |-> t.size, free |-> t.free, at |-> [t.at EXCEPT ![h] = e]]
    OBVIOUS
  <1>4. Reloc(t, e) = [t EXCEPT !.at[h] = e]
    BY <1>1, <1>2, Zenon DEF Reloc
  <1>5. t = [size |-> t.size, free |-> t.free, at |-> t.at] /\ t.free \in Nat
    BY Zenon DEF Table, Slotted
  <1>6. [t EXCEPT !.at[h] = e] = u
    <2>1. PICK s, f, a : s = t.size /\ f = t.free /\ a = t.at
      OBVIOUS
    <2>2. t = [size |-> s, free |-> f, at |-> a] /\ u = [size |-> s, free |-> f, at |-> [a EXCEPT ![h] = e]]
      BY <1>3, <1>5, <2>1, Zenon
    <2>3. [[size |-> s, free |-> f, at |-> a] EXCEPT !.at[h] = e]
             = [size |-> s, free |-> f, at |-> [a EXCEPT ![h] = e]]
      OBVIOUS
    <2> QED
      BY <2>2, <2>3, Zenon
  <1>7. Table(u) /\ Contents(u) = Contents(t) \union {e}
    BY <1>2, <1>3, <1>5, EntryInSlot
  <1>8. u.size = t.size /\ u.free = t.free
    BY <1>3
  <1> QED
    BY <1>4, <1>6, <1>7, <1>8, Zenon

\* What the first slots hold, slot by slot.
LEMMA PartGrows ==
    ASSUME NEW t, Slotted(t), NEW k \in 1 .. t.size
    PROVE  /\ Part(t, 0) = {}
           /\ t.at[k - 1] = Empty => Part(t, k) = Part(t, k - 1)
           /\ t.at[k - 1] # Empty => Part(t, k) = Part(t, k - 1) \union {t.at[k - 1]}
           /\ t.at[k - 1] # Empty => t.at[k - 1] \in Entry
           /\ Once(t) => t.at[k - 1] \notin Part(t, k - 1)
           /\ Part(t, k - 1) \subseteq Contents(t)
           /\ Contents(t) \subseteq Entry
  <1>1. t.size \in Nat /\ t.at \in [0 .. t.size - 1 -> Entry \union {Empty}]
    BY DEF Slotted
  <1>2. 0 .. k - 1 = (0 .. (k - 1) - 1) \union {k - 1} /\ 0 .. 0 - 1 = {} /\ k - 1 \in 0 .. t.size - 1
    BY <1>1
  <1>3. Part(t, 0) = {}
    BY <1>2, Zenon DEF Part
  <1>4. /\ t.at[k - 1] = Empty => Part(t, k) = Part(t, k - 1)
        /\ t.at[k - 1] # Empty => Part(t, k) = Part(t, k - 1) \union {t.at[k - 1]}
    BY <1>2 DEF Part
  <1>5. t.at[k - 1] # Empty => t.at[k - 1] \in Entry
    BY <1>1, <1>2
  <1>6. ASSUME Once(t), t.at[k - 1] \in Part(t, k - 1) PROVE FALSE
    <2>1. PICK h \in 0 .. (k - 1) - 1 : t.at[h] = t.at[k - 1] /\ t.at[h] # Empty
      BY <1>6 DEF Part
    <2>2. h \in 0 .. t.size - 1 /\ h # k - 1
      BY <1>1
    <2> QED
      BY <1>2, <1>6, <2>1, <2>2, Zenon DEF Once
  <1>7. Part(t, k - 1) \subseteq Contents(t)
    <2>1. 0 .. (k - 1) - 1 \subseteq 0 .. t.size - 1
      BY <1>1
    <2> QED
      BY <2>1, Zenon DEF Contents, Part
  <1>8. Contents(t) \subseteq Entry
    BY <1>1 DEF Contents, Part
  <1> QED
    BY <1>3, <1>4, <1>5, <1>6, <1>7, <1>8, Zenon

Relocated(u, old, new) ==
    Table(u) /\ u.size = new.size /\ u.free = new.free /\ Contents(u) = Contents(old)

LEMMA RelocAllKeeps ==
    ASSUME NEW old, Table(old), NEW new, Slotted(new), Contents(new) = {},
           Cardinality(Contents(old)) < new.size
    PROVE  Relocated(RelocAll(old, new), old, new)
  <1>1. PICK N : N = old.size
    OBVIOUS
  <1>2. N \in Nat \ {0}
    BY <1>1 DEF Table, Slotted
  <1>3. new.size \in Nat /\ new.free \in Nat /\ IsFiniteSet(Contents(old))
    BY <1>1, <1>2, PartFinite DEF Slotted, Contents
  <1> DEFINE Step(u, k) == IF old.at[k - 1] = Empty THEN u ELSE Reloc(u, old.at[k - 1])
             Shapes == [size : {new.size}, free : {new.free},
                        at : [0 .. new.size - 1 -> Entry \union {Empty}]]
             P == [k \in 0 .. N |-> {u \in Shapes : Once(u) /\ Contents(u) = Part(old, k)}]
             S == UNION {P[k] : k \in 0 .. N}
             F == [p \in S \X (1 .. N) |-> Step(p[1], p[2])]
             body(f) == [i \in 0 .. N |->
                           IF i = 0 THEN new
                           ELSE IF old.at[i - 1] = Empty THEN f[i - 1]
                           ELSE Reloc(f[i - 1], old.at[i - 1])]
             filled == CHOOSE f : f = body(f)
  <1>4. RelocAll(old, new) = filled[N]
    BY <1>1, Zenon DEF RelocAll
  <1>5. \A u : u \in Shapes <=> Slotted(u) /\ u.size = new.size /\ u.free = new.free
    BY <1>3 DEF Slotted
  <1>6. \A k \in 0 .. N : \A u : u \in P[k] <=> /\ Table(u) /\ u.size = new.size /\ u.free = new.free
                                                /\ Contents(u) = Part(old, k)
    <2> HIDE DEF Shapes
    <2> QED
      BY <1>5 DEF Table
  <1> HIDE DEF Shapes, P
  <1>7. 0 \in 0 .. N /\ \A k \in 1 .. N : k \in 0 .. N /\ k - 1 \in 0 .. N /\ k # 0
    BY <1>2
  <1>8. new \in P[0]
    <2>1. Part(old, 0) = {}
      BY <1>1, <1>2, PartGrows DEF Table
    <2>2. Once(new)
      BY <1>3 DEF Contents, Part, Once
    <2> QED
      BY <1>6, <1>7, <2>1, <2>2, Zenon DEF Table
  <1>9. ASSUME NEW k \in 1 .. N, NEW u \in P[k - 1] PROVE Step(u, k) \in P[k]
    <2>1. /\ Table(u) /\ u.size = new.size /\ u.free = new.free
          /\ Contents(u) = Part(old, k - 1)
      BY <1>6, <1>7, Zenon
    <2>2. PICK e : e = old.at[k - 1]
      OBVIOUS
    <2>3. /\ e = Empty => Part(old, k) = Part(old, k - 1)
          /\ e # Empty => Part(old, k) = Part(old, k - 1) \union {e}
          /\ e # Empty => e \in Entry
          /\ e \notin Part(old, k - 1)
          /\ Part(old, k - 1) \subseteq Contents(old)
      BY <1>1, <2>2, PartGrows DEF Table
    <2>4. Cardinality(Contents(u)) < u.size
      <3>1. Cardinality(Part(old, k - 1)) <= Cardinality(Contents(old))
        BY <1>3, <2>3, FS_Subset
      <3>2. Cardinality(Part(old, k - 1)) \in Nat /\ Cardinality(Contents(old)) \in Nat
        BY <1>3, <2>3, FS_Subset, FS_CardinalityType
      <3> QED
        BY <1>3, <2>1, <3>1, <3>2
    <2>5. CASE e = Empty
      BY <1>6, <1>7, <2>1, <2>2, <2>3, <2>5, Zenon
    <2>6. CASE e # Empty
      <3>1. /\ Table(Reloc(u, e)) /\ Reloc(u, e).size = new.size /\ Reloc(u, e).free = new.free
            /\ Contents(Reloc(u, e)) = Part(old, k)
        <4>1. Part(old, k) = Contents(u) \union {e} /\ e \in Entry /\ e \notin Contents(u)
          BY <2>1, <2>3, <2>6, Zenon
        <4> QED
          BY <2>1, <2>4, <4>1, RelocKeeps
      <3> QED
        BY <1>6, <1>7, <2>2, <2>6, <3>1, Zenon
    <2> QED
      BY <2>5, <2>6
  <1>10. \A k \in 1 .. N : \A u \in P[k - 1] : F[<<u, k>>] = Step(u, k)
    <2> TAKE k \in 1 .. N
    <2> TAKE u \in P[k - 1]
    <2>1. u \in S
      BY <1>7
    <2> HIDE DEF S
    <2>2. <<u, k>> \in S \X (1 .. N) /\ <<u, k>>[1] = u /\ <<u, k>>[2] = k
      BY <2>1
    <2> HIDE DEF Step
    <2> QED
      BY <2>2, Zenon
  <1> HIDE DEF F
  <1>11. \A k \in 1 .. N : \A u \in P[k - 1] : F[<<u, k>>] \in P[k]
    BY <1>9, <1>10, Zenon
  <1>12. PICK f : /\ f = [k \in 0 .. N |-> f[k]]
                  /\ Recurses(f, N, new, F) /\ \A k \in 0 .. N : f[k] \in P[k]
    <2>1. RecursiveThrough(P, N, new, F)
      BY <1>2, <1>8, <1>11, RecursionThrough
    <2> QED
      BY <2>1, Zenon DEF RecursiveThrough
  <1>13. f = body(f)
    <2>1. \A k \in 0 .. N : f[k] = body(f)[k]
      <3> TAKE k \in 0 .. N
      <3>1. CASE k = 0
        BY <1>12, <3>1, Zenon DEF Recurses
      <3>2. CASE k # 0
        <4>1. k \in 1 .. N /\ k - 1 \in 0 .. N
          BY <1>2, <3>2
        <4>2. f[k] = Step(f[k - 1], k)
          BY <1>10, <1>12, <4>1, Zenon DEF Recurses
        <4> QED
          BY <3>2, <4>2, Zenon
      <3> QED
        BY <3>1, <3>2
    <2>2. body(f) = [k \in 0 .. N |-> body(f)[k]]
      BY Zenon
    <2> HIDE DEF body
    <2> QED
      BY <1>12, <2>1, <2>2, Zenon
  <1>14. filled = body(filled)
    BY <1>13, Zenon
  <1>15. PICK g : g = filled
    OBVIOUS
  <1>16. g = body(g)
    <2> HIDE DEF body, filled
    <2> QED
      BY <1>14, <1>15, Zenon
  <1>17. g[0] = new /\ \A k \in 1 .. N : g[k] = Step(g[k - 1], k)
    BY <1>7, <1>16, Zenon
  <1> HIDE DEF filled, body, Step
  <1>18. \A k \in 0 .. N : g[k] \in P[k]
    <2>1. g[0] \in P[0] /\ \A k \in 1 .. N : g[k - 1] \in P[k - 1] => g[k] = F[<<g[k - 1], k>>]
      BY <1>8, <1>10, <1>17, Zenon
    <2> QED
      BY <1>2, <1>11, <2>1, StaysThrough
  <1>19. g[N] \in P[N] /\ N \in 0 .. N
    BY <1>2, <1>18
  <1> QED
    BY <1>1, <1>4, <1>6, <1>15, <1>19, Zenon DEF Relocated, Contents

\* A table is counted after a resize when it was before.
LEMMA ResizeKeeps ==
    ASSUME NEW t, Table(t), Counted(t), NEW size \in Nat \ {0}, Cardinality(Contents(t)) < size
    PROVE  /\ Table(Resize(t, size)) /\ Counted(Resize(t, size))
           /\ Contents(Resize(t, size)) = Contents(t)
           /\ Resize(t, size).size = size /\ Resize(t, size).free = t.free + size - t.size
  <1>1. PICK c : c = Cardinality(Contents(t))
    OBVIOUS
  <1>2. PICK f : f = t.free + size - t.size
    OBVIOUS
  <1>3. c \in Nat /\ t.free \in Nat /\ t.size \in Nat /\ t.size = t.free + c
    BY <1>1, PartFinite, FS_CardinalityType DEF Contents, Table, Slotted, Counted
  <1>4. f \in Nat /\ size = f + c
    BY <1>1, <1>2, <1>3
  <1>5. PICK new : new = [size |-> size, free |-> f, at |-> [h \in 0 .. size - 1 |-> Empty]]
    OBVIOUS
  <1>6. /\ new = [size |-> new.size, free |-> new.free, at |-> new.at]
        /\ new.size = size /\ new.free = f /\ new.at = [h \in 0 .. size - 1 |-> Empty]
    BY <1>5
  <1>7. Slotted(new)
    BY <1>4, <1>6 DEF Slotted
  <1>8. Contents(new) = {}
    BY <1>6 DEF Contents, Part
  <1>9. Resize(t, size) = RelocAll(t, new)
    <2>1. [NewTable(size) EXCEPT !.free = f] = new
      BY <1>5 DEF NewTable
    <2> QED
      BY <1>2, <2>1, Zenon DEF Resize
  <1>10. PICK u : u = RelocAll(t, new)
    OBVIOUS
  <1>11. Table(u) /\ u.size = size /\ u.free = f /\ Contents(u) = Contents(t)
    <2>1. Cardinality(Contents(t)) < new.size
      BY <1>6
    <2>2. Relocated(RelocAll(t, new), t, new)
      BY <1>7, <1>8, <2>1, RelocAllKeeps
    <2> QED
      BY <1>6, <1>10, <2>2, Zenon DEF Relocated
  <1>12. Counted(u)
    BY <1>1, <1>4, <1>11, Zenon DEF Counted
  <1> QED
    BY <1>2, <1>9, <1>10, <1>11, <1>12, Zenon

-----------------------------------------------------------------------------
(* The operations.                                                         *)

LEMMA ContentsCounted ==
    ASSUME NEW t, Good(t)
    PROVE  /\ t.size \in Nat /\ t.free \in Nat /\ 4 * t.free > t.size
           /\ IsFiniteSet(Contents(t)) /\ Cardinality(Contents(t)) \in Nat
           /\ t.size = t.free + Cardinality(Contents(t))
  <1>1. t.size \in Nat \ {0} /\ t.free \in Nat /\ 4 * t.free > t.size
    BY DEF Good, Table, Slotted, Roomy
  <1>2. IsFiniteSet(Contents(t))
    BY <1>1, PartFinite DEF Contents
  <1> QED
    BY <1>1, <1>2, FS_CardinalityType DEF Good, Counted

\* One slot of the struct and the count of the free ones are written together.
Taking(t, h, e) == [t EXCEPT !.at[h] = e, !.free = @ - 1]
Giving(t, h, e) == [t EXCEPT !.at[h] = e, !.free = @ + 1]

LEMMA SlotAndCount ==
    ASSUME NEW s, NEW f, NEW a, NEW h, NEW e, NEW x, x = [size |-> s, free |-> f, at |-> a]
    PROVE  /\ Taking(x, h, e) = [size |-> s, free |-> f - 1, at |-> [a EXCEPT ![h] = e]]
           /\ Giving(x, h, e) = [size |-> s, free |-> f + 1, at |-> [a EXCEPT ![h] = e]]
  <1>1. PICK y : y = [x EXCEPT !.at[h] = e, !.free = @ - 1]
    OBVIOUS
  <1>2. PICK z : z = [x EXCEPT !.at[h] = e, !.free = @ + 1]
    OBVIOUS
  <1>3. y = [size |-> s, free |-> f - 1, at |-> [a EXCEPT ![h] = e]]
    <2>1. y = [size |-> y.size, free |-> y.free, at |-> y.at]
      BY <1>1
    <2>2. y.size = s
      BY <1>1
    <2>3. y.free = f - 1
      BY <1>1
    <2>4. y.at = [a EXCEPT ![h] = e]
      BY <1>1
    <2> QED
      BY <2>1, <2>2, <2>3, <2>4, Zenon
  <1>4. z = [size |-> s, free |-> f + 1, at |-> [a EXCEPT ![h] = e]]
    <2>1. z = [size |-> z.size, free |-> z.free, at |-> z.at]
      BY <1>2
    <2>2. z.size = s
      BY <1>2
    <2>3. z.free = f + 1
      BY <1>2
    <2>4. z.at = [a EXCEPT ![h] = e]
      BY <1>2
    <2> QED
      BY <2>1, <2>2, <2>3, <2>4, Zenon
  <1> QED
    BY <1>1, <1>2, <1>3, <1>4, Zenon DEF Taking, Giving

\* What intmap_ins grows for: three quarters of the slots are taken.
Grown(u, t) == u.size = 4 * t.size /\ 3 * t.size <= 4 * Cardinality(Contents(u))

Inserted(u, t, e) ==
    Good(u) /\ Contents(u) = Contents(t) \union {e} /\ (u.size = t.size \/ Grown(u, t))

LEMMA InsertKeeps ==
    ASSUME NEW t, Good(t), NEW e \in Entry, e \notin Contents(t)
    PROVE  Inserted(Insert(t, e), t, e)
  <1>1. /\ t.size \in Nat /\ t.free \in Nat /\ 4 * t.free > t.size
        /\ IsFiniteSet(Contents(t)) /\ Cardinality(Contents(t)) \in Nat
        /\ t.size = t.free + Cardinality(Contents(t))
    BY ContentsCounted
  <1>2. PICK h : h = FirstProbed(t, e.key, EmptySlots(t))
    OBVIOUS
  <1>3. EmptySlots(t) # {} /\ h \in 0 .. t.size - 1 /\ t.at[h] = Empty /\ Table(t)
    <2>1. Cardinality(Contents(t)) < t.size /\ Home[e.key] \in Nat /\ Table(t)
      BY <1>1, KeysHaveHomes DEF Good
    <2> QED
      BY <1>2, <2>1, FreeSlotFound, Zenon
  <1>4. Insert(t, e) = WriteElem(t, h, e)
    BY <1>2, <1>3, Zenon DEF Insert
  <1>5. PICK s, f, a : s = t.size /\ f = t.free - 1 /\ a = t.at
    OBVIOUS
  <1>6. PICK w : w = [size |-> s, free |-> f, at |-> [a EXCEPT ![h] = e]]
    OBVIOUS
  <1>7. [t EXCEPT !.at[h] = e, !.free = @ - 1] = w
    <2>1. PICK r : r = t.free
      OBVIOUS
    <2>2. t = [size |-> s, free |-> r, at |-> a] /\ f = r - 1
      BY <1>3, <1>5, <2>1, Zenon DEF Table, Slotted
    <2>3. Taking(t, h, e) = [size |-> s, free |-> r - 1, at |-> [a EXCEPT ![h] = e]]
      BY <2>2, SlotAndCount
    <2> QED
      BY <1>6, <2>2, <2>3, Zenon DEF Taking
  <1>8. WriteElem(t, h, e) = IF w.free <= w.size \div 4 THEN Resize(w, 4 * w.size) ELSE w
    <2> DEFINE W == [t EXCEPT !.at[h] = e, !.free = @ - 1]
    <2>1. WriteElem(t, h, e) = IF W.free <= W.size \div 4 THEN Resize(W, 4 * W.size) ELSE W
      BY Zenon DEF WriteElem
    <2>2. W = w
      BY <1>7, Zenon
    <2> HIDE DEF W
    <2> QED
      BY <2>1, <2>2, Zenon
  <1>9. f \in Nat /\ s \in Nat \ {0}
    BY <1>1, <1>5
  <1>10. Table(w) /\ Contents(w) = Contents(t) \union {e}
    BY <1>3, <1>5, <1>6, <1>9, EntryInSlot
  <1>11. w.size = s /\ w.free = f
    BY <1>6
  <1>12. PICK c : c = Cardinality(Contents(w))
    OBVIOUS
  <1>13. c \in Nat /\ c = Cardinality(Contents(t)) + 1
    <2>1. Cardinality(Contents(t) \union {e}) = Cardinality(Contents(t)) + 1
      BY <1>1, FS_AddElement
    <2> QED
      BY <1>1, <1>10, <1>12, <2>1
  <1>14. s = f + c
    BY <1>1, <1>5, <1>13
  <1>15. Counted(w)
    BY <1>11, <1>12, <1>14, Zenon DEF Counted
  <1>16. PICK m \in Nat : s = 4 * m
    BY <1>5 DEF Good, Roomy
  <1>17. s \div 4 = m /\ m > 0
    BY <1>9, <1>16
  <1>18. CASE f <= m
    <2>1. PICK u : u = Resize(w, 4 * w.size)
      OBVIOUS
    <2>2. c < 4 * s /\ 4 * s \in Nat \ {0}
      BY <1>9, <1>13, <1>14
    <2>3. Table(u) /\ Counted(u) /\ Contents(u) = Contents(w) /\ u.size = 4 * s /\ u.free = f + 4 * s - s
      BY <1>10, <1>11, <1>12, <1>15, <2>1, <2>2, ResizeKeeps
    <2>4. 4 * (f + 4 * s - s) > 4 * s /\ 4 * s \in Nat
      BY <1>9
    <2>5. Roomy(u)
      BY <1>9, <2>3, <2>4 DEF Roomy
    <2>6. 3 * s <= 4 * c
      BY <1>9, <1>13, <1>14, <1>16, <1>18
    <2>7. Grown(u, t)
      BY <1>5, <1>12, <2>3, <2>6, Zenon DEF Grown
    <2>8. Insert(t, e) = u
      BY <1>4, <1>8, <1>11, <1>17, <1>18, <2>1, Zenon
    <2> QED
      BY <1>10, <2>3, <2>5, <2>7, <2>8, Zenon DEF Inserted, Good
  <1>19. CASE ~(f <= m)
    <2>1. 4 * f > s
      BY <1>9, <1>16, <1>19
    <2>2. Roomy(w)
      BY <1>11, <1>16, <2>1 DEF Roomy
    <2>3. Insert(t, e) = w
      BY <1>4, <1>8, <1>11, <1>17, <1>19, Zenon
    <2> QED
      BY <1>5, <1>10, <1>11, <1>15, <2>2, <2>3, Zenon DEF Inserted, Good
  <1> QED
    BY <1>18, <1>19

Freed(u, t, h) ==
    /\ Good(u) /\ Contents(u) = Contents(t) \ {t.at[h]} /\ u.size = t.size
    /\ Cardinality(Contents(u)) = Cardinality(Contents(t)) - 1

LEMMA FreeSlotKeeps ==
    ASSUME NEW t, Good(t), NEW h \in 0 .. t.size - 1, t.at[h] # Empty
    PROVE  Freed(FreeSlot(t, h), t, h)
  <1>1. /\ t.size \in Nat /\ t.free \in Nat /\ 4 * t.free > t.size
        /\ IsFiniteSet(Contents(t)) /\ Cardinality(Contents(t)) \in Nat
        /\ t.size = t.free + Cardinality(Contents(t))
    BY ContentsCounted
  <1>2. PICK s, f, a : s = t.size /\ f = t.free + 1 /\ a = t.at
    OBVIOUS
  <1>3. PICK w : w = [size |-> s, free |-> f, at |-> [a EXCEPT ![h] = Empty]]
    OBVIOUS
  <1>4. FreeSlot(t, h) = w
    <2>1. PICK r : r = t.free
      OBVIOUS
    <2>2. t = [size |-> s, free |-> r, at |-> a] /\ f = r + 1
      BY <1>2, <2>1, Zenon DEF Good, Table, Slotted
    <2>3. Giving(t, h, Empty) = [size |-> s, free |-> r + 1, at |-> [a EXCEPT ![h] = Empty]]
      BY <2>2, SlotAndCount
    <2> QED
      BY <1>3, <2>2, <2>3, Zenon DEF FreeSlot, Giving
  <1>5. f \in Nat /\ s \in Nat
    BY <1>1, <1>2
  <1>6. Table(w) /\ Contents(w) = Contents(t) \ {t.at[h]}
    BY <1>2, <1>3, <1>5, SlotFreed DEF Good
  <1>7. w.size = s /\ w.free = f
    BY <1>3
  <1>8. Cardinality(Contents(w)) = Cardinality(Contents(t)) - 1
    <2>1. t.at[h] \in Contents(t)
      BY DEF Contents, Part
    <2>2. Cardinality(Contents(t) \ {t.at[h]}) = Cardinality(Contents(t)) - 1
      BY <1>1, <2>1, FS_RemoveElement
    <2> QED
      BY <1>6, <2>2, Zenon
  <1>9. Counted(w)
    BY <1>1, <1>2, <1>7, <1>8 DEF Counted
  <1>10. Roomy(w)
    <2>1. 4 * f > s
      BY <1>1, <1>2
    <2> QED
      BY <1>2, <1>7, <2>1 DEF Good, Roomy
  <1> QED
    BY <1>2, <1>4, <1>6, <1>7, <1>8, <1>9, <1>10, Zenon DEF Freed, Good

-----------------------------------------------------------------------------
(* The sizes a table can get.                                              *)

SizedRight(s) ==
    /\ s \in Nat \ {0}
    /\ \E m \in Nat : s = 4 * m
    /\ s > MinSize => s \div 2 \in Sizes
    /\ 3 * s <= 4 * MaxLive => 4 * s \in Sizes

LEMMA SizesDouble == MinSize \in Sizes /\ \A s \in Sizes : SizedRight(s)
  <1>1. MaxLive \in Nat /\ \E m \in 1 .. 16 : MinSize = 4 * m
    BY KeysAssumption, TableAssumption
  <1>2. PICK N \in Nat : N = MaxLive
    BY <1>1
  <1> DEFINE F == [p \in Nat \X (1 .. N) |-> 2 * p[1]]
             body(f) == [n \in 0 .. N |-> IF n = 0 THEN MinSize ELSE 2 * f[n - 1]]
             doubled == CHOOSE f : f = body(f)
  <1>3. Sizes = {doubled[n] : n \in 0 .. N}
    BY <1>2, Zenon DEF Sizes
  <1>4. F \in [Nat \X (1 .. N) -> Nat] /\ MinSize \in Nat
    BY <1>1
  <1>5. \A x \in Nat, n \in 1 .. N : F[<<x, n>>] = 2 * x
    OBVIOUS
  <1> HIDE DEF F
  <1>6. PICK f \in [0 .. N -> Nat] : f[0] = MinSize /\ \A k \in 1 .. N : f[k] = F[<<f[k - 1], k>>]
    <2>1. RecursiveIn(Nat, N, MinSize, F)
      BY <1>4, Recursion
    <2> QED
      BY <2>1, Zenon DEF RecursiveIn, Recurses
  <1>7. f = body(f)
    <2>1. \A k \in 0 .. N : f[k] = body(f)[k]
      <3> TAKE k \in 0 .. N
      <3>1. CASE k = 0
        BY <1>6, <3>1, Zenon
      <3>2. CASE k # 0
        <4>1. k \in 1 .. N /\ f[k - 1] \in Nat
          BY <3>2
        <4> QED
          BY <1>5, <1>6, <3>2, <4>1, Zenon
      <3> QED
        BY <3>1, <3>2
    <2>2. body(f) = [k \in 0 .. N |-> body(f)[k]] /\ f = [k \in 0 .. N |-> f[k]]
      BY Zenon
    <2> HIDE DEF body
    <2> QED
      BY <2>1, <2>2, Zenon
  <1>8. doubled = body(doubled)
    BY <1>7, Zenon
  <1>9. PICK g : g = doubled
    OBVIOUS
  <1>10. g = body(g)
    <2> HIDE DEF body, doubled
    <2> QED
      BY <1>8, <1>9, Zenon
  <1>11. g[0] = MinSize /\ \A k \in 1 .. N : g[k] = 2 * g[k - 1]
    <2>1. 0 \in 0 .. N /\ \A k \in 1 .. N : k \in 0 .. N /\ k # 0
      OBVIOUS
    <2> QED
      BY <1>10, <2>1, Zenon
  <1> HIDE DEF body, doubled
  <1> DEFINE D == {n \in 0 .. N : g[n] \in Nat /\ g[n] >= MinSize /\ g[n] >= 4 * (n + 1)
                                 /\ \E m \in Nat : g[n] = 4 * m}
  <1>12. 0 \in D
    BY <1>1, <1>11
  <1>13. ASSUME NEW n \in 0 .. N - 1, n \in D PROVE n + 1 \in D
    <2>1. n + 1 \in 1 .. N /\ (n + 1) - 1 = n /\ n + 1 \in 0 .. N
      OBVIOUS
    <2>2. g[n + 1] = 2 * g[n]
      BY <1>11, <2>1
    <2>3. PICK m \in Nat : g[n] = 4 * m /\ g[n] >= MinSize /\ g[n] >= 4 * (n + 1)
      BY <1>13
    <2>4. g[n + 1] = 4 * (2 * m) /\ 2 * m \in Nat
      BY <2>2, <2>3
    <2>5. g[n + 1] \in Nat /\ g[n + 1] >= MinSize /\ g[n + 1] >= 4 * ((n + 1) + 1)
      <3>1. n \in Nat /\ g[n] \in Nat /\ MinSize \in Nat
        BY <1>4, <2>3
      <3> QED
        BY <2>2, <2>3, <3>1
    <2> QED
      BY <2>1, <2>4, <2>5
  <1>14. 0 .. N \subseteq D
    <2> HIDE DEF D
    <2> QED
      BY <1>12, <1>13, BoundedInduction
  <1>15. Sizes = {g[n] : n \in 0 .. N}
    BY <1>3, <1>9, Zenon
  <1>16. ASSUME NEW s \in Sizes PROVE SizedRight(s)
    <2>1. PICK n \in 0 .. N : s = g[n]
      BY <1>15
    <2>2. s \in Nat /\ s >= 4 * (n + 1) /\ \E m \in Nat : s = 4 * m
      BY <1>14, <2>1
    <2>3. ASSUME s > MinSize PROVE s \div 2 \in Sizes
      <3>1. n # 0
        <4>1. n = 0 => s = MinSize
          BY <1>11, <2>1, Zenon
        <4> QED
          BY <1>4, <2>3, <4>1
      <3>2. n \in 1 .. N /\ n - 1 \in 0 .. N
        BY <3>1
      <3>3. s = 2 * g[n - 1] /\ g[n - 1] \in Nat
        BY <1>11, <1>14, <2>1, <3>2
      <3>4. s \div 2 = g[n - 1]
        <4>1. \A x \in Nat : (2 * x) \div 2 = x
          OBVIOUS
        <4> QED
          BY <3>3, <4>1, Zenon
      <3> QED
        BY <1>15, <3>2, <3>4
    <2>4. ASSUME 3 * s <= 4 * MaxLive PROVE 4 * s \in Sizes
      <3>1. n + 1 \in 1 .. N /\ n + 2 \in 1 .. N /\ (n + 1) - 1 = n /\ (n + 2) - 1 = n + 1
        BY <1>2, <2>2, <2>4
      <3>2. g[n + 1] = 2 * s /\ g[n + 2] = 2 * g[n + 1]
        BY <1>11, <2>1, <3>1
      <3>3. g[n + 2] = 4 * s
        BY <2>2, <3>2
      <3>4. n + 2 \in 0 .. N
        BY <3>1
      <3> QED
        BY <1>15, <3>3, <3>4
    <2> QED
      BY <2>2, <2>3, <2>4 DEF SizedRight
  <1>17. MinSize \in Sizes
    <2>1. 0 \in 0 .. N
      OBVIOUS
    <2> QED
      BY <1>11, <1>15, <2>1, Zenon
  <1> QED
    BY <1>16, <1>17

-----------------------------------------------------------------------------
(* Removing.                                                               *)

LEMMA FoundIsThere ==
    ASSUME NEW t, Slotted(t), NEW key, Home[key] \in Nat
    PROVE  /\ \A h \in Found(t, key) : h \in 0 .. t.size - 1 /\ t.at[h] # Empty /\ t.at[h].key = key
           /\ Found(t, key) = {} <=> \A e \in Contents(t) : e.key # key
  <1>1. \A h : h \in SlotsOf(t, key) <=> h \in 0 .. t.size - 1 /\ t.at[h] # Empty /\ t.at[h].key = key
    BY DEF SlotsOf, EmptySlots, Slotted
  <1>2. SlotsOf(t, key) = {} <=> \A e \in Contents(t) : e.key # key
    BY <1>1 DEF Contents, Part
  <1>3. Found(t, key) \subseteq SlotsOf(t, key)
    BY Zenon DEF Found
  <1>4. ASSUME SlotsOf(t, key) # {} PROVE Found(t, key) # {}
    <2>1. SlotsOf(t, key) \in SUBSET (0 .. t.size - 1)
      BY <1>1, Zenon
    <2>2. FirstProbed(t, key, SlotsOf(t, key)) \in SlotsOf(t, key)
      BY <1>4, <2>1, FirstProbedIn, Zenon
    <2> QED
      BY <2>2, Zenon DEF Found
  <1> QED
    BY <1>1, <1>2, <1>3, <1>4, Zenon

Deleted(u, t) ==
    /\ Good(u) /\ u.size \in Sizes
    /\ Contents(u) = Contents(t) \/ \E e \in Contents(t) : Contents(u) = Contents(t) \ {e}

LEMMA DeleteKeeps ==
    ASSUME NEW t, Good(t), t.size \in Sizes, NEW key, Home[key] \in Nat
    PROVE  Deleted(Delete(t, key), t)
  <1>1. CASE Found(t, key) = {}
    BY <1>1, Zenon DEF Delete, Deleted
  <1>2. CASE Found(t, key) # {}
    <2>1. PICK h : h = CHOOSE g \in Found(t, key) : TRUE
      OBVIOUS
    <2>2. h \in 0 .. t.size - 1 /\ t.at[h] # Empty
      <3>1. h \in Found(t, key)
        BY <1>2, <2>1, Zenon
      <3> QED
        BY <3>1, FoundIsThere, Zenon DEF Good, Table
    <2>3. PICK w : w = FreeSlot(t, h)
      OBVIOUS
    <2>4. Good(w) /\ Contents(w) = Contents(t) \ {t.at[h]} /\ w.size = t.size
      BY <2>2, <2>3, FreeSlotKeeps, Zenon DEF Freed
    <2>5. Delete(t, key) = IF w.free > 3 * (w.size \div 4) /\ w.size > MinSize
                           THEN Resize(w, w.size \div 2) ELSE w
      <3> DEFINE f == FreeSlot(t, CHOOSE g \in Found(t, key) : TRUE)
      <3>1. Delete(t, key) = IF f.free > 3 * (f.size \div 4) /\ f.size > MinSize
                             THEN Resize(f, f.size \div 2) ELSE f
        BY <1>2, Zenon DEF Delete
      <3>2. f = w
        BY <2>1, <2>3, Zenon
      <3> HIDE DEF f
      <3> QED
        BY <3>1, <3>2, Zenon
    <2>6. t.at[h] \in Contents(t)
      BY <2>2 DEF Contents, Part
    <2>7. CASE w.free > 3 * (w.size \div 4) /\ w.size > MinSize
      <3>1. PICK s, f, c : s = w.size /\ f = w.free /\ c = Cardinality(Contents(w))
        OBVIOUS
      <3>2. s \in Nat /\ f \in Nat /\ c \in Nat /\ s = f + c
        BY <2>4, <3>1, ContentsCounted
      <3>3. PICK m \in Nat : s = 4 * m
        BY <2>4, <3>1 DEF Good, Roomy
      <3>4. s \div 4 = m /\ s \div 2 = 2 * m /\ f > 3 * m /\ c < m
        BY <2>7, <3>1, <3>2, <3>3
      <3>5. PICK u : u = Resize(w, 2 * m)
        OBVIOUS
      <3>6. 2 * m \in Nat \ {0} /\ c < 2 * m
        BY <3>2, <3>4
      <3>7. /\ Table(u) /\ Counted(u) /\ Contents(u) = Contents(w)
            /\ u.size = 2 * m /\ u.free = f + 2 * m - s
        BY <2>4, <3>1, <3>5, <3>6, ResizeKeeps DEF Good
      <3>8. u.size \in Sizes /\ \E n \in Nat : u.size = 4 * n
        <4>1. s \in Sizes /\ s > MinSize
          BY <2>4, <2>7, <3>1
        <4>2. s \div 2 \in Sizes
          BY <4>1, SizesDouble DEF SizedRight
        <4> QED
          BY <3>4, <3>7, <4>2, SizesDouble DEF SizedRight
      <3>9. 4 * u.free > u.size
        BY <3>2, <3>3, <3>4, <3>7
      <3>10. Good(u)
        BY <3>7, <3>8, <3>9, Zenon DEF Good, Roomy
      <3>11. Delete(t, key) = u
        BY <2>5, <2>7, <3>1, <3>4, <3>5, Zenon
      <3> QED
        BY <2>4, <2>6, <3>7, <3>8, <3>10, <3>11, Zenon DEF Deleted
    <2>8. CASE ~(w.free > 3 * (w.size \div 4) /\ w.size > MinSize)
      BY <2>4, <2>5, <2>6, <2>8, Zenon DEF Deleted
    <2> QED
      BY <2>7, <2>8, Zenon
  <1> QED
    BY <1>1, <1>2

-----------------------------------------------------------------------------
(* The entries in the order of the slots.                                  *)

Enumerates(s, C) ==
    /\ s \in Seq(Entry) /\ Range(s) = C /\ Len(s) = Cardinality(C)
    /\ \A i, j \in 1 .. Len(s) : s[i] = s[j] => i = j

LEMMA AppendEnumerates ==
    ASSUME NEW C, IsFiniteSet(C), NEW s, Enumerates(s, C), NEW e \in Entry, e \notin C
    PROVE  Enumerates(Append(s, e), C \union {e})
  <1>1. PICK z : z = Append(s, e)
    OBVIOUS
  <1>2. s \in Seq(Entry) /\ Range(s) = C /\ Len(s) = Cardinality(C)
    BY DEF Enumerates
  <1>3. /\ z \in Seq(Entry) /\ Len(z) = Len(s) + 1 /\ Len(s) \in Nat
        /\ z[Len(s) + 1] = e /\ \A i \in 1 .. Len(s) : z[i] = s[i]
    BY <1>1, <1>2
  <1>4. DOMAIN z = 1 .. Len(s) + 1 /\ DOMAIN s = 1 .. Len(s)
    BY <1>2, <1>3
  <1>5. Range(z) = C \union {e}
    <2>1. 1 .. Len(s) + 1 = (1 .. Len(s)) \union {Len(s) + 1}
      BY <1>3
    <2>2. C = {s[i] : i \in 1 .. Len(s)} /\ Range(z) = {z[i] : i \in 1 .. Len(s) + 1}
      BY <1>2, <1>4, Zenon DEF Range
    <2> QED
      BY <1>3, <2>1, <2>2
  <1>6. Len(z) = Cardinality(C \union {e})
    <2>1. Cardinality(C \union {e}) = Cardinality(C) + 1
      BY FS_AddElement
    <2> QED
      BY <1>2, <1>3, <2>1, Zenon
  <1>7. ASSUME NEW i \in 1 .. Len(z), NEW j \in 1 .. Len(z), z[i] = z[j] PROVE i = j
    <2>1. \A k \in 1 .. Len(s) : s[k] \in C
      BY <1>2, <1>4, Zenon DEF Range
    <2>2. \A k \in 1 .. Len(s) : z[k] # e
      BY <1>3, <2>1
    <2>3. CASE i \in 1 .. Len(s) /\ j \in 1 .. Len(s)
      BY <1>3, <1>7, <2>3, Zenon DEF Enumerates
    <2>4. CASE i \notin 1 .. Len(s) /\ j \notin 1 .. Len(s)
      BY <1>3, <2>4
    <2>5. CASE i \in 1 .. Len(s) /\ j \notin 1 .. Len(s)
      <3>1. j = Len(s) + 1
        BY <1>3, <2>5
      <3> QED
        BY <1>3, <1>7, <2>2, <2>5, <3>1, Zenon
    <2>6. CASE i \notin 1 .. Len(s) /\ j \in 1 .. Len(s)
      <3>1. i = Len(s) + 1
        BY <1>3, <2>6
      <3> QED
        BY <1>3, <1>7, <2>2, <2>6, <3>1, Zenon
    <2> QED
      BY <2>3, <2>4, <2>5, <2>6
  <1> QED
    BY <1>1, <1>3, <1>5, <1>6, <1>7, Zenon DEF Enumerates

LEMMA EntriesEnumerate ==
    ASSUME NEW t, Table(t)
    PROVE  Enumerates(Entries(t), Contents(t))
  <1>1. PICK N : N = t.size
    OBVIOUS
  <1>2. N \in Nat \ {0}
    BY <1>1 DEF Table, Slotted
  <1> DEFINE Step(s, k) == IF t.at[k - 1] = Empty THEN s ELSE Append(s, t.at[k - 1])
             P == [k \in 0 .. N |-> {s \in Seq(Entry) : Enumerates(s, Part(t, k))}]
             S == UNION {P[k] : k \in 0 .. N}
             F == [p \in S \X (1 .. N) |-> Step(p[1], p[2])]
             body(f) == [i \in 0 .. N |->
                           IF i = 0 THEN <<>>
                           ELSE IF t.at[i - 1] = Empty THEN f[i - 1]
                           ELSE Append(f[i - 1], t.at[i - 1])]
             upto == CHOOSE f : f = body(f)
  <1>3. Entries(t) = upto[N]
    BY <1>1, Zenon DEF Entries
  <1>4. \A k \in 0 .. N : \A s : s \in P[k] <=> Enumerates(s, Part(t, k))
    BY DEF Enumerates
  <1> HIDE DEF P
  <1>5. 0 \in 0 .. N /\ \A k \in 1 .. N : k \in 0 .. N /\ k - 1 \in 0 .. N /\ k # 0
    BY <1>2
  <1>6. <<>> \in P[0]
    <2>1. Part(t, 0) = {}
      BY <1>1, <1>2, PartGrows DEF Table
    <2>2. Enumerates(<<>>, {})
      <3>1. Range(<<>>) = {}
        BY DEF Range
      <3>2. <<>> \in Seq(Entry) /\ Len(<<>>) = 0 /\ 1 .. 0 = {}
        OBVIOUS
      <3> QED
        BY <3>1, <3>2, FS_EmptySet, Zenon DEF Enumerates
    <2> QED
      BY <1>4, <1>5, <2>1, <2>2, Zenon
  <1>7. ASSUME NEW k \in 1 .. N, NEW s \in P[k - 1] PROVE Step(s, k) \in P[k]
    <2>1. PICK e : e = t.at[k - 1]
      OBVIOUS
    <2>2. /\ e = Empty => Part(t, k) = Part(t, k - 1)
          /\ e # Empty => Part(t, k) = Part(t, k - 1) \union {e}
          /\ e # Empty => e \in Entry
          /\ e \notin Part(t, k - 1)
      BY <1>1, <2>1, PartGrows DEF Table
    <2>3. Enumerates(s, Part(t, k - 1))
      BY <1>4, <1>5, Zenon
    <2>4. IsFiniteSet(Part(t, k - 1))
      BY PartFinite
    <2>5. CASE e = Empty
      BY <1>4, <1>5, <2>1, <2>2, <2>3, <2>5, Zenon
    <2>6. CASE e # Empty
      <3>1. Enumerates(Append(s, e), Part(t, k))
        BY <2>2, <2>3, <2>4, <2>6, AppendEnumerates
      <3> QED
        BY <1>4, <1>5, <2>1, <2>6, <3>1, Zenon
    <2> QED
      BY <2>5, <2>6
  <1>8. \A k \in 1 .. N : \A s \in P[k - 1] : F[<<s, k>>] = Step(s, k)
    <2> TAKE k \in 1 .. N
    <2> TAKE s \in P[k - 1]
    <2>1. s \in S
      BY <1>5
    <2> HIDE DEF S
    <2>2. <<s, k>> \in S \X (1 .. N) /\ <<s, k>>[1] = s /\ <<s, k>>[2] = k
      BY <2>1
    <2> HIDE DEF Step
    <2> QED
      BY <2>2, Zenon
  <1> HIDE DEF F
  <1>9. \A k \in 1 .. N : \A s \in P[k - 1] : F[<<s, k>>] \in P[k]
    BY <1>7, <1>8, Zenon
  <1>10. PICK f : /\ f = [k \in 0 .. N |-> f[k]]
                  /\ Recurses(f, N, <<>>, F) /\ \A k \in 0 .. N : f[k] \in P[k]
    <2>1. RecursiveThrough(P, N, <<>>, F)
      BY <1>2, <1>6, <1>9, RecursionThrough
    <2> QED
      BY <2>1, Zenon DEF RecursiveThrough
  <1>11. f = body(f)
    <2>1. \A k \in 0 .. N : f[k] = body(f)[k]
      <3> TAKE k \in 0 .. N
      <3>1. CASE k = 0
        BY <1>10, <3>1, Zenon DEF Recurses
      <3>2. CASE k # 0
        <4>1. k \in 1 .. N /\ k - 1 \in 0 .. N
          BY <1>2, <3>2
        <4>2. f[k] = Step(f[k - 1], k)
          BY <1>8, <1>10, <4>1, Zenon DEF Recurses
        <4> QED
          BY <3>2, <4>2, Zenon
      <3> QED
        BY <3>1, <3>2
    <2>2. body(f) = [k \in 0 .. N |-> body(f)[k]]
      BY Zenon
    <2> HIDE DEF body
    <2> QED
      BY <1>10, <2>1, <2>2, Zenon
  <1>12. upto = body(upto)
    BY <1>11, Zenon
  <1>13. PICK g : g = upto
    OBVIOUS
  <1>14. g = body(g)
    <2> HIDE DEF body, upto
    <2> QED
      BY <1>12, <1>13, Zenon
  <1>15. g[0] = <<>> /\ \A k \in 1 .. N : g[k] = Step(g[k - 1], k)
    BY <1>5, <1>14, Zenon
  <1> HIDE DEF upto, body, Step
  <1>16. \A k \in 0 .. N : g[k] \in P[k]
    <2>1. g[0] \in P[0] /\ \A k \in 1 .. N : g[k - 1] \in P[k - 1] => g[k] = F[<<g[k - 1], k>>]
      BY <1>6, <1>8, <1>15, Zenon
    <2> QED
      BY <1>2, <1>9, <2>1, StaysThrough
  <1>17. g[N] \in P[N] /\ N \in 0 .. N
    BY <1>2, <1>16
  <1> QED
    BY <1>1, <1>3, <1>4, <1>13, <1>17, Zenon DEF Contents

-----------------------------------------------------------------------------
(* The snapshot.                                                           *)

LEMMA NewTableGood ==
    ASSUME NEW t, t = NewTable(MinSize)
    PROVE  Good(t) /\ t.size = MinSize /\ Contents(t) = {}
  <1>1. PICK m \in 1 .. 16 : MinSize = 4 * m
    BY TableAssumption
  <1>2. /\ t = [size |-> t.size, free |-> t.free, at |-> t.at]
        /\ t.size = MinSize /\ t.free = MinSize /\ t.at = [h \in 0 .. MinSize - 1 |-> Empty]
    BY DEF NewTable
  <1>3. Slotted(t)
    <2>1. MinSize \in Nat \ {0}
      BY <1>1
    <2> QED
      BY <1>2, <2>1 DEF Slotted
  <1>4. Contents(t) = {}
    <2>1. \A h \in 0 .. MinSize - 1 : t.at[h] = Empty
      BY <1>2
    <2> QED
      BY <1>2, <2>1, Zenon DEF Contents, Part
  <1>5. Once(t)
    BY <1>1, <1>2 DEF Once
  <1>6. Counted(t)
    <2>1. MinSize = MinSize + 0
      BY <1>1
    <2> QED
      BY <1>2, <1>4, <2>1, FS_EmptySet, Zenon DEF Counted
  <1>7. Roomy(t)
    BY <1>1, <1>2 DEF Roomy
  <1> QED
    BY <1>2, <1>3, <1>4, <1>5, <1>6, <1>7, Zenon DEF Good, Table

\* The tables, of any size, as a set.
Struct == [size : Nat, free : Nat, at : UNION {[0 .. n - 1 -> Entry \union {Empty}] : n \in Nat}]

Reread(t) == Deserialize(NewTable(MinSize), Serialize(t))

LEMMA Rereads ==
    ASSUME NEW t, Good(t), \A d, e \in Contents(t) : d.key = e.key => d = e
    PROVE  Good(Reread(t)) /\ Contents(Reread(t)) = Contents(t)
  <1>1. PICK s : s = Entries(t)
    OBVIOUS
  <1>2. PICK N : N = t.size - t.free
    OBVIOUS
  <1>3. PICK new : new = NewTable(MinSize)
    OBVIOUS
  <1>4. Enumerates(s, Contents(t))
    BY <1>1, EntriesEnumerate DEF Good
  <1>5. N \in Nat /\ N = Len(s) /\ s \in Seq(Entry)
    BY <1>2, <1>4, ContentsCounted DEF Enumerates
  <1>6. /\ \A i \in 1 .. N : s[i] \in Entry
        /\ Contents(t) = {s[i] : i \in 1 .. N}
        /\ \A i, j \in 1 .. N : s[i] = s[j] => i = j
    <2>1. DOMAIN s = 1 .. N /\ \A i \in 1 .. N : s[i] \in Entry
      BY <1>5
    <2> QED
      BY <1>4, <1>5, <2>1, Zenon DEF Enumerates, Range
  <1> DEFINE First(k) == {s[i] : i \in 1 .. k}
             P == [k \in 0 .. N |-> {u \in Struct : Good(u) /\ Contents(u) = First(k)}]
             S == UNION {P[k] : k \in 0 .. N}
             F == [p \in S \X (1 .. N) |-> Absorb(p[1], s[p[2]])]
             body(f) == [i \in 0 .. N |-> IF i = 0 THEN new ELSE Absorb(f[i - 1], s[i])]
             read == CHOOSE f : f = body(f)
  <1>7. Reread(t) = read[N]
    <2>1. PICK buf : buf = Serialize(t)
      OBVIOUS
    <2>2. buf.count = N /\ buf.entries = s
      BY <1>1, <1>2, <2>1 DEF Serialize
    <2>3. Deserialize(new, buf) = read[N]
      BY <2>2, Zenon DEF Deserialize
    <2> QED
      BY <1>3, <2>1, <2>3, Zenon DEF Reread
  <1>8. \A k \in 0 .. N : \A u : u \in P[k] <=> Good(u) /\ Contents(u) = First(k)
    <2>1. ASSUME NEW u, Good(u) PROVE u \in Struct
      <3>1. /\ u = [size |-> u.size, free |-> u.free, at |-> u.at]
            /\ u.size \in Nat /\ u.free \in Nat /\ u.at \in [0 .. u.size - 1 -> Entry \union {Empty}]
        BY <2>1 DEF Good, Table, Slotted
      <3>2. u.at \in UNION {[0 .. n - 1 -> Entry \union {Empty}] : n \in Nat}
        BY <3>1, Zenon
      <3> QED
        BY <3>1, <3>2 DEF Struct
    <2> HIDE DEF First
    <2> QED
      BY <2>1, Zenon
  <1>9. \A k \in 1 .. N : /\ First(0) = {} /\ First(k) = First(k - 1) \union {s[k]}
                          /\ First(k - 1) \subseteq Contents(t) /\ s[k] \notin First(k - 1)
    <2> TAKE k \in 1 .. N
    <2>1. 1 .. 0 = {} /\ 1 .. k = (1 .. k - 1) \union {k} /\ 1 .. k - 1 \subseteq 1 .. N
          /\ k \notin 1 .. k - 1
      BY <1>5
    <2> QED
      BY <1>6, <2>1
  <1>10. First(N) = Contents(t) /\ First(0) = {}
    <2>1. 1 .. 0 = {}
      OBVIOUS
    <2> QED
      BY <1>6, <2>1, Zenon
  <1> HIDE DEF P, First
  <1>11. 0 \in 0 .. N /\ \A k \in 1 .. N : k \in 0 .. N /\ k - 1 \in 0 .. N /\ k # 0
    BY <1>5
  <1>12. new \in P[0]
    BY <1>3, <1>8, <1>10, <1>11, NewTableGood, Zenon
  <1>13. ASSUME NEW k \in 1 .. N, NEW u \in P[k - 1] PROVE Absorb(u, s[k]) \in P[k]
    <2>1. Good(u) /\ Contents(u) = First(k - 1)
      BY <1>8, <1>11, Zenon
    <2>2. PICK e : e = s[k]
      OBVIOUS
    <2>3. e \in Entry /\ e \notin Contents(u) /\ First(k) = Contents(u) \union {e}
      <3>1. s[k] \in Entry
        BY <1>6, Zenon
      <3>2. First(k) = First(k - 1) \union {s[k]} /\ s[k] \notin First(k - 1)
        BY <1>9, Zenon
      <3> QED
        BY <2>1, <2>2, <3>1, <3>2, Zenon
    <2>4. \A d \in Contents(u) : d.key # e.key
      <3>1. e \in Contents(t)
        BY <1>6, <2>2, Zenon
      <3>2. Contents(u) \subseteq Contents(t)
        <4>1. First(k - 1) \subseteq Contents(t)
          BY <1>9, Zenon
        <4> QED
          BY <2>1, <4>1, Zenon
      <3> QED
        BY <2>3, <3>1, <3>2, Zenon
    <2>5. Found(u, e.key) = {}
      <3>1. Home[e.key] \in Nat
        BY <2>3, KeysHaveHomes, Zenon
      <3>2. Slotted(u)
        BY <2>1, Zenon DEF Good, Table
      <3>3. Found(u, e.key) = {} <=> \A d \in Contents(u) : d.key # e.key
        BY <3>1, <3>2, FoundIsThere, Zenon
      <3> QED
        BY <2>4, <3>3, Zenon
    <2>6. Absorb(u, e) = Insert(u, e)
      BY <2>5, Zenon DEF Absorb
    <2>7. Inserted(Insert(u, e), u, e)
      BY <2>1, <2>3, InsertKeeps
    <2> QED
      BY <1>8, <1>11, <2>2, <2>3, <2>6, <2>7, Zenon DEF Inserted
  <1>14. \A k \in 1 .. N : \A u \in P[k - 1] : F[<<u, k>>] = Absorb(u, s[k])
    <2> TAKE k \in 1 .. N
    <2> TAKE u \in P[k - 1]
    <2>1. u \in S
      BY <1>11
    <2> HIDE DEF S
    <2>2. <<u, k>> \in S \X (1 .. N) /\ <<u, k>>[1] = u /\ <<u, k>>[2] = k
      BY <2>1
    <2> QED
      BY <2>2, Zenon
  <1> HIDE DEF F
  <1>15. \A k \in 1 .. N : \A u \in P[k - 1] : F[<<u, k>>] \in P[k]
    BY <1>13, <1>14, Zenon
  <1>16. PICK f : /\ f = [k \in 0 .. N |-> f[k]]
                  /\ Recurses(f, N, new, F) /\ \A k \in 0 .. N : f[k] \in P[k]
    <2>1. RecursiveThrough(P, N, new, F)
      BY <1>5, <1>12, <1>15, RecursionThrough
    <2> QED
      BY <2>1, Zenon DEF RecursiveThrough
  <1>17. f = body(f)
    <2>1. \A k \in 0 .. N : f[k] = body(f)[k]
      <3> TAKE k \in 0 .. N
      <3>1. CASE k = 0
        BY <1>16, <3>1, Zenon DEF Recurses
      <3>2. CASE k # 0
        <4>1. k \in 1 .. N /\ k - 1 \in 0 .. N
          BY <1>5, <3>2
        <4>2. f[k] = Absorb(f[k - 1], s[k])
          BY <1>14, <1>16, <4>1, Zenon DEF Recurses
        <4> QED
          BY <3>2, <4>2, Zenon
      <3> QED
        BY <3>1, <3>2
    <2>2. body(f) = [k \in 0 .. N |-> body(f)[k]]
      BY Zenon
    <2> HIDE DEF body
    <2> QED
      BY <1>16, <2>1, <2>2, Zenon
  <1>18. read = body(read)
    BY <1>17, Zenon
  <1>19. PICK g : g = read
    OBVIOUS
  <1>20. g = body(g)
    <2> HIDE DEF body, read
    <2> QED
      BY <1>18, <1>19, Zenon
  <1>21. g[0] = new /\ \A k \in 1 .. N : g[k] = Absorb(g[k - 1], s[k])
    BY <1>11, <1>20, Zenon
  <1> HIDE DEF read, body
  <1>22. \A k \in 0 .. N : g[k] \in P[k]
    <2>1. g[0] \in P[0] /\ \A k \in 1 .. N : g[k - 1] \in P[k - 1] => g[k] = F[<<g[k - 1], k>>]
      BY <1>12, <1>14, <1>21, Zenon
    <2> QED
      BY <1>5, <1>15, <2>1, StaysThrough
  <1>23. g[N] \in P[N] /\ N \in 0 .. N
    BY <1>5, <1>22
  <1> QED
    BY <1>7, <1>8, <1>10, <1>19, <1>23, Zenon

-----------------------------------------------------------------------------
(* The inductive invariant.                                                *)

IInv ==
    /\ Good(map)
    /\ map.size \in Sizes
    /\ Cardinality(Contents(map)) <= MaxLive

LEMMA LiveIsContents ==
    ASSUME NEW t, Good(t)
    PROVE  Range(Entries(t)) = Contents(t) /\ Contents(t) \subseteq Entry
  <1>1. Range(Entries(t)) = Contents(t)
    BY EntriesEnumerate, Zenon DEF Enumerates, Good
  <1>2. Slotted(t)
    BY DEF Good, Table
  <1>3. Contents(t) \subseteq Entry
    BY <1>2 DEF Contents, Part, Slotted
  <1> QED
    BY <1>1, <1>3

LEMMA InitIInv == Init => IInv
  <1>1. SUFFICES ASSUME Init PROVE IInv
    OBVIOUS
  <1>2. Good(map) /\ map.size = MinSize /\ Contents(map) = {}
    BY <1>1, NewTableGood DEF Init
  <1>3. map.size \in Sizes
    BY <1>2, SizesDouble
  <1>4. Cardinality(Contents(map)) <= MaxLive
    BY <1>2, FS_EmptySet, KeysAssumption
  <1> QED
    BY <1>2, <1>3, <1>4 DEF IInv

\* What a step does to the entries.
Stores(key, elem) ==
    /\ \A e \in Contents(map) : e.elem # elem
    /\ Contents(map)' = Contents(map) \union {[key |-> key, elem |-> elem]}

Drops == \E e \in Contents(map) : Contents(map)' = Contents(map) \ {e}

Keeps == Contents(map)' = Contents(map)

LEMMA StepIInv ==
    ASSUME IInv, [Next]_map
    PROVE  IInv' /\ ((\E key \in Keys, elem \in Elems : Stores(key, elem)) \/ Drops \/ Keeps)
  <1> PICK t : t = map
    OBVIOUS
  <1> PICK u : u = map'
    OBVIOUS
  <1>1. Good(t) /\ t.size \in Sizes /\ Cardinality(Contents(t)) <= MaxLive
    BY Zenon DEF IInv
  <1>2. IsFiniteSet(Contents(t)) /\ Cardinality(Contents(t)) \in Nat /\ MaxLive \in Nat
    BY <1>1, ContentsCounted, KeysAssumption
  <1>3. Live = Contents(t)
    BY <1>1, LiveIsContents, Zenon DEF Live
  <1>4. /\ IInv' <=> Good(u) /\ u.size \in Sizes /\ Cardinality(Contents(u)) <= MaxLive
        /\ Contents(map)' = Contents(u) /\ Contents(map) = Contents(t)
    BY Zenon DEF IInv
  <1>5. ASSUME NEW key \in Keys, NEW elem \in Elems, Ins(key, elem)
        PROVE  IInv' /\ Stores(key, elem)
    <2>1. PICK e : e = [key |-> key, elem |-> elem]
      OBVIOUS
    <2>2. e \in Entry /\ e.elem = elem
      BY <2>1 DEF Entry
    <2>3. /\ Cardinality(Contents(t)) < MaxLive /\ \A d \in Contents(t) : d.elem # elem
          /\ u = Insert(t, e)
      BY <1>3, <1>5, <2>1, Zenon DEF Ins
    <2>4. e \notin Contents(t)
      BY <2>2, <2>3, Zenon
    <2>5. Inserted(u, t, e)
      BY <1>1, <2>2, <2>3, <2>4, InsertKeeps
    <2>6. Cardinality(Contents(u)) = Cardinality(Contents(t)) + 1
      <3>1. Cardinality(Contents(t) \union {e}) = Cardinality(Contents(t)) + 1
        BY <1>2, <2>4, FS_AddElement
      <3> QED
        BY <2>5, <3>1, Zenon DEF Inserted
    <2>7. Cardinality(Contents(u)) <= MaxLive
      BY <1>2, <2>3, <2>6
    <2>8. u.size \in Sizes
      <3>1. CASE u.size = t.size
        BY <1>1, <3>1, Zenon
      <3>2. CASE Grown(u, t)
        <4>1. u.size = 4 * t.size /\ 3 * t.size <= 4 * Cardinality(Contents(u)) /\ t.size \in Nat
          BY <1>1, <3>2, ContentsCounted DEF Grown
        <4>2. 3 * t.size <= 4 * MaxLive
          BY <1>2, <2>6, <2>7, <4>1
        <4> QED
          BY <1>1, <4>1, <4>2, SizesDouble, Zenon DEF SizedRight
      <3> QED
        BY <2>5, <3>1, <3>2, Zenon DEF Inserted
    <2>9. IInv'
      BY <1>4, <2>5, <2>7, <2>8, Zenon DEF Inserted
    <2>10. Stores(key, elem)
      BY <1>4, <2>1, <2>3, <2>5, Zenon DEF Inserted, Stores
    <2> QED
      BY <2>9, <2>10
  <1>6. ASSUME NEW key \in Keys, Rem(key) PROVE IInv' /\ (Drops \/ Keeps)
    <2>1. u = Delete(t, key)
      BY <1>6, Zenon DEF Rem
    <2>2. Home[key] \in Nat
      BY KeysAssumption, TableAssumption
    <2>3. Deleted(u, t)
      BY <1>1, <2>1, <2>2, DeleteKeeps
    <2>4. CASE Contents(u) = Contents(t)
      BY <1>1, <1>4, <2>3, <2>4, Zenon DEF Deleted, Keeps
    <2>5. CASE \E e \in Contents(t) : Contents(u) = Contents(t) \ {e}
      <3>1. PICK e \in Contents(t) : Contents(u) = Contents(t) \ {e}
        BY <2>5
      <3>2. Cardinality(Contents(t) \ {e}) = Cardinality(Contents(t)) - 1
        BY <1>2, FS_RemoveElement
      <3>3. Cardinality(Contents(u)) <= MaxLive
        BY <1>1, <1>2, <3>1, <3>2
      <3> QED
        BY <1>4, <2>3, <3>1, <3>3, Zenon DEF Deleted, Drops
    <2> QED
      BY <2>3, <2>4, <2>5, Zenon DEF Deleted
  <1>7. ASSUME NEW h \in DOMAIN map.at, FreeAt(h) PROVE IInv' /\ Drops
    <2>1. u = FreeSlot(t, h) /\ t.at[h] # Empty /\ h \in DOMAIN t.at
      BY <1>7, Zenon DEF FreeAt
    <2>2. h \in 0 .. t.size - 1
      BY <1>1, <2>1 DEF Good, Table, Slotted
    <2>3. Freed(u, t, h)
      BY <1>1, <2>1, <2>2, FreeSlotKeeps
    <2>4. t.at[h] \in Contents(t)
      BY <2>1, <2>2 DEF Contents, Part
    <2>5. Cardinality(Contents(u)) <= MaxLive
      BY <1>1, <1>2, <2>3 DEF Freed
    <2> QED
      BY <1>1, <1>4, <2>3, <2>4, <2>5, Zenon DEF Freed, Drops
  <1>8. CASE UNCHANGED map
    BY <1>1, <1>4, <1>8, Zenon DEF Keeps
  <1> QED
    BY <1>5, <1>6, <1>7, <1>8, Zenon DEF Next

LEMMA AlwaysIInv == Spec => []IInv
  <1>1. IInv /\ [Next]_map => IInv'
    BY StepIInv
  <1> QED
    BY InitIInv, <1>1, PTL DEF Spec

-----------------------------------------------------------------------------
(* The theorems.                                                           *)

\* The table always has a size it can get by doubling, the number of free slots
\* it counted is right after any series of insertions, removals and resizes, and
\* a quarter of the slots is free: intmap_ins always finds one.
THEOREM TableCorrect == Spec => []TypeOK
  <1>1. IInv => TypeOK
    <2> SUFFICES ASSUME IInv PROVE TypeOK
      OBVIOUS
    <2> PICK t : t = map
      OBVIOUS
    <2>1. Good(t) /\ t.size \in Sizes
      BY Zenon DEF IInv
    <2>2. t.at \in [0 .. t.size - 1 -> Entry \union {Empty}] /\ 4 * t.free > t.size
      BY <2>1 DEF Good, Table, Slotted, Roomy
    <2>3. t.free = Cardinality(EmptySlots(t))
      <3>1. Cardinality(EmptySlots(t)) = t.size - Cardinality(Contents(t))
        BY <2>1, EmptyCount DEF Good
      <3>2. /\ t.size = t.free + Cardinality(Contents(t))
            /\ t.free \in Nat /\ Cardinality(Contents(t)) \in Nat
        BY <2>1, ContentsCounted
      <3> QED
        BY <3>1, <3>2
    <2> QED
      BY <2>1, <2>2, <2>3, Zenon DEF TypeOK
  <1> QED
    BY AlwaysIInv, <1>1, PTL

\* A search by key finds an element under it exactly when one is stored, however
\* many holes removed entries left and wherever a resize put the others.
THEOREM FindsWhatIsStored == Spec => []FindsStored
  <1>1. IInv => FindsStored
    <2> SUFFICES ASSUME IInv, NEW key \in Keys
                 PROVE  LET under == {e.elem : e \in {x \in Live : x.key = key}}
                        IN  IF under = {} THEN Find(map, key) = Missing
                            ELSE Find(map, key) \in under
      BY Zenon DEF FindsStored
    <2> PICK t : t = map
      OBVIOUS
    <2>1. Good(t)
      BY Zenon DEF IInv
    <2>2. Live = Contents(t)
      BY <2>1, LiveIsContents, Zenon DEF Live
    <2>3. Home[key] \in Nat /\ Slotted(t)
      BY <2>1, KeysAssumption, TableAssumption DEF Good, Table
    <2> DEFINE under == {e.elem : e \in {x \in Contents(t) : x.key = key}}
    <2>4. CASE Found(t, key) = {}
      <3>1. under = {}
        BY <2>3, <2>4, FoundIsThere
      <3>2. Find(t, key) = Missing
        BY <2>4, Zenon DEF Find
      <3> QED
        BY <2>2, <3>1, <3>2, Zenon
    <2>5. CASE Found(t, key) # {}
      <3>1. PICK h : h = CHOOSE g \in Found(t, key) : TRUE
        OBVIOUS
      <3>2. h \in Found(t, key)
        BY <2>5, <3>1, Zenon
      <3>3. h \in 0 .. t.size - 1 /\ t.at[h] # Empty /\ t.at[h].key = key
        BY <2>3, <3>2, FoundIsThere
      <3>4. t.at[h] \in Contents(t)
        BY <3>3 DEF Contents, Part
      <3>5. t.at[h].elem \in under
        BY <3>3, <3>4
      <3>6. Find(t, key) = t.at[h].elem
        BY <2>5, <3>1, Zenon DEF Find
      <3> QED
        BY <2>2, <3>5, <3>6, Zenon
    <2> QED
      BY <2>4, <2>5
  <1> QED
    BY AlwaysIInv, <1>1, PTL

\* A client that joins and reads the snapshot of a map whose keys are unique into
\* an empty one, has every entry of it, though its table may have another size
\* and the entries other slots.
THEOREM SnapshotsAreRead == Spec => []RoundTrip
  <1>1. IInv => RoundTrip
    <2> SUFFICES ASSUME IInv, UniqueKeys
                 PROVE  Range(Entries(Deserialize(NewTable(MinSize), Serialize(map)))) = Live
      BY Zenon DEF RoundTrip
    <2> PICK t : t = map
      OBVIOUS
    <2>1. Good(t)
      BY Zenon DEF IInv
    <2>2. Live = Contents(t)
      BY <2>1, LiveIsContents, Zenon DEF Live
    <2>3. \A d, e \in Contents(t) : d.key = e.key => d = e
      BY <2>2, Zenon DEF UniqueKeys
    <2>4. Good(Reread(t)) /\ Contents(Reread(t)) = Contents(t)
      BY <2>1, <2>3, Rereads
    <2>5. Range(Entries(Reread(t))) = Contents(t)
      BY <2>4, LiveIsContents, Zenon
    <2> QED
      BY <2>2, <2>5, Zenon DEF Reread
  <1> QED
    BY AlwaysIInv, <1>1, PTL

\* The table implements a set of entries: inserting adds exactly one, which is
\* never refused; removing takes at most one away; and no resize loses or copies
\* any.
THEOREM KeepsWhatIsStored == Spec => ImplementsStore
  <1>1. Init => Kept!Init
    <2> SUFFICES ASSUME Init PROVE Live = {}
      BY Zenon DEF Kept!Init
    <2>1. Good(map) /\ Contents(map) = {}
      BY NewTableGood DEF Init
    <2> QED
      BY <2>1, LiveIsContents, Zenon DEF Live
  <1>2. ASSUME IInv, [Next]_map PROVE [Kept!Next]_Live
    <2>1. Live = Contents(map)
      BY <1>2, LiveIsContents, Zenon DEF Live, IInv
    <2>2. Live' = Contents(map)'
      <3> PICK u : u = map'
        OBVIOUS
      <3>1. Good(u)
        BY <1>2, StepIInv, Zenon DEF IInv
      <3> QED
        BY <3>1, LiveIsContents, Zenon DEF Live
    <2>3. CASE \E key \in Keys, elem \in Elems : Stores(key, elem)
      BY <2>1, <2>2, <2>3, Zenon DEF Stores, Kept!Next, Kept!Put
    <2>4. CASE Drops
      BY <2>1, <2>2, <2>4, Zenon DEF Drops, Kept!Next, Kept!Drop
    <2>5. CASE Keeps
      BY <2>1, <2>2, <2>5, Zenon DEF Keeps
    <2> QED
      BY <1>2, <2>3, <2>4, <2>5, StepIInv, Zenon
  <1> QED
    BY AlwaysIInv, <1>1, <1>2, PTL DEF Spec, ImplementsStore, Kept!Spec
=============================================================================
