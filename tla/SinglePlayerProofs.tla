------------------------- MODULE SinglePlayerProofs -------------------------
(***************************************************************************)
(* That the single player loop keeps its promises with any number of       *)
(* lights, spells, sprites and heap cells: the blocks of the two Arrays    *)
(* have room and hold what was put there, the queue of commands is one     *)
(* chain of all its cells, and the orders are executed as in Fifo.         *)
(***************************************************************************)
EXTENDS SinglePlayer, SequenceTheorems, FiniteSetTheorems, TLAPS

-----------------------------------------------------------------------------
(* Numbers, and induction over them, in a form that speaks of sets and not *)
(* of predicates.                                                          *)

LEMMA LeastNatural ==
    ASSUME NEW T \in SUBSET Nat, T # {}
    PROVE  \E n \in T : \A m \in T : n <= m
  <1>1. PICK n \in T : \A m \in T : ~(<<m, n>> \in OpToRel(<, Nat))
    BY NatLessThanWellFounded, WFMin, Zenon
  <1>2. \A m \in T : ~(m < n)
    BY <1>1 DEF OpToRel
  <1>3. \A m \in T : n <= m
    BY <1>2
  <1> QED
    BY <1>3

\* Up to a bound.
LEMMA BoundedInduction ==
    ASSUME NEW N \in Nat, NEW S, 0 \in S, \A n \in 0 .. N - 1 : n \in S => n + 1 \in S
    PROVE  0 .. N \subseteq S
  <1> DEFINE T == {n \in 0 .. N : n \notin S}
  <1>1. SUFFICES ASSUME T # {} PROVE FALSE
    OBVIOUS
  <1>2. PICK n \in T : \A m \in T : n <= m
    <2>1. T \in SUBSET Nat
      OBVIOUS
    <2> HIDE DEF T
    <2> QED
      BY <1>1, <2>1, LeastNatural
  <1>3. n # 0 /\ n - 1 \in 0 .. N - 1 /\ ~(n <= n - 1)
    OBVIOUS
  <1>4. n - 1 \in S /\ (n - 1) + 1 = n
    BY <1>2, <1>3
  <1> QED
    BY <1>3, <1>4

\* f is the function that starts with first and goes on by F.
Recurses(f, N, first, F) ==
    f[0] = first /\ \A k \in 1 .. N : f[k] = F[<<f[k - 1], k>>]

RecursiveIn(S, N, first, F) == \E f \in [0 .. N -> S] : Recurses(f, N, first, F)

\* Such a function exists, and stays in the set it starts in.
LEMMA Recursion ==
    ASSUME NEW N \in Nat, NEW S, NEW first \in S, NEW F \in [S \X (1 .. N) -> S]
    PROVE  RecursiveIn(S, N, first, F)
  <1> DEFINE UpTo(n) == {f \in [0 .. n -> S] : /\ f[0] = first
                                               /\ \A k \in 1 .. n : f[k] = F[<<f[k - 1], k>>]}
             D == {n \in 0 .. N : UpTo(n) # {}}
  <1>1. 0 \in D
    <2> DEFINE f == [k \in 0 .. 0 |-> first]
    <2>1. f \in [0 .. 0 -> S] /\ f[0] = first
      OBVIOUS
    <2>2. \A k \in 1 .. 0 : f[k] = F[<<f[k - 1], k>>]
      OBVIOUS
    <2> HIDE DEF f
    <2> QED
      BY <2>1, <2>2
  <1>2. ASSUME NEW n \in 0 .. N - 1, n \in D PROVE n + 1 \in D
    <2>1. PICK f \in [0 .. n -> S] : f[0] = first /\ \A k \in 1 .. n : f[k] = F[<<f[k - 1], k>>]
      BY <1>2
    <2> DEFINE g == [k \in 0 .. n + 1 |-> IF k <= n THEN f[k] ELSE F[<<f[n], n + 1>>]]
    <2>2. F[<<f[n], n + 1>>] \in S
      OBVIOUS
    <2>3. g \in [0 .. n + 1 -> S]
      BY <2>2
    <2>4. g[0] = first
      BY <2>1
    <2>5. ASSUME NEW k \in 1 .. n + 1 PROVE g[k] = F[<<g[k - 1], k>>]
      <3>1. CASE k <= n
        BY <3>1, <2>1
      <3>2. CASE k = n + 1
        BY <3>2
      <3> QED
        BY <3>1, <3>2
    <2> HIDE DEF g
    <2>6. g \in UpTo(n + 1) /\ n + 1 \in 0 .. N
      BY <2>3, <2>4, <2>5
    <2> QED
      BY <2>6
  <1> HIDE DEF D
  <1>3. N \in D
    BY <1>1, <1>2, BoundedInduction
  <1> QED
    BY <1>3 DEF D, RecursiveIn, Recurses

LEMMA RecursionStays ==
    ASSUME NEW N \in Nat, NEW S, NEW F \in [S \X (1 .. N) -> S], NEW f, f[0] \in S,
           \A k \in 1 .. N : f[k - 1] \in S => f[k] = F[<<f[k - 1], k>>]
    PROVE  \A k \in 0 .. N : f[k] \in S
  <1> DEFINE D == {n \in 0 .. N : f[n] \in S}
  <1>1. 0 \in D
    OBVIOUS
  <1>2. ASSUME NEW n \in 0 .. N - 1, n \in D PROVE n + 1 \in D
    <2>1. n + 1 \in 1 .. N /\ (n + 1) - 1 = n
      OBVIOUS
    <2>2. f[n + 1] = F[<<f[n], n + 1>>]
      BY <1>2, <2>1
    <2> QED
      BY <1>2, <2>1, <2>2
  <1> HIDE DEF D
  <1>3. 0 .. N \subseteq D
    BY <1>1, <1>2, BoundedInduction
  <1> QED
    BY <1>3 DEF D

\* The numbers of an Array, without its elements.
Sized(a) == a.size \in Nat /\ a.count \in Nat /\ HasRoom(a)

\* A new Array, and one that has been cleared, has room.
LEMMA NewArrayFits == Sized(NewArray)
BY ArrayAssumption DEF NewArray, Sized, HasRoom

LEMMA ClearFits == ASSUME NEW a PROVE Sized(Clear(a))
BY ArrayAssumption DEF Clear, Sized, HasRoom

\* array_add doubles the block before it is full, so that there is room again.
LEMMA AddFits == ASSUME NEW a, NEW elem, Sized(a) PROVE Sized(Add(a, elem))
<1>1. CASE a.count + 1 = a.size
  <2>1. /\ Add(a, elem).size = 2 * a.size
        /\ Add(a, elem).count = a.count + 1
    BY <1>1 DEF Add, Put
  <2> QED
    BY <1>1, <2>1, ArrayAssumption DEF Sized, HasRoom
<1>2. CASE a.count + 1 # a.size
  <2>1. /\ Add(a, elem).size = a.size
        /\ Add(a, elem).count = a.count + 1
    BY <1>2 DEF Add, Put
  <2> QED
    BY <1>2, <2>1, ArrayAssumption DEF Sized, HasRoom
<1> QED
  BY <1>1, <1>2

\* array_remove halves the block only when less than a quarter of it is in use:
\* what is left fits, and is at least a quarter of the half.
LEMMA RemoveFits ==
    ASSUME NEW a, NEW i, Sized(a), a.count > 0
    PROVE  Sized(Remove(a, i))
<1> DEFINE count == a.count - 1
<1>1. Remove(a, i).count = count
  BY DEF Remove
<1>2. CASE count < a.size \div 4 /\ a.size \div 2 > MinArraySize
  <2>1. Remove(a, i).size = a.size \div 2
    BY <1>2 DEF Remove
  <2> QED
    BY <1>1, <1>2, <2>1, ArrayAssumption DEF Sized, HasRoom
<1>3. CASE ~(count < a.size \div 4 /\ a.size \div 2 > MinArraySize)
  <2>1. Remove(a, i).size = a.size
    BY <1>3 DEF Remove
  <2> QED
    BY <1>1, <1>3, <2>1, ArrayAssumption DEF Sized, HasRoom
<1> QED
  BY <1>2, <1>3

\* ptrarray_free removes an element only of an Array that has some.
LEMMA FreeFits == ASSUME NEW a, NEW ptr, Sized(a) PROVE Sized(Free(a, ptr))
<1>1. CASE Places(a, ptr) = {}
  BY <1>1 DEF Free
<1>2. CASE Places(a, ptr) # {}
  <2>1. a.count > 0
    BY <1>2 DEF Places, Sized
  <2> QED
    BY <1>2, <2>1, RemoveFits DEF Free
<1> QED
  BY <1>1, <1>2

-----------------------------------------------------------------------------
(* What is in an Array.                                                    *)

\* An Array of which the elements in use are of a set.
Holds(a, S) ==
    /\ IsArray(a, S) /\ HasRoom(a)
    /\ \A i \in 0 .. a.count - 1 : a.data[i] \in S

\* The elements of b are those of a and one more; those of a but for place p.
Added(a, b, elem) ==
    /\ b.count = a.count + 1
    /\ \A i \in 0 .. a.count - 1 : b.data[i] = a.data[i]
    /\ b.data[a.count] = elem

Removed(a, b, p) ==
    /\ b.count = a.count - 1
    /\ \A i \in 0 .. b.count - 1 : b.data[i] = a.data[IF i < p THEN i ELSE i + 1]

LEMMA NewHolds == ASSUME NEW S PROVE Holds(NewArray, S) /\ NewArray.count = 0
  <1>1. Sized(NewArray)
    BY NewArrayFits
  <1> QED
    BY <1>1, ArrayAssumption DEF Holds, IsArray, NewArray, Sized

LEMMA ClearHolds ==
    ASSUME NEW S, NEW a, Holds(a, S)
    PROVE  Holds(Clear(a), S) /\ Clear(a).count = 0
  <1>1. Sized(Clear(a))
    BY ClearFits
  <1>2. Clear(a).data \in [0 .. MinArraySize - 1 -> S \union {Junk}]
    BY ArrayAssumption DEF Holds, IsArray, Clear, Realloc
  <1> QED
    BY <1>1, <1>2, ArrayAssumption DEF Holds, IsArray, Clear, Sized

\* The block as it is after realloc, with the element behind the last one.
LEMMA PutHolds ==
    ASSUME NEW S, NEW a, NEW elem \in S, IsArray(a, S), NEW size \in Nat, a.count < size,
           a.size <= size, \A i \in 0 .. a.count - 1 : a.data[i] \in S, a.count <= a.size
    PROVE  /\ IsArray(Put(a, size, elem), S) /\ Added(a, Put(a, size, elem), elem)
           /\ \A i \in 0 .. a.count : Put(a, size, elem).data[i] \in S
  <1> DEFINE moved == Realloc(a.data, size)
             d == [moved EXCEPT ![a.count] = elem]
  <1>1. moved \in [0 .. size - 1 -> S \union {Junk}]
    BY DEF IsArray, Realloc
  <1>2. \A i \in 0 .. a.count - 1 : moved[i] = a.data[i]
    BY DEF IsArray, Realloc
  <1>3. d \in [0 .. size - 1 -> S \union {Junk}] /\ d[a.count] = elem
    BY <1>1 DEF IsArray
  <1>4. \A i \in 0 .. a.count - 1 : d[i] = a.data[i]
    BY <1>1, <1>2 DEF IsArray
  <1>5. Put(a, size, elem) = [size |-> size, count |-> a.count + 1, data |-> d]
    BY DEF Put
  <1> HIDE DEF d
  <1> QED
    BY <1>3, <1>4, <1>5 DEF IsArray, Added

LEMMA AddHolds ==
    ASSUME NEW S, NEW a, NEW elem \in S, Holds(a, S)
    PROVE  Holds(Add(a, elem), S) /\ Added(a, Add(a, elem), elem)
  <1>1. /\ a.size \in Nat /\ a.count \in Nat /\ a.count < a.size /\ IsArray(a, S)
        /\ 2 * a.size \in Nat /\ a.size <= 2 * a.size
    BY DEF Holds, IsArray, HasRoom
  <1>2. PICK size \in {a.size, 2 * a.size} : Add(a, elem) = Put(a, size, elem)
    BY DEF Add
  <1>3. /\ IsArray(Put(a, size, elem), S) /\ Added(a, Put(a, size, elem), elem)
        /\ \A i \in 0 .. a.count : Put(a, size, elem).data[i] \in S
    BY <1>1, <1>2, PutHolds DEF Holds
  <1>4. Sized(Add(a, elem))
    BY <1>1, AddFits DEF Holds, Sized
  <1> QED
    BY <1>1, <1>2, <1>3, <1>4 DEF Holds, Added, Sized

LEMMA RemoveHolds ==
    ASSUME NEW S, NEW a, Holds(a, S), NEW p \in 0 .. a.count - 1
    PROVE  Holds(Remove(a, p), S) /\ Removed(a, Remove(a, p), p)
  <1> DEFINE b == Remove(a, p)
  <1>1. /\ a.size \in Nat /\ a.count \in Nat /\ 0 < a.count /\ a.count < a.size
        /\ a.data \in [0 .. a.size - 1 -> S \union {Junk}]
    BY DEF Holds, IsArray, HasRoom
  <1>2. Sized(b)
    BY <1>1, RemoveFits DEF Holds, Sized
  <1>3. /\ b.count = a.count - 1 /\ b.data = Realloc(Closed(a, p), b.size)
    BY DEF Remove
  <1>4. Closed(a, p) \in [0 .. a.size - 1 -> S \union {Junk}]
    BY <1>1 DEF Closed
  <1>5. \A i \in 0 .. a.count - 2 : Closed(a, p)[i] = a.data[IF i < p THEN i ELSE i + 1]
    BY <1>1 DEF Closed
  <1> HIDE DEF b
  <1>6. b.data \in [0 .. b.size - 1 -> S \union {Junk}]
    BY <1>2, <1>3, <1>4 DEF Realloc, Sized
  <1>7. \A i \in 0 .. a.count - 2 : b.data[i] = Closed(a, p)[i]
    BY <1>1, <1>2, <1>3, <1>4 DEF Realloc, Sized, HasRoom
  <1>8. Removed(a, b, p)
    BY <1>1, <1>3, <1>5, <1>7 DEF Removed
  <1>9. Holds(b, S)
    <2>1. b.count = a.count - 1 /\ \A i \in 0 .. b.count - 1 :
                                       b.data[i] = a.data[IF i < p THEN i ELSE i + 1]
      BY <1>8, Zenon DEF Removed
    <2>2. \A i \in 0 .. a.count - 1 : a.data[i] \in S
      BY DEF Holds
    <2>3. \A i \in 0 .. b.count - 1 : b.data[i] \in S
      <3> TAKE i \in 0 .. b.count - 1
      <3>1. i \in 0 .. a.count - 1 /\ i + 1 \in 0 .. a.count - 1
        BY <1>1, <2>1
      <3>2. b.data[i] = a.data[i] \/ b.data[i] = a.data[i + 1]
        BY <2>1, Zenon
      <3> QED
        BY <2>2, <3>1, <3>2, Zenon
    <2> QED
      BY <1>1, <1>2, <1>3, <1>6, <2>3 DEF Holds, IsArray, Sized
  <1> QED
    BY <1>8, <1>9 DEF b

\* ptrarray_free removes one place that holds the pointer, if there is one.
LEMMA FreeHolds ==
    ASSUME NEW S, NEW a, Holds(a, S), NEW ptr
    PROVE  /\ Holds(Free(a, ptr), S)
           /\ \/ Free(a, ptr) = a /\ \A i \in 0 .. a.count - 1 : a.data[i] # ptr
              \/ \E p \in 0 .. a.count - 1 : a.data[p] = ptr /\ Removed(a, Free(a, ptr), p)
  <1>1. CASE Places(a, ptr) = {}
    BY <1>1 DEF Free, Places
  <1>2. CASE Places(a, ptr) # {}
    <2> DEFINE p == CHOOSE i \in Places(a, ptr) : \A j \in Places(a, ptr) : i <= j
    <2>1. \E i \in Places(a, ptr) : \A j \in Places(a, ptr) : i <= j
      <3>1. Places(a, ptr) \in SUBSET Nat
        BY DEF Places
      <3> QED
        BY <1>2, <3>1, LeastNatural
    <2>2. p \in Places(a, ptr)
      BY <2>1
    <2>3. Free(a, ptr) = Remove(a, p)
      BY <1>2 DEF Free
    <2> HIDE DEF p
    <2> QED
      BY <2>2, <2>3, RemoveHolds DEF Places
  <1> QED
    BY <1>1, <1>2

Held(a) == {a.data[i] : i \in 0 .. a.count - 1}

Distinct(a) == \A i, j \in 0 .. a.count - 1 : a.data[i] = a.data[j] => i = j

LEMMA HeldAfterAdd ==
    ASSUME NEW a, NEW b, NEW elem, a.count \in Nat, Added(a, b, elem)
    PROVE  /\ Held(b) = Held(a) \union {elem}
           /\ Distinct(a) /\ elem \notin Held(a) => Distinct(b)
  <1>1. 0 .. b.count - 1 = (0 .. a.count - 1) \union {a.count}
    BY DEF Added
  <1>2. Held(b) = Held(a) \union {elem}
    BY <1>1 DEF Held, Added
  <1>3. ASSUME Distinct(a), elem \notin Held(a) PROVE Distinct(b)
    BY <1>1, <1>3 DEF Held, Added, Distinct
  <1> QED
    BY <1>2, <1>3

LEMMA HeldAfterRemove ==
    ASSUME NEW a, NEW b, NEW p \in 0 .. a.count - 1, a.count \in Nat, Removed(a, b, p),
           Distinct(a)
    PROVE  Held(b) = Held(a) \ {a.data[p]} /\ Distinct(b)
  <1> DEFINE from(i) == IF i < p THEN i ELSE i + 1
  <1>1. \A i \in 0 .. b.count - 1 :
            from(i) \in (0 .. a.count - 1) \ {p} /\ b.data[i] = a.data[from(i)]
    BY DEF Removed
  <1>2. \A j \in (0 .. a.count - 1) \ {p} : \E i \in 0 .. b.count - 1 : from(i) = j
    <2> TAKE j \in (0 .. a.count - 1) \ {p}
    <2>1. from(IF j < p THEN j ELSE j - 1) = j /\ (IF j < p THEN j ELSE j - 1) \in 0 .. b.count - 1
      BY DEF Removed
    <2> HIDE DEF from
    <2> QED
      BY <2>1
  <1>3. \A i, j \in 0 .. b.count - 1 : from(i) = from(j) => i = j
    BY DEF Removed
  <1> HIDE DEF from
  <1>4. Held(b) = Held(a) \ {a.data[p]}
    <2>1. ASSUME NEW x \in Held(b) PROVE x \in Held(a) /\ x # a.data[p]
      BY <1>1, <2>1 DEF Held, Distinct
    <2>2. ASSUME NEW x \in Held(a), x # a.data[p] PROVE x \in Held(b)
      <3>1. PICK j \in (0 .. a.count - 1) \ {p} : x = a.data[j]
        BY <2>2 DEF Held
      <3>2. PICK i \in 0 .. b.count - 1 : from(i) = j
        BY <1>2
      <3> QED
        BY <1>1, <3>1, <3>2 DEF Held
    <2> QED
      BY <2>1, <2>2
  <1>5. Distinct(b)
    BY <1>1, <1>3 DEF Distinct
  <1> QED
    BY <1>4, <1>5

\* As many as are counted, when none is there twice.
LEMMA DistinctCount ==
    ASSUME NEW a, a.count \in Nat, Distinct(a)
    PROVE  IsFiniteSet(Held(a)) /\ Cardinality(Held(a)) = a.count
  <1> DEFINE f == [i \in 0 .. a.count - 1 |-> a.data[i]]
  <1>1. f \in Surjection(0 .. a.count - 1, Held(a))
    BY DEF Surjection, Held
  <1>2. f \in Injection(0 .. a.count - 1, Held(a))
    <2>1. f \in [0 .. a.count - 1 -> Held(a)]
      BY DEF Held
    <2>2. \A i, j \in 0 .. a.count - 1 : f[i] = f[j] => i = j
      BY DEF Distinct
    <2> QED
      BY <2>1, <2>2 DEF Injection, IsInjective
  <1>3. IsFiniteSet(0 .. a.count - 1) /\ Cardinality(0 .. a.count - 1) = a.count
    <2>1. \A n \in Nat : IsFiniteSet(0 .. n - 1) /\ Cardinality(0 .. n - 1) = n
      <3> TAKE n \in Nat
      <3>1. 0 \in Int /\ n - 1 \in Int
        OBVIOUS
      <3>2. /\ IsFiniteSet(0 .. n - 1)
            /\ Cardinality(0 .. n - 1) = IF 0 > n - 1 THEN 0 ELSE n - 1 - 0 + 1
        BY <3>1, FS_Interval, Zenon
      <3> QED
        BY <3>2
    <2> QED
      BY <2>1
  <1> HIDE DEF f
  <1> QED
    BY <1>1, <1>2, <1>3, FS_Surjection

-----------------------------------------------------------------------------
(* Sequences of spells and sprites.                                        *)

Without(s, n) == SubSeq(s, 1, n - 1) \o SubSeq(s, n + 1, Len(s))

LEMMA WithoutIs ==
    ASSUME NEW S, NEW s \in Seq(S), NEW n \in 1 .. Len(s)
    PROVE  /\ Without(s, n) \in Seq(S) /\ Len(Without(s, n)) = Len(s) - 1
           /\ \A i \in 1 .. Len(s) - 1 : Without(s, n)[i] = s[IF i < n THEN i ELSE i + 1]
  <1> DEFINE a == SubSeq(s, 1, n - 1)
             b == SubSeq(s, n + 1, Len(s))
  <1>1. /\ a \in Seq(S) /\ Len(a) = n - 1
        /\ \A i \in 1 .. n - 1 : a[i] = s[i]
    <2>1. \A i \in 1 .. n - 1 : s[i] \in S
      OBVIOUS
    <2> QED
      BY <2>1, SubSeqProperties
  <1>2. /\ b \in Seq(S) /\ Len(b) = Len(s) - n
        /\ \A i \in 1 .. Len(s) - n : b[i] = s[n + i]
    <2>1. \A i \in n + 1 .. Len(s) : s[i] \in S
      OBVIOUS
    <2> QED
      BY <2>1, SubSeqProperties
  <1> HIDE DEF a, b
  <1>3. /\ a \o b \in Seq(S) /\ Len(a \o b) = Len(a) + Len(b)
        /\ \A i \in 1 .. Len(a) + Len(b) : (a \o b)[i] = IF i <= Len(a) THEN a[i] ELSE b[i - Len(a)]
    BY <1>1, <1>2, ConcatProperties
  <1>4. Without(s, n) = a \o b
    BY DEF Without, a, b
  <1>5. PICK m : m = a \o b
    OBVIOUS
  <1>6. m \in Seq(S) /\ Len(m) = Len(s) - 1
    <2>1. m \in Seq(S) /\ Len(m) = (n - 1) + (Len(s) - n)
      BY <1>1, <1>2, <1>3, <1>5, Zenon
    <2> QED
      BY <2>1
  <1>7. ASSUME NEW i \in 1 .. Len(s) - 1 PROVE m[i] = s[IF i < n THEN i ELSE i + 1]
    <2>1. m[i] = IF i <= Len(a) THEN a[i] ELSE b[i - Len(a)]
      <3>1. i \in 1 .. (n - 1) + (Len(s) - n)
        OBVIOUS
      <3> QED
        BY <1>1, <1>2, <1>3, <1>5, <3>1, Zenon
    <2>2. CASE i < n
      BY <1>1, <2>1, <2>2
    <2>3. CASE ~(i < n)
      <3>1. m[i] = b[i - (n - 1)] /\ i - (n - 1) \in 1 .. Len(s) - n
        BY <1>1, <2>1, <2>3
      <3>2. n + (i - (n - 1)) = i + 1
        OBVIOUS
      <3> QED
        BY <1>2, <2>3, <3>1, <3>2
    <2> QED
      BY <2>2, <2>3
  <1> QED
    BY <1>4, <1>5, <1>6, <1>7

LEMMA SpriteTypes ==
    ASSUME spells \in Seq(Sprite)
    PROVE  Sprites \in Seq(Sprite)
  <1>0. PICK list \in Seq(Sprite) : list = spells
    OBVIOUS
  <1> DEFINE S == Seq(Sprite)
             N == Len(list)
             some(n) == SpellSprites(list[n])
             F == [p \in S \X (1 .. N) |-> p[1] \o some(p[2])]
             body(f) == [n \in 0 .. N |-> IF n = 0 THEN <<>> ELSE f[n - 1] \o some(n)]
             upto == CHOOSE f : f = body(f)
  <1>1. \A s \in Sprite : SpellSprites(s) \in S
    BY LoopAssumption DEF SpellSprites
  <1>2. \A n \in 1 .. N : some(n) \in S
    BY <1>1
  <1>3. <<>> \in S /\ N \in Nat /\ \A s, r \in S : s \o r \in S
    OBVIOUS
  <1>4. AllSprites = upto[N]
    BY <1>0, Zenon DEF AllSprites
  <1> HIDE DEF S, N, some
  <1>5. F \in [S \X (1 .. N) -> S]
    BY <1>2, <1>3
  <1>6. \A s \in S, n \in 1 .. N : F[<<s, n>>] = s \o some(n)
    OBVIOUS
  <1> HIDE DEF F
  <1>7. PICK f \in [0 .. N -> S] : f[0] = <<>> /\ \A k \in 1 .. N : f[k] = F[<<f[k - 1], k>>]
    <2>1. RecursiveIn(S, N, <<>>, F)
      BY <1>3, <1>5, Recursion
    <2> QED
      BY <2>1, Zenon DEF RecursiveIn, Recurses
  <1>8. f = body(f)
    <2>1. ASSUME NEW k \in 1 .. N PROVE f[k] = f[k - 1] \o some(k)
      <3>1. f[k - 1] \in S
        BY <1>3
      <3>2. F[<<f[k - 1], k>>] = f[k - 1] \o some(k)
        BY <1>6, <3>1
      <3> QED
        BY <1>7, <3>2
    <2>2. \A k \in 0 .. N : f[k] = body(f)[k]
      <3> TAKE k \in 0 .. N
      <3>1. CASE k = 0
        BY <1>7, <3>1, Zenon
      <3>2. CASE k # 0
        <4>1. k \in 1 .. N
          BY <3>2
        <4> QED
          BY <2>1, <3>2, <4>1, Zenon
      <3> QED
        BY <3>1, <3>2
    <2> HIDE DEF body
    <2>3. body(f) = [k \in 0 .. N |-> body(f)[k]] /\ f = [k \in 0 .. N |-> f[k]]
      BY Zenon DEF body
    <2> QED
      BY <2>2, <2>3, Zenon
  <1>9. upto = body(upto)
    BY <1>8, Zenon
  <1>10. PICK g : g = upto
    OBVIOUS
  <1>11. g = body(g)
    BY <1>9, <1>10, Zenon
  <1>12. g[0] = <<>> /\ \A k \in 1 .. N : g[k] = g[k - 1] \o some(k)
    <2>1. 0 \in 0 .. N /\ \A k \in 1 .. N : k \in 0 .. N /\ k # 0
      BY <1>3
    <2> QED
      BY <1>11, <2>1, Zenon
  <1>13. g[0] \in S /\ \A k \in 1 .. N : g[k - 1] \in S => g[k] = F[<<g[k - 1], k>>]
    BY <1>3, <1>6, <1>12
  <1>14. \A k \in 0 .. N : g[k] \in S
    BY <1>3, <1>5, <1>13, RecursionStays, Zenon
  <1>15. AllSprites \in Seq(Sprite)
    <2>1. N \in 0 .. N
      BY <1>3
    <2> QED
      BY <1>4, <1>10, <1>14, <2>1, Zenon DEF S
  <1>16. <<Spell("player", Null)>> \in Seq(Sprite)
    BY DEF Spell, Sprite
  <1> QED
    BY <1>15, <1>16, ConcatProperties DEF Sprites

-----------------------------------------------------------------------------
(* Where the loop is, and what it has to do there: the counter of ticks is *)
(* full in a step of the logic, which therefore never stands still.        *)

Phases == {"start", "frame", "step", "add", "commands", "spells", "draw"}

Phase ==
    /\ pc \in Phases
    /\ at \in Nat \ {0} /\ (pc \notin {"spells", "draw"} => at = 1)
    /\ ticks \in 0 .. FullTicks
    /\ pc \in {"step", "add", "commands", "spells"} => ticks = FullTicks
    /\ todo \in Seq(Commands) /\ (pc # "add" => todo = <<>>)

LEMMA CastTypes ==
    ASSUME NEW move \in Moves, NEW casts \in Casts
    PROVE  move \o casts \in Seq(Commands)
  <1>1. \A k \in Kinds, n \in 1 .. Volley : Command(k, n) \in Commands
    BY DEF Commands
  <1>2. Command("move", 1) \in Commands /\ \A k \in Kinds : Command(k, 1) \in Commands
    BY LoopAssumption DEF Commands
  <1>3. \A k \in Kinds : Cast(k) \in Seq(Commands)
    BY <1>1, <1>2, LoopAssumption DEF Cast
  <1>4. move \in Seq(Commands) /\ casts \in Seq(Commands)
    <2>1. <<>> \in Seq(Commands) /\ <<Command("move", 1)>> \in Seq(Commands)
      BY <1>2
    <2>2. move = <<>> \/ move = <<Command("move", 1)>>
      BY DEF Moves
    <2>3. casts = <<>> \/ \E k \in Kinds : casts = Cast(k)
      BY DEF Casts
    <2> QED
      BY <1>3, <2>1, <2>2, <2>3, Zenon
  <1> QED
    BY <1>4, ConcatProperties

LEMMA PhaseInit == Init => Phase
  BY LoopAssumption DEF Init, Phase, Phases

LEMMA PhaseStep == Phase /\ [Loop]_vars => Phase'
  <1> SUFFICES ASSUME Phase, [Loop]_vars PROVE Phase'
    OBVIOUS
  <1> USE DEF Phase, Phases
  <1>1. CASE NewOwnLight \/ StartFrame
    BY <1>1, LoopAssumption DEF NewOwnLight, StartFrame, Noop
  <1>2. CASE Input
    BY <1>2, CastTypes DEF Input
  <1>3. CASE AddCommand
    BY <1>3, HeadTailProperties DEF AddCommand
  <1>4. CASE RunLogic
    BY <1>4, LoopAssumption DEF RunLogic, Noop
  <1>5. CASE Execute \/ TickSpells \/ SpellGoesOn \/ SpellEnds
    <2>1. UNCHANGED <<ticks, todo>> /\ pc' \in {"commands", "spells"} /\ pc \in {"commands", "spells"}
      BY <1>5 DEF Execute, TickSpells, SpellGoesOn, SpellEnds
    <2>2. (at' = at /\ pc' = pc) \/ at' = 1 \/ (at' = at + 1 /\ pc' = "spells")
      <3>1. CASE Execute \/ SpellEnds
        BY <3>1, Zenon DEF Execute, SpellEnds
      <3>2. CASE TickSpells \/ SpellGoesOn
        BY <3>2 DEF TickSpells, SpellGoesOn
      <3> QED
        BY <1>5, <3>1, <3>2
    <2> QED
      BY <2>1, <2>2
  <1>6. CASE EndStep \/ StartDrawing \/ DrawSprite \/ Blit
    BY <1>6, LoopAssumption DEF EndStep, StartDrawing, DrawSprite, Blit, Noop
  <1>7. CASE UNCHANGED vars
    BY <1>7 DEF vars
  <1> QED
    BY <1>1, <1>2, <1>3, <1>4, <1>5, <1>6, <1>7 DEF Loop

-----------------------------------------------------------------------------
(* The lights.  No two spells have the same light, and none that of the    *)
(* loop; the table holds just those.                                       *)

LightsOf(list) == {list[i].light : i \in 1 .. Len(list)} \ {Null}

OneLightEach(list) ==
    /\ list \in Seq(Sprite)
    /\ \A i \in 1 .. Len(list) : list[i].light \in SpellLights \union {Null}
    /\ \A i, j \in 1 .. Len(list) :
           list[i].light = list[j].light /\ list[i].light # Null => i = j

Lit ==
    /\ OneLightEach(spells)
    /\ Holds(lights, Addresses) /\ Distinct(lights)
    /\ pc = "start" => spells = <<>> /\ Held(lights) \subseteq OwnLights
    /\ pc # "start" => Held(lights) = OwnLights \union LightsOf(spells)

LEMMA CastLight ==
    ASSUME NEW list, NEW s \in Sprite, OneLightEach(list), s.light \notin LightsOf(list),
           s.light \in SpellLights \union {Null}
    PROVE  /\ OneLightEach(Append(list, s))
           /\ LightsOf(Append(list, s)) = LightsOf(list) \union ({s.light} \ {Null})
  <1> DEFINE l == Append(list, s)
  <1>1. /\ l \in Seq(Sprite) /\ Len(l) = Len(list) + 1 /\ Len(list) \in Nat
        /\ \A i \in 1 .. Len(list) : l[i] = list[i]
        /\ l[Len(list) + 1] = s
    BY DEF OneLightEach
  <1> HIDE DEF l
  <1>2. 1 .. Len(l) = (1 .. Len(list)) \union {Len(list) + 1}
    BY <1>1
  <1>3. LightsOf(l) = LightsOf(list) \union ({s.light} \ {Null})
    BY <1>1, <1>2 DEF LightsOf
  <1>4. \A i \in 1 .. Len(l) : l[i].light \in SpellLights \union {Null}
    BY <1>1, <1>2 DEF OneLightEach
  <1>5. \A i, j \in 1 .. Len(l) : l[i].light = l[j].light /\ l[i].light # Null => i = j
    BY <1>1, <1>2 DEF OneLightEach, LightsOf
  <1>6. OneLightEach(l)
    BY <1>1, <1>4, <1>5 DEF OneLightEach
  <1> QED
    BY <1>3, <1>6 DEF l

LEMMA FadeLight ==
    ASSUME NEW list, NEW n \in 1 .. Len(list), OneLightEach(list)
    PROVE  /\ OneLightEach(Without(list, n))
           /\ LightsOf(Without(list, n)) = LightsOf(list) \ {list[n].light}
  <1> DEFINE l == Without(list, n)
             from(i) == IF i < n THEN i ELSE i + 1
  <1>1. /\ l \in Seq(Sprite) /\ Len(l) = Len(list) - 1 /\ Len(list) \in Nat
        /\ \A i \in 1 .. Len(list) - 1 : l[i] = list[from(i)]
    BY WithoutIs DEF OneLightEach
  <1> HIDE DEF l
  <1>2. /\ \A i \in 1 .. Len(l) : from(i) \in (1 .. Len(list)) \ {n} /\ l[i] = list[from(i)]
        /\ \A i, j \in 1 .. Len(l) : from(i) = from(j) => i = j
    BY <1>1
  <1>3. \A j \in (1 .. Len(list)) \ {n} : \E i \in 1 .. Len(l) : from(i) = j
    <2> TAKE j \in (1 .. Len(list)) \ {n}
    <2>1. from(IF j < n THEN j ELSE j - 1) = j /\ (IF j < n THEN j ELSE j - 1) \in 1 .. Len(l)
      BY <1>1
    <2> HIDE DEF from
    <2> QED
      BY <2>1
  <1> HIDE DEF from
  <1>4. \A i \in 1 .. Len(l) : l[i].light \in SpellLights \union {Null}
    BY <1>2 DEF OneLightEach
  <1>5. \A i, j \in 1 .. Len(l) : l[i].light = l[j].light /\ l[i].light # Null => i = j
    BY <1>2 DEF OneLightEach
  <1>6. OneLightEach(l)
    BY <1>1, <1>4, <1>5 DEF OneLightEach
  <1>7. ASSUME NEW x \in LightsOf(l) PROVE x \in LightsOf(list) \ {list[n].light}
    BY <1>2, <1>7 DEF LightsOf, OneLightEach
  <1>8. ASSUME NEW x \in LightsOf(list) \ {list[n].light} PROVE x \in LightsOf(l)
    <2>1. PICK j \in (1 .. Len(list)) \ {n} : x = list[j].light /\ x # Null
      BY <1>8 DEF LightsOf
    <2>2. PICK i \in 1 .. Len(l) : from(i) = j
      BY <1>3
    <2> QED
      BY <1>2, <2>1, <2>2 DEF LightsOf
  <1> QED
    BY <1>6, <1>7, <1>8 DEF l

LEMMA LitInit == Init => Lit
  <1> SUFFICES ASSUME Init PROVE Lit
    OBVIOUS
  <1>1. Holds(lights, Addresses) /\ lights.count = 0
    BY NewHolds DEF Init
  <1>2. Distinct(lights) /\ Held(lights) = {}
    BY <1>1 DEF Distinct, Held
  <1>3. OneLightEach(spells)
    BY DEF Init, OneLightEach
  <1> QED
    BY <1>1, <1>2, <1>3 DEF Init, Lit

LEMMA LitNewOwnLight ==
    ASSUME Lit, NewOwnLight
    PROVE  Lit'
  <1>1. PICK l \in OwnLights \ Held(lights) :
            /\ lights' = Add(lights, l)
            /\ pc' = IF OwnLights \subseteq Held(lights) \union {l} THEN "frame" ELSE "start"
    BY DEF NewOwnLight, LightsHeld, Held
  <1>2. pc = "start" /\ spells' = <<>> /\ spells = <<>> /\ Held(lights) \subseteq OwnLights
    BY DEF NewOwnLight, Lit
  <1>3. l \in Addresses /\ Holds(lights, Addresses) /\ lights.count \in Nat
    BY <1>1 DEF Addresses, Lit, Holds, IsArray
  <1>4. Holds(lights', Addresses) /\ Added(lights, lights', l)
    BY <1>1, <1>3, AddHolds
  <1>5. Held(lights') = Held(lights) \union {l} /\ Distinct(lights')
    BY <1>1, <1>3, <1>4, HeldAfterAdd DEF Lit
  <1>6. LightsOf(spells') = {} /\ OneLightEach(spells')
    BY <1>2 DEF LightsOf, Lit
  <1> QED
    BY <1>1, <1>2, <1>4, <1>5, <1>6 DEF Lit

LEMMA LitExecute ==
    ASSUME Phase, Lit, Execute, First(queue) \in Commands
    PROVE  Lit'
  <1>1. pc = "commands" /\ pc' = pc
    BY DEF Execute
  <1>2. Held(lights) = OwnLights \union LightsOf(spells) /\ OneLightEach(spells)
    BY <1>1 DEF Lit
  <1>3. CASE UNCHANGED <<lights, spells>>
    BY <1>1, <1>3 DEF Lit
  <1>4. CASE First(queue).kind # "move" /\ NewSpell(First(queue).kind)
    <2>1. First(queue).kind \in Kinds
      BY <1>4 DEF Commands, Command
    <2>2. PICK kind \in Kinds : kind = First(queue).kind
      BY <2>1
    <2>3. CASE kind = "nova"
      <3>1. spells' = Append(spells, Spell(kind, Null)) /\ lights' = lights
        BY <1>4, <2>2, <2>3 DEF NewSpell
      <3>2. Spell(kind, Null) \in Sprite /\ Spell(kind, Null).light = Null
        BY DEF Spell, Sprite
      <3>3. OneLightEach(spells') /\ LightsOf(spells') = LightsOf(spells)
        BY <1>2, <3>1, <3>2, CastLight DEF LightsOf
      <3> QED
        BY <1>1, <1>2, <3>1, <3>3 DEF Lit
    <2>4. CASE kind # "nova"
      <3>1. PICK l \in Addresses \ Held(lights) :
                spells' = Append(spells, Spell(kind, l)) /\ lights' = Add(lights, l)
        BY <1>4, <2>2, <2>4 DEF NewSpell, LightsHeld, Held
      <3>2. Spell(kind, l) \in Sprite /\ Spell(kind, l).light = l
        BY DEF Spell, Sprite
      <3>3. l \in SpellLights /\ l # Null /\ l \notin LightsOf(spells)
        BY <1>2, <3>1, LoopAssumption DEF Addresses
      <3>4. OneLightEach(spells') /\ LightsOf(spells') = LightsOf(spells) \union {l}
        BY <1>2, <3>1, <3>2, <3>3, CastLight
      <3>5. lights.count \in Nat /\ Holds(lights, Addresses)
        BY DEF Lit, Holds, IsArray
      <3>6. Holds(lights', Addresses) /\ Added(lights, lights', l)
        BY <3>1, <3>5, AddHolds
      <3>7. Held(lights') = Held(lights) \union {l} /\ Distinct(lights')
        BY <3>1, <3>5, <3>6, HeldAfterAdd DEF Lit
      <3> QED
        BY <1>1, <1>2, <3>4, <3>6, <3>7 DEF Lit
    <2> QED
      BY <2>3, <2>4
  <1> QED
    BY <1>3, <1>4 DEF Execute

LEMMA LitSpellEnds ==
    ASSUME Phase, Lit, SpellEnds
    PROVE  Lit'
  <1>1. pc = "spells" /\ pc' = pc /\ at \in 1 .. Len(spells) /\ Len(spells) \in Nat
    BY DEF SpellEnds, Phase, Lit, OneLightEach
  <1>2. Held(lights) = OwnLights \union LightsOf(spells) /\ OneLightEach(spells)
    BY <1>1 DEF Lit
  <1>3. PICK l : l = spells[at].light
    OBVIOUS
  <1>4. l \in SpellLights \union {Null} /\ l \notin OwnLights /\ lights' = Free(lights, l)
    BY <1>1, <1>2, <1>3, LoopAssumption DEF OneLightEach, Addresses, SpellEnds
  <1>5. OneLightEach(spells') /\ LightsOf(spells') = LightsOf(spells) \ {l}
    <2>1. spells' = Without(spells, at)
      BY DEF SpellEnds, Without
    <2> QED
      BY <1>1, <1>2, <1>3, <2>1, FadeLight
  <1>6. Held(lights') = Held(lights) \ {l} /\ Distinct(lights') /\ Holds(lights', Addresses)
    <2>1. Holds(lights, Addresses) /\ lights.count \in Nat /\ Distinct(lights)
      BY DEF Lit, Holds, IsArray
    <2>2. /\ Holds(lights', Addresses)
          /\ \/ lights' = lights /\ \A i \in 0 .. lights.count - 1 : lights.data[i] # l
             \/ \E p \in 0 .. lights.count - 1 :
                    lights.data[p] = l /\ Removed(lights, lights', p)
      BY <1>4, <2>1, FreeHolds
    <2>3. CASE lights' = lights /\ \A i \in 0 .. lights.count - 1 : lights.data[i] # l
      BY <2>1, <2>2, <2>3 DEF Held
    <2>4. ASSUME NEW p \in 0 .. lights.count - 1, lights.data[p] = l, Removed(lights, lights', p)
          PROVE  Held(lights') = Held(lights) \ {l} /\ Distinct(lights')
      BY <2>1, <2>4, HeldAfterRemove
    <2> QED
      BY <2>2, <2>3, <2>4
  <1> QED
    BY <1>1, <1>2, <1>4, <1>5, <1>6 DEF Lit

LEMMA LitStep ==
    ASSUME Phase, Lit, [Loop]_vars, Execute => First(queue) \in Commands
    PROVE  Lit'
  <1>1. CASE NewOwnLight \/ Execute \/ SpellEnds
    BY <1>1, LitNewOwnLight, LitExecute, LitSpellEnds
  <1>2. CASE UNCHANGED <<lights, spells>> /\ (pc = "start" <=> pc' = "start")
    BY <1>2 DEF Lit
  <1> QED
    BY <1>1, <1>2 DEF Loop, vars, StartFrame, Input, AddCommand, RunLogic, TickSpells,
       SpellGoesOn, EndStep, StartDrawing, DrawSprite, Blit

-----------------------------------------------------------------------------
(* The sprites of a frame.                                                 *)

Batched ==
    /\ Holds(zbatch, Sprite)
    /\ pc # "draw" => zbatch.count = 0
    /\ pc = "draw" => /\ zbatch.count = at - 1 /\ at - 1 <= Len(Sprites)
                      /\ \A i \in 0 .. at - 2 : zbatch.data[i] = Sprites[i + 1]

LEMMA BatchedInit == Init => Batched
  BY NewHolds DEF Init, Batched

LEMMA SpritesKept ==
    ASSUME spells' = spells
    PROVE  Sprites' = Sprites
  <1>1. PICK list : list = spells
    OBVIOUS
  <1> DEFINE body(f) == [n \in 0 .. Len(list) |->
                            IF n = 0 THEN <<>> ELSE f[n - 1] \o SpellSprites(list[n])]
             upto == CHOOSE f : f = body(f)
  <1>2. AllSprites = upto[Len(list)]
    BY <1>1, Zenon DEF AllSprites
  <1>3. AllSprites' = upto[Len(list)]
    <2>1. spells' = list
      BY <1>1
    <2> QED
      BY <2>1, Zenon DEF AllSprites
  <1> HIDE DEF upto
  <1>4. PICK all : all = upto[Len(list)]
    OBVIOUS
  <1>5. AllSprites = all /\ AllSprites' = all
    BY <1>2, <1>3, <1>4, Zenon
  <1> QED
    BY <1>5, Zenon DEF Sprites

LEMMA BatchedStep ==
    ASSUME Phase, Batched, spells \in Seq(Sprite), [Loop]_vars
    PROVE  Batched'
  <1>1. Sprites \in Seq(Sprite) /\ at \in Nat \ {0} /\ zbatch.count \in Nat
    BY SpriteTypes DEF Phase, Batched, Holds, IsArray
  <1>2. CASE StartDrawing
    <2>1. pc = "step" /\ at = 1 /\ zbatch.count = 0
      BY <1>2 DEF StartDrawing, Phase, Batched
    <2>2. pc' = "draw" /\ at' = 1 /\ zbatch' = zbatch /\ spells' = spells
      BY <1>2, <2>1 DEF StartDrawing
    <2>3. Len(Sprites') \in Nat
      BY <1>1, <2>2, SpritesKept
    <2> QED
      BY <2>1, <2>2, <2>3 DEF Batched
  <1>3. CASE DrawSprite
    <2>1. pc = "draw" /\ pc' = pc /\ at <= Len(Sprites) /\ at' = at + 1 /\ Sprites' = Sprites
      BY <1>3, SpritesKept DEF DrawSprite
    <2>2. Sprites[at] \in Sprite
      BY <1>1, <2>1
    <2>3. PICK s \in Sprite : s = Sprites[at]
      BY <2>2
    <2>4. zbatch' = Add(zbatch, s)
      BY <1>3, <2>3 DEF DrawSprite
    <2>5. Holds(zbatch', Sprite) /\ Added(zbatch, zbatch', s)
      BY <2>4, AddHolds DEF Batched
    <2>6. /\ zbatch.count = at - 1 /\ zbatch'.count = at
          /\ \A i \in 0 .. at - 2 : zbatch'.data[i] = Sprites[i + 1]
          /\ zbatch'.data[at - 1] = Sprites[at]
      BY <1>1, <2>1, <2>3, <2>5 DEF Batched, Added
    <2>7. \A i \in 0 .. at - 1 : zbatch'.data[i] = Sprites[i + 1]
      BY <1>1, <2>6
    <2> QED
      BY <1>1, <2>1, <2>5, <2>6, <2>7 DEF Batched
  <1>4. CASE Blit
    <2>1. pc' = "frame" /\ zbatch' = Clear(zbatch)
      BY <1>4 DEF Blit
    <2> QED
      BY <2>1, ClearHolds DEF Batched
  <1>5. CASE UNCHANGED zbatch /\ pc # "draw" /\ pc' # "draw"
    BY <1>5 DEF Batched
  <1>6. CASE UNCHANGED vars
    BY <1>6, SpritesKept DEF vars, Batched
  <1>7. \/ StartDrawing \/ DrawSprite \/ Blit \/ UNCHANGED vars
        \/ UNCHANGED zbatch /\ pc # "draw" /\ pc' # "draw"
    BY DEF Loop, NewOwnLight, StartFrame, Input, AddCommand, RunLogic, Execute,
       TickSpells, SpellGoesOn, SpellEnds, EndStep
  <1> QED
    BY <1>2, <1>3, <1>4, <1>5, <1>6, <1>7

-----------------------------------------------------------------------------
(* The queue of commands: a chain of cells, each with its command, of      *)
(* which none is lost on the heap.                                         *)

Chain(q, ch, its) ==
    /\ ch \in Seq(Cells) /\ \A i, j \in 1 .. Len(ch) : ch[i] = ch[j] => i = j
    /\ its \in Seq(Commands) /\ Len(its) = Len(ch)
    /\ q = [first |-> q.first, last |-> q.last, size |-> q.size, heap |-> q.heap]
    /\ q.size = Len(ch)
    /\ q.first = IF ch = <<>> THEN Null ELSE ch[1]
    /\ q.last \in Cells \union {Null} /\ (ch # <<>> => q.last = ch[Len(ch)])
    /\ q.heap = [x \in {ch[i] : i \in 1 .. Len(ch)} |-> q.heap[x]]
    /\ \A i \in 1 .. Len(ch) :
           q.heap[ch[i]] = [next |-> IF i = Len(ch) THEN Null ELSE ch[i + 1], item |-> its[i]]

\* its is what the queue holds, in this order.
Queued(q, its) == \E ch \in Seq(Cells) : Chain(q, ch, its)

LEMMA ChainFirst ==
    ASSUME NEW q, NEW its, Queued(q, its)
    PROVE  /\ its \in Seq(Commands)
           /\ First(q) = IF its = <<>> THEN Null ELSE Head(its)
           /\ q.first = Null <=> its = <<>>
  <1>1. PICK ch \in Seq(Cells) : Chain(q, ch, its)
    BY DEF Queued
  <1>2. CASE its = <<>>
    <2>1. ch = <<>>
      BY <1>1, <1>2 DEF Chain
    <2> QED
      BY <1>1, <1>2, <2>1 DEF Chain, First
  <1>3. CASE its # <<>>
    <2>1. ch # <<>> /\ 1 \in 1 .. Len(ch) /\ ch[1] \in Cells /\ Head(its) = its[1]
      BY <1>1, <1>3 DEF Chain
    <2>2. q.heap[ch[1]].item = its[1]
      <3>1. \A i \in 1 .. Len(ch) : q.heap[ch[i]].item = its[i]
        <4> TAKE i \in 1 .. Len(ch)
        <4>1. q.heap[ch[i]] = [next |-> IF i = Len(ch) THEN Null ELSE ch[i + 1], item |-> its[i]]
          BY <1>1, Zenon DEF Chain
        <4> QED
          BY <4>1
      <3> QED
        BY <2>1, <3>1, Zenon
    <2> QED
      BY <1>1, <1>3, <2>1, <2>2, QueueAssumption DEF Chain, First
  <1> QED
    BY <1>1, <1>2, <1>3 DEF Chain

\* Following the chain as many times as there are items finds all of them.
LEMMA ChainItems ==
    ASSUME NEW q, NEW its, Queued(q, its)
    PROVE  Items(q) = its
  <1>1. PICK ch \in Seq(Cells) : Chain(q, ch, its)
    BY DEF Queued
  <1> DEFINE N == q.size
             step(x) == IF x \in DOMAIN q.heap THEN q.heap[x].next ELSE Null
             body(f) == [n \in 1 .. N |-> IF n = 1 THEN q.first ELSE step(f[n - 1])]
             place == CHOOSE f : f = body(f)
  <1>2. Items(q) = [n \in {m \in 1 .. N : place[m] \in DOMAIN q.heap} |-> q.heap[place[n]].item]
    BY Zenon DEF Items
  <1>3. /\ N \in Nat /\ N = Len(ch) /\ ch = [n \in 1 .. N |-> ch[n]]
        /\ its = [n \in 1 .. N |-> its[n]]
        /\ 1 \in 1 .. N => q.first = ch[1]
    BY <1>1 DEF Chain
  <1>4. /\ DOMAIN q.heap = {ch[i] : i \in 1 .. N}
        /\ \A n \in 1 .. N :
              q.heap[ch[n]] = [next |-> IF n = N THEN Null ELSE ch[n + 1], item |-> its[n]]
    <2>1. q.heap = [x \in {ch[i] : i \in 1 .. N} |-> q.heap[x]]
      BY <1>1, <1>3, Zenon DEF Chain
    <2>2. DOMAIN q.heap = {ch[i] : i \in 1 .. N}
      BY <2>1, Zenon
    <2> HIDE DEF N
    <2> QED
      BY <1>1, <1>3, <2>2, Zenon DEF Chain
  <1>5. \A n \in 1 .. N : ch[n] \in DOMAIN q.heap /\ q.heap[ch[n]].item = its[n]
    <2> HIDE DEF N
    <2> TAKE n \in 1 .. N
    <2>1. ch[n] \in DOMAIN q.heap
      BY <1>4, Zenon
    <2>2. q.heap[ch[n]] = [next |-> IF n = N THEN Null ELSE ch[n + 1], item |-> its[n]]
      BY <1>4, Zenon
    <2> QED
      BY <2>1, <2>2
  <1>6. ASSUME NEW n \in 1 .. N, n # 1 PROVE step(ch[n - 1]) = ch[n]
    <2> HIDE DEF N
    <2>1. n - 1 \in 1 .. N /\ n - 1 # N /\ (n - 1) + 1 = n
      BY <1>3, <1>6
    <2>2. step(ch[n - 1]) = q.heap[ch[n - 1]].next
      BY <1>5, <2>1, Zenon
    <2>3. q.heap[ch[n - 1]] = [next |-> IF n - 1 = N THEN Null ELSE ch[(n - 1) + 1],
                               item |-> its[n - 1]]
      BY <1>4, <2>1, Zenon
    <2>4. q.heap[ch[n - 1]].next = ch[(n - 1) + 1]
      BY <2>1, <2>3
    <2> HIDE DEF step
    <2> QED
      BY <2>1, <2>2, <2>4
  <1> HIDE DEF step, N
  <1>7. ch = body(ch)
    <2>1. \A n \in 1 .. N : ch[n] = IF n = 1 THEN q.first ELSE step(ch[n - 1])
      BY <1>3, <1>6, Zenon
    <2> QED
      BY <1>3, <2>1, Zenon
  <1>8. place = body(place)
    BY <1>7, Zenon
  <1>9. PICK g : g = place
    OBVIOUS
  <1>10. g = body(g)
    <2> HIDE DEF body, place
    <2> QED
      BY <1>8, <1>9, Zenon
  <1>11. \A n \in 1 .. N : g[n] = IF n = 1 THEN q.first ELSE step(g[n - 1])
    BY <1>10, Zenon
  <1> HIDE DEF body, place
  <1> DEFINE D == {n \in 0 .. N : n = 0 \/ g[n] = ch[n]}
  <1>12. 0 \in D
    BY <1>3
  <1>13. ASSUME NEW n \in 0 .. N - 1, n \in D PROVE n + 1 \in D
    <2>1. n + 1 \in 1 .. N /\ (n + 1) - 1 = n /\ (n = 0 <=> n + 1 = 1)
      BY <1>3
    <2>2. CASE n = 0
      BY <1>3, <1>11, <2>1, <2>2
    <2>3. CASE n # 0
      <3>1. g[n + 1] = step(g[n]) /\ step(ch[n]) = ch[n + 1]
        BY <1>6, <1>11, <2>1, <2>3
      <3> QED
        BY <1>13, <2>1, <2>3, <3>1
    <2> QED
      BY <2>2, <2>3
  <1>14. 0 .. N \subseteq D
    <2> HIDE DEF D
    <2> QED
      BY <1>3, <1>12, <1>13, BoundedInduction
  <1>15. \A n \in 1 .. N : place[n] = ch[n]
    BY <1>9, <1>14
  <1>16. {m \in 1 .. N : place[m] \in DOMAIN q.heap} = 1 .. N
    BY <1>5, <1>15
  <1>17. Items(q) = [n \in 1 .. N |-> q.heap[place[n]].item]
    BY <1>2, <1>16, Zenon
  <1>18. \A n \in 1 .. N : q.heap[place[n]].item = its[n]
    BY <1>5, <1>15
  <1> QED
    BY <1>3, <1>17, <1>18, Zenon

LEMMA PushChain ==
    ASSUME NEW q, NEW its, Queued(q, its), NEW cell \in FreeCells(q), NEW it \in Commands
    PROVE  Queued(Push(q, cell, it), Append(its, it))
  <1>1. PICK ch \in Seq(Cells) : Chain(q, ch, its)
    BY DEF Queued
  <1> DEFINE c == Append(ch, cell)
             r == Append(its, it)
             p == Push(q, cell, it)
             used == {ch[i] : i \in 1 .. Len(ch)}
             link(i) == [next |-> IF i = Len(ch) THEN Null ELSE ch[i + 1], item |-> its[i]]
             heap == [x \in used \union {cell} |->
                        IF x = cell THEN [next |-> Null, item |-> it] ELSE q.heap[x]]
             joined == [heap EXCEPT ![q.last].next = cell]
  <1>2. /\ Len(ch) \in Nat /\ its \in Seq(Commands) /\ Len(its) = Len(ch) /\ q.size = Len(ch)
        /\ \A i, j \in 1 .. Len(ch) : ch[i] = ch[j] => i = j
    BY <1>1 DEF Chain
  <1>3. q.heap = [x \in used |-> q.heap[x]] /\ DOMAIN q.heap = used
    <2>1. q.heap = [x \in used |-> q.heap[x]]
      BY <1>1, Zenon DEF Chain
    <2> QED
      BY <2>1, Zenon
  <1>4. cell \in Cells /\ cell # Null /\ \A i \in 1 .. Len(ch) : ch[i] # cell
    BY <1>3, QueueAssumption DEF FreeCells
  <1>5. \A i \in 1 .. Len(ch) : q.heap[ch[i]] = link(i)
    BY <1>1, Zenon DEF Chain
  <1>6. Allocated(q, cell, it) = heap
    BY <1>3, Zenon DEF Allocated
  <1>7. /\ c \in Seq(Cells) /\ Len(c) = Len(ch) + 1 /\ c[Len(ch) + 1] = cell /\ c # <<>>
        /\ \A i \in 1 .. Len(ch) : c[i] = ch[i]
        /\ r \in Seq(Commands) /\ Len(r) = Len(ch) + 1 /\ r[Len(ch) + 1] = it
        /\ \A i \in 1 .. Len(ch) : r[i] = its[i]
    BY <1>2, <1>4
  <1>8. 1 .. Len(c) = (1 .. Len(ch)) \union {Len(ch) + 1}
    BY <1>2, <1>7
  <1>9. \A i, j \in 1 .. Len(c) : c[i] = c[j] => i = j
    <2> HIDE DEF c
    <2> QED
      BY <1>2, <1>4, <1>7, <1>8
  <1>10. {c[i] : i \in 1 .. Len(c)} = used \union {cell}
    <2> HIDE DEF c
    <2> QED
      BY <1>7, <1>8
  <1>11. CASE ch = <<>>
    <2>1. q.first = Null
      BY <1>1, <1>11 DEF Chain
    <2>2. p = [first |-> cell, last |-> cell, size |-> q.size + 1, heap |-> heap]
      BY <1>6, <2>1 DEF Push
    <2>3. Len(ch) = 0 /\ Len(c) = 1 /\ c[1] = cell /\ r[1] = it /\ used = {}
      BY <1>7, <1>11
    <2>4. p.heap[c[1]] = [next |-> Null, item |-> it]
      BY <2>2, <2>3
    <2> HIDE DEF c, r, p
    <2>5. p.heap = [x \in {c[i] : i \in 1 .. Len(c)} |-> p.heap[x]]
      BY <1>10, <2>2
    <2>6. /\ p = [first |-> p.first, last |-> p.last, size |-> p.size, heap |-> p.heap]
          /\ p.size = Len(c) /\ p.first = cell /\ p.last = cell
      BY <1>2, <2>2, <2>3
    <2>7. \A i \in 1 .. Len(c) :
              p.heap[c[i]] = [next |-> IF i = Len(c) THEN Null ELSE c[i + 1], item |-> r[i]]
      BY <2>3, <2>4
    <2>8. Chain(p, c, r)
      BY <1>4, <1>7, <1>9, <2>3, <2>5, <2>6, <2>7 DEF Chain
    <2> QED
      BY <1>7, <2>8 DEF Queued, p, r
  <1>12. CASE ch # <<>>
    <2>1. /\ Len(ch) \in 1 .. Len(ch) /\ q.first # Null /\ q.first = ch[1] /\ q.last = ch[Len(ch)]
          /\ 1 \in 1 .. Len(ch)
      BY <1>1, <1>2, <1>12, QueueAssumption DEF Chain
    <2>2. q = [first |-> q.first, last |-> q.last, size |-> q.size, heap |-> q.heap]
      BY <1>1 DEF Chain
    <2>3. p = [q EXCEPT !.last = cell, !.size = @ + 1, !.heap = joined]
      BY <1>6, <2>1, Zenon DEF Push
    <2> HIDE DEF heap, joined
    <2>4. p = [first |-> q.first, last |-> cell, size |-> q.size + 1, heap |-> joined]
      BY <2>2, <2>3
    <2>5. /\ \A i \in 1 .. Len(ch) : heap[ch[i]] = link(i)
          /\ heap[cell] = [next |-> Null, item |-> it] /\ DOMAIN heap = used \union {cell}
          /\ heap = [x \in used \union {cell} |-> heap[x]]
      BY <1>4, <1>5, Zenon DEF heap
    <2>6. joined = [x \in used \union {cell} |->
                       IF x = q.last THEN [heap[x] EXCEPT !.next = cell] ELSE heap[x]]
      BY <2>5 DEF joined
    <2>7. ASSUME NEW i \in 1 .. Len(ch), i # Len(ch) PROVE joined[ch[i]] = link(i)
      <3>1. ch[i] # q.last /\ ch[i] \in used
        BY <1>2, <2>1, <2>7
      <3> QED
        BY <2>5, <2>6, <3>1, Zenon
    <2>8. joined[ch[Len(ch)]] = [next |-> cell, item |-> its[Len(ch)]]
      <3>1. q.last \in used /\ heap[q.last] = link(Len(ch))
        BY <2>1, <2>5
      <3>2. joined[q.last] = [heap[q.last] EXCEPT !.next = cell]
        BY <2>6, <3>1, Zenon
      <3> QED
        BY <2>1, <3>1, <3>2
    <2>9. joined[cell] = [next |-> Null, item |-> it]
      <3>1. cell # q.last
        BY <1>4, <2>1
      <3> QED
        BY <2>5, <2>6, <3>1, Zenon
    <2> HIDE DEF c, r, p, used
    <2>10. ASSUME NEW i \in 1 .. Len(c)
           PROVE  joined[c[i]] = [next |-> IF i = Len(c) THEN Null ELSE c[i + 1], item |-> r[i]]
      <3>1. CASE i = Len(ch) + 1
        BY <1>7, <2>9, <3>1
      <3>2. CASE i = Len(ch)
        BY <1>2, <1>7, <2>1, <2>8, <3>2
      <3>3. CASE i \in 1 .. Len(ch) /\ i # Len(ch)
        <4>1. i + 1 \in 1 .. Len(ch) /\ i # Len(c)
          BY <1>2, <1>7, <3>3
        <4>2. joined[c[i]] = [next |-> ch[i + 1], item |-> its[i]]
          BY <1>7, <2>7, <3>3
        <4> QED
          BY <1>7, <3>3, <4>1, <4>2
      <3> QED
        BY <1>8, <3>1, <3>2, <3>3
    <2>11. joined = [x \in {c[i] : i \in 1 .. Len(c)} |-> joined[x]]
      BY <1>10, <2>6, Zenon
    <2>12. /\ p.first = c[1] /\ p.last = cell /\ p.size = Len(c) /\ p.heap = joined
           /\ p = [first |-> p.first, last |-> p.last, size |-> p.size, heap |-> p.heap]
      BY <1>2, <1>7, <2>1, <2>4
    <2>13. Chain(p, c, r)
      BY <1>4, <1>7, <1>9, <2>10, <2>11, <2>12 DEF Chain
    <2> QED
      BY <1>7, <2>13 DEF Queued, p, r
  <1> QED
    BY <1>11, <1>12

LEMMA PopChain ==
    ASSUME NEW q, NEW its, Queued(q, its), its # <<>>
    PROVE  Queued(Pop(q), Tail(its))
  <1>1. PICK ch \in Seq(Cells) : Chain(q, ch, its)
    BY DEF Queued
  <1> DEFINE c == Tail(ch)
             r == Tail(its)
             p == Pop(q)
             used == {ch[i] : i \in 1 .. Len(ch)}
             left == [x \in used \ {ch[1]} |-> q.heap[x]]
             link(i) == [next |-> IF i = Len(ch) THEN Null ELSE ch[i + 1], item |-> its[i]]
  <1>2. /\ Len(ch) \in Nat /\ its \in Seq(Commands) /\ Len(its) = Len(ch) /\ q.size = Len(ch)
        /\ \A i, j \in 1 .. Len(ch) : ch[i] = ch[j] => i = j
        /\ ch # <<>> /\ 1 \in 1 .. Len(ch)
        /\ q.first = ch[1] /\ q.first # Null /\ q.last = ch[Len(ch)] /\ q.last \in Cells
    BY <1>1, QueueAssumption DEF Chain
  <1>3. DOMAIN q.heap = used
    <2>1. q.heap = [x \in used |-> q.heap[x]]
      BY <1>1, Zenon DEF Chain
    <2> QED
      BY <2>1, Zenon
  <1>4. \A i \in 1 .. Len(ch) : q.heap[ch[i]] = link(i)
    BY <1>1, Zenon DEF Chain
  <1>5. /\ c \in Seq(Cells) /\ Len(c) = Len(ch) - 1 /\ \A i \in 1 .. Len(c) : c[i] = ch[i + 1]
        /\ r \in Seq(Commands) /\ Len(r) = Len(ch) - 1 /\ \A i \in 1 .. Len(c) : r[i] = its[i + 1]
        /\ (c = <<>> <=> Len(ch) = 1)
    <2>1. \A S : \A s \in Seq(S) : s # <<>> =>
              /\ Tail(s) \in Seq(S) /\ Len(Tail(s)) = Len(s) - 1
              /\ \A i \in 1 .. Len(Tail(s)) : Tail(s)[i] = s[i + 1]
      BY HeadTailProperties
    <2>2. /\ c \in Seq(Cells) /\ Len(c) = Len(ch) - 1
          /\ \A i \in 1 .. Len(c) : c[i] = ch[i + 1]
      BY <1>2, <2>1
    <2>3. /\ r \in Seq(Commands) /\ Len(r) = Len(its) - 1
          /\ \A i \in 1 .. Len(r) : r[i] = its[i + 1]
      <3>1. its # <<>>
        BY <1>2
      <3> QED
        BY <1>2, <2>1, <3>1
    <2> HIDE DEF c, r
    <2> QED
      BY <1>2, <2>2, <2>3
  <1>6. \A i, j \in 1 .. Len(c) : c[i] = c[j] => i = j
    <2> HIDE DEF c
    <2> QED
      BY <1>2, <1>5
  <1>7. used \ {ch[1]} = {c[i] : i \in 1 .. Len(c)}
    <2> HIDE DEF c
    <2>1. \A i \in 1 .. Len(c) : c[i] = ch[i + 1] /\ i + 1 \in 1 .. Len(ch) /\ i + 1 # 1
      BY <1>2, <1>5
    <2>2. \A i \in 1 .. Len(ch) : i # 1 => i - 1 \in 1 .. Len(c) /\ ch[i] = c[i - 1]
      BY <1>2, <1>5
    <2>3. ASSUME NEW x \in used \ {ch[1]} PROVE x \in {c[i] : i \in 1 .. Len(c)}
      <3>1. PICK i \in 1 .. Len(ch) : x = ch[i] /\ i # 1
        BY <2>3
      <3>2. i - 1 \in 1 .. Len(c) /\ x = c[i - 1]
        BY <2>2, <3>1
      <3> QED
        BY <3>2
    <2>4. ASSUME NEW x \in {c[i] : i \in 1 .. Len(c)} PROVE x \in used \ {ch[1]}
      <3>1. PICK i \in 1 .. Len(c) : x = c[i]
        BY <2>4
      <3>2. x = ch[i + 1] /\ i + 1 \in 1 .. Len(ch) /\ i + 1 # 1
        BY <2>1, <3>1
      <3>3. x # ch[1]
        BY <1>2, <3>2
      <3> QED
        BY <3>2, <3>3
    <2> QED
      BY <2>3, <2>4
  <1>8. q.heap[ch[1]].next = IF c = <<>> THEN Null ELSE c[1]
    <2>1. q.heap[ch[1]] = link(1)
      BY <1>2, <1>4
    <2>2. c # <<>> => 1 \in 1 .. Len(c)
      BY <1>5
    <2> HIDE DEF c
    <2> QED
      BY <1>2, <1>5, <2>1, <2>2
  <1>9. p = [first |-> IF c = <<>> THEN Null ELSE c[1], last |-> q.last, size |-> q.size - 1,
             heap |-> left]
    <2>1. q = [first |-> q.first, last |-> q.last, size |-> q.size, heap |-> q.heap]
      BY <1>1 DEF Chain
    <2>2. p = [q EXCEPT !.first = q.heap[ch[1]].next, !.size = @ - 1, !.heap = left]
      BY <1>2, <1>3, Zenon DEF Pop
    <2> HIDE DEF p, left
    <2> QED
      BY <1>8, <2>1, <2>2
  <1>10. left = [x \in {c[i] : i \in 1 .. Len(c)} |-> left[x]]
    <2>1. left = [x \in used \ {ch[1]} |-> left[x]]
      BY Zenon
    <2> HIDE DEF left
    <2> QED
      BY <1>7, <2>1, Zenon
  <1>11. ASSUME NEW i \in 1 .. Len(c)
         PROVE  left[c[i]] = [next |-> IF i = Len(c) THEN Null ELSE c[i + 1], item |-> r[i]]
    <2>1. c[i] \in used \ {ch[1]} /\ c[i] = ch[i + 1] /\ i + 1 \in 1 .. Len(ch)
      <3> HIDE DEF c, used
      <3>1. c[i] \in used \ {ch[1]}
        BY <1>7
      <3> QED
        BY <1>2, <1>5, <3>1
    <2>2. left[c[i]] = q.heap[c[i]]
      BY <2>1, Zenon
    <2>3. q.heap[c[i]] = link(i + 1)
      BY <1>4, <2>1, Zenon
    <2> HIDE DEF c, r, used, left
    <2>4. CASE i = Len(c)
      BY <1>2, <1>5, <2>2, <2>3, <2>4
    <2>5. CASE i # Len(c)
      <3>1. i + 1 \in 1 .. Len(c) /\ i + 1 # Len(ch)
        BY <1>2, <1>5, <2>5
      <3> QED
        BY <1>5, <2>2, <2>3, <2>5, <3>1
    <2> QED
      BY <2>4, <2>5
  <1>12. c # <<>> => q.last = c[Len(c)]
    <2> HIDE DEF c
    <2>1. c # <<>> => Len(c) \in 1 .. Len(c) /\ Len(c) + 1 = Len(ch)
      BY <1>2, <1>5
    <2> QED
      BY <1>2, <1>5, <2>1
  <1> HIDE DEF c, r, p, left
  <1>13. /\ p.first = (IF c = <<>> THEN Null ELSE c[1]) /\ p.last = q.last
         /\ p.size = Len(c) /\ p.heap = left
         /\ p = [first |-> p.first, last |-> p.last, size |-> p.size, heap |-> p.heap]
    BY <1>2, <1>5, <1>9
  <1>14. Chain(p, c, r)
    BY <1>2, <1>5, <1>6, <1>10, <1>11, <1>12, <1>13 DEF Chain
  <1> QED
    BY <1>5, <1>14 DEF Queued, p, r

Supplied ==
    /\ \E its \in Seq(Commands) : Queued(queue, its)
    /\ pc \notin {"add", "commands"} => queue.first = Null
    /\ command \in Commands \union {Null}

LEMMA SuppliedInit == Init => Supplied /\ Queued(queue, <<>>)
  <1> SUFFICES ASSUME Init PROVE Supplied /\ Queued(queue, <<>>)
    OBVIOUS
  <1>1. Chain(NewQueue, <<>>, <<>>)
    <2>1. NewQueue = [first |-> Null, last |-> Null, size |-> 0, heap |-> <<>>]
      BY DEF NewQueue
    <2>2. <<>> = [x \in {<<>>[i] : i \in 1 .. Len(<<>>)} |-> NewQueue.heap[x]]
      OBVIOUS
    <2> QED
      BY <2>1, <2>2 DEF Chain
  <1>2. <<>> \in Seq(Cells) /\ <<>> \in Seq(Commands)
    OBVIOUS
  <1>3. Queued(queue, <<>>)
    BY <1>1, <1>2, Zenon DEF Init, Queued
  <1> QED
    BY <1>2, <1>3 DEF Init, NewQueue, Supplied

\* What is next is a command, until the queue is empty.
LEMMA NextCommand ==
    ASSUME NEW its, Queued(queue, its)
    PROVE  /\ First(queue) = Null <=> its = <<>>
           /\ its # <<>> => First(queue) = Head(its) /\ First(queue) \in Commands
  <1>1. its \in Seq(Commands) /\ First(queue) = IF its = <<>> THEN Null ELSE Head(its)
    BY ChainFirst
  <1>2. its # <<>> => Head(its) \in Commands
    BY <1>1
  <1> QED
    BY <1>1, <1>2, NullAssumption

LEMMA SuppliedStep ==
    ASSUME Phase, Supplied, [Loop]_vars
    PROVE  Supplied'
  <1>1. PICK its \in Seq(Commands) : Queued(queue, its)
    BY DEF Supplied
  <1>2. CASE AddCommand
    <2>1. Head(todo) \in Commands /\ pc' = "add"
      BY <1>2 DEF AddCommand, Phase
    <2>2. PICK it \in Commands : it = Head(todo)
      BY <2>1
    <2>3. PICK cell \in FreeCells(queue) : queue' = Push(queue, cell, it)
      BY <1>2, <2>2 DEF AddCommand
    <2>4. Queued(queue', Append(its, it)) /\ Append(its, it) \in Seq(Commands)
      BY <1>1, <2>3, PushChain
    <2> QED
      BY <1>2, <2>1, <2>4 DEF AddCommand, Supplied
  <1>3. CASE Execute
    <2>1. its # <<>> /\ First(queue) \in Commands /\ queue' = Pop(queue) /\ pc' = "commands"
          /\ command' = First(queue)
      BY <1>1, <1>3, NextCommand DEF Execute
    <2>2. Queued(queue', Tail(its)) /\ Tail(its) \in Seq(Commands)
      BY <1>1, <2>1, PopChain
    <2> QED
      BY <2>1, <2>2 DEF Supplied
  <1>4. CASE TickSpells
    <2>1. its = <<>> /\ queue.first = Null
      BY <1>1, <1>4, NextCommand, ChainFirst DEF TickSpells
    <2> QED
      BY <1>4, <2>1 DEF TickSpells, Supplied
  <1>5. CASE RunLogic
    <2>1. pc' = "commands" /\ UNCHANGED <<queue, command>>
      BY <1>5, LoopAssumption DEF RunLogic, Phase
    <2> QED
      BY <2>1 DEF Supplied
  <1>6. CASE UNCHANGED <<queue, command>>
             /\ (pc \notin {"add", "commands"} \/ pc' \in {"add", "commands"})
    BY <1>6 DEF Supplied
  <1>7. \/ AddCommand \/ Execute \/ TickSpells \/ RunLogic
        \/ UNCHANGED <<queue, command>>
             /\ (pc \notin {"add", "commands"} \/ pc' \in {"add", "commands"})
    BY DEF Loop, vars, NewOwnLight, StartFrame, Input, SpellGoesOn, SpellEnds, EndStep,
       StartDrawing, DrawSprite, Blit
  <1> QED
    BY <1>2, <1>3, <1>4, <1>5, <1>6, <1>7

-----------------------------------------------------------------------------
(* The inductive invariant and what follows from it.                       *)

IInv == Phase /\ Lit /\ Batched /\ Supplied

LEMMA IInvInit == Init => IInv
  BY PhaseInit, LitInit, BatchedInit, SuppliedInit DEF IInv

LEMMA IInvStep == IInv /\ [Loop]_vars => IInv'
  <1> SUFFICES ASSUME IInv, [Loop]_vars PROVE IInv'
    OBVIOUS
  <1>1. Phase /\ Lit /\ Batched /\ Supplied /\ spells \in Seq(Sprite)
    BY DEF IInv, Lit, OneLightEach
  <1>2. Execute => First(queue) \in Commands
    <2>1. PICK its \in Seq(Commands) : Queued(queue, its)
      BY <1>1 DEF Supplied
    <2> QED
      BY <2>1, NextCommand DEF Execute
  <1>3. Phase'
    BY <1>1, PhaseStep
  <1>4. Lit'
    BY <1>1, <1>2, LitStep
  <1>5. Batched'
    BY <1>1, BatchedStep
  <1>6. Supplied'
    BY <1>1, SuppliedStep
  <1> QED
    BY <1>3, <1>4, <1>5, <1>6 DEF IInv

LEMMA Invariance == Spec => []IInv
  BY IInvInit, IInvStep, PTL DEF Spec

\* There is always room for the next element, and no block is mostly empty,
\* whatever the smallest size of a block and the number of lights and sprites.
THEOREM BlocksAlwaysFit == Spec => []BlocksFit
  <1>1. IInv => BlocksFit
    BY DEF IInv, Lit, Batched, Holds, BlocksFit
  <1> QED
    BY <1>1, Invariance, PTL

\* A queue has as many cells on the heap as it counts.
LEMMA ChainTypes ==
    ASSUME NEW q, NEW its, Queued(q, its)
    PROVE  /\ {q.first, q.last} \subseteq Cells \union {Null}
           /\ DOMAIN q.heap \subseteq Cells /\ q.size = Cardinality(DOMAIN q.heap)
  <1>1. PICK ch \in Seq(Cells) : Chain(q, ch, its)
    BY DEF Queued
  <1> DEFINE used == {ch[i] : i \in 1 .. Len(ch)}
             a == [count |-> Len(ch), data |-> [i \in 0 .. Len(ch) - 1 |-> ch[i + 1]]]
  <1>2. q.heap = [x \in used |-> q.heap[x]] /\ q.size = Len(ch)
    BY <1>1, Zenon DEF Chain
  <1>3. DOMAIN q.heap = used
    BY <1>2, Zenon
  <1>4. Cardinality(used) = Len(ch)
    <2>1. a.count \in Nat /\ a.count = Len(ch)
      OBVIOUS
    <2>2. Distinct(a)
      BY <1>1 DEF Chain, Distinct
    <2>3. Held(a) = used
      <3>1. \A i \in 0 .. Len(ch) - 1 : a.data[i] = ch[i + 1] /\ i + 1 \in 1 .. Len(ch)
        OBVIOUS
      <3>2. \A i \in 1 .. Len(ch) : i - 1 \in 0 .. Len(ch) - 1 /\ a.data[i - 1] = ch[i]
        OBVIOUS
      <3> HIDE DEF a
      <3>3. ASSUME NEW x \in used PROVE x \in Held(a)
        <4>1. PICK i \in 1 .. Len(ch) : x = ch[i]
          BY <3>3
        <4> QED
          BY <2>1, <3>2, <4>1 DEF Held
      <3>4. ASSUME NEW x \in Held(a) PROVE x \in used
        <4>1. PICK i \in 0 .. Len(ch) - 1 : x = a.data[i]
          BY <2>1, <3>4 DEF Held
        <4> QED
          BY <3>1, <4>1
      <3> QED
        BY <3>3, <3>4
    <2> HIDE DEF a
    <2> QED
      BY <2>1, <2>2, <2>3, DistinctCount
  <1>5. used \subseteq Cells
    OBVIOUS
  <1>6. q.first \in Cells \union {Null} /\ q.last \in Cells \union {Null}
    <2>1. ch # <<>> => ch[1] \in Cells
      OBVIOUS
    <2> QED
      BY <1>1, <2>1 DEF Chain
  <1> HIDE DEF used
  <1> QED
    BY <1>2, <1>3, <1>4, <1>5, <1>6

\* Memory is typed: the blocks of the Arrays are as large as they say, every item
\* of the queue is on its chain, and the counter of ticks does not wrap.
THEOREM TypeCorrect == Spec => []TypeOK
  <1>1. IInv => TypeOK
    <2> SUFFICES ASSUME IInv PROVE TypeOK
      OBVIOUS
    <2>1. PICK its \in Seq(Commands) : Queued(queue, its)
      BY DEF IInv, Supplied
    <2>2. /\ {queue.first, queue.last} \subseteq Cells \union {Null}
          /\ DOMAIN queue.heap \subseteq Cells /\ queue.size = Cardinality(DOMAIN queue.heap)
      BY <2>1, ChainTypes
    <2>3. IsArray(lights, Addresses) /\ IsArray(zbatch, Sprite) /\ spells \in Seq(Sprite)
      BY DEF IInv, Lit, Batched, Holds, OneLightEach
    <2> QED
      BY <2>2, <2>3 DEF IInv, Phase, Phases, Supplied, TypeOK
  <1> QED
    BY <1>1, Invariance, PTL

\* Only the living shine: the table of lights holds the loop's own and those of
\* the spells that are alive, each of them once.
THEOREM LightsAreOfTheLiving == Spec => []LightsOfTheLiving
  <1>1. IInv => LightsOfTheLiving
    <2> SUFFICES ASSUME IInv, pc # "start"
                 PROVE  /\ LightsHeld = OwnLights
                              \union ({spells[i].light : i \in 1 .. Len(spells)} \ {Null})
                        /\ lights.count = Cardinality(LightsHeld)
      BY DEF LightsOfTheLiving
    <2>1. LightsHeld = Held(lights)
      BY DEF LightsHeld, Held
    <2>2. Held(lights) = OwnLights \union LightsOf(spells)
      BY DEF IInv, Lit
    <2>3. lights.count \in Nat /\ Distinct(lights)
      BY DEF IInv, Lit, Holds, IsArray
    <2>4. lights.count = Cardinality(Held(lights))
      BY <2>3, DistinctCount
    <2> QED
      BY <2>1, <2>2, <2>4 DEF LightsOf
  <1> QED
    BY <1>1, Invariance, PTL

\* What isozbatch_draw draws is what was added in this frame and nothing else.
THEOREM FrameIsDrawnAlways == Spec => []FrameIsDrawn
  <1>1. IInv => FrameIsDrawn
    <2> SUFFICES ASSUME IInv PROVE FrameIsDrawn
      OBVIOUS
    <2>1. Sprites \in Seq(Sprite) /\ at \in Nat \ {0}
      BY SpriteTypes DEF IInv, Lit, OneLightEach, Phase
    <2>2. CASE pc = "draw"
      <3>1. /\ zbatch.count = at - 1 /\ at - 1 <= Len(Sprites)
            /\ \A i \in 0 .. at - 2 : zbatch.data[i] = Sprites[i + 1]
        BY <2>2 DEF IInv, Batched
      <3>2. PICK n \in Nat : n = at - 1
        BY <2>1
      <3>3. PICK s \in Seq(Sprite) : s = Sprites
        BY <2>1
      <3>4. SubSeq(s, 1, n) = [i \in 1 .. n |-> s[i]]
        BY <3>1, <3>2, <3>3
      <3>5. \A i \in 1 .. n : zbatch.data[i - 1] = s[i]
        <4>1. \A i \in 1 .. n : i - 1 \in 0 .. at - 2 /\ (i - 1) + 1 = i
          BY <2>1, <3>2
        <4> QED
          BY <3>1, <3>3, <4>1
      <3>6. [i \in 1 .. n |-> zbatch.data[i - 1]] = [i \in 1 .. n |-> s[i]]
        BY <3>5, Zenon
      <3>7. [i \in 1 .. zbatch.count |-> zbatch.data[i - 1]] = SubSeq(Sprites, 1, at - 1)
        BY <3>1, <3>2, <3>3, <3>4, <3>6, Zenon
      <3> QED
        BY <2>2, <3>7, Zenon DEF FrameIsDrawn
    <2>3. CASE pc # "draw"
      <3>1. zbatch.count = 0
        BY <2>3 DEF IInv, Batched
      <3>2. [i \in 1 .. 0 |-> zbatch.data[i - 1]] = <<>>
        OBVIOUS
      <3> QED
        BY <2>3, <3>1, <3>2, Zenon DEF FrameIsDrawn
    <2> QED
      BY <2>2, <2>3
  <1> QED
    BY <1>1, Invariance, PTL

\* Orders are executed once, in the order they were given, and before the next
\* click is read: the loop with its queue implements Fifo, where the orders wait
\* in a sequence.
THEOREM OrdersInOrder == Spec => ImplementsFifo
  <1>1. Init => Player!Init
    <2> SUFFICES ASSUME Init PROVE Player!Init
      OBVIOUS
    <2>1. Items(queue) = <<>>
      BY SuppliedInit, ChainItems
    <2>2. todo = <<>> /\ command = Null
      BY DEF Init
    <2> QED
      BY <2>1, <2>2 DEF Player!Init
  <1>2. IInv /\ IInv' /\ [Loop]_vars
            => [Player!Give \/ Player!Execute \/ Player!Rest]_<<Items(queue) \o todo, command>>
    <2> SUFFICES ASSUME IInv, IInv', [Loop]_vars
                 PROVE  [Player!Give \/ Player!Execute \/ Player!Rest]_<<Items(queue) \o todo, command>>
      OBVIOUS
    <2>1. PICK its \in Seq(Commands) : Queued(queue, its)
      BY DEF IInv, Supplied
    <2>2. Items(queue) = its /\ todo \in Seq(Commands)
      BY <2>1, ChainItems DEF IInv, Phase
    <2>3. CASE Input
      <3>1. its = <<>> /\ todo = <<>> /\ queue' = queue /\ command' = command
        BY <2>1, <2>3, ChainFirst DEF IInv, Phase, Supplied, Input
      <3>2. PICK move \in Moves, casts \in Casts : todo' = move \o casts
        BY <2>3 DEF Input
      <3>3. Items(queue') = <<>> /\ todo' \in Seq(Commands)
        BY <2>2, <3>1, <3>2, CastTypes
      <3>4. Items(queue) \o todo = <<>> /\ Items(queue') \o todo' = todo'
        <4>1. <<>> \o <<>> = <<>> /\ \A s \in Seq(Commands) : <<>> \o s = s
          OBVIOUS
        <4> QED
          BY <2>2, <3>1, <3>3, <4>1, Zenon
      <3>5. move \o casts \in Clicks
        BY DEF Clicks
      <3>6. Items(queue') \o todo' \in Clicks
        BY <3>2, <3>4, <3>5, Zenon
      <3> QED
        BY <3>1, <3>4, <3>6 DEF Player!Give
    <2>4. CASE AddCommand
      <3>1. PICK it \in Commands, cell \in FreeCells(queue) :
                it = Head(todo) /\ queue' = Push(queue, cell, it)
        <4>1. Head(todo) \in Commands
          BY <2>2, <2>4 DEF AddCommand
        <4> QED
          BY <2>4, <4>1, Zenon DEF AddCommand
      <3>2. Items(queue') = Append(its, it)
        <4>1. Queued(queue', Append(its, it))
          BY <2>1, <3>1, PushChain
        <4> QED
          BY <4>1, ChainItems
      <3>3. PICK t \in Seq(Commands) : t = todo /\ t # <<>> /\ it = Head(t) /\ todo' = Tail(t)
        BY <2>2, <2>4, <3>1 DEF AddCommand
      <3>4. Append(its, it) \o Tail(t) = its \o t
        BY <3>3
      <3>5. Items(queue') \o todo' = Items(queue) \o todo
        BY <2>2, <3>2, <3>3, <3>4, Zenon
      <3> QED
        BY <2>4, <3>5 DEF AddCommand
    <2>5. CASE Execute
      <3>1. /\ its # <<>> /\ command' = Head(its) /\ queue' = Pop(queue)
            /\ todo = <<>> /\ todo' = <<>>
        BY <2>1, <2>5, NextCommand DEF Execute, IInv, Phase
      <3>2. Items(queue') = Tail(its)
        BY <2>1, <3>1, PopChain, ChainItems
      <3>3. Tail(its) \in Seq(Commands)
        BY <3>1
      <3>4. Items(queue) \o todo = its /\ Items(queue') \o todo' = Tail(its)
        <4>1. its \o <<>> = its /\ Tail(its) \o <<>> = Tail(its)
          BY <3>3
        <4> QED
          BY <2>2, <3>1, <3>2, <4>1, Zenon
      <3> QED
        BY <3>1, <3>4 DEF Player!Execute
    <2>6. CASE TickSpells
      <3>1. its = <<>> /\ todo = <<>> /\ UNCHANGED <<queue, todo>> /\ command' = Null
        BY <2>1, <2>6, NextCommand DEF TickSpells, IInv, Phase
      <3>2. Items(queue) \o todo = <<>>
        BY <2>2, <3>1
      <3>3. Items(queue') \o todo' = Items(queue) \o todo
        BY <3>1
      <3> QED
        BY <3>1, <3>2, <3>3 DEF Player!Rest
    <2>7. CASE UNCHANGED <<queue, todo, command>>
      BY <2>7
    <2> QED
      BY <2>3, <2>4, <2>5, <2>6, <2>7 DEF Loop, vars, NewOwnLight, StartFrame, RunLogic,
         SpellGoesOn, SpellEnds, EndStep, StartDrawing, DrawSprite, Blit
  <1> QED
    BY <1>1, <1>2, Invariance, PTL DEF Spec, ImplementsFifo, Player!Spec
=============================================================================
