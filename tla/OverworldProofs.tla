-------------------------- MODULE OverworldProofs --------------------------
(***************************************************************************)
(* That the generator of random numbers multiplies modulo its Modulus, for *)
(* every choice of its factors; and that the generator of the map, which   *)
(* draws from it, digs as it is meant to, on a map of any size and with    *)
(* any numbers drawn: the calls of dig are about different holes, the      *)
(* holes are the craters of the strikes, and the walls stand where the     *)
(* holes meet the grass.                                                   *)
(***************************************************************************)
EXTENDS Overworld, TLAPS, SequenceTheorems, FiniteSetTheorems

-----------------------------------------------------------------------------
(* Numbers, and induction over them, in a form that speaks of sets and not *)
(* of predicates.                                                          *)

LEMMA DivMod ==
    ASSUME NEW s \in Nat, NEW q \in Nat \ {0}
    PROVE  /\ s \div q \in Nat
           /\ s % q \in 0 .. q - 1
           /\ s = q * (s \div q) + (s % q)
  <1>1. s \div q \in Int /\ s % q \in 0 .. q - 1
    BY SMT
  <1>2. s = q * (s \div q) + (s % q)
    BY Z3
  <1>3. s \div q >= 0
    BY Z3
  <1> QED BY <1>1, <1>2, <1>3, SMT

LEMMA Multiple ==
    ASSUME NEW s \in Nat, NEW q \in Nat \ {0}
    PROVE  \E k \in Nat : s = q * k + (s % q)
  BY DivMod

LEMMA ModUnique ==
    ASSUME NEW m \in Nat \ {0}, NEW k \in Int, NEW r \in 0 .. m - 1
    PROVE  (m * k + r) % m = r
  BY Z3

LEMMA LeastNatural ==
    ASSUME NEW T \in SUBSET Nat, T # {}
    PROVE  \E n \in T : \A m \in T : n <= m
  <1>1. PICK n \in T : \A m \in T : ~(<<m, n>> \in OpToRel(<, Nat))
    BY NatLessThanWellFounded, WFMin, Zenon
  <1>2. \A m \in T : ~(m < n)
    BY <1>1 DEF OpToRel
  <1>3. \A m \in T : n <= m
    BY <1>2
  <1> QED
    BY <1>3

\* Up to a bound.
LEMMA BoundedInduction ==
    ASSUME NEW N \in Nat, NEW S, 0 \in S, \A n \in 0 .. N - 1 : n \in S => n + 1 \in S
    PROVE  0 .. N \subseteq S
  <1> DEFINE T == {n \in 0 .. N : n \notin S}
  <1>1. SUFFICES ASSUME T # {} PROVE FALSE
    OBVIOUS
  <1>2. PICK n \in T : \A m \in T : n <= m
    <2>1. T \in SUBSET Nat
      OBVIOUS
    <2> HIDE DEF T
    <2> QED
      BY <1>1, <2>1, LeastNatural
  <1>3. n # 0 /\ n - 1 \in 0 .. N - 1 /\ ~(n <= n - 1)
    OBVIOUS
  <1>4. n - 1 \in S /\ (n - 1) + 1 = n
    BY <1>2, <1>3
  <1> QED
    BY <1>3, <1>4

\* f is the function that starts with first and goes on by F.
Recurses(f, N, first, F) ==
    f[0] = first /\ \A k \in 1 .. N : f[k] = F[<<f[k - 1], k>>]

RecursiveIn(S, N, first, F) == \E f \in [0 .. N -> S] : Recurses(f, N, first, F)

\* Such a function exists, and stays in the set it starts in.
LEMMA Recursion ==
    ASSUME NEW N \in Nat, NEW S, NEW first \in S, NEW F \in [S \X (1 .. N) -> S]
    PROVE  RecursiveIn(S, N, first, F)
  <1> DEFINE UpTo(n) == {f \in [0 .. n -> S] : /\ f[0] = first
                                               /\ \A k \in 1 .. n : f[k] = F[<<f[k - 1], k>>]}
             D == {n \in 0 .. N : UpTo(n) # {}}
  <1>1. 0 \in D
    <2> DEFINE f == [k \in 0 .. 0 |-> first]
    <2>1. f \in [0 .. 0 -> S] /\ f[0] = first
      OBVIOUS
    <2>2. \A k \in 1 .. 0 : f[k] = F[<<f[k - 1], k>>]
      OBVIOUS
    <2> HIDE DEF f
    <2> QED
      BY <2>1, <2>2
  <1>2. ASSUME NEW n \in 0 .. N - 1, n \in D PROVE n + 1 \in D
    <2>1. PICK f \in [0 .. n -> S] : f[0] = first /\ \A k \in 1 .. n : f[k] = F[<<f[k - 1], k>>]
      BY <1>2
    <2> DEFINE g == [k \in 0 .. n + 1 |-> IF k <= n THEN f[k] ELSE F[<<f[n], n + 1>>]]
    <2>2. F[<<f[n], n + 1>>] \in S
      OBVIOUS
    <2>3. g \in [0 .. n + 1 -> S]
      BY <2>2
    <2>4. g[0] = first
      BY <2>1
    <2>5. ASSUME NEW k \in 1 .. n + 1 PROVE g[k] = F[<<g[k - 1], k>>]
      <3>1. CASE k <= n
        BY <3>1, <2>1
      <3>2. CASE k = n + 1
        BY <3>2
      <3> QED
        BY <3>1, <3>2
    <2> HIDE DEF g
    <2>6. g \in UpTo(n + 1) /\ n + 1 \in 0 .. N
      BY <2>3, <2>4, <2>5
    <2> QED
      BY <2>6
  <1> HIDE DEF D
  <1>3. N \in D
    BY <1>1, <1>2, BoundedInduction
  <1> QED
    BY <1>3 DEF D, RecursiveIn, Recurses

LEMMA RecursionStays ==
    ASSUME NEW N \in Nat, NEW S, NEW F \in [S \X (1 .. N) -> S], NEW f, f[0] \in S,
           \A k \in 1 .. N : f[k - 1] \in S => f[k] = F[<<f[k - 1], k>>]
    PROVE  \A k \in 0 .. N : f[k] \in S
  <1> DEFINE D == {n \in 0 .. N : f[n] \in S}
  <1>1. 0 \in D
    OBVIOUS
  <1>2. ASSUME NEW n \in 0 .. N - 1, n \in D PROVE n + 1 \in D
    <2>1. n + 1 \in 1 .. N /\ (n + 1) - 1 = n
      OBVIOUS
    <2>2. f[n + 1] = F[<<f[n], n + 1>>]
      BY <1>2, <2>1
    <2> QED
      BY <1>2, <2>1, <2>2
  <1> HIDE DEF D
  <1>3. 0 .. N \subseteq D
    BY <1>1, <1>2, BoundedInduction
  <1> QED
    BY <1>3 DEF D

(* The generator of random numbers. *)

LEMMA Factors ==
    /\ Multiplier \in Nat \ {0} /\ Quotient \in Nat \ {0} /\ Rest \in Nat
    /\ Modulus \in Nat \ {0} /\ 2 * Rest < Quotient
    /\ Multiplier * Quotient + Rest = Modulus
  <1>1. Multiplier \in Nat \ {0} /\ Quotient \in Nat \ {0} /\ Rest \in Nat
        /\ 2 * Rest < Quotient
    BY RandAssumption
  <1>2. Multiplier * Quotient \in Nat /\ Multiplier * Quotient > 0
    BY <1>1, Z3
  <1> QED BY <1>1, <1>2, SMT DEF Modulus

\* The two terms, for every state of the width of an unsigned int.
LEMMA Terms ==
    ASSUME NEW s \in 0 .. 2 * Modulus + 1
    PROVE  /\ Low(s) \in 0 .. Modulus - 1
           /\ High(s) \in 0 .. Modulus
           /\ s < Modulus => High(s) < Modulus
           /\ Multiplier * s = Modulus * (s \div Quotient) + (Low(s) - High(s))
  <1> DEFINE hi == s \div Quotient
             lo == s % Quotient
  <1>1. /\ hi \in Nat /\ lo \in 0 .. Quotient - 1 /\ s = Quotient * hi + lo
    <2>1. s \in Nat BY Factors, SMT
    <2> QED BY <2>1, DivMod, Factors, Zenon
  <1> HIDE DEF hi, lo
  <1>2. Low(s) = Multiplier * lo /\ High(s) = Rest * hi
    BY DEF Low, High, hi, lo
  <1>3. Multiplier * lo \in 0 .. Modulus - 1
    <2>1. Multiplier * lo >= 0 /\ Multiplier * lo <= Multiplier * (Quotient - 1)
      BY <1>1, Factors, Z3
    <2>2. Multiplier * (Quotient - 1) = Multiplier * Quotient - Multiplier
      BY Factors, Z3
    <2> QED BY <2>1, <2>2, <1>1, Factors, Z3
  <1>4. Multiplier * s = Modulus * hi + (Multiplier * lo - Rest * hi)
    BY <1>1, Factors, Z3
  <1>5. /\ Rest * hi \in Nat /\ 2 * (Rest * hi) <= s
    <2>1. Rest * hi >= 0 /\ (2 * Rest) * hi <= Quotient * hi
      BY <1>1, Factors, Z3
    <2> QED BY <2>1, <1>1, Factors, Z3
  <1> QED
    BY <1>2, <1>3, <1>4, <1>5, Factors, SMT DEF hi

\* Schrage's method multiplies modulo the Modulus.
LEMMA Schrage ==
    ASSUME NEW s \in 0 .. 2 * Modulus + 1
    PROVE  /\ Advance(s) \in 0 .. Modulus - 1
           /\ Advance(s) = (Multiplier * s) % Modulus
  <1> DEFINE hi == s \div Quotient
             x == Low(s) - High(s)
  <1>1. /\ hi \in Nat /\ x \in -Modulus .. Modulus - 1
        /\ Multiplier * s = Modulus * hi + x
        /\ Advance(s) = IF x < 0 THEN x + Modulus ELSE x
    <2>1. /\ Low(s) \in 0 .. Modulus - 1 /\ High(s) \in 0 .. Modulus
          /\ Multiplier * s = Modulus * hi + x
      BY Terms, Zenon
    <2>2. hi \in Nat
      <3>1. s \in Nat BY Factors, SMT
      <3> QED BY <3>1, DivMod, Factors, Zenon
    <2>3. /\ x \in -Modulus .. Modulus - 1
          /\ Advance(s) = IF x < 0 THEN x + Modulus ELSE x
      BY <2>1, Factors, SMT DEF Advance
    <2> QED BY <2>1, <2>2, <2>3, Zenon
  <1> HIDE DEF hi, x
  <1>2. Advance(s) \in 0 .. Modulus - 1
    BY <1>1, Factors, SMT
  <1>3. \E k \in Int : Multiplier * s = Modulus * k + Advance(s)
    <2>1. CASE x < 0
      <3>1. Modulus * (hi - 1) = Modulus * hi - Modulus
        BY <1>1, Factors, Z3
      <3>2. Modulus * hi \in Int
        BY <1>1, Factors, Z3
      <3>3. Multiplier * s = Modulus * (hi - 1) + Advance(s)
        BY <1>1, <2>1, <3>1, <3>2, Factors, SMT
      <3> QED BY <3>3, <1>1, SMT
    <2>2. CASE x >= 0
      BY <1>1, <2>2
    <2> QED BY <2>1, <2>2, <1>1
  <1>4. PICK k \in Int : Multiplier * s = Modulus * k + Advance(s)
    BY <1>3
  <1>5. (Modulus * k + Advance(s)) % Modulus = Advance(s)
    BY <1>2, ModUnique, Factors, Zenon
  <1> QED BY <1>2, <1>4, <1>5, Zenon

\* A factor that can be undone takes no state but 0 to 0.
LEMMA NeverZero ==
    ASSUME NEW s \in Sequence
    PROVE  (Multiplier * s) % Modulus # 0
  <1> SUFFICES ASSUME (Multiplier * s) % Modulus = 0
               PROVE  FALSE
    OBVIOUS
  <1>1. s \in Nat /\ 0 < s /\ s < Modulus
    BY Factors, SMT DEF Sequence
  <1>2. PICK inverse \in Nat : (Multiplier * inverse) % Modulus = 1
    BY InvertibleAssumption, Factors, SMT
  <1>3. PICK k \in Nat : Multiplier * s = Modulus * k
    <2>1. Multiplier * s \in Nat BY <1>1, Factors, Z3
    <2>2. PICK k \in Nat : Multiplier * s = Modulus * k + ((Multiplier * s) % Modulus)
      BY <2>1, Multiple, Factors, Zenon
    <2>3. Modulus * k \in Int BY Factors, Z3
    <2>4. Multiplier * s = Modulus * k BY <2>2, <2>3, SMT
    <2> QED BY <2>4
  <1>4. PICK j \in Nat : Multiplier * inverse = Modulus * j + 1
    <2>1. Multiplier * inverse \in Nat BY <1>2, Factors, Z3
    <2>2. PICK j \in Nat :
              Multiplier * inverse = Modulus * j + ((Multiplier * inverse) % Modulus)
      BY <2>1, Multiple, Factors, Zenon
    <2> QED BY <2>2, <1>2, Zenon
  <1>5. s = Modulus * (inverse * k - j * s)
    <2>1. (Multiplier * inverse) * s = inverse * (Multiplier * s)
      BY <1>1, <1>2, Factors, Z3
    <2>2. (Modulus * j + 1) * s = inverse * (Modulus * k)
      BY <2>1, <1>3, <1>4
    <2>3. (Modulus * j + 1) * s = Modulus * (j * s) + s
      BY <1>1, <1>4, Factors, Z3
    <2>4. inverse * (Modulus * k) = Modulus * (inverse * k)
      BY <1>2, <1>3, Factors, Z3
    <2>5. Modulus * (inverse * k - j * s) = Modulus * (inverse * k) - Modulus * (j * s)
      BY <1>1, <1>2, <1>3, <1>4, Factors, Z3
    <2>6. Modulus * (inverse * k) \in Int /\ Modulus * (j * s) \in Int
      BY <1>1, <1>2, <1>3, <1>4, Factors, Z3
    <2> QED BY <2>2, <2>3, <2>4, <2>5, <2>6, <1>1, SMT
  <1>6. PICK t \in Int : s = Modulus * t
    <2>1. inverse * k - j * s \in Int BY <1>1, <1>2, <1>3, <1>4, Z3
    <2> QED BY <2>1, <1>5
  <1> QED BY <1>1, <1>6, Factors, Z3

-----------------------------------------------------------------------------
(* What a call of do_rand does to the state and to the number drawn.       *)

LEMMA DrawInit == Init => TypeOK
  BY RandAssumption, SMT DEF Init, TypeOK

LEMMA DrawTypes ==
    ASSUME TypeOK, DoRand
    PROVE  TypeOK'
  <1>1. Usable(seed) \in 0 .. 2 * Modulus + 1
    BY RandAssumption, Factors, SMT DEF TypeOK, Words, Usable
  <1>2. seed' \in 0 .. Modulus - 1
    BY <1>1, Schrage DEF DoRand
  <1>3. drawn' \in 0 .. RandMax
    <2>1. seed' \in Nat /\ RandMax + 1 \in Nat \ {0}
      BY <1>2, Factors, RandAssumption, SMT
    <2>2. seed' % (RandMax + 1) \in 0 .. (RandMax + 1) - 1
      BY <2>1, DivMod, Zenon
    <2> QED BY <2>2, RandAssumption, SMT DEF DoRand
  <1> QED BY <1>2, <1>3, RandAssumption, Factors, SMT DEF TypeOK, Words

LEMMA DrawFits == TypeOK => FitsLong
  <1> SUFFICES ASSUME TypeOK PROVE FitsLong
    OBVIOUS
  <1>1. Usable(seed) \in 0 .. 2 * Modulus + 1
    BY RandAssumption, Factors, SMT DEF TypeOK, Words, Usable
  <1>2. Low(Usable(seed)) \in 0 .. Modulus - 1 /\ High(Usable(seed)) \in 0 .. Modulus
    BY <1>1, Terms
  <1> QED BY <1>2, Factors, SMT DEF FitsLong

LEMMA DrawMultiplies ==
    ASSUME DoRand, seed \in Sequence
    PROVE  seed' = (Multiplier * seed) % Modulus /\ (Multiplier * seed) % Modulus # 0
  <1>1. seed \in 0 .. 2 * Modulus + 1 /\ Usable(seed) = seed
    BY Factors, SMT DEF Sequence, Usable
  <1> QED BY <1>1, Schrage, NeverZero DEF DoRand

\* Whatever the seed is, the state stays an unsigned int and the numbers drawn
\* are in the range of rand().
THEOREM TypeCorrect == Spec => []TypeOK
  <1>1. TypeOK /\ [DoRand]_vars => TypeOK'
    <2>1. ASSUME TypeOK, UNCHANGED vars PROVE TypeOK'
      BY <2>1 DEF TypeOK, vars
    <2> QED BY <2>1, DrawTypes
  <1> QED BY <1>1, DrawInit, PTL DEF Spec

\* No product and no difference of do_rand leaves a signed long of 32 bits.
THEOREM NeverOverflows == Spec => []FitsLong
  BY TypeCorrect, DrawFits, PTL

\* Every state follows from the one before by one multiplication modulo the
\* Modulus, and the sequence never comes to 0.
THEOREM MultipliesModulo == Spec => Lehmer
  <1>1. [DoRand]_vars =>
            [LET next == (Multiplier * seed) % Modulus
             IN  seed \in Sequence => seed' = next /\ next # 0]_vars
    <2> SUFFICES ASSUME DoRand, seed \in Sequence
                 PROVE  /\ seed' = (Multiplier * seed) % Modulus
                        /\ (Multiplier * seed) % Modulus # 0
      BY Zenon
    <2> QED BY DrawMultiplies
  <1> QED BY <1>1, PTL DEF Spec, Lehmer

\* The numbers in rand.c are factors as the assumptions of Rand ask for.
THEOREM FactorsOfTheCode ==
    /\ 16807 * 127773 + 2836 = 2147483647
    /\ 2 * 2836 < 127773
    /\ 4294967296 = 2 * (2147483647 + 1)
    /\ 0 < 123459876 /\ 123459876 < 2147483647
    /\ 0 < 1407677000 /\ 1407677000 < 2147483647
    /\ (16807 * 1407677000) % 2147483647 = 1
  BY SMT

(* The generator of the map. *)

\* A row and a column for every tile, and back.
LEMMA RowAndColumn ==
    ASSUME NEW t \in Tiles
    PROVE  X(t) \in 0 .. MapWidth - 1 /\ Y(t) \in 0 .. MapHeight - 1 /\ Index(X(t), Y(t)) = t
  <1>1. MapWidth \in Nat \ {0} /\ MapHeight \in Nat \ {0} /\ t \in Nat /\ t < MapWidth * MapHeight
    <2>1. MapWidth * MapHeight \in Int
      BY OverworldAssumption, Z3
    <2> QED
      BY <2>1, OverworldAssumption DEF Tiles
  <1>2. /\ Y(t) \in Nat /\ X(t) \in 0 .. MapWidth - 1 /\ t = MapWidth * Y(t) + X(t)
    BY <1>1, DivMod DEF X, Y
  <1>3. Y(t) < MapHeight
    <2>1. SUFFICES ASSUME Y(t) >= MapHeight PROVE FALSE
      BY <1>1, <1>2
    <2>2. MapWidth * Y(t) >= MapWidth * MapHeight
      BY <1>1, <1>2, <2>1, Z3
    <2>3. MapWidth * Y(t) \in Int /\ MapWidth * MapHeight \in Int
      BY <1>1, <1>2, Z3
    <2> QED
      BY <1>1, <1>2, <2>2, <2>3
  <1>4. Y(t) * MapWidth = MapWidth * Y(t)
    BY <1>1, <1>2, Z3
  <1> QED
    BY <1>1, <1>2, <1>3, <1>4 DEF Index

LEMMA PlaceOnMap ==
    ASSUME NEW x \in 0 .. MapWidth - 1, NEW y \in 0 .. MapHeight - 1
    PROVE  Index(x, y) \in Tiles /\ X(Index(x, y)) = x /\ Y(Index(x, y)) = y
  <1>1. MapWidth \in Nat \ {0} /\ MapHeight \in Nat \ {0} /\ x \in Nat /\ y \in Nat
    BY OverworldAssumption
  <1>2. PICK w \in Nat \ {0}, h \in Nat \ {0} : w = MapWidth /\ h = MapHeight
    BY <1>1
  <1>3. y * w \in Nat /\ y * w + w <= w * h /\ y * w = w * y /\ w * h \in Nat
    <2>1. w * y \in Nat /\ y * w = w * y /\ w * h \in Nat /\ w * (y + 1) = w * y + w
      BY <1>1, <1>2, Z3
    <2>2. w * (y + 1) <= w * h
      BY <1>1, <1>2, Z3
    <2> QED
      BY <2>1, <2>2
  <1>4. Index(x, y) \in Tiles
    BY <1>1, <1>2, <1>3 DEF Index, Tiles
  <1>5. (w * y + x) % w = x
    BY <1>1, <1>2, ModUnique
  <1>6. (w * y + x) \div w = y
    BY <1>1, <1>2, Z3
  <1> QED
    BY <1>2, <1>3, <1>4, <1>5, <1>6 DEF Index, X, Y

-----------------------------------------------------------------------------
(* The calls of dig.                                                       *)

Calls == [x : 0 .. MapWidth - 1, y : 0 .. MapHeight - 1, next : 0 .. 9]

\* Every call of s is about a hole of its own.
Dug(s, holes) ==
    /\ s \in Seq(Calls)
    /\ \A i \in 1 .. Len(s) : Index(s[i].x, s[i].y) \in holes
    /\ \A i, j \in 1 .. Len(s) : Index(s[i].x, s[i].y) = Index(s[j].x, s[j].y) => i = j

LEMMA DugPush ==
    ASSUME NEW s, NEW holes, NEW c \in Calls, Dug(s, holes), Index(c.x, c.y) \notin holes
    PROVE  Dug(<<c>> \o s, holes \union {Index(c.x, c.y)})
  <1> DEFINE r == <<c>> \o s
             k(i) == Index(r[i].x, r[i].y)
  <1>1. /\ r \in Seq(Calls) /\ Len(r) = Len(s) + 1 /\ Len(s) \in Nat /\ r[1] = c
        /\ \A i \in 2 .. Len(r) : r[i] = s[i - 1]
    BY DEF Dug
  <1> HIDE DEF r
  <1>2. \A i \in 2 .. Len(r) : i - 1 \in 1 .. Len(s) /\ k(i) = Index(s[i - 1].x, s[i - 1].y)
    BY <1>1
  <1>3. \A i \in 2 .. Len(r) : k(i) \in holes
    BY <1>2, Zenon DEF Dug
  <1>4. k(1) = Index(c.x, c.y) /\ 1 .. Len(r) = {1} \union (2 .. Len(r))
    BY <1>1
  <1>5. \A i, j \in 2 .. Len(r) : k(i) = k(j) => i = j
    <2> TAKE i, j \in 2 .. Len(r)
    <2> HAVE k(i) = k(j)
    <2>1. i - 1 = j - 1
      BY <1>2, Zenon DEF Dug
    <2> QED
      BY <1>1, <2>1
  <1> HIDE DEF k
  <1>6. \A i, j \in 1 .. Len(r) : k(i) = k(j) => i = j
    BY <1>3, <1>4, <1>5
  <1>7. \A i \in 1 .. Len(r) : k(i) \in holes \union {Index(c.x, c.y)}
    BY <1>3, <1>4
  <1> QED
    BY <1>1, <1>6, <1>7, Zenon DEF Dug, r, k

LEMMA DugReturn ==
    ASSUME NEW s, NEW holes, Dug(s, holes), s # <<>>
    PROVE  Dug(Tail(s), holes)
  <1>1. /\ Tail(s) \in Seq(Calls) /\ Len(Tail(s)) = Len(s) - 1 /\ Len(s) \in Nat
        /\ \A i \in 1 .. Len(Tail(s)) : Tail(s)[i] = s[i + 1] /\ i + 1 \in 1 .. Len(s)
    BY DEF Dug
  <1>2. PICK r : r = Tail(s)
    OBVIOUS
  <1>3. \A i \in 1 .. Len(r) : Index(r[i].x, r[i].y) \in holes
    BY <1>1, <1>2 DEF Dug
  <1>4. \A i, j \in 1 .. Len(r) : Index(r[i].x, r[i].y) = Index(r[j].x, r[j].y) => i = j
    <2> TAKE i, j \in 1 .. Len(r)
    <2>1. r[i] = s[i + 1] /\ r[j] = s[j + 1] /\ i + 1 \in 1 .. Len(s) /\ j + 1 \in 1 .. Len(s)
      BY <1>1, <1>2
    <2>2. Index(r[i].x, r[i].y) = Index(r[j].x, r[j].y) => i + 1 = j + 1
      BY <2>1, Zenon DEF Dug
    <2> QED
      BY <1>1, <1>2, <2>2
  <1> QED
    BY <1>1, <1>2, <1>3, <1>4 DEF Dug

\* The loop of the innermost call goes on.
Ahead(s) == <<[s[1] EXCEPT !.next = @ + 1]>> \o Tail(s)

LEMMA DugAhead ==
    ASSUME NEW s, NEW holes, Dug(s, holes), s # <<>>, s[1].next < 9
    PROVE  Dug(Ahead(s), holes)
  <1>1. PICK c \in Calls : c = s[1]
    BY DEF Dug
  <1> DEFINE d == [c EXCEPT !.next = @ + 1]
             r == <<d>> \o Tail(s)
  <1>2. d \in Calls /\ d.x = c.x /\ d.y = c.y
    BY <1>1 DEF Calls
  <1> HIDE DEF d
  <1>3. /\ r \in Seq(Calls) /\ Len(r) = Len(s) /\ Len(s) \in Nat /\ r[1] = d
        /\ \A i \in 2 .. Len(s) : r[i] = s[i]
    <2>1. /\ Tail(s) \in Seq(Calls) /\ Len(Tail(s)) = Len(s) - 1 /\ Len(s) \in Nat
          /\ \A i \in 1 .. Len(Tail(s)) : Tail(s)[i] = s[i + 1]
      BY DEF Dug
    <2>2. PICK t \in Seq(Calls) : t = Tail(s)
      BY <2>1
    <2>3. /\ <<d>> \o t \in Seq(Calls) /\ Len(<<d>> \o t) = Len(t) + 1 /\ (<<d>> \o t)[1] = d
          /\ \A i \in 2 .. Len(t) + 1 : (<<d>> \o t)[i] = t[i - 1]
      BY <1>2
    <2> QED
      BY <2>1, <2>2, <2>3
  <1> HIDE DEF r
  <1>4. \A i \in 1 .. Len(s) : r[i].x = s[i].x /\ r[i].y = s[i].y
    BY <1>1, <1>2, <1>3
  <1>5. Dug(r, holes)
    BY <1>3, <1>4 DEF Dug
  <1> QED
    BY <1>1, <1>5 DEF r, d, Ahead

\* One call of dig: it makes a hole and goes on there, or it returns at once.
LEMMA DigEffect ==
    ASSUME NEW x \in Int, NEW y \in Int, NEW calls, Dig(x, y, calls), tiles \in [Tiles -> Nat]
    PROVE  \/ tiles' = tiles /\ stack' = calls
           \/ /\ x \in 0 .. MapWidth - 1 /\ y \in 0 .. MapHeight - 1
              /\ Index(x, y) \notin Holed
              /\ Holed' = Holed \union {Index(x, y)} /\ tiles' \in [Tiles -> Nat]
              /\ stack' = <<[x |-> x, y |-> y, next |-> 0]>> \o calls
  <1>1. CASE Inside(x, y) /\ tiles[Index(x, y)] # 0
    <2>1. /\ x \in 0 .. MapWidth - 1 /\ y \in 0 .. MapHeight - 1
          /\ tiles' = [tiles EXCEPT ![Index(x, y)] = 0]
          /\ stack' = <<[x |-> x, y |-> y, next |-> 0]>> \o calls
      BY <1>1 DEF Dig, Inside
    <2>2. Index(x, y) \in Tiles
      BY <2>1, PlaceOnMap
    <2>3. PICK hole \in Tiles : hole = Index(x, y)
      BY <2>2
    <2>4. hole \notin Holed /\ Holed' = Holed \union {hole} /\ tiles' \in [Tiles -> Nat]
      BY <1>1, <2>1, <2>3 DEF Holed
    <2> QED
      BY <2>1, <2>3, <2>4
  <1>2. CASE ~(Inside(x, y) /\ tiles[Index(x, y)] # 0)
    BY <1>2, Zenon DEF Dig
  <1> QED
    BY <1>1, <1>2

-----------------------------------------------------------------------------
(* The holes.                                                              *)

ClosedIn(U, holes) == \A s \in U : \A t \in holes : Near(s, t) => t \in U

\* Whatever holds of the tiles that were struck and spreads over holes side by
\* side, holds of all holes.
Spread(holes, from) ==
    \A U \in SUBSET Tiles : from \subseteq U /\ ClosedIn(U, holes) => holes \subseteq U

LEMMA SpreadGrows ==
    ASSUME NEW holes, NEW from, NEW t \in Tiles, NEW start, Spread(holes, from),
           from \subseteq start, t \in start \/ \E s \in holes : Near(s, t)
    PROVE  Spread(holes \union {t}, start)
  <1> SUFFICES ASSUME NEW U \in SUBSET Tiles, start \subseteq U, ClosedIn(U, holes \union {t})
               PROVE  holes \union {t} \subseteq U
    BY DEF Spread
  <1>1. ClosedIn(U, holes)
    BY DEF ClosedIn
  <1>2. holes \subseteq U
    BY <1>1 DEF Spread
  <1>3. t \in U
    BY <1>2 DEF ClosedIn
  <1> QED
    BY <1>2, <1>3

Strikes == {struck[i] : i \in 1 .. Len(struck)}

Prepared ==
    /\ at \in 0 .. MapWidth * MapHeight
    /\ tiles \in [Tiles -> Nat]
    /\ at # MapWidth * MapHeight => Holed = {} /\ struck = <<>> /\ stack = <<>> /\ ~walled
    /\ aim \in Seq(0 .. RandMax)

Dugout == Dug(stack, Holed)

Cratered ==
    /\ struck \in Seq(Tiles) /\ Strikes \subseteq Holed
    /\ Spread(Holed, Strikes)

WallsMade ==
    walled => stack = <<>> /\ wall_tiles = [t \in Tiles |-> Walls(t)]

MapInv == TypeOK /\ Prepared /\ Dugout /\ Cratered /\ WallsMade

LEMMA MapInvInit == MapInit => MapInv
  <1> SUFFICES ASSUME MapInit PROVE MapInv
    OBVIOUS
  <1>1. MapWidth * MapHeight \in Nat /\ 0 \in 0 .. MapWidth * MapHeight
    <2>1. MapWidth * MapHeight \in Nat
      BY OverworldAssumption, Z3
    <2> QED
      BY <2>1
  <1>2. TypeOK
    BY DrawInit DEF MapInit
  <1>3. Holed = {} /\ tiles \in [Tiles -> Nat]
    BY DEF MapInit, Holed
  <1>4. Prepared
    BY <1>1, <1>3 DEF MapInit, Prepared
  <1>5. Dugout
    BY DEF MapInit, Dugout, Dug
  <1>6. Cratered
    BY <1>3 DEF MapInit, Cratered, Strikes, Spread
  <1>7. WallsMade
    BY DEF MapInit, WallsMade
  <1> QED
    BY <1>2, <1>4, <1>5, <1>6, <1>7 DEF MapInv

LEMMA FillStep ==
    ASSUME MapInv, Fill
    PROVE  MapInv'
  <1>1. at \in Tiles /\ at' \in 0 .. MapWidth * MapHeight /\ Holed = {} /\ struck = <<>>
        /\ stack = <<>> /\ ~walled
    <2>1. MapWidth * MapHeight \in Nat
      BY OverworldAssumption, Z3
    <2> QED
      BY <2>1 DEF Fill, MapInv, Prepared, Tiles
  <1>2. TypeOK'
    BY DrawTypes DEF Fill, MapInv
  <1>3. PICK grass \in Nat : grass = 1 + (drawn' % NumGrass) /\ grass # 0
    <2>1. drawn' \in Nat /\ NumGrass \in Nat \ {0}
      BY <1>2, RandAssumption, OverworldAssumption DEF TypeOK
    <2>2. drawn' % NumGrass \in 0 .. NumGrass - 1
      BY <2>1, DivMod, Zenon
    <2>3. \A n \in 0 .. NumGrass - 1 : n \in Nat /\ 1 + n \in Nat /\ 1 + n # 0
      BY <2>1
    <2> QED
      BY <2>2, <2>3, Zenon
  <1>4. tiles' = [tiles EXCEPT ![at] = grass]
    BY <1>3 DEF Fill
  <1>5. tiles' \in [Tiles -> Nat] /\ Holed' = {}
    BY <1>1, <1>3, <1>4 DEF MapInv, Prepared, Holed
  <1>6. UNCHANGED <<aim, struck, stack, wall_tiles, walled>>
    BY DEF Fill
  <1>7. Prepared'
    BY <1>1, <1>5, <1>6 DEF MapInv, Prepared
  <1>8. Dugout' /\ WallsMade'
    BY <1>1, <1>6 DEF Dugout, Dug, WallsMade
  <1>9. Cratered'
    BY <1>1, <1>5, <1>6 DEF Cratered, Strikes, Spread
  <1> QED
    BY <1>2, <1>7, <1>8, <1>9 DEF MapInv

LEMMA AimStep ==
    ASSUME MapInv, Aim
    PROVE  MapInv'
  <1>1. TypeOK'
    BY DrawTypes DEF Aim, MapInv
  <1>2. aim' \in Seq(0 .. RandMax)
    BY <1>1 DEF Aim, TypeOK
  <1>3. UNCHANGED <<at, tiles, struck, stack, wall_tiles, walled>> /\ ~walled
    BY DEF Aim, Idle
  <1>4. Holed' = Holed /\ Strikes' = Strikes
    BY <1>3 DEF Holed, Strikes
  <1> QED
    BY <1>1, <1>2, <1>3, <1>4 DEF MapInv, Prepared, Dugout, Cratered, WallsMade

LEMMA StrikeStep ==
    ASSUME MapInv, Strike
    PROVE  MapInv'
  <1>1. TypeOK' /\ drawn' \in Nat
    <2>1. TypeOK'
      BY DrawTypes DEF Strike, MapInv
    <2> QED
      BY <2>1, RandAssumption DEF TypeOK
  <1>2. aim[1] \in Nat /\ Idle /\ ~walled /\ stack = <<>>
    <2>1. Idle /\ ~walled /\ stack = <<>> /\ aim # <<>>
      BY DEF Strike, Idle
    <2>2. aim \in Seq(0 .. RandMax)
      BY DEF MapInv, Prepared
    <2>3. aim[1] \in 0 .. RandMax
      <3>1. \A S : \A s \in Seq(S) : s # <<>> => s[1] \in S
        OBVIOUS
      <3> QED
        BY <2>1, <2>2, <3>1, Zenon
    <2>4. \A n \in 0 .. RandMax : n \in Nat
      BY RandAssumption
    <2> QED
      BY <2>1, <2>3, <2>4, Zenon
  <1>3. PICK p \in Nat, q \in Nat :
            /\ Dig(p % MapWidth, q % MapHeight, <<>>)
            /\ struck' = Append(struck, Index(p % MapWidth, q % MapHeight))
    <2>1. \E a \in {<<aim[1], drawn'>>, <<drawn', aim[1]>>} :
              /\ Dig(a[1] % MapWidth, a[2] % MapHeight, <<>>)
              /\ struck' = Append(struck, Index(a[1] % MapWidth, a[2] % MapHeight))
      BY DEF Strike
    <2> QED
      BY <1>1, <1>2, <2>1
  <1>4. PICK x \in 0 .. MapWidth - 1, y \in 0 .. MapHeight - 1 :
            x = p % MapWidth /\ y = q % MapHeight
    BY DivMod, OverworldAssumption
  <1>5. PICK t \in Tiles : t = Index(x, y)
    BY PlaceOnMap
  <1>6. Dig(x, y, <<>>) /\ struck' = Append(struck, t)
    BY <1>3, <1>4, <1>5
  <1>7. struck' \in Seq(Tiles) /\ Strikes' = Strikes \union {t}
    <2>1. PICK s \in Seq(Tiles) : s = struck
      BY DEF MapInv, Cratered
    <2>2. /\ Append(s, t) \in Seq(Tiles) /\ Len(Append(s, t)) = Len(s) + 1 /\ Len(s) \in Nat
          /\ \A i \in 1 .. Len(s) : Append(s, t)[i] = s[i]
          /\ Append(s, t)[Len(s) + 1] = t
      OBVIOUS
    <2>3. PICK r : r = Append(s, t)
      OBVIOUS
    <2>4. {r[i] : i \in 1 .. Len(r)} = {s[i] : i \in 1 .. Len(s)} \union {t}
      <3>1. 1 .. Len(r) = (1 .. Len(s)) \union {Len(s) + 1}
        BY <2>2, <2>3
      <3> QED
        BY <2>2, <2>3, <3>1
    <2> QED
      BY <1>6, <2>1, <2>2, <2>3, <2>4 DEF Strikes
  <1>8. tiles \in [Tiles -> Nat] /\ Strikes \subseteq Holed /\ Spread(Holed, Strikes)
    BY DEF MapInv, Prepared, Cratered
  <1>9. /\ Holed' = Holed \union {t} /\ tiles' \in [Tiles -> Nat] /\ Dug(stack', Holed')
    <2>1. CASE tiles' = tiles /\ stack' = <<>>
      <3>1. Holed' = Holed
        BY <2>1 DEF Holed
      <3>2. t \in Holed
        <4>1. CASE tiles[t] # 0
          <5>1. tiles' = [tiles EXCEPT ![t] = 0]
            BY <1>4, <1>5, <1>6, <4>1 DEF Dig, Inside
          <5> QED
            BY <1>8, <2>1, <4>1, <5>1
        <4>2. CASE tiles[t] = 0
          BY <4>2 DEF Holed
        <4> QED
          BY <4>1, <4>2
      <3> QED
        BY <1>8, <2>1, <3>1, <3>2 DEF Dug
    <2>2. CASE /\ Index(x, y) \notin Holed
               /\ Holed' = Holed \union {Index(x, y)} /\ tiles' \in [Tiles -> Nat]
               /\ stack' = <<[x |-> x, y |-> y, next |-> 0]>> \o <<>>
      <3>1. PICK c \in Calls : c = [x |-> x, y |-> y, next |-> 0]
        <4>1. 0 \in 0 .. 9
          OBVIOUS
        <4>2. [x |-> x, y |-> y, next |-> 0] \in Calls
          BY <4>1, Zenon DEF Calls
        <4> QED
          BY <4>2, Zenon
      <3>2. Index(c.x, c.y) = t /\ Dug(<<>>, Holed)
        BY <1>5, <3>1 DEF Dug
      <3>3. Dug(<<c>> \o <<>>, Holed \union {t})
        BY <1>5, <2>2, <3>2, DugPush
      <3> QED
        BY <1>5, <2>2, <3>1, <3>3
    <2>3. x \in Int /\ y \in Int
      OBVIOUS
    <2> QED
      BY <1>6, <1>8, <2>1, <2>2, <2>3, DigEffect
  <1>10. Cratered'
    <2>1. Spread(Holed \union {t}, Strikes \union {t})
      BY <1>8, SpreadGrows
    <2> QED
      BY <1>7, <1>8, <1>9, <2>1 DEF Cratered
  <1>11. at' = at /\ aim' = <<>> /\ walled' = walled /\ at = MapWidth * MapHeight
    BY DEF Strike, Idle
  <1>12. Prepared'
    BY <1>9, <1>11 DEF MapInv, Prepared
  <1> QED
    BY <1>1, <1>2, <1>9, <1>10, <1>11, <1>12 DEF MapInv, Dugout, WallsMade

LEMMA DigAroundStep ==
    ASSUME MapInv, DigAround
    PROVE  MapInv'
  <1>1. TypeOK'
    BY DrawTypes DEF DigAround, MapInv
  <1>2. stack \in Seq(Calls) /\ stack # <<>> /\ stack[1].next < 9 /\ Dug(stack, Holed)
    BY DEF DigAround, MapInv, Dugout, Dug
  <1>3. PICK c \in Calls : c = stack[1]
    BY <1>2
  <1>4. PICK x \in Int, y \in Int : x = c.x + (c.next \div 3) - 1 /\ y = c.y + (c.next % 3) - 1
    BY DEF Calls
  <1>5. \/ Dig(x, y, Ahead(stack))
        \/ tiles' = tiles /\ stack' = Ahead(stack)
    BY <1>3, <1>4 DEF DigAround, Ahead
  <1>6. Dug(Ahead(stack), Holed)
    BY <1>2, DugAhead
  <1>7. tiles \in [Tiles -> Nat] /\ Strikes \subseteq Holed /\ Spread(Holed, Strikes)
    BY DEF MapInv, Prepared, Cratered
  <1>8. UNCHANGED <<at, aim, struck, wall_tiles, walled>> /\ Strikes' = Strikes
    BY DEF DigAround, Strikes
  <1>9. /\ tiles' \in [Tiles -> Nat] /\ Dug(stack', Holed')
        /\ Strikes \subseteq Holed' /\ Spread(Holed', Strikes)
    <2>1. CASE tiles' = tiles /\ stack' = Ahead(stack)
      <3>1. Holed' = Holed
        BY <2>1 DEF Holed
      <3> QED
        BY <1>6, <1>7, <2>1, <3>1
    <2>2. CASE /\ x \in 0 .. MapWidth - 1 /\ y \in 0 .. MapHeight - 1
               /\ Index(x, y) \notin Holed
               /\ Holed' = Holed \union {Index(x, y)} /\ tiles' \in [Tiles -> Nat]
               /\ stack' = <<[x |-> x, y |-> y, next |-> 0]>> \o Ahead(stack)
      <3>1. PICK t \in Tiles : t = Index(x, y) /\ X(t) = x /\ Y(t) = y
        BY <2>2, PlaceOnMap
      <3>2. PICK n \in Calls : n = [x |-> x, y |-> y, next |-> 0]
        <4>1. 0 \in 0 .. 9
          OBVIOUS
        <4> QED
          BY <2>2, <4>1, Zenon DEF Calls
      <3>3. Index(n.x, n.y) = t
        BY <3>1, <3>2
      <3>4. Dug(<<n>> \o Ahead(stack), Holed \union {t})
        <4>1. Dug(Ahead(stack), Holed) /\ t \notin Holed
          BY <1>6, <2>2, <3>1
        <4> QED
          BY <3>2, <3>3, <4>1, DugPush
      <3>5. PICK s \in Holed : s = Index(c.x, c.y) /\ X(s) = c.x /\ Y(s) = c.y
        <4>1. Index(c.x, c.y) \in Holed
          <5>1. 1 \in 1 .. Len(stack)
            BY <1>2
          <5> QED
            BY <1>2, <1>3, <5>1, Zenon DEF Dug
        <4>2. X(Index(c.x, c.y)) = c.x /\ Y(Index(c.x, c.y)) = c.y
          BY PlaceOnMap DEF Calls
        <4> QED
          BY <4>1, <4>2
      <3>6. Near(s, t)
        <4>1. c.x \in Int /\ c.y \in Int /\ c.next \in 0 .. 8
          BY <1>2, <1>3 DEF Calls
        <4>2. c.next \div 3 \in 0 .. 2 /\ c.next % 3 \in 0 .. 2
          BY <4>1
        <4> QED
          BY <1>4, <3>1, <3>5, <4>1, <4>2 DEF Near
      <3>7. Spread(Holed \union {t}, Strikes)
        BY <1>7, <3>5, <3>6, SpreadGrows
      <3> QED
        BY <1>7, <2>2, <3>1, <3>2, <3>4, <3>7
    <2> QED
      BY <1>5, <1>7, <2>1, <2>2, DigEffect
  <1>10. at = MapWidth * MapHeight /\ ~walled
    BY <1>2 DEF MapInv, Prepared, WallsMade
  <1>11. Prepared'
    BY <1>8, <1>9, <1>10 DEF MapInv, Prepared
  <1>12. Cratered'
    BY <1>8, <1>9 DEF MapInv, Cratered
  <1> QED
    BY <1>1, <1>8, <1>9, <1>10, <1>11, <1>12 DEF MapInv, Dugout, WallsMade

LEMMA ReturnStep ==
    ASSUME MapInv, Return
    PROVE  MapInv'
  <1>1. stack # <<>> /\ stack' = Tail(stack) /\ Dug(stack, Holed)
    BY DEF Return, MapInv, Dugout
  <1>2. UNCHANGED <<seed, drawn, at, tiles, aim, struck, wall_tiles, walled>>
    BY DEF Return, vars
  <1>3. Holed' = Holed /\ Strikes' = Strikes /\ TypeOK'
    BY <1>2 DEF Holed, Strikes, TypeOK, MapInv
  <1>4. Dug(stack', Holed')
    BY <1>1, <1>3, DugReturn
  <1>5. at = MapWidth * MapHeight /\ ~walled
    BY <1>1 DEF MapInv, Prepared, WallsMade
  <1> QED
    BY <1>2, <1>3, <1>4, <1>5 DEF MapInv, Prepared, Dugout, Cratered, WallsMade

LEMMA WallStep ==
    ASSUME MapInv, Wall
    PROVE  MapInv'
  <1>1. UNCHANGED <<seed, drawn, at, tiles, aim, struck, stack>> /\ stack = <<>>
        /\ at = MapWidth * MapHeight
    BY DEF Wall, vars, Idle
  <1>2. Holed' = Holed /\ Strikes' = Strikes /\ TypeOK'
    BY <1>1 DEF Holed, Strikes, TypeOK, MapInv
  <1>3. wall_tiles' = [t \in Tiles |-> Walls(t)']
    <2>1. \A t \in Tiles : Walls(t)' = Walls(t)
      BY <1>1 DEF Walls
    <2> QED
      BY <2>1 DEF Wall
  <1> QED
    BY <1>1, <1>2, <1>3 DEF MapInv, Prepared, Dugout, Cratered, WallsMade

LEMMA MapInvStep == MapInv /\ [OverworldGen \/ Done]_<<vars, mapVars>> => MapInv'
  <1> SUFFICES ASSUME MapInv, [OverworldGen \/ Done]_<<vars, mapVars>> PROVE MapInv'
    OBVIOUS
  <1>1. CASE UNCHANGED <<vars, mapVars>>
    <2>1. UNCHANGED <<seed, drawn, at, tiles, aim, struck, stack, wall_tiles, walled>>
      BY <1>1 DEF vars, mapVars
    <2>2. Holed' = Holed /\ Strikes' = Strikes /\ TypeOK'
      BY <2>1 DEF Holed, Strikes, TypeOK, MapInv
    <2>3. \A t \in Tiles : Walls(t)' = Walls(t)
      BY <2>1 DEF Walls
    <2>4. WallsMade'
      BY <2>1, <2>3 DEF MapInv, WallsMade
    <2> QED
      BY <2>1, <2>2, <2>4 DEF MapInv, Prepared, Dugout, Cratered
  <1> QED
    BY <1>1, FillStep, AimStep, StrikeStep, DigAroundStep, ReturnStep, WallStep
       DEF OverworldGen, Done

LEMMA MapInvariance == MapSpec => []MapInv
  BY MapInvInit, MapInvStep, PTL DEF MapSpec

-----------------------------------------------------------------------------
(* Craters, which are found by going on from the strikes as often as there *)
(* are tiles.                                                              *)

LEMMA TilesFinite ==
    IsFiniteSet(Tiles) /\ Cardinality(Tiles) \in Nat
  <1>1. MapWidth * MapHeight \in Nat
    BY OverworldAssumption, Z3
  <1>2. 0 \in Int /\ MapWidth * MapHeight - 1 \in Int
    BY <1>1
  <1>3. IsFiniteSet(Tiles)
    BY <1>2, FS_Interval, Zenon DEF Tiles
  <1> QED
    BY <1>3, FS_CardinalityType

Next(holes, U) == U \union {t \in holes : \E s \in U : Near(s, t)}

\* Going on either adds a tile or has come to an end.
LEMMA GrowsOrCloses ==
    ASSUME NEW holes \in SUBSET Tiles, NEW U \in SUBSET Tiles, NEW n \in Nat,
           Cardinality(U) >= n \/ ClosedIn(U, holes)
    PROVE  Cardinality(Next(holes, U)) >= n + 1 \/ ClosedIn(Next(holes, U), holes)
  <1>1. CASE ClosedIn(U, holes)
    <2>1. Next(holes, U) = U
      BY <1>1 DEF Next, ClosedIn
    <2> QED
      BY <1>1, <2>1
  <1>2. CASE ~ClosedIn(U, holes)
    <2>1. PICK s \in U, t \in holes : Near(s, t) /\ t \notin U
      BY <1>2 DEF ClosedIn
    <2>2. IsFiniteSet(U) /\ IsFiniteSet(Next(holes, U)) /\ U \union {t} \subseteq Next(holes, U)
      <3>1. Next(holes, U) \in SUBSET Tiles /\ U \union {t} \subseteq Next(holes, U)
        BY <2>1 DEF Next
      <3> QED
        BY <3>1, TilesFinite, FS_Subset
    <2>3. Cardinality(U \union {t}) = Cardinality(U) + 1 /\ IsFiniteSet(U \union {t})
      BY <2>1, <2>2, FS_AddElement
    <2>4. Cardinality(U \union {t}) <= Cardinality(Next(holes, U))
      BY <2>2, FS_Subset
    <2>5. Cardinality(U) \in Nat /\ Cardinality(Next(holes, U)) \in Nat
      BY <2>2, FS_CardinalityType
    <2> QED
      BY <1>2, <2>3, <2>4, <2>5
  <1> QED
    BY <1>1, <1>2

LEMMA HolesAreCraters ==
    ASSUME MapInv
    PROVE  Holed = Craters
  <1>1. PICK holes \in SUBSET Tiles, from \in SUBSET Tiles :
            holes = Holed /\ from = Strikes /\ from \subseteq holes /\ Spread(holes, from)
    BY DEF MapInv, Cratered, Holed
  <1>2. PICK N \in Nat : N = Cardinality(Tiles)
    BY TilesFinite
  <1> DEFINE S == SUBSET Tiles
             F == [p \in S \X (1 .. N) |-> Next(holes, p[1])]
             body(f) == [n \in 0 .. N |->
                           IF n = 0 THEN from
                           ELSE LET sofar == f[n - 1]
                                IN  sofar \union {t \in holes : \E s \in sofar : Near(s, t)}]
             reached == CHOOSE f : f = body(f)
  <1>3. Craters = reached[N]
    BY <1>1, <1>2, Zenon DEF Craters, Strikes
  <1>4. \A U \in S : Next(holes, U) \in S
    BY DEF Next
  <1> HIDE DEF S
  <1>5. F \in [S \X (1 .. N) -> S] /\ from \in S
    BY <1>4 DEF S
  <1>6. \A U \in S, n \in 1 .. N : F[<<U, n>>] = Next(holes, U)
    OBVIOUS
  <1> HIDE DEF F
  <1>7. PICK f \in [0 .. N -> S] : f[0] = from /\ \A k \in 1 .. N : f[k] = F[<<f[k - 1], k>>]
    <2>1. RecursiveIn(S, N, from, F)
      BY <1>5, Recursion
    <2> QED
      BY <2>1, Zenon DEF RecursiveIn, Recurses
  <1>8. f = body(f)
    <2>1. ASSUME NEW k \in 1 .. N PROVE f[k] = Next(holes, f[k - 1])
      <3>1. f[k - 1] \in S
        OBVIOUS
      <3>2. F[<<f[k - 1], k>>] = Next(holes, f[k - 1])
        BY <1>6, <3>1
      <3> QED
        BY <1>7, <3>2
    <2>2. \A k \in 0 .. N : f[k] = body(f)[k]
      <3> TAKE k \in 0 .. N
      <3>1. CASE k = 0
        BY <1>7, <3>1, Zenon
      <3>2. CASE k # 0
        <4>1. k \in 1 .. N
          BY <3>2
        <4> QED
          BY <2>1, <3>2, <4>1, Zenon DEF Next
      <3> QED
        BY <3>1, <3>2
    <2> HIDE DEF body
    <2>3. body(f) = [k \in 0 .. N |-> body(f)[k]] /\ f = [k \in 0 .. N |-> f[k]]
      BY Zenon DEF body
    <2> QED
      BY <2>2, <2>3, Zenon
  <1>9. reached = body(reached)
    BY <1>8, Zenon
  <1>10. PICK g : g = reached
    OBVIOUS
  <1>11. g = body(g)
    <2> HIDE DEF body, reached
    <2> QED
      BY <1>9, <1>10, Zenon
  <1>12. g[0] = from /\ \A k \in 1 .. N : g[k] = Next(holes, g[k - 1])
    <2>1. 0 \in 0 .. N /\ \A k \in 1 .. N : k \in 0 .. N /\ k # 0
      OBVIOUS
    <2> QED
      BY <1>11, <2>1, Zenon DEF Next
  <1> HIDE DEF body, reached
  <1>13. \A k \in 0 .. N : g[k] \in S
    <2>1. g[0] \in S /\ \A k \in 1 .. N : g[k - 1] \in S => g[k] = F[<<g[k - 1], k>>]
      BY <1>5, <1>6, <1>12
    <2> QED
      BY <1>5, <2>1, RecursionStays, Zenon
  <1> DEFINE D == {n \in 0 .. N : /\ from \subseteq g[n] /\ g[n] \subseteq holes
                                  /\ Cardinality(g[n]) >= n \/ ClosedIn(g[n], holes)}
  <1>14. 0 \in D
    <2>1. g[0] = from /\ 0 \in 0 .. N
      BY <1>12
    <2>2. Cardinality(from) >= 0
      <3>1. IsFiniteSet(from)
        BY TilesFinite, FS_Subset
      <3> QED
        BY <3>1, FS_CardinalityType
    <2> QED
      BY <1>1, <2>1, <2>2
  <1>15. ASSUME NEW n \in 0 .. N - 1, n \in D PROVE n + 1 \in D
    <2>1. n + 1 \in 1 .. N /\ n + 1 \in 0 .. N /\ (n + 1) - 1 = n /\ n \in Nat /\ n \in 0 .. N
      OBVIOUS
    <2>2. g[n + 1] = Next(holes, g[n]) /\ g[n] \in SUBSET Tiles
      BY <1>12, <1>13, <2>1 DEF S
    <2>3. from \subseteq g[n + 1] /\ g[n + 1] \subseteq holes
      BY <1>15, <2>2 DEF Next
    <2>4. Cardinality(g[n + 1]) >= n + 1 \/ ClosedIn(g[n + 1], holes)
      BY <1>15, <2>1, <2>2, GrowsOrCloses
    <2> QED
      BY <2>1, <2>3, <2>4
  <1>16. N \in D
    <2> HIDE DEF D
    <2>1. 0 .. N \subseteq D
      BY <1>14, <1>15, BoundedInduction
    <2> QED
      BY <2>1
  <1>17. PICK U \in SUBSET Tiles : U = g[N]
    BY <1>13 DEF S
  <1>18. ClosedIn(U, holes)
    <2>1. CASE Cardinality(U) >= N
      <3>1. Cardinality(U) <= Cardinality(Tiles) /\ IsFiniteSet(U)
        BY TilesFinite, FS_Subset
      <3>2. Cardinality(U) = Cardinality(Tiles)
        <4>1. Cardinality(U) \in Nat
          BY <3>1, FS_CardinalityType
        <4> QED
          BY <1>2, <2>1, <3>1, <4>1
      <3>3. U = Tiles
        BY <3>2, TilesFinite, FS_Subset
      <3> QED
        BY <3>3 DEF ClosedIn
    <2> QED
      BY <1>16, <1>17, <2>1
  <1>19. holes \subseteq U
    BY <1>1, <1>16, <1>17, <1>18 DEF Spread
  <1>20. Holed = g[N]
    BY <1>1, <1>16, <1>17, <1>19
  <1> QED
    BY <1>3, <1>10, <1>20, Zenon

-----------------------------------------------------------------------------
(* The walls.                                                              *)

Off(t) == X(t) \in 1 .. MapWidth - 2 /\ Y(t) \in 1 .. MapHeight - 2

LEMMA WallsOf ==
    ASSUME NEW t \in Tiles, Off(t)
    PROVE  /\ 2 \in Walls(t) <=> tiles[t] = 0 /\ tiles[t + MapWidth] # 0
           /\ 4 \in Walls(t) <=> tiles[t] = 0 /\ tiles[t + 1] # 0
           /\ 8 \in Walls(t) <=> tiles[t] = 0 /\ tiles[t - MapWidth] # 0
           /\ 16 \in Walls(t) <=> tiles[t] = 0 /\ tiles[t - 1] # 0
  <1> DEFINE beside(b) == CASE b = 2 -> t + MapWidth [] b = 4 -> t + 1
                            [] b = 8 -> t - MapWidth [] b = 16 -> t - 1
  <1>1. Walls(t) = IF tiles[t] = 0 THEN {b \in {2, 4, 8, 16} : tiles[beside(b)] # 0} ELSE {}
    BY Zenon DEF Walls, Off
  <1>2. /\ beside(2) = t + MapWidth /\ beside(4) = t + 1
        /\ beside(8) = t - MapWidth /\ beside(16) = t - 1
    OBVIOUS
  <1> HIDE DEF beside
  <1> QED
    BY <1>1, <1>2

LEMMA EdgesWalled ==
    ASSUME MapInv, walled, NEW s \in Tiles, NEW t \in Tiles
    PROVE  WalledAtEdge(s, t)
  <1> DEFINE Side(low, high) == {b \in {low} : b \in wall_tiles[s]} \union
                                {b \in {high} : b \in wall_tiles[t]}
             Between == IF Y(s) = Y(t) /\ X(t) = X(s) + 1 THEN Side(4, 16)
                        ELSE IF X(s) = X(t) /\ Y(t) = Y(s) + 1 THEN Side(2, 8)
                        ELSE {}
             Beside == X(t) + Y(t) = X(s) + Y(s) + 1 /\ Near(s, t)
  <1>1. SUFFICES ASSUME Off(s), Off(t), Beside
                 PROVE  Cardinality(Between) = IF s \in Holed <=> t \in Holed THEN 0 ELSE 1
    BY Zenon DEF WalledAtEdge, Off
  <1>2. wall_tiles[s] = Walls(s) /\ wall_tiles[t] = Walls(t)
    BY DEF MapInv, WallsMade
  <1>3. /\ X(s) \in Int /\ Y(s) \in Int /\ Index(X(s), Y(s)) = s
        /\ X(t) \in Int /\ Y(t) \in Int /\ Index(X(t), Y(t)) = t
    BY RowAndColumn
  <1>4. \/ Y(s) = Y(t) /\ X(t) = X(s) + 1
        \/ X(s) = X(t) /\ Y(t) = Y(s) + 1
    BY <1>1, <1>3 DEF Near
  <1>5. (s \in Holed <=> tiles[s] = 0) /\ (t \in Holed <=> tiles[t] = 0)
    BY DEF Holed
  <1>6. s \in Int /\ t \in Int /\ MapWidth \in Int
    BY OverworldAssumption DEF Tiles
  <1>7. \A low, high : Cardinality(Side(low, high)) =
            IF low \in wall_tiles[s]
            THEN IF high \in wall_tiles[t] THEN Cardinality({low, high}) ELSE 1
            ELSE IF high \in wall_tiles[t] THEN 1 ELSE 0
    <2> TAKE low, high
    <2>1. Side(low, high) = IF low \in wall_tiles[s]
                            THEN IF high \in wall_tiles[t] THEN {low, high} ELSE {low}
                            ELSE IF high \in wall_tiles[t] THEN {high} ELSE {}
      OBVIOUS
    <2>2. Cardinality({low}) = 1 /\ Cardinality({high}) = 1 /\ Cardinality({}) = 0
      BY FS_Singleton, FS_EmptySet
    <2> HIDE DEF Side
    <2> QED
      BY <2>1, <2>2
  <1>8. CASE Y(s) = Y(t) /\ X(t) = X(s) + 1
    <2>1. t = s + 1 /\ t - 1 = s
      <3>1. Y(s) * MapWidth \in Int
        BY <1>3, <1>6, Z3
      <3> QED
        BY <1>3, <1>6, <1>8, <3>1 DEF Index
    <2>2. /\ 4 \in wall_tiles[s] <=> s \in Holed /\ t \notin Holed
          /\ 16 \in wall_tiles[t] <=> t \in Holed /\ s \notin Holed
      BY <1>1, <1>2, <1>5, <2>1, WallsOf
    <2>3. Between = Side(4, 16)
      BY <1>8
    <2> HIDE DEF Side, Between
    <2> QED
      BY <1>7, <2>2, <2>3
  <1>9. CASE X(s) = X(t) /\ Y(t) = Y(s) + 1
    <2>1. t = s + MapWidth /\ t - MapWidth = s
      <3>1. Y(s) * MapWidth \in Int /\ (Y(s) + 1) * MapWidth = Y(s) * MapWidth + MapWidth
        BY <1>3, <1>6, Z3
      <3> QED
        BY <1>3, <1>6, <1>9, <3>1 DEF Index
    <2>2. /\ 2 \in wall_tiles[s] <=> s \in Holed /\ t \notin Holed
          /\ 8 \in wall_tiles[t] <=> t \in Holed /\ s \notin Holed
      BY <1>1, <1>2, <1>5, <2>1, WallsOf
    <2>3. Between = Side(2, 8)
      BY <1>3, <1>9
    <2> HIDE DEF Side, Between
    <2> QED
      BY <1>7, <2>2, <2>3
  <1> QED
    BY <1>4, <1>8, <1>9

-----------------------------------------------------------------------------
(* The theorems.                                                           *)

\* The state of the generator stays an unsigned int while the map is made.
THEOREM MapTypeCorrect == MapSpec => []TypeOK
  BY MapInvariance, PTL DEF MapInv

\* Nor does do_rand overflow there.
THEOREM MapNeverOverflows == MapSpec => []FitsLong
  BY MapTypeCorrect, DrawFits, PTL

\* All numbers of map_gen.c are taken from the one sequence, none is left out.
THEOREM MapMultiplies == MapSpec => Lehmer
  <1>1. [OverworldGen \/ Done]_<<vars, mapVars>> =>
            [LET next == (Multiplier * seed) % Modulus
             IN  seed \in Sequence => seed' = next /\ next # 0]_vars
    <2> SUFFICES ASSUME [OverworldGen \/ Done]_<<vars, mapVars>>
                 PROVE  \/ seed \in Sequence =>
                               /\ seed' = (Multiplier * seed) % Modulus
                               /\ (Multiplier * seed) % Modulus # 0
                        \/ UNCHANGED vars
      BY Zenon
    <2>1. DoRand \/ UNCHANGED vars
      BY DEF OverworldGen, Done, Fill, Aim, Strike, DigAround, Return, Wall, vars
    <2> QED
      BY <2>1, DrawMultiplies
  <1> QED
    BY <1>1, PTL DEF MapSpec, Lehmer

\* dig calls itself only on a hole it has made: the calls under way are about
\* different holes, on a map of any size.
THEOREM CallsAreDug == MapSpec => []CallsDug
  <1>1. MapInv => CallsDug
    <2> SUFFICES ASSUME MapInv PROVE CallsDug
      OBVIOUS
    <2>1. Dug(stack, Holed)
      BY DEF MapInv, Dugout
    <2>2. \A i \in 1 .. Len(stack) : Inside(stack[i].x, stack[i].y)
      <3> TAKE i \in 1 .. Len(stack)
      <3>1. PICK c \in Calls : c = stack[i]
        <4>1. \A s \in Seq(Calls) : \A n \in 1 .. Len(s) : s[n] \in Calls
          OBVIOUS
        <4>2. stack[i] \in Calls
          BY <2>1, <4>1, Zenon DEF Dug
        <4> QED
          BY <4>2
      <3> QED
        BY <3>1 DEF Calls, Inside
    <2> QED
      BY <2>1, <2>2 DEF Dug, CallsDug
  <1> QED
    BY <1>1, MapInvariance, PTL

\* The holes are the tiles that were struck and what dig reached from there, tile
\* by tile; and the walls stand where they meet the grass.
THEOREM CratersAreWalled == MapSpec => []CratersWalled
  <1>1. MapInv => CratersWalled
    BY HolesAreCraters, EdgesWalled DEF CratersWalled
  <1> QED
    BY <1>1, MapInvariance, PTL
=============================================================================
