--------------------------- MODULE SocketsProofs ---------------------------
(***************************************************************************)
(* The sockets, for any number of clients, any sizes of the buffer, of the *)
(* header and of the messages, and however send and recv divide the bytes. *)
(***************************************************************************)
EXTENDS Sockets, TLAPS, SequenceTheorems, FiniteSetTheorems

-----------------------------------------------------------------------------
(* Numbers, and induction over them, in a form that speaks of sets and not *)
(* of predicates.                                                          *)

LEMMA DivMod ==
    ASSUME NEW s \in Nat, NEW q \in Nat \ {0}
    PROVE  /\ s \div q \in Nat
           /\ s % q \in 0 .. q - 1
           /\ s = q * (s \div q) + (s % q)
  <1>1. s \div q \in Int /\ s % q \in 0 .. q - 1
    BY SMT
  <1>2. s = q * (s \div q) + (s % q)
    BY Z3
  <1>3. s \div q >= 0
    BY Z3
  <1> QED BY <1>1, <1>2, <1>3, SMT

LEMMA LeastNatural ==
    ASSUME NEW T \in SUBSET Nat, T # {}
    PROVE  \E n \in T : \A m \in T : n <= m
  <1>1. PICK n \in T : \A m \in T : ~(<<m, n>> \in OpToRel(<, Nat))
    BY NatLessThanWellFounded, WFMin, Zenon
  <1>2. \A m \in T : ~(m < n)
    BY <1>1 DEF OpToRel
  <1>3. \A m \in T : n <= m
    BY <1>2
  <1> QED
    BY <1>3

\* Up to a bound.
LEMMA BoundedInduction ==
    ASSUME NEW N \in Nat, NEW S, 0 \in S, \A n \in 0 .. N - 1 : n \in S => n + 1 \in S
    PROVE  0 .. N \subseteq S
  <1> DEFINE T == {n \in 0 .. N : n \notin S}
  <1>1. SUFFICES ASSUME T # {} PROVE FALSE
    OBVIOUS
  <1>2. PICK n \in T : \A m \in T : n <= m
    <2>1. T \in SUBSET Nat
      OBVIOUS
    <2> HIDE DEF T
    <2> QED
      BY <1>1, <2>1, LeastNatural
  <1>3. n # 0 /\ n - 1 \in 0 .. N - 1 /\ ~(n <= n - 1)
    OBVIOUS
  <1>4. n - 1 \in S /\ (n - 1) + 1 = n
    BY <1>2, <1>3
  <1> QED
    BY <1>3, <1>4

\* f is the function that starts with first and goes on by F.
Recurses(f, N, first, F) ==
    f[0] = first /\ \A k \in 1 .. N : f[k] = F[<<f[k - 1], k>>]

RecursiveIn(S, N, first, F) == \E f \in [0 .. N -> S] : Recurses(f, N, first, F)

\* Such a function exists, and stays in the set it starts in.
LEMMA Recursion ==
    ASSUME NEW N \in Nat, NEW S, NEW first \in S, NEW F \in [S \X (1 .. N) -> S]
    PROVE  RecursiveIn(S, N, first, F)
  <1> DEFINE UpTo(n) == {f \in [0 .. n -> S] : /\ f[0] = first
                                               /\ \A k \in 1 .. n : f[k] = F[<<f[k - 1], k>>]}
             D == {n \in 0 .. N : UpTo(n) # {}}
  <1>1. 0 \in D
    <2> DEFINE f == [k \in 0 .. 0 |-> first]
    <2>1. f \in [0 .. 0 -> S] /\ f[0] = first
      OBVIOUS
    <2>2. \A k \in 1 .. 0 : f[k] = F[<<f[k - 1], k>>]
      OBVIOUS
    <2> HIDE DEF f
    <2> QED
      BY <2>1, <2>2
  <1>2. ASSUME NEW n \in 0 .. N - 1, n \in D PROVE n + 1 \in D
    <2>1. PICK f \in [0 .. n -> S] : f[0] = first /\ \A k \in 1 .. n : f[k] = F[<<f[k - 1], k>>]
      BY <1>2
    <2> DEFINE g == [k \in 0 .. n + 1 |-> IF k <= n THEN f[k] ELSE F[<<f[n], n + 1>>]]
    <2>2. F[<<f[n], n + 1>>] \in S
      OBVIOUS
    <2>3. g \in [0 .. n + 1 -> S]
      BY <2>2
    <2>4. g[0] = first
      BY <2>1
    <2>5. ASSUME NEW k \in 1 .. n + 1 PROVE g[k] = F[<<g[k - 1], k>>]
      <3>1. CASE k <= n
        BY <3>1, <2>1
      <3>2. CASE k = n + 1
        BY <3>2
      <3> QED
        BY <3>1, <3>2
    <2> HIDE DEF g
    <2>6. g \in UpTo(n + 1) /\ n + 1 \in 0 .. N
      BY <2>3, <2>4, <2>5
    <2> QED
      BY <2>6
  <1> HIDE DEF D
  <1>3. N \in D
    BY <1>1, <1>2, BoundedInduction
  <1> QED
    BY <1>3 DEF D, RecursiveIn, Recurses

-----------------------------------------------------------------------------
(* Sequences.                                                              *)

\* SubSeq by its elements, without a detour over the empty sequence.
LEMMA SubSeqIs ==
    ASSUME NEW S, NEW s \in Seq(S), NEW m \in Nat \ {0}, NEW n \in 0 .. Len(s)
    PROVE  /\ SubSeq(s, m, n) \in Seq(S)
           /\ Len(SubSeq(s, m, n)) = IF m <= n THEN n - m + 1 ELSE 0
           /\ \A i \in 1 .. n - m + 1 : SubSeq(s, m, n)[i] = s[m + i - 1]
  <1>1. CASE m <= n
    BY <1>1, SubSeqProperties
  <1>2. CASE m > n
    <2>1. SubSeq(s, m, n) = <<>>
      BY <1>2, SubSeqEmpty
    <2> QED
      BY <1>2, <2>1
  <1> QED
    BY <1>1, <1>2

Associates(S) ==
    \A a, b \in Seq(S), e \in S :
        /\ a \o b \in Seq(S) /\ Append(b, e) \in Seq(S)
        /\ Append(a \o b, e) = a \o Append(b, e)

LEMMA AppendAssociates == ASSUME NEW S PROVE Associates(S)
  BY DEF Associates

LEMMA Divide ==
    ASSUME NEW S, NEW s \in Seq(S), NEW n \in 0 .. Len(s)
    PROVE  /\ SubSeq(s, 1, n) \in Seq(S) /\ SubSeq(s, n + 1, Len(s)) \in Seq(S)
           /\ SubSeq(s, 1, n) \o SubSeq(s, n + 1, Len(s)) = s
  <1> DEFINE a == SubSeq(s, 1, n)
             b == SubSeq(s, n + 1, Len(s))
  <1>1. /\ a \in Seq(S) /\ Len(a) = n /\ \A i \in 1 .. n : a[i] = s[i]
        /\ b \in Seq(S) /\ Len(b) = Len(s) - n /\ \A i \in 1 .. Len(s) - n : b[i] = s[n + i]
    BY SubSeqIs
  <1> HIDE DEF a, b
  <1>2. a \o b \in Seq(S) /\ Len(a \o b) = Len(s)
    <2>1. n + (Len(s) - n) = Len(s)
      OBVIOUS
    <2> QED
      BY <1>1, <2>1, ConcatProperties
  <1>3. ASSUME NEW i \in 1 .. Len(s) PROVE (a \o b)[i] = s[i]
    <2>1. CASE i <= n
      BY <1>1, <2>1
    <2>2. CASE ~(i <= n)
      <3>1. (a \o b)[i] = b[i - n] /\ i - n \in 1 .. Len(s) - n
        BY <1>1, <2>2
      <3>2. n + (i - n) = i
        OBVIOUS
      <3> QED
        BY <1>1, <3>1, <3>2
    <2> QED
      BY <2>1, <2>2
  <1>4. a \o b = s
    BY <1>2, <1>3, SeqEqual, Zenon
  <1> QED
    BY <1>1, <1>4 DEF a, b

\* A statement about sequences that holds of the empty one and, with a sequence,
\* of all that are longer by one element, holds of all.
LEMMA AppendInduction ==
    ASSUME NEW A, NEW P, <<>> \in P,
           \A s \in Seq(A), x \in A : s \in P => Append(s, x) \in P
    PROVE  Seq(A) \subseteq P
  <1> DEFINE N == {n \in Nat : \A s \in Seq(A) : Len(s) = n => s \in P}
  <1>1. 0 \in N
    <2>1. \A s \in Seq(A) : Len(s) = 0 => s = <<>>
      BY EmptySeq
    <2> QED
      BY <2>1
  <1>2. ASSUME NEW n \in Nat, n \in N PROVE n + 1 \in N
    <2> SUFFICES ASSUME NEW s \in Seq(A), Len(s) = n + 1 PROVE s \in P
      OBVIOUS
    <2>1. PICK t \in Seq(A), x \in A : s = Append(t, x)
      <3>1. s # <<>>
        OBVIOUS
      <3> QED
        BY <3>1, SequenceEmptyOrAppend
    <2>2. Len(t) = n
      BY <2>1
    <2> QED
      BY <1>2, <2>1, <2>2
  <1> HIDE DEF N
  <1>3. ASSUME NEW n \in Nat PROVE n \in N
    <2>1. 0 .. n \subseteq N
      BY <1>1, <1>2, BoundedInduction
    <2> QED
      BY <2>1
  <1>4. Nat \subseteq N
    BY <1>3
  <1> QED
    BY <1>4 DEF N

-----------------------------------------------------------------------------
(* Loops over a sequence: F leads from what there is to what there is with  *)
(* one element more.                                                       *)

Folds(f, F, first, s) ==
    /\ f = [k \in 0 .. Len(s) |-> f[k]]
    /\ f[0] = first /\ \A k \in 1 .. Len(s) : f[k] = F[<<f[k - 1], s[k]>>]

Fold(F, first, s) == (CHOOSE f : Folds(f, F, first, s))[Len(s)]

LEMMA FoldExists ==
    ASSUME NEW S, NEW B, NEW first \in S, NEW F \in [S \X B -> S], NEW s \in Seq(B)
    PROVE  \E f : Folds(f, F, first, s)
  <1> DEFINE N == Len(s)
             G == [p \in S \X (1 .. N) |-> F[<<p[1], s[p[2]]>>]]
  <1>1. N \in Nat
    OBVIOUS
  <1>2. G \in [S \X (1 .. N) -> S]
    OBVIOUS
  <1>3. \A t \in S, k \in 1 .. N : G[<<t, k>>] = F[<<t, s[k]>>]
    OBVIOUS
  <1> HIDE DEF G
  <1>4. PICK f \in [0 .. N -> S] : f[0] = first /\ \A k \in 1 .. N : f[k] = G[<<f[k - 1], k>>]
    <2>1. RecursiveIn(S, N, first, G)
      BY <1>1, <1>2, Recursion
    <2> QED
      BY <2>1 DEF RecursiveIn, Recurses
  <1>5. \A k \in 1 .. N : f[k] = F[<<f[k - 1], s[k]>>]
    <2> TAKE k \in 1 .. N
    <2>1. k - 1 \in 0 .. N
      BY <1>1
    <2> QED
      BY <1>3, <1>4, <2>1
  <1> QED
    BY <1>4, <1>5 DEF Folds

\* A loop that works like F wherever it gets to, does what F does.
Loops(f, S, F, first, s) ==
    /\ f[0] = first
    /\ \A k \in 1 .. Len(s) : f[k - 1] \in S => f[k] = F[<<f[k - 1], s[k]>>]

LEMMA FoldIs ==
    ASSUME NEW S, NEW B, NEW first \in S, NEW F \in [S \X B -> S], NEW s \in Seq(B),
           NEW f, Loops(f, S, F, first, s)
    PROVE  /\ f[Len(s)] = Fold(F, first, s)
           /\ \A k \in 0 .. Len(s) : f[k] \in S
  <1>1. PICK g : g = CHOOSE h : Folds(h, F, first, s)
    OBVIOUS
  <1>2. Folds(g, F, first, s)
    BY <1>1, FoldExists
  <1> DEFINE D == {k \in 0 .. Len(s) : f[k] = g[k] /\ f[k] \in S}
  <1>3. 0 \in D
    BY <1>2 DEF Folds, Loops
  <1>4. ASSUME NEW n \in 0 .. Len(s) - 1, n \in D PROVE n + 1 \in D
    <2>1. n + 1 \in 1 .. Len(s) /\ (n + 1) - 1 = n /\ s[n + 1] \in B
      OBVIOUS
    <2>2. f[n] = g[n] /\ f[n] \in S
      BY <1>4
    <2>3. f[n + 1] = F[<<f[n], s[n + 1]>>]
      BY <2>1, <2>2 DEF Loops
    <2>4. g[n + 1] = F[<<g[n], s[n + 1]>>]
      BY <1>2, <2>1 DEF Folds
    <2>5. F[<<f[n], s[n + 1]>>] \in S
      BY <2>1, <2>2
    <2>6. n + 1 \in 0 .. Len(s)
      BY <2>1
    <2> QED
      BY <2>2, <2>3, <2>4, <2>5, <2>6
  <1> HIDE DEF D
  <1>5. 0 .. Len(s) \subseteq D
    <2>1. Len(s) \in Nat
      OBVIOUS
    <2> QED
      BY <1>3, <1>4, <2>1, BoundedInduction
  <1>6. \A k \in 0 .. Len(s) : f[k] = g[k] /\ f[k] \in S
    BY <1>5 DEF D
  <1>7. Len(s) \in 0 .. Len(s)
    OBVIOUS
  <1> QED
    BY <1>1, <1>6, <1>7 DEF Fold

\* Nothing, and one element more.
GoesOn(F, first, S, B) ==
    /\ Fold(F, first, <<>>) = first
    /\ \A s \in Seq(B) : Fold(F, first, s) \in S
    /\ \A s \in Seq(B), x \in B : Fold(F, first, Append(s, x)) = F[<<Fold(F, first, s), x>>]

LEMMA FoldSteps ==
    ASSUME NEW S, NEW B, NEW first \in S, NEW F \in [S \X B -> S]
    PROVE  GoesOn(F, first, S, B)
  <1>1. ASSUME NEW s \in Seq(B)
        PROVE  \E f : /\ Folds(f, F, first, s) /\ Fold(F, first, s) = f[Len(s)]
                      /\ \A k \in 0 .. Len(s) : f[k] \in S
    <2>1. PICK f : f = CHOOSE h : Folds(h, F, first, s)
      OBVIOUS
    <2>2. Folds(f, F, first, s)
      BY <2>1, FoldExists
    <2>3. Loops(f, S, F, first, s)
      BY <2>2 DEF Folds, Loops
    <2>4. f[Len(s)] = Fold(F, first, s) /\ \A k \in 0 .. Len(s) : f[k] \in S
      BY <2>3, FoldIs, Zenon
    <2> QED
      BY <2>2, <2>4, Zenon
  <1>2. Fold(F, first, <<>>) = first
    <2>1. <<>> \in Seq(B) /\ Len(<<>>) = 0
      OBVIOUS
    <2>2. PICK f : Folds(f, F, first, <<>>) /\ Fold(F, first, <<>>) = f[0]
      BY <1>1, <2>1
    <2> QED
      BY <2>2 DEF Folds
  <1>3. ASSUME NEW s \in Seq(B) PROVE Fold(F, first, s) \in S
    <2>1. Len(s) \in 0 .. Len(s)
      OBVIOUS
    <2> QED
      BY <1>1, <2>1
  <1>4. ASSUME NEW s \in Seq(B), NEW x \in B
        PROVE  Fold(F, first, Append(s, x)) = F[<<Fold(F, first, s), x>>]
    <2> DEFINE t == Append(s, x)
    <2>1. t \in Seq(B) /\ Len(t) = Len(s) + 1 /\ t[Len(s) + 1] = x
          /\ \A k \in 1 .. Len(s) : t[k] = s[k]
      BY AppendProperties
    <2> HIDE DEF t
    <2>2. PICK f : /\ Folds(f, F, first, t) /\ Fold(F, first, t) = f[Len(t)]
                   /\ \A k \in 0 .. Len(t) : f[k] \in S
      BY <1>1, <2>1
    <2>3. f[Len(s) + 1] = F[<<f[Len(s)], x>>]
      <3>1. Len(s) + 1 \in 1 .. Len(t) /\ (Len(s) + 1) - 1 = Len(s)
        BY <2>1
      <3> QED
        BY <2>1, <2>2, <3>1 DEF Folds
    <2>4. Loops(f, S, F, first, s)
      <3>1. \A k \in 1 .. Len(s) : k \in 1 .. Len(t)
        BY <2>1
      <3> QED
        BY <2>1, <2>2, <3>1 DEF Folds, Loops
    <2>5. f[Len(s)] = Fold(F, first, s) /\ \A k \in 0 .. Len(s) : f[k] \in S
      BY <2>4, FoldIs, Zenon
    <2>6. Fold(F, first, t) = F[<<Fold(F, first, s), x>>]
      BY <2>1, <2>2, <2>3, <2>5
    <2> QED
      BY <2>6 DEF t
  <1> QED
    BY <1>2, <1>3, <1>4 DEF GoesOn

-----------------------------------------------------------------------------
(* The loops of the module as folds.                                       *)


JoinF(A) == [p \in Seq(A) \X Seq(A) |-> p[1] \o p[2]]

LEMMA JoinedStays ==
    ASSUME NEW A
    PROVE  JoinF(A) \in [Seq(A) \X Seq(A) -> Seq(A)] /\ <<>> \in Seq(A)
  BY DEF JoinF


LEMMA JoinedFolds ==
    ASSUME NEW A, NEW seqs \in Seq(Seq(A))
    PROVE  Joined(seqs) = Fold(JoinF(A), <<>>, seqs)
  <1> DEFINE S == Seq(A)
             F == JoinF(A)
             body(f) == [i \in 0 .. Len(seqs) |->
                            IF i = 0 THEN <<>> ELSE f[i - 1] \o seqs[i]]
             upto == CHOOSE f : f = body(f)
  <1>1. Joined(seqs) = upto[Len(seqs)]
    BY Zenon DEF Joined
  <1>2. F \in [S \X Seq(A) -> S] /\ <<>> \in S
    BY JoinedStays
  <1>3. \A p \in S, x \in Seq(A) : F[<<p, x>>] = p \o x
    BY DEF JoinF
  <1> HIDE DEF F
  <1>4. PICK f : Folds(f, F, <<>>, seqs)
    BY <1>2, FoldExists
  <1>5. \A k \in 0 .. Len(seqs) : f[k] \in S
    <2>1. Loops(f, S, F, <<>>, seqs)
      BY <1>4 DEF Folds, Loops
    <2> HIDE DEF S
    <2>2. f[Len(seqs)] = Fold(F, <<>>, seqs) /\ \A k \in 0 .. Len(seqs) : f[k] \in S
      BY <1>2, <2>1, FoldIs, Zenon
    <2> QED
      BY <2>2
  <1> HIDE DEF S
  <1>6. \A k \in 1 .. Len(seqs) : f[k] = f[k - 1] \o seqs[k]
    <2> TAKE k \in 1 .. Len(seqs)
    <2>1. k - 1 \in 0 .. Len(seqs) /\ seqs[k] \in Seq(A)
      OBVIOUS
    <2> QED
      BY <1>3, <1>4, <1>5, <2>1 DEF Folds
  <1>7. f = body(f)
    BY <1>4, <1>6 DEF Folds
  <1> HIDE DEF body
  <1>8. upto = body(upto)
    BY <1>7, Zenon
  <1>9. Loops(upto, S, F, <<>>, seqs)
    <2>1. upto[0] = <<>>
      <3>1. 0 \in 0 .. Len(seqs)
        OBVIOUS
      <3> QED
        BY <1>8, <3>1 DEF body
    <2>2. ASSUME NEW k \in 1 .. Len(seqs), upto[k - 1] \in S
          PROVE  upto[k] = F[<<upto[k - 1], seqs[k]>>]
      <3>1. k \in 0 .. Len(seqs) /\ k # 0 /\ seqs[k] \in Seq(A)
        OBVIOUS
      <3>2. upto[k] = upto[k - 1] \o seqs[k]
        BY <1>8, <3>1 DEF body
      <3> QED
        BY <1>3, <2>2, <3>1, <3>2
    <2> QED
      BY <2>1, <2>2 DEF Loops
  <1> HIDE DEF upto
  <1>10. upto[Len(seqs)] = Fold(F, <<>>, seqs) /\ \A k \in 0 .. Len(seqs) : upto[k] \in S
    BY <1>2, <1>9, FoldIs, Zenon
  <1> QED
    BY <1>1, <1>10 DEF F

\* What is there after some bytes: a message that is not complete, and the others.
Groups(B) == [open : Seq(B), whole : Seq(Seq(B))]
NoGroup   == [open |-> <<>>, whole |-> <<>>]
GroupF(B) == [p \in Groups(B) \X B |-> Group(p[1], p[2])]

LEMMA GroupedStays ==
    ASSUME NEW B
    PROVE  GroupF(B) \in [Groups(B) \X B -> Groups(B)] /\ NoGroup \in Groups(B)
  <1>1. ASSUME NEW p \in Groups(B), NEW x \in B PROVE Group(p, x) \in Groups(B)
    <2>1. Append(p.open, x) \in Seq(B) /\ <<>> \in Seq(B)
      BY DEF Groups
    <2>2. Append(p.whole, Append(p.open, x)) \in Seq(Seq(B)) /\ p.whole \in Seq(Seq(B))
      BY <2>1 DEF Groups
    <2> QED
      BY <2>1, <2>2 DEF Groups, Group
  <1>2. GroupF(B) \in [Groups(B) \X B -> Groups(B)]
    BY <1>1 DEF GroupF
  <1>3. <<>> \in Seq(B) /\ <<>> \in Seq(Seq(B))
    OBVIOUS
  <1> QED
    BY <1>2, <1>3 DEF Groups, NoGroup


LEMMA GroupedFolds ==
    ASSUME NEW B, NEW bytes \in Seq(B)
    PROVE  Grouped(bytes) = Fold(GroupF(B), NoGroup, bytes)
  <1> DEFINE S == Groups(B)
             F == GroupF(B)
             first == NoGroup
             body(f) == [i \in 0 .. Len(bytes) |->
                            IF i = 0 THEN first ELSE Group(f[i - 1], bytes[i])]
             upto == CHOOSE f : f = body(f)
  <1>1. Grouped(bytes) = upto[Len(bytes)]
    BY Zenon DEF Grouped, NoGroup
  <1>2. F \in [S \X B -> S] /\ first \in S
    BY GroupedStays
  <1>3. \A p \in S, x \in B : F[<<p, x>>] = Group(p, x)
    BY DEF GroupF
  <1> HIDE DEF F, S, first
  <1>4. PICK f : Folds(f, F, first, bytes)
    BY <1>2, FoldExists
  <1>5. \A k \in 0 .. Len(bytes) : f[k] \in S
    <2>1. Loops(f, S, F, first, bytes)
      BY <1>4 DEF Folds, Loops
    <2>2. f[Len(bytes)] = Fold(F, first, bytes) /\ \A k \in 0 .. Len(bytes) : f[k] \in S
      BY <1>2, <2>1, FoldIs, Zenon
    <2> QED
      BY <2>2
  <1>6. \A k \in 1 .. Len(bytes) : f[k] = Group(f[k - 1], bytes[k])
    <2> TAKE k \in 1 .. Len(bytes)
    <2>1. k - 1 \in 0 .. Len(bytes) /\ bytes[k] \in B
      OBVIOUS
    <2> QED
      BY <1>3, <1>4, <1>5, <2>1 DEF Folds
  <1>7. f = body(f)
    <2>1. \A i \in 0 .. Len(bytes) : f[i] = IF i = 0 THEN first ELSE Group(f[i - 1], bytes[i])
      BY <1>4, <1>6 DEF Folds
    <2>2. f = [i \in 0 .. Len(bytes) |-> f[i]]
      BY <1>4 DEF Folds
    <2> QED
      BY <2>1, <2>2, Zenon
  <1> HIDE DEF body
  <1>8. upto = body(upto)
    BY <1>7, Zenon
  <1>9. Loops(upto, S, F, first, bytes)
    <2>1. upto[0] = first
      <3>1. 0 \in 0 .. Len(bytes)
        OBVIOUS
      <3> QED
        BY <1>8, <3>1 DEF body
    <2>2. ASSUME NEW k \in 1 .. Len(bytes), upto[k - 1] \in S
          PROVE  upto[k] = F[<<upto[k - 1], bytes[k]>>]
      <3>1. k \in 0 .. Len(bytes) /\ k # 0 /\ bytes[k] \in B
        OBVIOUS
      <3>2. upto[k] = Group(upto[k - 1], bytes[k])
        BY <1>8, <3>1 DEF body
      <3> QED
        BY <1>3, <2>2, <3>1, <3>2
    <2> QED
      BY <2>1, <2>2 DEF Loops
  <1> HIDE DEF upto
  <1>10. upto[Len(bytes)] = Fold(F, first, bytes) /\ \A k \in 0 .. Len(bytes) : upto[k] \in S
    BY <1>2, <1>9, FoldIs, Zenon
  <1> QED
    BY <1>1, <1>10, Zenon DEF F, first


\* What server_read has, as long as it is not lost: of a message that it knows
\* the size of, not all.
Readings ==
    {p \in [got : Seq(Bytes), messages : Seq(Seq(Bytes)), lost : BOOLEAN] :
        ~p.lost /\ Len(p.got) >= HeaderLen => Len(p.got) < HeaderLen + p.got[1].size}

FeedF == [p \in Readings \X Bytes |-> Feed(p[1], p[2])]

NoMessage(got) == [got |-> got, messages |-> <<>>, lost |-> FALSE]

CutInHeader(p) == [p EXCEPT !.lost = @ \/ Len(p.got) \in 1 .. HeaderLen - 1]

LEMMA ParsedStays ==
    ASSUME NEW got, IsBegun(got)
    PROVE  FeedF \in [Readings \X Bytes -> Readings] /\ NoMessage(got) \in Readings
  <1>1. ASSUME NEW p \in Readings, NEW x \in Bytes PROVE Feed(p, x) \in Readings
    <2>1. PICK g \in Seq(Bytes) : g = Append(p.got, x)
      <3>1. p.got \in Seq(Bytes)
        BY DEF Readings
      <3> QED
        BY <3>1, AppendProperties
    <2>2. g # <<>> /\ Len(g) = Len(p.got) + 1 /\ Len(p.got) \in Nat
          /\ g[1] = IF Len(p.got) = 0 THEN x ELSE p.got[1]
      BY <2>1 DEF Readings
    <2>3. Append(p.messages, g) \in Seq(Seq(Bytes)) /\ p.messages \in Seq(Seq(Bytes))
          /\ p.got \in Seq(Bytes) /\ p.lost \in BOOLEAN /\ <<>> \in Seq(Bytes)
      BY DEF Readings
    <2>4. g[1] \in Bytes /\ g[1].size \in Nat /\ HeaderLen \in Nat \ {0}
      <3>1. g[1] \in Bytes
        BY <2>2
      <3> QED
        BY <3>1, SocketsAssumption DEF Bytes
    <2>5. ~p.lost /\ Len(p.got) >= HeaderLen => Len(p.got) < HeaderLen + p.got[1].size
      BY DEF Readings
    <2>6. p = [got |-> p.got, messages |-> p.messages, lost |-> p.lost]
      BY DEF Readings
    <2>7. CASE Len(g) < HeaderLen \/ p.lost
      <3>1. Feed(p, x) = [got |-> g, messages |-> p.messages, lost |-> p.lost]
        BY <2>1, <2>6, <2>7 DEF Feed
      <3> QED
        BY <2>2, <2>3, <2>4, <2>7, <3>1 DEF Readings
    <2>8. CASE ~(Len(g) < HeaderLen \/ p.lost) /\ g[1].at # 1
      <3>1. Feed(p, x) = [got |-> p.got, messages |-> p.messages, lost |-> TRUE]
        BY <2>1, <2>6, <2>8 DEF Feed
      <3> QED
        BY <2>3, <3>1 DEF Readings
    <2>9. CASE ~(Len(g) < HeaderLen \/ p.lost) /\ g[1].at = 1 /\ Len(g) = HeaderLen + g[1].size
      <3>1. Feed(p, x) = [got |-> <<>>, messages |-> Append(p.messages, g), lost |-> p.lost]
        BY <2>1, <2>6, <2>9 DEF Feed
      <3> QED
        BY <2>3, <2>4, <3>1 DEF Readings
    <2>10. CASE ~(Len(g) < HeaderLen \/ p.lost) /\ g[1].at = 1 /\ Len(g) # HeaderLen + g[1].size
      <3>1. Feed(p, x) = [got |-> g, messages |-> p.messages, lost |-> p.lost]
        BY <2>1, <2>6, <2>10 DEF Feed
      <3>2. Len(g) < HeaderLen + g[1].size
        <4>1. CASE Len(p.got) = 0
          BY <2>2, <2>4, <2>10, <4>1
        <4>2. CASE Len(p.got) # 0 /\ Len(p.got) >= HeaderLen
          BY <2>2, <2>4, <2>5, <2>10, <4>2
        <4>3. CASE Len(p.got) # 0 /\ ~(Len(p.got) >= HeaderLen)
          BY <2>2, <2>4, <2>10, <4>3
        <4> QED
          BY <4>1, <4>2, <4>3
      <3> QED
        BY <2>2, <2>3, <2>4, <3>1, <3>2 DEF Readings
    <2> QED
      BY <2>7, <2>8, <2>9, <2>10
  <1>2. FeedF \in [Readings \X Bytes -> Readings]
    BY <1>1 DEF FeedF
  <1>3. NoMessage(got) \in Readings
    <2>1. got \in Seq(Bytes) /\ <<>> \in Seq(Seq(Bytes))
      BY DEF IsBegun
    <2>2. Len(got) >= HeaderLen => Len(got) < HeaderLen + got[1].size
      <3>1. got = <<>> => Len(got) = 0
        OBVIOUS
      <3> QED
        BY <3>1, SocketsAssumption DEF IsBegun
    <2> QED
      BY <2>1, <2>2 DEF Readings, NoMessage
  <1> QED
    BY <1>2, <1>3


LEMMA ParsedFolds ==
    ASSUME NEW got, IsBegun(got), NEW buf \in Seq(Bytes)
    PROVE  Parsed(got, buf) = CutInHeader(Fold(FeedF, NoMessage(got), buf))
  <1> DEFINE S == Readings
             F == FeedF
             first == NoMessage(got)
             body(f) == [i \in 0 .. Len(buf) |->
                            IF i = 0 THEN first ELSE Feed(f[i - 1], buf[i])]
             upto == CHOOSE f : f = body(f)
  <1>1. Parsed(got, buf) = CutInHeader(upto[Len(buf)])
    BY Zenon DEF Parsed, CutInHeader, NoMessage
  <1>2. F \in [S \X Bytes -> S] /\ first \in S
    BY ParsedStays
  <1>3. \A p \in S, x \in Bytes : F[<<p, x>>] = Feed(p, x)
    BY DEF FeedF
  <1> HIDE DEF F, S, first
  <1>4. PICK f : Folds(f, F, first, buf)
    BY <1>2, FoldExists
  <1>5. \A k \in 0 .. Len(buf) : f[k] \in S
    <2>1. Loops(f, S, F, first, buf)
      BY <1>4 DEF Folds, Loops
    <2>2. f[Len(buf)] = Fold(F, first, buf) /\ \A k \in 0 .. Len(buf) : f[k] \in S
      BY <1>2, <2>1, FoldIs, Zenon
    <2> QED
      BY <2>2
  <1>6. \A k \in 1 .. Len(buf) : f[k] = Feed(f[k - 1], buf[k])
    <2> TAKE k \in 1 .. Len(buf)
    <2>1. k - 1 \in 0 .. Len(buf) /\ buf[k] \in Bytes
      OBVIOUS
    <2> QED
      BY <1>3, <1>4, <1>5, <2>1 DEF Folds
  <1>7. f = body(f)
    <2>1. \A i \in 0 .. Len(buf) : f[i] = IF i = 0 THEN first ELSE Feed(f[i - 1], buf[i])
      BY <1>4, <1>6 DEF Folds
    <2>2. f = [i \in 0 .. Len(buf) |-> f[i]]
      BY <1>4 DEF Folds
    <2> QED
      BY <2>1, <2>2, Zenon
  <1> HIDE DEF body
  <1>8. upto = body(upto)
    BY <1>7, Zenon
  <1>9. Loops(upto, S, F, first, buf)
    <2>1. upto[0] = first
      <3>1. 0 \in 0 .. Len(buf)
        OBVIOUS
      <3> QED
        BY <1>8, <3>1 DEF body
    <2>2. ASSUME NEW k \in 1 .. Len(buf), upto[k - 1] \in S
          PROVE  upto[k] = F[<<upto[k - 1], buf[k]>>]
      <3>1. k \in 0 .. Len(buf) /\ k # 0 /\ buf[k] \in Bytes
        OBVIOUS
      <3>2. upto[k] = Feed(upto[k - 1], buf[k])
        BY <1>8, <3>1 DEF body
      <3> QED
        BY <1>3, <2>2, <3>1, <3>2
    <2> QED
      BY <2>1, <2>2 DEF Loops
  <1> HIDE DEF upto
  <1>10. upto[Len(buf)] = Fold(F, first, buf) /\ \A k \in 0 .. Len(buf) : upto[k] \in S
    BY <1>2, <1>9, FoldIs, Zenon
  <1> QED
    BY <1>1, <1>10, Zenon DEF F, first

-----------------------------------------------------------------------------
(* Chunks put together.                                                    *)

LEMMA JoinedIs ==
    ASSUME NEW A
    PROVE  /\ Joined(<<>>) = <<>>
           /\ \A s \in Seq(Seq(A)) : Joined(s) \in Seq(A)
           /\ \A s \in Seq(Seq(A)), x \in Seq(A) : Joined(Append(s, x)) = Joined(s) \o x
  <1>1. JoinF(A) \in [Seq(A) \X Seq(A) -> Seq(A)] /\ <<>> \in Seq(A)
    BY JoinedStays
  <1>2. /\ Fold(JoinF(A), <<>>, <<>>) = <<>>
        /\ \A s \in Seq(Seq(A)) : Fold(JoinF(A), <<>>, s) \in Seq(A)
        /\ \A s \in Seq(Seq(A)), x \in Seq(A) :
              Fold(JoinF(A), <<>>, Append(s, x)) = JoinF(A)[<<Fold(JoinF(A), <<>>, s), x>>]
    BY <1>1, FoldSteps, Zenon DEF GoesOn
  <1>3. \A s \in Seq(Seq(A)) : Joined(s) = Fold(JoinF(A), <<>>, s)
    BY JoinedFolds
  <1>4. \A p, x \in Seq(A) : JoinF(A)[<<p, x>>] = p \o x
    BY DEF JoinF
  <1>5. <<>> \in Seq(Seq(A)) /\ \A s \in Seq(Seq(A)), x \in Seq(A) : Append(s, x) \in Seq(Seq(A))
    BY AppendProperties
  <1>6. ASSUME NEW s \in Seq(Seq(A)), NEW x \in Seq(A) PROVE Joined(Append(s, x)) = Joined(s) \o x
    BY <1>2, <1>3, <1>4, <1>5, Zenon
  <1>7. Joined(<<>>) = <<>> /\ \A s \in Seq(Seq(A)) : Joined(s) \in Seq(A)
    BY <1>2, <1>3, <1>5, Zenon
  <1> QED
    BY <1>6, <1>7

LEMMA JoinedConcat ==
    ASSUME NEW A, NEW s \in Seq(Seq(A)), NEW t \in Seq(Seq(A))
    PROVE  Joined(s \o t) = Joined(s) \o Joined(t)
  <1> DEFINE P == {u \in Seq(Seq(A)) : Joined(s \o u) = Joined(s) \o Joined(u)}
  <1>1. <<>> \in P
    <2>1. s \o <<>> = s /\ Joined(s) \o <<>> = Joined(s)
      BY JoinedIs, ConcatEmptySeq
    <2> QED
      BY <2>1, JoinedIs
  <1>2. ASSUME NEW u \in Seq(Seq(A)), NEW x \in Seq(A), u \in P PROVE Append(u, x) \in P
    <2>1. s \o Append(u, x) = Append(s \o u, x) /\ s \o u \in Seq(Seq(A)) /\ Append(u, x) \in Seq(Seq(A))
      OBVIOUS
    <2>2. Joined(s \o Append(u, x)) = (Joined(s) \o Joined(u)) \o x
      BY <1>2, <2>1, JoinedIs, Zenon
    <2>3. (Joined(s) \o Joined(u)) \o x = Joined(s) \o (Joined(u) \o x)
      <3>1. Joined(s) \in Seq(A) /\ Joined(u) \in Seq(A)
        BY JoinedIs
      <3> QED
        BY <3>1, ConcatAssociative
    <2>4. Joined(Append(u, x)) = Joined(u) \o x
      BY JoinedIs
    <2> QED
      BY <2>1, <2>2, <2>3, <2>4
  <1> HIDE DEF P
  <1>3. Seq(Seq(A)) \subseteq P
    BY <1>1, <1>2, AppendInduction, Zenon
  <1> QED
    BY <1>3 DEF P

LEMMA JoinedHead ==
    ASSUME NEW A, NEW s \in Seq(Seq(A)), s # <<>>
    PROVE  /\ Head(s) \in Seq(A) /\ Tail(s) \in Seq(Seq(A)) /\ Joined(Tail(s)) \in Seq(A)
           /\ Joined(s) = Head(s) \o Joined(Tail(s))
  <1>1. /\ Head(s) \in Seq(A) /\ Tail(s) \in Seq(Seq(A)) /\ <<Head(s)>> \in Seq(Seq(A))
        /\ s = <<Head(s)>> \o Tail(s)
    BY HeadTailProperties
  <1>2. Joined(<<Head(s)>>) = Head(s)
    <2>1. <<Head(s)>> = Append(<<>>, Head(s)) /\ <<>> \in Seq(Seq(A))
      OBVIOUS
    <2>2. Joined(Append(<<>>, Head(s))) = Joined(<<>>) \o Head(s)
      BY <1>1, <2>1, JoinedIs
    <2> QED
      BY <1>1, <2>1, <2>2, JoinedIs, ConcatEmptySeq
  <1>3. Joined(s) = Joined(<<Head(s)>>) \o Joined(Tail(s))
    BY <1>1, JoinedConcat
  <1> QED
    BY <1>1, <1>2, <1>3, JoinedIs

-----------------------------------------------------------------------------
(* Messages that are grouped.                                              *)

LEMMA GroupedIs ==
    ASSUME NEW B
    PROVE  /\ Grouped(<<>>) = NoGroup
           /\ \A x \in Seq(B) : Grouped(x) \in Groups(B)
           /\ \A x \in Seq(B), e \in B : Grouped(Append(x, e)) = Group(Grouped(x), e)
  <1>1. GroupF(B) \in [Groups(B) \X B -> Groups(B)] /\ NoGroup \in Groups(B)
    BY GroupedStays
  <1>2. /\ Fold(GroupF(B), NoGroup, <<>>) = NoGroup
        /\ \A x \in Seq(B) : Fold(GroupF(B), NoGroup, x) \in Groups(B)
        /\ \A x \in Seq(B), e \in B :
              Fold(GroupF(B), NoGroup, Append(x, e)) = GroupF(B)[<<Fold(GroupF(B), NoGroup, x), e>>]
    <2>1. GoesOn(GroupF(B), NoGroup, Groups(B), B)
      BY <1>1, FoldSteps, Zenon
    <2> QED
      BY <2>1, Zenon DEF GoesOn
  <1>3. \A x \in Seq(B) : Grouped(x) = Fold(GroupF(B), NoGroup, x)
    BY GroupedFolds
  <1>4. \A p \in Groups(B), e \in B : GroupF(B)[<<p, e>>] = Group(p, e)
    BY DEF GroupF
  <1>5. <<>> \in Seq(B) /\ \A x \in Seq(B), e \in B : Append(x, e) \in Seq(B)
    BY AppendProperties
  <1>6. ASSUME NEW x \in Seq(B), NEW e \in B PROVE Grouped(Append(x, e)) = Group(Grouped(x), e)
    BY <1>2, <1>3, <1>4, <1>5, Zenon
  <1>7. Grouped(<<>>) = NoGroup /\ \A x \in Seq(B) : Grouped(x) \in Groups(B)
    BY <1>2, <1>3, <1>5, Zenon
  <1> QED
    BY <1>6, <1>7

\* One byte more.
LEMMA GroupedAppend ==
    ASSUME NEW B, NEW x \in Seq(B), NEW e \in B
    PROVE  /\ Grouped(x).open \in Seq(B) /\ Grouped(x).whole \in Seq(Seq(B))
           /\ Ends(e) => /\ Grouped(Append(x, e)).open = <<>>
                         /\ Grouped(Append(x, e)).whole
                               = Append(Grouped(x).whole, Append(Grouped(x).open, e))
           /\ ~Ends(e) => /\ Grouped(Append(x, e)).open = Append(Grouped(x).open, e)
                          /\ Grouped(Append(x, e)).whole = Grouped(x).whole
  <1>1. Grouped(x) \in Groups(B) /\ Grouped(Append(x, e)) = Group(Grouped(x), e)
    BY GroupedIs
  <1> QED
    BY <1>1 DEF Groups, Group

\* What is left begins behind the end of a message, and is no message.
LEMMA GroupedOpen ==
    ASSUME NEW B, NEW x \in Seq(B)
    PROVE  /\ Grouped(x).open \in Seq(B)
           /\ Grouped(Grouped(x).open) = [open |-> Grouped(x).open, whole |-> <<>>]
           /\ \E j \in Seq(B) : /\ x = j \o Grouped(x).open
                                /\ j # <<>> => Ends(j[Len(j)])
  <1> DEFINE Fine(y) == /\ Grouped(y).open \in Seq(B)
                        /\ Grouped(Grouped(y).open) = [open |-> Grouped(y).open, whole |-> <<>>]
                        /\ \E j \in Seq(B) : y = j \o Grouped(y).open /\ (j # <<>> => Ends(j[Len(j)]))
             P == {y \in Seq(B) : Fine(y)}
  <1>0. \A a, b \in Seq(B), e \in B : Append(a \o b, e) = a \o Append(b, e) /\ Append(b, e) \in Seq(B)
    OBVIOUS
  <1>1. <<>> \in P
    <2>1. Grouped(<<>>) = [open |-> <<>>, whole |-> <<>>]
      BY GroupedIs DEF NoGroup
    <2>2. Grouped(<<>>).open = <<>>
      BY <2>1
    <2>3. <<>> \in Seq(B) /\ <<>> = <<>> \o <<>>
      OBVIOUS
    <2> QED
      BY <2>1, <2>2, <2>3
  <1>2. ASSUME NEW y \in Seq(B), NEW e \in B, y \in P PROVE Append(y, e) \in P
    <2> DEFINE z == Append(y, e)
               o == Grouped(y).open
    <2>1. z \in Seq(B) /\ o \in Seq(B) /\ Grouped(o).open = o /\ Grouped(o).whole = <<>>
      BY <1>2, AppendProperties
    <2>5. /\ Ends(e) => Grouped(z).open = <<>>
          /\ ~Ends(e) => Grouped(z).open = Append(o, e)
      <3>1. Grouped(z) = Group(Grouped(y), e)
        BY GroupedIs
      <3> QED
        BY <3>1 DEF Group
    <2>6. ~Ends(e) => /\ Grouped(Append(o, e)).open = Append(Grouped(o).open, e)
                      /\ Grouped(Append(o, e)).whole = Grouped(o).whole
      <3> HIDE DEF o
      <3> QED
        BY <2>1, GroupedAppend
    <2>2. PICK j \in Seq(B) : y = j \o o /\ (j # <<>> => Ends(j[Len(j)]))
      BY <1>2
    <2>3. CASE Ends(e)
      <3>1. Grouped(z).open = <<>>
        BY <2>3, <2>5
      <3>2. Grouped(<<>>) = [open |-> <<>>, whole |-> <<>>]
        BY GroupedIs DEF NoGroup
      <3>3. z = z \o <<>> /\ z[Len(z)] = e
        OBVIOUS
      <3> HIDE DEF z
      <3>4. Fine(z)
        BY <2>1, <2>3, <3>1, <3>2, <3>3
      <3> QED
        BY <2>1, <3>4 DEF z
    <2>4. CASE ~Ends(e)
      <3>1. Grouped(z).open = Append(o, e)
        BY <2>4, <2>5
      <3>2. Grouped(Append(o, e)).open = Append(o, e) /\ Grouped(Append(o, e)).whole = <<>>
        BY <2>1, <2>4, <2>6
      <3>3. Append(o, e) \in Seq(B) /\ z = j \o Append(o, e)
        <4> HIDE DEF o
        <4>1. Append(j \o o, e) = j \o Append(o, e) /\ Append(o, e) \in Seq(B)
          BY <1>0, <2>1, Zenon
        <4>2. y = j \o o
          BY <2>2
        <4>3. Append(y, e) = Append(j \o o, e)
          BY <4>2
        <4> QED
          BY <4>1, <4>3
      <3>4. Grouped(Append(o, e)) = [open |-> Append(o, e), whole |-> <<>>]
        <4>1. Grouped(Append(o, e)) \in Groups(B)
          BY <3>3, GroupedIs
        <4> QED
          BY <3>2, <4>1 DEF Groups
      <3> HIDE DEF z, o
      <3>5. Fine(z)
        BY <2>2, <3>1, <3>3, <3>4
      <3> QED
        BY <2>1, <3>5 DEF z
    <2> QED
      BY <2>3, <2>4
  <1> HIDE DEF Fine
  <1>3. Seq(B) \subseteq P
    <2> HIDE DEF P
    <2> QED
      BY <1>1, <1>2, AppendInduction, Zenon
  <1> QED
    BY <1>3 DEF Fine

\* What was complete stays so, and the rest goes on from what was left.
LEMMA GroupedConcat ==
    ASSUME NEW B, NEW x \in Seq(B), NEW y \in Seq(B)
    PROVE  /\ Grouped(x \o y).open = Grouped(Grouped(x).open \o y).open
           /\ Grouped(x \o y).whole = Grouped(x).whole \o Grouped(Grouped(x).open \o y).whole
  <1>1. PICK o : o = Grouped(x).open
    OBVIOUS
  <1>2. PICK w : w = Grouped(x).whole
    OBVIOUS
  <1>0. Associates(B) /\ Associates(Seq(B))
    BY AppendAssociates
  <1>3. o \in Seq(B) /\ w \in Seq(Seq(B)) /\ Grouped(o).open = o /\ Grouped(o).whole = <<>>
    <2>1. Grouped(x).whole \in Seq(Seq(B))
      BY GroupedIs DEF Groups
    <2>2. o \in Seq(B) /\ Grouped(o) = [open |-> o, whole |-> <<>>]
      BY <1>1, GroupedOpen, Zenon
    <2> QED
      BY <1>2, <2>1, <2>2
  <1> DEFINE Fine(u) == /\ Grouped(x \o u).open = Grouped(o \o u).open
                        /\ Grouped(x \o u).whole = w \o Grouped(o \o u).whole
             P == {u \in Seq(B) : Fine(u)}
  <1>4. <<>> \in P
    <2>1. x \o <<>> = x /\ o \o <<>> = o /\ w \o <<>> = w
      BY <1>3, ConcatEmptySeq
    <2>2. Fine(<<>>)
      BY <1>1, <1>2, <1>3, <2>1, Zenon
    <2> QED
      BY <2>2
  <1>5. ASSUME NEW u \in Seq(B), NEW e \in B, u \in P PROVE Append(u, e) \in P
    <2>1. /\ x \o Append(u, e) = Append(x \o u, e) /\ Append(u, e) \in Seq(B)
          /\ o \o Append(u, e) = Append(o \o u, e)
      <3>1. Append(x \o u, e) = x \o Append(u, e) /\ Append(u, e) \in Seq(B)
        BY <1>0, Zenon DEF Associates
      <3>2. Append(o \o u, e) = o \o Append(u, e)
        <4>1. o \in Seq(B)
          BY <1>3
        <4> QED
          BY <1>0, <4>1, Zenon DEF Associates
      <3> QED
        BY <3>1, <3>2
    <2>2. PICK a \in Seq(B) : a = x \o u
      BY <1>0, Zenon DEF Associates
    <2>3. PICK b \in Seq(B) : b = o \o u
      BY <1>0, <1>3, Zenon DEF Associates
    <2>4. Grouped(a).open = Grouped(b).open /\ Grouped(a).whole = w \o Grouped(b).whole
      BY <1>5, <2>2, <2>3
    <2>5. Grouped(b).whole \in Seq(Seq(B)) /\ Grouped(b).open \in Seq(B)
      BY <2>3, GroupedIs DEF Groups
    <2>6. /\ Grouped(Append(a, e)) = Group(Grouped(a), e)
          /\ Grouped(Append(b, e)) = Group(Grouped(b), e)
      BY GroupedIs
    <2>7. /\ Grouped(Append(a, e)).open = Grouped(Append(b, e)).open
          /\ Grouped(Append(a, e)).whole = w \o Grouped(Append(b, e)).whole
      <3>1. CASE Ends(e)
        <4>1. /\ Grouped(Append(a, e)).open = <<>> /\ Grouped(Append(b, e)).open = <<>>
              /\ Grouped(Append(a, e)).whole = Append(Grouped(a).whole, Append(Grouped(a).open, e))
              /\ Grouped(Append(b, e)).whole = Append(Grouped(b).whole, Append(Grouped(b).open, e))
          <5>1. /\ Grouped(Append(a, e))
                      = [open |-> <<>>, whole |-> Append(Grouped(a).whole, Append(Grouped(a).open, e))]
                /\ Grouped(Append(b, e))
                      = [open |-> <<>>, whole |-> Append(Grouped(b).whole, Append(Grouped(b).open, e))]
            BY <2>6, <3>1, Zenon DEF Group
          <5>2. \A r, v : r = [open |-> <<>>, whole |-> v] => r.open = <<>> /\ r.whole = v
            OBVIOUS
          <5> QED
            BY <5>1, <5>2, Zenon
        <4>2. PICK m \in Seq(B) : m = Append(Grouped(b).open, e)
          BY <2>5, AppendProperties
        <4>3. Append(w \o Grouped(b).whole, m) = w \o Append(Grouped(b).whole, m)
          <5>1. PICK v \in Seq(Seq(B)) : v = Grouped(b).whole
            BY <2>5
          <5>2. w \in Seq(Seq(B))
            BY <1>3
          <5>3. Append(w \o v, m) = w \o Append(v, m)
            BY <1>0, <5>2, Zenon DEF Associates
          <5> QED
            BY <5>1, <5>3
        <4>4. Append(Grouped(a).open, e) = m
          BY <2>4, <4>2
        <4> QED
          BY <2>4, <4>1, <4>2, <4>3, <4>4, Zenon
      <3>2. CASE ~Ends(e)
        <4>1. /\ Grouped(Append(a, e)).open = Append(Grouped(a).open, e)
              /\ Grouped(Append(b, e)).open = Append(Grouped(b).open, e)
              /\ Grouped(Append(a, e)).whole = Grouped(a).whole
              /\ Grouped(Append(b, e)).whole = Grouped(b).whole
          BY <2>6, <3>2 DEF Group
        <4> QED
          BY <2>4, <4>1
      <3> QED
        BY <3>1, <3>2
    <2> QED
      BY <2>1, <2>2, <2>3, <2>7
  <1> HIDE DEF P
  <1>6. Seq(B) \subseteq P
    BY <1>4, <1>5, AppendInduction, Zenon
  <1> QED
    BY <1>1, <1>2, <1>6 DEF P

\* Nothing is left at the end of a message, and only there.
LEMMA GroupedEnd ==
    ASSUME NEW B, NEW x \in Seq(B)
    PROVE  Grouped(x).open = <<>> <=> (x # <<>> => Ends(x[Len(x)]))
  <1>1. CASE x = <<>>
    BY <1>1, GroupedIs DEF NoGroup
  <1>2. CASE x # <<>>
    <2>1. PICK y \in Seq(B), e \in B : x = Append(y, e)
      BY <1>2, SequenceEmptyOrAppend
    <2>2. x[Len(x)] = e
      BY <2>1
    <2>3. Grouped(x) = Group(Grouped(y), e) /\ Grouped(y) \in Groups(B)
      BY <2>1, GroupedIs
    <2>4. Append(Grouped(y).open, e) # <<>>
      <3>1. Grouped(y).open \in Seq(B)
        BY <2>3 DEF Groups
      <3> QED
        BY <3>1, AppendProperties
    <2> QED
      BY <1>2, <2>2, <2>3, <2>4 DEF Group
  <1> QED
    BY <1>1, <1>2

-----------------------------------------------------------------------------
(* The bytes of a way on which no send was cut short.                      *)

Follows(a, b) ==
    IF Ends(a) THEN b.at = 1 ELSE b.at = a.at + 1 /\ b.size = a.size

Orderly(x) ==
    /\ x # <<>> => x[1].at = 1
    /\ \A i \in 1 .. Len(x) - 1 : Follows(x[i], x[i + 1])

LEMMA OrderlyConcat ==
    ASSUME NEW B, NEW x \in Seq(B), NEW y \in Seq(B)
    PROVE  /\ Orderly(x \o y) => Orderly(x)
           /\ Orderly(x \o y) /\ (x # <<>> => Ends(x[Len(x)])) => Orderly(y)
           /\ Orderly(x) /\ Orderly(y) /\ (x # <<>> => Ends(x[Len(x)])) => Orderly(x \o y)
  <1>1. PICK m \in Nat : m = Len(x)
    OBVIOUS
  <1>2. PICK n \in Nat : n = Len(y)
    OBVIOUS
  <1>3. PICK z \in Seq(B) : z = x \o y
    BY ConcatProperties
  <1>4. /\ Len(z) = m + n /\ (z = <<>> <=> m + n = 0) /\ (x = <<>> <=> m = 0) /\ (y = <<>> <=> n = 0)
        /\ \A i \in 1 .. m : z[i] = x[i]
        /\ \A i \in 1 .. n : z[m + i] = y[i]
    BY <1>1, <1>2, <1>3
  <1>5. ASSUME Orderly(z) PROVE Orderly(x)
    <2>1. x # <<>> => x[1].at = 1
      BY <1>4, <1>5 DEF Orderly
    <2>2. ASSUME NEW i \in 1 .. m - 1 PROVE Follows(x[i], x[i + 1])
      <3>1. i \in 1 .. Len(z) - 1 /\ i \in 1 .. m /\ i + 1 \in 1 .. m
        BY <1>2, <1>4
      <3>2. Follows(z[i], z[i + 1])
        BY <1>5, <3>1 DEF Orderly
      <3> QED
        BY <1>4, <3>1, <3>2
    <2> QED
      BY <1>1, <2>1, <2>2 DEF Orderly
  <1>6. ASSUME Orderly(z), x # <<>> => Ends(x[m]) PROVE Orderly(y)
    <2>1. ASSUME y # <<>> PROVE y[1].at = 1
      <3>1. CASE m = 0
        BY <1>4, <1>6, <2>1, <3>1 DEF Orderly
      <3>2. CASE m > 0
        <4>1. Follows(z[m], z[m + 1]) /\ z[m] = x[m] /\ z[m + 1] = y[1]
          BY <1>4, <1>6, <2>1, <3>2 DEF Orderly
        <4> QED
          BY <1>4, <1>6, <3>2, <4>1 DEF Follows
      <3> QED
        BY <3>1, <3>2
    <2>2. ASSUME NEW i \in 1 .. n - 1 PROVE Follows(y[i], y[i + 1])
      <3>1. m + i \in 1 .. Len(z) - 1 /\ i \in 1 .. n /\ i + 1 \in 1 .. n /\ (m + i) + 1 = m + (i + 1)
        BY <1>4
      <3>2. Follows(z[m + i], z[(m + i) + 1])
        BY <1>6, <3>1 DEF Orderly
      <3> QED
        BY <1>4, <3>1, <3>2
    <2> QED
      BY <1>2, <2>1, <2>2 DEF Orderly
  <1>7. ASSUME Orderly(x), Orderly(y), x # <<>> => Ends(x[m]) PROVE Orderly(z)
    <2>1. ASSUME z # <<>> PROVE z[1].at = 1
      <3>1. CASE m = 0
        <4>1. y # <<>> /\ z[1] = y[1]
          BY <1>4, <2>1, <3>1
        <4> QED
          BY <1>7, <4>1 DEF Orderly
      <3>2. CASE m > 0
        BY <1>4, <1>7, <3>2 DEF Orderly
      <3> QED
        BY <3>1, <3>2
    <2>2. ASSUME NEW i \in 1 .. Len(z) - 1 PROVE Follows(z[i], z[i + 1])
      <3>1. CASE i < m
        <4>1. i \in 1 .. Len(x) - 1 /\ i \in 1 .. m /\ i + 1 \in 1 .. m
          BY <1>1, <3>1
        <4>2. Follows(x[i], x[i + 1])
          BY <1>7, <4>1 DEF Orderly
        <4> QED
          BY <1>4, <4>1, <4>2
      <3>2. CASE i = m
        <4>1. z[i] = x[m] /\ z[i + 1] = y[1] /\ y # <<>> /\ x # <<>>
          BY <1>4, <3>2
        <4> QED
          BY <1>7, <4>1 DEF Orderly, Follows
      <3>3. CASE i > m
        <4>1. i - m \in 1 .. n - 1 /\ i - m \in 1 .. n /\ (i - m) + 1 \in 1 .. n
              /\ m + (i - m) = i /\ m + ((i - m) + 1) = i + 1
          BY <1>4, <3>3
        <4>2. z[i] = y[i - m] /\ z[i + 1] = y[(i - m) + 1]
          BY <1>4, <4>1
        <4> QED
          BY <1>2, <1>7, <4>1, <4>2 DEF Orderly
      <3>4. i \in Int
        OBVIOUS
      <3> QED
        BY <3>1, <3>2, <3>3, <3>4
    <2> QED
      BY <2>1, <2>2 DEF Orderly
  <1> QED
    BY <1>1, <1>3, <1>5, <1>6, <1>7

\* The beginning of a message counts its bytes and comes to no end.
Begins(o) == \A i \in 1 .. Len(o) : o[i].at = i /\ o[i].size = o[1].size /\ ~Ends(o[i])

LEMMA OrderlyAppend ==
    ASSUME NEW B, NEW x \in Seq(B), NEW e \in B, Orderly(Append(x, e))
    PROVE  /\ Orderly(x)
           /\ x = <<>> => e.at = 1
           /\ x # <<>> => Follows(x[Len(x)], e)
  <1>1. PICK n \in Nat : n = Len(x)
    OBVIOUS
  <1>2. PICK z \in Seq(B) : z = Append(x, e)
    BY AppendProperties
  <1>3. /\ Len(z) = n + 1 /\ z # <<>> /\ z[n + 1] = e /\ (x = <<>> <=> n = 0)
        /\ \A i \in 1 .. n : z[i] = x[i]
    BY <1>1, <1>2
  <1>4. Orderly(z)
    BY <1>2
  <1>5. x = <<>> => e.at = 1
    BY <1>3, <1>4 DEF Orderly
  <1>6. ASSUME x # <<>> PROVE Follows(x[n], e) /\ x[1].at = 1
    <2>1. n \in 1 .. Len(z) - 1 /\ n \in 1 .. n /\ 1 \in 1 .. n
      BY <1>3, <1>6
    <2>2. Follows(z[n], z[n + 1]) /\ z[1].at = 1
      BY <1>3, <1>4, <2>1 DEF Orderly
    <2> QED
      BY <1>3, <2>1, <2>2
  <1>7. ASSUME NEW i \in 1 .. n - 1 PROVE Follows(x[i], x[i + 1])
    <2>1. i \in 1 .. Len(z) - 1 /\ i \in 1 .. n /\ i + 1 \in 1 .. n
      BY <1>3
    <2>2. Follows(z[i], z[i + 1])
      BY <1>4, <2>1 DEF Orderly
    <2> QED
      BY <1>3, <2>1, <2>2
  <1> QED
    BY <1>1, <1>5, <1>6, <1>7 DEF Orderly

LEMMA OpenBegins ==
    ASSUME NEW B, NEW o \in Seq(B), Orderly(o), Grouped(o).open = o
    PROVE  Begins(o)
  <1> DEFINE Fine(u) == Orderly(u) /\ Grouped(u).open = u => Begins(u)
             P == {u \in Seq(B) : Fine(u)}
  <1>1. <<>> \in P
    BY DEF Begins
  <1>2. ASSUME NEW u \in Seq(B), NEW e \in B, u \in P PROVE Append(u, e) \in P
    <2>1. PICK z \in Seq(B) : z = Append(u, e)
      BY AppendProperties
    <2>2. PICK n \in Nat : n = Len(u)
      OBVIOUS
    <2>3. /\ Len(z) = n + 1 /\ z # <<>> /\ z[n + 1] = e /\ (u = <<>> <=> n = 0)
          /\ \A i \in 1 .. n : z[i] = u[i]
      BY <2>1, <2>2
    <2>4. SUFFICES ASSUME Orderly(z), Grouped(z).open = z PROVE Begins(z)
      BY <2>1
    <2>5. PICK g \in Seq(B) : g = Grouped(u).open
      BY GroupedIs DEF Groups
    <2>6. ~Ends(e) /\ Grouped(z).open = Append(g, e)
      <3>1. Grouped(z) = Group(Grouped(u), e)
        BY <2>1, GroupedIs
      <3> QED
        BY <2>3, <2>4, <2>5, <3>1 DEF Group
    <2>7. g = u
      <3>1. Append(g, e) = Append(u, e)
        BY <2>1, <2>4, <2>6
      <3>2. Len(g) = n /\ \A i \in 1 .. n : g[i] = u[i]
        <4>1. Len(Append(g, e)) = Len(g) + 1 /\ \A i \in 1 .. Len(g) : Append(g, e)[i] = g[i]
          OBVIOUS
        <4> QED
          BY <2>1, <2>2, <2>3, <3>1, <4>1
      <3> QED
        BY <2>2, <3>2, SeqEqual, Zenon
    <2>8. Orderly(u) /\ (u = <<>> => e.at = 1) /\ (u # <<>> => Follows(u[Len(u)], e))
      BY <2>1, <2>4, OrderlyAppend
    <2>9. Begins(u)
      BY <1>2, <2>5, <2>7, <2>8
    <2>10. e.at = n + 1 /\ e.size = z[1].size
      <3>1. CASE n = 0
        BY <2>3, <2>8, <3>1
      <3>2. CASE n # 0
        <4>1. n \in 1 .. n /\ 1 \in 1 .. n
          BY <3>2
        <4>2. u[n].at = n /\ u[n].size = u[1].size /\ ~Ends(u[n])
          BY <2>2, <2>9, <4>1 DEF Begins
        <4>3. Follows(u[n], e)
          BY <2>2, <2>3, <2>8, <3>2
        <4> QED
          BY <2>3, <4>1, <4>2, <4>3 DEF Follows
      <3> QED
        BY <3>1, <3>2
    <2>11. ASSUME NEW i \in 1 .. n + 1
           PROVE  z[i].at = i /\ z[i].size = z[1].size /\ ~Ends(z[i])
      <3>1. CASE i = n + 1
        BY <2>3, <2>6, <2>10, <3>1
      <3>2. CASE i # n + 1
        <4>1. i \in 1 .. n /\ 1 \in 1 .. n
          BY <3>2
        <4> QED
          BY <2>2, <2>3, <2>9, <4>1 DEF Begins
      <3> QED
        BY <3>1, <3>2
    <2> QED
      BY <2>3, <2>11 DEF Begins
  <1> HIDE DEF P
  <1>3. Seq(B) \subseteq P
    BY <1>1, <1>2, AppendInduction, Zenon
  <1> QED
    BY <1>3 DEF P

Changes(p, a, b, c) ==
    \A x, y :
        /\ [p EXCEPT !.got = x] = [got |-> x, messages |-> b, lost |-> c]
        /\ [p EXCEPT !.got = x, !.messages = y] = [got |-> x, messages |-> y, lost |-> c]
        /\ [p EXCEPT !.lost = y] = [got |-> a, messages |-> b, lost |-> y]

LEMMA ReadingChanged ==
    ASSUME NEW p, NEW a, NEW b, NEW c, p = [got |-> a, messages |-> b, lost |-> c]
    PROVE  Changes(p, a, b, c)
  <1> SUFFICES ASSUME NEW x, NEW y
               PROVE  /\ [p EXCEPT !.got = x] = [got |-> x, messages |-> b, lost |-> c]
                      /\ [p EXCEPT !.got = x, !.messages = y] = [got |-> x, messages |-> y, lost |-> c]
                      /\ [p EXCEPT !.lost = y] = [got |-> a, messages |-> b, lost |-> y]
    BY Zenon DEF Changes
  <1>1. [p EXCEPT !.got = x] = [got |-> x, messages |-> b, lost |-> c]
    OBVIOUS
  <1>2. [p EXCEPT !.lost = y] = [got |-> a, messages |-> b, lost |-> y]
    OBVIOUS
  <1>3. [p EXCEPT !.got = x, !.messages = y] = [got |-> x, messages |-> y, lost |-> c]
    <2>1. \A q : q = [got |-> x, messages |-> b, lost |-> c]
                    => [q EXCEPT !.messages = y] = [got |-> x, messages |-> y, lost |-> c]
      OBVIOUS
    <2> QED
      BY <1>1, <2>1, Zenon
  <1> QED
    BY <1>1, <1>2, <1>3

\* A byte that comes in order is taken as it is grouped.
LEMMA FeedGroups ==
    ASSUME NEW p \in Readings, ~p.lost, NEW e \in Bytes,
           Grouped(p.got).open = p.got, Orderly(Append(p.got, e))
    PROVE  Feed(p, e) = [got      |-> Grouped(Append(p.got, e)).open,
                         messages |-> p.messages \o Grouped(Append(p.got, e)).whole,
                         lost     |-> FALSE]
  <1>1. PICK g \in Seq(Bytes) : g = p.got
    BY DEF Readings
  <1>2. PICK h \in Seq(Bytes) : h = Append(g, e)
    BY AppendProperties
  <1>3. PICK n \in Nat : n = Len(g)
    OBVIOUS
  <1>4. /\ Len(h) = n + 1 /\ h # <<>> /\ h[n + 1] = e /\ (g = <<>> <=> n = 0)
        /\ \A i \in 1 .. n : h[i] = g[i]
    BY <1>2, <1>3
  <1>5. Orderly(g) /\ (g = <<>> => e.at = 1) /\ (g # <<>> => Follows(g[Len(g)], e))
    BY <1>1, OrderlyAppend
  <1>6. Begins(g)
    BY <1>1, <1>5, OpenBegins
  <1>7. h[1].at = 1 /\ h[1].size = e.size /\ e.at = n + 1
    <2>1. CASE n = 0
      BY <1>4, <1>5, <2>1
    <2>2. CASE n # 0
      <3>1. n \in 1 .. n /\ 1 \in 1 .. n
        BY <2>2
      <3>2. g[n].at = n /\ g[n].size = g[1].size /\ ~Ends(g[n]) /\ g[1].at = 1
        BY <1>3, <1>6, <3>1 DEF Begins
      <3>3. Follows(g[n], e)
        BY <1>3, <1>4, <1>5, <2>2
      <3> QED
        BY <1>4, <3>1, <3>2, <3>3 DEF Follows
    <2> QED
      BY <2>1, <2>2
  <1>8. Ends(e) <=> Len(h) = HeaderLen + h[1].size
    BY <1>4, <1>7 DEF Ends
  <1>9. HeaderLen \in Nat \ {0} /\ h[1].size \in Nat
    <2>1. h[1] \in Bytes
      BY <1>4
    <2> QED
      BY <2>1, SocketsAssumption DEF Bytes
  <1>10. p = [got |-> g, messages |-> p.messages, lost |-> FALSE] /\ p.messages \in Seq(Seq(Bytes))
    BY <1>1 DEF Readings
  <1>11. PICK m \in Seq(Seq(Bytes)) : m = p.messages
    BY <1>10
  <1>12. Grouped(g) = [open |-> g, whole |-> <<>>]
    <2>1. Grouped(Grouped(g).open) = [open |-> Grouped(g).open, whole |-> <<>>]
      BY GroupedOpen, Zenon
    <2> QED
      BY <1>1, <2>1
  <1>13. Grouped(h) = Group(Grouped(g), e)
    BY <1>2, GroupedIs
  <1>14. m \o <<>> = m /\ \A u \in Seq(Bytes) : m \o Append(<<>>, u) = Append(m, u)
    OBVIOUS
  <1>15. Feed(p, e) = IF Len(h) < HeaderLen \/ p.lost THEN [p EXCEPT !.got = h]
                      ELSE IF h[1].at # 1 THEN [p EXCEPT !.lost = TRUE]
                      ELSE IF Len(h) = HeaderLen + h[1].size
                           THEN [p EXCEPT !.got = <<>>, !.messages = Append(p.messages, h)]
                      ELSE [p EXCEPT !.got = h]
    <2>1. Append(p.got, e) = h
      BY <1>1, <1>2
    <2> QED
      BY <2>1, Zenon DEF Feed
  <1>16. Changes(p, g, m, FALSE)
    <2>1. p = [got |-> g, messages |-> m, lost |-> FALSE]
      BY <1>10, <1>11
    <2> QED
      BY <2>1, ReadingChanged, Zenon
  <1>17. CASE Ends(e)
    <2>1. Grouped(h) = [open |-> <<>>, whole |-> Append(<<>>, h)]
      BY <1>2, <1>12, <1>13, <1>17 DEF Group
    <2>2. Feed(p, e) = [got |-> <<>>, messages |-> Append(m, h), lost |-> FALSE]
      <3>1. ~(Len(h) < HeaderLen) /\ Len(h) = HeaderLen + h[1].size
        BY <1>8, <1>9, <1>17
      <3>2. Feed(p, e) = [p EXCEPT !.got = <<>>, !.messages = Append(m, h)]
        BY <1>7, <1>11, <1>15, <3>1
      <3> QED
        BY <1>16, <3>2, Zenon DEF Changes
    <2>3. Grouped(h).open = <<>> /\ Grouped(h).whole = Append(<<>>, h)
      BY <2>1
    <2>4. m \o Append(<<>>, h) = Append(m, h)
      BY <1>14, Zenon
    <2> QED
      BY <1>1, <1>2, <1>11, <2>2, <2>3, <2>4, Zenon
  <1>18. CASE ~Ends(e)
    <2>1. Grouped(h) = [open |-> h, whole |-> <<>>]
      BY <1>2, <1>12, <1>13, <1>18 DEF Group
    <2>2. Feed(p, e) = [got |-> h, messages |-> m, lost |-> FALSE]
      <3>1. Feed(p, e) = [p EXCEPT !.got = h]
        BY <1>7, <1>8, <1>18, <1>15
      <3> QED
        BY <1>16, <3>1, Zenon DEF Changes
    <2>3. Grouped(h).open = h /\ Grouped(h).whole = <<>>
      BY <2>1
    <2> QED
      BY <1>1, <1>2, <1>11, <1>14, <2>2, <2>3, Zenon
  <1> QED
    BY <1>17, <1>18

GroupedAs(p, x) ==
    p = [got |-> Grouped(x).open, messages |-> Grouped(x).whole, lost |-> FALSE]

LEMMA FoldGroups ==
    ASSUME NEW got, IsBegun(got), Grouped(got).open = got, NEW buf \in Seq(Bytes),
           Orderly(got \o buf)
    PROVE  GroupedAs(Fold(FeedF, NoMessage(got), buf), got \o buf)
  <1> DEFINE first == NoMessage(got)
             Fine(u) == Orderly(got \o u) => GroupedAs(Fold(FeedF, first, u), got \o u)
             P == {u \in Seq(Bytes) : Fine(u)}
  <1>1. got \in Seq(Bytes)
    BY DEF IsBegun
  <1>2. Grouped(got) = [open |-> got, whole |-> <<>>]
    <2>1. Grouped(Grouped(got).open) = [open |-> Grouped(got).open, whole |-> <<>>]
      BY <1>1, GroupedOpen, Zenon
    <2> QED
      BY <2>1
  <1>3. GoesOn(FeedF, first, Readings, Bytes)
    BY ParsedStays, FoldSteps
  <1>4. Associates(Bytes)
    BY AppendAssociates
  <1>5. <<>> \in P
    <2>1. got \o <<>> = got
      BY <1>1, ConcatEmptySeq
    <2>2. Fold(FeedF, first, <<>>) = [got |-> got, messages |-> <<>>, lost |-> FALSE]
      BY <1>3 DEF GoesOn, NoMessage
    <2>3. GroupedAs(Fold(FeedF, first, <<>>), got)
      BY <1>2, <2>2 DEF GroupedAs
    <2> QED
      BY <2>1, <2>3
  <1>6. ASSUME NEW u \in Seq(Bytes), NEW e \in Bytes, u \in P PROVE Append(u, e) \in P
    <2>1. PICK a \in Seq(Bytes) : a = got \o u
      BY <1>1, <1>4, Zenon DEF Associates
    <2>2. PICK v \in Seq(Bytes) : v = Append(u, e)
      BY AppendProperties
    <2>3. PICK z \in Seq(Bytes) : z = Append(a, e)
      BY AppendProperties
    <2>4. got \o v = z
      <3>1. Append(got \o u, e) = got \o Append(u, e)
        BY <1>1, <1>4, Zenon DEF Associates
      <3> QED
        BY <2>1, <2>2, <2>3, <3>1
    <2>5. SUFFICES ASSUME Orderly(z) PROVE GroupedAs(Fold(FeedF, first, v), z)
      BY <2>2, <2>4
    <2>6. PICK p \in Readings : p = Fold(FeedF, first, u)
      BY <1>3 DEF GoesOn
    <2>7. PICK o \in Seq(Bytes) : o = Grouped(a).open
      BY GroupedOpen
    <2>8. p = [got |-> o, messages |-> Grouped(a).whole, lost |-> FALSE]
      <3>1. Orderly(a)
        BY <2>3, <2>5, OrderlyAppend
      <3>2. GroupedAs(Fold(FeedF, first, u), a)
        BY <1>6, <2>1, <3>1
      <3> QED
        BY <2>6, <2>7, <3>2 DEF GroupedAs
    <2>9. Fold(FeedF, first, v) = Feed(p, e)
      <3>1. Fold(FeedF, first, Append(u, e)) = FeedF[<<Fold(FeedF, first, u), e>>]
        BY <1>3, Zenon DEF GoesOn
      <3> QED
        BY <2>2, <2>6, <3>1 DEF FeedF
    <2>10. Orderly(Append(o, e))
      <3>1. PICK j \in Seq(Bytes) : a = j \o o /\ (j # <<>> => Ends(j[Len(j)]))
        BY <2>7, GroupedOpen
      <3>2. PICK f \in Seq(Bytes) : f = Append(o, e)
        BY AppendProperties
      <3>3. z = j \o f
        <4>1. Append(j \o o, e) = j \o Append(o, e)
          BY <1>4, Zenon DEF Associates
        <4> QED
          BY <2>3, <3>1, <3>2, <4>1
      <3>4. Orderly(f)
        BY <2>5, <3>1, <3>3, OrderlyConcat
      <3> QED
        BY <3>2, <3>4
    <2>11. Grouped(p.got).open = p.got
      <3>1. Grouped(Grouped(a).open) = [open |-> Grouped(a).open, whole |-> <<>>]
        BY GroupedOpen, Zenon
      <3> QED
        BY <2>7, <2>8, <3>1
    <2>12. Feed(p, e) = [got      |-> Grouped(Append(p.got, e)).open,
                         messages |-> p.messages \o Grouped(Append(p.got, e)).whole,
                         lost     |-> FALSE]
      <3>1. ~p.lost /\ p.got = o
        BY <2>8
      <3>2. Orderly(Append(p.got, e))
        BY <2>10, <3>1
      <3> QED
        BY <2>11, <3>1, <3>2, FeedGroups, Zenon
    <2>13. /\ Grouped(z).open = Grouped(Append(o, e)).open
           /\ Grouped(z).whole = Grouped(a).whole \o Grouped(Append(o, e)).whole
      <3>1. <<e>> \in Seq(Bytes) /\ \A b \in Seq(Bytes) : b \o <<e>> = Append(b, e)
        OBVIOUS
      <3>2. /\ Grouped(a \o <<e>>).open = Grouped(Grouped(a).open \o <<e>>).open
            /\ Grouped(a \o <<e>>).whole = Grouped(a).whole \o Grouped(Grouped(a).open \o <<e>>).whole
        BY <3>1, GroupedConcat, Zenon
      <3>3. a \o <<e>> = z /\ o \o <<e>> = Append(o, e)
        BY <2>3, <3>1, Zenon
      <3> QED
        BY <2>7, <3>2, <3>3
    <2>14. p.got = o /\ p.messages = Grouped(a).whole
      BY <2>8
    <2> QED
      BY <2>9, <2>12, <2>13, <2>14, Zenon DEF GroupedAs
  <1> HIDE DEF P
  <1>7. Seq(Bytes) \subseteq P
    BY <1>5, <1>6, AppendInduction, Zenon
  <1> QED
    BY <1>7 DEF P

\* What server_read makes of the bytes that have arrived, when they are in order:
\* the whole messages, and what is left of another one, from where it goes on.
LEMMA ParsedGroups ==
    ASSUME NEW got, IsBegun(got), Grouped(got).open = got, NEW buf \in Seq(Bytes),
           Orderly(got \o buf)
    PROVE  /\ Parsed(got, buf).got = Grouped(got \o buf).open
           /\ Parsed(got, buf).messages = Grouped(got \o buf).whole
  <1>1. PICK p : p = Fold(FeedF, NoMessage(got), buf)
    OBVIOUS
  <1>2. p = [got |-> Grouped(got \o buf).open, messages |-> Grouped(got \o buf).whole, lost |-> FALSE]
    BY <1>1, FoldGroups DEF GroupedAs
  <1>3. Parsed(got, buf) = [p EXCEPT !.lost = p.lost \/ Len(p.got) \in 1 .. HeaderLen - 1]
    BY <1>1, ParsedFolds, Zenon DEF CutInHeader
  <1>4. Changes(p, Grouped(got \o buf).open, Grouped(got \o buf).whole, FALSE)
    BY <1>2, ReadingChanged, Zenon
  <1>5. PICK l : l = (p.lost \/ Len(p.got) \in 1 .. HeaderLen - 1)
    OBVIOUS
  <1>6. Parsed(got, buf) = [got |-> Grouped(got \o buf).open, messages |-> Grouped(got \o buf).whole, lost |-> l]
    BY <1>3, <1>4, <1>5, Zenon DEF Changes
  <1> QED
    BY <1>6

\* In any order, what there is has its type, and when the loop has not run past the
\* end there is at least a header.
LEMMA ParsedTyped ==
    ASSUME NEW got, IsBegun(got), NEW buf \in Seq(Bytes)
    PROVE  /\ Parsed(got, buf).got \in Seq(Bytes)
           /\ Parsed(got, buf).messages \in Seq(Seq(Bytes))
           /\ Parsed(got, buf).lost \in BOOLEAN
           /\ ~Parsed(got, buf).lost => IsBegun(Parsed(got, buf).got)
  <1>1. PICK p \in Readings : p = Fold(FeedF, NoMessage(got), buf)
    <2>1. GoesOn(FeedF, NoMessage(got), Readings, Bytes)
      BY ParsedStays, FoldSteps
    <2> QED
      BY <2>1 DEF GoesOn
  <1>2. p = [got |-> p.got, messages |-> p.messages, lost |-> p.lost]
        /\ p.got \in Seq(Bytes) /\ p.messages \in Seq(Seq(Bytes)) /\ p.lost \in BOOLEAN
    BY DEF Readings
  <1>3. PICK l \in BOOLEAN : l = (p.lost \/ Len(p.got) \in 1 .. HeaderLen - 1)
    OBVIOUS
  <1>4. Parsed(got, buf) = [got |-> p.got, messages |-> p.messages, lost |-> l]
    <2>1. Changes(p, p.got, p.messages, p.lost)
      BY <1>2, ReadingChanged, Zenon
    <2>2. Parsed(got, buf) = [p EXCEPT !.lost = p.lost \/ Len(p.got) \in 1 .. HeaderLen - 1]
      BY <1>1, ParsedFolds, Zenon DEF CutInHeader
    <2> QED
      BY <1>3, <2>1, <2>2, Zenon DEF Changes
  <1>5. ~l => IsBegun(p.got)
    <2>1. p.got # <<>> => Len(p.got) # 0 /\ Len(p.got) \in Nat
      BY <1>2, EmptySeq
    <2>2. ~p.lost /\ Len(p.got) >= HeaderLen => Len(p.got) < HeaderLen + p.got[1].size
      BY DEF Readings
    <2>3. PICK n : n = Len(p.got)
      OBVIOUS
    <2>4. ~l => ~p.lost /\ ~(n \in 1 .. HeaderLen - 1)
      BY <1>3, <2>3
    <2>5. n \in Nat /\ n # 0 /\ ~(n \in 1 .. HeaderLen - 1) => n >= HeaderLen
      BY SocketsAssumption
    <2>6. p.got \in Seq(Bytes)
      BY <1>2
    <2> QED
      BY <2>1, <2>2, <2>3, <2>4, <2>5, <2>6, Zenon DEF IsBegun
  <1> QED
    BY <1>2, <1>4, <1>5

Regroups(a, b, c) == (a \o b) \o c = a \o (b \o c)

LEMMA Regrouped ==
    ASSUME NEW S, NEW a \in Seq(S), NEW b \in Seq(S), NEW c \in Seq(S)
    PROVE  Regroups(a, b, c)
  BY ConcatAssociative DEF Regroups

Concatenated(a, b, S) == a \o b \in Seq(S)

LEMMA ConcatStays ==
    ASSUME NEW S, NEW a \in Seq(S), NEW b \in Seq(S)
    PROVE  Concatenated(a, b, S)
  BY ConcatProperties DEF Concatenated

ReadsTo(got, w, n, queue, p, after) ==
    /\ p.got \in Seq(Bytes) /\ Grouped(p.got).open = p.got
    /\ after \in Seq(Bytes) /\ Orderly(after)
    /\ p.messages \in Seq(Seq(Bytes)) /\ Grouped(after).whole \in Seq(Seq(Bytes))
    /\ Grouped(got \o w \o queue).whole = p.messages \o Grouped(after).whole
    /\ Grouped(got \o w \o queue).open = Grouped(after).open

\* The reader that has got the beginning of a message, of the bytes before it the
\* first n, goes on with the others: no message is lost or torn apart.
LEMMA ReadOn ==
    ASSUME NEW got, IsBegun(got), Grouped(got).open = got,
           NEW w \in Seq(Bytes), NEW n \in 0 .. Len(w), NEW queue \in Seq(Bytes),
           Orderly(got \o w \o queue),
           NEW p, p = Parsed(got, SubSeq(w, 1, n)),
           NEW after, after = p.got \o SubSeq(w, n + 1, Len(w)) \o queue
    PROVE  ReadsTo(got, w, n, queue, p, after)
  <1>1. got \in Seq(Bytes)
    BY DEF IsBegun
  <1>2. PICK a \in Seq(Bytes) : a = SubSeq(w, 1, n)
    BY Divide
  <1>3. PICK b \in Seq(Bytes) : b = SubSeq(w, n + 1, Len(w)) /\ a \o b = w
    BY <1>2, Divide
  <1>4. PICK x \in Seq(Bytes) : x = got \o a
    BY <1>1, ConcatStays, Zenon DEF Concatenated
  <1>5. PICK rest \in Seq(Bytes) : rest = b \o queue
    BY ConcatStays, Zenon DEF Concatenated
  <1>6. got \o w \o queue = x \o rest
    <2>1. got \o (a \o b) = x \o b
      <3>1. (got \o a) \o b = got \o (a \o b)
        <4>1. Regroups(got, a, b)
          BY <1>1, Regrouped, Zenon
        <4> QED
          BY <4>1, Zenon DEF Regroups
      <3> QED
        BY <1>4, <3>1
    <2>2. (x \o b) \o queue = x \o (b \o queue)
      <3>1. Regroups(x, b, queue)
        BY Regrouped, Zenon
      <3> QED
        BY <3>1, Zenon DEF Regroups
    <2> QED
      BY <1>3, <1>5, <2>1, <2>2, Zenon
  <1>7. PICK o \in Seq(Bytes) : o = Grouped(x).open
    BY GroupedOpen
  <1>8. PICK j \in Seq(Bytes) : x = j \o o /\ (j # <<>> => Ends(j[Len(j)]))
    BY <1>7, GroupedOpen
  <1>9. p.got = o /\ p.messages = Grouped(x).whole
    <2>1. Orderly(x)
      BY <1>6, OrderlyConcat
    <2>2. Orderly(got \o a)
      BY <1>4, <2>1
    <2>3. p = Parsed(got, a)
      BY <1>2
    <2> QED
      BY <1>4, <1>7, <2>2, <2>3, ParsedGroups, Zenon
  <1>10. Grouped(o).open = o
    <2>1. Grouped(Grouped(x).open) = [open |-> Grouped(x).open, whole |-> <<>>]
      BY GroupedOpen, Zenon
    <2> QED
      BY <1>7, <2>1
  <1>11. after = o \o rest
    <2>1. (o \o b) \o queue = o \o (b \o queue)
      <3>1. Regroups(o, b, queue)
        BY Regrouped, Zenon
      <3> QED
        BY <3>1, Zenon DEF Regroups
    <2> QED
      BY <1>3, <1>5, <1>9, <2>1, Zenon
  <1>12. after \in Seq(Bytes)
    <2>1. o \o rest \in Seq(Bytes)
      BY ConcatStays, Zenon DEF Concatenated
    <2> QED
      BY <1>11, <2>1
  <1>13. Orderly(after)
    <2>1. (j \o o) \o rest = j \o (o \o rest)
      <3>1. Regroups(j, o, rest)
        BY Regrouped, Zenon
      <3> QED
        BY <3>1, Zenon DEF Regroups
    <2>2. Orderly(j \o after)
      BY <1>6, <1>8, <1>11, <2>1, Zenon
    <2> QED
      BY <1>8, <1>12, <2>2, OrderlyConcat
  <1>14. /\ Grouped(x \o rest).open = Grouped(o \o rest).open
         /\ Grouped(x \o rest).whole = Grouped(x).whole \o Grouped(o \o rest).whole
    BY <1>7, GroupedConcat, Zenon
  <1>15. Grouped(after).whole \in Seq(Seq(Bytes)) /\ Grouped(x).whole \in Seq(Seq(Bytes))
    BY <1>12, GroupedIs DEF Groups
  <1> QED
    BY <1>6, <1>9, <1>10, <1>11, <1>12, <1>13, <1>14, <1>15, Zenon DEF ReadsTo

\* The two parts of a sequence.
PartsAt(s, t, n, u) ==
    n \in 0 .. Len(u) /\ SubSeq(u, 1, n) = s /\ SubSeq(u, n + 1, Len(u)) = t

LEMMA PartsOf ==
    ASSUME NEW S, NEW s \in Seq(S), NEW t \in Seq(S)
    PROVE  PartsAt(s, t, Len(s), s \o t)
  <1>1. PICK m \in Nat : m = Len(s)
    OBVIOUS
  <1>2. PICK n \in Nat : n = Len(t)
    OBVIOUS
  <1>3. PICK z \in Seq(S) : z = s \o t
    BY ConcatProperties
  <1>4. Len(z) = m + n /\ (\A i \in 1 .. m : z[i] = s[i]) /\ \A i \in 1 .. n : z[m + i] = t[i]
    BY <1>1, <1>2, <1>3
  <1>5. SubSeq(z, 1, m) = s
    <2>1. /\ SubSeq(z, 1, m) \in Seq(S) /\ Len(SubSeq(z, 1, m)) = m
          /\ \A i \in 1 .. m : SubSeq(z, 1, m)[i] = z[i]
      BY <1>4, SubSeqIs
    <2> QED
      BY <1>1, <1>4, <2>1, SeqEqual
  <1>6. SubSeq(z, m + 1, Len(z)) = t
    <2> DEFINE u == SubSeq(z, m + 1, Len(z))
    <2>1. u \in Seq(S) /\ Len(u) = n /\ \A i \in 1 .. n : u[i] = z[m + i]
      <3>1. /\ u \in Seq(S) /\ Len(u) = IF m + 1 <= Len(z) THEN Len(z) - (m + 1) + 1 ELSE 0
            /\ \A i \in 1 .. Len(z) - (m + 1) + 1 : u[i] = z[(m + 1) + i - 1]
        BY <1>4, SubSeqIs
      <3>2. \A i \in 1 .. n : (m + 1) + i - 1 = m + i
        OBVIOUS
      <3>3. Len(z) - (m + 1) + 1 = n
        BY <1>4
      <3> HIDE DEF u
      <3> QED
        BY <1>4, <3>1, <3>2, <3>3
    <2> HIDE DEF u
    <2>2. u = t
      BY <1>2, <1>4, <2>1, SeqEqual
    <2> QED
      BY <2>2 DEF u
  <1>7. m \in 0 .. Len(z)
    BY <1>4
  <1> QED
    BY <1>1, <1>3, <1>5, <1>6, <1>7, Zenon DEF PartsAt

-----------------------------------------------------------------------------
(* What is written.                                                        *)

LEMMA GroupedQuiet ==
    ASSUME NEW B, NEW x \in Seq(B), \A i \in 1 .. Len(x) : ~Ends(x[i])
    PROVE  Grouped(x) = [open |-> x, whole |-> <<>>]
  <1> DEFINE Fine(u) == (\A i \in 1 .. Len(u) : ~Ends(u[i])) => Grouped(u) = [open |-> u, whole |-> <<>>]
             P == {u \in Seq(B) : Fine(u)}
  <1>1. <<>> \in P
    BY GroupedIs DEF NoGroup
  <1>2. ASSUME NEW u \in Seq(B), NEW e \in B, u \in P PROVE Append(u, e) \in P
    <2>1. PICK z \in Seq(B) : z = Append(u, e)
      BY AppendProperties
    <2>2. PICK n \in Nat : n = Len(u)
      OBVIOUS
    <2>3. Len(z) = n + 1 /\ z[n + 1] = e /\ \A i \in 1 .. n : z[i] = u[i]
      BY <2>1, <2>2
    <2>4. SUFFICES ASSUME \A i \in 1 .. Len(z) : ~Ends(z[i])
                   PROVE  Grouped(z) = [open |-> z, whole |-> <<>>]
      BY <2>1
    <2>5. \A i \in 1 .. n + 1 : ~Ends(z[i])
      BY <2>3, <2>4
    <2>6. ~Ends(e)
      BY <2>3, <2>5
    <2>7. \A i \in 1 .. Len(u) : ~Ends(u[i])
      BY <2>2, <2>3, <2>5
    <2>8. Grouped(u) = [open |-> u, whole |-> <<>>]
      BY <1>2, <2>7
    <2>9. Grouped(z) = Group(Grouped(u), e)
      BY <2>1, GroupedIs
    <2> QED
      BY <2>1, <2>6, <2>8, <2>9 DEF Group
  <1> HIDE DEF P
  <1>3. Seq(B) \subseteq P
    BY <1>1, <1>2, AppendInduction, Zenon
  <1> QED
    BY <1>3 DEF P

\* A message is in order and is grouped as one.
LEMMA MessageIs ==
    ASSUME NEW id \in 1 .. MaxMessages, NEW size \in Sizes, NEW m, m = Message(id, size)
    PROVE  /\ m \in Seq(Bytes) /\ m # <<>> /\ Ends(m[Len(m)])
           /\ Orderly(m)
           /\ Grouped(m).open = <<>> /\ Grouped(m).whole = <<m>>
  <1>1. PICK n \in Nat : n = HeaderLen + size /\ n # 0
    BY SocketsAssumption
  <1>2. m = [k \in 1 .. n |-> [id |-> id, size |-> size, at |-> k]]
    BY <1>1 DEF Message
  <1>3. ASSUME NEW k \in 1 .. n PROVE m[k] \in Bytes /\ m[k].at = k /\ m[k].size = size
    <2>1. m[k] = [id |-> id, size |-> size, at |-> k]
      BY <1>2
    <2> QED
      BY <2>1 DEF Bytes
  <1>4. m \in Seq(Bytes) /\ Len(m) = n
    BY <1>2, <1>3
  <1>5. m # <<>>
    BY <1>1, <1>4, EmptySeq
  <1>6. \A k \in 1 .. n : Ends(m[k]) <=> k = n
    BY <1>1, <1>3 DEF Ends
  <1>7. Orderly(m)
    <2>1. m[1].at = 1
      BY <1>1, <1>3
    <2>2. ASSUME NEW k \in 1 .. n - 1 PROVE Follows(m[k], m[k + 1])
      <3>1. k \in 1 .. n /\ k + 1 \in 1 .. n /\ k # n
        OBVIOUS
      <3>2. m[k].at = k /\ m[k + 1].at = k + 1 /\ m[k].size = size /\ m[k + 1].size = size
        BY <1>3, <3>1
      <3> QED
        BY <1>6, <3>1, <3>2 DEF Follows
    <2> QED
      BY <1>4, <2>1, <2>2 DEF Orderly
  <1>8. PICK f \in Seq(Bytes), e \in Bytes : m = Append(f, e)
    BY <1>4, <1>5, SequenceEmptyOrAppend
  <1>9. Len(f) = n - 1 /\ e = m[n] /\ \A k \in 1 .. n - 1 : f[k] = m[k]
    <2>1. /\ Len(Append(f, e)) = Len(f) + 1 /\ Append(f, e)[Len(f) + 1] = e
          /\ \A k \in 1 .. Len(f) : Append(f, e)[k] = f[k]
      BY AppendProperties
    <2>2. Len(f) \in Nat
      OBVIOUS
    <2> QED
      BY <1>4, <1>8, <2>1, <2>2
  <1>10. Grouped(f) = [open |-> f, whole |-> <<>>]
    <2>1. \A k \in 1 .. Len(f) : ~Ends(f[k])
      <3>1. ASSUME NEW k \in 1 .. n - 1 PROVE ~Ends(f[k])
        <4>1. k \in 1 .. n /\ k # n
          OBVIOUS
        <4> QED
          BY <1>6, <1>9, <4>1
      <3> QED
        BY <1>9, <3>1
    <2> QED
      BY <2>1, GroupedQuiet
  <1>11. Ends(e)
    <2>1. n \in 1 .. n
      BY <1>1
    <2> QED
      BY <1>6, <1>9, <2>1
  <1>12. Grouped(m) = [open |-> <<>>, whole |-> Append(<<>>, m)]
    <2>1. Grouped(m) = Group(Grouped(f), e)
      BY <1>8, GroupedIs
    <2>2. Grouped(m) = [open |-> <<>>, whole |-> Append(Grouped(f).whole, Append(Grouped(f).open, e))]
      BY <1>11, <2>1, Zenon DEF Group
    <2>3. Grouped(f).whole = <<>> /\ Grouped(f).open = f
      BY <1>10
    <2> QED
      BY <1>8, <2>2, <2>3
  <1>13. Append(<<>>, m) = <<m>>
    OBVIOUS
  <1> QED
    BY <1>4, <1>5, <1>7, <1>9, <1>11, <1>12, <1>13

LEMMA SubSeqGoesOn ==
    ASSUME NEW S, NEW s \in Seq(S), NEW m \in Nat, NEW n \in 0 .. Len(s), m <= n
    PROVE  /\ SubSeq(s, 1, m) \in Seq(S) /\ SubSeq(s, m + 1, n) \in Seq(S)
           /\ SubSeq(s, 1, n) = SubSeq(s, 1, m) \o SubSeq(s, m + 1, n)
  <1>1. PICK t \in Seq(S) : t = SubSeq(s, 1, n)
    <2>1. SubSeq(s, 1, n) \in Seq(S)
      BY SubSeqIs
    <2> QED
      BY <2>1
  <1>2. Len(t) = n /\ \A i \in 1 .. n : t[i] = s[i]
    BY <1>1, SubSeqIs
  <1>3. m \in 0 .. Len(t) /\ m \in 0 .. Len(s) /\ m + 1 \in Nat \ {0} /\ n - (m + 1) + 1 = n - m
    BY <1>2
  <1>4. SubSeq(t, 1, m) \o SubSeq(t, m + 1, Len(t)) = t
    BY <1>3, Divide
  <1>5. SubSeq(t, 1, m) = SubSeq(s, 1, m) /\ SubSeq(s, 1, m) \in Seq(S)
    <2>1. /\ SubSeq(s, 1, m) \in Seq(S) /\ Len(SubSeq(s, 1, m)) = m
          /\ \A i \in 1 .. m : SubSeq(s, 1, m)[i] = s[i]
      BY <1>3, SubSeqIs
    <2>2. /\ SubSeq(t, 1, m) \in Seq(S) /\ Len(SubSeq(t, 1, m)) = m
          /\ \A i \in 1 .. m : SubSeq(t, 1, m)[i] = t[i]
      BY <1>3, SubSeqIs
    <2>3. \A i \in 1 .. m : i \in 1 .. n
      OBVIOUS
    <2> QED
      BY <1>2, <2>1, <2>2, <2>3, SeqEqual
  <1>6. SubSeq(t, m + 1, n) = SubSeq(s, m + 1, n) /\ SubSeq(s, m + 1, n) \in Seq(S)
    <2>1. /\ SubSeq(s, m + 1, n) \in Seq(S)
          /\ Len(SubSeq(s, m + 1, n)) = IF m + 1 <= n THEN n - (m + 1) + 1 ELSE 0
          /\ \A i \in 1 .. n - (m + 1) + 1 : SubSeq(s, m + 1, n)[i] = s[(m + 1) + i - 1]
      BY <1>3, SubSeqIs
    <2>2. /\ SubSeq(t, m + 1, n) \in Seq(S)
          /\ Len(SubSeq(t, m + 1, n)) = IF m + 1 <= n THEN n - (m + 1) + 1 ELSE 0
          /\ \A i \in 1 .. n - (m + 1) + 1 : SubSeq(t, m + 1, n)[i] = t[(m + 1) + i - 1]
      BY <1>2, <1>3, SubSeqIs
    <2>3. \A i \in 1 .. n - (m + 1) + 1 : (m + 1) + i - 1 \in 1 .. n
      OBVIOUS
    <2>4. (IF m + 1 <= n THEN n - (m + 1) + 1 ELSE 0) = n - (m + 1) + 1
      OBVIOUS
    <2>5. \A i \in 1 .. n - (m + 1) + 1 : SubSeq(t, m + 1, n)[i] = SubSeq(s, m + 1, n)[i]
      BY <1>2, <2>1, <2>2, <2>3
    <2> QED
      BY <2>1, <2>2, <2>4, <2>5, SeqEqual
  <1> QED
    BY <1>1, <1>2, <1>4, <1>5, <1>6

\* The chunks of a length: all but the last one are full.
LEMMA Cuts ==
    ASSUME NEW n \in Nat, NEW b \in Nat \ {0}, NEW q, q = (n + b - 1) \div b
    PROVE  /\ q \in Nat /\ n <= q * b
           /\ \A k \in 0 .. q - 1 : k * b \in Nat /\ k * b < n /\ (k + 1) * b = k * b + b
  <1>1. n + b - 1 \in Nat
    OBVIOUS
  <1>2. q \in Nat /\ (n + b - 1) % b \in 0 .. b - 1 /\ n + b - 1 = b * q + ((n + b - 1) % b)
    BY <1>1, DivMod
  <1>3. PICK r \in 0 .. b - 1 : n + b - 1 = b * q + r
    BY <1>2
  <1>4. n <= q * b /\ q * b <= n + b - 1
    BY <1>2, <1>3
  <1>5. ASSUME NEW k \in 0 .. q - 1 PROVE k * b \in Nat /\ k * b < n /\ (k + 1) * b = k * b + b
    <2>1. PICK d \in Nat : q = (k + 1) + d
      <3>1. q - (k + 1) \in Nat /\ q = (k + 1) + (q - (k + 1))
        BY <1>2
      <3> QED
        BY <3>1
    <2>2. q * b = k * b + b + d * b /\ d * b \in Nat /\ k * b \in Nat
      BY <2>1
    <2> QED
      BY <1>4, <2>2
  <1> QED
    BY <1>2, <1>4, <1>5

LEMMA ChunksAreBytes ==
    ASSUME NEW s \in Seq(Chunks)
    PROVE  s \in Seq(Seq(Bytes))
  <1>1. \A i \in 1 .. Len(s) : s[i] \in Seq(Bytes)
    BY DEF Chunks
  <1> HIDE DEF Chunks
  <1>2. s = [i \in 1 .. Len(s) |-> s[i]] /\ Len(s) \in Nat
    OBVIOUS
  <1> QED
    BY <1>1, <1>2

\* array_load_data: what is written is cut into chunks, and nothing is forgotten.
LEMMA LoadDataIs ==
    ASSUME NEW chunks \in Seq(Chunks), NEW data \in Seq(Bytes)
    PROVE  /\ LoadData(chunks, data) \in Seq(Chunks)
           /\ Joined(LoadData(chunks, data)) = Joined(chunks) \o data
  <1>1. PICK n \in Nat : n = Len(data)
    OBVIOUS
  <1>2. PICK b \in Nat \ {0} : b = SockBufferLen
    BY SocketsAssumption
  <1>3. PICK q : q = (n + b - 1) \div b
    OBVIOUS
  <1>4. /\ q \in Nat /\ n <= q * b
        /\ \A k \in 0 .. q - 1 : k * b \in Nat /\ k * b < n /\ (k + 1) * b = k * b + b
    BY <1>3, Cuts
  <1> DEFINE cut(k)    == IF k * b < n THEN k * b ELSE n
             piece(i)  == SubSeq(data, (i - 1) * b + 1, cut(i))
             pieces(k) == [i \in 1 .. k |-> piece(i)]
  <1>5. LoadData(chunks, data) = chunks \o pieces(q)
    BY <1>1, <1>2, <1>3, Zenon DEF LoadData
  <1>6. ASSUME NEW k \in 0 .. q - 1
        PROVE  /\ cut(k) \in Nat /\ cut(k + 1) \in 0 .. n
               /\ cut(k) < cut(k + 1) /\ cut(k + 1) <= cut(k) + b
               /\ piece(k + 1) = SubSeq(data, cut(k) + 1, cut(k + 1))
    <2>1. cut(k) = k * b /\ k * b \in Nat /\ k * b < n /\ (k + 1) * b = k * b + b
      BY <1>4
    <2>2. PICK x \in Nat : x = k * b
      BY <2>1
    <2>3. PICK y \in Nat : y = (k + 1) * b /\ y = x + b
      BY <2>1, <2>2
    <2>4. cut(k + 1) = (IF y < n THEN y ELSE n)
      BY <2>3
    <2>5. (k + 1) - 1 = k
      OBVIOUS
    <2> HIDE DEF cut
    <2> QED
      BY <2>1, <2>2, <2>3, <2>4, <2>5
  <1> HIDE DEF cut
  <1>7. ASSUME NEW k \in 0 .. q - 1 PROVE piece(k + 1) \in Chunks
    <2>1. cut(k) + 1 \in Nat \ {0} /\ cut(k + 1) \in 0 .. Len(data) /\ cut(k) + 1 <= cut(k + 1)
      BY <1>1, <1>6
    <2>2. /\ SubSeq(data, cut(k) + 1, cut(k + 1)) \in Seq(Bytes)
          /\ Len(SubSeq(data, cut(k) + 1, cut(k + 1))) = cut(k + 1) - (cut(k) + 1) + 1
      BY <2>1, SubSeqIs
    <2>3. cut(k + 1) - (cut(k) + 1) + 1 \in 1 .. b
      BY <1>6, <2>1
    <2>4. piece(k + 1) = SubSeq(data, cut(k) + 1, cut(k + 1))
      BY <1>6
    <2> HIDE DEF piece
    <2> QED
      BY <1>2, <2>2, <2>3, <2>4 DEF Chunks
  <1> DEFINE D == {k \in 0 .. q : pieces(k) \in Seq(Chunks) /\ Joined(pieces(k)) = SubSeq(data, 1, cut(k))}
  <1>8. 0 \in D
    <2>1. cut(0) = 0
      BY DEF cut
    <2>2. pieces(0) = <<>> /\ <<>> \in Seq(Chunks)
      OBVIOUS
    <2>3. SubSeq(data, 1, 0) = <<>>
      BY SubSeqEmpty
    <2>4. Joined(<<>>) = <<>>
      BY JoinedIs
    <2> HIDE DEF pieces
    <2>5. Joined(pieces(0)) = SubSeq(data, 1, cut(0)) /\ pieces(0) \in Seq(Chunks)
      BY <2>1, <2>2, <2>3, <2>4
    <2>6. 0 \in 0 .. q
      BY <1>4
    <2> QED
      BY <2>5, <2>6, Zenon
  <1>9. ASSUME NEW k \in 0 .. q - 1, k \in D PROVE k + 1 \in D
    <2>1. PICK c \in Chunks : c = piece(k + 1)
      BY <1>7
    <2>2. PICK s \in Seq(Chunks) : s = pieces(k)
      BY <1>9
    <2>3. pieces(k + 1) = Append(s, c)
      <3> HIDE DEF piece
      <3>1. Len(s) = k /\ \A i \in 1 .. k : s[i] = piece(i)
        <4>1. DOMAIN s = 1 .. k /\ \A i \in 1 .. k : s[i] = piece(i)
          BY <2>2
        <4>2. k \in Nat /\ Len(s) \in Nat /\ DOMAIN s = 1 .. Len(s)
          OBVIOUS
        <4> QED
          BY <4>1, <4>2
      <3>2. Append(s, c) = [i \in 1 .. k + 1 |-> IF i = k + 1 THEN c ELSE s[i]]
        <4>1. /\ Append(s, c) \in Seq(Chunks) /\ Len(Append(s, c)) = k + 1
              /\ Append(s, c)[k + 1] = c /\ \A i \in 1 .. k : Append(s, c)[i] = s[i]
          BY <3>1, AppendProperties
        <4>2. PICK t \in Seq(Chunks) : t = Append(s, c)
          BY <4>1
        <4>3. t = [i \in 1 .. k + 1 |-> t[i]]
          <5>1. t = [i \in 1 .. Len(t) |-> t[i]]
            OBVIOUS
          <5>2. Len(t) = k + 1
            BY <4>1, <4>2, Zenon
          <5> QED
            BY <5>1, <5>2, Zenon
        <4>4. \A i \in 1 .. k + 1 : t[i] = IF i = k + 1 THEN c ELSE s[i]
          BY <4>1, <4>2
        <4> QED
          BY <4>2, <4>3, <4>4
      <3>3. \A i \in 1 .. k + 1 : piece(i) = IF i = k + 1 THEN c ELSE s[i]
        BY <2>1, <3>1
      <3> QED
        BY <3>2, <3>3
    <2> HIDE DEF piece, pieces
    <2>4. pieces(k + 1) \in Seq(Chunks)
      <3>1. Append(s, c) \in Seq(Chunks)
        BY AppendProperties
      <3> QED
        BY <2>3, <3>1
    <2>5. Joined(pieces(k + 1)) = Joined(s) \o c
      <3>1. s \in Seq(Seq(Bytes)) /\ c \in Seq(Bytes)
        BY ChunksAreBytes DEF Chunks
      <3>2. Joined(Append(s, c)) = Joined(s) \o c
        BY <3>1, JoinedIs, Zenon
      <3> QED
        BY <2>3, <3>2
    <2>6. SubSeq(data, 1, cut(k + 1)) = SubSeq(data, 1, cut(k)) \o SubSeq(data, cut(k) + 1, cut(k + 1))
      <3>1. cut(k) \in Nat /\ cut(k + 1) \in 0 .. Len(data) /\ cut(k) <= cut(k + 1)
        BY <1>1, <1>6
      <3> QED
        BY <3>1, SubSeqGoesOn, Zenon
    <2>7. c = SubSeq(data, cut(k) + 1, cut(k + 1)) /\ Joined(s) = SubSeq(data, 1, cut(k))
      BY <1>6, <1>9, <2>1, <2>2
    <2>8. k + 1 \in 0 .. q
      BY <1>4
    <2> QED
      BY <2>4, <2>5, <2>6, <2>7, <2>8
  <1> HIDE DEF D
  <1>10. q \in D
    <2>1. 0 .. q \subseteq D
      BY <1>4, <1>8, <1>9, BoundedInduction
    <2> QED
      BY <1>4, <2>1
  <1> HIDE DEF pieces
  <1>11. pieces(q) \in Seq(Chunks) /\ Joined(pieces(q)) = SubSeq(data, 1, cut(q))
    BY <1>10 DEF D
  <1>12. SubSeq(data, 1, cut(q)) = data
    <2>1. cut(q) = n
      <3>1. PICK x \in Int : x = q * b
        BY <1>4
      <3> QED
        BY <1>4, <3>1 DEF cut
    <2> QED
      BY <1>1, <2>1, SubSeqFull
  <1>13. LoadData(chunks, data) \in Seq(Chunks)
    BY <1>5, <1>11, ConcatProperties
  <1>14. Joined(chunks \o pieces(q)) = Joined(chunks) \o Joined(pieces(q))
    <2>1. chunks \in Seq(Seq(Bytes)) /\ pieces(q) \in Seq(Seq(Bytes))
      BY <1>11, ChunksAreBytes
    <2> QED
      BY <2>1, JoinedConcat
  <1> QED
    BY <1>5, <1>11, <1>12, <1>13, <1>14

-----------------------------------------------------------------------------
(* The invariant.                                                          *)

Peers == [stage : {"out", "in", "left"}, buffer : Seq(Chunks), begun : Seq(Bytes)]

Typed ==
    /\ running \in BOOLEAN
    /\ clients \in [Slots -> Conns \union {None}]
    /\ buffers \in [Slots -> Seq(Chunks)]
    /\ begun \in [Slots -> Seq(Bytes)]
    /\ backlog \in Seq(Conns)
    /\ peer \in [Conns -> Peers]
    /\ wire \in [Ways -> [Conns -> Seq(Bytes)]]
    /\ written \in [Ways -> [Conns -> Seq(Seq(Bytes))]]
    /\ received \in [Ways -> [Conns -> Seq(Seq(Bytes))]]
    /\ torn \subseteq Ways \X Conns

\* What is begun can be gone on with, as long as somebody does.
Readable ==
    /\ \A c \in Conns : IsBegun(peer[c].begun)
    /\ running => \A s \in Slots : IsBegun(begun[s])

\* A connection is in one place: in the backlog or in one slot.
Linked ==
    /\ \A s, t \in Slots : clients[s] # None /\ clients[s] = clients[t] => s = t
    /\ \A s \in Slots : IF clients[s] = None THEN buffers[s] = <<>>
                        ELSE peer[clients[s]].stage # "out"
    /\ \A i, j \in 1 .. Len(backlog) : backlog[i] = backlog[j] => i = j
    /\ \A i \in 1 .. Len(backlog) : /\ peer[backlog[i]].stage # "out"
                                    /\ \A s \in Slots : clients[s] # backlog[i]

\* There is nothing before a connection is made, and the client that has left has
\* nothing any more.
Empty ==
    \A c \in Conns :
        ~In(c) => /\ peer[c].buffer = <<>> /\ peer[c].begun = <<>> /\ wire["down"][c] = <<>>
                  /\ peer[c].stage = "out" => wire["up"][c] = <<>>

\* The bytes b that are begun, those on the way and those in a buffer are in order;
\* unless the end is cut off they are whole messages.
Sound(b, way, queue, whole) ==
    /\ b \in Seq(Bytes) /\ way \in Seq(Bytes) /\ queue \in Seq(Bytes)
    /\ Orderly(b \o way \o queue) /\ Grouped(b).open = b
    /\ whole => Grouped(b \o way \o queue).open = <<>>

SoundAt(w, c) ==
    <<w, c>> \notin torn => Sound(BegunOf(w, c), wire[w][c], QueuedOf(w, c), In(c))

Streams == \A w \in Ways, c \in Conns : SoundAt(w, c)

IInv == Typed /\ Readable /\ Linked /\ Empty /\ Streams

-----------------------------------------------------------------------------
(* What may become of a stream.                                            *)

LEMMA SoundIs ==
    ASSUME NEW b, NEW way, NEW queue, NEW whole, Sound(b, way, queue, whole)
    PROVE  /\ b \o way \o queue \in Seq(Bytes)
           /\ Grouped(b \o way \o queue).whole \in Seq(Seq(Bytes))
  <1>1. b \in Seq(Bytes) /\ way \in Seq(Bytes) /\ queue \in Seq(Bytes)
    BY DEF Sound
  <1>2. PICK x \in Seq(Bytes) : x = b \o way
    BY <1>1, ConcatStays, Zenon DEF Concatenated
  <1>3. PICK all \in Seq(Bytes) : all = x \o queue
    BY <1>1, ConcatStays, Zenon DEF Concatenated
  <1>4. Grouped(all).whole \in Seq(Seq(Bytes))
    BY GroupedIs DEF Groups
  <1> QED
    BY <1>2, <1>3, <1>4, Zenon

LEMMA NothingIsSound ==
    ASSUME NEW whole \in BOOLEAN
    PROVE  /\ Sound(<<>>, <<>>, <<>>, whole)
           /\ <<>> \o <<>> \o <<>> = <<>>
           /\ Grouped(<<>>).whole = <<>>
  <1>1. <<>> \in Seq(Bytes) /\ <<>> \o <<>> \o <<>> = <<>>
    OBVIOUS
  <1>2. Grouped(<<>>).open = <<>> /\ Grouped(<<>>).whole = <<>>
    BY GroupedIs DEF NoGroup
  <1>3. Orderly(<<>>)
    <2>1. Len(<<>>) = 0
      OBVIOUS
    <2> QED
      BY <2>1 DEF Orderly
  <1> QED
    BY <1>1, <1>2, <1>3 DEF Sound

\* A chunk is sent whole.
SentAs(b, way, chunk, rest, queue, whole) ==
    /\ Sound(b, way \o chunk, rest, whole)
    /\ b \o (way \o chunk) \o rest = b \o way \o queue

LEMMA SentOn ==
    ASSUME NEW b, NEW way, NEW chunk \in Seq(Bytes), NEW rest \in Seq(Bytes), NEW whole \in BOOLEAN,
           NEW queue, queue = chunk \o rest, Sound(b, way, queue, whole)
    PROVE  SentAs(b, way, chunk, rest, queue, whole)
  <1>1. b \in Seq(Bytes) /\ way \in Seq(Bytes)
    BY DEF Sound
  <1>2. PICK x \in Seq(Bytes) : x = b \o way
    BY <1>1, ConcatStays, Zenon DEF Concatenated
  <1>3. Regroups(b, way, chunk) /\ Regroups(x, chunk, rest)
    BY <1>1, Regrouped, Zenon
  <1>4. b \o (way \o chunk) \o rest = b \o way \o queue
    <2>1. (b \o way) \o chunk = b \o (way \o chunk)
      BY <1>3, Zenon DEF Regroups
    <2>2. (x \o chunk) \o rest = x \o (chunk \o rest)
      BY <1>3, Zenon DEF Regroups
    <2> QED
      BY <1>2, <2>1, <2>2, Zenon
  <1>5. way \o chunk \in Seq(Bytes)
    BY <1>1, ConcatStays, Zenon DEF Concatenated
  <1>6. PICK y \in Seq(Bytes) : y = way \o chunk
    BY <1>5
  <1>7. PICK all : all = b \o way \o queue
    OBVIOUS
  <1>8. b \o y \o rest = all
    BY <1>4, <1>6, <1>7
  <1>9. Orderly(all) /\ Grouped(b).open = b /\ (whole => Grouped(all).open = <<>>)
    BY <1>7, Zenon DEF Sound
  <1>10. Sound(b, y, rest, whole)
    BY <1>1, <1>8, <1>9, Zenon DEF Sound
  <1> QED
    BY <1>4, <1>6, <1>10, Zenon DEF SentAs

\* A message is written.
WrittenAs(b, way, queue, m) ==
    /\ Sound(b, way, queue \o m, TRUE)
    /\ Grouped(b \o way \o (queue \o m)).whole = Append(Grouped(b \o way \o queue).whole, m)

LEMMA WrittenOn ==
    ASSUME NEW b, NEW way, NEW queue, Sound(b, way, queue, TRUE),
           NEW id \in 1 .. MaxMessages, NEW size \in Sizes, NEW m, m = Message(id, size)
    PROVE  WrittenAs(b, way, queue, m)
  <1>1. b \in Seq(Bytes) /\ way \in Seq(Bytes) /\ queue \in Seq(Bytes)
    BY DEF Sound
  <1>2. /\ m \in Seq(Bytes) /\ Orderly(m)
        /\ Grouped(m).open = <<>> /\ Grouped(m).whole = <<m>>
    BY MessageIs
  <1>3. PICK all : all = b \o way \o queue
    OBVIOUS
  <1>4. all \in Seq(Bytes) /\ Grouped(all).whole \in Seq(Seq(Bytes)) /\ Orderly(all)
        /\ Grouped(b).open = b /\ Grouped(all).open = <<>>
    <2>1. all \in Seq(Bytes) /\ Grouped(all).whole \in Seq(Seq(Bytes))
      BY <1>3, SoundIs, Zenon
    <2>2. Orderly(all) /\ Grouped(b).open = b /\ Grouped(all).open = <<>>
      BY <1>3, Zenon DEF Sound
    <2> QED
      BY <2>1, <2>2
  <1>5. PICK x \in Seq(Bytes) : x = b \o way
    BY <1>1, ConcatStays, Zenon DEF Concatenated
  <1>6. b \o way \o (queue \o m) = all \o m
    <2>1. Regroups(x, queue, m)
      BY <1>1, <1>2, Regrouped, Zenon
    <2>2. (x \o queue) \o m = x \o (queue \o m)
      BY <2>1, Zenon DEF Regroups
    <2> QED
      BY <1>3, <1>5, <2>2, Zenon
  <1>7. Orderly(all \o m)
    <2>1. all # <<>> => Ends(all[Len(all)])
      BY <1>4, GroupedEnd
    <2> QED
      BY <1>2, <1>4, <2>1, OrderlyConcat
  <1>8. /\ Grouped(all \o m).open = Grouped(Grouped(all).open \o m).open
        /\ Grouped(all \o m).whole = Grouped(all).whole \o Grouped(Grouped(all).open \o m).whole
    BY <1>2, <1>4, GroupedConcat, Zenon
  <1>9. <<>> \o m = m
    BY <1>2, ConcatEmptySeq
  <1>10. /\ Grouped(all \o m).open = <<>>
         /\ Grouped(all \o m).whole = Grouped(all).whole \o <<m>>
    BY <1>2, <1>4, <1>8, <1>9, Zenon
  <1>11. Grouped(all).whole \o <<m>> = Append(Grouped(all).whole, m)
    <2>1. PICK s \in Seq(Seq(Bytes)) : s = Grouped(all).whole
      BY <1>4
    <2>2. s \o <<m>> = Append(s, m)
      BY <1>2
    <2> QED
      BY <2>1, <2>2
  <1>12. queue \o m \in Seq(Bytes)
    BY <1>1, <1>2, ConcatStays, Zenon DEF Concatenated
  <1> QED
    BY <1>1, <1>3, <1>4, <1>6, <1>7, <1>10, <1>11, <1>12, Zenon DEF Sound, WrittenAs

\* Some bytes are read.
ReadAs(b, way, queue, whole, p, rest) ==
    /\ Sound(p.got, rest, queue, whole)
    /\ p.messages \in Seq(Seq(Bytes))
    /\ Grouped(p.got \o rest \o queue).whole \in Seq(Seq(Bytes))
    /\ Grouped(b \o way \o queue).whole = p.messages \o Grouped(p.got \o rest \o queue).whole

LEMMA ReadSound ==
    ASSUME NEW b, NEW way, NEW queue, NEW whole \in BOOLEAN, Sound(b, way, queue, whole), IsBegun(b),
           NEW n \in 0 .. Len(way), NEW p, p = Parsed(b, SubSeq(way, 1, n)),
           NEW rest, rest = SubSeq(way, n + 1, Len(way))
    PROVE  ReadAs(b, way, queue, whole, p, rest)
  <1>1. b \in Seq(Bytes) /\ way \in Seq(Bytes) /\ queue \in Seq(Bytes)
        /\ Grouped(b).open = b /\ Orderly(b \o way \o queue)
    BY DEF Sound
  <1>2. PICK after : after = p.got \o rest \o queue
    OBVIOUS
  <1>3. /\ p.got \in Seq(Bytes) /\ Grouped(p.got).open = p.got
        /\ after \in Seq(Bytes) /\ Orderly(after)
        /\ p.messages \in Seq(Seq(Bytes)) /\ Grouped(after).whole \in Seq(Seq(Bytes))
        /\ Grouped(b \o way \o queue).whole = p.messages \o Grouped(after).whole
        /\ Grouped(b \o way \o queue).open = Grouped(after).open
    <2>1. after = p.got \o SubSeq(way, n + 1, Len(way)) \o queue
      BY <1>2
    <2> QED
      <3>1. ReadsTo(b, way, n, queue, p, after)
        BY <1>1, <2>1, ReadOn, Zenon
      <3> QED
        BY <3>1, Zenon DEF ReadsTo
  <1>4. rest \in Seq(Bytes)
    BY <1>1, Divide
  <1>5. whole => Grouped(b \o way \o queue).open = <<>>
    BY DEF Sound
  <1> QED
    BY <1>1, <1>2, <1>3, <1>4, <1>5, Zenon DEF Sound, ReadAs

\* The end is cut off: of the messages the first are left.
CutAs(b, kept, messages) ==
    /\ Sound(b, kept, <<>>, FALSE)
    /\ \E k \in 0 .. Len(messages) : Grouped(b \o kept \o <<>>).whole = SubSeq(messages, 1, k)

LEMMA CutOff ==
    ASSUME NEW b, NEW way, NEW queue, NEW whole \in BOOLEAN, Sound(b, way, queue, whole),
           NEW n \in 0 .. Len(way), NEW kept, kept = SubSeq(way, 1, n),
           NEW messages, messages = Grouped(b \o way \o queue).whole
    PROVE  CutAs(b, kept, messages)
  <1>1. b \in Seq(Bytes) /\ way \in Seq(Bytes) /\ queue \in Seq(Bytes) /\ Grouped(b).open = b
    BY DEF Sound
  <1>2. kept \in Seq(Bytes)
    BY <1>1, Divide
  <1>3. PICK lost \in Seq(Bytes) : lost = SubSeq(way, n + 1, Len(way)) /\ kept \o lost = way
    BY <1>1, Divide
  <1>4. PICK x \in Seq(Bytes) : x = b \o kept
    BY <1>1, <1>2, ConcatStays, Zenon DEF Concatenated
  <1>5. PICK y \in Seq(Bytes) : y = lost \o queue
    BY <1>1, ConcatStays, Zenon DEF Concatenated
  <1>6. b \o way \o queue = x \o y
    <2>1. Regroups(b, kept, lost) /\ Regroups(x, lost, queue)
      BY <1>1, <1>2, Regrouped, Zenon
    <2>2. (b \o kept) \o lost = b \o (kept \o lost)
      BY <2>1, Zenon DEF Regroups
    <2>3. (x \o lost) \o queue = x \o (lost \o queue)
      BY <2>1, Zenon DEF Regroups
    <2> QED
      BY <1>3, <1>4, <1>5, <2>2, <2>3, Zenon
  <1>7. Orderly(x)
    <2>1. Orderly(x \o y)
      BY <1>6, Zenon DEF Sound
    <2> QED
      BY <2>1, OrderlyConcat
  <1>8. x \o <<>> = x
    BY ConcatEmptySeq
  <1>9. Sound(b, kept, <<>>, FALSE)
    <2>1. <<>> \in Seq(Bytes) /\ b \o kept \o <<>> = x
      BY <1>4, <1>8
    <2> QED
      BY <1>1, <1>2, <1>7, <2>1, Zenon DEF Sound
  <1>10. messages = Grouped(x).whole \o Grouped(Grouped(x).open \o y).whole
    BY <1>6, GroupedConcat, Zenon
  <1>11. PICK s \in Seq(Seq(Bytes)) : s = Grouped(x).whole
    BY GroupedIs DEF Groups
  <1>12. PICK t \in Seq(Seq(Bytes)) : t = Grouped(Grouped(x).open \o y).whole
    <2>1. PICK o \in Seq(Bytes) : o = Grouped(x).open
      BY GroupedOpen
    <2>2. PICK z \in Seq(Bytes) : z = o \o y
      BY ConcatStays, Zenon DEF Concatenated
    <2>3. Grouped(z).whole \in Seq(Seq(Bytes))
      BY GroupedIs DEF Groups
    <2> QED
      BY <2>1, <2>2, <2>3
  <1>13. Len(s) \in 0 .. Len(messages) /\ s = SubSeq(messages, 1, Len(s))
    <2>1. messages = s \o t
      BY <1>10, <1>11, <1>12
    <2>2. PartsAt(s, t, Len(s), s \o t)
      BY PartsOf, Zenon
    <2> QED
      BY <2>1, <2>2, Zenon DEF PartsAt
  <1>14. Grouped(b \o kept \o <<>>).whole = s
    BY <1>4, <1>8, <1>11
  <1> QED
    BY <1>9, <1>13, <1>14, Zenon DEF CutAs

\* What has been begun is dropped, when nothing follows it.
LEMMA Dropped ==
    ASSUME NEW b, NEW whole \in BOOLEAN, Sound(b, <<>>, <<>>, whole)
    PROVE  Grouped(b \o <<>> \o <<>>).whole = <<>>
  <1>1. b \in Seq(Bytes) /\ Grouped(b).open = b
    BY DEF Sound
  <1>2. Grouped(Grouped(b).open) = [open |-> Grouped(b).open, whole |-> <<>>]
    BY <1>1, GroupedOpen, Zenon
  <1>3. b \o <<>> \o <<>> = b
    BY <1>1, ConcatEmptySeq
  <1> QED
    BY <1>1, <1>2, <1>3

-----------------------------------------------------------------------------
(* Numbers of messages; slots.                                             *)

LEMMA NextIdIs == NextId \in Nat \ {0}
  <1> DEFINE Numbers == 1 .. MaxMessages
             Triples == Ways \X Conns \X Numbers
             Pairs == (Ways \X Conns) \X Numbers
             f == [p \in Pairs |-> <<p[1][1], p[1][2], p[2]>>]
  <1>1. IsFiniteSet(Ways) /\ IsFiniteSet(Conns) /\ IsFiniteSet(Numbers)
    <2>1. IsFiniteSet({"up"}) /\ Ways = {"up"} \union {"down"}
      BY FS_Singleton DEF Ways
    <2>2. IsFiniteSet({"up"} \union {"down"})
      BY <2>1, FS_AddElement
    <2>3. IsFiniteSet(1 .. MaxConns) /\ IsFiniteSet(1 .. MaxMessages)
      BY FS_Interval, SocketsAssumption
    <2> QED
      BY <2>1, <2>2, <2>3 DEF Conns
  <1>2. IsFiniteSet(Pairs)
    <2>1. IsFiniteSet(Ways \X Conns)
      BY <1>1, FS_Product
    <2> HIDE DEF Numbers
    <2> QED
      BY <1>1, <2>1, FS_Product
  <1>3. f \in Surjection(Pairs, Triples)
    <2>1. f \in [Pairs -> Triples]
      OBVIOUS
    <2>2. ASSUME NEW t \in Triples PROVE \E p \in Pairs : f[p] = t
      <3>1. <<<<t[1], t[2]>>, t[3]>> \in Pairs /\ t = <<t[1], t[2], t[3]>>
        OBVIOUS
      <3>2. f[<<<<t[1], t[2]>>, t[3]>>] = <<t[1], t[2], t[3]>>
        BY <3>1
      <3> HIDE DEF f
      <3> QED
        BY <3>1, <3>2
    <2> HIDE DEF f, Pairs, Triples
    <2> QED
      BY <2>1, <2>2 DEF Surjection
  <1> HIDE DEF f, Pairs
  <1>4. IsFiniteSet(Triples)
    <2> HIDE DEF Triples
    <2> QED
      BY <1>2, <1>3, FS_Surjection
  <1>5. PICK T : T = {m \in Triples : m[3] <= Len(written[m[1]][m[2]])}
    OBVIOUS
  <1> HIDE DEF Triples
  <1>6. Cardinality(T) \in Nat
    <2>1. T \in SUBSET Triples
      BY <1>5
    <2>2. IsFiniteSet(T)
      BY <1>4, <2>1, FS_Subset
    <2> QED
      BY <2>2, FS_CardinalityType
  <1>7. NextId = 1 + Cardinality(T)
    BY <1>5 DEF NextId, Triples
  <1> QED
    BY <1>6, <1>7

\* No slot is taken twice.
OneSlotEach(cl) == \A s, t \in Slots : cl[s] # None /\ cl[s] = cl[t] => s = t

LEMMA OnlySlot ==
    ASSUME NEW cl, OneSlotEach(cl), NEW s \in Slots, cl[s] # None
    PROVE  (CHOOSE t \in Slots : cl[t] = cl[s]) = s
  <1>1. \A t \in Slots : cl[t] = cl[s] => t = s
    BY DEF OneSlotEach
  <1> QED
    BY <1>1

LEMMA SlotAt ==
    ASSUME Typed, Linked, NEW s \in Slots, clients[s] # None
    PROVE  clients[s] \in Conns /\ HasSlot(clients[s]) /\ SlotOf(clients[s]) = s
  <1>1. OneSlotEach(clients)
    BY DEF Linked, OneSlotEach
  <1>2. SlotOf(clients[s]) = s
    BY <1>1, OnlySlot DEF SlotOf
  <1> QED
    BY <1>2 DEF HasSlot, Typed

LEMMA SlotIn ==
    ASSUME NEW c, HasSlot(c)
    PROVE  SlotOf(c) \in Slots /\ clients[SlotOf(c)] = c
  BY DEF HasSlot, SlotOf

\* The parts of a stream.
LEMMA PartsAre ==
    ASSUME Typed, NEW w \in Ways, NEW c \in Conns
    PROVE  /\ BegunOf(w, c) \in Seq(Bytes) /\ wire[w][c] \in Seq(Bytes)
           /\ QueuedOf(w, c) \in Seq(Bytes)
           /\ received[w][c] \in Seq(Seq(Bytes)) /\ written[w][c] \in Seq(Seq(Bytes))
  <1>1. <<>> \in Seq(Bytes)
    OBVIOUS
  <1>2. peer[c].begun \in Seq(Bytes) /\ peer[c].buffer \in Seq(Chunks)
    <2>1. peer[c] \in Peers
      BY DEF Typed
    <2> QED
      BY <2>1 DEF Peers
  <1>3. BegunOf(w, c) \in Seq(Bytes)
    <2>1. HasSlot(c) => begun[SlotOf(c)] \in Seq(Bytes)
      BY SlotIn DEF Typed
    <2> QED
      BY <1>1, <1>2, <2>1 DEF BegunOf
  <1>4. ASSUME NEW b \in Seq(Chunks) PROVE Joined(b) \in Seq(Bytes)
    BY ChunksAreBytes, JoinedIs
  <1>5. QueuedOf(w, c) \in Seq(Bytes)
    <2>1. HasSlot(c) => buffers[SlotOf(c)] \in Seq(Chunks)
      BY SlotIn DEF Typed
    <2>2. HasSlot(c) => Joined(buffers[SlotOf(c)]) \in Seq(Bytes)
      BY <1>4, <2>1
    <2>3. Joined(peer[c].buffer) \in Seq(Bytes)
      BY <1>2, <1>4
    <2> QED
      BY <1>1, <2>2, <2>3 DEF QueuedOf
  <1> QED
    BY <1>3, <1>5 DEF Typed

-----------------------------------------------------------------------------
(* The steps of Channel.                                                   *)

\* A table of the ways.
IsTable(f) == f = [w \in Ways |-> [c \in Conns |-> f[w][c]]]

EntryIs(f, w, c, x) ==
    [f EXCEPT ![w][c] = x]
        = [v \in Ways |-> [d \in Conns |-> IF v = w /\ d = c THEN x ELSE f[v][d]]]

LEMMA EntryChanged ==
    ASSUME NEW T, NEW f \in [Ways -> [Conns -> T]], NEW w \in Ways, NEW c \in Conns, NEW x
    PROVE  EntryIs(f, w, c, x)
  <1>1. [f[w] EXCEPT ![c] = x] = [d \in Conns |-> IF d = c THEN x ELSE f[w][d]]
    OBVIOUS
  <1>2. [f EXCEPT ![w] = [f[w] EXCEPT ![c] = x]]
            = [v \in Ways |-> IF v = w THEN [f[w] EXCEPT ![c] = x] ELSE f[v]]
    OBVIOUS
  <1>3. ASSUME NEW v \in Ways
        PROVE  (IF v = w THEN [f[w] EXCEPT ![c] = x] ELSE f[v])
                   = [d \in Conns |-> IF v = w /\ d = c THEN x ELSE f[v][d]]
    <2>1. CASE v = w
      BY <1>1, <2>1
    <2>2. CASE v # w
      <3>1. f[v] = [d \in Conns |-> f[v][d]]
        OBVIOUS
      <3> QED
        BY <2>2, <3>1
    <2> QED
      BY <2>1, <2>2
  <1> QED
    BY <1>2, <1>3 DEF EntryIs

Changed(f, w, c, x) == [f EXCEPT ![w][c] = x]
Cleared(f, c, x, y) == [f EXCEPT !["up"][c] = x, !["down"][c] = y]

ChangesAt(f, g, w, c) == g = [f EXCEPT ![w][c] = g[w][c]]

LEMMA OneChanged ==
    ASSUME NEW f, IsTable(f), NEW g, IsTable(g), NEW w \in Ways, NEW c \in Conns,
           \A v \in Ways, d \in Conns : v # w \/ d # c => g[v][d] = f[v][d]
    PROVE  ChangesAt(f, g, w, c)
  <1> DEFINE h == [f EXCEPT ![w][c] = g[w][c]]
  <1> DEFINE T == {f[v][d] : v \in Ways, d \in Conns}
  <1>1. f \in [Ways -> [Conns -> T]]
    BY DEF IsTable
  <1> HIDE DEF T
  <1>2. h = [v \in Ways |-> [d \in Conns |-> IF v = w /\ d = c THEN g[w][c] ELSE f[v][d]]]
    <2>1. EntryIs(f, w, c, g[w][c])
      BY <1>1, EntryChanged, Zenon
    <2> QED
      BY <2>1, Zenon DEF EntryIs
  <1>3. ASSUME NEW v \in Ways, NEW d \in Conns
        PROVE  g[v][d] = IF v = w /\ d = c THEN g[w][c] ELSE f[v][d]
    OBVIOUS
  <1>4. g = [v \in Ways |-> [d \in Conns |-> g[v][d]]]
    BY DEF IsTable
  <1> HIDE DEF h
  <1>5. [v \in Ways |-> [d \in Conns |-> g[v][d]]]
            = [v \in Ways |-> [d \in Conns |-> IF v = w /\ d = c THEN g[w][c] ELSE f[v][d]]]
    BY <1>3, Zenon
  <1>6. g = h
    BY <1>2, <1>4, <1>5, Zenon
  <1> QED
    BY <1>6 DEF h, ChangesAt

BothChange(f, g, c) == g = Cleared(f, c, g["up"][c], g["down"][c])

LEMMA TwoChanged ==
    ASSUME NEW f, IsTable(f), NEW g, IsTable(g), NEW c \in Conns,
           \A v \in Ways, d \in Conns : d # c => g[v][d] = f[v][d]
    PROVE  BothChange(f, g, c)
  <1> DEFINE u == [f EXCEPT !["up"][c] = g["up"][c]]
  <1>0. Ways = {"up", "down"}
    BY DEF Ways
  <1> DEFINE T == {f[v][d] : v \in Ways, d \in Conns}
  <1>1. f \in [Ways -> [Conns -> T]]
    BY DEF IsTable
  <1> HIDE DEF T
  <1>2. u = [v \in Ways |-> [d \in Conns |-> IF v = "up" /\ d = c THEN g["up"][c] ELSE f[v][d]]]
    <2>1. "up" \in Ways
      BY <1>0
    <2>2. EntryIs(f, "up", c, g["up"][c])
      BY <1>1, <2>1, EntryChanged, Zenon
    <2> QED
      BY <2>2, Zenon DEF EntryIs
  <1> HIDE DEF u
  <1>3. IsTable(u)
    BY <1>2 DEF IsTable
  <1>4. g = [u EXCEPT !["down"][c] = g["down"][c]]
    <2>1. \A v \in Ways, d \in Conns : v # "down" \/ d # c => g[v][d] = u[v][d]
      BY <1>0, <1>2
    <2>2. "down" \in Ways
      BY <1>0
    <2> QED
      <3>1. ChangesAt(u, g, "down", c)
        BY <1>3, <2>1, <2>2, OneChanged, Zenon
      <3> QED
        BY <3>1, Zenon DEF ChangesAt
  <1> QED
    BY <1>4, Zenon DEF u, Cleared, BothChange

LEMMA TablesAre ==
    /\ IsTable(Channels) /\ IsTable(Channels)'
    /\ \A w \in Ways, c \in Conns : Channels[w][c] = Way(w, c) /\ Channels'[w][c] = Way(w, c)'
  BY DEF IsTable, Channels

\* The other ways stay what they are.
OthersStay(w, c) == \A v \in Ways, d \in Conns : v # w \/ d # c => Way(v, d)' = Way(v, d)

LEMMA WayChanges ==
    ASSUME NEW w \in Ways, NEW c \in Conns, OthersStay(w, c)
    PROVE  Channels' = Changed(Channels, w, c, Way(w, c)')
  <1>1. \A v \in Ways, d \in Conns : v # w \/ d # c => Channels'[v][d] = Channels[v][d]
    BY TablesAre DEF OthersStay
  <1>2. IsTable(Channels) /\ IsTable(Channels') /\ Channels'[w][c] = Way(w, c)'
    BY TablesAre DEF IsTable
  <1>3. Channels' = [Channels EXCEPT ![w][c] = Channels'[w][c]]
    <2>1. PICK f : f = Channels
      OBVIOUS
    <2>2. PICK g : g = Channels'
      OBVIOUS
    <2>3. g = [f EXCEPT ![w][c] = g[w][c]]
      BY <1>1, <1>2, <2>1, <2>2, OneChanged DEF ChangesAt
    <2> QED
      BY <2>1, <2>2, <2>3
  <1> QED
    BY <1>2, <1>3 DEF Changed

LEMMA NotBroken ==
    ASSUME NEW t, NEW d, NEW q, q = [transit |-> t, delivered |-> d]
    PROVE  q # Broken /\ q.transit = t /\ q.delivered = d
  <1>1. "transit" \in DOMAIN q /\ "transit" \notin DOMAIN Broken
    BY DEF Broken
  <1>2. q # Broken
    BY <1>1, Zenon
  <1> QED
    BY <1>2

Stays == written' = written /\ Left' = Left

LEMMA NothingHappens ==
    ASSUME \A w \in Ways, c \in Conns : Way(w, c)' = Way(w, c), Stays
    PROVE  [Under!Next]_Under!vars
  <1>1. Channels' = Channels
    BY Zenon DEF Channels
  <1>2. UNCHANGED Under!vars
    BY <1>1 DEF Under!vars, Stays
  <1> QED
    BY <1>2

LEMMA NothingHappensTo ==
    ASSUME NEW w \in Ways, NEW c \in Conns, OthersStay(w, c), Way(w, c)' = Way(w, c), Stays
    PROVE  [Under!Next]_Under!vars
  <1>1. \A v \in Ways, d \in Conns : Way(v, d)' = Way(v, d)
    BY DEF OthersStay
  <1> QED
    BY <1>1, NothingHappens

LEMMA Breaks ==
    ASSUME NEW w \in Ways, NEW c \in Conns, OthersStay(w, c), Way(w, c)' = Broken, Stays
    PROVE  [Under!Next]_Under!vars
  <1>1. Channels' = Changed(Channels, w, c, Broken)
    BY WayChanges
  <1>2. Under!Break(w, c)
    BY <1>1 DEF Under!Break, Changed, Stays
  <1> QED
    BY <1>2 DEF Under!Next

Queue(t, d) == [transit |-> t, delivered |-> d]

\* The first messages of a queue are delivered.
Moves(q, p) ==
    /\ q # Broken
    /\ \E n \in 1 .. Len(q.transit) : p = Under!Moved(q, n)

LEMMA MovesOn ==
    ASSUME NEW r \in Seq(Seq(Bytes)), NEW u \in Seq(Seq(Bytes)), NEW d \in Seq(Seq(Bytes)), r # <<>>,
           NEW t, t = r \o u, NEW e, e = d \o r
    PROVE  Moves(Queue(t, d), Queue(u, e))
  <1>1. PICK q : q = Queue(t, d)
    OBVIOUS
  <1>2. q # Broken /\ q.transit = t /\ q.delivered = d
    BY <1>1, NotBroken DEF Queue
  <1>3. PICK n : n = Len(r)
    OBVIOUS
  <1>4. n \in 1 .. Len(t) /\ SubSeq(t, 1, n) = r /\ SubSeq(t, n + 1, Len(t)) = u
    <2>1. PartsAt(r, u, n, t)
      BY <1>3, PartsOf, Zenon
    <2>2. n \in 0 .. Len(t) /\ SubSeq(t, 1, n) = r /\ SubSeq(t, n + 1, Len(t)) = u
      BY <2>1, Zenon DEF PartsAt
    <2>3. n # 0
      BY <1>3, EmptySeq
    <2>4. n \in 1 .. Len(t)
      <3>1. PICK k : k = Len(t)
        OBVIOUS
      <3>2. n \in 0 .. k
        BY <2>2, <3>1, Zenon
      <3>3. k \in Nat
        BY <3>1, ConcatProperties
      <3> QED
        BY <2>3, <3>1, <3>2, <3>3
    <2> QED
      BY <2>2, <2>4, Zenon
  <1>5. Queue(u, e) = Under!Moved(q, n)
    BY <1>2, <1>4, Zenon DEF Queue, Under!Moved, Under!Rest, Under!FirstOf
  <1> QED
    BY <1>1, <1>2, <1>4, <1>5, Zenon DEF Moves

\* What Channel delivers from the table f.
DeliverFrom(f, g, w, c) ==
    /\ f[w][c] # Broken
    /\ \E n \in 1 .. Len(f[w][c].transit) : g = [f EXCEPT ![w][c] = Under!Moved(@, n)]

LEMMA DeliverFromIs ==
    ASSUME NEW f, NEW g, NEW w, NEW c, NEW q, NEW p, q = f[w][c], Moves(q, p), g = Changed(f, w, c, p)
    PROVE  DeliverFrom(f, g, w, c)
  <1>1. PICK n \in 1 .. Len(q.transit) : p = Under!Moved(q, n)
    BY DEF Moves
  <1>2. g = Changed(f, w, c, Under!Moved(f[w][c], n)) /\ n \in 1 .. Len(f[w][c].transit) /\ f[w][c] # Broken
    BY <1>1, Zenon DEF Moves
  <1> QED
    BY <1>2, Zenon DEF DeliverFrom, Changed

LEMMA Delivers ==
    ASSUME NEW w \in Ways, NEW c \in Conns, OthersStay(w, c), Stays, Moves(Way(w, c), Way(w, c)')
    PROVE  [Under!Next]_Under!vars
  <1>1. Channels[w][c] = Way(w, c)
    BY TablesAre
  <1>2. Channels' = Changed(Channels, w, c, Way(w, c)')
    BY WayChanges, Zenon
  <1>3. DeliverFrom(Channels, Channels', w, c)
    BY <1>1, <1>2, DeliverFromIs, Zenon
  <1>4. Under!Deliver(w, c)
    BY <1>3, Zenon DEF Under!Deliver, DeliverFrom, Stays
  <1> QED
    BY <1>4, Zenon DEF Under!Next

\* What Channel writes into the table f, and what it leaves of it.
WriteInto(f, g, w, c, x, gone) ==
    g = IF f[w][c] = Broken \/ c \in gone THEN f
        ELSE [f EXCEPT ![w][c].transit = Append(@, x)]

LEMMA WriteIntoIs ==
    ASSUME NEW f, NEW g, NEW w, NEW c, NEW x, NEW gone,
           IF f[w][c] = Broken \/ c \in gone THEN g = f
           ELSE g = Changed(f, w, c, [f[w][c] EXCEPT !.transit = Append(@, x)])
    PROVE  WriteInto(f, g, w, c, x, gone)
  BY Zenon DEF WriteInto, Changed

LeaveOf(f, g, c) ==
    \E kept \in 0 .. Under!Under(f["up"][c]), last \in 0 .. Under!Under(f["down"][c]) :
        g = [f EXCEPT
                !["up"][c] = Under!Cut(@, kept),
                !["down"][c] = IF @ = Broken THEN Broken ELSE Under!Cut(Under!Moved(@, last), 0)]

LEMMA LeaveOfIs ==
    ASSUME NEW f, NEW g, NEW c \in Conns, IsTable(f), NEW x, NEW y, NEW kept, NEW last,
           x = f["up"][c], y = f["down"][c], kept \in 0 .. Under!Under(x), last \in 0 .. Under!Under(y),
           g = Cleared(f, c, Under!Cut(x, kept),
                       IF y = Broken THEN Broken ELSE Under!Cut(Under!Moved(y, last), 0))
    PROVE  LeaveOf(f, g, c)
  <1>1. [f EXCEPT !["up"][c] = Under!Cut(x, kept)]["down"][c] = f["down"][c]
    <2>1. "up" # "down" /\ "down" \in Ways
      BY DEF Ways
    <2> QED
      BY <2>1 DEF IsTable
  <1> QED
    BY <1>1, Zenon DEF LeaveOf, Cleared

\* A message is written, to a client that may have left.
Puts(q, p, m, gone) ==
    IF q = Broken \/ gone THEN p = q ELSE p = [q EXCEPT !.transit = Append(@, m)]

LEMMA PutsInto ==
    ASSUME NEW w \in Ways, NEW c \in Conns, OthersStay(w, c), NEW m, Puts(Way(w, c), Way(w, c)', m, c \in Left)
    PROVE  WriteInto(Channels, Channels', w, c, m, Left)
  <1>1. Channels[w][c] = Way(w, c)
    BY TablesAre
  <1>2. Channels' = Changed(Channels, w, c, Way(w, c)')
    BY WayChanges, Zenon
  <1>3. CASE Way(w, c) = Broken \/ c \in Left
    <2>1. Way(w, c)' = Way(w, c)
      BY <1>3, Zenon DEF Puts
    <2>2. \A v \in Ways, d \in Conns : Way(v, d)' = Way(v, d)
      BY <2>1 DEF OthersStay
    <2>3. Channels' = Channels
      BY <2>2, Zenon DEF Channels
    <2> QED
      BY <1>1, <1>3, <2>3, WriteIntoIs, Zenon
  <1>4. CASE ~(Way(w, c) = Broken \/ c \in Left)
    <2>1. Way(w, c)' = [Way(w, c) EXCEPT !.transit = Append(@, m)]
      BY <1>4, Zenon DEF Puts
    <2>2. Channels' = Changed(Channels, w, c, [Channels[w][c] EXCEPT !.transit = Append(@, m)])
      BY <1>1, <1>2, <2>1, Zenon
    <2> QED
      BY <1>1, <1>4, <2>2, WriteIntoIs, Zenon
  <1> QED
    BY <1>3, <1>4, Zenon

WritesTo(w, c, m) == written' = [written EXCEPT ![w][c] = Append(@, m)]

LEMMA WritesIs ==
    ASSUME NEW w \in Ways, NEW c \in Conns, Left' = Left, NEW m \in Messages, WritesTo(w, c, m),
           WriteInto(Channels, Channels', w, c, m, Left)
    PROVE  Under!Write(w, c)
  <1>1. Under!Put(w, c, m)
    BY Zenon DEF Under!Put, WriteInto
  <1> QED
    BY <1>1, Zenon DEF Under!Write, WritesTo

LEMMA Writes ==
    ASSUME NEW w \in Ways, NEW c \in Conns, OthersStay(w, c), Left' = Left,
           NEW id \in 1 .. MaxMessages, NEW size \in Sizes, NEW m, m = Message(id, size),
           WritesTo(w, c, m), Puts(Way(w, c), Way(w, c)', m, c \in Left)
    PROVE  [Under!Next]_Under!vars
  <1>1. m \in Messages
    BY DEF Messages
  <1>2. WriteInto(Channels, Channels', w, c, m, Left)
    BY PutsInto, Zenon
  <1>3. Under!Write(w, c)
    BY <1>1, <1>2, WritesIs, Zenon
  <1> QED
    BY <1>3, Zenon DEF Under!Next

\* What is left of a way when its client leaves.
LEMMA Leaves ==
    ASSUME NEW c \in Conns, \A v \in Ways, d \in Conns : d # c => Way(v, d)' = Way(v, d),
           c \notin Left, Left' = Left \union {c}, written' = written,
           NEW kept, NEW last,
           kept \in 0 .. Under!Under(Way("up", c)), last \in 0 .. Under!Under(Way("down", c)),
           Way("up", c)' = Under!Cut(Way("up", c), kept),
           Way("down", c)' = IF Way("down", c) = Broken THEN Broken
                             ELSE Under!Cut(Under!Moved(Way("down", c), last), 0)
    PROVE  [Under!Next]_Under!vars
  <1>1. "up" \in Ways /\ "down" \in Ways /\ "up" # "down"
    BY DEF Ways
  <1>2. Channels["up"][c] = Way("up", c) /\ Channels["down"][c] = Way("down", c)
    BY <1>1, TablesAre
  <1>3. Channels' = Cleared(Channels, c, Way("up", c)', Way("down", c)')
    <2>1. \A v \in Ways, d \in Conns : d # c => Channels'[v][d] = Channels[v][d]
      BY TablesAre
    <2>2. IsTable(Channels) /\ IsTable(Channels') /\ Channels'["up"][c] = Way("up", c)' /\ Channels'["down"][c] = Way("down", c)'
      BY <1>1, TablesAre DEF IsTable
    <2>3. Channels' = Cleared(Channels, c, Channels'["up"][c], Channels'["down"][c])
      <3>1. BothChange(Channels, Channels', c)
        BY <2>1, <2>2, TwoChanged, Zenon
      <3> QED
        BY <3>1, Zenon DEF BothChange
    <2> QED
      BY <2>2, <2>3, Zenon
  <1>4. LeaveOf(Channels, Channels', c)
    <2>1. Channels' = Cleared(Channels, c, Under!Cut(Way("up", c), kept),
                           IF Way("down", c) = Broken THEN Broken
                           ELSE Under!Cut(Under!Moved(Way("down", c), last), 0))
      BY <1>3, Zenon
    <2>2. IsTable(Channels)
      BY TablesAre
    <2>3. PICK f : f = Channels
      OBVIOUS
    <2>4. PICK g : g = Channels'
      OBVIOUS
    <2> QED
      BY <1>2, <2>1, <2>2, LeaveOfIs, Zenon
  <1>5. Under!Leave(c)
    BY <1>4, Zenon DEF Under!Leave, LeaveOf
  <1> QED
    BY <1>5, Zenon DEF Under!Next

-----------------------------------------------------------------------------
(* What a step makes of one stream.                                        *)

LEMMA WayIs ==
    ASSUME NEW w \in Ways, NEW c \in Conns
    PROVE  /\ <<w, c>> \in torn => Way(w, c) = Broken
           /\ <<w, c>> \notin torn =>
                  Way(w, c) = Queue(Grouped(BegunOf(w, c) \o wire[w][c] \o QueuedOf(w, c)).whole,
                                    received[w][c])
           /\ <<w, c>> \in torn' => Way(w, c)' = Broken
           /\ <<w, c>> \notin torn' =>
                  Way(w, c)' = Queue(Grouped(BegunOf(w, c)' \o wire'[w][c] \o QueuedOf(w, c)').whole,
                                     received'[w][c])
  BY Zenon DEF Way, Queue, WholeMessages, Unread

LEMMA TornStays ==
    ASSUME NEW w \in Ways, NEW c \in Conns, <<w, c>> \in torn, torn \subseteq torn'
    PROVE  SoundAt(w, c)' /\ Way(w, c)' = Way(w, c) /\ Way(w, c) = Broken
  <1>1. <<w, c>> \in torn'
    OBVIOUS
  <1>2. Way(w, c) = Broken /\ Way(w, c)' = Broken
    BY <1>1, WayIs, Zenon
  <1> QED
    BY <1>1, <1>2, Zenon DEF SoundAt

Same(w, c) ==
    /\ In(c)' = In(c) /\ BegunOf(w, c)' = BegunOf(w, c) /\ wire'[w][c] = wire[w][c]
    /\ QueuedOf(w, c)' = QueuedOf(w, c) /\ received'[w][c] = received[w][c]
    /\ <<w, c>> \in torn' <=> <<w, c>> \in torn

LEMMA SameStays ==
    ASSUME NEW w \in Ways, NEW c \in Conns, Same(w, c), SoundAt(w, c)
    PROVE  SoundAt(w, c)' /\ Way(w, c)' = Way(w, c)
  <1>1. SoundAt(w, c)'
    BY Zenon DEF SoundAt, Same
  <1>2. Way(w, c)' = Way(w, c)
    BY Zenon DEF Way, WholeMessages, Unread, Same
  <1> QED
    BY <1>1, <1>2

\* A chunk is sent whole: what is not read yet stays the same.
Sends(w, c, chunk, rest) ==
    /\ In(c)' = In(c) /\ BegunOf(w, c)' = BegunOf(w, c) /\ wire'[w][c] = wire[w][c] \o chunk
    /\ QueuedOf(w, c) = chunk \o rest /\ QueuedOf(w, c)' = rest
    /\ received'[w][c] = received[w][c]
    /\ <<w, c>> \in torn' <=> <<w, c>> \in torn

LEMMA SendsStay ==
    ASSUME NEW w \in Ways, NEW c \in Conns, NEW chunk \in Seq(Bytes), NEW rest \in Seq(Bytes),
           Sends(w, c, chunk, rest), SoundAt(w, c)
    PROVE  SoundAt(w, c)' /\ Way(w, c)' = Way(w, c)
  <1>1. CASE <<w, c>> \in torn
    <2>1. <<w, c>> \in torn'
      BY <1>1, Zenon DEF Sends
    <2> QED
      BY <1>1, <2>1, WayIs, Zenon DEF SoundAt
  <1>2. CASE <<w, c>> \notin torn
    <2>1. <<w, c>> \notin torn'
      BY <1>2, Zenon DEF Sends
    <2>2. PICK in \in BOOLEAN : in = In(c)
      BY DEF In
    <2>3. PICK b, way, queue : b = BegunOf(w, c) /\ way = wire[w][c] /\ queue = QueuedOf(w, c)
      OBVIOUS
    <2>4. Sound(b, way, queue, in)
      BY <1>2, <2>2, <2>3, Zenon DEF SoundAt
    <2>5. queue = chunk \o rest
      BY <2>3, Zenon DEF Sends
    <2>6. /\ Sound(b, way \o chunk, rest, in)
          /\ b \o (way \o chunk) \o rest = b \o way \o queue
      <3>1. SentAs(b, way, chunk, rest, queue, in)
        BY <2>4, <2>5, SentOn, Zenon
      <3> QED
        BY <3>1, Zenon DEF SentAs
    <2>7. BegunOf(w, c)' = b /\ wire'[w][c] = way \o chunk /\ QueuedOf(w, c)' = rest /\ In(c)' = in
          /\ received'[w][c] = received[w][c]
      BY <2>2, <2>3, Zenon DEF Sends
    <2>8. SoundAt(w, c)'
      BY <2>6, <2>7, Zenon DEF SoundAt
    <2>9. Way(w, c)' = Queue(Grouped(b \o way \o queue).whole, received[w][c])
      BY <2>1, <2>6, <2>7, WayIs, Zenon
    <2>10. Way(w, c) = Queue(Grouped(b \o way \o queue).whole, received[w][c])
      BY <1>2, <2>3, WayIs, Zenon
    <2> QED
      BY <2>8, <2>9, <2>10
  <1> QED
    BY <1>1, <1>2

\* Some bytes are read.
Reads(w, c, p, rest) ==
    /\ In(c)' = In(c) /\ BegunOf(w, c)' = p.got /\ wire'[w][c] = rest
    /\ QueuedOf(w, c)' = QueuedOf(w, c)
    /\ received'[w][c] = received[w][c] \o p.messages
    /\ <<w, c>> \in torn' <=> <<w, c>> \in torn

LEMMA QueueOn ==
    ASSUME NEW r \in Seq(Seq(Bytes)), NEW u \in Seq(Seq(Bytes)), NEW d \in Seq(Seq(Bytes)),
           NEW t, t = r \o u, NEW e, e = d \o r
    PROVE  Queue(u, e) = Queue(t, d) \/ Moves(Queue(t, d), Queue(u, e))
  <1>1. CASE r = <<>>
    <2>1. r \o u = u /\ d \o r = d
      BY <1>1, ConcatEmptySeq
    <2> QED
      BY <2>1, Zenon
  <1>2. CASE r # <<>>
    BY <1>2, MovesOn, Zenon
  <1> QED
    BY <1>1, <1>2

LEMMA ReadsStay ==
    ASSUME Typed, NEW w \in Ways, NEW c \in Conns, IsBegun(BegunOf(w, c)),
           NEW n \in 0 .. Len(wire[w][c]),
           NEW p, p = Parsed(BegunOf(w, c), SubSeq(wire[w][c], 1, n)),
           NEW rest, rest = SubSeq(wire[w][c], n + 1, Len(wire[w][c])),
           Reads(w, c, p, rest), SoundAt(w, c)
    PROVE  SoundAt(w, c)' /\ (Way(w, c)' = Way(w, c) \/ Moves(Way(w, c), Way(w, c)'))
  <1>1. CASE <<w, c>> \in torn
    <2>1. <<w, c>> \in torn'
      BY <1>1, Zenon DEF Reads
    <2> QED
      BY <1>1, <2>1, WayIs, Zenon DEF SoundAt
  <1>2. CASE <<w, c>> \notin torn
    <2>1. <<w, c>> \notin torn'
      BY <1>2, Zenon DEF Reads
    <2>2. PICK in \in BOOLEAN : in = In(c)
      BY DEF In
    <2>3. PICK b, way, queue : b = BegunOf(w, c) /\ way = wire[w][c] /\ queue = QueuedOf(w, c)
      OBVIOUS
    <2>4. Sound(b, way, queue, in)
      BY <1>2, <2>2, <2>3, Zenon DEF SoundAt
    <2>5. ReadAs(b, way, queue, in, p, rest)
      BY <2>3, <2>4, ReadSound, Zenon
    <2>6. BegunOf(w, c)' = p.got /\ wire'[w][c] = rest /\ QueuedOf(w, c)' = queue /\ In(c)' = in
          /\ received'[w][c] = received[w][c] \o p.messages
      BY <2>2, <2>3, Zenon DEF Reads
    <2>7. SoundAt(w, c)'
      BY <2>5, <2>6, Zenon DEF SoundAt, ReadAs
    <2>8. PICK u : u = Grouped(p.got \o rest \o queue).whole
      OBVIOUS
    <2>9. PICK t : t = Grouped(b \o way \o queue).whole
      OBVIOUS
    <2>10. Way(w, c)' = Queue(u, received'[w][c])
      BY <2>1, <2>6, <2>8, WayIs, Zenon
    <2>11. Way(w, c) = Queue(t, received[w][c])
      BY <1>2, <2>3, <2>9, WayIs, Zenon
    <2>12. PICK r : r = p.messages
      OBVIOUS
    <2>13. t = r \o u /\ r \in Seq(Seq(Bytes)) /\ u \in Seq(Seq(Bytes))
      BY <2>5, <2>8, <2>9, <2>12, Zenon DEF ReadAs
    <2>14. received[w][c] \in Seq(Seq(Bytes))
      BY DEF Typed
    <2>15. received'[w][c] = received[w][c] \o r
      BY <2>6, <2>12, Zenon
    <2>16. \/ Queue(u, received'[w][c]) = Queue(t, received[w][c])
           \/ Moves(Queue(t, received[w][c]), Queue(u, received'[w][c]))
      BY <2>13, <2>14, <2>15, QueueOn, Zenon
    <2> QED
      BY <2>7, <2>10, <2>11, <2>16, Zenon
  <1> QED
    BY <1>1, <1>2

\* A message is written.
PutsTo(w, c, m) ==
    /\ In(c)' = In(c) /\ BegunOf(w, c)' = BegunOf(w, c) /\ wire'[w][c] = wire[w][c]
    /\ QueuedOf(w, c)' = QueuedOf(w, c) \o m
    /\ received'[w][c] = received[w][c]
    /\ <<w, c>> \in torn' <=> <<w, c>> \in torn

LEMMA LeftIs == ASSUME NEW c \in Conns PROVE In(c) => c \notin Left
  BY DEF In, Left

LEMMA PutsStay ==
    ASSUME NEW w \in Ways, NEW c \in Conns, In(c), NEW id \in 1 .. MaxMessages, NEW size \in Sizes,
           NEW m, m = Message(id, size), PutsTo(w, c, m), SoundAt(w, c)
    PROVE  SoundAt(w, c)' /\ Puts(Way(w, c), Way(w, c)', m, c \in Left)
  <1>1. CASE <<w, c>> \in torn
    <2>1. <<w, c>> \in torn'
      BY <1>1, Zenon DEF PutsTo
    <2> QED
      BY <1>1, <2>1, WayIs, Zenon DEF SoundAt, Puts
  <1>2. CASE <<w, c>> \notin torn
    <2>1. <<w, c>> \notin torn'
      BY <1>2, Zenon DEF PutsTo
    <2>3. PICK b, way, queue : b = BegunOf(w, c) /\ way = wire[w][c] /\ queue = QueuedOf(w, c)
      OBVIOUS
    <2>4. Sound(b, way, queue, TRUE)
      <3>1. Sound(b, way, queue, In(c))
        BY <1>2, <2>3, Zenon DEF SoundAt
      <3> QED
        BY <3>1, Zenon DEF Sound
    <2>5. WrittenAs(b, way, queue, m)
      BY <2>4, WrittenOn, Zenon
    <2>6. BegunOf(w, c)' = b /\ wire'[w][c] = way /\ QueuedOf(w, c)' = queue \o m /\ In(c)' = In(c)
          /\ received'[w][c] = received[w][c]
      BY <2>3, Zenon DEF PutsTo
    <2>7. SoundAt(w, c)'
      <3>1. Sound(b, way, queue \o m, In(c)')
        BY <2>5, Zenon DEF WrittenAs, Sound
      <3> QED
        BY <2>6, <3>1, Zenon DEF SoundAt
    <2>8. PICK t, d : t = Grouped(b \o way \o queue).whole /\ d = received[w][c]
      OBVIOUS
    <2>9. Way(w, c) = Queue(t, d)
      BY <1>2, <2>3, <2>8, WayIs, Zenon
    <2>10. Way(w, c)' = Queue(Append(t, m), d)
      <3>1. Way(w, c)' = Queue(Grouped(b \o way \o (queue \o m)).whole, d)
        BY <2>1, <2>6, <2>8, WayIs, Zenon
      <3> QED
        BY <2>5, <2>8, <3>1, Zenon DEF WrittenAs
    <2>11. Puts(Queue(t, d), Queue(Append(t, m), d), m, FALSE)
      <3>1. PICK q : q = Queue(t, d)
        OBVIOUS
      <3>2. q # Broken
        BY <3>1, NotBroken, Zenon DEF Queue
      <3>3. [q EXCEPT !.transit = Append(@, m)] = Queue(Append(t, m), d)
        BY <3>1 DEF Queue
      <3> QED
        BY <3>1, <3>2, <3>3, Zenon DEF Puts
    <2>12. Puts(Queue(t, d), Queue(Append(t, m), d), m, c \in Left)
      BY <2>11, LeftIs, Zenon DEF Puts
    <2> QED
      BY <2>7, <2>9, <2>10, <2>12, Zenon
  <1> QED
    BY <1>1, <1>2

\* The client leaves: of the way to the server the end is lost.
CutUp(q, p) == \E kept \in 0 .. Under!Under(q) : p = Under!Cut(q, kept)

EndsUp(w, c, kept) ==
    /\ ~In(c)' /\ BegunOf(w, c)' = BegunOf(w, c) /\ wire'[w][c] = SubSeq(wire[w][c], 1, kept)
    /\ QueuedOf(w, c)' = <<>> /\ received'[w][c] = received[w][c]
    /\ <<w, c>> \in torn' <=> <<w, c>> \in torn

LEMMA BrokenCut ==
    /\ CutUp(Broken, Broken)
    /\ \E last \in 0 .. Under!Under(Broken) :
           Broken = IF Broken = Broken THEN Broken ELSE Under!Cut(Under!Moved(Broken, last), 0)
  <1>1. 0 \in 0 .. Under!Under(Broken)
    BY DEF Under!Under
  <1>2. Broken = Under!Cut(Broken, 0)
    BY Zenon DEF Under!Cut
  <1>3. CutUp(Broken, Broken)
    BY <1>1, <1>2, Zenon DEF CutUp
  <1> QED
    BY <1>1, <1>3, Zenon

With(q, x) == [q EXCEPT !.transit = x]

LEMMA QueueWith ==
    ASSUME NEW t, NEW d, NEW q, q = Queue(t, d), NEW x
    PROVE  With(q, x) = Queue(x, d)
  BY DEF Queue, With

LEMMA QueueCut ==
    ASSUME NEW t, NEW d, NEW k, k \in 0 .. Len(t), NEW s, s = SubSeq(t, 1, k)
    PROVE  CutUp(Queue(t, d), Queue(s, d))
  <1>1. PICK q : q = Queue(t, d)
    OBVIOUS
  <1>2. q # Broken /\ q.transit = t
    BY <1>1, NotBroken DEF Queue
  <1>3. With(q, SubSeq(q.transit, 1, k)) = Queue(s, d)
    <2>1. With(q, s) = Queue(s, d)
      BY <1>1, QueueWith, Zenon
    <2>2. SubSeq(q.transit, 1, k) = s
      BY <1>2, Zenon
    <2> QED
      BY <2>1, <2>2, Zenon
  <1>4. Under!Cut(q, k) = Queue(s, d)
    BY <1>2, <1>3, Zenon DEF Under!Cut, Under!FirstOf, With
  <1>5. k \in 0 .. Under!Under(q)
    BY <1>2, Zenon DEF Under!Under
  <1>6. CutUp(q, Queue(s, d))
    BY <1>4, <1>5, Zenon DEF CutUp
  <1> QED
    BY <1>1, <1>6, Zenon

LEMMA EndsUpStay ==
    ASSUME NEW w \in Ways, NEW c \in Conns, NEW kept \in 0 .. Len(wire[w][c]),
           EndsUp(w, c, kept), SoundAt(w, c)
    PROVE  SoundAt(w, c)' /\ CutUp(Way(w, c), Way(w, c)')
  <1>1. CASE <<w, c>> \in torn
    <2>1. <<w, c>> \in torn'
      BY <1>1, Zenon DEF EndsUp
    <2>2. SoundAt(w, c)' /\ Way(w, c) = Broken /\ Way(w, c)' = Broken
      BY <1>1, <2>1, WayIs, Zenon DEF SoundAt
    <2> QED
      BY <2>2, BrokenCut, Zenon
  <1>2. CASE <<w, c>> \notin torn
    <2>1. <<w, c>> \notin torn'
      BY <1>2, Zenon DEF EndsUp
    <2>2. PICK in \in BOOLEAN : in = In(c)
      BY DEF In
    <2>3. PICK b, way, queue : b = BegunOf(w, c) /\ way = wire[w][c] /\ queue = QueuedOf(w, c)
      OBVIOUS
    <2>4. Sound(b, way, queue, in)
      BY <1>2, <2>2, <2>3, Zenon DEF SoundAt
    <2>5. PICK s, t, d : /\ s = SubSeq(way, 1, kept) /\ d = received[w][c]
                         /\ t = Grouped(b \o way \o queue).whole
      OBVIOUS
    <2>6. CutAs(b, s, t)
      BY <2>3, <2>4, <2>5, CutOff, Zenon
    <2>7. BegunOf(w, c)' = b /\ wire'[w][c] = s /\ QueuedOf(w, c)' = <<>> /\ ~In(c)'
          /\ received'[w][c] = d
      BY <2>3, <2>5, Zenon DEF EndsUp
    <2>8. SoundAt(w, c)'
      <3>1. Sound(b, s, <<>>, In(c)')
        BY <2>6, <2>7, Zenon DEF CutAs, Sound
      <3> QED
        BY <2>7, <3>1, Zenon DEF SoundAt
    <2>9. Way(w, c) = Queue(t, d)
      BY <1>2, <2>3, <2>5, WayIs, Zenon
    <2>10. PICK k \in 0 .. Len(t) : Grouped(b \o s \o <<>>).whole = SubSeq(t, 1, k)
      BY <2>6, Zenon DEF CutAs
    <2>11. Way(w, c)' = Queue(SubSeq(t, 1, k), d)
      <3>1. Way(w, c)' = Queue(Grouped(b \o s \o <<>>).whole, d)
        BY <2>1, <2>7, WayIs, Zenon
      <3> QED
        BY <2>10, <3>1, Zenon
    <2>12. CutUp(Queue(t, d), Queue(SubSeq(t, 1, k), d))
      BY QueueCut, Zenon
    <2> QED
      BY <2>8, <2>9, <2>11, <2>12, Zenon
  <1> QED
    BY <1>1, <1>2

\* The client leaves: on its way to the client all is lost but what it has processed
\* in its last moments.
CutDown(q, p) ==
    \E last \in 0 .. Under!Under(q) :
        p = IF q = Broken THEN Broken ELSE Under!Cut(Under!Moved(q, last), 0)

EndsDown(w, c, r) ==
    /\ ~In(c)' /\ BegunOf(w, c)' = <<>> /\ wire'[w][c] = <<>> /\ QueuedOf(w, c)' = <<>>
    /\ received'[w][c] = received[w][c] \o r
    /\ <<w, c>> \in torn' <=> <<w, c>> \in torn

LEMMA QueueEnds ==
    ASSUME NEW r \in Seq(Seq(Bytes)), NEW u \in Seq(Seq(Bytes)), NEW t, t = r \o u, NEW d,
           NEW e, e = d \o r
    PROVE  CutDown(Queue(t, d), Queue(<<>>, e))
  <1>1. PICK q : q = Queue(t, d)
    OBVIOUS
  <1>2. q # Broken /\ q.transit = t /\ q.delivered = d
    BY <1>1, NotBroken DEF Queue
  <1>3. PICK n : n = Len(r)
    OBVIOUS
  <1>4. n \in 0 .. Len(t) /\ SubSeq(t, 1, n) = r /\ SubSeq(t, n + 1, Len(t)) = u
    <2>1. PartsAt(r, u, n, t)
      BY <1>3, PartsOf, Zenon
    <2> QED
      BY <2>1, Zenon DEF PartsAt
  <1>5. Under!Moved(q, n) = Queue(u, e)
    BY <1>2, <1>4, Zenon DEF Queue, Under!Moved, Under!Rest, Under!FirstOf
  <1>6. Under!Cut(Queue(u, e), 0) = Queue(<<>>, e)
    <2>1. PICK p : p = Queue(u, e)
      OBVIOUS
    <2>2. p # Broken /\ p.transit = u
      BY <2>1, NotBroken DEF Queue
    <2>3. SubSeq(u, 1, 0) = <<>>
      OBVIOUS
    <2>4. With(p, SubSeq(p.transit, 1, 0)) = Queue(<<>>, e)
      <3>1. With(p, <<>>) = Queue(<<>>, e)
        BY <2>1, QueueWith, Zenon
      <3>2. SubSeq(p.transit, 1, 0) = <<>>
        BY <2>2, <2>3, Zenon
      <3> QED
        BY <3>1, <3>2, Zenon
    <2>5. Under!Cut(p, 0) = Queue(<<>>, e)
      BY <2>2, <2>4, Zenon DEF Under!Cut, Under!FirstOf, With
    <2> QED
      BY <2>1, <2>5, Zenon
  <1>7. n \in 0 .. Under!Under(q)
    BY <1>2, <1>4, Zenon DEF Under!Under
  <1>8. Queue(<<>>, e) = Under!Cut(Under!Moved(q, n), 0)
    BY <1>5, <1>6, Zenon
  <1>9. CutDown(q, Queue(<<>>, e))
    BY <1>2, <1>7, <1>8, Zenon DEF CutDown
  <1> QED
    BY <1>1, <1>9, Zenon

LEMMA EndsDownStay ==
    ASSUME Typed, NEW w \in Ways, NEW c \in Conns, NEW r, EndsDown(w, c, r),
           <<w, c>> \notin torn =>
               \E u \in Seq(Seq(Bytes)) :
                   /\ r \in Seq(Seq(Bytes))
                   /\ Grouped(BegunOf(w, c) \o wire[w][c] \o QueuedOf(w, c)).whole = r \o u
    PROVE  SoundAt(w, c)' /\ CutDown(Way(w, c), Way(w, c)')
  <1>1. CASE <<w, c>> \in torn
    <2>1. <<w, c>> \in torn'
      BY <1>1, Zenon DEF EndsDown
    <2>2. SoundAt(w, c)' /\ Way(w, c) = Broken /\ Way(w, c)' = Broken
      BY <1>1, <2>1, WayIs, Zenon DEF SoundAt
    <2> QED
      BY <2>2, BrokenCut, Zenon DEF CutDown
  <1>2. CASE <<w, c>> \notin torn
    <2>1. <<w, c>> \notin torn'
      BY <1>2, Zenon DEF EndsDown
    <2>2. PICK t, d, e : /\ t = Grouped(BegunOf(w, c) \o wire[w][c] \o QueuedOf(w, c)).whole
                         /\ d = received[w][c] /\ e = received'[w][c]
      OBVIOUS
    <2>3. PICK u \in Seq(Seq(Bytes)) : r \in Seq(Seq(Bytes)) /\ t = r \o u
      BY <1>2, <2>2, Zenon
    <2>4. SoundAt(w, c)'
      <3>1. Sound(<<>>, <<>>, <<>>, FALSE)
        BY NothingIsSound, Zenon
      <3>2. Sound(<<>>, <<>>, <<>>, In(c)')
        BY <3>1, Zenon DEF EndsDown, Sound
      <3> QED
        BY <3>2, Zenon DEF SoundAt, EndsDown
    <2>5. Way(w, c) = Queue(t, d)
      BY <1>2, <2>2, WayIs, Zenon
    <2>6. Way(w, c)' = Queue(<<>>, e)
      <3>1. Way(w, c)' = Queue(Grouped(<<>> \o <<>> \o <<>>).whole, e)
        BY <2>1, <2>2, WayIs, Zenon DEF EndsDown
      <3>2. Grouped(<<>> \o <<>> \o <<>>).whole = <<>>
        BY NothingIsSound, Zenon
      <3> QED
        BY <3>1, <3>2, Zenon
    <2>7. e = d \o r
      BY <2>2, Zenon DEF EndsDown
    <2>8. CutDown(Queue(t, d), Queue(<<>>, e))
      BY <2>3, <2>7, QueueEnds, Zenon
    <2> QED
      BY <2>4, <2>5, <2>6, <2>8, Zenon
  <1> QED
    BY <1>1, <1>2

\* The server closes the connection of a client that has left: nothing is on the way
\* any more, and the beginning of a message will not be gone on with.
Closes(w, c) ==
    /\ In(c)' = In(c) /\ ~In(c) /\ wire[w][c] = <<>> /\ wire'[w][c] = <<>>
    /\ QueuedOf(w, c) = <<>> /\ QueuedOf(w, c)' = <<>> /\ BegunOf(w, c)' = <<>>
    /\ received'[w][c] = received[w][c]
    /\ <<w, c>> \in torn' <=> <<w, c>> \in torn

LEMMA ClosesStay ==
    ASSUME NEW w \in Ways, NEW c \in Conns, Closes(w, c), SoundAt(w, c)
    PROVE  SoundAt(w, c)' /\ Way(w, c)' = Way(w, c)
  <1>1. CASE <<w, c>> \in torn
    <2>1. <<w, c>> \in torn'
      BY <1>1, Zenon DEF Closes
    <2> QED
      BY <1>1, <2>1, WayIs, Zenon DEF SoundAt
  <1>2. CASE <<w, c>> \notin torn
    <2>1. <<w, c>> \notin torn'
      BY <1>2, Zenon DEF Closes
    <2>2. PICK b : b = BegunOf(w, c)
      OBVIOUS
    <2>3. Sound(b, <<>>, <<>>, FALSE)
      <3>1. Sound(b, <<>>, <<>>, In(c))
        BY <1>2, <2>2, Zenon DEF SoundAt, Closes
      <3> QED
        BY <3>1, Zenon DEF Sound, Closes
    <2>4. SoundAt(w, c)'
      <3>1. Sound(<<>>, <<>>, <<>>, FALSE)
        BY NothingIsSound, Zenon
      <3>2. Sound(<<>>, <<>>, <<>>, In(c)')
        BY <3>1, Zenon DEF Closes, Sound
      <3> QED
        BY <3>2, Zenon DEF SoundAt, Closes
    <2>5. Way(w, c) = Queue(<<>>, received[w][c])
      <3>1. Way(w, c) = Queue(Grouped(b \o <<>> \o <<>>).whole, received[w][c])
        BY <1>2, <2>2, WayIs, Zenon DEF Closes
      <3>2. Grouped(b \o <<>> \o <<>>).whole = <<>>
        BY <2>3, Dropped, Zenon
      <3> QED
        BY <3>1, <3>2, Zenon
    <2>6. Way(w, c)' = Queue(<<>>, received[w][c])
      <3>1. Way(w, c)' = Queue(Grouped(<<>> \o <<>> \o <<>>).whole, received[w][c])
        BY <2>1, WayIs, Zenon DEF Closes
      <3>2. Grouped(<<>> \o <<>> \o <<>>).whole = <<>>
        BY NothingIsSound, Zenon
      <3> QED
        BY <3>1, <3>2, Zenon
    <2> QED
      BY <2>4, <2>5, <2>6, Zenon
  <1> QED
    BY <1>1, <1>2

-----------------------------------------------------------------------------
(* Which streams a step leaves alone.                                      *)

LEMMA StreamStep ==
    ASSUME Streams, NEW w \in Ways, NEW c \in Conns,
           \A v \in Ways, d \in Conns : v # w \/ d # c => Same(v, d), SoundAt(w, c)'
    PROVE  Streams' /\ OthersStay(w, c)
  <1>1. ASSUME NEW v \in Ways, NEW d \in Conns, v # w \/ d # c
        PROVE  SoundAt(v, d)' /\ Way(v, d)' = Way(v, d)
    <2>1. Same(v, d) /\ SoundAt(v, d)
      BY <1>1, Zenon DEF Streams
    <2> QED
      BY <2>1, SameStays, Zenon
  <1>2. ASSUME NEW v \in Ways, NEW d \in Conns PROVE SoundAt(v, d)'
    <2>1. CASE v # w \/ d # c
      BY <1>1, <2>1, Zenon
    <2>2. CASE v = w /\ d = c
      BY <2>2, Zenon
    <2> QED
      BY <2>1, <2>2
  <1>3. Streams'
    BY <1>2, Zenon DEF Streams
  <1>4. OthersStay(w, c)
    BY <1>1, Zenon DEF OthersStay
  <1> QED
    BY <1>3, <1>4

LEMMA ConnectionStep ==
    ASSUME Streams, NEW c \in Conns, \A v \in Ways, d \in Conns : d # c => Same(v, d),
           SoundAt("up", c)', SoundAt("down", c)'
    PROVE  Streams' /\ \A v \in Ways, d \in Conns : d # c => Way(v, d)' = Way(v, d)
  <1>1. ASSUME NEW v \in Ways, NEW d \in Conns, d # c
        PROVE  SoundAt(v, d)' /\ Way(v, d)' = Way(v, d)
    <2>1. Same(v, d) /\ SoundAt(v, d)
      BY <1>1, Zenon DEF Streams
    <2> QED
      BY <2>1, SameStays, Zenon
  <1>2. ASSUME NEW v \in Ways, NEW d \in Conns PROVE SoundAt(v, d)'
    <2>1. CASE d # c
      BY <1>1, <2>1, Zenon
    <2>2. CASE d = c
      <3>1. v = "up" \/ v = "down"
        BY DEF Ways
      <3> QED
        BY <2>2, <3>1, Zenon
    <2> QED
      BY <2>1, <2>2
  <1>3. Streams'
    BY <1>2, Zenon DEF Streams
  <1> QED
    BY <1>1, <1>3, Zenon

LEMMA QuietStep ==
    ASSUME Streams, \A v \in Ways, d \in Conns : Same(v, d)
    PROVE  Streams' /\ \A v \in Ways, d \in Conns : Way(v, d)' = Way(v, d)
  <1>1. ASSUME NEW v \in Ways, NEW d \in Conns
        PROVE  SoundAt(v, d)' /\ Way(v, d)' = Way(v, d)
    <2>1. Same(v, d) /\ SoundAt(v, d)
      BY Zenon DEF Streams
    <2> QED
      BY <2>1, SameStays, Zenon
  <1>2. Streams'
    BY <1>1, Zenon DEF Streams
  <1> QED
    BY <1>1, <1>2, Zenon

LEMMA SlotsStay ==
    ASSUME clients' = clients, NEW c
    PROVE  (HasSlot(c)' <=> HasSlot(c)) /\ SlotOf(c)' = SlotOf(c)
  BY Zenon DEF HasSlot, SlotOf

\* A step of the server for the slot s.
OfSlot(s) ==
    /\ clients' = clients /\ peer' = peer
    /\ \A t \in Slots : t # s => buffers'[t] = buffers[t] /\ begun'[t] = begun[t]

LEMMA OtherSlots ==
    ASSUME NEW s \in Slots, OfSlot(s), NEW w \in Ways, NEW d \in Conns, d # clients[s]
    PROVE  /\ In(d)' = In(d) /\ BegunOf(w, d)' = BegunOf(w, d)
           /\ QueuedOf(w, d)' = QueuedOf(w, d)
  <1>1. (HasSlot(d)' <=> HasSlot(d)) /\ SlotOf(d)' = SlotOf(d)
    BY SlotsStay, Zenon DEF OfSlot
  <1>2. peer' = peer
    BY DEF OfSlot
  <1>3. ASSUME HasSlot(d)
        PROVE  buffers'[SlotOf(d)] = buffers[SlotOf(d)] /\ begun'[SlotOf(d)] = begun[SlotOf(d)]
    <2>1. SlotOf(d) \in Slots /\ clients[SlotOf(d)] = d
      BY <1>3, SlotIn, Zenon
    <2>2. SlotOf(d) # s
      BY <2>1, Zenon
    <2> QED
      BY <2>1, <2>2, Zenon DEF OfSlot
  <1>4. In(d)' = In(d)
    BY <1>2, Zenon DEF In
  <1>5. BegunOf(w, d)' = BegunOf(w, d)
    BY <1>1, <1>2, <1>3, Zenon DEF BegunOf
  <1>6. QueuedOf(w, d)' = QueuedOf(w, d)
    BY <1>1, <1>2, <1>3, <1>4, Zenon DEF QueuedOf
  <1> QED
    BY <1>4, <1>5, <1>6

\* What the server has of the client in the slot s.
LEMMA ServerHas ==
    ASSUME Typed, Linked, NEW s \in Slots, clients[s] # None, NEW c, c = clients[s]
    PROVE  /\ BegunOf("up", c) = begun[s] /\ BegunOf("down", c) = peer[c].begun
           /\ QueuedOf("up", c) = Joined(peer[c].buffer)
           /\ In(c) => QueuedOf("down", c) = Joined(buffers[s])
           /\ ~In(c) => QueuedOf("down", c) = <<>>
           /\ clients' = clients =>
                  /\ BegunOf("up", c)' = begun'[s] /\ BegunOf("down", c)' = peer'[c].begun
                  /\ QueuedOf("up", c)' = Joined(peer'[c].buffer)
                  /\ In(c)' => QueuedOf("down", c)' = Joined(buffers'[s])
                  /\ ~In(c)' => QueuedOf("down", c)' = <<>>
  <1>1. HasSlot(c) /\ SlotOf(c) = s
    BY SlotAt, Zenon
  <1>2. /\ BegunOf("up", c) = begun[s] /\ BegunOf("down", c) = peer[c].begun
        /\ QueuedOf("up", c) = Joined(peer[c].buffer)
        /\ In(c) => QueuedOf("down", c) = Joined(buffers[s])
        /\ ~In(c) => QueuedOf("down", c) = <<>>
    <2>1. "up" # "down"
      OBVIOUS
    <2> QED
      BY <1>1, <2>1, Zenon DEF BegunOf, QueuedOf
  <1>3. ASSUME clients' = clients
        PROVE  /\ BegunOf("up", c)' = begun'[s] /\ BegunOf("down", c)' = peer'[c].begun
               /\ QueuedOf("up", c)' = Joined(peer'[c].buffer)
               /\ In(c)' => QueuedOf("down", c)' = Joined(buffers'[s])
               /\ ~In(c)' => QueuedOf("down", c)' = <<>>
    <2>1. HasSlot(c)' /\ SlotOf(c)' = s
      BY <1>1, <1>3, SlotsStay, Zenon
    <2>2. "up" # "down"
      OBVIOUS
    <2> QED
      BY <2>1, <2>2, Zenon DEF BegunOf, QueuedOf
  <1> QED
    BY <1>2, <1>3, Zenon

-----------------------------------------------------------------------------
(* The steps of the server.                                                *)

Kept == IInv' /\ [Under!Next]_Under!vars

LEMMA NumberOk ==
    ASSUME NextId <= MaxMessages
    PROVE  NextId \in 1 .. MaxMessages
  BY NextIdIs, SocketsAssumption

LEMMA WriteTyped ==
    ASSUME Typed, NEW w \in Ways, NEW c \in Conns, NEW m \in Seq(Bytes), WritesTo(w, c, m)
    PROVE  written' \in [Ways -> [Conns -> Seq(Seq(Bytes))]]
  <1>1. Append(written[w][c], m) \in Seq(Seq(Bytes))
    BY DEF Typed
  <1> QED
    BY <1>1 DEF Typed, WritesTo

LEMMA ServerWriteKeeps ==
    ASSUME IInv, NEW s \in Slots, NEW size \in Sizes, ServerWrite(s, size)
    PROVE  Kept
  <1>1. Typed /\ Readable /\ Linked /\ Empty /\ Streams
    BY DEF IInv
  <1>2. clients[s] # None /\ NextId \in 1 .. MaxMessages
    BY NumberOk DEF ServerWrite
  <1>3. PICK c \in Conns : c = clients[s]
    BY <1>1, <1>2, SlotAt
  <1>4. PICK id \in 1 .. MaxMessages : id = NextId
    BY <1>2
  <1>5. PICK m : m = Message(id, size)
    OBVIOUS
  <1>6. m \in Seq(Bytes)
    BY <1>5, MessageIs, Zenon
  <1>7. /\ buffers' = [buffers EXCEPT ![s] = LoadData(@, m)]
        /\ WritesTo("down", c, m)
        /\ UNCHANGED <<running, clients, begun, backlog, peer, wire, received, torn>>
    BY <1>3, <1>4, <1>5, Zenon DEF ServerWrite, WritesTo
  <1>8. buffers[s] \in Seq(Chunks)
    BY <1>1 DEF Typed
  <1>9. PICK chunks \in Seq(Chunks) : /\ chunks = LoadData(buffers[s], m)
                                      /\ Joined(chunks) = Joined(buffers[s]) \o m
    BY <1>6, <1>8, LoadDataIs, Zenon
  <1>10. buffers' = [buffers EXCEPT ![s] = chunks]
    BY <1>7, <1>9, Zenon
  <1>11. "down" \in Ways /\ "up" \in Ways
    BY DEF Ways
  <1>12. Typed'
    <2>1. written' \in [Ways -> [Conns -> Seq(Seq(Bytes))]]
      BY <1>1, <1>6, <1>7, <1>11, WriteTyped, Zenon
    <2>2. buffers' \in [Slots -> Seq(Chunks)]
      BY <1>1, <1>10 DEF Typed
    <2> QED
      BY <1>1, <1>7, <2>1, <2>2 DEF Typed
  <1>13. Readable'
    BY <1>1, <1>7 DEF Readable
  <1>14. Linked'
    <2>1. \A t \in Slots : t # s => buffers'[t] = buffers[t]
      BY <1>1, <1>10 DEF Typed
    <2> QED
      BY <1>1, <1>2, <1>7, <2>1 DEF Linked
  <1>15. Empty'
    BY <1>1, <1>7 DEF Empty, In
  <1>16. OfSlot(s)
    BY <1>1, <1>7, <1>10 DEF OfSlot, Typed
  <1>17. wire' = wire /\ received' = received /\ torn' = torn /\ peer' = peer /\ clients' = clients
         /\ begun' = begun
    BY <1>7
  <1>18. In(c)' = In(c)
    BY <1>17, Zenon DEF In
  <1>19. ASSUME NEW v \in Ways, NEW d \in Conns, v # "down" \/ d # c PROVE Same(v, d)
    <2>1. CASE d # c
      <3>1. /\ In(d)' = In(d) /\ BegunOf(v, d)' = BegunOf(v, d)
            /\ QueuedOf(v, d)' = QueuedOf(v, d)
        BY <1>3, <1>16, <2>1, OtherSlots, Zenon
      <3> QED
        BY <1>17, <3>1, Zenon DEF Same
    <2>2. CASE d = c /\ v = "up"
      <3>1. BegunOf("up", c)' = BegunOf("up", c) /\ QueuedOf("up", c)' = QueuedOf("up", c)
        BY <1>1, <1>2, <1>3, <1>17, ServerHas, Zenon
      <3> QED
        BY <1>17, <1>18, <2>2, <3>1, Zenon DEF Same
    <2> QED
      BY <1>19, <2>1, <2>2 DEF Ways
  <1>20. BegunOf("down", c)' = BegunOf("down", c)
    BY <1>1, <1>2, <1>3, <1>17, ServerHas, Zenon
  <1>21. buffers'[s] = chunks
    BY <1>1, <1>10 DEF Typed
  <1>22. SoundAt("down", c)
    BY <1>1, <1>11, Zenon DEF Streams
  <1>23. SoundAt("down", c)' /\ Puts(Way("down", c), Way("down", c)', m, c \in Left)
    <2>1. CASE In(c)
      <3>1. QueuedOf("down", c) = Joined(buffers[s]) /\ QueuedOf("down", c)' = Joined(chunks)
        BY <1>1, <1>2, <1>3, <1>17, <1>18, <1>21, <2>1, ServerHas, Zenon
      <3>2. QueuedOf("down", c)' = QueuedOf("down", c) \o m
        BY <1>9, <3>1, Zenon
      <3>3. PutsTo("down", c, m)
        BY <1>17, <1>18, <1>20, <3>2, Zenon DEF PutsTo
      <3> QED
        BY <1>5, <1>11, <1>22, <2>1, <3>3, PutsStay, Zenon
    <2>2. CASE ~In(c)
      <3>1. QueuedOf("down", c)' = QueuedOf("down", c)
        BY <1>1, <1>2, <1>3, <1>17, <1>18, <2>2, ServerHas, Zenon
      <3>2. Same("down", c)
        BY <1>17, <1>18, <1>20, <3>1, Zenon DEF Same
      <3>3. SoundAt("down", c)' /\ Way("down", c)' = Way("down", c)
        BY <1>11, <1>22, <3>2, SameStays, Zenon
      <3>4. c \in Left
        BY <1>1, <1>2, <1>3, <2>2 DEF Linked, In, Left, Typed, Peers
      <3> QED
        BY <3>3, <3>4, Zenon DEF Puts
    <2> QED
      BY <2>1, <2>2
  <1>24. Streams' /\ OthersStay("down", c)
    BY <1>1, <1>11, <1>19, <1>23, StreamStep, Zenon
  <1>25. Left' = Left
    BY <1>17, Zenon DEF Left
  <1>26. [Under!Next]_Under!vars
    BY <1>5, <1>7, <1>11, <1>23, <1>24, <1>25, Writes, Zenon
  <1> QED
    BY <1>12, <1>13, <1>14, <1>15, <1>24, <1>26, Zenon DEF Kept, IInv

EntryNow(T, f, g, w, c, x) ==
    /\ g \in [Ways -> [Conns -> T]] /\ g[w][c] = x
    /\ \A v \in Ways, d \in Conns : v # w \/ d # c => g[v][d] = f[v][d]

LEMMA EntryOf ==
    ASSUME NEW T, NEW f \in [Ways -> [Conns -> T]], NEW w \in Ways, NEW c \in Conns, NEW x \in T,
           NEW g, g = Changed(f, w, c, x)
    PROVE  EntryNow(T, f, g, w, c, x)
  <1>1. g = [v \in Ways |-> [d \in Conns |-> IF v = w /\ d = c THEN x ELSE f[v][d]]]
    <2>1. EntryIs(f, w, c, x)
      BY EntryChanged, Zenon
    <2> QED
      BY <2>1, Zenon DEF EntryIs, Changed
  <1>2. \A v \in Ways, d \in Conns : (IF v = w /\ d = c THEN x ELSE f[v][d]) \in T
    OBVIOUS
  <1>3. g \in [Ways -> [Conns -> T]]
    BY <1>1, <1>2
  <1>4. g[w][c] = x
    BY <1>1
  <1>5. \A v \in Ways, d \in Conns : v # w \/ d # c => g[v][d] = f[v][d]
    BY <1>1
  <1> QED
    BY <1>3, <1>4, <1>5, Zenon DEF EntryNow

LEMMA ServerSendInVainKeeps ==
    ASSUME IInv, NEW s \in Slots, ServerSendInVain(s)
    PROVE  Kept
  <1>1. Typed /\ Readable /\ Linked /\ Empty /\ Streams
    BY DEF IInv
  <1>2. clients[s] # None /\ buffers[s] # <<>> /\ running
    BY DEF ServerSendInVain, MaySend
  <1>3. PICK c \in Conns : c = clients[s]
    BY <1>1, <1>2, SlotAt
  <1>4. PICK chunks : chunks = Tail(buffers[s])
    OBVIOUS
  <1>5. /\ buffers' = [buffers EXCEPT ![s] = chunks] /\ ~In(c) /\ running' \in BOOLEAN
        /\ UNCHANGED <<clients, begun, backlog, peer, wire, written, received, torn>>
    BY <1>3, <1>4, Zenon DEF ServerSendInVain
  <1>6. chunks \in Seq(Chunks)
    <2>1. buffers[s] \in Seq(Chunks)
      BY <1>1 DEF Typed
    <2> QED
      BY <1>2, <1>4, <2>1
  <1>7. Typed'
    <2>1. buffers' \in [Slots -> Seq(Chunks)]
      BY <1>1, <1>5, <1>6 DEF Typed
    <2> QED
      BY <1>1, <1>5, <2>1 DEF Typed
  <1>8. Readable'
    BY <1>1, <1>2, <1>5 DEF Readable
  <1>9. Linked'
    <2>1. \A t \in Slots : t # s => buffers'[t] = buffers[t]
      BY <1>1, <1>5 DEF Typed
    <2> QED
      BY <1>1, <1>2, <1>5, <2>1 DEF Linked
  <1>10. Empty'
    BY <1>1, <1>5 DEF Empty, In
  <1>11. OfSlot(s)
    BY <1>1, <1>5 DEF OfSlot, Typed
  <1>12. wire' = wire /\ received' = received /\ torn' = torn /\ peer' = peer /\ clients' = clients
         /\ begun' = begun /\ written' = written
    BY <1>5
  <1>13. In(c)' = In(c)
    BY <1>12, Zenon DEF In
  <1>14. ASSUME NEW v \in Ways, NEW d \in Conns PROVE Same(v, d)
    <2>1. CASE d # c
      <3>1. /\ In(d)' = In(d) /\ BegunOf(v, d)' = BegunOf(v, d)
            /\ QueuedOf(v, d)' = QueuedOf(v, d)
        BY <1>3, <1>11, <2>1, OtherSlots, Zenon
      <3> QED
        BY <1>12, <3>1, Zenon DEF Same
    <2>2. CASE d = c /\ v = "up"
      <3>1. BegunOf("up", c)' = BegunOf("up", c) /\ QueuedOf("up", c)' = QueuedOf("up", c)
        BY <1>1, <1>2, <1>3, <1>12, ServerHas, Zenon
      <3> QED
        BY <1>12, <1>13, <2>2, <3>1, Zenon DEF Same
    <2>3. CASE d = c /\ v = "down"
      <3>1. BegunOf("down", c)' = BegunOf("down", c)
        BY <1>1, <1>2, <1>3, <1>12, ServerHas, Zenon
      <3>2. QueuedOf("down", c)' = QueuedOf("down", c)
        BY <1>1, <1>2, <1>3, <1>5, <1>12, <1>13, ServerHas, Zenon
      <3> QED
        BY <1>12, <1>13, <2>3, <3>1, <3>2, Zenon DEF Same
    <2> QED
      BY <2>1, <2>2, <2>3 DEF Ways
  <1>15. Streams' /\ \A v \in Ways, d \in Conns : Way(v, d)' = Way(v, d)
    BY <1>1, <1>14, QuietStep, Zenon
  <1>16. Stays
    BY <1>12, Zenon DEF Stays, Left
  <1>17. [Under!Next]_Under!vars
    BY <1>15, <1>16, NothingHappens, Zenon
  <1> QED
    BY <1>7, <1>8, <1>9, <1>10, <1>15, <1>17, Zenon DEF Kept, IInv

\* The first of the chunks is taken.
LEMMA ChunkTaken ==
    ASSUME NEW chunks \in Seq(Chunks), chunks # <<>>
    PROVE  /\ Head(chunks) \in Seq(Bytes) /\ Tail(chunks) \in Seq(Chunks)
           /\ Joined(Tail(chunks)) \in Seq(Bytes)
           /\ Joined(chunks) = Head(chunks) \o Joined(Tail(chunks))
  <1>1. Tail(chunks) \in Seq(Chunks)
    OBVIOUS
  <1>2. chunks \in Seq(Seq(Bytes))
    BY ChunksAreBytes
  <1> QED
    BY <1>1, <1>2, JoinedHead, Zenon

\* A part of a chunk is put on the wire; the whole of it, when all of it is taken.
LEMMA PartSent ==
    ASSUME NEW chunk \in Seq(Bytes), NEW n \in 0 .. Len(chunk), NEW part, part = SubSeq(chunk, 1, n),
           NEW way \in Seq(Bytes)
    PROVE  /\ way \o part \in Seq(Bytes)
           /\ n = Len(chunk) => part = chunk
  <1>1. part \in Seq(Bytes)
    BY Divide
  <1>2. way \o part \in Seq(Bytes)
    BY <1>1, ConcatStays, Zenon DEF Concatenated
  <1>3. ASSUME n = Len(chunk) PROVE part = chunk
    BY <1>3
  <1> QED
    BY <1>2, <1>3, Zenon

\* The ends of the other streams are not touched.
EndsKept(v, d) ==
    In(d)' = In(d) /\ BegunOf(v, d)' = BegunOf(v, d) /\ QueuedOf(v, d)' = QueuedOf(v, d)

OtherEndsKept(w, c) == \A v \in Ways, d \in Conns : v # w \/ d # c => EndsKept(v, d)

\* A part of a chunk is sent.
SendsPart(w, c, chunk, n) ==
    /\ wire' = [wire EXCEPT ![w][c] = @ \o SubSeq(chunk, 1, n)]
    /\ torn' = IF n = Len(chunk) THEN torn ELSE torn \union {<<w, c>>}
    /\ UNCHANGED received

LEMMA SendStep ==
    ASSUME Typed, Streams, NEW w \in Ways, NEW c \in Conns, NEW chunk \in Seq(Bytes),
           NEW rest \in Seq(Bytes), NEW n \in 0 .. Len(chunk), SendsPart(w, c, chunk, n),
           OtherEndsKept(w, c), In(c)' = In(c), BegunOf(w, c)' = BegunOf(w, c),
           QueuedOf(w, c) = chunk \o rest, QueuedOf(w, c)' = rest, Stays
    PROVE  /\ Streams' /\ [Under!Next]_Under!vars
           /\ torn' \subseteq Ways \X Conns
           /\ wire' \in [Ways -> [Conns -> Seq(Bytes)]]
           /\ \A v \in Ways, d \in Conns : v # w \/ d # c => wire'[v][d] = wire[v][d]
  <1>1. PICK part : part = SubSeq(chunk, 1, n)
    OBVIOUS
  <1>2. wire[w][c] \in Seq(Bytes)
    BY DEF Typed
  <1>3. wire[w][c] \o part \in Seq(Bytes) /\ (n = Len(chunk) => part = chunk)
    BY <1>1, <1>2, PartSent, Zenon
  <1>4. PICK x \in Seq(Bytes) : x = wire[w][c] \o part
    BY <1>3
  <1>5. wire' = Changed(wire, w, c, x)
    BY <1>1, <1>4, Zenon DEF SendsPart, Changed
  <1>6. wire \in [Ways -> [Conns -> Seq(Bytes)]]
    BY DEF Typed
  <1>7. EntryNow(Seq(Bytes), wire, wire', w, c, x)
    BY <1>5, <1>6, EntryOf, Zenon
  <1>8. /\ wire' \in [Ways -> [Conns -> Seq(Bytes)]] /\ wire'[w][c] = x
        /\ \A v \in Ways, d \in Conns : v # w \/ d # c => wire'[v][d] = wire[v][d]
    BY <1>7, Zenon DEF EntryNow
  <1>9. torn \subseteq torn' /\ torn' \subseteq torn \union {<<w, c>>} /\ received' = received
        /\ (n = Len(chunk) => torn' = torn) /\ (n # Len(chunk) => <<w, c>> \in torn')
    BY DEF SendsPart
  <1>10. torn' \subseteq Ways \X Conns
    <2>1. torn \subseteq Ways \X Conns
      BY DEF Typed
    <2> QED
      BY <1>9, <2>1
  <1>11. ASSUME NEW v \in Ways, NEW d \in Conns, v # w \/ d # c PROVE Same(v, d)
    <2>1. <<v, d>> \in torn' <=> <<v, d>> \in torn
      <3>1. <<v, d>> # <<w, c>>
        BY <1>11
      <3> QED
        BY <1>9, <3>1
    <2>2. EndsKept(v, d)
      BY <1>11, Zenon DEF OtherEndsKept
    <2>3. wire'[v][d] = wire[v][d]
      BY <1>8, <1>11, Zenon
    <2> QED
      BY <1>9, <2>1, <2>2, <2>3, Zenon DEF Same, EndsKept
  <1>12. SoundAt(w, c)
    BY Zenon DEF Streams
  <1>13. CASE n = Len(chunk)
    <2>1. Sends(w, c, chunk, rest)
      BY <1>3, <1>4, <1>8, <1>9, <1>13, Zenon DEF Sends
    <2>2. SoundAt(w, c)' /\ Way(w, c)' = Way(w, c)
      BY <1>12, <2>1, SendsStay, Zenon
    <2>3. Streams' /\ OthersStay(w, c)
      BY <1>11, <2>2, StreamStep, Zenon
    <2>4. [Under!Next]_Under!vars
      BY <2>2, <2>3, NothingHappensTo, Zenon
    <2> QED
      BY <1>8, <1>10, <2>3, <2>4
  <1>14. CASE n # Len(chunk)
    <2>1. <<w, c>> \in torn'
      BY <1>9, <1>14
    <2>2. SoundAt(w, c)' /\ Way(w, c)' = Broken
      BY <2>1, WayIs, Zenon DEF SoundAt
    <2>3. Streams' /\ OthersStay(w, c)
      BY <1>11, <2>2, StreamStep, Zenon
    <2>4. [Under!Next]_Under!vars
      BY <2>2, <2>3, Breaks, Zenon
    <2> QED
      BY <1>8, <1>10, <2>3, <2>4
  <1> QED
    BY <1>13, <1>14

LEMMA ServerSendKeeps ==
    ASSUME IInv, NEW s \in Slots, ServerSend(s)
    PROVE  Kept
  <1>1. Typed /\ Readable /\ Linked /\ Empty /\ Streams
    BY DEF IInv
  <1>2. clients[s] # None /\ buffers[s] # <<>> /\ In(clients[s])
    BY DEF ServerSend, MaySend
  <1>3. PICK c \in Conns : c = clients[s] /\ In(c)
    BY <1>1, <1>2, SlotAt
  <1>4. PICK chunks : chunks = Tail(buffers[s])
    OBVIOUS
  <1>5. PICK chunk : chunk = Head(buffers[s])
    OBVIOUS
  <1>6. PICK n \in 0 .. Len(chunk) :
            /\ wire' = [wire EXCEPT !["down"][c] = @ \o SubSeq(chunk, 1, n)]
            /\ torn' = IF n = Len(chunk) THEN torn ELSE torn \union {<<"down", c>>}
    BY <1>3, <1>5, Zenon DEF ServerSend
  <1>7. /\ buffers' = [buffers EXCEPT ![s] = chunks]
        /\ UNCHANGED <<running, clients, begun, backlog, peer, written, received>>
    BY <1>4, Zenon DEF ServerSend
  <1>8. buffers[s] \in Seq(Chunks)
    BY <1>1 DEF Typed
  <1>9. PICK rest : rest = Joined(chunks)
    OBVIOUS
  <1>10. chunk \in Seq(Bytes) /\ chunks \in Seq(Chunks) /\ rest \in Seq(Bytes)
         /\ Joined(buffers[s]) = chunk \o rest
    BY <1>2, <1>4, <1>5, <1>8, <1>9, ChunkTaken, Zenon
  <1>11. "down" \in Ways /\ "up" \in Ways
    BY DEF Ways
  <1>12. OfSlot(s)
    BY <1>1, <1>7 DEF OfSlot, Typed
  <1>13. received' = received /\ peer' = peer /\ clients' = clients
         /\ begun' = begun /\ written' = written /\ buffers'[s] = chunks
    BY <1>1, <1>7 DEF Typed
  <1>14. In(c)' = In(c)
    BY <1>13, Zenon DEF In
  <1>15. BegunOf("up", c)' = BegunOf("up", c) /\ QueuedOf("up", c)' = QueuedOf("up", c)
         /\ BegunOf("down", c)' = BegunOf("down", c)
    BY <1>1, <1>2, <1>3, <1>13, ServerHas, Zenon
  <1>16. QueuedOf("down", c) = chunk \o rest /\ QueuedOf("down", c)' = rest
    BY <1>1, <1>2, <1>3, <1>9, <1>10, <1>13, <1>14, ServerHas, Zenon
  <1>17. OtherEndsKept("down", c)
    <2>1. ASSUME NEW v \in Ways, NEW d \in Conns, v # "down" \/ d # c PROVE EndsKept(v, d)
      <3>1. CASE d # c
        BY <1>3, <1>12, <3>1, OtherSlots, Zenon DEF EndsKept
      <3>2. CASE d = c /\ v = "up"
        BY <1>14, <1>15, <3>2, Zenon DEF EndsKept
      <3> QED
        BY <2>1, <3>1, <3>2 DEF Ways
    <2> QED
      BY <2>1, Zenon DEF OtherEndsKept
  <1>18. Stays
    BY <1>13, Zenon DEF Stays, Left
  <1>19. SendsPart("down", c, chunk, n)
    BY <1>6, <1>7, Zenon DEF SendsPart
  <1>20. /\ Streams' /\ [Under!Next]_Under!vars
         /\ torn' \subseteq Ways \X Conns
         /\ wire' \in [Ways -> [Conns -> Seq(Bytes)]]
         /\ \A v \in Ways, d \in Conns : v # "down" \/ d # c => wire'[v][d] = wire[v][d]
    BY <1>1, <1>10, <1>11, <1>14, <1>15, <1>16, <1>17, <1>18, <1>19, SendStep, Zenon
  <1>21. Typed'
    <2>1. buffers' \in [Slots -> Seq(Chunks)]
      BY <1>1, <1>7, <1>10 DEF Typed
    <2> QED
      BY <1>1, <1>7, <1>20, <2>1 DEF Typed
  <1>22. Readable'
    BY <1>1, <1>7 DEF Readable
  <1>23. Linked'
    <2>1. \A t \in Slots : t # s => buffers'[t] = buffers[t]
      BY <1>1, <1>7 DEF Typed
    <2> QED
      BY <1>1, <1>2, <1>7, <2>1 DEF Linked
  <1>24. Empty'
    <2>1. ASSUME NEW d \in Conns, ~In(d)'
          PROVE  wire'["down"][d] = wire["down"][d] /\ wire'["up"][d] = wire["up"][d]
      <3>1. d # c
        BY <1>3, <1>14, <2>1, Zenon
      <3> QED
        BY <1>11, <1>20, <3>1, Zenon
    <2> QED
      BY <1>1, <1>13, <2>1 DEF Empty, In
  <1> QED
    BY <1>20, <1>21, <1>22, <1>23, <1>24, Zenon DEF Kept, IInv

\* What is read is typed.
ReadTyped(w, c, n, p) ==
    /\ SubSeq(wire[w][c], n + 1, Len(wire[w][c])) \in Seq(Bytes)
    /\ p.got \in Seq(Bytes) /\ p.messages \in Seq(Seq(Bytes)) /\ p.lost \in BOOLEAN
    /\ ~p.lost => IsBegun(p.got)
    /\ received[w][c] \o p.messages \in Seq(Seq(Bytes))

LEMMA ReadTypedIs ==
    ASSUME Typed, NEW w \in Ways, NEW c \in Conns, IsBegun(BegunOf(w, c)), NEW n \in 0 .. Len(wire[w][c]),
           NEW p, p = Parsed(BegunOf(w, c), SubSeq(wire[w][c], 1, n))
    PROVE  ReadTyped(w, c, n, p)
  <1>1. PICK way \in Seq(Bytes) : way = wire[w][c]
    BY DEF Typed
  <1>2. PICK buf \in Seq(Bytes) : buf = SubSeq(way, 1, n)
    BY <1>1, Divide
  <1>3. SubSeq(way, n + 1, Len(way)) \in Seq(Bytes)
    BY <1>1, Divide
  <1>4. PICK b : b = BegunOf(w, c)
    OBVIOUS
  <1>5. p = Parsed(b, buf)
    BY <1>1, <1>2, <1>4, Zenon
  <1>6. IsBegun(b)
    BY <1>4, Zenon
  <1>7. /\ Parsed(b, buf).got \in Seq(Bytes) /\ Parsed(b, buf).messages \in Seq(Seq(Bytes))
        /\ Parsed(b, buf).lost \in BOOLEAN
        /\ ~Parsed(b, buf).lost => IsBegun(Parsed(b, buf).got)
    BY <1>6, ParsedTyped, Zenon
  <1>8. /\ p.got \in Seq(Bytes) /\ p.messages \in Seq(Seq(Bytes)) /\ p.lost \in BOOLEAN
        /\ ~p.lost => IsBegun(p.got)
    BY <1>5, <1>7, Zenon
  <1>9. received[w][c] \in Seq(Seq(Bytes))
    BY DEF Typed
  <1>10. received[w][c] \o p.messages \in Seq(Seq(Bytes))
    BY <1>8, <1>9, ConcatStays, Zenon DEF Concatenated
  <1> QED
    BY <1>1, <1>3, <1>8, <1>10, Zenon DEF ReadTyped

ReadsPart(w, c, n, p) ==
    /\ wire' = [wire EXCEPT ![w][c] = SubSeq(@, n + 1, Len(@))]
    /\ received' = [received EXCEPT ![w][c] = @ \o p.messages]
    /\ UNCHANGED torn

LEMMA ReadStep ==
    ASSUME Typed, Streams, NEW w \in Ways, NEW c \in Conns, IsBegun(BegunOf(w, c)),
           NEW n \in 0 .. Len(wire[w][c]),
           NEW p, p = Parsed(BegunOf(w, c), SubSeq(wire[w][c], 1, n)), ReadsPart(w, c, n, p),
           OtherEndsKept(w, c), In(c)' = In(c), BegunOf(w, c)' = p.got,
           QueuedOf(w, c)' = QueuedOf(w, c), Stays
    PROVE  /\ Streams' /\ [Under!Next]_Under!vars
           /\ wire' \in [Ways -> [Conns -> Seq(Bytes)]]
           /\ received' \in [Ways -> [Conns -> Seq(Seq(Bytes))]]
           /\ \A v \in Ways, d \in Conns : v # w \/ d # c => wire'[v][d] = wire[v][d]
  <1>1. ReadTyped(w, c, n, p)
    BY ReadTypedIs, Zenon
  <1>2. PICK rest \in Seq(Bytes) : rest = SubSeq(wire[w][c], n + 1, Len(wire[w][c]))
    BY <1>1, Zenon DEF ReadTyped
  <1>3. PICK all \in Seq(Seq(Bytes)) : all = received[w][c] \o p.messages
    BY <1>1, Zenon DEF ReadTyped
  <1>4. wire' = Changed(wire, w, c, rest) /\ received' = Changed(received, w, c, all)
    BY <1>2, <1>3, Zenon DEF ReadsPart, Changed
  <1>5. wire \in [Ways -> [Conns -> Seq(Bytes)]] /\ received \in [Ways -> [Conns -> Seq(Seq(Bytes))]]
    BY DEF Typed
  <1>6. EntryNow(Seq(Bytes), wire, wire', w, c, rest)
    BY <1>4, <1>5, EntryOf, Zenon
  <1>7. EntryNow(Seq(Seq(Bytes)), received, received', w, c, all)
    BY <1>4, <1>5, EntryOf, Zenon
  <1>8. /\ wire' \in [Ways -> [Conns -> Seq(Bytes)]] /\ wire'[w][c] = rest
        /\ \A v \in Ways, d \in Conns : v # w \/ d # c => wire'[v][d] = wire[v][d]
    BY <1>6, Zenon DEF EntryNow
  <1>9. /\ received' \in [Ways -> [Conns -> Seq(Seq(Bytes))]] /\ received'[w][c] = all
        /\ \A v \in Ways, d \in Conns : v # w \/ d # c => received'[v][d] = received[v][d]
    BY <1>7, Zenon DEF EntryNow
  <1>10. torn' = torn
    BY DEF ReadsPart
  <1>11. ASSUME NEW v \in Ways, NEW d \in Conns, v # w \/ d # c PROVE Same(v, d)
    <2>1. EndsKept(v, d)
      BY <1>11, Zenon DEF OtherEndsKept
    <2>2. wire'[v][d] = wire[v][d] /\ received'[v][d] = received[v][d]
      BY <1>8, <1>9, <1>11, Zenon
    <2> QED
      BY <1>10, <2>1, <2>2, Zenon DEF Same, EndsKept
  <1>12. SoundAt(w, c)
    BY Zenon DEF Streams
  <1>13. Reads(w, c, p, rest)
    BY <1>3, <1>8, <1>9, <1>10, Zenon DEF Reads
  <1>14. SoundAt(w, c)' /\ (Way(w, c)' = Way(w, c) \/ Moves(Way(w, c), Way(w, c)'))
    BY <1>2, <1>12, <1>13, ReadsStay, Zenon
  <1>15. Streams' /\ OthersStay(w, c)
    BY <1>11, <1>14, StreamStep, Zenon
  <1>16. CASE Way(w, c)' = Way(w, c)
    <2>1. [Under!Next]_Under!vars
      BY <1>15, <1>16, NothingHappensTo, Zenon
    <2> QED
      BY <1>8, <1>9, <1>15, <2>1
  <1>17. CASE Moves(Way(w, c), Way(w, c)')
    <2>1. [Under!Next]_Under!vars
      BY <1>15, <1>17, Delivers, Zenon
    <2> QED
      BY <1>8, <1>9, <1>15, <2>1
  <1> QED
    BY <1>14, <1>16, <1>17, Zenon

LEMMA ServerReadKeeps ==
    ASSUME IInv, NEW s \in Slots, ServerRead(s)
    PROVE  Kept
  <1>1. Typed /\ Readable /\ Linked /\ Empty /\ Streams
    BY DEF IInv
  <1>2. clients[s] # None /\ buffers[s] = <<>> /\ running
    BY DEF ServerRead
  <1>3. PICK c \in Conns : c = clients[s]
    BY <1>1, <1>2, SlotAt
  <1>4. PICK n \in Recv(wire["up"][c]) :
            LET p == Parsed(begun[s], SubSeq(wire["up"][c], 1, n))
            IN  /\ wire' = [wire EXCEPT !["up"][c] = SubSeq(@, n + 1, Len(@))]
                /\ begun' = [begun EXCEPT ![s] = p.got]
                /\ received' = [received EXCEPT !["up"][c] = @ \o p.messages]
                /\ running' = ~p.lost
    BY <1>3, Zenon DEF ServerRead
  <1>5. PICK p : p = Parsed(begun[s], SubSeq(wire["up"][c], 1, n))
    OBVIOUS
  <1>6. /\ wire' = [wire EXCEPT !["up"][c] = SubSeq(@, n + 1, Len(@))]
        /\ begun' = [begun EXCEPT ![s] = p.got]
        /\ received' = [received EXCEPT !["up"][c] = @ \o p.messages]
        /\ running' = ~p.lost
    BY <1>4, <1>5, Zenon
  <1>7. UNCHANGED <<clients, buffers, backlog, peer, written, torn>>
    BY DEF ServerRead
  <1>8. "down" \in Ways /\ "up" \in Ways
    BY DEF Ways
  <1>9. n \in 0 .. Len(wire["up"][c])
    <2>1. wire["up"][c] \in Seq(Bytes)
      BY <1>1, <1>8 DEF Typed
    <2>2. PICK k \in Nat : k = Len(wire["up"][c])
      BY <2>1
    <2>3. n \in Nat /\ n <= k
      BY <2>2, SocketsAssumption DEF Recv
    <2> QED
      BY <2>2, <2>3
  <1>10. OfSlot(s)
    BY <1>1, <1>6, <1>7 DEF OfSlot, Typed
  <1>11. peer' = peer /\ clients' = clients /\ buffers' = buffers /\ written' = written
         /\ begun'[s] = p.got
    BY <1>1, <1>6, <1>7 DEF Typed
  <1>12. In(c)' = In(c)
    BY <1>11, Zenon DEF In
  <1>13. /\ BegunOf("up", c) = begun[s] /\ BegunOf("up", c)' = p.got
         /\ BegunOf("down", c)' = BegunOf("down", c) /\ QueuedOf("up", c)' = QueuedOf("up", c)
    BY <1>1, <1>2, <1>3, <1>11, ServerHas, Zenon
  <1>14. QueuedOf("down", c)' = QueuedOf("down", c)
    <2>1. CASE In(c)
      BY <1>1, <1>2, <1>3, <1>11, <1>12, <2>1, ServerHas, Zenon
    <2>2. CASE ~In(c)
      BY <1>1, <1>2, <1>3, <1>11, <1>12, <2>2, ServerHas, Zenon
    <2> QED
      BY <2>1, <2>2
  <1>15. OtherEndsKept("up", c)
    <2>1. ASSUME NEW v \in Ways, NEW d \in Conns, v # "up" \/ d # c PROVE EndsKept(v, d)
      <3>1. CASE d # c
        BY <1>3, <1>10, <3>1, OtherSlots, Zenon DEF EndsKept
      <3>2. CASE d = c /\ v = "down"
        BY <1>12, <1>13, <1>14, <3>2, Zenon DEF EndsKept
      <3> QED
        BY <2>1, <3>1, <3>2 DEF Ways
    <2> QED
      BY <2>1, Zenon DEF OtherEndsKept
  <1>16. Stays
    BY <1>11, Zenon DEF Stays, Left
  <1>17. ReadsPart("up", c, n, p)
    BY <1>6, <1>7, Zenon DEF ReadsPart
  <1>18. IsBegun(BegunOf("up", c)) /\ p = Parsed(BegunOf("up", c), SubSeq(wire["up"][c], 1, n))
    BY <1>1, <1>2, <1>5, <1>13, Zenon DEF Readable
  <1>19. /\ Streams' /\ [Under!Next]_Under!vars
         /\ wire' \in [Ways -> [Conns -> Seq(Bytes)]]
         /\ received' \in [Ways -> [Conns -> Seq(Seq(Bytes))]]
         /\ \A v \in Ways, d \in Conns : v # "up" \/ d # c => wire'[v][d] = wire[v][d]
    BY <1>1, <1>8, <1>9, <1>12, <1>13, <1>15, <1>16, <1>17, <1>18, ReadStep, Zenon
  <1>20. p.got \in Seq(Bytes) /\ p.lost \in BOOLEAN /\ (~p.lost => IsBegun(p.got))
    <2>1. ReadTyped("up", c, n, p)
      BY <1>1, <1>8, <1>9, <1>18, ReadTypedIs, Zenon
    <2> QED
      BY <2>1, Zenon DEF ReadTyped
  <1>21. Typed'
    <2>1. begun' \in [Slots -> Seq(Bytes)]
      BY <1>1, <1>6, <1>20 DEF Typed
    <2>2. running' \in BOOLEAN
      BY <1>6, <1>20
    <2> QED
      BY <1>1, <1>7, <1>19, <2>1, <2>2 DEF Typed
  <1>22. Readable'
    <2>1. ASSUME running', NEW t \in Slots PROVE IsBegun(begun'[t])
      <3>1. ~p.lost
        BY <1>6, <2>1
      <3>2. t # s => begun'[t] = begun[t]
        BY <1>10 DEF OfSlot
      <3>3. IsBegun(begun[t])
        BY <1>1, <1>2, Zenon DEF Readable
      <3> QED
        BY <1>11, <1>20, <3>1, <3>2, <3>3, Zenon
    <2>2. \A d \in Conns : IsBegun(peer'[d].begun)
      BY <1>1, <1>11, Zenon DEF Readable
    <2> QED
      BY <2>1, <2>2, Zenon DEF Readable, IsBegun
  <1>23. Linked'
    BY <1>1, <1>7 DEF Linked
  <1>24. Empty'
    <2>1. ASSUME NEW d \in Conns
          PROVE  wire'["down"][d] = wire["down"][d]
      BY <1>8, <1>19
    <2>2. ASSUME NEW d \in Conns, peer[d].stage = "out"
          PROVE  wire'["up"][d] = wire["up"][d]
      <3>1. d # c
        BY <1>1, <1>2, <1>3, <2>2 DEF Linked
      <3> QED
        BY <1>8, <1>19, <3>1, Zenon
    <2> QED
      BY <1>1, <1>11, <2>1, <2>2 DEF Empty, In
  <1> QED
    BY <1>19, <1>21, <1>22, <1>23, <1>24, Zenon DEF Kept, IInv

\* A step that moves no other connection.
LEMMA SlotMoves ==
    ASSUME NEW d \in Conns, OneSlotEach(clients)', \A t \in Slots : clients[t] = d <=> clients'[t] = d
    PROVE  (HasSlot(d)' <=> HasSlot(d)) /\ (HasSlot(d) => SlotOf(d)' = SlotOf(d))
  <1>1. HasSlot(d)' <=> HasSlot(d)
    BY Zenon DEF HasSlot
  <1>2. ASSUME HasSlot(d) PROVE SlotOf(d)' = SlotOf(d)
    <2>1. PICK s \in Slots : s = SlotOf(d) /\ clients[s] = d
      BY <1>2, SlotIn, Zenon
    <2>2. clients'[s] = d
      BY <2>1, Zenon
    <2>3. d # None
      BY SocketsAssumption DEF Conns
    <2>4. PICK cl : cl = clients'
      OBVIOUS
    <2>5. OneSlotEach(cl) /\ cl[s] = d /\ cl[s] # None
      BY <2>2, <2>3, <2>4 DEF OneSlotEach
    <2>6. (CHOOSE t \in Slots : cl[t] = cl[s]) = s
      BY <2>5, OnlySlot, Zenon
    <2>7. SlotOf(d)' = s
      BY <2>2, <2>4, <2>6, Zenon DEF SlotOf
    <2> QED
      BY <2>1, <2>7
  <1> QED
    BY <1>1, <1>2

LEMMA ServerEofKeeps ==
    ASSUME IInv, NEW s \in Slots, ServerEof(s)
    PROVE  Kept
  <1>1. Typed /\ Readable /\ Linked /\ Empty /\ Streams
    BY DEF IInv
  <1>2. clients[s] # None /\ buffers[s] = <<>>
    BY DEF ServerEof
  <1>3. PICK c \in Conns : c = clients[s]
    BY <1>1, <1>2, SlotAt
  <1>4. /\ peer[c].stage = "left" /\ wire["up"][c] = <<>>
        /\ clients' = [clients EXCEPT ![s] = None]
        /\ buffers' = [buffers EXCEPT ![s] = <<>>]
    BY <1>3, Zenon DEF ServerEof, FreeConnection
  <1>5. UNCHANGED <<running, begun, backlog, peer, wire, written, received, torn>>
    BY DEF ServerEof
  <1>6. "down" \in Ways /\ "up" \in Ways /\ "up" # "down"
    BY DEF Ways
  <1>7. buffers' = buffers
    BY <1>1, <1>2, <1>4 DEF Typed
  <1>8. clients'[s] = None /\ \A t \in Slots : t # s => clients'[t] = clients[t]
    BY <1>1, <1>4 DEF Typed
  <1>9. None \notin Conns
    BY SocketsAssumption DEF Conns
  <1>10. begun' = begun /\ peer' = peer /\ wire' = wire /\ received' = received /\ torn' = torn
         /\ written' = written /\ backlog' = backlog /\ running' = running
    BY <1>5
  <1>11. OneSlotEach(clients)'
    BY <1>1, <1>8 DEF Linked, OneSlotEach
  <1>12. ~In(c) /\ In(c)' = In(c)
    BY <1>4, <1>10 DEF In
  <1>13. ASSUME NEW v \in Ways, NEW d \in Conns, d # c PROVE Same(v, d)
    <2>1. \A t \in Slots : clients[t] = d <=> clients'[t] = d
      BY <1>3, <1>8, <1>9, <1>13
    <2>2. (HasSlot(d)' <=> HasSlot(d)) /\ (HasSlot(d) => SlotOf(d)' = SlotOf(d))
      BY <1>11, <2>1, SlotMoves, Zenon
    <2>3. In(d)' = In(d)
      BY <1>10, Zenon DEF In
    <2>4. BegunOf(v, d)' = BegunOf(v, d)
      BY <1>10, <2>2, Zenon DEF BegunOf
    <2>5. QueuedOf(v, d)' = QueuedOf(v, d)
      BY <1>7, <1>10, <2>2, <2>3, Zenon DEF QueuedOf
    <2> QED
      BY <1>10, <2>3, <2>4, <2>5, Zenon DEF Same
  <1>14. Same("down", c)
    <2>1. BegunOf("down", c)' = BegunOf("down", c)
      BY <1>6, <1>10, Zenon DEF BegunOf
    <2>2. QueuedOf("down", c)' = QueuedOf("down", c)
      BY <1>6, <1>12, Zenon DEF QueuedOf
    <2> QED
      BY <1>10, <1>12, <2>1, <2>2, Zenon DEF Same
  <1>15. Closes("up", c)
    <2>1. ~HasSlot(c)'
      <3>1. \A t \in Slots : clients'[t] # c
        BY <1>1, <1>2, <1>3, <1>8, <1>9 DEF Linked
      <3> QED
        BY <3>1, Zenon DEF HasSlot
    <2>2. BegunOf("up", c)' = <<>>
      BY <1>6, <2>1, Zenon DEF BegunOf
    <2>3. peer[c].buffer = <<>>
      BY <1>1, <1>12 DEF Empty
    <2>4. Joined(<<>>) = <<>>
      BY JoinedIs
    <2>5. QueuedOf("up", c) = <<>> /\ QueuedOf("up", c)' = <<>>
      BY <1>10, <2>3, <2>4, Zenon DEF QueuedOf
    <2> QED
      BY <1>4, <1>10, <1>12, <2>2, <2>5, Zenon DEF Closes
  <1>16. SoundAt("up", c)' /\ Way("up", c)' = Way("up", c)
    <2>1. SoundAt("up", c)
      BY <1>1, <1>6, Zenon DEF Streams
    <2> QED
      BY <1>6, <1>15, <2>1, ClosesStay, Zenon
  <1>17. Streams' /\ OthersStay("up", c)
    <2>1. ASSUME NEW v \in Ways, NEW d \in Conns, v # "up" \/ d # c PROVE Same(v, d)
      <3>1. CASE d # c
        BY <1>13, <3>1, Zenon
      <3>2. CASE d = c /\ v = "down"
        BY <1>14, <3>2, Zenon
      <3> QED
        BY <2>1, <3>1, <3>2 DEF Ways
    <2> QED
      BY <1>1, <1>6, <1>16, <2>1, StreamStep, Zenon
  <1>18. Stays
    BY <1>10, Zenon DEF Stays, Left
  <1>19. [Under!Next]_Under!vars
    BY <1>6, <1>16, <1>17, <1>18, NothingHappensTo, Zenon
  <1>20. Typed'
    BY <1>1, <1>4, <1>7, <1>10 DEF Typed
  <1>21. Readable'
    BY <1>1, <1>10 DEF Readable
  <1>22. Linked'
    <2>1. \A t, u \in Slots : clients'[t] # None /\ clients'[t] = clients'[u] => t = u
      BY <1>11 DEF OneSlotEach
    <2>2. \A t \in Slots : IF clients'[t] = None THEN buffers'[t] = <<>>
                           ELSE peer'[clients'[t]].stage # "out"
      <3>1. buffers'[s] = <<>>
        BY <1>2, <1>7
      <3> QED
        BY <1>1, <1>7, <1>8, <1>10, <3>1 DEF Linked
    <2>3. \A i \in 1 .. Len(backlog) : \A t \in Slots : clients'[t] # backlog[i]
      <3>1. \A i \in 1 .. Len(backlog) : backlog[i] \in Conns
        BY <1>1 DEF Typed
      <3> QED
        BY <1>1, <1>8, <1>9, <3>1 DEF Linked
    <2> QED
      BY <1>1, <1>10, <2>1, <2>2, <2>3 DEF Linked
  <1>23. Empty'
    BY <1>1, <1>10 DEF Empty, In
  <1> QED
    BY <1>17, <1>19, <1>20, <1>21, <1>22, <1>23, Zenon DEF Kept, IInv

\* The lowest free slot.
LEMMA FreeSlotIs ==
    ASSUME FreeSlots # {}, NEW s, s = CHOOSE t \in FreeSlots : \A u \in FreeSlots : t <= u
    PROVE  s \in Slots /\ clients[s] = None
  <1>1. FreeSlots \subseteq Nat
    BY SocketsAssumption DEF FreeSlots, Slots
  <1>2. PICK t \in FreeSlots : \A u \in FreeSlots : t <= u
    BY <1>1, LeastNatural, Zenon
  <1>3. s \in FreeSlots
    BY <1>2
  <1> QED
    BY <1>3 DEF FreeSlots

\* The first connection of the backlog is taken from it.
Taken(c, rest) ==
    /\ rest \in Seq(Conns) /\ c \in Conns
    /\ \A i, j \in 1 .. Len(rest) : rest[i] = rest[j] => i = j
    /\ \A i \in 1 .. Len(rest) : /\ rest[i] # c /\ peer[rest[i]].stage # "out"
                                 /\ \A s \in Slots : clients[s] # rest[i]
    /\ peer[c].stage # "out" /\ \A s \in Slots : clients[s] # c

LEMMA BacklogTaken ==
    ASSUME Typed, Linked, backlog # <<>>, NEW rest, rest = Tail(backlog), NEW c, c = Head(backlog)
    PROVE  Taken(c, rest)
  <1>1. PICK n \in Nat : n = Len(backlog)
    BY DEF Typed
  <1>2. backlog \in Seq(Conns) /\ n # 0
    BY <1>1 DEF Typed
  <1>3. rest \in Seq(Conns) /\ Len(rest) = n - 1 /\ c = backlog[1] /\ backlog[1] \in Conns
        /\ \A i \in 1 .. n - 1 : rest[i] = backlog[i + 1]
    BY <1>1, <1>2
  <1>4. \A i \in 1 .. n - 1 : i + 1 \in 1 .. n /\ i + 1 # 1
    BY <1>1
  <1>5. 1 \in 1 .. n
    BY <1>1, <1>2
  <1>6. \A i, j \in 1 .. n : backlog[i] = backlog[j] => i = j
    BY <1>1 DEF Linked
  <1>7. \A i \in 1 .. n : peer[backlog[i]].stage # "out" /\ \A s \in Slots : clients[s] # backlog[i]
    BY <1>1 DEF Linked
  <1>8. \A i, j \in 1 .. n - 1 : rest[i] = rest[j] => i = j
    BY <1>1, <1>3, <1>4, <1>6
  <1>9. \A i \in 1 .. n - 1 : rest[i] # backlog[1]
    BY <1>3, <1>4, <1>5, <1>6
  <1>10. \A i \in 1 .. n - 1 : peer[rest[i]].stage # "out" /\ \A s \in Slots : clients[s] # rest[i]
    BY <1>3, <1>4, <1>7
  <1> QED
    BY <1>3, <1>5, <1>7, <1>8, <1>9, <1>10 DEF Taken

LEMMA AcceptKeeps ==
    ASSUME IInv, Accept
    PROVE  Kept
  <1>1. Typed /\ Readable /\ Linked /\ Empty /\ Streams
    BY DEF IInv
  <1>2. backlog # <<>> /\ backlog' = Tail(backlog)
        /\ UNCHANGED <<running, buffers, peer, wire, written, received, torn>>
    BY DEF Accept
  <1>3. PICK rest : rest = Tail(backlog)
    OBVIOUS
  <1>4. PICK c : c = Head(backlog)
    OBVIOUS
  <1>5. /\ rest \in Seq(Conns) /\ c \in Conns
        /\ \A i, j \in 1 .. Len(rest) : rest[i] = rest[j] => i = j
        /\ \A i \in 1 .. Len(rest) : /\ rest[i] # c /\ peer[rest[i]].stage # "out"
                                     /\ \A s \in Slots : clients[s] # rest[i]
        /\ peer[c].stage # "out" /\ \A s \in Slots : clients[s] # c
    <2>1. Taken(c, rest)
      BY <1>1, <1>2, <1>3, <1>4, BacklogTaken, Zenon
    <2> QED
      BY <2>1, Zenon DEF Taken
  <1>6. peer' = peer /\ wire' = wire /\ received' = received /\ torn' = torn
        /\ written' = written /\ backlog' = rest /\ running' = running /\ buffers' = buffers
    BY <1>2, <1>3
  <1>7. Stays
    BY <1>6, Zenon DEF Stays, Left
  <1>8. Empty'
    BY <1>1, <1>6 DEF Empty, In
  <1>9. CASE FreeSlots = {}
    <2>1. clients' = clients /\ begun' = begun
      BY <1>9 DEF Accept
    <2>2. ASSUME NEW v \in Ways, NEW d \in Conns PROVE Same(v, d)
      <3>1. (HasSlot(d)' <=> HasSlot(d)) /\ SlotOf(d)' = SlotOf(d)
        BY <2>1, SlotsStay, Zenon
      <3>2. In(d)' = In(d)
        BY <1>6, Zenon DEF In
      <3>3. BegunOf(v, d)' = BegunOf(v, d)
        BY <1>6, <2>1, <3>1, Zenon DEF BegunOf
      <3>4. QueuedOf(v, d)' = QueuedOf(v, d)
        BY <1>6, <3>1, <3>2, Zenon DEF QueuedOf
      <3> QED
        BY <1>6, <3>2, <3>3, <3>4, Zenon DEF Same
    <2>3. Streams' /\ \A v \in Ways, d \in Conns : Way(v, d)' = Way(v, d)
      BY <1>1, <2>2, QuietStep, Zenon
    <2>4. [Under!Next]_Under!vars
      BY <1>7, <2>3, NothingHappens, Zenon
    <2>5. Typed'
      BY <1>1, <1>5, <1>6, <2>1 DEF Typed
    <2>6. Readable'
      BY <1>1, <1>6, <2>1 DEF Readable
    <2>7. Linked'
      BY <1>1, <1>5, <1>6, <2>1 DEF Linked
    <2> QED
      BY <1>8, <2>3, <2>4, <2>5, <2>6, <2>7, Zenon DEF Kept, IInv
  <1>10. CASE FreeSlots # {}
    <2>1. PICK s : s = CHOOSE t \in FreeSlots : \A u \in FreeSlots : t <= u
      OBVIOUS
    <2>2. s \in Slots /\ clients[s] = None
      BY <1>10, <2>1, FreeSlotIs, Zenon
    <2>3. AcceptInto(s)
      BY <1>10, <2>1, Zenon DEF Accept
    <2>4. clients' = [clients EXCEPT ![s] = c] /\ begun' = [begun EXCEPT ![s] = <<>>]
      BY <1>4, <2>3, Zenon DEF AcceptInto
    <2>5. /\ clients'[s] = c /\ begun'[s] = <<>>
          /\ \A t \in Slots : t # s => clients'[t] = clients[t] /\ begun'[t] = begun[t]
      BY <1>1, <2>2, <2>4 DEF Typed
    <2>6. None \notin Conns
      BY SocketsAssumption DEF Conns
    <2>7. buffers[s] = <<>>
      BY <1>1, <2>2 DEF Linked
    <2>8. OneSlotEach(clients)'
      BY <1>1, <1>5, <2>5 DEF Linked, OneSlotEach
    <2>9. ASSUME NEW v \in Ways, NEW d \in Conns, d # c PROVE Same(v, d)
      <3>1. \A t \in Slots : clients[t] = d <=> clients'[t] = d
        BY <2>2, <2>5, <2>6, <2>9
      <3>2. (HasSlot(d)' <=> HasSlot(d)) /\ (HasSlot(d) => SlotOf(d)' = SlotOf(d))
        BY <2>8, <3>1, SlotMoves, Zenon
      <3>3. HasSlot(d) => begun'[SlotOf(d)] = begun[SlotOf(d)]
        <4>1. HasSlot(d) => SlotOf(d) \in Slots /\ clients[SlotOf(d)] = d
          BY SlotIn, Zenon
        <4> QED
          BY <2>2, <2>5, <2>6, <4>1
      <3>4. In(d)' = In(d)
        BY <1>6, Zenon DEF In
      <3>5. BegunOf(v, d)' = BegunOf(v, d)
        BY <1>6, <3>2, <3>3, Zenon DEF BegunOf
      <3>6. QueuedOf(v, d)' = QueuedOf(v, d)
        BY <1>6, <3>2, <3>4, Zenon DEF QueuedOf
      <3> QED
        BY <1>6, <3>4, <3>5, <3>6, Zenon DEF Same
    <2>10. ASSUME NEW v \in Ways PROVE Same(v, c)
      <3>1. ~HasSlot(c)
        BY <1>5, Zenon DEF HasSlot
      <3>2. HasSlot(c)'
        BY <2>2, <2>5, Zenon DEF HasSlot
      <3>3. SlotOf(c)' = s
        <4>1. PICK cl : cl = clients'
          OBVIOUS
        <4>2. OneSlotEach(cl) /\ cl[s] = c /\ cl[s] # None
          BY <1>5, <2>5, <2>6, <2>8, <4>1 DEF OneSlotEach
        <4>3. (CHOOSE t \in Slots : cl[t] = cl[s]) = s
          BY <2>2, <4>2, OnlySlot, Zenon
        <4> QED
          BY <4>1, <4>2, <4>3, Zenon DEF SlotOf
      <3>4. In(c)' = In(c)
        BY <1>6, Zenon DEF In
      <3>5. BegunOf(v, c)' = BegunOf(v, c)
        BY <1>6, <2>5, <3>1, <3>2, <3>3, Zenon DEF BegunOf
      <3>6. Joined(<<>>) = <<>>
        BY JoinedIs
      <3>7. Joined(buffers'[s]) = <<>>
        BY <1>6, <2>7, <3>6, Zenon
      <3>8. QueuedOf(v, c)' = QueuedOf(v, c)
        BY <1>6, <3>1, <3>2, <3>3, <3>7, Zenon DEF QueuedOf
      <3> QED
        BY <1>6, <3>4, <3>5, <3>8, Zenon DEF Same
    <2>11. Streams' /\ \A v \in Ways, d \in Conns : Way(v, d)' = Way(v, d)
      <3>1. \A v \in Ways, d \in Conns : Same(v, d)
        BY <2>9, <2>10, Zenon
      <3> QED
        BY <1>1, <3>1, QuietStep, Zenon
    <2>12. [Under!Next]_Under!vars
      BY <1>7, <2>11, NothingHappens, Zenon
    <2>13. Typed'
      <3>1. begun' \in [Slots -> Seq(Bytes)]
        <4>1. <<>> \in Seq(Bytes) /\ begun \in [Slots -> Seq(Bytes)]
          BY <1>1 DEF Typed
        <4> QED
          BY <2>4, <4>1
      <3> QED
        BY <1>1, <1>5, <1>6, <2>4, <3>1 DEF Typed
    <2>14. Readable'
      <3>1. IsBegun(<<>>)
        BY DEF IsBegun
      <3>2. ASSUME running, NEW t \in Slots PROVE IsBegun(begun'[t])
        <4>1. IsBegun(begun[t])
          BY <1>1, <3>2, Zenon DEF Readable
        <4> QED
          BY <2>5, <3>1, <4>1, Zenon
      <3>3. \A d \in Conns : IsBegun(peer'[d].begun)
        BY <1>1, <1>6, Zenon DEF Readable
      <3> QED
        BY <1>6, <3>2, <3>3, Zenon DEF Readable, IsBegun
    <2>15. Linked'
      <3>1. \A t, u \in Slots : clients'[t] # None /\ clients'[t] = clients'[u] => t = u
        BY <2>8 DEF OneSlotEach
      <3>2. \A t \in Slots : IF clients'[t] = None THEN buffers'[t] = <<>>
                             ELSE peer'[clients'[t]].stage # "out"
        BY <1>1, <1>5, <1>6, <2>5, <2>7 DEF Linked
      <3>3. \A i \in 1 .. Len(rest) : \A t \in Slots : clients'[t] # rest[i]
        BY <1>5, <2>5
      <3> QED
        BY <1>5, <1>6, <3>1, <3>2, <3>3 DEF Linked
    <2> QED
      BY <1>8, <2>11, <2>12, <2>13, <2>14, <2>15, Zenon DEF Kept, IInv
  <1> QED
    BY <1>9, <1>10

-----------------------------------------------------------------------------
(* The steps of the clients.                                               *)

OfClient(c) ==
    /\ clients' = clients /\ buffers' = buffers /\ begun' = begun
    /\ \A d \in Conns : d # c => peer'[d] = peer[d]

LEMMA OtherClients ==
    ASSUME NEW c \in Conns, OfClient(c), NEW w \in Ways, NEW d \in Conns, d # c
    PROVE  EndsKept(w, d)
  <1>1. (HasSlot(d)' <=> HasSlot(d)) /\ SlotOf(d)' = SlotOf(d)
    BY SlotsStay, Zenon DEF OfClient
  <1>2. peer'[d] = peer[d] /\ buffers' = buffers /\ begun' = begun
    BY Zenon DEF OfClient
  <1>3. In(d)' = In(d)
    BY <1>2, Zenon DEF In
  <1>4. BegunOf(w, d)' = BegunOf(w, d)
    BY <1>1, <1>2, Zenon DEF BegunOf
  <1>5. QueuedOf(w, d)' = QueuedOf(w, d)
    BY <1>1, <1>2, <1>3, Zenon DEF QueuedOf
  <1> QED
    BY <1>3, <1>4, <1>5, Zenon DEF EndsKept

\* What the client has of the connection.
LEMMA ClientHas ==
    ASSUME NEW c \in Conns, OfClient(c)
    PROVE  /\ BegunOf("down", c) = peer[c].begun /\ BegunOf("down", c)' = peer'[c].begun
           /\ QueuedOf("up", c) = Joined(peer[c].buffer)
           /\ QueuedOf("up", c)' = Joined(peer'[c].buffer)
           /\ BegunOf("up", c)' = BegunOf("up", c)
           /\ In(c)' = In(c) => QueuedOf("down", c)' = QueuedOf("down", c)
           /\ ~In(c)' => QueuedOf("down", c)' = <<>>
  <1>1. (HasSlot(c)' <=> HasSlot(c)) /\ SlotOf(c)' = SlotOf(c)
    BY SlotsStay, Zenon DEF OfClient
  <1>2. "up" # "down" /\ buffers' = buffers /\ begun' = begun
    BY DEF OfClient
  <1>3. /\ BegunOf("down", c) = peer[c].begun /\ BegunOf("down", c)' = peer'[c].begun
        /\ BegunOf("up", c)' = BegunOf("up", c)
    BY <1>1, <1>2, Zenon DEF BegunOf
  <1>4. /\ QueuedOf("up", c) = Joined(peer[c].buffer)
        /\ QueuedOf("up", c)' = Joined(peer'[c].buffer)
    BY <1>2, Zenon DEF QueuedOf
  <1>5. In(c)' = In(c) => QueuedOf("down", c)' = QueuedOf("down", c)
    BY <1>1, <1>2, Zenon DEF QueuedOf
  <1>6. ~In(c)' => QueuedOf("down", c)' = <<>>
    BY <1>2, Zenon DEF QueuedOf
  <1> QED
    BY <1>3, <1>4, <1>5, <1>6, Zenon

\* What becomes of a client.
PeerNow(c, stage, buffer, begins) ==
    /\ peer' \in [Conns -> Peers]
    /\ peer'[c].stage = stage /\ peer'[c].buffer = buffer /\ peer'[c].begun = begins
    /\ \A d \in Conns : d # c => peer'[d] = peer[d]

LEMMA PeerIs ==
    ASSUME Typed, NEW c \in Conns, NEW p \in Peers, peer' = [peer EXCEPT ![c] = p]
    PROVE  PeerNow(c, p.stage, p.buffer, p.begun)
  <1>1. peer \in [Conns -> Peers]
    BY DEF Typed
  <1>2. peer' \in [Conns -> Peers] /\ peer'[c] = p /\ \A d \in Conns : d # c => peer'[d] = peer[d]
    BY <1>1
  <1> QED
    BY <1>2, Zenon DEF PeerNow

LEMMA PeerChanges ==
    ASSUME Typed, NEW c \in Conns
    PROVE  /\ \A x \in Seq(Chunks) :
                  peer' = [peer EXCEPT ![c].buffer = x] => PeerNow(c, peer[c].stage, x, peer[c].begun)
           /\ \A x \in Seq(Bytes) :
                  peer' = [peer EXCEPT ![c].begun = x] => PeerNow(c, peer[c].stage, peer[c].buffer, x)
           /\ peer' = [peer EXCEPT ![c].stage = "in"] => PeerNow(c, "in", peer[c].buffer, peer[c].begun)
           /\ peer' = [peer EXCEPT ![c] = [stage |-> "left", buffer |-> <<>>, begun |-> <<>>]]
                  => PeerNow(c, "left", <<>>, <<>>)
  <1>1. PICK q \in Peers : q = peer[c]
    BY DEF Typed
  <1>2. ASSUME NEW x \in Seq(Chunks), peer' = [peer EXCEPT ![c].buffer = x]
        PROVE  PeerNow(c, peer[c].stage, x, peer[c].begun)
    <2>1. PICK p : p = [q EXCEPT !.buffer = x]
      OBVIOUS
    <2>2. p \in Peers /\ p.stage = q.stage /\ p.buffer = x /\ p.begun = q.begun
      BY <2>1 DEF Peers
    <2>3. peer' = [peer EXCEPT ![c] = p]
      BY <1>1, <1>2, <2>1, Zenon
    <2>4. PeerNow(c, p.stage, p.buffer, p.begun)
      BY <2>2, <2>3, PeerIs, Zenon
    <2> QED
      BY <1>1, <2>2, <2>4, Zenon
  <1>3. ASSUME NEW x \in Seq(Bytes), peer' = [peer EXCEPT ![c].begun = x]
        PROVE  PeerNow(c, peer[c].stage, peer[c].buffer, x)
    <2>1. PICK p : p = [q EXCEPT !.begun = x]
      OBVIOUS
    <2>2. p \in Peers /\ p.stage = q.stage /\ p.buffer = q.buffer /\ p.begun = x
      BY <2>1 DEF Peers
    <2>3. peer' = [peer EXCEPT ![c] = p]
      BY <1>1, <1>3, <2>1, Zenon
    <2>4. PeerNow(c, p.stage, p.buffer, p.begun)
      BY <2>2, <2>3, PeerIs, Zenon
    <2> QED
      BY <1>1, <2>2, <2>4, Zenon
  <1>4. ASSUME peer' = [peer EXCEPT ![c].stage = "in"]
        PROVE  PeerNow(c, "in", peer[c].buffer, peer[c].begun)
    <2>1. PICK p : p = [q EXCEPT !.stage = "in"]
      OBVIOUS
    <2>2. p \in Peers /\ p.stage = "in" /\ p.buffer = q.buffer /\ p.begun = q.begun
      BY <2>1 DEF Peers
    <2>3. peer' = [peer EXCEPT ![c] = p]
      BY <1>1, <1>4, <2>1, Zenon
    <2>4. PeerNow(c, p.stage, p.buffer, p.begun)
      BY <2>2, <2>3, PeerIs, Zenon
    <2> QED
      BY <1>1, <2>2, <2>4, Zenon
  <1>5. ASSUME peer' = [peer EXCEPT ![c] = [stage |-> "left", buffer |-> <<>>, begun |-> <<>>]]
        PROVE  PeerNow(c, "left", <<>>, <<>>)
    <2>1. PICK p : p = [stage |-> "left", buffer |-> <<>>, begun |-> <<>>]
      OBVIOUS
    <2>2. p \in Peers /\ p.stage = "left" /\ p.buffer = <<>> /\ p.begun = <<>>
      BY <2>1 DEF Peers
    <2>3. peer' = [peer EXCEPT ![c] = p]
      BY <1>5, <2>1, Zenon
    <2>4. PeerNow(c, p.stage, p.buffer, p.begun)
      BY <2>2, <2>3, PeerIs, Zenon
    <2> QED
      BY <2>2, <2>4, Zenon
  <1> QED
    BY <1>2, <1>3, <1>4, <1>5, Zenon

\* A client that has connected stays one that has.
LEMMA LinkedStays ==
    ASSUME Linked, Typed, NEW c \in Conns, OfClient(c), backlog' = backlog, peer'[c].stage # "out"
    PROVE  Linked'
  <1>1. \A d \in Conns : peer[d].stage # "out" => peer'[d].stage # "out"
    BY DEF OfClient
  <1>2. clients' = clients /\ buffers' = buffers
    BY DEF OfClient
  <1>3. \A s \in Slots : clients[s] # None => clients[s] \in Conns
    BY DEF Typed
  <1>4. \A i \in 1 .. Len(backlog) : backlog[i] \in Conns
    BY DEF Typed
  <1> QED
    BY <1>1, <1>2, <1>3, <1>4 DEF Linked

LEMMA ClientWriteKeeps ==
    ASSUME IInv, NEW c \in Conns, NEW size \in Sizes, ClientWrite(c, size)
    PROVE  Kept
  <1>1. Typed /\ Readable /\ Linked /\ Empty /\ Streams
    BY DEF IInv
  <1>2. In(c) /\ NextId \in 1 .. MaxMessages
    BY NumberOk DEF ClientWrite
  <1>3. PICK id \in 1 .. MaxMessages : id = NextId
    BY <1>2
  <1>4. PICK m : m = Message(id, size)
    OBVIOUS
  <1>5. m \in Seq(Bytes)
    BY <1>4, MessageIs, Zenon
  <1>6. /\ peer' = [peer EXCEPT ![c].buffer = LoadData(@, m)]
        /\ WritesTo("up", c, m)
        /\ UNCHANGED <<running, clients, buffers, begun, backlog, wire, received, torn>>
    BY <1>3, <1>4, Zenon DEF ClientWrite, WritesTo
  <1>7. peer[c].buffer \in Seq(Chunks)
    BY <1>1 DEF Typed, Peers
  <1>8. PICK chunks \in Seq(Chunks) : /\ chunks = LoadData(peer[c].buffer, m)
                                      /\ Joined(chunks) = Joined(peer[c].buffer) \o m
    BY <1>5, <1>7, LoadDataIs, Zenon
  <1>9. peer' = [peer EXCEPT ![c].buffer = chunks]
    BY <1>6, <1>8, Zenon
  <1>10. PeerNow(c, peer[c].stage, chunks, peer[c].begun)
    BY <1>1, <1>9, PeerChanges, Zenon
  <1>11. /\ peer' \in [Conns -> Peers]
         /\ peer'[c].stage = peer[c].stage /\ peer'[c].buffer = chunks /\ peer'[c].begun = peer[c].begun
         /\ \A d \in Conns : d # c => peer'[d] = peer[d]
    BY <1>10, Zenon DEF PeerNow
  <1>12. wire' = wire /\ received' = received /\ torn' = torn /\ clients' = clients
         /\ begun' = begun /\ buffers' = buffers /\ backlog' = backlog /\ running' = running
    BY <1>6
  <1>13. OfClient(c)
    BY <1>11, <1>12, Zenon DEF OfClient
  <1>14. In(c)' = In(c)
    BY <1>11, Zenon DEF In
  <1>15. "down" \in Ways /\ "up" \in Ways
    BY DEF Ways
  <1>16. /\ BegunOf("down", c)' = BegunOf("down", c) /\ BegunOf("up", c)' = BegunOf("up", c)
         /\ QueuedOf("down", c)' = QueuedOf("down", c)
         /\ QueuedOf("up", c) = Joined(peer[c].buffer) /\ QueuedOf("up", c)' = Joined(chunks)
    BY <1>11, <1>13, <1>14, ClientHas, Zenon
  <1>17. ASSUME NEW v \in Ways, NEW d \in Conns, v # "up" \/ d # c PROVE Same(v, d)
    <2>1. CASE d # c
      <3>1. EndsKept(v, d)
        BY <1>13, <2>1, OtherClients, Zenon
      <3> QED
        BY <1>12, <3>1, Zenon DEF Same, EndsKept
    <2>2. CASE d = c /\ v = "down"
      BY <1>12, <1>14, <1>16, <2>2, Zenon DEF Same
    <2> QED
      BY <1>17, <2>1, <2>2 DEF Ways
  <1>18. PutsTo("up", c, m)
    <2>1. QueuedOf("up", c)' = QueuedOf("up", c) \o m
      BY <1>8, <1>16, Zenon
    <2> QED
      BY <1>12, <1>14, <1>16, <2>1, Zenon DEF PutsTo
  <1>19. SoundAt("up", c)' /\ Puts(Way("up", c), Way("up", c)', m, c \in Left)
    <2>1. SoundAt("up", c)
      BY <1>1, <1>15, Zenon DEF Streams
    <2> QED
      BY <1>2, <1>4, <1>15, <1>18, <2>1, PutsStay, Zenon
  <1>20. Streams' /\ OthersStay("up", c)
    BY <1>1, <1>15, <1>17, <1>19, StreamStep, Zenon
  <1>21. Left' = Left
    <2>1. \A d \in Conns : peer'[d].stage = peer[d].stage
      BY <1>11
    <2> QED
      BY <2>1 DEF Left
  <1>22. [Under!Next]_Under!vars
    BY <1>4, <1>6, <1>15, <1>19, <1>20, <1>21, Writes, Zenon
  <1>23. Typed'
    <2>1. written' \in [Ways -> [Conns -> Seq(Seq(Bytes))]]
      BY <1>1, <1>5, <1>6, <1>15, WriteTyped, Zenon
    <2> QED
      BY <1>1, <1>11, <1>12, <2>1 DEF Typed
  <1>24. Readable'
    <2>1. \A d \in Conns : peer'[d].begun = peer[d].begun
      BY <1>11
    <2> QED
      BY <1>1, <1>12, <2>1 DEF Readable
  <1>25. Linked'
    <2>1. peer'[c].stage # "out"
      BY <1>2, <1>11 DEF In
    <2> QED
      BY <1>1, <1>12, <1>13, <2>1, LinkedStays, Zenon
  <1>26. Empty'
    <2>1. ASSUME NEW d \in Conns, ~In(d)' PROVE peer'[d] = peer[d]
      BY <1>2, <1>11, <1>14, <2>1
    <2> QED
      BY <1>1, <1>12, <2>1 DEF Empty, In
  <1> QED
    BY <1>20, <1>22, <1>23, <1>24, <1>25, <1>26, Zenon DEF Kept, IInv

LEMMA ClientSendKeeps ==
    ASSUME IInv, NEW c \in Conns, ClientSend(c)
    PROVE  Kept
  <1>1. Typed /\ Readable /\ Linked /\ Empty /\ Streams
    BY DEF IInv
  <1>2. In(c) /\ peer[c].buffer # <<>>
    BY DEF ClientSend, MaySend
  <1>3. PICK chunks : chunks = Tail(peer[c].buffer)
    OBVIOUS
  <1>4. PICK chunk : chunk = Head(peer[c].buffer)
    OBVIOUS
  <1>5. PICK n \in 0 .. Len(chunk) :
            /\ wire' = [wire EXCEPT !["up"][c] = @ \o SubSeq(chunk, 1, n)]
            /\ torn' = IF n = Len(chunk) THEN torn ELSE torn \union {<<"up", c>>}
    BY <1>4, Zenon DEF ClientSend
  <1>6. /\ peer' = [peer EXCEPT ![c].buffer = chunks]
        /\ UNCHANGED <<running, clients, buffers, begun, backlog, written, received>>
    BY <1>3, Zenon DEF ClientSend
  <1>7. peer[c].buffer \in Seq(Chunks)
    BY <1>1 DEF Typed, Peers
  <1>8. PICK rest : rest = Joined(chunks)
    OBVIOUS
  <1>9. chunk \in Seq(Bytes) /\ chunks \in Seq(Chunks) /\ rest \in Seq(Bytes)
        /\ Joined(peer[c].buffer) = chunk \o rest
    BY <1>2, <1>3, <1>4, <1>7, <1>8, ChunkTaken, Zenon
  <1>10. PeerNow(c, peer[c].stage, chunks, peer[c].begun)
    BY <1>1, <1>6, <1>9, PeerChanges, Zenon
  <1>11. /\ peer' \in [Conns -> Peers]
         /\ peer'[c].stage = peer[c].stage /\ peer'[c].buffer = chunks /\ peer'[c].begun = peer[c].begun
         /\ \A d \in Conns : d # c => peer'[d] = peer[d]
    BY <1>10, Zenon DEF PeerNow
  <1>12. received' = received /\ clients' = clients /\ begun' = begun /\ buffers' = buffers
         /\ backlog' = backlog /\ running' = running /\ written' = written
    BY <1>6
  <1>13. OfClient(c)
    BY <1>11, <1>12, Zenon DEF OfClient
  <1>14. In(c)' = In(c)
    BY <1>11, Zenon DEF In
  <1>15. "down" \in Ways /\ "up" \in Ways
    BY DEF Ways
  <1>16. /\ BegunOf("down", c)' = BegunOf("down", c) /\ BegunOf("up", c)' = BegunOf("up", c)
         /\ QueuedOf("down", c)' = QueuedOf("down", c)
         /\ QueuedOf("up", c) = chunk \o rest /\ QueuedOf("up", c)' = rest
    BY <1>8, <1>9, <1>11, <1>13, <1>14, ClientHas, Zenon
  <1>17. OtherEndsKept("up", c)
    <2>1. ASSUME NEW v \in Ways, NEW d \in Conns, v # "up" \/ d # c PROVE EndsKept(v, d)
      <3>1. CASE d # c
        BY <1>13, <3>1, OtherClients, Zenon
      <3>2. CASE d = c /\ v = "down"
        BY <1>14, <1>16, <3>2, Zenon DEF EndsKept
      <3> QED
        BY <2>1, <3>1, <3>2 DEF Ways
    <2> QED
      BY <2>1, Zenon DEF OtherEndsKept
  <1>18. Stays
    <2>1. \A d \in Conns : peer'[d].stage = peer[d].stage
      BY <1>11
    <2> QED
      BY <1>12, <2>1 DEF Stays, Left
  <1>19. SendsPart("up", c, chunk, n)
    BY <1>5, <1>12, Zenon DEF SendsPart
  <1>20. /\ Streams' /\ [Under!Next]_Under!vars
         /\ torn' \subseteq Ways \X Conns
         /\ wire' \in [Ways -> [Conns -> Seq(Bytes)]]
         /\ \A v \in Ways, d \in Conns : v # "up" \/ d # c => wire'[v][d] = wire[v][d]
    BY <1>1, <1>9, <1>14, <1>15, <1>16, <1>17, <1>18, <1>19, SendStep, Zenon
  <1>21. Typed'
    BY <1>1, <1>11, <1>12, <1>20 DEF Typed
  <1>22. Readable'
    <2>1. \A d \in Conns : peer'[d].begun = peer[d].begun
      BY <1>11
    <2> QED
      BY <1>1, <1>12, <2>1 DEF Readable
  <1>23. Linked'
    <2>1. peer'[c].stage # "out"
      BY <1>2, <1>11 DEF In
    <2> QED
      BY <1>1, <1>12, <1>13, <2>1, LinkedStays, Zenon
  <1>24. Empty'
    <2>1. ASSUME NEW d \in Conns, ~In(d)'
          PROVE  /\ peer'[d] = peer[d]
                 /\ wire'["down"][d] = wire["down"][d] /\ wire'["up"][d] = wire["up"][d]
      <3>1. d # c
        BY <1>2, <1>14, <2>1, Zenon
      <3> QED
        BY <1>11, <1>15, <1>20, <3>1, Zenon
    <2> QED
      BY <1>1, <2>1 DEF Empty, In
  <1> QED
    BY <1>20, <1>21, <1>22, <1>23, <1>24, Zenon DEF Kept, IInv

\* The client leaves; the messages r it has processed in its last moments.
LastOnes(c, r) ==
    /\ received' \in [Ways -> [Conns -> Seq(Seq(Bytes))]]
    /\ received'["down"][c] = received["down"][c] \o r
    /\ \A v \in Ways, d \in Conns : v # "down" \/ d # c => received'[v][d] = received[v][d]
    /\ <<"down", c>> \notin torn =>
           \E u \in Seq(Seq(Bytes)) :
               /\ r \in Seq(Seq(Bytes))
               /\ Grouped(BegunOf("down", c) \o wire["down"][c] \o QueuedOf("down", c)).whole = r \o u

LEMMA GoneStep ==
    ASSUME IInv, NEW c \in Conns, In(c), NEW kept \in 0 .. Len(wire["up"][c]), NEW r, Gone(c, kept),
           LastOnes(c, r), UNCHANGED <<running, clients, buffers, begun, backlog, written, torn>>
    PROVE  Kept
  <1>0. /\ received' \in [Ways -> [Conns -> Seq(Seq(Bytes))]]
        /\ received'["down"][c] = received["down"][c] \o r
        /\ \A v \in Ways, d \in Conns : v # "down" \/ d # c => received'[v][d] = received[v][d]
        /\ <<"down", c>> \notin torn =>
               \E u \in Seq(Seq(Bytes)) :
                   /\ r \in Seq(Seq(Bytes))
                   /\ Grouped(BegunOf("down", c) \o wire["down"][c] \o QueuedOf("down", c)).whole = r \o u
    BY Zenon DEF LastOnes
  <1>1. Typed /\ Readable /\ Linked /\ Empty /\ Streams
    BY DEF IInv
  <1>2. "down" \in Ways /\ "up" \in Ways /\ "up" # "down"
    BY DEF Ways
  <1>3. PeerNow(c, "left", <<>>, <<>>)
    BY <1>1, PeerChanges, Zenon DEF Gone
  <1>4. /\ peer' \in [Conns -> Peers]
        /\ peer'[c].stage = "left" /\ peer'[c].buffer = <<>> /\ peer'[c].begun = <<>>
        /\ \A d \in Conns : d # c => peer'[d] = peer[d]
    BY <1>3, Zenon DEF PeerNow
  <1>5. PICK x \in Seq(Bytes) : x = SubSeq(wire["up"][c], 1, kept)
    <2>1. PICK way \in Seq(Bytes) : way = wire["up"][c]
      BY <1>1, <1>2 DEF Typed
    <2>2. SubSeq(way, 1, kept) \in Seq(Bytes)
      BY <2>1, Divide
    <2> QED
      BY <2>1, <2>2
  <1>6. PICK one : one = Changed(wire, "up", c, x)
    OBVIOUS
  <1>7. wire \in [Ways -> [Conns -> Seq(Bytes)]]
    BY <1>1 DEF Typed
  <1>8. EntryNow(Seq(Bytes), wire, one, "up", c, x)
    BY <1>2, <1>6, <1>7, EntryOf, Zenon
  <1>9. /\ one \in [Ways -> [Conns -> Seq(Bytes)]] /\ one["up"][c] = x
        /\ \A v \in Ways, d \in Conns : v # "up" \/ d # c => one[v][d] = wire[v][d]
    BY <1>8, Zenon DEF EntryNow
  <1>10. wire' = Changed(one, "down", c, <<>>)
    BY <1>5, <1>6, Zenon DEF Gone, Changed
  <1>11. EntryNow(Seq(Bytes), one, wire', "down", c, <<>>)
    <2>1. <<>> \in Seq(Bytes)
      OBVIOUS
    <2> QED
      BY <1>2, <1>9, <1>10, <2>1, EntryOf, Zenon
  <1>12. /\ wire' \in [Ways -> [Conns -> Seq(Bytes)]] /\ wire'["down"][c] = <<>>
         /\ \A v \in Ways, d \in Conns : v # "down" \/ d # c => wire'[v][d] = one[v][d]
    BY <1>11, Zenon DEF EntryNow
  <1>13. wire'["up"][c] = SubSeq(wire["up"][c], 1, kept)
    BY <1>2, <1>5, <1>9, <1>12, Zenon
  <1>14. \A v \in Ways, d \in Conns : d # c => wire'[v][d] = wire[v][d]
    BY <1>9, <1>12, Zenon
  <1>15. clients' = clients /\ begun' = begun /\ buffers' = buffers /\ torn' = torn
         /\ backlog' = backlog /\ running' = running /\ written' = written
    OBVIOUS
  <1>16. OfClient(c)
    BY <1>4, <1>15, Zenon DEF OfClient
  <1>17. ~In(c)'
    BY <1>4 DEF In
  <1>18. Joined(<<>>) = <<>>
    BY JoinedIs
  <1>19. /\ BegunOf("down", c)' = <<>> /\ BegunOf("up", c)' = BegunOf("up", c)
         /\ QueuedOf("down", c)' = <<>> /\ QueuedOf("up", c)' = <<>>
    BY <1>4, <1>16, <1>17, <1>18, ClientHas, Zenon
  <1>20. EndsUp("up", c, kept)
    BY <1>0, <1>2, <1>13, <1>15, <1>17, <1>19, Zenon DEF EndsUp
  <1>21. EndsDown("down", c, r)
    BY <1>0, <1>12, <1>15, <1>17, <1>19, Zenon DEF EndsDown
  <1>22. SoundAt("up", c)' /\ CutUp(Way("up", c), Way("up", c)')
    <2>1. SoundAt("up", c)
      BY <1>1, <1>2, Zenon DEF Streams
    <2> QED
      BY <1>2, <1>20, <2>1, EndsUpStay, Zenon
  <1>23. SoundAt("down", c)' /\ CutDown(Way("down", c), Way("down", c)')
    BY <1>0, <1>1, <1>2, <1>21, EndsDownStay, Zenon
  <1>24. ASSUME NEW v \in Ways, NEW d \in Conns, d # c PROVE Same(v, d)
    <2>1. EndsKept(v, d)
      BY <1>16, <1>24, OtherClients, Zenon
    <2>2. wire'[v][d] = wire[v][d] /\ received'[v][d] = received[v][d]
      BY <1>0, <1>14, <1>24, Zenon
    <2> QED
      BY <1>15, <2>1, <2>2, Zenon DEF Same, EndsKept
  <1>25. Streams' /\ \A v \in Ways, d \in Conns : d # c => Way(v, d)' = Way(v, d)
    BY <1>1, <1>22, <1>23, <1>24, ConnectionStep, Zenon
  <1>26. c \notin Left /\ Left' = Left \union {c}
    BY <1>4 DEF In, Left
  <1>27. [Under!Next]_Under!vars
    <2>1. PICK k \in 0 .. Under!Under(Way("up", c)) : Way("up", c)' = Under!Cut(Way("up", c), k)
      BY <1>22, Zenon DEF CutUp
    <2>2. PICK last \in 0 .. Under!Under(Way("down", c)) :
              Way("down", c)' = IF Way("down", c) = Broken THEN Broken
                                ELSE Under!Cut(Under!Moved(Way("down", c), last), 0)
      BY <1>23, Zenon DEF CutDown
    <2> QED
      BY <1>15, <1>25, <1>26, <2>1, <2>2, Leaves, Zenon
  <1>28. Typed'
    BY <1>0, <1>1, <1>4, <1>12, <1>15 DEF Typed
  <1>29. Readable'
    <2>1. IsBegun(<<>>)
      BY DEF IsBegun
    <2>2. \A d \in Conns : IsBegun(peer'[d].begun)
      BY <1>1, <1>4, <2>1, Zenon DEF Readable
    <2>3. running => \A s \in Slots : IsBegun(begun[s])
      BY <1>1, Zenon DEF Readable
    <2>4. running' => \A s \in Slots : IsBegun(begun'[s])
      <3>1. running' = running /\ begun' = begun
        BY <1>15
      <3> QED
        BY <2>3, <3>1
    <2> QED
      BY <2>2, <2>4, Zenon DEF Readable
  <1>30. Linked'
    <2>1. peer'[c].stage # "out"
      BY <1>4
    <2> QED
      BY <1>1, <1>15, <1>16, <2>1, LinkedStays, Zenon
  <1>31. Empty'
    <2>1. ASSUME NEW d \in Conns, d # c
          PROVE  /\ peer'[d] = peer[d]
                 /\ wire'["down"][d] = wire["down"][d] /\ wire'["up"][d] = wire["up"][d]
      BY <1>2, <1>4, <1>14, <2>1, Zenon
    <2>2. ASSUME NEW d \in Conns, d # c, ~In(d)'
          PROVE  /\ peer'[d].buffer = <<>> /\ peer'[d].begun = <<>> /\ wire'["down"][d] = <<>>
                 /\ peer'[d].stage = "out" => wire'["up"][d] = <<>>
      <3>1. ~In(d)
        BY <2>1, <2>2, Zenon DEF In
      <3> QED
        BY <1>1, <2>1, <2>2, <3>1, Zenon DEF Empty
    <2>3. /\ peer'[c].buffer = <<>> /\ peer'[c].begun = <<>> /\ wire'["down"][c] = <<>>
          /\ peer'[c].stage # "out"
      BY <1>4, <1>12
    <2> QED
      BY <2>2, <2>3, Zenon DEF Empty
  <1> QED
    BY <1>25, <1>27, <1>28, <1>29, <1>30, <1>31, Zenon DEF Kept, IInv

\* Nothing is read in the last moments.
LEMMA NothingRead ==
    ASSUME IInv, NEW c \in Conns, UNCHANGED received
    PROVE  LastOnes(c, <<>>)
  <1>1. Typed /\ Streams /\ "down" \in Ways
    BY DEF IInv, Ways
  <1>2. received["down"][c] \in Seq(Seq(Bytes))
    BY <1>1 DEF Typed
  <1>3. received["down"][c] \o <<>> = received["down"][c]
    BY <1>2, ConcatEmptySeq
  <1>4. ASSUME <<"down", c>> \notin torn
        PROVE  \E u \in Seq(Seq(Bytes)) :
                   /\ <<>> \in Seq(Seq(Bytes))
                   /\ Grouped(BegunOf("down", c) \o wire["down"][c] \o QueuedOf("down", c)).whole
                          = <<>> \o u
    <2>1. Sound(BegunOf("down", c), wire["down"][c], QueuedOf("down", c), In(c))
      BY <1>1, <1>4, Zenon DEF Streams, SoundAt
    <2>2. Grouped(BegunOf("down", c) \o wire["down"][c] \o QueuedOf("down", c)).whole
              \in Seq(Seq(Bytes))
      BY <2>1, SoundIs, Zenon
    <2>3. PICK u \in Seq(Seq(Bytes)) :
              u = Grouped(BegunOf("down", c) \o wire["down"][c] \o QueuedOf("down", c)).whole
      BY <2>2, Zenon
    <2>4. <<>> \o u = u
      BY ConcatEmptySeq, Zenon
    <2>5. <<>> \in Seq(Seq(Bytes))
      BY EmptySeq, Zenon
    <2> QED
      BY <2>3, <2>4, <2>5, Zenon
  <1>5. received' \in [Ways -> [Conns -> Seq(Seq(Bytes))]]
    BY <1>1 DEF Typed
  <1> QED
    BY <1>3, <1>4, <1>5, Zenon DEF LastOnes

LEMMA ClientEofKeeps ==
    ASSUME IInv, NEW c \in Conns, ClientEof(c)
    PROVE  Kept
  <1>1. In(c) /\ Gone(c, 0)
        /\ UNCHANGED <<running, clients, buffers, begun, backlog, written, torn>>
        /\ UNCHANGED received
    BY DEF ClientEof
  <1>2. 0 \in 0 .. Len(wire["up"][c])
    <2>1. wire["up"][c] \in Seq(Bytes)
      BY DEF IInv, Typed, Ways
    <2> QED
      BY <2>1
  <1> QED
    BY <1>1, <1>2, NothingRead, GoneStep, Zenon

LEMMA LeaveKeeps ==
    ASSUME IInv, NEW c \in Conns, Leave(c)
    PROVE  Kept
  <1>1. In(c) /\ UNCHANGED <<running, clients, buffers, begun, backlog, written, torn>>
        /\ UNCHANGED received
    BY DEF Leave
  <1>2. PICK kept \in 0 .. Len(wire["up"][c]) : Gone(c, kept)
    BY Zenon DEF Leave
  <1> QED
    BY <1>1, <1>2, NothingRead, GoneStep, Zenon

\* What the client reads in its last moments.
LEMMA LastRead ==
    ASSUME IInv, NEW c \in Conns, NEW n \in 0 .. Len(wire["down"][c]),
           NEW p, p = Parsed(peer[c].begun, SubSeq(wire["down"][c], 1, n)),
           received' = [received EXCEPT !["down"][c] = @ \o p.messages]
    PROVE  LastOnes(c, p.messages)
  <1>1. Typed /\ Readable /\ Streams /\ "down" \in Ways
    BY DEF IInv, Ways
  <1>2. BegunOf("down", c) = peer[c].begun
    BY DEF BegunOf
  <1>3. IsBegun(BegunOf("down", c)) /\ p = Parsed(BegunOf("down", c), SubSeq(wire["down"][c], 1, n))
    BY <1>1, <1>2, Zenon DEF Readable
  <1>4. ReadTyped("down", c, n, p)
    BY <1>1, <1>3, ReadTypedIs, Zenon
  <1>5. PICK all \in Seq(Seq(Bytes)) : all = received["down"][c] \o p.messages
    BY <1>4, Zenon DEF ReadTyped
  <1>6. received' = Changed(received, "down", c, all)
    BY <1>5, Zenon DEF Changed
  <1>7. EntryNow(Seq(Seq(Bytes)), received, received', "down", c, all)
    <2>1. received \in [Ways -> [Conns -> Seq(Seq(Bytes))]]
      BY <1>1, Zenon DEF Typed
    <2> QED
      BY <1>1, <1>6, <2>1, EntryOf, Zenon
  <1>8. /\ received' \in [Ways -> [Conns -> Seq(Seq(Bytes))]]
        /\ received'["down"][c] = received["down"][c] \o p.messages
        /\ \A v \in Ways, d \in Conns : v # "down" \/ d # c => received'[v][d] = received[v][d]
    BY <1>5, <1>7, Zenon DEF EntryNow
  <1>9. ASSUME <<"down", c>> \notin torn
        PROVE  \E u \in Seq(Seq(Bytes)) :
                   /\ p.messages \in Seq(Seq(Bytes))
                   /\ Grouped(BegunOf("down", c) \o wire["down"][c] \o QueuedOf("down", c)).whole
                          = p.messages \o u
    <2>1. Sound(BegunOf("down", c), wire["down"][c], QueuedOf("down", c), In(c))
      BY <1>1, <1>9, Zenon DEF Streams, SoundAt
    <2>2. In(c) \in BOOLEAN
      BY DEF In
    <2>3. PICK rest : rest = SubSeq(wire["down"][c], n + 1, Len(wire["down"][c]))
      OBVIOUS
    <2>4. ReadAs(BegunOf("down", c), wire["down"][c], QueuedOf("down", c), In(c), p, rest)
      BY <1>3, <2>1, <2>2, <2>3, ReadSound, Zenon
    <2> QED
      BY <2>4, Zenon DEF ReadAs
  <1> QED
    BY <1>8, <1>9, Zenon DEF LastOnes

LEMMA ClientReadKeeps ==
    ASSUME IInv, NEW c \in Conns, ClientRead(c)
    PROVE  Kept
  <1>1. Typed /\ Readable /\ Linked /\ Empty /\ Streams
    BY DEF IInv
  <1>2. PICK n \in Recv(wire["down"][c]) :
            LET p == Parsed(peer[c].begun, SubSeq(wire["down"][c], 1, n))
            IN  /\ received' = [received EXCEPT !["down"][c] = @ \o p.messages]
                /\ \/ /\ ~p.lost
                      /\ peer' = [peer EXCEPT ![c].begun = p.got]
                      /\ wire' = [wire EXCEPT !["down"][c] = SubSeq(@, n + 1, Len(@))]
                   \/ p.lost /\ Gone(c, Len(wire["up"][c]))
    BY Zenon DEF ClientRead
  <1>3. PICK p : p = Parsed(peer[c].begun, SubSeq(wire["down"][c], 1, n))
    OBVIOUS
  <1>4. received' = [received EXCEPT !["down"][c] = @ \o p.messages]
    BY <1>2, <1>3, Zenon
  <1>5. \/ /\ ~p.lost
           /\ peer' = [peer EXCEPT ![c].begun = p.got]
           /\ wire' = [wire EXCEPT !["down"][c] = SubSeq(@, n + 1, Len(@))]
        \/ p.lost /\ Gone(c, Len(wire["up"][c]))
    BY <1>2, <1>3, Zenon
  <1>6. In(c) /\ UNCHANGED <<running, clients, buffers, begun, backlog, written, torn>>
    BY DEF ClientRead
  <1>7. "down" \in Ways /\ "up" \in Ways
    BY DEF Ways
  <1>8. n \in 0 .. Len(wire["down"][c])
    <2>1. wire["down"][c] \in Seq(Bytes)
      BY <1>1, <1>7 DEF Typed
    <2>2. PICK k \in Nat : k = Len(wire["down"][c])
      BY <2>1
    <2>3. n \in Nat /\ n <= k
      BY <2>2, SocketsAssumption DEF Recv
    <2> QED
      BY <2>2, <2>3
  <1>9. CASE p.lost /\ Gone(c, Len(wire["up"][c]))
    <2>1. Len(wire["up"][c]) \in 0 .. Len(wire["up"][c])
      <3>1. wire["up"][c] \in Seq(Bytes)
        BY <1>1, <1>7 DEF Typed
      <3> QED
        BY <3>1
    <2>2. PICK r : r = p.messages
      OBVIOUS
    <2>3. LastOnes(c, r)
      BY <1>3, <1>4, <1>8, <2>2, LastRead, Zenon
    <2>4. PICK kept \in 0 .. Len(wire["up"][c]) : Gone(c, kept)
      BY <1>9, <2>1, Zenon
    <2> QED
      BY <1>6, <2>3, <2>4, GoneStep, Zenon
  <1>10. CASE /\ ~p.lost
              /\ peer' = [peer EXCEPT ![c].begun = p.got]
              /\ wire' = [wire EXCEPT !["down"][c] = SubSeq(@, n + 1, Len(@))]
    <2>1. BegunOf("down", c) = peer[c].begun
      BY DEF BegunOf
    <2>2. /\ IsBegun(BegunOf("down", c))
          /\ p = Parsed(BegunOf("down", c), SubSeq(wire["down"][c], 1, n))
      BY <1>1, <1>3, <2>1, Zenon DEF Readable
    <2>3. p.got \in Seq(Bytes) /\ (~p.lost => IsBegun(p.got))
      <3>1. ReadTyped("down", c, n, p)
        BY <1>1, <1>7, <1>8, <2>2, ReadTypedIs, Zenon
      <3> QED
        BY <3>1, Zenon DEF ReadTyped
    <2>4. PeerNow(c, peer[c].stage, peer[c].buffer, p.got)
      BY <1>1, <1>10, <2>3, PeerChanges, Zenon
    <2>5. /\ peer' \in [Conns -> Peers]
          /\ peer'[c].stage = peer[c].stage /\ peer'[c].buffer = peer[c].buffer
          /\ peer'[c].begun = p.got
          /\ \A d \in Conns : d # c => peer'[d] = peer[d]
      BY <2>4, Zenon DEF PeerNow
    <2>6. clients' = clients /\ begun' = begun /\ buffers' = buffers /\ torn' = torn
          /\ backlog' = backlog /\ running' = running /\ written' = written
      BY <1>6
    <2>7. OfClient(c)
      BY <2>5, <2>6, Zenon DEF OfClient
    <2>8. In(c)' = In(c)
      BY <2>5, Zenon DEF In
    <2>9. /\ BegunOf("down", c)' = p.got /\ BegunOf("up", c)' = BegunOf("up", c)
          /\ QueuedOf("down", c)' = QueuedOf("down", c) /\ QueuedOf("up", c)' = QueuedOf("up", c)
      BY <2>5, <2>7, <2>8, ClientHas, Zenon
    <2>10. OtherEndsKept("down", c)
      <3>1. ASSUME NEW v \in Ways, NEW d \in Conns, v # "down" \/ d # c PROVE EndsKept(v, d)
        <4>1. CASE d # c
          BY <2>7, <4>1, OtherClients, Zenon
        <4>2. CASE d = c /\ v = "up"
          BY <2>8, <2>9, <4>2, Zenon DEF EndsKept
        <4> QED
          BY <3>1, <4>1, <4>2 DEF Ways
      <3> QED
        BY <3>1, Zenon DEF OtherEndsKept
    <2>11. Stays
      <3>1. \A d \in Conns : peer'[d].stage = peer[d].stage
        BY <2>5, Zenon
      <3> QED
        BY <2>6, <3>1, Zenon DEF Stays, Left
    <2>12. ReadsPart("down", c, n, p)
      BY <1>4, <1>10, <2>6, Zenon DEF ReadsPart
    <2>13. /\ Streams' /\ [Under!Next]_Under!vars
           /\ wire' \in [Ways -> [Conns -> Seq(Bytes)]]
           /\ received' \in [Ways -> [Conns -> Seq(Seq(Bytes))]]
           /\ \A v \in Ways, d \in Conns : v # "down" \/ d # c => wire'[v][d] = wire[v][d]
      BY <1>1, <1>7, <1>8, <2>2, <2>8, <2>9, <2>10, <2>11, <2>12, ReadStep, Zenon
    <2>14. Typed'
      BY <1>1, <2>5, <2>6, <2>13 DEF Typed
    <2>15. Readable'
      <3>1. \A d \in Conns : IsBegun(peer'[d].begun)
        BY <1>1, <1>10, <2>3, <2>5, Zenon DEF Readable
      <3> QED
        BY <1>1, <2>6, <3>1, Zenon DEF Readable, IsBegun
    <2>16. Linked'
      <3>1. peer'[c].stage # "out"
        BY <1>6, <2>5 DEF In
      <3> QED
        BY <1>1, <2>6, <2>7, <3>1, LinkedStays, Zenon
    <2>17. Empty'
      <3>1. ASSUME NEW d \in Conns, d # c
            PROVE  /\ peer'[d] = peer[d]
                   /\ wire'["down"][d] = wire["down"][d] /\ wire'["up"][d] = wire["up"][d]
        BY <1>7, <2>5, <2>13, <3>1, Zenon
      <3>2. In(c)'
        BY <1>6, <2>8
      <3> QED
        BY <1>1, <3>1, <3>2 DEF Empty, In
    <2> QED
      BY <2>13, <2>14, <2>15, <2>16, <2>17, Zenon DEF Kept, IInv
  <1> QED
    BY <1>5, <1>9, <1>10

\* A client connects: there is nothing yet.
Opens(w, c) ==
    /\ BegunOf(w, c) = <<>> /\ wire[w][c] = <<>> /\ QueuedOf(w, c) = <<>>
    /\ BegunOf(w, c)' = <<>> /\ wire'[w][c] = <<>> /\ QueuedOf(w, c)' = <<>>
    /\ received'[w][c] = received[w][c]
    /\ <<w, c>> \in torn' <=> <<w, c>> \in torn

LEMMA OpensStay ==
    ASSUME NEW w \in Ways, NEW c \in Conns, Opens(w, c)
    PROVE  SoundAt(w, c)' /\ Way(w, c)' = Way(w, c)
  <1>1. In(c)' \in BOOLEAN
    BY DEF In
  <1>2. Sound(<<>>, <<>>, <<>>, In(c)')
    BY <1>1, NothingIsSound, Zenon
  <1>3. SoundAt(w, c)'
    BY <1>2, Zenon DEF SoundAt, Opens
  <1>4. Unread(w, c)' = Unread(w, c)
    BY Zenon DEF Opens, Unread
  <1>5. Way(w, c)' = Way(w, c)
    BY <1>4, Zenon DEF Opens, Way
  <1> QED
    BY <1>3, <1>5

LEMMA BacklogGrows ==
    ASSUME Typed, Linked, NEW c \in Conns, peer[c].stage = "out", OfClient(c),
           peer'[c].stage = "in", backlog' = Append(backlog, c)
    PROVE  Linked' /\ backlog' \in Seq(Conns)
  <1>1. backlog \in Seq(Conns) /\ backlog' \in Seq(Conns)
    BY DEF Typed
  <1>2. PICK n \in Nat : n = Len(backlog)
    BY <1>1
  <1>3. /\ Len(backlog') = n + 1 /\ backlog'[n + 1] = c
        /\ \A i \in 1 .. n : backlog'[i] = backlog[i] /\ backlog[i] \in Conns
    BY <1>1, <1>2
  <1>4. \A d \in Conns : peer[d].stage # "out" => peer'[d].stage # "out" /\ d # c
    BY DEF OfClient
  <1>5. ASSUME NEW i \in 1 .. Len(backlog')
        PROVE  i \in 1 .. n \/ i = n + 1
    BY <1>2, <1>3, <1>5
  <1>6. \A i \in 1 .. n : backlog[i] # c
    BY <1>2, <1>3, <1>4 DEF Linked
  <1>7. \A i, j \in 1 .. Len(backlog') : backlog'[i] = backlog'[j] => i = j
    BY <1>2, <1>3, <1>5, <1>6 DEF Linked
  <1>8. None \notin Conns
    BY SocketsAssumption DEF Conns
  <1>9. \A s \in Slots : clients[s] # c
    BY <1>8 DEF Linked
  <1>10. ASSUME NEW i \in 1 .. Len(backlog')
         PROVE  /\ peer'[backlog'[i]].stage # "out"
                /\ \A s \in Slots : clients'[s] # backlog'[i]
    <2>1. CASE i \in 1 .. n
      BY <1>2, <1>3, <1>4, <2>1 DEF Linked, OfClient
    <2>2. CASE i = n + 1
      BY <1>3, <1>9, <2>2 DEF OfClient
    <2> QED
      BY <1>5, <2>1, <2>2
  <1>11. \A s \in Slots : IF clients'[s] = None THEN buffers'[s] = <<>>
                          ELSE peer'[clients'[s]].stage # "out"
    BY <1>4 DEF Linked, OfClient, Typed
  <1>12. \A s, t \in Slots : clients'[s] # None /\ clients'[s] = clients'[t] => s = t
    BY DEF Linked, OfClient
  <1> QED
    BY <1>1, <1>7, <1>10, <1>11, <1>12, Zenon DEF Linked

LEMMA ConnectKeeps ==
    ASSUME IInv, NEW c \in Conns, Connect(c)
    PROVE  Kept
  <1>1. Typed /\ Readable /\ Linked /\ Empty /\ Streams
    BY DEF IInv
  <1>2. peer[c].stage = "out" /\ peer' = [peer EXCEPT ![c].stage = "in"]
        /\ backlog' = Append(backlog, c)
        /\ UNCHANGED <<running, clients, buffers, begun, wire, written, received, torn>>
    BY DEF Connect
  <1>3. running' = running /\ clients' = clients /\ buffers' = buffers /\ begun' = begun
        /\ wire' = wire /\ written' = written /\ received' = received /\ torn' = torn
    BY <1>2
  <1>4. PeerNow(c, "in", peer[c].buffer, peer[c].begun)
    BY <1>1, <1>2, PeerChanges, Zenon
  <1>5. /\ peer' \in [Conns -> Peers]
        /\ peer'[c].stage = "in" /\ peer'[c].buffer = peer[c].buffer
        /\ peer'[c].begun = peer[c].begun
        /\ \A d \in Conns : d # c => peer'[d] = peer[d]
    BY <1>4, Zenon DEF PeerNow
  <1>6. OfClient(c)
    BY <1>3, <1>5, Zenon DEF OfClient
  <1>7. peer[c].buffer = <<>> /\ peer[c].begun = <<>> /\ wire["down"][c] = <<>>
        /\ wire["up"][c] = <<>>
    BY <1>1, <1>2 DEF Empty, In
  <1>8. ~HasSlot(c) /\ ~HasSlot(c)'
    <2>1. None \notin Conns
      BY SocketsAssumption DEF Conns
    <2>2. \A s \in Slots : clients[s] # c
      BY <1>1, <1>2, <2>1 DEF Linked
    <2> QED
      BY <1>3, <2>2, Zenon DEF HasSlot
  <1>9. Joined(<<>>) = <<>>
    BY JoinedIs
  <1>10. ASSUME NEW w \in Ways PROVE Opens(w, c)
    <2>1. BegunOf(w, c) = <<>> /\ BegunOf(w, c)' = <<>>
      BY <1>5, <1>7, <1>8, Zenon DEF BegunOf
    <2>2. QueuedOf(w, c) = <<>> /\ QueuedOf(w, c)' = <<>>
      BY <1>5, <1>7, <1>8, <1>9, Zenon DEF QueuedOf
    <2>3. wire[w][c] = <<>>
      BY <1>7, <1>10, Zenon DEF Ways
    <2> QED
      BY <1>3, <2>1, <2>2, <2>3, Zenon DEF Opens
  <1>11. ASSUME NEW w \in Ways PROVE SoundAt(w, c)' /\ Way(w, c)' = Way(w, c)
    BY <1>10, <1>11, OpensStay, Zenon
  <1>12. ASSUME NEW v \in Ways, NEW d \in Conns, d # c PROVE Same(v, d)
    <2>1. EndsKept(v, d)
      BY <1>6, <1>12, OtherClients, Zenon
    <2> QED
      BY <1>3, <2>1, Zenon DEF Same, EndsKept
  <1>13. "up" \in Ways /\ "down" \in Ways
    BY DEF Ways
  <1>14. Streams' /\ \A v \in Ways, d \in Conns : d # c => Way(v, d)' = Way(v, d)
    BY <1>1, <1>11, <1>12, <1>13, ConnectionStep, Zenon
  <1>15. \A v \in Ways, d \in Conns : Way(v, d)' = Way(v, d)
    BY <1>11, <1>14, Zenon
  <1>16. Left' = Left
    <2>1. \A d \in Conns : peer'[d].stage = "left" <=> peer[d].stage = "left"
      BY <1>2, <1>5
    <2> QED
      BY <2>1, Zenon DEF Left
  <1>17. [Under!Next]_Under!vars
    BY <1>3, <1>15, <1>16, NothingHappens, Zenon DEF Stays
  <1>18. Linked' /\ backlog' \in Seq(Conns)
    BY <1>1, <1>2, <1>5, <1>6, BacklogGrows, Zenon
  <1>19. Typed'
    BY <1>1, <1>3, <1>5, <1>18 DEF Typed
  <1>20. Readable'
    <2>1. \A d \in Conns : IsBegun(peer'[d].begun)
      BY <1>1, <1>5, Zenon DEF Readable
    <2> QED
      BY <1>1, <1>3, <2>1, Zenon DEF Readable, IsBegun
  <1>21. Empty'
    BY <1>1, <1>3, <1>5 DEF Empty, In
  <1> QED
    BY <1>14, <1>17, <1>18, <1>19, <1>20, <1>21, Zenon DEF Kept, IInv

-----------------------------------------------------------------------------
(* The theorems.                                                           *)

LEMMA InitTyped == Init => IInv
  <1>1. SUFFICES ASSUME Init PROVE IInv
    OBVIOUS
  <1>2. <<>> \in Seq(Bytes) /\ <<>> \in Seq(Chunks) /\ <<>> \in Seq(Conns)
        /\ <<>> \in Seq(Seq(Bytes))
    OBVIOUS
  <1>3. peer \in [Conns -> Peers]
    BY <1>1, <1>2 DEF Init, Peers
  <1>4. Typed
    <2>1. running \in BOOLEAN /\ clients \in [Slots -> Conns \union {None}] /\ torn \subseteq Ways \X Conns
      BY <1>1 DEF Init
    <2>2. buffers \in [Slots -> Seq(Chunks)] /\ begun \in [Slots -> Seq(Bytes)] /\ backlog \in Seq(Conns)
      BY <1>1, <1>2 DEF Init
    <2>3. /\ wire \in [Ways -> [Conns -> Seq(Bytes)]]
          /\ written \in [Ways -> [Conns -> Seq(Seq(Bytes))]]
          /\ received \in [Ways -> [Conns -> Seq(Seq(Bytes))]]
      BY <1>1, <1>2 DEF Init
    <2> QED
      BY <1>3, <2>1, <2>2, <2>3, Zenon DEF Typed
  <1>5. /\ \A c \in Conns : peer[c].stage = "out" /\ peer[c].buffer = <<>> /\ peer[c].begun = <<>>
        /\ \A s \in Slots : clients[s] = None /\ buffers[s] = <<>> /\ begun[s] = <<>>
        /\ \A w \in Ways, c \in Conns : wire[w][c] = <<>>
        /\ backlog = <<>>
    BY <1>1 DEF Init
  <1>6. Readable
    <2>1. IsBegun(<<>>)
      BY DEF IsBegun
    <2> QED
      BY <1>5, <2>1, Zenon DEF Readable
  <1>7. Linked
    <2>1. Len(backlog) = 0
      BY <1>5
    <2> QED
      BY <1>5, <2>1 DEF Linked
  <1>8. Empty
    BY <1>5, Zenon DEF Empty, Ways
  <1>9. Streams
    <2>1. ASSUME NEW w \in Ways, NEW c \in Conns PROVE SoundAt(w, c)
      <3>1. ~HasSlot(c)
        <4>1. None \notin Conns
          BY SocketsAssumption DEF Conns
        <4> QED
          BY <1>5, <4>1, Zenon DEF HasSlot
      <3>2. Joined(<<>>) = <<>>
        BY JoinedIs
      <3>3. BegunOf(w, c) = <<>> /\ QueuedOf(w, c) = <<>> /\ wire[w][c] = <<>>
        BY <1>5, <3>1, <3>2, Zenon DEF BegunOf, QueuedOf
      <3>4. In(c) \in BOOLEAN
        BY DEF In
      <3>5. Sound(<<>>, <<>>, <<>>, In(c))
        BY <3>4, NothingIsSound, Zenon
      <3> QED
        BY <3>3, <3>5, Zenon DEF SoundAt
    <2> QED
      BY <2>1, Zenon DEF Streams
  <1> QED
    BY <1>4, <1>6, <1>7, <1>8, <1>9, Zenon DEF IInv

LEMMA InitUnder == Init => Under!Init
  <1>1. SUFFICES ASSUME Init PROVE Under!Init
    OBVIOUS
  <1>2. ASSUME NEW w \in Ways, NEW c \in Conns
        PROVE  Way(w, c) = [transit |-> <<>>, delivered |-> <<>>]
    <2>1. /\ peer[c].buffer = <<>> /\ peer[c].begun = <<>> /\ peer[c].stage = "out"
          /\ \A s \in Slots : clients[s] = None
          /\ wire[w][c] = <<>> /\ received[w][c] = <<>> /\ torn = {}
      BY <1>1 DEF Init
    <2>2. ~HasSlot(c)
      <3>1. None \notin Conns
        BY SocketsAssumption DEF Conns
      <3> QED
        BY <2>1, <3>1, Zenon DEF HasSlot
    <2>3. Joined(<<>>) = <<>>
      BY JoinedIs
    <2>4. BegunOf(w, c) = <<>> /\ QueuedOf(w, c) = <<>>
      BY <2>1, <2>2, <2>3, Zenon DEF BegunOf, QueuedOf
    <2>5. Grouped(<<>> \o <<>> \o <<>>).whole = <<>>
      BY NothingIsSound, Zenon
    <2>6. <<w, c>> \notin torn
      BY <2>1
    <2>7. Way(w, c) = Queue(<<>>, <<>>)
      BY <2>1, <2>4, <2>5, <2>6, WayIs, Zenon
    <2> QED
      BY <2>7, Zenon DEF Queue
  <1>3. Channels = [w \in Ways |-> [c \in Conns |-> [transit |-> <<>>, delivered |-> <<>>]]]
    BY <1>2, Zenon DEF Channels
  <1>4. Left = {}
    <2>1. \A c \in Conns : peer[c].stage # "left"
      BY <1>1 DEF Init
    <2> QED
      BY <2>1, Zenon DEF Left
  <1>5. written = [w \in Ways |-> [c \in Conns |-> <<>>]]
    BY <1>1 DEF Init
  <1> QED
    BY <1>3, <1>4, <1>5, Zenon DEF Under!Init

\* Every step keeps the invariant and is a step of Channel or none.
LEMMA StepKeeps ==
    ASSUME IInv, [Next]_vars
    PROVE  Kept
  <1>1. CASE Accept
    BY <1>1, AcceptKeeps, Zenon
  <1>2. ASSUME NEW s \in Slots, ServerSelect(s) PROVE Kept
    BY <1>2, ServerReadKeeps, ServerEofKeeps, ServerSendKeeps, ServerSendInVainKeeps, Zenon
       DEF ServerSelect
  <1>3. ASSUME NEW s \in Slots, NEW size \in Sizes, ServerWrite(s, size) PROVE Kept
    BY <1>3, ServerWriteKeeps, Zenon
  <1>4. ASSUME NEW c \in Conns,
               Connect(c) \/ ClientRead(c) \/ ClientSend(c) \/ ClientEof(c) \/ Leave(c)
        PROVE  Kept
    BY <1>4, ConnectKeeps, ClientReadKeeps, ClientSendKeeps, ClientEofKeeps, LeaveKeeps, Zenon
  <1>5. ASSUME NEW c \in Conns, NEW size \in Sizes, ClientWrite(c, size) PROVE Kept
    BY <1>5, ClientWriteKeeps, Zenon
  <1>6. CASE UNCHANGED vars
    <2>1. /\ running' = running /\ clients' = clients /\ buffers' = buffers /\ begun' = begun
          /\ backlog' = backlog /\ peer' = peer /\ wire' = wire /\ written' = written
          /\ received' = received /\ torn' = torn
      BY <1>6 DEF vars
    <2>2. \A w \in Ways, c \in Conns : Same(w, c)
      <3>1. \A c \in Conns : In(c)' = In(c)
        BY <2>1, Zenon DEF In
      <3>2. \A w \in Ways, c \in Conns : BegunOf(w, c)' = BegunOf(w, c)
        BY <2>1, SlotsStay, Zenon DEF BegunOf
      <3>3. \A w \in Ways, c \in Conns : QueuedOf(w, c)' = QueuedOf(w, c)
        BY <2>1, <3>1, SlotsStay, Zenon DEF QueuedOf
      <3> QED
        BY <2>1, <3>1, <3>2, <3>3, Zenon DEF Same
    <2>3. Typed /\ Readable /\ Linked /\ Empty /\ Streams
      BY DEF IInv
    <2>4. Streams' /\ \A w \in Ways, c \in Conns : Way(w, c)' = Way(w, c)
      BY <2>2, <2>3, QuietStep, Zenon
    <2>5. [Under!Next]_Under!vars
      BY <2>1, <2>4, NothingHappens, Zenon DEF Stays, Left
    <2>6. Typed'
      BY <2>1, <2>3, Zenon DEF Typed
    <2>7. Readable'
      BY <2>1, <2>3, Zenon DEF Readable, IsBegun
    <2>8. Linked'
      BY <2>1, <2>3, Zenon DEF Linked
    <2>9. Empty'
      BY <2>1, <2>3, Zenon DEF Empty, In
    <2> QED
      BY <2>4, <2>5, <2>6, <2>7, <2>8, <2>9, Zenon DEF Kept, IInv
  <1> QED
    BY <1>1, <1>2, <1>3, <1>4, <1>5, <1>6, Zenon DEF Next

LEMMA InvTyped == IInv => TypeOK
  <1>1. SUFFICES ASSUME IInv PROVE TypeOK
    OBVIOUS
  <1>2. Typed /\ Readable
    BY <1>1 DEF IInv
  <1>3. Range(backlog) \subseteq Conns
    <2>1. backlog \in Seq(Conns)
      BY <1>2 DEF Typed
    <2> QED
      BY <2>1 DEF Range
  <1>4. \A c \in Conns : peer[c].stage \in {"out", "in", "left"} /\ peer[c].buffer \in Seq(Chunks)
    BY <1>2 DEF Typed, Peers
  <1>5. \A s \in Slots : buffers[s] \in Seq(Chunks)
    BY <1>2 DEF Typed
  <1>6. \A c \in Conns, w \in Ways : wire[w][c] \in Seq(Bytes)
    BY <1>2 DEF Typed
  <1> QED
    BY <1>2, <1>3, <1>4, <1>5, <1>6, Zenon DEF TypeOK, Typed, Readable

\* What is proved by induction over the steps: every table has its type, what is begun
\* can be gone on with, a connection is in one place, and on every way on which no
\* send was cut short the bytes that were begun, those on the wire and those in the
\* buffer are, in this order, messages.
THEOREM InvariantHolds == Spec => []IInv
  <1>1. IInv /\ [Next]_vars => IInv'
    BY StepKeeps, Zenon DEF Kept
  <1> QED
    BY <1>1, InitTyped, PTL DEF Spec

\* The tables of the server hold connections, the write buffers chunks that fit the
\* buffer of select, and whatever recv returned, server_read and client_read keep of
\* a message that is not complete at least its header.
THEOREM TypeCorrect == Spec => []TypeOK
  BY InvariantHolds, InvTyped, PTL

\* With every number of slots, clients and messages, every size of a message and of
\* the buffers, however send and recv divide the bytes and whoever had the slot
\* before: a connection of core/socket.c is a pair of queues of whole messages, as
\* long as no send was cut short.
THEOREM SocketsImplementChannel == Spec => ImplementsChannel
  <1>1. IInv /\ [Next]_vars => [Under!Next]_Under!vars
    BY StepKeeps, Zenon DEF Kept
  <1> QED
    BY <1>1, InitUnder, InvariantHolds, PTL DEF Spec, ImplementsChannel, Under!Spec
=============================================================================
