---------------------------- MODULE SequenceLemmas ----------------------------
(***************************************************************************)
(* What several proofs need of natural numbers, recursive functions and    *)
(* sequences: induction over a set, what a recursive function returns,     *)
(* selecting elements of a sequence, counting them, and laying sequences   *)
(* end to end.                                                             *)
(***************************************************************************)
EXTENDS Selection, SequencesExt, SequenceTheorems, FiniteSetTheorems, WellFoundedInduction,
        TLAPS

-----------------------------------------------------------------------------
(* Natural numbers.                                                        *)

\* A set of naturals has a minimal member for any well-founded relation on Nat.
LEMMA MinimalNat ==
  ASSUME NEW S, S \subseteq Nat, S # {}, NEW R, IsWellFoundedOn(R, Nat)
  PROVE  \E c \in S : \A d \in S : <<d, c>> \notin R
BY WFMin, Zenon

\* A set of naturals that is not empty has a least member.
LEMMA LeastNat ==
  ASSUME NEW S, S \subseteq Nat, S # {}
  PROVE  \E c \in S : \A d \in S : c <= d
<1> DEFINE R == {ss \in Nat \X Nat : ss[1] < ss[2]}
<1>1. IsWellFoundedOn(R, Nat)
  BY NatLessThanWellFounded, Zenon DEF OpToRel
<1>2. \E c \in S : \A d \in S : <<d, c>> \notin R
  <2> HIDE DEF R
  <2> QED BY <1>1, MinimalNat, Zenon
<1>3. ASSUME NEW c \in S, NEW d \in S, <<d, c>> \notin R PROVE c <= d
  <2>1. d \in Nat /\ c \in Nat /\ ~(d < c)
    BY <1>3
  <2> QED BY <2>1
<1> QED
  <2> HIDE DEF R
  <2> QED BY <1>2, <1>3, Zenon

\* One that is bounded has a greatest member.
LEMMA GreatestNat ==
  ASSUME NEW N \in Nat, NEW S, S \subseteq 0..N, S # {}
  PROVE  \E c \in S : \A d \in S : d <= c
<1> DEFINE T == {n \in Nat : N - n \in S}
<1>1. PICK c \in T : \A d \in T : c <= d
  <2>1. PICK d \in S : TRUE
    OBVIOUS
  <2>2. N - d \in T
    BY <2>1
  <2>3. T \subseteq Nat /\ T # {}
    BY <2>2
  <2> HIDE DEF T
  <2> QED BY <2>3, LeastNat
<1>2. N - c \in S
  OBVIOUS
<1>3. ASSUME NEW d \in S PROVE d <= N - c
  <2>1. d \in 0..N /\ N - d \in T /\ c \in Nat
    OBVIOUS
  <2>2. c <= N - d
    <3> HIDE DEF T
    <3> QED BY <1>1, <2>1
  <2> QED BY <2>1, <2>2
<1> HIDE DEF T
<1>4. \A d \in S : d <= N - c
  BY <1>3
<1> QED BY <1>2, <1>4

\* Induction, for a set instead of a predicate.
LEMMA SetInduction ==
  ASSUME NEW T, 0 \in T, \A n \in Nat : n \in T => n + 1 \in T
  PROVE  \A n \in Nat : n \in T
<1> SUFFICES ASSUME Nat \ T # {} PROVE FALSE
  OBVIOUS
<1>1. PICK c \in Nat \ T : \A d \in Nat \ T : c <= d
  <2>1. Nat \ T \subseteq Nat
    OBVIOUS
  <2> QED BY <2>1, LeastNat
<1>2. c # 0 /\ c - 1 \in Nat
  BY <1>1
<1>3. c - 1 \in T
  BY <1>1, <1>2
<1>4. (c - 1) + 1 \in T
  BY <1>2, <1>3
<1> QED BY <1>1, <1>4

\* Induction up to a bound.
LEMMA BoundedInduction ==
  ASSUME NEW N \in Nat, NEW T, 0 \in T, \A n \in 1..N : n - 1 \in T => n \in T
  PROVE  \A n \in 0..N : n \in T
<1> DEFINE U == {n \in Nat : n <= N => n \in T}
<1>1. 0 \in U
  OBVIOUS
<1>2. \A n \in Nat : n \in U => n + 1 \in U
  <2> SUFFICES ASSUME NEW n \in Nat, n \in U, n + 1 <= N PROVE n + 1 \in T
    OBVIOUS
  <2>1. n \in T /\ n + 1 \in 1..N /\ (n + 1) - 1 = n
    OBVIOUS
  <2> QED BY <2>1
<1> HIDE DEF U
<1>3. \A n \in Nat : n \in U
  BY <1>1, <1>2, SetInduction
<1> QED BY <1>3 DEF U

-----------------------------------------------------------------------------
(* Recursive functions.                                                    *)

\* f starts with b and goes on as the steps say; f and g start and go on alike.
Follows(f, N, b, step) == f[0] = b /\ \A n \in 1..N : f[n] = step[n][f[n - 1]]
Alike(f, g, N) == f[0] = g[0] /\ \A n \in 1..N : f[n - 1] = g[n - 1] => f[n] = g[n]

\* There is a function that starts with a value and goes from each one to the
\* next as the steps say.
LEMMA RecursionExists ==
  ASSUME NEW N \in Nat, NEW V, NEW b \in V, NEW step \in [1..N -> [V -> V]]
  PROVE  \E f \in [0..N -> V] : Follows(f, N, b, step)
<1> DEFINE Fits(f, n) == f[0] = b /\ \A i \in 1..n : f[i] = step[i][f[i - 1]]
           T == {n \in Nat : n <= N => \E f \in [0..n -> V] : Fits(f, n)}
<1>1. 0 \in T
  <2>1. [i \in 0..0 |-> b] \in [0..0 -> V] /\ Fits([i \in 0..0 |-> b], 0)
    OBVIOUS
  <2> HIDE DEF Fits
  <2> QED BY <2>1
<1>2. \A n \in 1..N : n - 1 \in T => n \in T
  <2> SUFFICES ASSUME NEW n \in 1..N, n - 1 \in T PROVE n \in T
    BY Zenon
  <2>0. n - 1 \in Nat /\ n - 1 <= N /\ n \in Nat
    OBVIOUS
  <2>1. PICK g \in [0..(n - 1) -> V] : Fits(g, n - 1)
    <3> HIDE DEF Fits
    <3> QED BY <2>0
  <2> DEFINE f == [i \in 0..n |-> IF i = n THEN step[n][g[n - 1]] ELSE g[i]]
  <2>2. g[n - 1] \in V /\ step[n][g[n - 1]] \in V
    OBVIOUS
  <2>3. f \in [0..n -> V]
    BY <2>2
  <2>4. f[0] = b
    BY <2>1
  <2>5. ASSUME NEW i \in 1..n PROVE f[i] = step[i][f[i - 1]]
    <3>1. CASE i = n
      <4>1. f[n] = step[n][g[n - 1]] /\ f[n - 1] = g[n - 1]
        OBVIOUS
      <4> QED BY <3>1, <4>1
    <3>2. CASE i # n
      <4>1. i \in 1..(n - 1) /\ f[i] = g[i] /\ f[i - 1] = g[i - 1]
        BY <3>2
      <4> QED BY <2>1, <4>1
    <3> QED BY <3>1, <3>2
  <2> HIDE DEF f
  <2>6. Fits(f, n)
    BY <2>4, <2>5
  <2> HIDE DEF Fits
  <2> QED BY <2>0, <2>3, <2>6
<1> HIDE DEF T
<1>3. N \in T
  <2>1. \A n \in 0..N : n \in T
    BY <1>1, <1>2, BoundedInduction
  <2> QED BY <2>1
<1> QED BY <1>3 DEF T, Follows

\* Two functions that start alike and go on alike are alike.
LEMMA RecursionAgrees ==
  ASSUME NEW N \in Nat, NEW f, NEW g, Alike(f, g, N)
  PROVE  \A n \in 0..N : f[n] = g[n]
<1> DEFINE T == {n \in Nat : f[n] = g[n]}
<1>1. 0 \in T
  BY DEF Alike
<1>2. \A n \in 1..N : n - 1 \in T => n \in T
  BY DEF Alike
<1> HIDE DEF T
<1>3. \A n \in 0..N : n \in T
  BY <1>1, <1>2, BoundedInduction
<1> QED BY <1>3 DEF T

-----------------------------------------------------------------------------
(* Selecting elements of a sequence.                                       *)

\* How a selection is put together, element by element.
Takes(f, s, at) ==
  f[0] = <<>> /\ \A n \in 1..Len(s) :
    f[n] = IF n \in at THEN Append(f[n - 1], s[n]) ELSE f[n - 1]

LEMMA SelectTakes ==
  ASSUME NEW S, NEW s \in Seq(S), NEW at
  PROVE  \E f \in [0..Len(s) -> Seq(S)] : Takes(f, s, at) /\ Select(s, at) = f[Len(s)]
<1> DEFINE N == Len(s)
           step == [n \in 1..N |-> [v \in Seq(S) |-> IF n \in at THEN Append(v, s[n]) ELSE v]]
           F(f) == [n \in 0..N |-> IF n = 0 THEN <<>>
                                   ELSE IF n \in at THEN Append(f[n - 1], s[n]) ELSE f[n - 1]]
           taken == CHOOSE f : f = F(f)
<1>1. N \in Nat /\ \A n \in 1..N : s[n] \in S
  BY LenProperties, ElementOfSeq
<1>2. step \in [1..N -> [Seq(S) -> Seq(S)]]
  <2>1. \A n \in 1..N, v \in Seq(S) : Append(v, s[n]) \in Seq(S)
    BY <1>1, AppendProperties
  <2> HIDE DEF N
  <2> QED BY <2>1
<1>3. <<>> \in Seq(S)
  BY EmptySeq
<1>4. PICK f \in [0..N -> Seq(S)] : f[0] = <<>> /\ \A n \in 1..N : f[n] = step[n][f[n - 1]]
  <2> HIDE DEF step, N
  <2>1. \E f \in [0..N -> Seq(S)] : Follows(f, N, <<>>, step)
    BY <1>1, <1>2, <1>3, RecursionExists
  <2> QED BY <2>1 DEF Follows
<1>5. \A n \in 1..N : step[n][f[n - 1]] = IF n \in at THEN Append(f[n - 1], s[n]) ELSE f[n - 1]
  <2> HIDE DEF N
  <2>1. \A n \in 1..N : n - 1 \in 0..N
    BY <1>1
  <2>2. \A n \in 1..N : f[n - 1] \in Seq(S)
    BY <1>4, <2>1
  <2>3. ASSUME NEW n \in 1..N, NEW v \in Seq(S)
        PROVE  step[n][v] = IF n \in at THEN Append(v, s[n]) ELSE v
    OBVIOUS
  <2> HIDE DEF step
  <2> QED BY <2>2, <2>3
<1>6. f = F(f)
  <2> HIDE DEF step, N
  <2>1. ASSUME NEW n \in 0..N PROVE f[n] = F(f)[n]
    <3>1. CASE n = 0
      BY <1>1, <1>4, <3>1
    <3>2. CASE n # 0
      <4>1. n \in 1..N
        BY <1>1, <3>2
      <4> QED BY <1>4, <1>5, <3>2, <4>1
    <3> QED BY <3>1, <3>2
  <2>2. DOMAIN f = 0..N /\ f = [n \in 0..N |-> f[n]]
    BY <1>4
  <2> QED BY <2>1, <2>2
<1>7. taken = F(taken)
  BY <1>6
<1>8. Select(s, at) = taken[N]
  BY DEF Select
<1> HIDE DEF taken
<1>9. taken[0] = <<>> /\ \A n \in 1..N :
        taken[n] = IF n \in at THEN Append(taken[n - 1], s[n]) ELSE taken[n - 1]
  <2> HIDE DEF N
  <2>1. \A n \in 0..N : taken[n] = F(taken)[n]
    BY <1>7, Zenon
  <2>2. 0 \in 0..N /\ F(taken)[0] = <<>>
    BY <1>1
  <2>3. ASSUME NEW n \in 1..N
        PROVE  n \in 0..N /\ F(taken)[n] = IF n \in at THEN Append(taken[n - 1], s[n])
                                            ELSE taken[n - 1]
    BY <1>1
  <2> QED BY <2>1, <2>2, <2>3, Zenon
<1>10. \A n \in 0..N : taken[n] = f[n]
  <2> HIDE DEF N, step
  <2>1. \A n \in 1..N : taken[n - 1] = f[n - 1] => taken[n] = f[n]
    BY <1>4, <1>5, <1>9
  <2>2. taken[0] = f[0]
    BY <1>4, <1>9
  <2>3. Alike(taken, f, N)
    BY <2>1, <2>2 DEF Alike
  <2> QED BY <1>1, <2>3, RecursionAgrees
<1>11. Takes(f, s, at)
  BY <1>4, <1>5 DEF Takes
<1>12. Select(s, at) = f[N]
  BY <1>1, <1>8, <1>10
<1> QED BY <1>4, <1>11, <1>12

LEMMA SelectType ==
  ASSUME NEW S, NEW s \in Seq(S), NEW at
  PROVE  Select(s, at) \in Seq(S)
<1>1. Len(s) \in 0..Len(s)
  BY LenProperties
<1> QED BY <1>1, SelectTakes

LEMMA SelectEmpty ==
  ASSUME NEW at
  PROVE  Select(<<>>, at) = <<>>
<1>1. <<>> \in Seq({}) /\ Len(<<>>) = 0
  BY EmptySeq
<1>2. PICK f : Takes(f, <<>>, at) /\ Select(<<>>, at) = f[Len(<<>>)]
  BY <1>1, SelectTakes
<1> QED BY <1>1, <1>2 DEF Takes

\* Of a prefix the same is taken as of the whole, and only what is at the indices
\* of the sequence counts.
SameUpTo(s, t, at, bt, N) == \A n \in 1..N : s[n] = t[n] /\ (n \in at <=> n \in bt)

LEMMA TakesAgree ==
  ASSUME NEW s, NEW t, NEW at, NEW bt, NEW f, NEW g, NEW N \in Nat, Takes(f, s, at), Takes(g, t, bt),
         Len(s) \in Nat, Len(t) \in Nat, N <= Len(s), N <= Len(t), SameUpTo(s, t, at, bt, N)
  PROVE  f[N] = g[N]
<1>1. Alike(f, g, N)
  BY DEF Takes, Alike, SameUpTo
<1>2. \A n \in 0..N : f[n] = g[n]
  BY <1>1, RecursionAgrees
<1> QED BY <1>2

LEMMA SelectAgrees ==
  ASSUME NEW S, NEW s \in Seq(S), NEW at, NEW bt, \A n \in 1..Len(s) : n \in at <=> n \in bt
  PROVE  Select(s, at) = Select(s, bt)
<1>1. PICK f : Takes(f, s, at) /\ Select(s, at) = f[Len(s)]
  BY SelectTakes
<1>2. PICK g : Takes(g, s, bt) /\ Select(s, bt) = g[Len(s)]
  BY SelectTakes
<1>3. Len(s) \in Nat
  BY LenProperties
<1>4. Len(s) <= Len(s) /\ SameUpTo(s, s, at, bt, Len(s))
  BY <1>3 DEF SameUpTo
<1> QED BY <1>1, <1>2, <1>3, <1>4, TakesAgree

LEMMA SelectAppend ==
  ASSUME NEW S, NEW s \in Seq(S), NEW e \in S, NEW at
  PROVE  Select(Append(s, e), at) =
           IF Len(s) + 1 \in at THEN Append(Select(s, at), e) ELSE Select(s, at)
<1> DEFINE t == Append(s, e)
<1>1. /\ t \in Seq(S) /\ Len(t) = Len(s) + 1 /\ Len(s) \in Nat /\ t[Len(s) + 1] = e
      /\ \A n \in 1..Len(s) : t[n] = s[n]
  BY AppendProperties, LenProperties
<1> HIDE DEF t
<1>2. PICK f : Takes(f, s, at) /\ Select(s, at) = f[Len(s)]
  BY SelectTakes
<1>3. PICK g : Takes(g, t, at) /\ Select(t, at) = g[Len(t)]
  BY <1>1, SelectTakes
<1>4. g[Len(s)] = f[Len(s)]
  <2>1. SameUpTo(s, t, at, at, Len(s)) /\ Len(s) <= Len(s) /\ Len(s) <= Len(t) /\ Len(t) \in Nat
    BY <1>1 DEF SameUpTo
  <2> QED BY <1>1, <1>2, <1>3, <2>1, TakesAgree
<1>5. g[Len(s) + 1] = IF Len(s) + 1 \in at THEN Append(g[(Len(s) + 1) - 1], t[Len(s) + 1])
                      ELSE g[(Len(s) + 1) - 1]
  BY <1>1, <1>3 DEF Takes
<1>6. (Len(s) + 1) - 1 = Len(s)
  BY <1>1
<1>7. Select(t, at) = IF Len(s) + 1 \in at THEN Append(Select(s, at), e) ELSE Select(s, at)
  BY <1>1, <1>2, <1>3, <1>4, <1>5, <1>6
<1> QED BY <1>7 DEF t

\* A sequence that is not empty is what comes before its last element, and that.
LEMMA AllButLast ==
  ASSUME NEW S, NEW s \in Seq(S), s # <<>>
  PROVE  SubSeq(s, 1, Len(s) - 1) \in Seq(S) /\ s = Append(SubSeq(s, 1, Len(s) - 1), s[Len(s)])
<1> DEFINE n == Len(s)
<1>1. n \in Nat /\ n # 0
  BY LenProperties, EmptySeq
<1>2. 1 \in 1..n /\ n \in 1..n
  BY <1>1
<1>3. SubSeq(s, 1, n) = SubSeq(s, 1, n - 1) \o <<s[n]>>
  BY <1>2, SubSeqRecursiveSecond
<1>4. SubSeq(s, 1, n) = s
  BY SubSeqFull
<1>5. SubSeq(s, 1, n - 1) \in Seq(S) /\ s[n] \in S
  <2>1. \A i \in 1..n - 1 : s[i] \in S
    BY <1>1, ElementOfSeq
  <2>2. n - 1 \in Nat
    BY <1>1
  <2>3. s[n] \in S
    BY <1>2, ElementOfSeq
  <2> QED BY <1>1, <2>1, <2>2, <2>3, SubSeqProperties
<1> QED BY <1>3, <1>4, <1>5, AppendIsConcat

-----------------------------------------------------------------------------
(* Counting the elements of a sequence.                                    *)

Count(s, e) == Cardinality({i \in DOMAIN s : s[i] = e})

LEMMA CountFinite ==
  ASSUME NEW S, NEW s \in Seq(S), NEW e
  PROVE  IsFiniteSet({i \in DOMAIN s : s[i] = e}) /\ Count(s, e) \in Nat
<1>1. DOMAIN s = 1..Len(s) /\ Len(s) \in Nat
  BY LenProperties
<1>2. IsFiniteSet(1..Len(s))
  BY <1>1, FS_Interval
<1>3. IsFiniteSet({i \in DOMAIN s : s[i] = e})
  BY <1>1, <1>2, FS_Subset
<1> QED BY <1>3, FS_CardinalityType DEF Count

\* Something is counted exactly if it is there.
LEMMA CountPositive ==
  ASSUME NEW S, NEW s \in Seq(S), NEW e
  PROVE  Count(s, e) > 0 <=> \E i \in DOMAIN s : s[i] = e
<1> DEFINE At == {i \in DOMAIN s : s[i] = e}
<1>1. IsFiniteSet(At) /\ Cardinality(At) \in Nat
  BY CountFinite DEF Count
<1>2. Cardinality(At) = 0 <=> At = {}
  BY <1>1, FS_EmptySet
<1> QED BY <1>1, <1>2 DEF Count

LEMMA CountEmpty ==
  ASSUME NEW e
  PROVE  Count(<<>>, e) = 0
<1>1. {i \in DOMAIN <<>> : <<>>[i] = e} = {}
  OBVIOUS
<1> QED BY <1>1, FS_EmptySet DEF Count

\* The counts of two sequences add up in their concatenation: the places in the
\* second are those of the whole behind the first.
LEMMA CountConcat ==
  ASSUME NEW S, NEW s \in Seq(S), NEW t \in Seq(S), NEW e
  PROVE  Count(s \o t, e) = Count(s, e) + Count(t, e)
<1> DEFINE n  == Len(s)
           A  == {i \in DOMAIN s : s[i] = e}
           B  == {i \in DOMAIN t : t[i] = e}
           C  == {i \in n + 1..n + Len(t) : t[i - n] = e}
           f  == [i \in B |-> i + n]
           st == s \o t
<1>1. n \in Nat /\ Len(t) \in Nat /\ DOMAIN s = 1..n /\ DOMAIN t = 1..Len(t)
  BY LenProperties
<1>2. /\ DOMAIN st = 1..n + Len(t)
      /\ \A i \in 1..n + Len(t) : st[i] = IF i <= n THEN s[i] ELSE t[i - n]
  BY <1>1, ConcatProperties, LenProperties
<1>3. {i \in DOMAIN st : st[i] = e} = A \cup C
  <2>1. ASSUME NEW i \in DOMAIN st, st[i] = e
        PROVE  i \in A \cup C
    <3>1. CASE i <= n
      BY <1>1, <1>2, <2>1, <3>1
    <3>2. CASE ~(i <= n)
      BY <1>1, <1>2, <2>1, <3>2
    <3> QED BY <3>1, <3>2
  <2>2. ASSUME NEW i \in A
        PROVE  i \in DOMAIN st /\ st[i] = e
    BY <1>1, <1>2
  <2>3. ASSUME NEW i \in C
        PROVE  i \in DOMAIN st /\ st[i] = e
    BY <1>1, <1>2
  <2> HIDE DEF A, C, st
  <2> QED BY <2>1, <2>2, <2>3
<1>4. A \cap C = {}
  BY <1>1
<1>5. IsFiniteSet(A) /\ IsFiniteSet(B) /\ Cardinality(A) \in Nat /\ Cardinality(B) \in Nat
  BY CountFinite DEF Count
<1>6. f \in Bijection(B, C)
  <2>1. f \in [B -> C]
    BY <1>1
  <2>2. \A x, y \in B : f[x] = f[y] => x = y
    BY <1>1
  <2>3. ASSUME NEW z \in C
        PROVE  \E x \in B : f[x] = z
    <3>1. z - n \in B /\ f[z - n] = z
      BY <1>1
    <3> QED BY <3>1
  <2> HIDE DEF f, B, C
  <2> QED BY <2>1, <2>2, <2>3, Zenon DEF Bijection, Injection, Surjection, IsInjective
<1>7. IsFiniteSet(C) /\ Cardinality(C) = Cardinality(B)
  <2>1. ExistsBijection(B, C)
    BY <1>6 DEF ExistsBijection
  <2> HIDE DEF B, C
  <2> QED BY <1>5, <2>1, FS_Bijection, FS_SameCardinalityBij
<1> HIDE DEF A, B, C
<1>8. Cardinality(A \cup C) = Cardinality(A) + Cardinality(C) - Cardinality({})
  BY <1>4, <1>5, <1>7, FS_Union
<1>9. Count(s, e) = Cardinality(A) /\ Count(t, e) = Cardinality(B)
  BY DEF Count, A, B
<1>10. Count(s \o t, e) = Cardinality(A \cup C)
  BY <1>3 DEF Count
<1>11. Cardinality({}) = 0
  BY FS_EmptySet
<1> QED BY <1>5, <1>7, <1>8, <1>9, <1>10, <1>11

LEMMA CountOne ==
  ASSUME NEW e, NEW d
  PROVE  Count(<<d>>, e) = IF d = e THEN 1 ELSE 0
<1>1. DOMAIN <<d>> = {1}
  OBVIOUS
<1>2. CASE d = e
  BY <1>1, <1>2, FS_Singleton DEF Count
<1>3. CASE d # e
  <2>1. {i \in DOMAIN <<d>> : <<d>>[i] = e} = {}
    BY <1>1, <1>3
  <2> QED BY <1>3, <2>1, FS_EmptySet DEF Count
<1> QED BY <1>2, <1>3

LEMMA CountAppend ==
  ASSUME NEW S, NEW s \in Seq(S), NEW d \in S, NEW e
  PROVE  Count(Append(s, d), e) = Count(s, e) + (IF d = e THEN 1 ELSE 0)
<1>1. <<d>> \in Seq(S) /\ Append(s, d) = s \o <<d>>
  BY AppendIsConcat
<1>2. Count(s \o <<d>>, e) = Count(s, e) + Count(<<d>>, e)
  BY <1>1, CountConcat
<1> QED BY <1>1, <1>2, CountOne

LEMMA CountAll ==
  ASSUME NEW S, NEW s \in Seq(S), NEW e, \A i \in DOMAIN s : s[i] = e
  PROVE  Count(s, e) = Len(s)
<1>1. DOMAIN s = 1..Len(s) /\ Len(s) \in Nat
  BY LenProperties
<1>2. {i \in DOMAIN s : s[i] = e} = 1..Len(s)
  BY <1>1
<1>3. Cardinality(1..Len(s)) = Len(s)
  BY <1>1, FS_Interval
<1> QED BY <1>2, <1>3 DEF Count

\* An index of a sequence that is appended to is the new one or an old one.
LEMMA AppendAt ==
  ASSUME NEW S, NEW s \in Seq(S), NEW d \in S
  PROVE  /\ Append(s, d) \in Seq(S) /\ Len(Append(s, d)) = Len(s) + 1 /\ Len(s) \in Nat
         /\ DOMAIN s = 1..Len(s) /\ DOMAIN Append(s, d) = 1..Len(s) + 1
         /\ Append(s, d)[Len(s) + 1] = d
         /\ \A i \in 1..Len(s) : Append(s, d)[i] = s[i]
  BY AppendProperties, LenProperties

-----------------------------------------------------------------------------
(* Sequences laid end to end.                                              *)

\* The first of them, the first two, and so on.
Joins(f, s) == f[1] = s[1] /\ \A n \in 2..Len(s) : f[n] = f[n - 1] \o s[n]

LEMMA FlattenJoins ==
  ASSUME NEW S, NEW s \in Seq(Seq(S)), s # <<>>
  PROVE  \E f \in [1..Len(s) -> Seq(S)] : Joins(f, s) /\ FlattenSeq(s) = f[Len(s)]
<1> DEFINE N == Len(s)
           laid == [n \in 1..N |-> [v \in Seq(S) |-> v \o s[n]]]
           F(f) == [i \in 1..N |-> IF i = 1 THEN s[i] ELSE f[i - 1] \o s[i]]
           flat == CHOOSE f : f = F(f)
<1>1. N \in Nat /\ N > 0 /\ \A n \in 1..N : s[n] \in Seq(S)
  BY LenProperties, ElementOfSeq, EmptySeq
<1>2. laid \in [1..N -> [Seq(S) -> Seq(S)]]
  <2>1. \A n \in 1..N, v \in Seq(S) : v \o s[n] \in Seq(S)
    BY <1>1, ConcatProperties
  <2> HIDE DEF N
  <2> QED BY <2>1
<1>3. <<>> \in Seq(S)
  BY EmptySeq
<1>4. PICK g \in [0..N -> Seq(S)] : g[0] = <<>> /\ \A n \in 1..N : g[n] = laid[n][g[n - 1]]
  <2> HIDE DEF laid, N
  <2>1. \E g \in [0..N -> Seq(S)] : Follows(g, N, <<>>, laid)
    BY <1>1, <1>2, <1>3, RecursionExists
  <2> QED BY <2>1 DEF Follows
<1>5. \A n \in 1..N : g[n] = g[n - 1] \o s[n]
  <2> HIDE DEF N
  <2>1. \A n \in 1..N : g[n - 1] \in Seq(S)
    BY <1>1, <1>4
  <2>2. ASSUME NEW n \in 1..N, NEW v \in Seq(S)
        PROVE  laid[n][v] = v \o s[n]
    OBVIOUS
  <2> HIDE DEF laid
  <2> QED BY <1>4, <2>1, <2>2
<1>6. g[1] = s[1]
  <2> HIDE DEF N, laid
  <2>1. 1 \in 1..N /\ 1 - 1 = 0
    BY <1>1
  <2>2. g[1] = <<>> \o s[1] /\ s[1] \in Seq(S)
    BY <1>1, <1>4, <1>5, <2>1
  <2> QED BY <2>2, ConcatEmptySeq
<1> DEFINE f == [n \in 1..N |-> g[n]]
<1>7. f \in [1..N -> Seq(S)] /\ f[1] = s[1] /\ \A n \in 2..N : f[n] = f[n - 1] \o s[n]
  <2> HIDE DEF N, laid
  <2>1. \A n \in 1..N : g[n] \in Seq(S)
    <3>1. \A n \in 1..N : n \in 0..N
      BY <1>1
    <3> HIDE DEF f
    <3> QED BY <3>1
  <2>2. 1 \in 1..N
    BY <1>1
  <2>3. \A n \in 2..N : n \in 1..N /\ n - 1 \in 1..N
    BY <1>1
  <2> QED BY <1>5, <1>6, <2>1, <2>2, <2>3
<1>8. f = F(f)
  <2> HIDE DEF N, laid
  <2>1. ASSUME NEW n \in 1..N PROVE f[n] = F(f)[n]
    <3>1. CASE n = 1
      BY <1>6, <3>1
    <3>2. CASE n # 1
      <4>1. n \in 2..N
        BY <1>1, <3>2
      <4> HIDE DEF f
      <4> QED BY <1>7, <3>2, <4>1
    <3> QED BY <3>1, <3>2
  <2> QED BY <2>1
<1>9. flat = F(flat)
  BY <1>8
<1>10. FlattenSeq(s) = flat[N]
  <2>1. Len(s) # 0
    BY <1>1
  <2> QED BY <2>1 DEF FlattenSeq
<1> HIDE DEF flat
<1>11. \A n \in 1..N : flat[n] = IF n = 1 THEN s[n] ELSE flat[n - 1] \o s[n]
  <2> HIDE DEF N
  <2> QED BY <1>9
<1>12. \A n \in 1..N : flat[n] = f[n]
  <2> HIDE DEF N, laid
  <2> DEFINE T == {n \in Nat : n + 1 <= N => flat[n + 1] = f[n + 1]}
  <2>1. 0 \in T
    <3>1. 1 \in 1..N
      BY <1>1
    <3>2. flat[1] = f[1]
      BY <1>7, <1>11, <3>1
    <3> QED BY <3>2
  <2>2. ASSUME NEW n \in 1..N, n - 1 \in T PROVE n \in T
    <3>1. ASSUME n + 1 <= N PROVE flat[n + 1] = f[n + 1]
      <4>1. flat[n] = f[n]
        BY <1>1, <2>2, <3>1
      <4>2. n + 1 \in 2..N /\ n + 1 \in 1..N /\ n + 1 # 1 /\ (n + 1) - 1 = n
        BY <1>1, <3>1
      <4> HIDE DEF f
      <4>3. f[n + 1] = f[n] \o s[n + 1]
        BY <1>7, <4>2
      <4>4. flat[n + 1] = flat[n] \o s[n + 1]
        BY <1>11, <4>2
      <4> QED BY <4>1, <4>3, <4>4
    <3>2. n \in Nat
      BY <1>1
    <3> HIDE DEF f
    <3> QED BY <3>1, <3>2
  <2> HIDE DEF T
  <2>3. \A n \in 0..N : n \in T
    BY <1>1, <2>1, <2>2, BoundedInduction
  <2>4. ASSUME NEW n \in 1..N PROVE flat[n] = f[n]
    <3>1. n - 1 \in 0..N /\ (n - 1) + 1 = n /\ n <= N
      BY <1>1
    <3>2. n - 1 \in T
      BY <2>3, <3>1
    <3> HIDE DEF f
    <3> QED BY <3>1, <3>2 DEF T
  <2> QED BY <2>4
<1>13. Joins(f, s)
  <2> HIDE DEF f
  <2> QED BY <1>7 DEF Joins
<1>14. flat[N] = f[N]
  <2>1. N \in 1..N
    BY <1>1
  <2> HIDE DEF f, N
  <2> QED BY <1>12, <2>1
<1> HIDE DEF f
<1> QED BY <1>7, <1>10, <1>13, <1>14

LEMMA FlattenEmpty == FlattenSeq(<<>>) = <<>>
  BY DEF FlattenSeq

LEMMA FlattenOne ==
  ASSUME NEW S, NEW d \in Seq(S)
  PROVE  FlattenSeq(<<d>>) = d
<1>1. <<d>> \in Seq(Seq(S)) /\ Len(<<d>>) = 1 /\ <<d>> # <<>> /\ <<d>>[1] = d
  OBVIOUS
<1>2. PICK f : Joins(f, <<d>>) /\ FlattenSeq(<<d>>) = f[Len(<<d>>)]
  BY <1>1, FlattenJoins
<1> QED BY <1>1, <1>2 DEF Joins

LEMMA FlattenAppend ==
  ASSUME NEW S, NEW s \in Seq(Seq(S)), NEW d \in Seq(S)
  PROVE  FlattenSeq(s) \in Seq(S) /\ FlattenSeq(Append(s, d)) = FlattenSeq(s) \o d
<1>1. CASE s = <<>>
  <2>1. Append(s, d) = <<d>> /\ FlattenSeq(s) = <<>>
    BY <1>1, FlattenEmpty
  <2>2. FlattenSeq(<<d>>) = d
    BY FlattenOne
  <2> QED BY <2>1, <2>2, ConcatEmptySeq, EmptySeq
<1>2. CASE s # <<>>
  <2> DEFINE t == Append(s, d)
  <2>1. /\ t \in Seq(Seq(S)) /\ Len(t) = Len(s) + 1 /\ Len(s) \in Nat /\ Len(s) > 0
        /\ t[Len(s) + 1] = d /\ t # <<>> /\ \A n \in 1..Len(s) : t[n] = s[n]
    BY <1>2, AppendProperties, LenProperties, EmptySeq
  <2> HIDE DEF t
  <2>2. PICK f \in [1..Len(s) -> Seq(S)] : Joins(f, s) /\ FlattenSeq(s) = f[Len(s)]
    BY <1>2, FlattenJoins
  <2>3. PICK g \in [1..Len(t) -> Seq(S)] : Joins(g, t) /\ FlattenSeq(t) = g[Len(t)]
    BY <2>1, FlattenJoins
  <2> DEFINE T == {n \in Nat : n + 1 <= Len(s) => f[n + 1] = g[n + 1]}
  <2>4. 0 \in T
    BY <2>1, <2>2, <2>3 DEF Joins
  <2>5. ASSUME NEW n \in 1..Len(s), n - 1 \in T PROVE n \in T
    <3>1. ASSUME n + 1 <= Len(s) PROVE f[n + 1] = g[n + 1]
      <4>1. f[n] = g[n]
        BY <2>1, <2>5, <3>1
      <4>2. n + 1 \in 2..Len(s) /\ n + 1 \in 2..Len(t) /\ (n + 1) - 1 = n /\ n + 1 \in 1..Len(s)
        BY <2>1, <3>1
      <4>3. f[n + 1] = f[n] \o s[n + 1] /\ g[n + 1] = g[n] \o t[n + 1] /\ t[n + 1] = s[n + 1]
        BY <2>1, <2>2, <2>3, <4>2 DEF Joins
      <4> QED BY <4>1, <4>3
    <3> QED BY <2>1, <3>1
  <2> HIDE DEF T
  <2>6. \A n \in 0..Len(s) : n \in T
    BY <2>1, <2>4, <2>5, BoundedInduction
  <2>7. f[Len(s)] = g[Len(s)]
    <3>1. Len(s) - 1 \in 0..Len(s) /\ (Len(s) - 1) + 1 = Len(s)
      BY <2>1
    <3>2. Len(s) - 1 \in T
      BY <2>6, <3>1
    <3>3. \A n \in T : n + 1 <= Len(s) => f[n + 1] = g[n + 1]
      BY DEF T
    <3>4. (Len(s) - 1) + 1 <= Len(s) => f[(Len(s) - 1) + 1] = g[(Len(s) - 1) + 1]
      BY <3>2, <3>3
    <3> QED BY <2>1, <3>1, <3>4
  <2>8. g[Len(s) + 1] = g[Len(s)] \o d
    <3>1. Len(s) + 1 \in 2..Len(t) /\ (Len(s) + 1) - 1 = Len(s)
      BY <2>1
    <3> QED BY <2>1, <2>3, <3>1 DEF Joins
  <2>9. FlattenSeq(s) \in Seq(S) /\ FlattenSeq(t) = FlattenSeq(s) \o d
    <3>1. Len(s) \in 1..Len(s)
      BY <2>1
    <3> QED BY <2>1, <2>2, <2>3, <2>7, <2>8, <3>1
  <2> QED BY <2>9 DEF t
<1> QED BY <1>1, <1>2

=============================================================================
