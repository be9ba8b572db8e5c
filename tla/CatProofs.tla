------------------------------ MODULE CatProofs ------------------------------
(***************************************************************************)
(* Proofs about Cat, for every command line, disk and standard input that  *)
(* is an input at all.  The texts are data, so the first part is a small   *)
(* theory of them: how many members of a set lie below a bound, which one  *)
(* is the k-th, what FlattenSeq does to one more sequence.  What has to go *)
(* by induction goes by the least number for which it fails.               *)
(***************************************************************************)
EXTENDS Cat, FiniteSetTheorems, SequenceTheorems, TLAPS

-----------------------------------------------------------------------------
(* Numbers.                                                                 *)

LEMMA LeastNumber ==
  ASSUME NEW T, T \subseteq Nat, T # {}
  PROVE  \E x \in T : \A y \in T : x <= y
<1> DEFINE R == OpToRel(<, Nat)
<1>1. IsWellFoundedOn(R, Nat)
  BY NatLessThanWellFounded
<1>2. \A x, y \in Nat : y < x => <<y, x>> \in R
  BY DEF OpToRel
<1> HIDE DEF R
<1>3. PICK x \in T : \A y \in T : ~ (<<y, x>> \in R)
  BY <1>1, WFMin
<1>4. ASSUME NEW y \in T PROVE x <= y
  <2>1. x \in Nat /\ y \in Nat /\ ~ (<<y, x>> \in R)
    BY <1>3
  <2>2. ~ (y < x)
    BY <2>1, <1>2
  <2> QED  BY <2>1, <2>2
<1> QED  BY <1>4

LEMMA MinIs ==
  ASSUME NEW T, T \subseteq Nat, T # {}
  PROVE  Min(T) \in T /\ \A y \in T : Min(T) <= y
BY LeastNumber, Zenon DEF Min

\* What holds of 0 and of every successor holds of all numbers.
LEMMA NumbersReached ==
  ASSUME NEW S, 0 \in S, \A n \in Nat : n \in S => n + 1 \in S
  PROVE  \A n \in Nat : n \in S
<1> SUFFICES ASSUME NEW n \in Nat, n \notin S PROVE FALSE
  OBVIOUS
<1> DEFINE T == {m \in Nat : m \notin S}
<1>1. PICK x \in T : \A y \in T : x <= y
  <2>1. T \subseteq Nat /\ T # {}
    OBVIOUS
  <2> HIDE DEF T
  <2> QED  BY <2>1, LeastNumber
<1>2. x # 0
  OBVIOUS
<1>3. x - 1 \in Nat /\ x - 1 \notin T
  BY <1>1, <1>2
<1> QED  BY <1>1, <1>3

-----------------------------------------------------------------------------
(* How many members of a set lie below a bound.                             *)

\* A set of the positions in something of length n.
LEMMA Positions ==
  ASSUME NEW n \in Nat, NEW S, S \subseteq 1..n
  PROVE  IsFiniteSet(S) /\ S \subseteq Int
<1>1. IsFiniteSet(1..n) /\ 1..n \subseteq Int
  BY FS_Interval
<1> QED  BY <1>1, FS_Subset

LEMMA CountType ==
  ASSUME NEW S, IsFiniteSet(S), NEW k
  PROVE  /\ IsFiniteSet({j \in S : j <= k})
         /\ Cardinality(S) \in Nat /\ CountUpTo(S, k) \in Nat
<1>1. IsFiniteSet({j \in S : j <= k})
  <2>1. {j \in S : j <= k} \subseteq S
    OBVIOUS
  <2> QED  BY <2>1, FS_Subset
<1> QED  BY <1>1, FS_CardinalityType DEF CountUpTo

LEMMA CountStep ==
  ASSUME NEW S, IsFiniteSet(S), S \subseteq Int, NEW k \in Int
  PROVE  CountUpTo(S, k + 1) = CountUpTo(S, k) + (IF k + 1 \in S THEN 1 ELSE 0)
<1> DEFINE P == {j \in S : j <= k}
           Q == {j \in S : j <= k + 1}
<1>1. IsFiniteSet(P) /\ Cardinality(P) \in Nat
  BY CountType DEF CountUpTo
<1>2. \A j \in S : j <= k + 1 <=> (j <= k \/ j = k + 1)
  OBVIOUS
<1>a. ~(k + 1 <= k)
  OBVIOUS
<1>3. CASE k + 1 \in S
  <2>1. Q = P \cup {k + 1} /\ k + 1 \notin P
    BY <1>2, <1>3, <1>a, Zenon
  <2> HIDE DEF P, Q
  <2>2. Cardinality(Q) = Cardinality(P) + 1
    BY <2>1, <1>1, FS_AddElement
  <2> QED  BY <2>2, <1>3 DEF P, Q, CountUpTo
<1>4. CASE k + 1 \notin S
  <2>1. Q = P
    BY <1>2, <1>4, Zenon
  <2> QED  BY <2>1, <1>1, <1>4 DEF CountUpTo
<1> QED  BY <1>3, <1>4

LEMMA CountEnds ==
  ASSUME NEW n \in Nat, NEW S, S \subseteq 1..n
  PROVE  /\ CountUpTo(S, 0) = 0
         /\ \A k \in Int : k >= n => CountUpTo(S, k) = Cardinality(S)
<1>1. {j \in S : j <= 0} = {}
  <2>1. \A j \in S : ~(j <= 0)
    OBVIOUS
  <2> QED  BY <2>1, Zenon
<1>2. ASSUME NEW k \in Int, k >= n PROVE {j \in S : j <= k} = S
  <2>1. \A j \in S : j <= k
    BY <1>2
  <2> QED  BY <2>1, Zenon
<1> QED  BY <1>1, <1>2, FS_EmptySet DEF CountUpTo

LEMMA CountGrows ==
  ASSUME NEW S, IsFiniteSet(S), S \subseteq Int, NEW j \in Int, NEW k \in Int, j < k
  PROVE  /\ CountUpTo(S, j) <= CountUpTo(S, k)
         /\ k \in S => CountUpTo(S, j) < CountUpTo(S, k)
<1>1. ASSUME NEW i \in Int, NEW m \in Int, i <= m
      PROVE  CountUpTo(S, i) <= CountUpTo(S, m)
  <2>1. IsFiniteSet({e \in S : e <= m})
    BY CountType
  <2>2. {e \in S : e <= i} \subseteq {e \in S : e <= m}
    <3>1. \A e \in S : e <= i => e <= m
      BY <1>1
    <3> QED  BY <3>1, Zenon
  <2> QED  BY <2>1, <2>2, FS_Subset DEF CountUpTo
<1>2. CountUpTo(S, j) <= CountUpTo(S, k) /\ CountUpTo(S, j) <= CountUpTo(S, k - 1)
  BY <1>1
<1>3. CountUpTo(S, (k - 1) + 1) = CountUpTo(S, k - 1) + (IF (k - 1) + 1 \in S THEN 1 ELSE 0)
  <2>1. k - 1 \in Int
    OBVIOUS
  <2> QED  BY <2>1, CountStep
<1>4. (k - 1) + 1 = k
  OBVIOUS
<1>5. /\ CountUpTo(S, j) \in Nat /\ CountUpTo(S, k - 1) \in Nat
      /\ CountUpTo(S, k) \in Nat
  BY CountType
<1> QED  BY <1>2, <1>3, <1>4, <1>5

\* A number is the k-th of a set if it is in it and k members lie up to it.
LEMMA NthIs ==
  ASSUME NEW S, IsFiniteSet(S), S \subseteq Int, NEW e \in S
  PROVE  Nth(S, CountUpTo(S, e)) = e
<1> DEFINE x == Nth(S, CountUpTo(S, e))
<1>1. x \in S /\ CountUpTo(S, x) = CountUpTo(S, e)
  BY DEF Nth
<1> HIDE DEF x
<1>2. x \in Int /\ e \in Int /\ CountUpTo(S, x) \in Nat
  BY <1>1, CountType
<1>3. x < e => CountUpTo(S, x) < CountUpTo(S, e)
  BY <1>2, CountGrows
<1>4. e < x => CountUpTo(S, e) < CountUpTo(S, x)
  BY <1>1, <1>2, CountGrows
<1> QED  BY <1>1, <1>2, <1>3, <1>4 DEF x

LEMMA NthIn ==
  ASSUME NEW n \in Nat, NEW S, S \subseteq 1..n, NEW k \in 1..Cardinality(S)
  PROVE  Nth(S, k) \in S /\ CountUpTo(S, Nth(S, k)) = k
<1> DEFINE T == {c \in Nat : CountUpTo(S, c) >= k}
<1>a. IsFiniteSet(S) /\ S \subseteq Int
  BY Positions
<1>b. Cardinality(S) \in Nat /\ \A c \in Int : CountUpTo(S, c) \in Nat
  BY <1>a, CountType
<1>c. CountUpTo(S, 0) = 0 /\ CountUpTo(S, n) = Cardinality(S)
  <2>1. n \in Int /\ n >= n
    OBVIOUS
  <2> QED  BY <2>1, CountEnds, Zenon
<1>1. T \subseteq Nat /\ n \in T
  BY <1>b, <1>c
<1>2. PICK c \in T : \A d \in T : c <= d
  <2> HIDE DEF T
  <2> QED  BY <1>1, LeastNumber
<1>3. c \in Nat /\ CountUpTo(S, c) >= k
  BY <1>2
<1>4. c # 0
  BY <1>b, <1>c, <1>3
<1>5. c - 1 \in Nat /\ c - 1 \notin T /\ (c - 1) + 1 = c
  BY <1>2, <1>3, <1>4
<1>6. CountUpTo(S, c - 1) < k /\ CountUpTo(S, c - 1) \in Nat
  BY <1>b, <1>5
<1>7. CountUpTo(S, (c - 1) + 1) = CountUpTo(S, c - 1) + (IF (c - 1) + 1 \in S THEN 1 ELSE 0)
  <2>1. c - 1 \in Int
    BY <1>5
  <2> QED  BY <1>a, <2>1, CountStep
<1>8. c \in S /\ CountUpTo(S, c) = k
  BY <1>b, <1>3, <1>5, <1>6, <1>7
<1> QED  BY <1>8 DEF Nth

-----------------------------------------------------------------------------
(* FlattenSeq.                                                              *)

\* f is the function FlattenSeq is defined by.
Flattens(f, ss, n) ==
  f = [i \in 1..n |-> IF i = 1 THEN ss[i] ELSE f[i - 1] \o ss[i]]

Agree(s, t, n) == \A i \in 1..n : s[i] = t[i]

LEMMA FlattensExists ==
  ASSUME NEW ss, NEW n \in Nat
  PROVE  \E f : Flattens(f, ss, n)
<1> DEFINE S == {m \in Nat : \E f : Flattens(f, ss, m)}
<1>1. 0 \in S
  <2> DEFINE f == [i \in 1..0 |-> 0]
  <2>1. f = [i \in 1..0 |-> IF i = 1 THEN ss[i] ELSE f[i - 1] \o ss[i]]
    OBVIOUS
  <2> QED  BY <2>1 DEF Flattens
<1>2. ASSUME NEW m \in Nat, m \in S PROVE m + 1 \in S
  <2>1. PICK f : Flattens(f, ss, m)
    BY <1>2
  <2>2. \A i \in 1..m : f[i] = IF i = 1 THEN ss[i] ELSE f[i - 1] \o ss[i]
    BY <2>1 DEF Flattens
  <2> DEFINE g == [i \in 1..(m + 1) |->
                     IF i <= m THEN f[i]
                     ELSE IF i = 1 THEN ss[i] ELSE f[i - 1] \o ss[i]]
  <2>3. ASSUME NEW i \in 1..(m + 1)
        PROVE  g[i] = IF i = 1 THEN ss[i] ELSE g[i - 1] \o ss[i]
    <3>1. g[i] = IF i = 1 THEN ss[i] ELSE f[i - 1] \o ss[i]
      BY <2>2
    <3>2. i # 1 => i - 1 \in 1..(m + 1) /\ i - 1 <= m
      OBVIOUS
    <3>3. i # 1 => g[i - 1] = f[i - 1]
      BY <3>2
    <3> QED  BY <3>1, <3>3
  <2>4. g = [i \in 1..(m + 1) |-> g[i]]
    OBVIOUS
  <2> HIDE DEF g
  <2>5. Flattens(g, ss, m + 1)
    BY <2>3, <2>4, Zenon DEF Flattens
  <2> QED  BY <2>5
<1> HIDE DEF S
<1>3. n \in S
  BY <1>1, <1>2, NumbersReached
<1> QED  BY <1>3 DEF S

LEMMA FlattensAgree ==
  ASSUME NEW ss, NEW tt, NEW n \in Nat, NEW m \in Nat, n <= m, Agree(ss, tt, n),
         NEW f, Flattens(f, ss, n), NEW g, Flattens(g, tt, m)
  PROVE  Agree(f, g, n)
<1> DEFINE S == {i \in Nat : i \in 1..n => f[i] = g[i]}
<1>1. 0 \in S
  OBVIOUS
<1>2. ASSUME NEW i \in Nat, i \in S PROVE i + 1 \in S
  <2> SUFFICES ASSUME i + 1 \in 1..n PROVE f[i + 1] = g[i + 1]
    OBVIOUS
  <2>1. f[i + 1] = IF i + 1 = 1 THEN ss[i + 1] ELSE f[(i + 1) - 1] \o ss[i + 1]
    BY Zenon DEF Flattens
  <2>2. g[i + 1] = IF i + 1 = 1 THEN tt[i + 1] ELSE g[(i + 1) - 1] \o tt[i + 1]
    <3>1. i + 1 \in 1..m
      OBVIOUS
    <3> QED  BY <3>1, Zenon DEF Flattens
  <2>3. (i + 1) - 1 = i /\ (i + 1 # 1 => f[i] = g[i])
    BY <1>2
  <2> QED  BY <2>1, <2>2, <2>3 DEF Agree
<1> HIDE DEF S
<1>3. \A i \in Nat : i \in S
  BY <1>1, <1>2, NumbersReached
<1> QED  BY <1>3 DEF S, Agree

LEMMA FlattensType ==
  ASSUME NEW T, NEW ss \in Seq(Seq(T)), NEW n \in Nat, n <= Len(ss),
         NEW f, Flattens(f, ss, n)
  PROVE  \A i \in 1..n : f[i] \in Seq(T)
<1> DEFINE S == {i \in Nat : i \in 1..n => f[i] \in Seq(T)}
<1>1. 0 \in S
  OBVIOUS
<1>2. ASSUME NEW i \in Nat, i \in S PROVE i + 1 \in S
  <2> SUFFICES ASSUME i + 1 \in 1..n PROVE f[i + 1] \in Seq(T)
    OBVIOUS
  <2>1. f[i + 1] = IF i + 1 = 1 THEN ss[i + 1] ELSE f[(i + 1) - 1] \o ss[i + 1]
    BY Zenon DEF Flattens
  <2>2. (i + 1) - 1 = i /\ (i + 1 # 1 => f[i] \in Seq(T)) /\ ss[i + 1] \in Seq(T)
    BY <1>2
  <2> QED  BY <2>1, <2>2
<1> HIDE DEF S
<1>3. \A i \in Nat : i \in S
  BY <1>1, <1>2, NumbersReached
<1> QED  BY <1>3 DEF S

\* FlattenSeq joins one sequence after the other.
LEMMA FlattenIs ==
  ASSUME NEW ss, Len(ss) \in Nat \ {0}
  PROVE  \E f : Flattens(f, ss, Len(ss)) /\ FlattenSeq(ss) = f[Len(ss)]
<1> DEFINE f == CHOOSE f : Flattens(f, ss, Len(ss))
<1>1. Flattens(f, ss, Len(ss))
  BY FlattensExists, Zenon
<1>2. FlattenSeq(ss) = f[Len(ss)]
  BY DEF FlattenSeq, Flattens
<1> QED  BY <1>1, <1>2, Zenon

LEMMA FlattenEmpty == FlattenSeq(<<>>) = <<>>
BY DEF FlattenSeq

LEMMA FlattenType ==
  ASSUME NEW T, NEW ss \in Seq(Seq(T))
  PROVE  FlattenSeq(ss) \in Seq(T)
<1>1. CASE ss = <<>>
  BY <1>1, FlattenEmpty, EmptySeq
<1>2. CASE ss # <<>>
  <2>1. Len(ss) \in Nat \ {0}
    BY <1>2
  <2>2. PICK f : Flattens(f, ss, Len(ss)) /\ FlattenSeq(ss) = f[Len(ss)]
    BY <2>1, FlattenIs
  <2> QED  BY <2>1, <2>2, FlattensType
<1> QED  BY <1>1, <1>2

LEMMA FlattenAppend ==
  ASSUME NEW T, NEW ss \in Seq(Seq(T)), NEW s \in Seq(T)
  PROVE  FlattenSeq(Append(ss, s)) = FlattenSeq(ss) \o s
<1> DEFINE n == Len(ss)
           tt == Append(ss, s)
<1>1. /\ n \in Nat /\ Len(tt) = n + 1 /\ tt[n + 1] = s
      /\ \A i \in 1..n : tt[i] = ss[i]
  OBVIOUS
<1> HIDE DEF tt, n
<1>2. PICK g : Flattens(g, tt, n + 1) /\ FlattenSeq(tt) = g[n + 1]
  <2>1. Len(tt) \in Nat \ {0}
    BY <1>1
  <2> QED  BY <2>1, <1>1, FlattenIs
<1>3. g[n + 1] = IF n + 1 = 1 THEN tt[n + 1] ELSE g[(n + 1) - 1] \o tt[n + 1]
  <2>1. n + 1 \in 1..(n + 1)
    BY <1>1
  <2> QED  BY <2>1, <1>2, Zenon DEF Flattens
<1>4. CASE n = 0
  <2>1. ss = <<>>
    BY <1>4 DEF n
  <2>2. FlattenSeq(ss) \o s = s
    BY <2>1, FlattenEmpty
  <2> QED  BY <1>1, <1>2, <1>3, <1>4, <2>2 DEF tt
<1>5. CASE n # 0
  <2>1. PICK f : Flattens(f, ss, n) /\ FlattenSeq(ss) = f[n]
    BY <1>1, <1>5, FlattenIs DEF n
  <2>2. n \in 1..n /\ n <= n + 1 /\ (n + 1) - 1 = n /\ n + 1 # 1 /\ n + 1 \in Nat /\ n <= n
    BY <1>1, <1>5
  <2>3. \A i \in 1..n : f[i] = g[i]
    <3>1. Agree(ss, tt, n)
      BY <1>1 DEF Agree
    <3>2. n \in Nat /\ n + 1 \in Nat /\ n <= n + 1
      BY <1>1
    <3>3. Flattens(f, ss, n) /\ Flattens(g, tt, n + 1)
      BY <1>2, <2>1
    <3>4. Agree(f, g, n)
      BY <3>1, <3>2, <3>3, FlattensAgree
    <3> QED  BY <3>4 DEF Agree
  <2>4. FlattenSeq(ss) = g[n]
    BY <2>1, <2>2, <2>3
  <2> QED  BY <1>1, <1>2, <1>3, <2>2, <2>4 DEF tt
<1> QED  BY <1>4, <1>5

-----------------------------------------------------------------------------
(* The lines of a text.                                                     *)

Texts == Seq({"x", NL})

LEMMA TextSets ==
  ASSUME NEW b \in Texts
  PROVE  /\ Len(b) \in Nat
         /\ Newlines(b) \subseteq 1..Len(b) /\ LineEnds(b) \subseteq 1..Len(b)
         /\ IsFiniteSet(Newlines(b)) /\ Newlines(b) \subseteq Int
         /\ IsFiniteSet(LineEnds(b)) /\ LineEnds(b) \subseteq Int
         /\ Cardinality(Newlines(b)) \in Nat /\ Cardinality(LineEnds(b)) \in Nat
<1>1. Len(b) \in Nat
  BY DEF Texts
<1>2. Newlines(b) \subseteq 1..Len(b) /\ LineEnds(b) \subseteq 1..Len(b)
  BY DEF Newlines, LineEnds
<1>3. /\ IsFiniteSet(Newlines(b)) /\ Newlines(b) \subseteq Int
      /\ IsFiniteSet(LineEnds(b)) /\ LineEnds(b) \subseteq Int
  BY <1>1, <1>2, Positions
<1> QED  BY <1>1, <1>2, <1>3, FS_CardinalityType

LEMMA LineEndType ==
  ASSUME NEW b \in Texts, NEW k \in 0..Cardinality(LineEnds(b))
  PROVE  LineEnd(b, k) \in 0..Len(b)
<1>1. CASE k = 0
  BY <1>1, TextSets DEF LineEnd
<1>2. CASE k # 0
  <2>1. k \in 1..Cardinality(LineEnds(b))
    BY <1>2, TextSets
  <2>2. Nth(LineEnds(b), k) \in LineEnds(b)
    BY <2>1, TextSets, NthIn
  <2> QED  BY <2>2, <1>2, TextSets DEF LineEnd
<1> QED  BY <1>1, <1>2

LEMMA SliceType ==
  ASSUME NEW T, NEW b \in Seq(T), NEW i \in Int, NEW j \in Int, i >= 1, j <= Len(b)
  PROVE  /\ SubSeq(b, i, j) \in Seq(T)
         /\ Len(SubSeq(b, i, j)) = IF i <= j THEN j - i + 1 ELSE 0
         /\ \A k \in 1..(j - i + 1) : SubSeq(b, i, j)[k] = b[i + k - 1]
<1>1. \A k \in i..j : b[k] \in T
  BY DEF Texts
<1> QED  BY <1>1, SubSeqProperties

\* A piece of what lies behind t in a text is a piece of the text.
Behind(b, t, r) == Len(r) = Len(b) - t /\ \A k \in 1..Len(r) : r[k] = b[t + k]

LEMMA SubSlice ==
  ASSUME NEW b \in Texts, NEW r \in Texts, NEW t \in Nat, Behind(b, t, r),
         NEW i \in Int, NEW j \in Int, i >= 1, j <= Len(r)
  PROVE  SubSeq(r, i, j) = SubSeq(b, t + i, t + j)
<1> USE DEF Behind, Texts
<1> DEFINE T == {"x", NL}
<1> DEFINE u == SubSeq(r, i, j)
           v == SubSeq(b, t + i, t + j)
           n == j - i + 1
<1>1. /\ Len(r) \in Nat /\ Len(b) \in Nat /\ t + i \in Int /\ t + j \in Int /\ t + i >= 1
      /\ t + j <= Len(b) /\ (t + j) - (t + i) + 1 = n /\ (t + i <= t + j <=> i <= j)
  OBVIOUS
<1>2. u \in Seq(T) /\ Len(u) = (IF i <= j THEN n ELSE 0) /\ \A k \in 1..n : u[k] = r[i + k - 1]
  BY SliceType
<1>3. /\ v \in Seq(T) /\ Len(v) = (IF i <= j THEN n ELSE 0)
      /\ \A k \in 1..n : v[k] = b[(t + i) + k - 1]
  <2> HIDE DEF n
  <2>1. /\ v \in Seq(T)
        /\ Len(v) = (IF t + i <= t + j THEN (t + j) - (t + i) + 1 ELSE 0)
        /\ \A k \in 1..((t + j) - (t + i) + 1) : v[k] = b[(t + i) + k - 1]
    BY <1>1, SliceType
  <2> QED  BY <1>1, <2>1
<1>4. ASSUME NEW k \in 1..n PROVE r[i + k - 1] = b[(t + i) + k - 1]
  <2>1. i + k - 1 \in 1..Len(r) /\ t + (i + k - 1) = (t + i) + k - 1
    BY <1>1
  <2> QED  BY <2>1
<1>5. \A k \in 1..Len(u) : k \in 1..n
  BY <1>2
<1> HIDE DEF u, v, n
<1>6. \A k \in 1..Len(u) : u[k] = v[k]
  BY <1>2, <1>3, <1>4, <1>5
<1> QED  BY <1>2, <1>3, <1>6, SeqEqual DEF u, v

LEMMA LinesType ==
  ASSUME NEW b \in Texts
  PROVE  /\ Lines(b) \in Seq(Texts) /\ Len(Lines(b)) = Cardinality(LineEnds(b))
         /\ \A k \in 1..Len(Lines(b)) :
              Lines(b)[k] = SubSeq(b, LineEnd(b, k - 1) + 1, LineEnd(b, k))
<1> DEFINE n == Cardinality(LineEnds(b))
<1>1. n \in Nat /\ Len(b) \in Nat
  BY TextSets
<1>2. ASSUME NEW k \in 1..n
      PROVE  SubSeq(b, LineEnd(b, k - 1) + 1, LineEnd(b, k)) \in Texts
  <2>1. LineEnd(b, k - 1) \in 0..Len(b) /\ LineEnd(b, k) \in 0..Len(b)
    <3>1. k - 1 \in 0..n /\ k \in 0..n
      BY <1>1
    <3> QED  BY <3>1, LineEndType
  <2> QED  BY <2>1, <1>1, SliceType DEF Texts
<1>3. Lines(b) = [k \in 1..n |-> SubSeq(b, LineEnd(b, k - 1) + 1, LineEnd(b, k))]
  BY DEF Lines
<1> HIDE DEF n
<1>4. Len(Lines(b)) = n /\ Lines(b) \in Seq(Texts)
  BY <1>1, <1>2, <1>3
<1> QED  BY <1>3, <1>4 DEF n

\* A newline ends the line behind the newlines before it.
LEMMA NewlineEnds ==
  ASSUME NEW b \in Texts, NEW c \in 1..Len(b), b[c] = NL,
         NEW m, m = CountUpTo(Newlines(b), c - 1)
  PROVE  /\ CountUpTo(Newlines(b), c) = m + 1
         /\ m \in Nat /\ m + 1 \in 1..Len(Lines(b)) /\ LineEnd(b, m + 1) = c
         /\ Lines(b)[m + 1] = SubSeq(b, LineEnd(b, m) + 1, c)
<1>0. c \in Int /\ c - 1 \in Int /\ (c - 1) + 1 = c /\ c <= Len(b) /\ Len(b) \in Nat
  BY TextSets
<1>1. c \in Newlines(b) /\ c \in LineEnds(b)
  BY DEF Newlines, LineEnds
<1>2. m \in Nat
  BY <1>0, TextSets, CountType
<1>3. CountUpTo(Newlines(b), (c - 1) + 1) = m + (IF (c - 1) + 1 \in Newlines(b) THEN 1 ELSE 0)
  BY <1>0, TextSets, CountStep
<1>4. CountUpTo(Newlines(b), c) = m + 1
  BY <1>0, <1>1, <1>3
<1>5. CountUpTo(LineEnds(b), c) = m + 1
  <2>1. \A k \in 1..Len(b) : k <= c => (b[k] = NL <=> (b[k] = NL \/ k = Len(b)))
    BY <1>0
  <2>2. {k \in LineEnds(b) : k <= c} = {k \in Newlines(b) : k <= c}
    BY <2>1, Zenon DEF LineEnds, Newlines
  <2> QED  BY <2>2, <1>4 DEF CountUpTo
<1>6. m + 1 <= Cardinality(LineEnds(b))
  <2>1. CountUpTo(LineEnds(b), Len(b)) = Cardinality(LineEnds(b))
    BY <1>0, TextSets, CountEnds
  <2>2. c < Len(b) => CountUpTo(LineEnds(b), c) <= CountUpTo(LineEnds(b), Len(b))
    BY <1>0, TextSets, CountGrows
  <2>3. c = Len(b) \/ c < Len(b)
    BY <1>0
  <2> QED  BY <2>1, <2>2, <2>3, <1>2, <1>5
<1>7. LineEnd(b, m + 1) = c
  <2>1. Nth(LineEnds(b), m + 1) = c
    BY <1>1, <1>5, TextSets, NthIs
  <2> QED  BY <2>1, <1>2 DEF LineEnd
<1>8. m + 1 \in 1..Len(Lines(b))
  <2>1. Len(Lines(b)) = Cardinality(LineEnds(b)) /\ Cardinality(LineEnds(b)) \in Nat
    BY LinesType, TextSets
  <2> QED  BY <2>1, <1>2, <1>6
<1>9. (m + 1) - 1 = m
  BY <1>2
<1> QED  BY <1>2, <1>4, <1>7, <1>8, <1>9, LinesType

\* All lines are ended by a newline, except for the last one of some texts.
LEMMA LastLine ==
  ASSUME NEW b \in Texts, NEW m, m = CountUpTo(Newlines(b), Len(b))
  PROVE  /\ m \in Nat
         /\ b = <<>> \/ b[Len(b)] = NL => Len(Lines(b)) = m
         /\ b # <<>> /\ b[Len(b)] # NL =>
              /\ Len(Lines(b)) = m + 1
              /\ LineEnd(b, m + 1) = Len(b)
              /\ Lines(b)[m + 1] = SubSeq(b, LineEnd(b, m) + 1, Len(b))
<1>0. Len(b) \in Nat /\ Len(b) >= Len(b) /\ Len(b) \in Int
  BY TextSets
<1>1. m = Cardinality(Newlines(b)) /\ m \in Nat
  BY <1>0, TextSets, CountEnds, CountType
<1>2. CountUpTo(LineEnds(b), Len(b)) = Cardinality(LineEnds(b))
  BY <1>0, TextSets, CountEnds
<1>3. ASSUME b = <<>> \/ b[Len(b)] = NL
      PROVE  Len(Lines(b)) = m
  <2>1. LineEnds(b) = Newlines(b)
    <3>1. ASSUME NEW k \in 1..Len(b)
          PROVE  b[k] = NL <=> (b[k] = NL \/ k = Len(b))
      <4>1. b # <<>>
        BY <1>0
      <4> QED  BY <4>1, <1>3
    <3> QED  BY <3>1, Zenon DEF LineEnds, Newlines
  <2> QED  BY <2>1, <1>1, LinesType
<1>4. ASSUME b # <<>>, b[Len(b)] # NL
      PROVE  /\ Len(Lines(b)) = m + 1
             /\ LineEnd(b, m + 1) = Len(b)
             /\ Lines(b)[m + 1] = SubSeq(b, LineEnd(b, m) + 1, Len(b))
  <2>0. Len(b) \in 1..Len(b)
    BY <1>0, <1>4 DEF Texts
  <2>1. LineEnds(b) = Newlines(b) \cup {Len(b)} /\ Len(b) \notin Newlines(b)
    BY <2>0, <1>4, Zenon DEF LineEnds, Newlines
  <2>2. Cardinality(LineEnds(b)) = m + 1
    <3>1. IsFiniteSet(Newlines(b))
      BY TextSets
    <3>2. Cardinality(Newlines(b) \cup {Len(b)}) = Cardinality(Newlines(b)) + 1
      BY <2>1, <3>1, FS_AddElement
    <3> QED  BY <2>1, <3>2, <1>1
  <2>3. Nth(LineEnds(b), m + 1) = Len(b)
    <3>1. Len(b) \in LineEnds(b)
      BY <2>1
    <3> QED  BY <3>1, <2>2, <1>2, TextSets, NthIs
  <2>4. LineEnd(b, m + 1) = Len(b) /\ Len(Lines(b)) = m + 1
    BY <2>2, <2>3, <1>1, LinesType DEF LineEnd
  <2>5. m + 1 \in 1..Len(Lines(b)) /\ (m + 1) - 1 = m
    BY <2>4, <1>1
  <2> QED  BY <2>4, <2>5, LinesType
<1> QED  BY <1>1, <1>3, <1>4

-----------------------------------------------------------------------------
(* Printing one more line.                                                  *)

Tokens == Byte \cup {"$", "HELP"} \cup {ToString(n) : n \in Nat}
Entries == Seq(Tokens)

LEMMA TextEntries == Texts \subseteq Entries /\ HelpText \in Entries
<1>1. {"x", NL} \subseteq Tokens /\ "HELP" \in Tokens
  BY DEF Tokens, Byte
<1>2. ASSUME NEW b \in Texts PROVE b \in Entries
  BY <1>1, SeqMonotonic DEF Texts, Entries
<1>3. HelpText \in Entries
  BY <1>1 DEF HelpText, Entries
<1> QED  BY <1>2, <1>3

\* \o as an operator the provers take no further apart.
Join(a, b) == a \o b

LEMMA JoinType ==
  ASSUME NEW a \in Entries, NEW b \in Entries
  PROVE  Join(a, b) \in Entries /\ Join(<<>>, b) = b /\ Join(a, <<>>) = a
BY DEF Entries, Join

LEMMA JoinMoves ==
  ASSUME NEW a \in Entries, NEW b \in Entries, NEW c \in Entries
  PROVE  Join(Join(a, b), c) = Join(a, Join(b, c))
<1>1. a \in Seq(Tokens) /\ b \in Seq(Tokens) /\ c \in Seq(Tokens)
  BY DEF Entries
<1>2. (a \o b) \o c = a \o (b \o c)
  BY <1>1, ConcatAssociative
<1> QED  BY <1>2 DEF Join

Numbered(keys, line, n) == IF Wanted(keys, line) THEN <<ToString(n)>> ELSE <<>>
Piece(keys, lines, k) ==
  Numbered(keys, lines[k], WantedUpTo(keys, lines, k)) \o Marked(keys, lines[k])
Pieces(keys, lines) == [k \in 1..Len(lines) |-> Piece(keys, lines, k)]

LEMMA RenderedIsFlat ==
  ASSUME NEW keys, NEW lines
  PROVE  Rendered(keys, lines) = FlattenSeq(Pieces(keys, lines))
BY DEF Rendered, Pieces, Piece, Numbered

LEMMA WantedType ==
  ASSUME NEW keys, NEW lines, NEW k \in Nat
  PROVE  WantedUpTo(keys, lines, k) \in Nat
<1>1. {j \in 1..k : Wanted(keys, lines[j])} \subseteq 1..k
  OBVIOUS
<1>2. IsFiniteSet({j \in 1..k : Wanted(keys, lines[j])})
  BY <1>1, Positions
<1> QED  BY <1>2, FS_CardinalityType DEF WantedUpTo

LEMMA WantedAgree ==
  ASSUME NEW keys, NEW lines, NEW more, NEW k \in Nat, Agree(lines, more, k)
  PROVE  WantedUpTo(keys, lines, k) = WantedUpTo(keys, more, k)
<1>1. {j \in 1..k : Wanted(keys, lines[j])} = {j \in 1..k : Wanted(keys, more[j])}
  BY Zenon DEF Agree
<1> QED  BY <1>1 DEF WantedUpTo

LEMMA WantedAppend ==
  ASSUME NEW keys, NEW lines \in Seq(Entries), NEW line \in Entries
  PROVE  /\ WantedUpTo(keys, lines, Len(lines)) \in Nat
         /\ WantedUpTo(keys, Append(lines, line), Len(Append(lines, line)))
              = WantedUpTo(keys, lines, Len(lines)) + (IF Wanted(keys, line) THEN 1 ELSE 0)
<1> DEFINE n == Len(lines)
           more == Append(lines, line)
           P == {j \in 1..n : Wanted(keys, lines[j])}
           Q == {j \in 1..(n + 1) : Wanted(keys, more[j])}
<1>1. /\ n \in Nat /\ Len(more) = n + 1 /\ more[n + 1] = line
      /\ \A j \in 1..n : more[j] = lines[j]
  OBVIOUS
<1>2. IsFiniteSet(P) /\ Cardinality(P) \in Nat
  <2>1. P \subseteq 1..n
    OBVIOUS
  <2> HIDE DEF P, n
  <2> QED  BY <2>1, <1>1, Positions, FS_CardinalityType
<1>3. Cardinality(P) = WantedUpTo(keys, lines, n) /\ Cardinality(Q) = WantedUpTo(keys, more, n + 1)
  BY DEF WantedUpTo
<1>4. \A j : j \in 1..(n + 1) <=> j \in 1..n \/ j = n + 1
  BY <1>1
<1>5. n + 1 \notin 1..n
  BY <1>1
<1> HIDE DEF more, n
<1>6. CASE Wanted(keys, line)
  <2>1. Q = P \cup {n + 1} /\ n + 1 \notin P
    BY <1>1, <1>4, <1>5, <1>6, Zenon
  <2>2. Cardinality(Q) = Cardinality(P) + 1
    <3> HIDE DEF P, Q
    <3> QED  BY <2>1, <1>2, FS_AddElement
  <2> HIDE DEF P, Q
  <2> QED  BY <2>2, <1>1, <1>2, <1>3, <1>6 DEF more, n
<1>7. CASE ~Wanted(keys, line)
  <2>1. Q = P
    BY <1>1, <1>4, <1>5, <1>7, Zenon
  <2> HIDE DEF P, Q
  <2> QED  BY <2>1, <1>1, <1>2, <1>3, <1>7 DEF more, n
<1> QED  BY <1>6, <1>7

LEMMA PieceType ==
  ASSUME NEW keys, NEW line \in Entries, NEW n \in Nat
  PROVE  Numbered(keys, line, n) \in Entries /\ Marked(keys, line) \in Entries
<1>1. ToString(n) \in Tokens /\ "$" \in Tokens /\ NL \in Tokens
  BY DEF Tokens, Byte
<1>2. Numbered(keys, line, n) \in Entries
  BY <1>1 DEF Numbered, Entries
<1>3. Front(line) \in Entries
  <2>1. SubSeq(line, 1, Len(line) - 1) \in Seq(Tokens)
    <3>1. Len(line) \in Nat
      BY DEF Entries
    <3> QED  BY <3>1, SliceType DEF Entries
  <2> QED  BY <2>1 DEF Front, Entries
<1>4. Front(line) \o <<"$", NL>> \in Entries
  BY <1>1, <1>3 DEF Entries
<1> QED  BY <1>2, <1>4 DEF Marked

LEMMA RenderedType ==
  ASSUME NEW keys, NEW lines \in Seq(Entries)
  PROVE  Pieces(keys, lines) \in Seq(Entries) /\ Rendered(keys, lines) \in Entries
<1>1. Len(lines) \in Nat /\ \A k \in 1..Len(lines) : lines[k] \in Entries
  OBVIOUS
<1>2. ASSUME NEW k \in 1..Len(lines) PROVE Piece(keys, lines, k) \in Entries
  <2>1. k \in Nat /\ WantedUpTo(keys, lines, k) \in Nat
    BY <1>1, WantedType
  <2>2. /\ Numbered(keys, lines[k], WantedUpTo(keys, lines, k)) \in Entries
        /\ Marked(keys, lines[k]) \in Entries
    BY <1>1, <2>1, PieceType
  <2> QED  BY <2>2 DEF Piece, Entries
<1>3. Pieces(keys, lines) \in Seq(Entries)
  BY <1>1, <1>2 DEF Pieces
<1>4. FlattenSeq(Pieces(keys, lines)) \in Seq(Tokens)
  BY <1>3, FlattenType DEF Entries
<1> QED  BY <1>3, <1>4, RenderedIsFlat DEF Entries

\* One more line is printed behind the others, with the next number.
LEMMA RenderedAppend ==
  ASSUME NEW keys, NEW lines \in Seq(Entries), NEW line \in Entries
  PROVE  Rendered(keys, Append(lines, line))
           = Rendered(keys, lines)
               \o (Numbered(keys, line, WantedUpTo(keys, lines, Len(lines)) + 1)
                     \o Marked(keys, line))
<1> DEFINE n == Len(lines)
           more == Append(lines, line)
           last == Numbered(keys, line, WantedUpTo(keys, lines, n) + 1) \o Marked(keys, line)
<1>1. /\ n \in Nat /\ Len(more) = n + 1 /\ more[n + 1] = line
      /\ more \in Seq(Entries) /\ \A j \in 1..n : more[j] = lines[j]
  OBVIOUS
<1>2. ASSUME NEW k \in 1..n
      PROVE  Piece(keys, more, k) = Piece(keys, lines, k)
  <2>1. k \in Nat /\ Agree(more, lines, k)
    BY <1>1 DEF Agree
  <2>2. WantedUpTo(keys, more, k) = WantedUpTo(keys, lines, k)
    BY <2>1, WantedAgree
  <2> QED  BY <1>1, <2>2 DEF Piece
<1>3. Piece(keys, more, n + 1) = last
  <2>1. Wanted(keys, line) =>
          WantedUpTo(keys, more, n + 1) = WantedUpTo(keys, lines, n) + 1
    BY <1>1, WantedAppend
  <2> QED  BY <1>1, <2>1 DEF Piece, Numbered
<1>4. last \in Entries /\ Pieces(keys, lines) \in Seq(Entries) /\ Len(Pieces(keys, lines)) = n
  <2>1. WantedUpTo(keys, lines, n) + 1 \in Nat
    BY <1>1, WantedType
  <2>2. /\ Numbered(keys, line, WantedUpTo(keys, lines, n) + 1) \in Entries
        /\ Marked(keys, line) \in Entries
    BY <2>1, PieceType
  <2>3. last \in Entries
    BY <2>2 DEF Entries
  <2>4. Pieces(keys, lines) \in Seq(Entries)
    BY RenderedType
  <2>5. Len(Pieces(keys, lines)) = n
    BY <1>1 DEF Pieces
  <2> QED  BY <2>3, <2>4, <2>5
<1> HIDE DEF last, more
<1>5. Pieces(keys, more) = Append(Pieces(keys, lines), last)
  <2>1. Pieces(keys, more) \in Seq(Entries) /\ Len(Pieces(keys, more)) = n + 1
    <3>1. Pieces(keys, more) \in Seq(Entries)
      BY <1>1, RenderedType
    <3>2. Len(Pieces(keys, more)) = n + 1
      BY <1>1 DEF Pieces
    <3> QED  BY <3>1, <3>2
  <2>2. \A k \in 1..(n + 1) : Pieces(keys, more)[k] = Piece(keys, more, k)
    BY <1>1 DEF Pieces
  <2>3. \A k \in 1..n : Pieces(keys, lines)[k] = Piece(keys, lines, k)
    BY <1>1 DEF Pieces
  <2>4. /\ Append(Pieces(keys, lines), last) \in Seq(Entries)
        /\ Len(Append(Pieces(keys, lines), last)) = n + 1
        /\ Append(Pieces(keys, lines), last)[n + 1] = last
        /\ \A k \in 1..n : Append(Pieces(keys, lines), last)[k] = Pieces(keys, lines)[k]
    BY <1>4, AppendProperties
  <2>5. ASSUME NEW k \in 1..(n + 1)
        PROVE  Pieces(keys, more)[k] = Append(Pieces(keys, lines), last)[k]
    <3>1. CASE k = n + 1
      BY <3>1, <1>3, <2>2, <2>4
    <3>2. CASE k # n + 1
      <4>1. k \in 1..n
        BY <3>2, <1>1
      <4> QED  BY <4>1, <1>2, <2>2, <2>3, <2>4
    <3> QED  BY <3>1, <3>2
  <2> HIDE DEF Pieces
  <2> QED  BY <2>1, <2>4, <2>5, SeqEqual
<1>6. FlattenSeq(Append(Pieces(keys, lines), last)) = FlattenSeq(Pieces(keys, lines)) \o last
  BY <1>4, FlattenAppend DEF Entries
<1> QED  BY <1>5, <1>6, RenderedIsFlat DEF last, more

LEMMA RenderedNone ==
  ASSUME NEW keys
  PROVE  Rendered(keys, <<>>) = <<>> /\ WantedUpTo(keys, <<>>, Len(<<>>)) = 0
<1>1. Pieces(keys, <<>>) = <<>>
  BY DEF Pieces
<1>2. {j \in 1..0 : Wanted(keys, <<>>[j])} = {}
  OBVIOUS
<1> QED  BY <1>1, <1>2, RenderedIsFlat, FlattenEmpty, FS_EmptySet DEF WantedUpTo

-----------------------------------------------------------------------------
(* The inputs and the keys.                                                 *)

LEMMA NamedIsFile ==
  ASSUME IsInput(args, disk, stdin), NEW k \in 1..Len(args)
  PROVE  IsFile(Named(args[k])) /\ Named(args[k]).kind \in {"absent", "directory", "text"}
<1>1. Len(args) \in Nat /\ IsFile(Absent)
  BY DEF IsInput, IsFile, Absent
<1>2. IsFile(Named(args[k]))
  BY <1>1 DEF IsInput, Named
<1> QED  BY <1>2 DEF IsFile

\* An int keeps a number that fits it, and never makes a number larger.
LEMMA ToIntIs ==
  ASSUME NEW v \in Int
  PROVE  ToInt(v) \in -(IntMax + 1)..IntMax
<1>1. IntMax \in Nat /\ Word \in Nat \ {0} /\ Word = 2 * (IntMax + 1)
  BY SizesAssumption DEF Word
<1>2. (v + IntMax + 1) % Word \in 0..(Word - 1)
  BY <1>1
<1> QED  BY <1>1, <1>2 DEF ToInt

LEMMA SizeIs ==
  ASSUME NEW n \in Nat
  PROVE  /\ ToInt(n) <= n
         /\ n <= IntMax => ToInt(n) = n
         /\ n > IntMax /\ n + 1 < Word => ToInt(n) < -1
<1> DEFINE x == n + IntMax + 1
<1>1. /\ IntMax \in Nat /\ Word \in Nat \ {0} /\ Word = 2 * (IntMax + 1) /\ x \in Nat
      /\ ToInt(n) = (x % Word) - (IntMax + 1)
  BY SizesAssumption DEF Word, ToInt
<1>2. x = n + IntMax + 1
  OBVIOUS
<1> HIDE DEF x
<1>3. x % Word <= x /\ x % Word \in Nat
  BY <1>1
<1>4. n <= IntMax => x % Word = x
  <2>1. n <= IntMax => x \in 0..(Word - 1)
    BY <1>1, <1>2
  <2> QED  BY <1>1, <2>1
<1>5. n > IntMax /\ n + 1 < Word => x % Word = x - Word
  <2>1. n > IntMax /\ n + 1 < Word => x \in Word..(2 * Word - 1)
    BY <1>1, <1>2
  <2> QED  BY <1>1, <2>1
<1> QED  BY <1>1, <1>2, <1>3, <1>4, <1>5

\* What read_file() hands to write_console().
LEMMA BufferIs ==
  ASSUME NEW f, IsFile(f), Readable(f)
  PROVE  /\ Buffer(f).kind = "text" /\ IsFile(Buffer(f)) /\ Buffer(f).bytes \in Texts
         /\ Len(Buffer(f).bytes) = SizeOf(f) /\ SizeOf(f) \in Nat
<1>1. f.bytes \in Texts /\ f.before \in Byte /\ f.past \in Byte /\ Len(f.bytes) \in Nat
  BY DEF IsFile, Readable, Texts
<1>2. SizeOf(f) \in 0..Len(f.bytes)
  <2>1. SizeOf(f) \in Int /\ SizeOf(f) >= 0
    BY DEF Readable
  <2>2. SizeOf(f) <= Len(f.bytes)
    BY <1>1, SizeIs DEF SizeOf
  <2> QED  BY <1>1, <2>1, <2>2
<1>3. /\ SubSeq(f.bytes, 1, SizeOf(f)) \in Texts
      /\ Len(SubSeq(f.bytes, 1, SizeOf(f))) = SizeOf(f)
  <2>1. 1 \in Int /\ SizeOf(f) \in Int /\ SizeOf(f) <= Len(f.bytes)
        /\ (IF 1 <= SizeOf(f) THEN SizeOf(f) - 1 + 1 ELSE 0) = SizeOf(f)
    BY <1>1, <1>2
  <2> QED  BY <1>1, <2>1, SliceType DEF Texts
<1> QED  BY <1>1, <1>2, <1>3 DEF Buffer, Text, IsFile, Texts

\* A file whose size is told right is in the buffer as it is.
LEMMA BufferWhole ==
  ASSUME NEW f, IsFile(f), Readable(f), SizeTold(f)
  PROVE  Buffer(f).bytes = f.bytes /\ Buffer(f).past = f.past
<1>1. f.bytes \in Texts /\ Len(f.bytes) \in Nat /\ Len(f.bytes) + 1 < Word
  BY DEF IsFile, Readable, Texts, SizeTold
<1>2. SizeOf(f) = Len(f.bytes)
  <2>1. SizeOf(f) >= 0
    BY DEF Readable
  <2>2. IntMax \in Nat /\ Len(f.bytes) \in Nat
    BY <1>1, SizesAssumption
  <2>3. CASE Len(f.bytes) <= IntMax
    BY <2>2, <2>3, SizeIs DEF SizeOf
  <2>4. CASE Len(f.bytes) > IntMax
    <3>1. ToInt(Len(f.bytes)) < -1
      BY <1>1, <2>2, <2>4, SizeIs
    <3>2. ToInt(Len(f.bytes)) \in Int
      BY <2>2, ToIntIs
    <3> QED  BY <2>1, <2>2, <3>1, <3>2 DEF SizeOf
  <2> QED  BY <2>2, <2>3, <2>4
<1>3. SubSeq(f.bytes, 1, Len(f.bytes)) = f.bytes
  BY <1>1, SubSeqFull DEF Texts
<1> QED  BY <1>2, <1>3 DEF Buffer, Text

\* getopt stops at the first operand, and only operands follow.
LEMMA OperandsFrom ==
  ASSUME IsInput(args, disk, stdin), NEW p \in 1..(Len(args) + 1),
         \A k \in 1..(p - 1) : ~Operand(args, k),
         p <= Len(args) => args[p].kind # "keys" /\ ~TakenAsCount(args, p)
  PROVE  FirstOperand = p /\ \A k \in p..Len(args) : Operand(args, k)
<1>0. Len(args) \in Nat
  BY DEF IsInput
<1>1. \A k \in p..Len(args) : args[k].kind # "keys"
  <2> TAKE k \in p..Len(args)
  <2>1. CASE k = p
    BY <2>1
  <2>2. CASE k # p
    <3>1. p \in 1..Len(args) /\ k \in 1..Len(args) /\ p < k
      BY <1>0, <2>2
    <3>2. Operand(args, p)
      BY <3>1 DEF Operand
    <3> QED  BY <3>1, <3>2 DEF IsInput
  <2> QED  BY <2>1, <2>2
<1>2. ASSUME NEW k \in p..Len(args) PROVE Operand(args, k)
  <2>1. CASE k = p
    BY <2>1, <1>0 DEF Operand
  <2>2. CASE k # p
    <3>1. k - 1 \in p..Len(args)
      BY <1>0, <2>2
    <3>2. args[k].kind # "keys" /\ args[k - 1].kind # "keys"
      BY <3>1, <1>1
    <3> QED  BY <3>2 DEF Operand, TakenAsCount
  <2> QED  BY <2>1, <2>2
<1>3. {k \in 1..Len(args) : ~Operand(args, k)} = 1..(p - 1)
  <2>1. \A k : k \in 1..Len(args) <=> k \in 1..(p - 1) \/ k \in p..Len(args)
    BY <1>0
  <2> QED  BY <2>1, <1>2, Zenon
<1>4. Cardinality(1..(p - 1)) = p - 1
  <2>1. p - 1 \in Int /\ 1 \in Int /\ (IF 1 <= p - 1 THEN (p - 1) - 1 + 1 ELSE 0) = p - 1
    BY <1>0
  <2> QED  BY <2>1, FS_Interval
<1>5. FirstOperand = (p - 1) + 1
  BY <1>3, <1>4, Zenon DEF FirstOperand
<1>6. (p - 1) + 1 = p
  BY <1>0
<1> QED  BY <1>2, <1>5, <1>6

\* What may be printed when the numbers have come to m.
OutTokens(m) == Byte \cup {"$", "HELP"} \cup {ToString(n) : n \in 1..m}

LEMMA OutGrows ==
  ASSUME NEW m \in Nat, NEW s \in Seq(OutTokens(m))
  PROVE  /\ s \in Seq(OutTokens(m + 1))
         /\ <<ToString(m + 1)>> \in Seq(OutTokens(m + 1))
<1>1. 1..m \subseteq 1..(m + 1) /\ m + 1 \in 1..(m + 1)
  OBVIOUS
<1>2. OutTokens(m) \subseteq OutTokens(m + 1)
  BY <1>1, Zenon DEF OutTokens
<1>3. ToString(m + 1) \in OutTokens(m + 1)
  BY <1>1, Zenon DEF OutTokens
<1>4. s \in Seq(OutTokens(m + 1))
  BY <1>2, SeqMonotonic
<1> HIDE DEF OutTokens
<1> QED  BY <1>3, <1>4

\* What surrounds the numbers is always among them.
LEMMA OutOrdinary ==
  ASSUME NEW m
  PROVE  /\ Seq(Byte) \subseteq Seq(OutTokens(m))
         /\ HelpText \in Seq(OutTokens(m)) /\ <<"$">> \in Seq(OutTokens(m))
         /\ <<NL>> \in Seq(OutTokens(m)) /\ <<"$", NL>> \in Seq(OutTokens(m))
<1>1. Byte \subseteq OutTokens(m) /\ "$" \in OutTokens(m) /\ "HELP" \in OutTokens(m)
      /\ NL \in OutTokens(m)
  BY DEF OutTokens, Byte
<1>2. Seq(Byte) \subseteq Seq(OutTokens(m))
  BY <1>1, SeqMonotonic
<1> HIDE DEF OutTokens
<1> QED  BY <1>1, <1>2 DEF HelpText

TypeInv == TypeOK /\ InputsInv

LEMMA InitTypes == ASSUME Init PROVE TypeInv
<1>1. PICK given \in Inputs : args = given[1] /\ disk = given[2] /\ stdin = given[3]
  BY DEF Init
<1>2. IsInput(args, disk, stdin)
  BY <1>1, InputsAssumption
<1>3. Len(args) \in Nat
  BY <1>2 DEF IsInput
<1>4. <<>> \in Seq(OutTokens(I))
  BY EmptySeq
<1>5. TypeOK
  <2>1. optind \in 1..(Len(args) + 1) /\ letter \in Nat \ {0} /\ flags = {}
        /\ N \in -(IntMax + 1)..IntMax /\ I \in 0..IntMax /\ i1 \in Nat
    BY <1>3, SizesAssumption DEF Init, Unset
  <2> QED  BY <2>1, <1>4 DEF Init, TypeOK, OutTokens, Absent
<1> QED  BY <1>2, <1>5 DEF Init, InputsInv, TypeInv, InText

LEMMA FirstOperandType ==
  ASSUME IsInput(args, disk, stdin)
  PROVE  FirstOperand \in Nat \ {0}
<1>1. Len(args) \in Nat
  BY DEF IsInput
<1>2. {k \in 1..Len(args) : ~Operand(args, k)} \subseteq 1..Len(args)
  OBVIOUS
<1>3. IsFiniteSet({k \in 1..Len(args) : ~Operand(args, k)})
  BY <1>1, <1>2, Positions
<1>4. Cardinality({k \in 1..Len(args) : ~Operand(args, k)}) \in Nat
  BY <1>3, FS_CardinalityType
<1> QED  BY <1>4 DEF FirstOperand

\* What an action that leaves the inputs and the buffer alone has to keep.
LEMMA SameInputs ==
  ASSUME InputsInv, UNCHANGED inputs,
         pc' = "seek" => cur' >= 1,
         InText' => InText /\ UNCHANGED <<optind, file>>
  PROVE  InputsInv'
<1>1. IsInput(args, disk, stdin)'
  BY DEF InputsInv, inputs
<1>2. FirstOperand' = FirstOperand
  BY DEF inputs, FirstOperand, Operand, TakenAsCount
<1>3. ASSUME InText'
      PROVE  (/\ optind > FirstOperand /\ Readable(Named(args[optind - 1]))
              /\ file = Buffer(Named(args[optind - 1])) /\ IsFile(file))'
  <2>1. /\ optind > FirstOperand /\ Readable(Named(args[optind - 1]))
        /\ file = Buffer(Named(args[optind - 1])) /\ IsFile(file)
    BY <1>3 DEF InputsInv
  <2>2. args' = args /\ disk' = disk /\ optind' = optind /\ file' = file
    BY <1>3 DEF inputs
  <2>3. Named(args[optind - 1])' = Named(args[optind - 1])
    BY <2>2 DEF Named
  <2> QED  BY <2>1, <2>2, <2>3, <1>2 DEF IsFile, Readable, Buffer, SizeOf
<1> QED  BY <1>1, <1>3 DEF InputsInv

LEMMA ParseKeyTypes ==
  ASSUME TypeInv, ParseKey PROVE TypeInv'
<1> USE DEF TypeInv
<1>0. /\ optind \in 1..Len(args) /\ Len(args) \in Nat
      /\ letter \in Nat \ {0}
  BY DEF TypeOK, InputsInv, IsInput, ParseKey, AtKeys
<1>1. OptindThen \in 1..(Len(args) + 1) /\ LetterThen \in Nat \ {0}
  BY <1>0 DEF OptindThen, LetterThen
<1>2. CountFollows => OptindThen \in 1..Len(args) /\ args[OptindThen].value \in Int
  <2>1. CountFollows => OptindThen \in 1..Len(args) /\ args[OptindThen].kind = "count"
    BY <1>0, <1>1 DEF CountFollows
  <2> QED  BY <2>1 DEF InputsInv, IsInput, IsWord
<1>3. TakeCount => N' \in -(IntMax + 1)..IntMax /\ optind' \in 1..(Len(args) + 1)
  <2>1. CountFollows => ToInt(args[OptindThen].value) \in -(IntMax + 1)..IntMax
    BY <1>2, ToIntIs
  <2>2. 10 \in -(IntMax + 1)..IntMax
    BY SizesAssumption
  <2> QED  BY <1>0, <1>1, <1>2, <2>1, <2>2 DEF TakeCount
<1>4. optind' \in 1..(Len(args) + 1) /\ letter' \in Nat \ {0} /\ N' \in -(IntMax + 1)..IntMax
  BY <1>0, <1>1, <1>3 DEF ParseKey, TypeOK
<1>5. /\ flags' \subseteq {"n", "b", "l", "d", "h", "e", "stdin"}
      /\ pc' \in {"keys", "exitKeys"}
  BY DEF ParseKey, TypeOK
<1>6. UNCHANGED <<inputs, rest, I, file, cur, i1, out>>
  BY DEF ParseKey
<1>7. TypeOK'
  <2>1. out' \in Seq(OutTokens(I))'
    BY <1>6 DEF TypeOK, OutTokens
  <2> QED  BY <2>1, <1>4, <1>5, <1>6 DEF TypeOK, inputs, Exits, OutTokens
<1>8. InputsInv'
  BY <1>5, <1>6, SameInputs DEF InText
<1> QED  BY <1>7, <1>8

LEMMA EndOfKeysTypes ==
  ASSUME TypeInv, EndOfKeys PROVE TypeInv'
<1> USE DEF TypeInv
<1>1. /\ UNCHANGED <<inputs, rest, optind, letter, N, I, file, cur, i1, out>>
      /\ flags' \subseteq {"n", "b", "l", "d", "h", "e", "stdin"} /\ pc' = "main"
  BY DEF EndOfKeys, TypeOK
<1>2. TypeOK'
  BY <1>1 DEF TypeOK, inputs, Exits
<1>3. InputsInv'
  BY <1>1, SameInputs DEF InText
<1> QED  BY <1>2, <1>3

LEMMA CatFileTypes ==
  ASSUME TypeInv, CatFile, Parsed => FirstOperand \in 1..optind PROVE TypeInv'
<1> USE DEF TypeInv
<1> DEFINE f == Named(args[optind])
<1>0. optind \in 1..Len(args) /\ Len(args) \in Nat /\ IsInput(args, disk, stdin)
  BY DEF TypeOK, InputsInv, IsInput, CatFile
<1>1. IsFile(f) /\ f.kind \in {"absent", "directory", "text"}
  BY <1>0, NamedIsFile
<1>2. /\ UNCHANGED <<inputs, rest, letter, flags, N, I>>
      /\ optind' = optind + 1 /\ out' = out \o Help /\ pc = "main"
  BY DEF CatFile
<1>3. \/ UNCHANGED <<file, cur, i1, pc>>
      \/ pc' = "exitFile" /\ UNCHANGED <<file, cur, i1>>
      \/ /\ Readable(f) /\ file' = Buffer(f) /\ i1' = 0
         /\ \/ cur' = SizeOf(f) + 1 /\ pc' = "seek"
            \/ cur' = 1 /\ pc' = "number"
  BY Zenon DEF CatFile
<1>4. Readable(f) => /\ Buffer(f).kind = "text" /\ IsFile(Buffer(f))
                     /\ Len(Buffer(f).bytes) = SizeOf(f) /\ SizeOf(f) \in Nat
  BY <1>1, BufferIs
<1>5. out' \in Seq(OutTokens(I'))
  <2>1. out \in Seq(OutTokens(I)) /\ Help \in Seq(OutTokens(I))
    BY OutOrdinary, EmptySeq DEF TypeOK, OutTokens, Help
  <2> HIDE DEF OutTokens
  <2> QED  BY <2>1, <1>2
<1> HIDE DEF f
<1>6. /\ (optind \in 1..(Len(args) + 1))' /\ (file.kind \in {"absent", "text"})' /\ i1' \in Nat
      /\ (pc \in {"seek", "number", "copy"} => cur \in 0..(Sz + 1))'
  BY <1>0, <1>2, <1>3, <1>4 DEF TypeOK, inputs, Sz
<1>7. TypeOK'
  BY <1>2, <1>3, <1>5, <1>6 DEF TypeOK, OutTokens, Exits
<1>8. FirstOperand' = FirstOperand
  BY <1>2 DEF inputs, FirstOperand, Operand, TakenAsCount
<1>9. InText' => Readable(f) /\ file' = Buffer(f) /\ IsFile(file')
  BY <1>2, <1>3, <1>4 DEF InText
<1>10. f = Named(args[optind - 1])'
  <2>1. optind' - 1 = optind /\ args' = args /\ disk' = disk
    BY <1>0, <1>2 DEF inputs
  <2> QED  BY <2>1 DEF f, Named
<1>11. (optind > FirstOperand)'
  <2>1. FirstOperand \in 1..optind
    BY <1>2 DEF Parsed
  <2> QED  BY <2>1, <1>0, <1>2, <1>8
<1>12. IsInput(args, disk, stdin)' /\ (pc' = "seek" => cur' >= 1)
  BY <1>0, <1>2, <1>3, <1>4 DEF inputs
<1>13. InText' => (Readable(Named(args[optind - 1])) /\ file = Buffer(Named(args[optind - 1])))'
  BY <1>9, <1>10 DEF Readable, Buffer, SizeOf
<1>14. InText' => IsFile(file)'
  BY <1>9 DEF IsFile
<1> QED  BY <1>7, <1>11, <1>12, <1>13, <1>14 DEF InputsInv

LEMMA CatStdinTypes ==
  ASSUME TypeInv, CatStdin PROVE TypeInv'
<1> USE DEF TypeInv
<1>1. /\ UNCHANGED <<inputs, rest, optind, letter, flags, N, I, file, cur>>
      /\ i1' = 0 /\ pc' = "stdin" /\ out' = out \o Help
  BY DEF CatStdin
<1>2. out' \in Seq(OutTokens(I'))
  <2>1. out \in Seq(OutTokens(I)) /\ Help \in Seq(OutTokens(I))
    BY OutOrdinary, EmptySeq DEF TypeOK, OutTokens, Help
  <2> HIDE DEF OutTokens
  <2> QED  BY <2>1, <1>1
<1>3. TypeOK'
  BY <1>1, <1>2 DEF TypeOK, OutTokens, Exits, inputs
<1>4. InputsInv'
  BY <1>1, SameInputs DEF InText
<1> QED  BY <1>3, <1>4

LEMMA EndTypes ==
  ASSUME TypeInv, MainReturns \/ StdinEnds \/ CopyEnds \/ Undefined PROVE TypeInv'
<1> USE DEF TypeInv
<1>1. /\ UNCHANGED <<inputs, rest, optind, letter, flags, N, I, file, cur, i1, out>>
      /\ pc' \in {"exit0", "main", "undefined"}
  BY DEF MainReturns, StdinEnds, CopyEnds, Undefined
<1>2. TypeOK'
  BY <1>1 DEF TypeOK, OutTokens, Exits, inputs
<1>3. InputsInv'
  BY <1>1, SameInputs DEF InText
<1> QED  BY <1>2, <1>3

LEMMA RestType ==
  ASSUME InputsInv, StdinInv, pc = "stdin"
  PROVE  /\ stdin \in Texts /\ rest \in Texts /\ Taken \in 0..Len(stdin)
         /\ Len(rest) = Len(stdin) - Taken /\ Behind(stdin, Taken, rest)
         /\ \A k \in 1..Len(rest) : rest[k] = stdin[Taken + k]
<1>1. /\ stdin \in Seq({"x", NL}) /\ Taken = Len(stdin) - Len(rest)
      /\ Taken >= 0 /\ rest = SubSeq(stdin, Taken + 1, Len(stdin))
  BY DEF InputsInv, IsInput, StdinInv, Taken
<1>2. Len(stdin) \in Nat
  BY <1>1
<1>3. Len(rest) \in Nat
  BY <1>1, <1>2 DEF Taken
<1>4. /\ Taken + 1 \in Int /\ Taken + 1 >= 1 /\ Len(stdin) \in Int /\ Len(stdin) <= Len(stdin)
      /\ Taken \in 0..Len(stdin) /\ Len(rest) = Len(stdin) - Taken
      /\ Len(stdin) - (Taken + 1) + 1 = Len(stdin) - Taken
      /\ \A k \in 1..Len(rest) : (Taken + 1) + k - 1 = Taken + k
  BY <1>1, <1>2, <1>3
<1>5. /\ rest \in Seq({"x", NL})
      /\ \A k \in 1..(Len(stdin) - (Taken + 1) + 1) : rest[k] = stdin[(Taken + 1) + k - 1]
  <2> DEFINE i == Taken + 1
  <2>1. i \in Int /\ i >= 1 /\ Len(stdin) \in Int /\ Len(stdin) <= Len(stdin)
    BY <1>4
  <2> HIDE DEF i
  <2>2. /\ SubSeq(stdin, i, Len(stdin)) \in Seq({"x", NL})
        /\ \A k \in 1..(Len(stdin) - i + 1) :
             SubSeq(stdin, i, Len(stdin))[k] = stdin[i + k - 1]
    BY <1>1, <2>1, SliceType
  <2>3. rest = SubSeq(stdin, i, Len(stdin))
    BY <1>1 DEF i
  <2>4. /\ rest \in Seq({"x", NL})
        /\ \A k \in 1..(Len(stdin) - i + 1) : rest[k] = stdin[i + k - 1]
    BY <2>2, <2>3
  <2> QED  BY <2>4 DEF i
<1> QED  BY <1>1, <1>4, <1>5 DEF Texts, Behind

\* scanf skips the white space and takes the word up to the next white space.
LEMMA FirstWord ==
  ASSUME rest \in Texts
  PROVE  /\ Start = 0 => \A k \in 1..Len(rest) : rest[k] = NL
         /\ Start # 0 =>
              /\ Start \in 1..Len(rest) /\ rest[Start] # NL
              /\ \A k \in 1..(Start - 1) : rest[k] = NL
              /\ WordEnd \in Start..Len(rest)
              /\ \A k \in Start..WordEnd : rest[k] # NL
              /\ WordEnd = Len(rest) \/ rest[WordEnd + 1] = NL
<1> DEFINE P == {k \in 1..Len(rest) : rest[k] # NL}
<1>0. Len(rest) \in Nat
  BY DEF Texts
<1>1. Start = IF P # {} THEN Min(P) ELSE 0
  BY DEF Start, SelectInSeq
<1>2. P # {} => Min(P) \in P /\ \A k \in P : Min(P) <= k
  <2>1. P \subseteq Nat
    OBVIOUS
  <2> HIDE DEF P
  <2> QED  BY <2>1, MinIs
<1>3. CASE P = {}
  <2>1. Start = 0
    BY <1>1, <1>3
  <2>2. \A k \in 1..Len(rest) : rest[k] = NL
    BY <1>3
  <2> QED  BY <2>1, <2>2
<1>4. CASE P # {}
  <2>1. Start \in 1..Len(rest) /\ rest[Start] # NL
    BY <1>1, <1>2, <1>4
  <2>2. \A k \in 1..(Start - 1) : rest[k] = NL
    <3>1. \A k \in P : Start <= k
      BY <1>1, <1>2, <1>4, Zenon
    <3>2. \A k \in 1..(Start - 1) : k \in 1..Len(rest) /\ ~(Start <= k)
      BY <2>1, <1>0
    <3> QED  BY <3>1, <3>2
  <2> HIDE DEF P
  <2> DEFINE tail == SubSeq(rest, Start, Len(rest))
             Q == {k \in 1..Len(tail) : tail[k] = NL}
  <2>3. /\ Len(tail) = Len(rest) - Start + 1
        /\ \A k \in 1..Len(tail) : tail[k] = rest[Start + k - 1]
    BY <2>1, <1>0, SliceType DEF Texts
  <2>4. Stop = IF Q # {} THEN Min(Q) ELSE 0
    BY DEF Stop, SelectInSeq
  <2> HIDE DEF tail
  <2>5. Q # {} => Min(Q) \in Q /\ \A k \in Q : Min(Q) <= k
    <3>1. Q \subseteq Nat
      OBVIOUS
    <3> HIDE DEF Q
    <3> QED  BY <3>1, MinIs
  <2>6. CASE Q = {}
    <3>1. WordEnd = Len(rest)
      BY <2>4, <2>6 DEF WordEnd
    <3>2. \A k \in Start..Len(rest) : rest[k] # NL
      <4> TAKE k \in Start..Len(rest)
      <4>1. k - Start + 1 \in 1..Len(tail) /\ Start + (k - Start + 1) - 1 = k
        BY <2>1, <2>3, <1>0
      <4>2. tail[k - Start + 1] # NL
        BY <4>1, <2>6
      <4> QED  BY <4>1, <4>2, <2>3
    <3> QED  BY <2>1, <2>2, <3>1, <3>2, <1>0
  <2>7. CASE Q # {}
    <3>1. Stop \in 1..Len(tail) /\ tail[Stop] = NL
      BY <2>4, <2>5, <2>7
    <3>2. \A k \in 1..(Stop - 1) : tail[k] # NL
      <4>1. \A k \in Q : Stop <= k
        BY <2>4, <2>5, <2>7, Zenon
      <4>2. \A k \in 1..(Stop - 1) : k \in 1..Len(tail) /\ ~(Stop <= k)
        BY <3>1, <2>3, <2>1, <1>0
      <4> QED  BY <4>1, <4>2
    <3> HIDE DEF Q
    <3>3. Stop # 1
      <4>1. 1 \in 1..Len(tail) /\ Start + 1 - 1 = Start
        BY <2>1, <2>3, <1>0
      <4> QED  BY <4>1, <3>1, <2>1, <2>3
    <3>4. WordEnd = Start + Stop - 2
      BY <3>1 DEF WordEnd
    <3>5. WordEnd \in Start..Len(rest) /\ WordEnd + 1 = Start + Stop - 1
      BY <2>1, <2>3, <3>1, <3>3, <3>4, <1>0
    <3>6. rest[WordEnd + 1] = NL
      BY <3>5, <3>1, <2>3
    <3>7. \A k \in Start..WordEnd : rest[k] # NL
      <4> TAKE k \in Start..WordEnd
      <4>1. /\ k - Start + 1 \in 1..(Stop - 1) /\ k - Start + 1 \in 1..Len(tail)
            /\ Start + (k - Start + 1) - 1 = k
        BY <2>1, <2>3, <3>1, <3>4, <1>0
      <4> QED  BY <4>1, <3>2, <2>3
    <3> QED  BY <2>1, <2>2, <3>5, <3>6, <3>7
  <2> QED  BY <2>6, <2>7
<1> QED  BY <1>3, <1>4

LEMMA ScanWordTypes ==
  ASSUME TypeInv, ScanWord, StdinInv PROVE TypeInv'
<1> USE DEF TypeInv
<1>1. /\ UNCHANGED <<inputs, optind, letter, flags, N, file, cur, pc>>
      /\ i1' = i1 + 1 /\ pc = "stdin"
  BY DEF ScanWord
<1> DEFINE word == SubSeq(rest, Start, WordEnd)
           ending == IF "e" \in flags THEN <<"$", NL>> ELSE <<NL>>
<1>2. word \in Seq(Byte)
  <2>1. rest \in Texts /\ Start \in 1..Len(rest) /\ WordEnd \in Start..Len(rest)
    BY RestType, FirstWord DEF ScanWord
  <2>2. word \in Texts
    BY <2>1, SliceType DEF Texts
  <2>3. Texts \subseteq Seq(Byte)
    <3>1. {"x", NL} \subseteq Byte
      BY DEF Byte
    <3> QED  BY <3>1, SeqMonotonic DEF Texts
  <2> QED  BY <2>2, <2>3
<1>3. out' \in Seq(OutTokens(I'))
  <2>1. I \in Nat
    BY SizesAssumption DEF TypeOK
  <2>5. out \in Seq(OutTokens(I))
    BY DEF TypeOK, OutTokens
  <2>6. /\ ending \in Seq(OutTokens(I'))
         /\ word \in Seq(OutTokens(I'))
    <3> HIDE DEF OutTokens, word
    <3> QED  BY <1>2, OutOrdinary
  <2> HIDE DEF OutTokens, word, ending
  <2>2. \/ I' = I + 1 /\ out' = ((out \o <<ToString(I + 1)>>) \o word) \o ending
        \/ I' = I /\ out' = ((out \o <<>>) \o word) \o ending
    <3> DEFINE numbered == flags \intersect {"n", "b"} # {}
    <3>1. /\ I' = IF numbered THEN I + 1 ELSE I
          /\ out' = out \o (IF numbered THEN <<ToString(I + 1)>> ELSE <<>>) \o word \o ending
      BY Zenon DEF ScanWord, word, ending
    <3> HIDE DEF numbered
    <3>2. CASE numbered
      BY <3>1, <3>2, Zenon
    <3>3. CASE ~numbered
      BY <3>1, <3>3, Zenon
    <3> QED  BY <3>2, <3>3
  <2>3. CASE I' = I + 1 /\ out' = ((out \o <<ToString(I + 1)>>) \o word) \o ending
    <3>1. /\ out \in Seq(OutTokens(I + 1)) /\ <<ToString(I + 1)>> \in Seq(OutTokens(I + 1))
      BY <2>1, <2>5, OutGrows
    <3>2. out \o <<ToString(I + 1)>> \in Seq(OutTokens(I + 1))
      BY <3>1
    <3> QED  BY <2>6, <2>3, <3>2
  <2>4. CASE I' = I /\ out' = ((out \o <<>>) \o word) \o ending
    BY <2>5, <2>6, <2>4
  <2> QED  BY <2>2, <2>3, <2>4
<1>4. I' \in 0..IntMax
  <2>1. IntMax \in Nat /\ I \in 0..IntMax
    BY SizesAssumption DEF TypeOK
  <2>2. I' = I \/ (I' = I + 1 /\ I < IntMax)
    BY DEF ScanWord, WordFits
  <2> QED  BY <2>1, <2>2
<1> HIDE DEF word
<1>5. TypeOK'
  BY <1>1, <1>3, <1>4 DEF TypeOK, OutTokens, Exits, inputs, Sz
<1>6. InputsInv'
  BY <1>1, SameInputs DEF InText
<1> QED  BY <1>5, <1>6

LEMMA ByteAtType ==
  ASSUME InputsInv, InText, NEW k \in Int
  PROVE  /\ ByteAt(k) \in Byte /\ Sz \in Nat
         /\ file.bytes \in Texts /\ file.kind = "text" /\ IsFile(file)
<1>1. IsFile(file) /\ file.kind = "text"
  BY DEF InputsInv, Buffer, Text
<1>2. file.bytes \in Seq({"x", NL}) /\ file.before \in Byte /\ file.past \in Byte
  BY <1>1 DEF IsFile
<1>3. ByteAt(k) \in Byte
  BY <1>2 DEF ByteAt, Byte, Sz
<1> QED  BY <1>1, <1>2, <1>3 DEF Sz, Texts

LEMMA SeekTailTypes ==
  ASSUME TypeInv, SeekTail PROVE TypeInv'
<1> USE DEF TypeInv
<1>1. /\ UNCHANGED <<inputs, rest, optind, letter, flags, N, I, file, out>>
      /\ pc = "seek" /\ pc' \in {"seek", "number"} /\ cur \in 1..(Sz + 1) /\ Sz \in Nat
  BY ByteAtType DEF SeekTail, TypeOK, InputsInv, InText
<1>2. /\ cur' \in 0..(Sz + 1) /\ (pc' = "seek" => cur' >= 1)
      /\ i1' \in Nat
  BY <1>1 DEF SeekTail, TypeOK
<1>3. TypeOK'
  BY <1>1, <1>2 DEF TypeOK, OutTokens, Exits, inputs, Sz
<1>4. InputsInv'
  BY <1>1, <1>2, SameInputs DEF InText
<1> QED  BY <1>3, <1>4

LEMMA FirstNumberTypes ==
  ASSUME TypeInv, FirstNumber PROVE TypeInv'
<1> USE DEF TypeInv
<1>1. /\ UNCHANGED <<inputs, rest, optind, letter, flags, N, file, cur, i1>>
      /\ pc = "number" /\ pc' = "copy"
      /\ \/ out' = out \o <<ToString(I + 1)>> /\ I' = I + 1 /\ I < IntMax
         \/ out' = out /\ I' = I
  BY DEF FirstNumber, Number
<1>2. out' \in Seq(OutTokens(I')) /\ I' \in 0..IntMax
  <2>1. I \in Nat /\ I <= IntMax /\ IntMax \in Nat /\ out \in Seq(OutTokens(I))
    BY SizesAssumption DEF TypeOK, OutTokens
  <2>2. /\ out \in Seq(OutTokens(I + 1)) /\ <<ToString(I + 1)>> \in Seq(OutTokens(I + 1))
        /\ I + 1 \in Nat
    BY <2>1, OutGrows
  <2> HIDE DEF OutTokens
  <2>3. out \o <<ToString(I + 1)>> \in Seq(OutTokens(I + 1))
    BY <2>2
  <2>4. CASE out' = out \o <<ToString(I + 1)>> /\ I' = I + 1 /\ I < IntMax
    BY <2>1, <2>3, <2>4
  <2>5. CASE out' = out /\ I' = I
    BY <2>1, <2>5
  <2> QED  BY <1>1, <2>4, <2>5
<1>3. TypeOK'
  BY <1>1, <1>2 DEF TypeOK, OutTokens, Exits, inputs, Sz
<1>4. InputsInv'
  BY <1>1, SameInputs DEF InText
<1> QED  BY <1>3, <1>4

LEMMA CopyByteTypes ==
  ASSUME TypeInv, CopyByte PROVE TypeInv'
<1> USE DEF TypeInv
<1> DEFINE byte == ByteAt(cur)
           mark == IF byte = NL /\ "e" \in flags THEN <<"$">> ELSE <<>>
           shown == (out \o mark) \o <<byte>>
<1>1. /\ UNCHANGED <<inputs, rest, optind, letter, flags, N, file>>
      /\ pc = "copy" /\ pc' \in {"copy", "main"} /\ cur \in 0..Sz /\ cur' \in {cur, cur + 1}
      /\ i1' \in {i1, i1 + 1}
      /\ \/ out' = shown \o <<ToString(I + 1)>> /\ I' = I + 1 /\ I < IntMax
         \/ out' = shown /\ I' = I
  <2>1. /\ UNCHANGED <<inputs, rest, optind, letter, flags, N, file>>
        /\ pc = "copy" /\ cur <= Sz /\ i1' \in {i1, i1 + 1}
    BY DEF CopyByte
  <2>2. \/ pc' = "main" /\ out' = shown /\ cur' = cur /\ I' = I
        \/ /\ pc' = "copy" /\ cur' = cur + 1
           /\ Number(shown, byte = NL /\ NumberedAt(cur + 1))
           /\ byte = NL /\ NumberedAt(cur + 1) => I < IntMax
    BY <2>1 DEF CopyByte, NextNumbered
  <2>3. cur \in 0..(Sz + 1)
    BY <2>1 DEF TypeOK
  <2>4. Sz \in Nat
    BY <2>1, ByteAtType DEF InText
  <2> HIDE DEF byte, shown
  <2>5. \/ out' = shown \o <<ToString(I + 1)>> /\ I' = I + 1 /\ I < IntMax
        \/ out' = shown /\ I' = I
    <3>1. CASE byte = NL /\ NumberedAt(cur + 1)
      BY <2>2, <3>1, Zenon DEF Number
    <3>2. CASE ~(byte = NL /\ NumberedAt(cur + 1))
      BY <2>2, <3>2, Zenon DEF Number
    <3> QED  BY <3>1, <3>2
  <2>6. cur \in 0..Sz
    BY <2>1, <2>3, <2>4
  <2>7. pc' \in {"copy", "main"} /\ cur' \in {cur, cur + 1}
    BY <2>2, Zenon
  <2> QED  BY <2>1, <2>5, <2>6, <2>7, Zenon
<1>2. byte \in Byte /\ Sz \in Nat
  <2>1. cur \in Int /\ InText
    BY <1>1 DEF InText
  <2> QED  BY <2>1, ByteAtType
<1>3. out' \in Seq(OutTokens(I')) /\ I' \in 0..IntMax
  <2>1. I \in Nat /\ I <= IntMax /\ IntMax \in Nat /\ out \in Seq(OutTokens(I))
    BY SizesAssumption DEF TypeOK, OutTokens
  <2>2. mark \in Seq(OutTokens(I)) /\ <<byte>> \in Seq(OutTokens(I))
    <3> HIDE DEF OutTokens, byte
    <3>1. <<byte>> \in Seq(Byte)
      BY <1>2
    <3> QED  BY <3>1, OutOrdinary, EmptySeq
  <2> HIDE DEF OutTokens, byte, mark
  <2>3. shown \in Seq(OutTokens(I))
    BY <2>1, <2>2
  <2>4. /\ shown \in Seq(OutTokens(I + 1)) /\ <<ToString(I + 1)>> \in Seq(OutTokens(I + 1))
        /\ I + 1 \in Nat
    <3> HIDE DEF shown
    <3> QED  BY <2>1, <2>3, OutGrows
  <2> HIDE DEF shown
  <2>5. shown \o <<ToString(I + 1)>> \in Seq(OutTokens(I + 1))
    BY <2>4
  <2>6. CASE out' = shown \o <<ToString(I + 1)>> /\ I' = I + 1 /\ I < IntMax
    BY <2>1, <2>5, <2>6
  <2>7. CASE out' = shown /\ I' = I
    BY <2>1, <2>3, <2>7
  <2> QED  BY <1>1, <2>6, <2>7
<1> HIDE DEF shown, byte
<1>4. i1' \in Nat /\ cur' \in 0..(Sz + 1)
  BY <1>1, <1>2 DEF TypeOK
<1>5. TypeOK'
  BY <1>1, <1>3, <1>4 DEF TypeOK, OutTokens, Exits, inputs, Sz
<1>6. InputsInv'
  BY <1>1, SameInputs DEF InText
<1> QED  BY <1>5, <1>6

-----------------------------------------------------------------------------
(* KeysInv.                                                                 *)

LEMMA InitKeys == ASSUME Init, TypeInv PROVE KeysInv
<1>1. letter \in 1..(IF AtKeys THEN Len(args[optind].letters) ELSE 1)
  <2>1. AtKeys => args[1].letters \in Seq(STRING) /\ args[1].letters # <<>>
    BY DEF AtKeys, Init, TypeInv, InputsInv, IsInput, IsWord
  <2>2. AtKeys => Len(args[1].letters) \in Nat /\ Len(args[1].letters) # 0
    BY <2>1
  <2> QED  BY <2>2 DEF Init
<1> QED  BY <1>1 DEF Init, KeysInv, TakenAsCount, Parsed, AtKeys

LEMMA KeysKept ==
  ASSUME TypeInv, KeysInv, UNCHANGED <<args, flags>>, Parsed, Parsed',
         pc # "exitKeys", optind' \in {optind, optind + 1}
  PROVE  KeysInv'
<1>1. FirstOperand' = FirstOperand
  BY DEF FirstOperand, Operand, TakenAsCount
<1>2. FirstOperand \in 1..optind /\ optind \in Nat
  BY DEF KeysInv, TypeInv, TypeOK, InputsInv, IsInput
<1>3. (FirstOperand \in 1..optind)'
  BY <1>1, <1>2
<1>4. /\ \A k \in 1..Len(args) :
           args[k].kind = "keys" => Range(args[k].letters) \subseteq flags
      /\ \A k \in FirstOperand..Len(args) : Operand(args, k)
      /\ "stdin" \in flags <=> FirstOperand = Len(args) + 1
      /\ \A key \in DOMAIN Rival : ~(key \in flags /\ Rival[key] \in flags)
  BY DEF KeysInv
<1>5. (\A k \in FirstOperand..Len(args) : Operand(args, k))'
  BY <1>1, <1>4 DEF Operand, TakenAsCount
<1>6. pc' # "keys" /\ (\A k \in 1..Len(args) :
           args[k].kind = "keys" => Range(args[k].letters) \subseteq flags)'
      /\ ("stdin" \in flags <=> FirstOperand = Len(args) + 1)'
      /\ (\A key \in DOMAIN Rival : ~(key \in flags /\ Rival[key] \in flags))'
  BY <1>1, <1>4 DEF Parsed, Rival
<1> QED  BY <1>3, <1>5, <1>6 DEF KeysInv

\* Where getopt is once a letter has been handed out.
LEMMA KeyTaken ==
  ASSUME TypeInv, KeysInv, ParseKey, pc' = "keys"
  PROVE  /\ AtKeys /\ optind \in 1..Len(args) /\ Len(args) \in Nat
         /\ args[optind].letters \in Seq(STRING)
         /\ letter \in 1..Len(args[optind].letters)
         /\ flags' = flags \union {args[optind].letters[letter]}
         /\ ~LastLetter => optind' = optind /\ letter' = letter + 1
         /\ LastLetter =>
              /\ letter' = 1
              /\ \/ /\ optind' = optind + 1
                    /\ optind' <= Len(args) => ~TakenAsCount(args, optind')
                 \/ /\ optind' = optind + 2 /\ optind + 1 <= Len(args)
                    /\ args[optind + 1].kind = "count"
                    /\ Last(args[optind].letters) \in {"l", "d"}
<1> DEFINE key == args[optind].letters[letter]
<1>1. /\ AtKeys /\ optind \in 1..Len(args) /\ Len(args) \in Nat
      /\ args[optind].kind = "keys"
  BY DEF ParseKey, AtKeys, TypeInv, TypeOK, InputsInv, IsInput
<1>2. args[optind].letters \in Seq(STRING)
  BY <1>1 DEF TypeInv, InputsInv, IsInput, IsWord
<1>3. letter \in 1..Len(args[optind].letters)
  BY <1>1 DEF KeysInv, ParseKey
<1>4. /\ flags' = flags \union {key} /\ letter' = LetterThen
      /\ key \in {"l", "d"} => TakeCount
      /\ key \notin {"l", "d"} => optind' = OptindThen
  BY DEF ParseKey
<1> HIDE DEF key
<1>5. ASSUME ~LastLetter PROVE optind' = optind /\ letter' = letter + 1
  <2>1. OptindThen = optind /\ LetterThen = letter + 1
    BY <1>5 DEF OptindThen, LetterThen
  <2>2. ~CountFollows
    BY <1>1, <2>1 DEF CountFollows
  <2> QED  BY <1>4, <2>1, <2>2 DEF TakeCount
<1>6. ASSUME LastLetter
      PROVE  /\ letter' = 1
             /\ \/ /\ optind' = optind + 1
                   /\ optind' <= Len(args) => ~TakenAsCount(args, optind')
                \/ /\ optind' = optind + 2 /\ optind + 1 <= Len(args)
                   /\ args[optind + 1].kind = "count"
                   /\ Last(args[optind].letters) \in {"l", "d"}
  <2>1. OptindThen = optind + 1 /\ LetterThen = 1 /\ key = Last(args[optind].letters)
    BY <1>6 DEF OptindThen, LetterThen, LastLetter, Last, key
  <2>2. CASE key \notin {"l", "d"}
    <3>1. optind' = optind + 1 /\ (optind + 1) - 1 = optind
      BY <1>1, <1>4, <2>1, <2>2
    <3>2. ~TakenAsCount(args, optind')
      BY <3>1, <2>1, <2>2 DEF TakenAsCount
    <3> QED  BY <1>4, <2>1, <3>1, <3>2
  <2>3. CASE key \in {"l", "d"} /\ CountFollows
    <3>1. optind' = optind + 2
      BY <1>1, <1>4, <2>1, <2>3 DEF TakeCount
    <3> QED  BY <1>4, <2>1, <2>3, <3>1 DEF CountFollows
  <2>4. CASE key \in {"l", "d"} /\ ~CountFollows
    <3>1. optind' = optind + 1
      BY <1>4, <2>1, <2>4 DEF TakeCount
    <3>2. optind' <= Len(args) => ~TakenAsCount(args, optind')
      BY <3>1, <2>1, <2>4 DEF CountFollows, TakenAsCount
    <3> QED  BY <1>4, <2>1, <3>1, <3>2
  <2> QED  BY <2>2, <2>3, <2>4
<1> QED  BY <1>1, <1>2, <1>3, <1>4, <1>5, <1>6 DEF key

LEMMA ParseKeyKeys ==
  ASSUME TypeInv, KeysInv, ParseKey PROVE KeysInv'
<1>0. /\ UNCHANGED <<inputs, rest, I, file, cur, i1, out>> /\ args' = args
      /\ pc = "keys" /\ pc' \in {"keys", "exitKeys"} /\ out = <<>>
  BY DEF ParseKey, KeysInv, Parsed, inputs
<1>1. CASE pc' = "exitKeys"
  BY <1>0, <1>1 DEF KeysInv, Parsed
<1>2. CASE pc' = "keys"
  <2> DEFINE key == args[optind].letters[letter]
  <2>1. /\ AtKeys /\ optind \in 1..Len(args) /\ Len(args) \in Nat
        /\ args[optind].letters \in Seq(STRING)
        /\ letter \in 1..Len(args[optind].letters)
        /\ flags' = flags \union {key}
    BY <1>2, KeyTaken
  <2>2. ~Refused(key) /\ key \in {"n", "b", "l", "d", "h", "e"}
    BY <1>2 DEF ParseKey
  <2>3. (\A k \in DOMAIN Rival : ~(k \in flags /\ Rival[k] \in flags))'
    BY <1>0, <2>1, <2>2 DEF KeysInv, Rival, Refused
  <2>4. (I = 0 /\ "stdin" \notin flags)'
    BY <1>0, <2>1, <2>2 DEF KeysInv
  <2>5. /\ \A k \in 1..(optind - 1) :
             /\ ~Operand(args, k)
             /\ args[k].kind = "keys" => Range(args[k].letters) \subseteq flags'
        /\ \A j \in 1..(letter - 1) : args[optind].letters[j] \in flags'
        /\ optind <= Len(args) => ~TakenAsCount(args, optind)
    BY <1>0, <2>1 DEF KeysInv
  <2>6. /\ \A j \in 1..letter : args[optind].letters[j] \in flags'
        /\ args[optind].kind = "keys" /\ ~Operand(args, optind)
    <3>1. \A j \in 1..letter : j \in 1..(letter - 1) \/ j = letter
      BY <2>1
    <3> QED  BY <2>1, <2>5, <3>1 DEF AtKeys, Operand
  <2>7. CASE ~LastLetter
    <3>1. optind' = optind /\ letter' = letter + 1 /\ letter # Len(args[optind].letters)
      BY <1>2, <2>7, KeyTaken DEF LastLetter
    <3>2. (letter \in 1..(IF AtKeys THEN Len(args[optind].letters) ELSE 1))'
      BY <1>0, <2>1, <3>1 DEF AtKeys
    <3>3. (/\ \A k \in 1..(optind - 1) :
               /\ ~Operand(args, k)
               /\ args[k].kind = "keys" => Range(args[k].letters) \subseteq flags
           /\ AtKeys => \A j \in 1..(letter - 1) : args[optind].letters[j] \in flags
           /\ optind <= Len(args) => ~TakenAsCount(args, optind))'
      <4>1. letter' - 1 = letter
        BY <2>1, <3>1
      <4> QED  BY <1>0, <2>5, <2>6, <3>1, <4>1 DEF Operand, TakenAsCount
    <3> HIDE DEF key
    <3> QED  BY <1>0, <1>2, <2>3, <2>4, <3>2, <3>3 DEF KeysInv, Parsed
  <2>8. CASE LastLetter
    <3> DEFINE word == args[optind]
    <3>1. /\ letter' = 1
          /\ \/ /\ optind' = optind + 1
                /\ optind' <= Len(args) => ~TakenAsCount(args, optind')
             \/ /\ optind' = optind + 2 /\ optind + 1 <= Len(args)
                /\ args[optind + 1].kind = "count"
                /\ Last(args[optind].letters) \in {"l", "d"}
      BY <1>2, <2>8, KeyTaken
    <3>2. (letter \in 1..(IF AtKeys THEN Len(args[optind].letters) ELSE 1))'
      <4>1. AtKeys' => optind' \in 1..Len(args) /\ args[optind'].kind = "keys"
        BY <1>0, <2>1, <3>1 DEF AtKeys
      <4>2. AtKeys' => args[optind'].letters \in Seq(STRING) /\ args[optind'].letters # <<>>
        BY <4>1 DEF TypeInv, InputsInv, IsInput, IsWord
      <4>3. AtKeys' => Len(args[optind'].letters) \in Nat \ {0}
        BY <4>2
      <4> QED  BY <1>0, <3>1, <4>3
    <3>3. Range(word.letters) \subseteq flags'
      <4>1. letter = Len(word.letters)
        BY <2>8 DEF LastLetter
      <4> QED  BY <4>1, <2>1, <2>6 DEF Range
    <3>4. /\ optind' = optind + 2 => ~Operand(args, optind + 1) /\ args[optind + 1].kind # "keys"
          /\ optind' <= Len(args) => ~TakenAsCount(args, optind')
      <4>1. (optind + 1) - 1 = optind /\ optind + 1 > 1 /\ (optind + 2) - 1 = optind + 1
            /\ optind + 1 # optind + 2
        BY <2>1
      <4> QED  BY <3>1, <4>1, <2>6 DEF Operand, TakenAsCount
    <3>5. \A k \in 1..(optind' - 1) : k \in 1..(optind - 1) \/ k = optind
                                         \/ (optind' = optind + 2 /\ k = optind + 1)
      <4>1. (optind' = optind + 1 \/ optind' = optind + 2) /\ optind \in Nat
        BY <2>1, <3>1
      <4>2. CASE optind' = optind + 1
        BY <4>1, <4>2
      <4>3. CASE optind' = optind + 2
        <5>1. optind' - 1 = optind + 1
          BY <4>1, <4>3
        <5>2. \A k \in 1..(optind + 1) : k \in 1..(optind - 1) \/ k = optind \/ k = optind + 1
          BY <4>1
        <5> QED  BY <5>1, <5>2, <4>3
      <4> QED  BY <4>1, <4>2, <4>3
    <3>6. \A k \in 1..(optind' - 1) :
            /\ ~Operand(args, k)
            /\ args[k].kind = "keys" => Range(args[k].letters) \subseteq flags'
      BY <3>5, <3>4, <3>3, <2>5, <2>6
    <3>7. (/\ \A k \in 1..(optind - 1) :
               /\ ~Operand(args, k)
               /\ args[k].kind = "keys" => Range(args[k].letters) \subseteq flags
           /\ AtKeys => \A j \in 1..(letter - 1) : args[optind].letters[j] \in flags
           /\ optind <= Len(args) => ~TakenAsCount(args, optind))'
      BY <1>0, <3>1, <3>4, <3>6 DEF Operand, TakenAsCount
    <3> HIDE DEF key, word
    <3> QED  BY <1>0, <1>2, <2>3, <2>4, <3>2, <3>7 DEF KeysInv, Parsed
  <2> QED  BY <2>7, <2>8
<1> QED  BY <1>0, <1>1, <1>2

LEMMA EndOfKeysKeys ==
  ASSUME TypeInv, KeysInv, EndOfKeys
  PROVE  KeysInv' /\ FirstOperand' = optind'
<1>0. /\ UNCHANGED <<inputs, rest, optind, letter, N, I, file, cur, i1, out>> /\ args' = args
      /\ pc = "keys" /\ pc' = "main" /\ ~AtKeys /\ optind' = optind
      /\ flags' = IF optind > Len(args) THEN flags \union {"stdin"} ELSE flags
  BY DEF EndOfKeys, inputs
<1>1. /\ IsInput(args, disk, stdin) /\ Len(args) \in Nat /\ optind \in 1..(Len(args) + 1)
  BY DEF TypeInv, InputsInv, TypeOK, IsInput
<1>2. /\ \A k \in 1..(optind - 1) :
           /\ ~Operand(args, k)
           /\ args[k].kind = "keys" => Range(args[k].letters) \subseteq flags
      /\ optind <= Len(args) => args[optind].kind # "keys" /\ ~TakenAsCount(args, optind)
      /\ "stdin" \notin flags
  BY <1>0 DEF KeysInv, AtKeys
<1>3. FirstOperand = optind /\ \A k \in optind..Len(args) : Operand(args, k)
  BY <1>1, <1>2, OperandsFrom
<1>4. FirstOperand' = FirstOperand
  BY <1>0 DEF FirstOperand, Operand, TakenAsCount
<1>5. \A k \in 1..Len(args) :
        args[k].kind = "keys" => Range(args[k].letters) \subseteq flags'
  <2>1. \A k \in 1..Len(args) : k \in 1..(optind - 1) \/ k \in optind..Len(args)
    BY <1>1
  <2>2. flags \subseteq flags'
    BY <1>0
  <2> QED  BY <2>1, <2>2, <1>2, <1>3 DEF Operand
<1>6. (\A k \in FirstOperand..Len(args) : Operand(args, k))'
  BY <1>0, <1>3, <1>4 DEF Operand, TakenAsCount
<1>7. (FirstOperand \in 1..optind)' /\ ("stdin" \in flags <=> FirstOperand = Len(args) + 1)'
  BY <1>0, <1>1, <1>2, <1>3, <1>4
<1>8. (\A key \in DOMAIN Rival : ~(key \in flags /\ Rival[key] \in flags))'
  BY <1>0 DEF KeysInv, Rival
<1>9. (\A k \in 1..Len(args) :
        args[k].kind = "keys" => Range(args[k].letters) \subseteq flags)'
  BY <1>0, <1>5
<1>10. KeysInv'
  BY <1>0, <1>6, <1>7, <1>8, <1>9 DEF KeysInv, Parsed
<1> QED  BY <1>0, <1>3, <1>4, <1>10

LEMMA MainKeys ==
  ASSUME TypeInv, KeysInv,
         \/ CatFile \/ CatStdin \/ MainReturns \/ ScanWord \/ StdinEnds
         \/ SeekTail \/ FirstNumber \/ CopyByte \/ CopyEnds \/ Undefined
  PROVE  KeysInv' /\ (CountInv => CountInv')
<1>1. /\ UNCHANGED <<args, flags>> /\ N' = N /\ Parsed /\ Parsed' /\ pc # "exitKeys"
      /\ optind' \in {optind, optind + 1}
  <2>1. CASE CatFile
    BY <2>1 DEF CatFile, Parsed, inputs
  <2>2. CASE CatStdin \/ MainReturns \/ ScanWord \/ StdinEnds
    BY <2>2 DEF CatStdin, MainReturns, ScanWord, StdinEnds, Parsed, inputs
  <2>3. CASE SeekTail \/ FirstNumber \/ CopyByte \/ CopyEnds
    BY <2>3 DEF SeekTail, FirstNumber, CopyByte, CopyEnds, Parsed, inputs
  <2>4. CASE Undefined
    BY <2>4 DEF Undefined, Parsed, inputs
  <2> QED  BY <2>1, <2>2, <2>3, <2>4
<1>2. CountInv => CountInv'
  BY <1>1 DEF CountInv, CountGiven, CountIn, CountAt, CountKey, TakenAsCount, Parsed
<1> QED  BY <1>1, <1>2, KeysKept

-----------------------------------------------------------------------------
(* COUNT.                                                                   *)

\* How COUNT goes on with one word more.
LEMMA CountInStep ==
  ASSUME NEW n \in Nat \ {0}
  PROVE  /\ CountKey(n) => CountIn(n) = CountAt(n)
         /\ ~CountKey(n) => CountIn(n) = CountIn(n - 1)
<1> DEFINE S(m) == {k \in 1..m : CountKey(k)}
<1>1. ASSUME CountKey(n) PROVE CountIn(n) = CountAt(n)
  <2>1. n \in S(n) /\ \A k \in S(n) : k \in Nat /\ n >= k
    BY <1>1
  <2>2. Max(S(n)) = n
    <3>1. \A x \in S(n) : (\A y \in S(n) : x >= y) => x = n
      BY <2>1
    <3> HIDE DEF S
    <3> QED  BY <2>1, <3>1 DEF Max
  <2> QED  BY <2>1, <2>2 DEF CountIn
<1>2. ASSUME ~CountKey(n) PROVE CountIn(n) = CountIn(n - 1)
  <2>1. S(n) = S(n - 1)
    <3>1. \A k : k \in 1..n <=> k \in 1..(n - 1) \/ k = n
      OBVIOUS
    <3> QED  BY <1>2, <3>1, Zenon
  <2> QED  BY <2>1, Zenon DEF CountIn
<1> QED  BY <1>1, <1>2

\* Words without keys give no COUNT.
LEMMA CountInAll ==
  ASSUME NEW m \in Nat, NEW n \in Nat, m <= n,
         \A k \in (m + 1)..n : ~CountKey(k)
  PROVE  CountIn(n) = CountIn(m)
<1>1. \A k : k \in 1..n <=> k \in 1..m \/ k \in (m + 1)..n
  OBVIOUS
<1>2. {k \in 1..n : CountKey(k)} = {k \in 1..m : CountKey(k)}
  BY <1>1, Zenon
<1> QED  BY <1>2, Zenon DEF CountIn

LEMMA InitCount == ASSUME Init PROVE CountInv
<1>1. optind = 1 /\ letter = 1 /\ N = Unset /\ pc = "keys"
  BY DEF Init
<1>2. CountIn(1 - 1) = Unset
  <2>1. {k \in 1..(1 - 1) : CountKey(k)} = {}
    OBVIOUS
  <2> QED  BY <2>1, Zenon DEF CountIn
<1>3. 1..(1 - 1) = {}
  OBVIOUS
<1> QED  BY <1>1, <1>2, <1>3 DEF CountInv, Parsed

\* -l and -d take COUNT from behind their cluster, or 10.
LEMMA ParseKeyCount ==
  ASSUME TypeInv, KeysInv, CountInv, ParseKey PROVE CountInv'
<1>0. args' = args /\ pc = "keys" /\ pc' \in {"keys", "exitKeys"}
  BY DEF ParseKey, inputs
<1>1. CASE pc' = "exitKeys"
  BY <1>0, <1>1 DEF CountInv, Parsed
<1>2. CASE pc' = "keys"
  <2> DEFINE word == args[optind].letters
             key == word[letter]
             taken(m) == \E j \in 1..m : word[j] \in {"l", "d"}
  <2>1. /\ AtKeys /\ args[optind].kind = "keys" /\ optind \in 1..Len(args) /\ Len(args) \in Nat
        /\ word \in Seq(STRING) /\ letter \in 1..Len(word) /\ optind \in Nat \ {0}
    BY <1>2, KeyTaken DEF AtKeys
  <2>2. /\ key \in {"l", "d"} => TakeCount
        /\ key \notin {"l", "d"} => optind' = OptindThen /\ N' = N
        /\ letter' = LetterThen
    BY <1>2 DEF ParseKey
  <2>3. N = IF taken(letter - 1) THEN 10 ELSE CountIn(optind - 1)
    BY <1>0, <2>1 DEF CountInv
  <2>4. taken(letter) <=> taken(letter - 1) \/ key \in {"l", "d"}
    <3>1. \A j : j \in 1..letter <=> j \in 1..(letter - 1) \/ j = letter
      BY <2>1
    <3> QED  BY <3>1
  <2>5. CASE ~LastLetter
    <3>1. OptindThen = optind /\ ~CountFollows /\ LetterThen = letter + 1 /\ (letter + 1) - 1 = letter
      BY <2>1, <2>5 DEF OptindThen, LetterThen, CountFollows
    <3>2. optind' = optind /\ letter' - 1 = letter
      BY <2>2, <3>1 DEF TakeCount
    <3>3. N' = IF taken(letter) THEN 10 ELSE CountIn(optind - 1)
      <4> HIDE DEF key, taken
      <4> QED  BY <2>2, <2>3, <2>4, <3>1 DEF TakeCount
    <3>4. AtKeys' /\ CountIn(optind - 1)' = CountIn(optind - 1)
      BY <1>0, <2>1, <3>2 DEF AtKeys, CountIn, CountAt, CountKey, TakenAsCount
    <3>5. (\E j \in 1..(letter - 1) : args[optind].letters[j] \in {"l", "d"})' <=> taken(letter)
      BY <1>0, <3>2
    <3> HIDE DEF taken
    <3> QED  BY <1>0, <1>2, <3>3, <3>4, <3>5 DEF CountInv, Parsed
  <2>6. CASE LastLetter
    <3>1. /\ OptindThen = optind + 1 /\ LetterThen = 1 /\ key = Last(word)
          /\ letter = Len(word) /\ (optind + 1) - 1 = optind
      BY <2>1, <2>6 DEF OptindThen, LetterThen, LastLetter, Last
    <3>2. CountKey(optind) <=> taken(letter)
      <4>1. DOMAIN word = 1..letter
        BY <2>1, <3>1
      <4>2. CountKey(optind) <=> Range(word) \intersect {"l", "d"} # {}
        BY <2>1, Zenon DEF CountKey
      <4> HIDE DEF word
      <4>3. Range(word) \intersect {"l", "d"} # {} <=> \E j \in 1..letter : word[j] \in {"l", "d"}
        BY <4>1, Zenon DEF Range
      <4> QED  BY <4>2, <4>3, Zenon
    <3>3. CountAt(optind) = IF CountFollows /\ key \in {"l", "d"}
                            THEN ToInt(args[optind + 1].value) ELSE 10
      <4>1. optind < Len(args) /\ TakenAsCount(args, optind + 1)
              <=> CountFollows /\ key \in {"l", "d"}
        BY <2>1, <3>1 DEF CountFollows, TakenAsCount
      <4> QED  BY <4>1, Zenon DEF CountAt
    <3>4. N' = CountIn(optind)
      <4>1. CASE key \in {"l", "d"}
        <5>1. CountIn(optind) = CountAt(optind)
          BY <2>1, <2>4, <3>2, <4>1, CountInStep
        <5>2. N' = IF CountFollows THEN ToInt(args[optind + 1].value) ELSE 10
          BY <2>2, <3>1, <4>1 DEF TakeCount
        <5> QED  BY <3>3, <4>1, <5>1, <5>2
      <4>2. CASE key \notin {"l", "d"} /\ taken(letter - 1)
        <5>1. CountIn(optind) = CountAt(optind)
          BY <2>1, <2>4, <3>2, <4>2, CountInStep
        <5> QED  BY <2>2, <2>3, <3>3, <4>2, <5>1
      <4>3. CASE key \notin {"l", "d"} /\ ~taken(letter - 1)
        <5>1. CountIn(optind) = CountIn(optind - 1)
          BY <2>1, <2>4, <3>2, <4>3, CountInStep
        <5> QED  BY <2>2, <2>3, <4>3, <5>1
      <4> QED  BY <4>1, <4>2, <4>3
    <3>5. letter' = 1 /\ 1..(1 - 1) = {}
      BY <2>2, <3>1
    <3>6. CountIn(optind' - 1) = CountIn(optind)
      <4>1. optind' = optind + 1 \/ (optind' = optind + 2 /\ args[optind + 1].kind = "count")
        BY <1>2, <2>6, KeyTaken
      <4>2. CASE optind' = optind + 1
        BY <3>1, <4>2
      <4>3. CASE optind' = optind + 2 /\ args[optind + 1].kind = "count"
        <5>1. ~CountKey(optind + 1)
          BY <4>3 DEF CountKey
        <5>2. optind + 1 \in Nat \ {0} /\ (optind + 2) - 1 = optind + 1
          BY <2>1
        <5>3. CountIn(optind + 1) = CountIn((optind + 1) - 1)
          BY <5>1, <5>2, CountInStep
        <5> QED  BY <3>1, <4>3, <5>2, <5>3
      <4> QED  BY <4>1, <4>2, <4>3
    <3>7. (CountIn(optind - 1))' = CountIn(optind' - 1)
      BY <1>0 DEF CountIn, CountAt, CountKey, TakenAsCount
    <3>8. (N = CountIn(optind - 1))' /\ (1..(letter - 1) = {})'
      BY <3>4, <3>5, <3>6, <3>7
    <3> HIDE DEF key, word, taken
    <3> QED  BY <1>0, <1>2, <3>8 DEF CountInv, Parsed
  <2> QED  BY <2>5, <2>6
<1> QED  BY <1>0, <1>1, <1>2

LEMMA EndOfKeysCount ==
  ASSUME TypeInv, KeysInv, CountInv, EndOfKeys PROVE CountInv'
<1>1. args' = args /\ N' = N /\ pc = "keys" /\ pc' = "main" /\ ~AtKeys /\ optind' = optind
  BY DEF EndOfKeys, inputs
<1>2. N = CountIn(optind - 1)
  BY <1>1 DEF CountInv
<1>3. KeysInv' /\ FirstOperand' = optind' /\ FirstOperand' = FirstOperand
  BY <1>1, EndOfKeysKeys DEF FirstOperand, Operand, TakenAsCount
<1>4. Len(args) \in Nat /\ optind - 1 \in Nat /\ optind - 1 <= Len(args)
      /\ (optind - 1) + 1 = optind
  BY DEF TypeInv, TypeOK, InputsInv, IsInput
<1>5. \A k \in optind..Len(args) : ~CountKey(k)
  <2>1. (\A k \in FirstOperand..Len(args) : Operand(args, k))'
    BY <1>1, <1>3 DEF KeysInv, Parsed
  <2>2. \A k \in optind..Len(args) : Operand(args, k)
    BY <1>1, <1>3, <2>1 DEF Operand, TakenAsCount
  <2> QED  BY <2>2 DEF Operand, CountKey
<1>6. CountIn(Len(args)) = CountIn(optind - 1)
  BY <1>4, <1>5, CountInAll
<1>7. CountGiven' = CountGiven
  BY <1>1 DEF CountGiven, CountIn, CountAt, CountKey, TakenAsCount
<1> QED  BY <1>1, <1>2, <1>6, <1>7 DEF CountInv, CountGiven, Parsed

-----------------------------------------------------------------------------
(* RivalsRefused.                                                           *)

LEMMA RivalsFollow ==
  ASSUME TypeInv, KeysInv PROVE RivalsRefused
<1> SUFFICES ASSUME NEW key \in DOMAIN Rival, Used(key), Used(Rival[key])
             PROVE  pc \in {"keys", "exitKeys"} /\ out = <<>>
  BY DEF RivalsRefused
<1>1. ~Parsed
  <2> SUFFICES ASSUME Parsed PROVE FALSE
    OBVIOUS
  <2>1. key \in flags /\ Rival[key] \in flags
    BY DEF KeysInv, Used
  <2> QED  BY <2>1 DEF KeysInv, Parsed
<1> QED  BY <1>1 DEF KeysInv, Parsed

-----------------------------------------------------------------------------
(* The words of standard input.                                             *)

LEMMA CountSame ==
  ASSUME NEW S, NEW j \in Int, NEW k \in Int, j <= k, S \subseteq Int,
         \A m \in (j + 1)..k : m \notin S
  PROVE  CountUpTo(S, j) = CountUpTo(S, k)
<1>1. \A m \in S : m <= j <=> m <= k
  <2> TAKE m \in S
  <2>1. m \in Int /\ m \notin (j + 1)..k
    OBVIOUS
  <2> QED  BY <2>1
<1>2. {m \in S : m <= j} = {m \in S : m <= k}
  BY <1>1, Zenon
<1> QED  BY <1>2 DEF CountUpTo

\* From j up to e there is one member of a set, at e.
LEMMA CountOne ==
  ASSUME NEW S, IsFiniteSet(S), S \subseteq Int, NEW j \in Int, NEW e \in S,
         j < e, \A m \in (j + 1)..e : m \in S => m = e
  PROVE  CountUpTo(S, e) = CountUpTo(S, j) + 1
<1>0. e \in Int /\ e - 1 \in Int /\ (e - 1) + 1 = e /\ j <= e - 1
  OBVIOUS
<1>1. CountUpTo(S, j) = CountUpTo(S, e - 1)
  <2>1. \A m \in (j + 1)..(e - 1) : m \in (j + 1)..e /\ m # e
    BY <1>0
  <2> QED  BY <2>1, <1>0, CountSame
<1>2. CountUpTo(S, (e - 1) + 1) = CountUpTo(S, e - 1) + (IF (e - 1) + 1 \in S THEN 1 ELSE 0)
  BY <1>0, CountStep
<1> QED  BY <1>0, <1>1, <1>2

LEMMA WordSets ==
  ASSUME NEW b \in Texts
  PROVE  /\ Len(b) \in Nat
         /\ WordStarts(b) \subseteq 1..Len(b) /\ WordEnds(b) \subseteq 1..Len(b)
         /\ IsFiniteSet(WordStarts(b)) /\ WordStarts(b) \subseteq Int
         /\ IsFiniteSet(WordEnds(b)) /\ WordEnds(b) \subseteq Int
         /\ Cardinality(WordEnds(b)) \in Nat
         /\ \A k : CountUpTo(WordStarts(b), k) \in Nat /\ CountUpTo(WordEnds(b), k) \in Nat
<1>1. Len(b) \in Nat
  BY DEF Texts
<1>2. WordStarts(b) \subseteq 1..Len(b) /\ WordEnds(b) \subseteq 1..Len(b)
  BY DEF WordStarts, WordEnds
<1>3. /\ IsFiniteSet(WordStarts(b)) /\ WordStarts(b) \subseteq Int
      /\ IsFiniteSet(WordEnds(b)) /\ WordEnds(b) \subseteq Int
  BY <1>1, <1>2, Positions
<1> QED  BY <1>1, <1>2, <1>3, CountType

\* Behind t, where no word goes on, the next word stands from s to e.
WordAt(b, t, s, e) ==
  /\ t \in 0..Len(b) /\ s \in (t + 1)..Len(b) /\ e \in s..Len(b)
  /\ t = 0 \/ b[t + 1] = NL
  /\ \A k \in (t + 1)..(s - 1) : b[k] = NL
  /\ \A k \in s..e : b[k] # NL
  /\ e = Len(b) \/ b[e + 1] = NL

\* The word that scanf finds behind n whole words is the next of the text.
LEMMA NextWord ==
  ASSUME NEW b \in Texts, NEW t, NEW s, NEW e, WordAt(b, t, s, e),
         CountUpTo(WordStarts(b), t) = CountUpTo(WordEnds(b), t)
  PROVE  /\ CountUpTo(WordStarts(b), e) = CountUpTo(WordEnds(b), t) + 1
         /\ CountUpTo(WordEnds(b), e) = CountUpTo(WordEnds(b), t) + 1
         /\ CountUpTo(WordEnds(b), t) + 1 \in 1..Cardinality(WordEnds(b))
         /\ Words(b)[CountUpTo(WordEnds(b), t) + 1] = SubSeq(b, s, e)
<1> USE DEF WordAt
<1> DEFINE n == CountUpTo(WordEnds(b), t)
<1>0. /\ Len(b) \in Nat /\ n \in Nat /\ s \in Int /\ e \in Int /\ t \in Int
      /\ CountUpTo(WordStarts(b), t) = n
  BY WordSets
<1>1. s \in WordStarts(b)
  <2>1. s = 1 \/ b[s - 1] = NL
    <3>1. CASE s = t + 1
      <4>1. s \in s..e
        BY <1>0
      <4> QED  BY <3>1, <4>1, <1>0
    <3>2. CASE s # t + 1
      <4>1. s - 1 \in (t + 1)..(s - 1)
        BY <3>2, <1>0
      <4> QED  BY <4>1
    <3> QED  BY <3>1, <3>2
  <2>2. s \in s..e /\ s \in 1..Len(b)
    BY <1>0
  <2> QED  BY <2>1, <2>2 DEF WordStarts
<1>2. e \in WordEnds(b)
  <2>1. e \in s..e /\ e \in 1..Len(b)
    BY <1>0
  <2> QED  BY <2>1 DEF WordEnds
<1>3. \A m \in (t + 1)..e : m \in WordStarts(b) => m = s
  <2> SUFFICES ASSUME NEW m \in (t + 1)..e, m # s PROVE m \notin WordStarts(b)
    OBVIOUS
  <2>1. CASE m < s
    <3>1. m \in (t + 1)..(s - 1)
      BY <2>1, <1>0
    <3> QED  BY <3>1 DEF WordStarts
  <2>2. CASE m > s
    <3>1. m - 1 \in s..e /\ m # 1
      BY <2>2, <1>0
    <3> QED  BY <3>1 DEF WordStarts
  <2> QED  BY <2>1, <2>2, <1>0
<1>4. \A m \in (t + 1)..e : m \in WordEnds(b) => m = e
  <2> SUFFICES ASSUME NEW m \in (t + 1)..e, m # e PROVE m \notin WordEnds(b)
    OBVIOUS
  <2>1. CASE m < s
    <3>1. m \in (t + 1)..(s - 1)
      BY <2>1, <1>0
    <3> QED  BY <3>1 DEF WordEnds
  <2>2. CASE m >= s
    <3>1. m + 1 \in s..e /\ m # Len(b)
      BY <2>2, <1>0
    <3> QED  BY <3>1 DEF WordEnds
  <2> QED  BY <2>1, <2>2, <1>0
<1>5. CountUpTo(WordStarts(b), s) = n + 1 /\ CountUpTo(WordStarts(b), e) = n + 1
  <2>1. t < s /\ s <= e
    BY <1>0
  <2>2. IsFiniteSet(WordStarts(b)) /\ WordStarts(b) \subseteq Int
    BY WordSets
  <2> DEFINE S == WordStarts(b)
  <2> HIDE DEF S
  <2>3. IsFiniteSet(S) /\ S \subseteq Int /\ s \in S /\ \A m \in (t + 1)..e : m \in S => m = s
    BY <2>2, <1>1, <1>3 DEF S
  <2>4. /\ t \in Int /\ s \in S /\ e \in Int /\ t < s /\ s <= e
        /\ \A m \in (t + 1)..e : m \in S => m = s
    BY <2>1, <2>3, <1>0
  <2>5. CountUpTo(S, s) = CountUpTo(S, t) + 1 /\ CountUpTo(S, e) = CountUpTo(S, t) + 1
    <3>1. \A m \in (t + 1)..s : m \in S => m = s
      BY <2>4
    <3>2. CountUpTo(S, s) = CountUpTo(S, t) + 1
      BY ONLY <3>1, <2>3, <2>4, CountOne
    <3>3. \A m \in (s + 1)..e : m \notin S
      BY <2>4
    <3>4. CountUpTo(S, s) = CountUpTo(S, e)
      BY <3>3, <2>3, <2>4, CountSame
    <3> QED  BY <3>2, <3>4
  <2> QED  BY <2>5 DEF S
<1>6. CountUpTo(WordEnds(b), e) = n + 1
  <2>1. t < e /\ e <= e
    BY <1>0
  <2>2. IsFiniteSet(WordEnds(b)) /\ WordEnds(b) \subseteq Int
    BY WordSets
  <2> DEFINE S == WordEnds(b)
  <2> HIDE DEF S
  <2>3. IsFiniteSet(S) /\ S \subseteq Int /\ e \in S /\ \A m \in (t + 1)..e : m \in S => m = e
    BY <2>2, <1>2, <1>4 DEF S
  <2>4. CountUpTo(S, e) = CountUpTo(S, t) + 1
    BY <2>1, <2>3, <1>0, CountOne
  <2> QED  BY <2>4 DEF S
<1>7. n + 1 \in 1..Cardinality(WordEnds(b))
  <2>1. CountUpTo(WordEnds(b), Len(b)) = Cardinality(WordEnds(b))
    <3>1. Len(b) \in Int /\ Len(b) >= Len(b)
      BY <1>0
    <3> QED  BY <3>1, WordSets, CountEnds
  <2>2. e = Len(b) \/ CountUpTo(WordEnds(b), e) <= CountUpTo(WordEnds(b), Len(b))
    <3>1. e < Len(b) => CountUpTo(WordEnds(b), e) <= CountUpTo(WordEnds(b), Len(b))
      <4>1. IsFiniteSet(WordEnds(b)) /\ WordEnds(b) \subseteq Int
        BY WordSets
      <4>2. e \in Int /\ Len(b) \in Int
        BY <1>0
      <4> QED  BY <4>1, <4>2, CountGrows
    <3> QED  BY <3>1, <1>0
  <2>3. n + 1 <= Cardinality(WordEnds(b)) /\ Cardinality(WordEnds(b)) \in Nat
    BY <2>1, <2>2, <1>0, <1>6, WordSets
  <2> QED  BY <2>3, <1>0
<1>8. Nth(WordStarts(b), n + 1) = s /\ Nth(WordEnds(b), n + 1) = e
  BY <1>1, <1>2, <1>5, <1>6, WordSets, NthIs
<1> QED  BY <1>5, <1>6, <1>7, <1>8 DEF Words

\* Every word that ends has begun: Inside says that one goes on behind k.
Inside(b, k) == k \in 1..Len(b) /\ b[k] # NL /\ k \notin WordEnds(b)

LEMMA StartsAndEnds ==
  ASSUME NEW b \in Texts
  PROVE  Cardinality(WordStarts(b)) = Cardinality(WordEnds(b))
<1> DEFINE WS == WordStarts(b)
           WE == WordEnds(b)
           S == {k \in Nat : k <= Len(b) =>
                   CountUpTo(WS, k) = CountUpTo(WE, k) + (IF Inside(b, k) THEN 1 ELSE 0)}
<1>0. /\ Len(b) \in Nat /\ \A k : CountUpTo(WS, k) \in Nat /\ CountUpTo(WE, k) \in Nat
      /\ IsFiniteSet(WS) /\ WS \subseteq Int /\ IsFiniteSet(WE) /\ WE \subseteq Int
      /\ WS \subseteq 1..Len(b) /\ WE \subseteq 1..Len(b)
  BY WordSets
<1>a. ASSUME NEW k \in Nat, k + 1 \in 1..Len(b)
      PROVE  /\ k + 1 \in WS <=> b[k + 1] # NL /\ ~Inside(b, k)
             /\ k + 1 \in WE <=> b[k + 1] # NL /\ ~Inside(b, k + 1)
             /\ Inside(b, k) => b[k + 1] # NL
  <2>1. (k + 1) - 1 = k /\ (k + 1 = 1 <=> k = 0) /\ (k # 0 => k \in 1..Len(b) /\ k # Len(b))
        /\ (k \in 1..Len(b) => k # 0)
    BY <1>a, <1>0
  <2>2. k + 1 \in WS <=> b[k + 1] # NL /\ (k = 0 \/ b[k] = NL)
    BY <2>1, <1>a DEF WordStarts
  <2>3. k # 0 => (k \in WE <=> b[k] # NL /\ b[k + 1] = NL)
    BY <2>1 DEF WordEnds
  <2>4. k + 1 \in WE => b[k + 1] # NL
    BY DEF WordEnds
  <2> HIDE DEF WS, WE
  <2> QED  BY <2>1, <2>2, <2>3, <2>4, <1>a DEF Inside, WE
<1> HIDE DEF WS, WE
<1>1. 0 \in S
  <2>1. ~Inside(b, 0)
    BY DEF Inside
  <2>2. CountUpTo(WS, 0) = 0 /\ CountUpTo(WE, 0) = 0
    BY <1>0, CountEnds
  <2> QED  BY <2>1, <2>2
<1>2. ASSUME NEW k \in Nat, k \in S PROVE k + 1 \in S
  <2> SUFFICES ASSUME k + 1 <= Len(b)
               PROVE  CountUpTo(WS, k + 1) = CountUpTo(WE, k + 1)
                                               + (IF Inside(b, k + 1) THEN 1 ELSE 0)
    OBVIOUS
  <2>1. k + 1 \in 1..Len(b) /\ k <= Len(b) /\ k \in Int
    BY <1>0
  <2>2. /\ CountUpTo(WS, k + 1) = CountUpTo(WS, k) + (IF k + 1 \in WS THEN 1 ELSE 0)
        /\ CountUpTo(WE, k + 1) = CountUpTo(WE, k) + (IF k + 1 \in WE THEN 1 ELSE 0)
    BY <2>1, <1>0, CountStep
  <2>3. CountUpTo(WS, k) = CountUpTo(WE, k) + (IF Inside(b, k) THEN 1 ELSE 0)
    BY <2>1, <1>2
  <2>4. /\ k + 1 \in WS <=> b[k + 1] # NL /\ ~Inside(b, k)
        /\ k + 1 \in WE <=> b[k + 1] # NL /\ ~Inside(b, k + 1)
        /\ Inside(b, k) => b[k + 1] # NL
        /\ Inside(b, k + 1) => b[k + 1] # NL
    BY <2>1, <1>a DEF Inside
  <2>5. CountUpTo(WS, k) \in Nat /\ CountUpTo(WE, k) \in Nat
    BY <1>0
  <2> QED  BY <2>2, <2>3, <2>4, <2>5
<1>3. Len(b) \in S
  <2> HIDE DEF S
  <2> QED  BY <1>0, <1>1, <1>2, NumbersReached
<1>4. ~Inside(b, Len(b))
  BY DEF Inside, WordEnds
<1>5. CountUpTo(WS, Len(b)) = CountUpTo(WE, Len(b))
  BY <1>3, <1>4, <1>0
<1>6. CountUpTo(WS, Len(b)) = Cardinality(WS) /\ CountUpTo(WE, Len(b)) = Cardinality(WE)
  <2>1. Len(b) \in Int /\ Len(b) >= Len(b)
    BY <1>0
  <2> QED  BY <2>1, <1>0, CountEnds
<1> QED  BY <1>5, <1>6 DEF WS, WE

LEMMA WordsType ==
  ASSUME NEW b \in Texts
  PROVE  Words(b) \in Seq(Texts) /\ Len(Words(b)) = Cardinality(WordEnds(b))
<1> DEFINE n == Cardinality(WordEnds(b))
<1>1. n \in Nat /\ Len(b) \in Nat
  BY WordSets
<1>2. ASSUME NEW k \in 1..n
      PROVE  SubSeq(b, Nth(WordStarts(b), k), Nth(WordEnds(b), k)) \in Texts
  <2>1. k \in 1..Cardinality(WordStarts(b)) /\ k \in 1..Cardinality(WordEnds(b))
    BY StartsAndEnds
  <2>2. Nth(WordStarts(b), k) \in WordStarts(b) /\ Nth(WordEnds(b), k) \in WordEnds(b)
    BY <2>1, WordSets, NthIn
  <2>3. Nth(WordStarts(b), k) \in 1..Len(b) /\ Nth(WordEnds(b), k) \in 1..Len(b)
    BY <2>2, WordSets
  <2> QED  BY <2>3, <1>1, SliceType DEF Texts
<1>3. Words(b) = [k \in 1..n |-> SubSeq(b, Nth(WordStarts(b), k), Nth(WordEnds(b), k))]
  BY DEF Words
<1> HIDE DEF n
<1>4. Len(Words(b)) = n /\ Words(b) \in Seq(Texts)
  BY <1>1, <1>2, <1>3
<1> QED  BY <1>4 DEF n

LEMMA PrefixGrows ==
  ASSUME NEW T, NEW s \in Seq(T), NEW k \in Nat, k + 1 \in 1..Len(s)
  PROVE  /\ SubSeq(s, 1, k) \in Seq(T) /\ Len(SubSeq(s, 1, k)) = k
         /\ s[k + 1] \in T
         /\ SubSeq(s, 1, k + 1) = Append(SubSeq(s, 1, k), s[k + 1])
<1>0. Len(s) \in Nat /\ k \in Int /\ k + 1 \in Int /\ k <= Len(s) /\ k + 1 <= Len(s)
      /\ 1 \in Int /\ 1 >= 1 /\ k - 1 + 1 = k /\ (k + 1) - 1 + 1 = k + 1 /\ s[k + 1] \in T
      /\ 1 <= k + 1 /\ ~(1 <= k) => k = 0
  OBVIOUS
<1>1. /\ SubSeq(s, 1, k) \in Seq(T)
      /\ Len(SubSeq(s, 1, k)) = IF 1 <= k THEN k - 1 + 1 ELSE 0
      /\ \A i \in 1..(k - 1 + 1) : SubSeq(s, 1, k)[i] = s[1 + i - 1]
  BY <1>0, SliceType
<1>2. /\ SubSeq(s, 1, k + 1) \in Seq(T)
      /\ Len(SubSeq(s, 1, k + 1)) = IF 1 <= k + 1 THEN (k + 1) - 1 + 1 ELSE 0
      /\ \A i \in 1..((k + 1) - 1 + 1) : SubSeq(s, 1, k + 1)[i] = s[1 + i - 1]
  BY <1>0, SliceType
<1> DEFINE u == SubSeq(s, 1, k)
           v == SubSeq(s, 1, k + 1)
<1>3. /\ u \in Seq(T) /\ Len(u) = k /\ v \in Seq(T) /\ Len(v) = k + 1
      /\ \A i \in 1..k : u[i] = s[i]
      /\ \A i \in 1..(k + 1) : v[i] = s[i]
  <2>1. \A i \in Int : 1 + i - 1 = i
    OBVIOUS
  <2> QED  BY <1>0, <1>1, <1>2, <2>1
<1> HIDE DEF u, v
<1>4. v = Append(u, s[k + 1])
  <2>1. /\ Append(u, s[k + 1]) \in Seq(T) /\ Len(Append(u, s[k + 1])) = k + 1
        /\ \A i \in 1..k : Append(u, s[k + 1])[i] = u[i]
        /\ Append(u, s[k + 1])[k + 1] = s[k + 1]
    BY <1>0, <1>3, AppendProperties
  <2>2. \A i \in 1..(k + 1) : i \in 1..k \/ i = k + 1
    OBVIOUS
  <2>3. \A i \in 1..(k + 1) : v[i] = Append(u, s[k + 1])[i]
    BY <1>3, <2>1, <2>2
  <2>4. v \in Seq(T) /\ Len(v) = k + 1
    BY <1>3
  <2> DEFINE w == Append(u, s[k + 1])
  <2>5. w \in Seq(T) /\ Len(v) = Len(w) /\ \A i \in 1..Len(v) : v[i] = w[i]
    BY <2>1, <2>3, <2>4
  <2> HIDE DEF w
  <2>6. v = w
    BY <2>4, <2>5, SeqEqual
  <2> QED  BY <2>6 DEF w
<1>5. s[k + 1] \in T
  BY <1>0
<1>6. u \in Seq(T) /\ Len(u) = k
  BY <1>3
<1> QED  BY <1>4, <1>5, <1>6 DEF u, v

\* How a word is printed as the k-th.
Item(keys, word, k) ==
  (IF keys \intersect {"n", "b"} # {} THEN <<ToString(k)>> ELSE <<>>)
    \o word \o (IF "e" \in keys THEN <<"$", NL>> ELSE <<NL>>)
Items(keys, words) == [k \in 1..Len(words) |-> Item(keys, words[k], k)]

LEMMA ItemType ==
  ASSUME NEW keys, NEW word \in Texts, NEW k \in Nat
  PROVE  Item(keys, word, k) \in Entries
<1>1. ToString(k) \in Tokens /\ "$" \in Tokens /\ NL \in Tokens /\ word \in Entries
  BY TextEntries DEF Tokens, Byte
<1>2. /\ IF keys \intersect {"n", "b"} # {} THEN <<ToString(k)>> \in Entries ELSE <<>> \in Entries
      /\ IF "e" \in keys THEN <<"$", NL>> \in Entries ELSE <<NL>> \in Entries
  <2> HIDE DEF Tokens
  <2> QED  BY <1>1 DEF Entries
<1> DEFINE left == IF keys \intersect {"n", "b"} # {} THEN <<ToString(k)>> ELSE <<>>
           right == IF "e" \in keys THEN <<"$", NL>> ELSE <<NL>>
<1>3. left \in Seq(Tokens) /\ right \in Seq(Tokens)
  BY <1>2 DEF Entries
<1> HIDE DEF left, right
<1>4. (left \o word) \o right \in Seq(Tokens)
  BY <1>1, <1>3 DEF Entries
<1> QED  BY <1>4 DEF Item, left, right, Entries

LEMMA ListedAppend ==
  ASSUME NEW keys, NEW words \in Seq(Texts), NEW word \in Texts
  PROVE  /\ Listed(keys, words) \in Entries
         /\ Listed(keys, Append(words, word))
              = Listed(keys, words) \o Item(keys, word, Len(words) + 1)
<1> DEFINE n == Len(words)
           more == Append(words, word)
           last == Item(keys, word, n + 1)
<1>1. /\ n \in Nat /\ Len(more) = n + 1 /\ more[n + 1] = word /\ more \in Seq(Texts)
      /\ \A k \in 1..n : more[k] = words[k]
  OBVIOUS
<1>2. ASSUME NEW ws \in Seq(Texts)
      PROVE  /\ Items(keys, ws) \in Seq(Entries) /\ Len(Items(keys, ws)) = Len(ws)
             /\ Listed(keys, ws) = FlattenSeq(Items(keys, ws))
             /\ \A k \in 1..Len(ws) : Items(keys, ws)[k] = Item(keys, ws[k], k)
  <2>1. Len(ws) \in Nat /\ \A k \in 1..Len(ws) : Item(keys, ws[k], k) \in Entries
    BY ItemType
  <2>2. Items(keys, ws) = [k \in 1..Len(ws) |-> Item(keys, ws[k], k)]
    BY DEF Items
  <2>3. /\ Items(keys, ws) \in Seq(Entries) /\ Len(Items(keys, ws)) = Len(ws)
        /\ \A k \in 1..Len(ws) : Items(keys, ws)[k] = Item(keys, ws[k], k)
    BY <2>1, <2>2
  <2>4. Listed(keys, ws) = FlattenSeq(Items(keys, ws))
    BY Zenon DEF Listed, Items, Item
  <2> QED  BY <2>3, <2>4
<1>3. last \in Entries
  BY <1>1, ItemType
<1> HIDE DEF last, more
<1>4. Items(keys, more) = Append(Items(keys, words), last)
  <2> DEFINE u == Items(keys, words)
             v == Items(keys, more)
  <2>1. /\ u \in Seq(Entries) /\ v \in Seq(Entries) /\ Len(u) = n /\ Len(v) = n + 1
        /\ \A k \in 1..n : u[k] = Item(keys, words[k], k)
        /\ \A k \in 1..(n + 1) : v[k] = Item(keys, more[k], k)
    BY <1>1, <1>2
  <2> HIDE DEF u, v, n
  <2>2. /\ Append(u, last) \in Seq(Entries) /\ Len(Append(u, last)) = n + 1
        /\ \A k \in 1..n : Append(u, last)[k] = u[k]
        /\ Append(u, last)[n + 1] = last
    BY <1>3, <2>1, AppendProperties
  <2>3. \A k \in 1..(n + 1) : k \in 1..n \/ k = n + 1
    BY <1>1
  <2>4. \A k \in 1..(n + 1) : v[k] = Append(u, last)[k]
    BY <1>1, <2>1, <2>2, <2>3 DEF last
  <2> QED  BY <2>1, <2>2, <2>4, SeqEqual DEF u, v
<1>5. Items(keys, words) \in Seq(Seq(Tokens)) /\ last \in Seq(Tokens)
  BY <1>2, <1>3 DEF Entries
<1>6. FlattenSeq(Append(Items(keys, words), last)) = FlattenSeq(Items(keys, words)) \o last
  BY <1>5, FlattenAppend
<1>7. FlattenSeq(Items(keys, words)) \in Entries
  BY <1>5, FlattenType DEF Entries
<1> QED  BY <1>1, <1>2, <1>4, <1>6, <1>7 DEF last, more

LEMMA ListedNone ==
  ASSUME NEW keys PROVE Listed(keys, <<>>) = <<>>
<1>1. Items(keys, <<>>) = <<>>
  BY DEF Items
<1>2. Listed(keys, <<>>) = FlattenSeq(Items(keys, <<>>))
  BY Zenon DEF Listed, Items, Item
<1> QED  BY <1>1, <1>2, FlattenEmpty

LEMMA InitStdin == ASSUME Init PROVE StdinInv
BY DEF Init, StdinInv

\* Files are only read if there are some.
LEMMA FilesNotStdin ==
  ASSUME TypeInv, KeysInv, pc # "exitKeys", pc # "keys", optind <= Len(args) \/ InText
  PROVE  "stdin" \notin flags
<1>1. /\ FirstOperand \in 1..optind /\ optind \in 1..(Len(args) + 1) /\ Len(args) \in Nat
      /\ "stdin" \in flags <=> FirstOperand = Len(args) + 1
      /\ InText => optind > FirstOperand
  BY DEF KeysInv, TypeInv, TypeOK, InputsInv, IsInput, Parsed
<1> QED  BY <1>1

LEMMA OtherStdin ==
  ASSUME TypeInv, KeysInv, StdinInv, ~ScanWord, ~CatStdin, ~StdinEnds, Next
  PROVE  StdinInv'
<1>1. CASE ParseKey
  BY <1>1 DEF ParseKey, StdinInv, inputs
<1>2. CASE EndOfKeys
  BY <1>2 DEF EndOfKeys, StdinInv, inputs, KeysInv, Parsed
<1>3. CASE CatFile
  <2>1. optind \in 1..Len(args) /\ pc = "main"
    BY <1>3 DEF CatFile, TypeInv, TypeOK, InputsInv, IsInput
  <2>2. "stdin" \notin flags
    BY <2>1, FilesNotStdin
  <2>3. /\ UNCHANGED <<stdin, rest, flags>> /\ pc' # "stdin" /\ pc' # "exit0"
    BY <1>3, <2>1 DEF CatFile, inputs
  <2> QED  BY <2>1, <2>2, <2>3 DEF StdinInv
<1>4. CASE MainReturns
  BY <1>4 DEF MainReturns, StdinInv, inputs
<1>5. CASE SeekTail \/ FirstNumber
  BY <1>5 DEF SeekTail, FirstNumber, StdinInv, inputs
<1>6. CASE CopyByte \/ CopyEnds
  <2>1. /\ UNCHANGED <<stdin, rest, flags>> /\ pc = "copy" /\ pc' \in {"copy", "main"}
    BY <1>6 DEF CopyByte, CopyEnds, inputs
  <2>2. "stdin" \notin flags
    BY <2>1, FilesNotStdin DEF InText
  <2> QED  BY <2>1, <2>2 DEF StdinInv
<1>7. CASE Undefined
  BY <1>7 DEF Undefined, StdinInv
<1> QED  BY <1>1, <1>2, <1>3, <1>4, <1>5, <1>6, <1>7 DEF Next

LEMMA CatStdinStdin ==
  ASSUME TypeInv, KeysInv, StdinInv, CatStdin
  PROVE  StdinInv'
<1>1. /\ UNCHANGED <<stdin, rest, flags, I, N>> /\ out' = out \o Help /\ i1' = 0
      /\ pc = "main" /\ pc' = "stdin" /\ "stdin" \in flags
  BY DEF CatStdin, inputs
<1>2. rest = stdin /\ out = <<>> /\ I = 0 /\ stdin \in Texts /\ N \in Int
  BY <1>1 DEF StdinInv, TypeInv, InputsInv, IsInput, Texts, TypeOK
<1>3. Len(stdin) \in Nat /\ Taken' = 0
  BY <1>1, <1>2 DEF Taken, Texts
<1>4. SubSeq(stdin, 1, Len(stdin)) = stdin
  BY <1>2, SubSeqFull DEF Texts
<1>5. CountUpTo(WordStarts(stdin), 0) = 0 /\ CountUpTo(WordEnds(stdin), 0) = 0
  BY <1>2, WordSets, CountEnds
<1>6. Help \in Entries /\ Listed(flags, SubSeq(Words(stdin), 1, 0)) = <<>>
  <2>1. SubSeq(Words(stdin), 1, 0) = <<>>
    BY SubSeqEmpty
  <2>2. Help \in Entries
    BY TextEntries, EmptySeq DEF Help, Entries
  <2> QED  BY <2>1, <2>2, ListedNone
<1>7. out' = Help \o Listed(flags, SubSeq(Words(stdin), 1, 0))
  BY <1>1, <1>2, <1>6 DEF Entries
<1>8. Help' = Help
  BY <1>1 DEF Help
<1>9. (/\ rest = SubSeq(stdin, Taken + 1, Len(stdin))
       /\ i1 = CountUpTo(WordStarts(stdin), Taken)
       /\ i1 = CountUpTo(WordEnds(stdin), Taken)
       /\ out = Help \o Listed(flags, SubSeq(Words(stdin), 1, i1)))'
  <2>1. Taken' + 1 = 1
    BY <1>3
  <2> QED  BY <2>1, <1>1, <1>2, <1>3, <1>4, <1>5, <1>7, <1>8
<1>10. (N < 0 \/ i1 <= N)' /\ (I = IF flags \intersect {"n", "b"} # {} THEN i1 ELSE 0)'
  BY <1>1, <1>2
<1> QED  BY <1>1, <1>3, <1>9, <1>10 DEF StdinInv

LEMMA ScanWordStdin ==
  ASSUME TypeInv, KeysInv, StdinInv, ScanWord
  PROVE  StdinInv'
<1> DEFINE first == Taken + Start
           last == Taken + WordEnd
           word == SubSeq(rest, Start, WordEnd)
           W == Words(stdin)
<1>1. /\ UNCHANGED <<stdin, flags, N, pc>> /\ pc = "stdin" /\ i1 # N /\ Start # 0
      /\ rest' = SubSeq(rest, WordEnd + 1, Len(rest)) /\ i1' = i1 + 1
  BY DEF ScanWord, inputs
<1>2. /\ "stdin" \in flags
      /\ Taken = 0 \/ rest = <<>> \/ rest[1] = NL
      /\ i1 = CountUpTo(WordStarts(stdin), Taken)
      /\ i1 = CountUpTo(WordEnds(stdin), Taken)
      /\ N < 0 \/ i1 <= N
      /\ I = IF flags \intersect {"n", "b"} # {} THEN i1 ELSE 0
      /\ out = Help \o Listed(flags, SubSeq(W, 1, i1))
  BY <1>1 DEF StdinInv
<1>3. /\ stdin \in Texts /\ rest \in Texts /\ Taken \in 0..Len(stdin)
      /\ Len(rest) = Len(stdin) - Taken /\ Len(stdin) \in Nat /\ Behind(stdin, Taken, rest)
      /\ \A k \in 1..Len(rest) : rest[k] = stdin[Taken + k]
  <2>1. InputsInv /\ StdinInv /\ pc = "stdin"
    BY <1>1 DEF TypeInv
  <2>2. /\ stdin \in Texts /\ rest \in Texts /\ Taken \in 0..Len(stdin)
        /\ Len(rest) = Len(stdin) - Taken /\ Behind(stdin, Taken, rest)
        /\ \A k \in 1..Len(rest) : rest[k] = stdin[Taken + k]
    BY <2>1, RestType
  <2> QED  BY <2>1, <2>2 DEF Texts, StdinInv
<1>4. /\ Start \in 1..Len(rest) /\ rest[Start] # NL
      /\ \A k \in 1..(Start - 1) : rest[k] = NL
      /\ WordEnd \in Start..Len(rest)
      /\ \A k \in Start..WordEnd : rest[k] # NL
      /\ WordEnd = Len(rest) \/ rest[WordEnd + 1] = NL
  BY <1>1, <1>3, FirstWord
<1>5. i1 \in Nat /\ N \in Int
  BY DEF TypeInv, TypeOK
<1>6. /\ first \in (Taken + 1)..Len(stdin) /\ last \in first..Len(stdin)
      /\ WordAt(stdin, Taken, first, last) /\ last >= 1
  <2>1. first \in (Taken + 1)..Len(stdin) /\ last \in first..Len(stdin)
    BY <1>3, <1>4
  <2>2. Taken = 0 \/ stdin[Taken + 1] = NL
    <3>1. rest # <<>> /\ 1 \in 1..Len(rest)
      BY <1>3, <1>4
    <3> QED  BY <3>1, <1>2, <1>3
  <2>3. \A k \in (Taken + 1)..(first - 1) : stdin[k] = NL
    <3> TAKE k \in (Taken + 1)..(first - 1)
    <3>1. k - Taken \in 1..(Start - 1) /\ k - Taken \in 1..Len(rest) /\ Taken + (k - Taken) = k
      BY <1>3, <1>4
    <3> QED  BY <3>1, <1>3, <1>4
  <2>4. \A k \in first..last : stdin[k] # NL
    <3> TAKE k \in first..last
    <3>1. k - Taken \in Start..WordEnd /\ k - Taken \in 1..Len(rest) /\ Taken + (k - Taken) = k
      BY <1>3, <1>4
    <3> QED  BY <3>1, <1>3, <1>4
  <2>5. last = Len(stdin) \/ stdin[last + 1] = NL
    <3>1. CASE WordEnd = Len(rest)
      BY <3>1, <1>3
    <3>2. CASE WordEnd # Len(rest)
      <4>1. WordEnd + 1 \in 1..Len(rest) /\ Taken + (WordEnd + 1) = last + 1
        <5>1. Len(rest) \in Nat
          BY <1>3 DEF Texts
        <5>2. WordEnd \in Int /\ WordEnd < Len(rest) /\ WordEnd >= 1
          BY <5>1, <3>2, <1>4
        <5> QED  BY <5>1, <5>2, <1>3
      <4> QED  BY <4>1, <3>2, <1>3, <1>4
    <3> QED  BY <3>1, <3>2
  <2>6. last >= 1
    BY <1>3, <1>4
  <2> QED  BY <1>3, <2>1, <2>2, <2>3, <2>4, <2>5, <2>6 DEF WordAt
<1>7. word = SubSeq(stdin, first, last) /\ word \in Texts
  <2>1. Start \in Int /\ Start >= 1 /\ WordEnd \in Int /\ WordEnd <= Len(rest) /\ Taken \in Nat
    BY <1>3, <1>4
  <2>2. word = SubSeq(stdin, first, last)
    BY <2>1, <1>3, SubSlice
  <2>3. word \in Texts
    BY <2>1, <1>3, SliceType DEF Texts
  <2> QED  BY <2>2, <2>3
<1> HIDE DEF first, last
<1>8. /\ CountUpTo(WordStarts(stdin), last) = i1 + 1 /\ CountUpTo(WordEnds(stdin), last) = i1 + 1
      /\ i1 + 1 \in 1..Cardinality(WordEnds(stdin))
      /\ W[i1 + 1] = SubSeq(stdin, first, last)
  <2>1. i1 = CountUpTo(WordStarts(stdin), Taken) /\ i1 = CountUpTo(WordEnds(stdin), Taken)
    BY <1>2
  <2>2. stdin \in Texts /\ WordAt(stdin, Taken, first, last)
    BY <1>3, <1>6
  <2>3. CountUpTo(WordStarts(stdin), Taken) = CountUpTo(WordEnds(stdin), Taken)
    BY <2>1
  <2> DEFINE n == CountUpTo(WordEnds(stdin), Taken)
  <2>4. /\ CountUpTo(WordStarts(stdin), last) = n + 1 /\ CountUpTo(WordEnds(stdin), last) = n + 1
        /\ n + 1 \in 1..Cardinality(WordEnds(stdin))
        /\ Words(stdin)[n + 1] = SubSeq(stdin, first, last)
    BY <2>2, <2>3, NextWord
  <2> HIDE DEF n
  <2>5. i1 = n
    BY <2>1 DEF n
  <2> QED  BY <2>4, <2>5
<1>9. /\ Taken' = last /\ rest' = SubSeq(stdin, last + 1, Len(stdin))
      /\ Len(rest') = Len(stdin) - last
  <2> DEFINE f == WordEnd + 1
             m == Len(rest)
  <2>1. /\ m \in Int /\ f \in Int /\ f >= 1 /\ Taken \in Nat /\ m <= Len(rest)
        /\ Taken + f = last + 1 /\ Taken + m = Len(stdin)
        /\ (IF f <= m THEN m - f + 1 ELSE 0) = Len(stdin) - last
    <3>1. WordEnd \in Int /\ WordEnd >= 1 /\ WordEnd <= m /\ m \in Int /\ Taken \in Int
      BY <1>3, <1>4
    <3> QED  BY <3>1, <1>3 DEF last
  <2>2. SubSeq(rest, f, m) = SubSeq(stdin, Taken + f, Taken + m)
    <3>1. stdin \in Texts /\ rest \in Texts /\ Behind(stdin, Taken, rest)
      BY <1>3
    <3> HIDE DEF f, m
    <3>2. Taken \in Nat /\ f \in Int /\ m \in Int /\ f >= 1 /\ m <= Len(rest)
      BY <2>1
    <3> QED  BY <3>1, <3>2, SubSlice
  <2>3. Len(SubSeq(rest, f, m)) = IF f <= m THEN m - f + 1 ELSE 0
    BY <2>1, <1>3, SliceType DEF Texts
  <2>4. rest' = SubSeq(stdin, last + 1, Len(stdin)) /\ Len(rest') = Len(stdin) - last
    BY <2>1, <2>2, <2>3, <1>1
  <2>5. last \in Int
    BY <1>3, <1>4 DEF last
  <2> QED  BY <2>4, <2>5, <1>1, <1>3 DEF Taken
<1>10. (Taken = 0 \/ rest = <<>> \/ rest[1] = NL)'
  <2>1. last = Len(stdin) \/ stdin[last + 1] = NL
    BY <1>6 DEF WordAt
  <2>2. last \in 1..Len(stdin)
    BY <1>3, <1>4 DEF last
  <2>3. rest' \in Seq({"x", NL})
        /\ \A k \in 1..(Len(stdin) - (last + 1) + 1) : rest'[k] = stdin[(last + 1) + k - 1]
    <3>1. last + 1 \in Int /\ last + 1 >= 1 /\ Len(stdin) \in Int /\ Len(stdin) <= Len(stdin)
      BY <2>2, <1>3
    <3> QED  BY <3>1, <1>3, <1>9, SliceType DEF Texts
  <2>4. CASE last = Len(stdin)
    BY <2>3, <2>4, <1>3, <1>9
  <2>5. CASE last # Len(stdin)
    <3>1. 1 \in 1..(Len(stdin) - (last + 1) + 1) /\ (last + 1) + 1 - 1 = last + 1
      <4>1. last \in Int /\ last < Len(stdin) /\ Len(stdin) \in Int
        <5>1. Len(stdin) \in Nat
          BY <1>3
        <5> QED  BY <5>1, <2>2, <2>5
      <4> QED  BY <4>1
    <3> QED  BY <3>1, <2>1, <2>3, <2>5
  <2> QED  BY <2>4, <2>5
<1>11. (out = Help \o Listed(flags, SubSeq(Words(stdin), 1, i1)))'
       /\ (I = IF flags \intersect {"n", "b"} # {} THEN i1 ELSE 0)'
  <2> DEFINE numbered == flags \intersect {"n", "b"} # {}
             num == IF numbered THEN <<ToString(i1 + 1)>> ELSE <<>>
             ending == IF "e" \in flags THEN <<"$", NL>> ELSE <<NL>>
             L == Listed(flags, SubSeq(W, 1, i1))
  <2>1. /\ I' = IF numbered THEN I + 1 ELSE I
        /\ out' = out \o (IF numbered THEN <<ToString(I + 1)>> ELSE <<>>) \o word \o ending
    BY Zenon DEF ScanWord, word, ending
  <2>2. I = (IF numbered THEN i1 ELSE 0) /\ out = Help \o L
    BY <1>2
  <2>3. Item(flags, word, i1 + 1) = num \o word \o ending
    BY Zenon DEF Item
  <2>4. /\ SubSeq(W, 1, i1) \in Seq(Texts) /\ Len(SubSeq(W, 1, i1)) = i1
        /\ SubSeq(W, 1, i1 + 1) = Append(SubSeq(W, 1, i1), word)
    <3>1. W \in Seq(Texts) /\ i1 + 1 \in 1..Len(W)
      BY <1>3, <1>8, WordsType
    <3>2. W[i1 + 1] = word
      BY <1>7, <1>8
    <3> HIDE DEF W, word
    <3> QED  BY <3>1, <3>2, <1>5, PrefixGrows
  <2>5. L \in Entries /\ Listed(flags, SubSeq(W, 1, i1 + 1)) = L \o Item(flags, word, i1 + 1)
    <3> HIDE DEF W, word
    <3> QED  BY <2>4, <1>7, ListedAppend
  <2>6. /\ Help \in Seq(Tokens) /\ L \in Seq(Tokens) /\ num \in Seq(Tokens)
        /\ word \in Seq(Tokens) /\ ending \in Seq(Tokens)
    <3>1. Help \in Seq(Tokens) /\ word \in Seq(Tokens)
      BY <1>7, TextEntries, EmptySeq DEF Help, Entries
    <3>2. ToString(i1 + 1) \in Tokens /\ "$" \in Tokens /\ NL \in Tokens
      BY <1>5 DEF Tokens, Byte
    <3>3. num \in Seq(Tokens)
      BY <3>2
    <3>4. ending \in Seq(Tokens)
      BY <3>2
    <3> QED  BY <3>1, <3>3, <3>4, <2>5 DEF Entries
  <2> HIDE DEF L, numbered, ending, word, W
  <2>7. out' = (((Help \o L) \o num) \o word) \o ending
        /\ I' = IF numbered THEN i1 + 1 ELSE 0
    <3>1. CASE numbered
      BY <3>1, <2>1, <2>2
    <3>2. CASE ~numbered
      BY <3>2, <2>1, <2>2
    <3> QED  BY <3>1, <3>2
  <2> HIDE DEF num
  <2>8. out' = Help \o (L \o ((num \o word) \o ending))
    <3>1. Help \in Entries /\ L \in Entries /\ num \in Entries /\ word \in Entries /\ ending \in Entries
      BY <2>6 DEF Entries
    <3>2. Join(Join(Join(Join(Help, L), num), word), ending) = Join(Help, Join(L, Join(Join(num, word), ending)))
      BY <3>1, JoinType, JoinMoves
    <3> QED  BY <3>2, <2>7 DEF Join
  <2>9. out' = Help \o Listed(flags, SubSeq(W, 1, i1 + 1))
    BY <2>3, <2>5, <2>8
  <2>10. Help' = Help
    BY <1>1 DEF Help
  <2> QED  BY <2>7, <2>9, <2>10, <1>1 DEF W, numbered
<1>12. (N < 0 \/ i1 <= N)'
  BY <1>1, <1>2, <1>5
<1>13. last >= 0
  BY <1>3, <1>4 DEF last
<1> QED  BY <1>1, <1>2, <1>8, <1>9, <1>10, <1>11, <1>12, <1>13 DEF StdinInv

LEMMA StdinEndsStdin ==
  ASSUME TypeInv, KeysInv, StdinInv, StdinEnds
  PROVE  StdinInv'
<1> DEFINE W == Words(stdin)
<1>1. /\ UNCHANGED <<stdin, flags, N, i1, out>> /\ pc = "stdin" /\ pc' = "exit0"
      /\ i1 = N \/ Start = 0
  BY DEF StdinEnds, inputs
<1>2. /\ i1 = CountUpTo(WordEnds(stdin), Taken)
      /\ N < 0 \/ i1 <= N
      /\ out = Help \o Listed(flags, SubSeq(W, 1, i1))
  BY <1>1 DEF StdinInv
<1>3. /\ stdin \in Texts /\ rest \in Texts /\ Taken \in 0..Len(stdin)
      /\ Len(rest) = Len(stdin) - Taken /\ Len(stdin) \in Nat
      /\ \A k \in 1..Len(rest) : rest[k] = stdin[Taken + k]
  <2>1. InputsInv /\ StdinInv /\ pc = "stdin"
    BY <1>1 DEF TypeInv
  <2>2. /\ stdin \in Texts /\ rest \in Texts /\ Taken \in 0..Len(stdin)
        /\ Len(rest) = Len(stdin) - Taken /\ Behind(stdin, Taken, rest)
        /\ \A k \in 1..Len(rest) : rest[k] = stdin[Taken + k]
    BY <2>1, RestType
  <2> QED  BY <2>1, <2>2 DEF Texts, StdinInv
<1>4. W \in Seq(Texts) /\ Len(W) = Cardinality(WordEnds(stdin)) /\ i1 \in Nat /\ N \in Int
  BY <1>3, WordsType DEF TypeInv, TypeOK
<1>5. CASE Start = 0
  <2>1. \A k \in (Taken + 1)..Len(stdin) : k \notin WordEnds(stdin)
    <3> TAKE k \in (Taken + 1)..Len(stdin)
    <3>1. k - Taken \in 1..Len(rest) /\ Taken + (k - Taken) = k
      BY <1>3
    <3>2. rest[k - Taken] = NL
      BY <3>1, <1>3, <1>5, FirstWord
    <3>3. stdin[k] = NL
      BY <3>1, <3>2, <1>3
    <3> QED  BY <3>3 DEF WordEnds
  <2>2. CountUpTo(WordEnds(stdin), Taken) = CountUpTo(WordEnds(stdin), Len(stdin))
    <3>1. Taken \in Int /\ Len(stdin) \in Int /\ Taken <= Len(stdin)
      BY <1>3
    <3> QED  BY <2>1, <3>1, <1>3, WordSets, CountSame
  <2>3. CountUpTo(WordEnds(stdin), Len(stdin)) = Cardinality(WordEnds(stdin))
    <3>1. Len(stdin) \in Int /\ Len(stdin) >= Len(stdin)
      BY <1>3
    <3> QED  BY <3>1, <1>3, WordSets, CountEnds
  <2>4. i1 = Len(W) /\ SubSeq(W, 1, i1) = W
    <3>1. i1 = Len(W)
      BY <2>2, <2>3, <1>2, <1>4
    <3> HIDE DEF W
    <3> QED  BY <3>1, <1>4, SubSeqFull
  <2> HIDE DEF W
  <2>5. N < 0 \/ FirstLines(W, N) = W
    BY <2>4, <1>2, <1>4 DEF FirstLines
  <2>6. out = Help \o Listed(flags, IF N < 0 THEN W ELSE FirstLines(W, N))
    BY <2>4, <2>5, <1>2
  <2>7. Help' = Help
    BY <1>1 DEF Help
  <2> QED  BY <2>6, <2>7, <1>1 DEF StdinInv, W
<1>6. CASE i1 = N
  <2>1. i1 <= Len(W)
    <3>1. Taken = Len(stdin) \/ CountUpTo(WordEnds(stdin), Taken) <= CountUpTo(WordEnds(stdin), Len(stdin))
      <4>1. Taken \in Int /\ Len(stdin) \in Int /\ Taken <= Len(stdin)
        BY <1>3
      <4>2. Taken < Len(stdin) => CountUpTo(WordEnds(stdin), Taken) <= CountUpTo(WordEnds(stdin), Len(stdin))
        BY <4>1, <1>3, WordSets, CountGrows
      <4> QED  BY <4>1, <4>2
    <3>2. CountUpTo(WordEnds(stdin), Len(stdin)) = Cardinality(WordEnds(stdin))
      <4>1. Len(stdin) \in Int /\ Len(stdin) >= Len(stdin)
        BY <1>3
      <4> QED  BY <4>1, <1>3, WordSets, CountEnds
    <3> HIDE DEF W
    <3> QED  BY <3>1, <3>2, <1>2, <1>4
  <2> HIDE DEF W
  <2>2. Len(W) \in Nat /\ N >= 0 /\ (IF N < Len(W) THEN N ELSE Len(W)) = i1
    BY <2>1, <1>4, <1>6
  <2>3. FirstLines(W, N) = SubSeq(W, 1, i1)
    BY <2>2 DEF FirstLines
  <2>4. out = Help \o Listed(flags, IF N < 0 THEN W ELSE FirstLines(W, N))
    BY <2>2, <2>3, <1>2, <1>4
  <2>5. Help' = Help
    BY <1>1 DEF Help
  <2> QED  BY <2>4, <2>5, <1>1 DEF StdinInv, W
<1> QED  BY <1>1, <1>5, <1>6

-----------------------------------------------------------------------------
(* The operands gone through.                                               *)

FilesPlace ==
  /\ Parsed => \A k \in FirstOperand..(optind - 1) :
       (Named(args[k]).kind = "directory" => pc = "exitFile" /\ k = optind - 1)
  /\ pc = "exit0" => optind = Len(args) + 1
  /\ pc = "exitFile" => optind > FirstOperand

LEMMA InitPlace == ASSUME Init PROVE FilesPlace
BY DEF Init, FilesPlace, Parsed

LEMMA PlaceKept ==
  ASSUME FilesPlace, UNCHANGED <<args, disk, optind>>, Parsed, Parsed',
         pc # "exitFile", pc' # "exitFile", pc' = "exit0" => optind = Len(args) + 1
  PROVE  FilesPlace'
<1>1. FirstOperand' = FirstOperand
  BY DEF FirstOperand, Operand, TakenAsCount
<1>2. \A k \in FirstOperand..(optind - 1) : Named(args[k]).kind # "directory"
  BY DEF FilesPlace
<1>3. (\A k \in FirstOperand..(optind - 1) : Named(args[k]).kind # "directory")'
  BY <1>1, <1>2 DEF Named
<1> QED  BY <1>3 DEF FilesPlace

LEMMA NextPlace ==
  ASSUME TypeInv, KeysInv, StdinInv, FilesPlace, Next
  PROVE  FilesPlace'
<1>0. IsInput(args, disk, stdin) /\ Len(args) \in Nat /\ optind \in 1..(Len(args) + 1)
      /\ FirstOperand \in Nat \ {0}
  BY FirstOperandType DEF TypeInv, InputsInv, TypeOK, IsInput
<1>1. CASE ParseKey
  BY <1>1 DEF ParseKey, FilesPlace, Parsed
<1>2. CASE EndOfKeys
  <2>1. FirstOperand' = optind' /\ optind' = optind /\ pc' = "main"
    BY <1>2, EndOfKeysKeys DEF EndOfKeys
  <2>2. (\A k \in FirstOperand..(optind - 1) : FALSE)'
    BY <2>1, <1>0
  <2> QED  BY <2>1, <2>2 DEF FilesPlace
<1>3. CASE CatFile
  <2>1. optind \in 1..Len(args) /\ pc = "main" /\ optind' = optind + 1
        /\ args' = args /\ disk' = disk
    BY <1>0, <1>3 DEF CatFile, inputs
  <2>2. Named(args[optind]).kind = "directory"
          => ~Skipped(Named(args[optind])) /\ ~Readable(Named(args[optind]))
    BY DEF Skipped, Readable
  <2>3. /\ pc' \in {"main", "exitFile", "seek", "number"}
        /\ Named(args[optind]).kind = "directory" => pc' = "exitFile"
    BY <1>3, <2>1, <2>2, Zenon DEF CatFile
  <2>4. FirstOperand' = FirstOperand
    BY <2>1 DEF FirstOperand, Operand, TakenAsCount
  <2>5. FirstOperand \in 1..optind
    BY <2>1 DEF KeysInv, Parsed
  <2>6. \A k \in FirstOperand..(optind - 1) : Named(args[k]).kind # "directory"
    BY <2>1 DEF FilesPlace, Parsed
  <2>7. \A k \in FirstOperand..((optind + 1) - 1) :
          (Named(args[k]).kind = "directory" => pc' = "exitFile" /\ k = (optind + 1) - 1)
    <3>1. (optind + 1) - 1 = optind /\ optind \notin FirstOperand..(optind - 1)
          /\ \A k \in FirstOperand..optind : k \in FirstOperand..(optind - 1) \/ k = optind
      BY <2>1, <2>5
    <3> QED  BY <3>1, <2>3, <2>6
  <2>8. (\A k \in FirstOperand..(optind - 1) :
          (Named(args[k]).kind = "directory" => pc = "exitFile" /\ k = optind - 1))'
    BY <2>1, <2>4, <2>7 DEF Named
  <2>9. optind' > FirstOperand'
    BY <2>1, <2>4, <2>5
  <2> QED  BY <2>3, <2>8, <2>9 DEF FilesPlace
<1>4. CASE CatStdin \/ ScanWord
  <2>1. /\ UNCHANGED <<args, disk, optind>> /\ pc \in {"main", "stdin"} /\ pc' = "stdin"
    BY <1>4 DEF CatStdin, ScanWord, inputs
  <2> QED  BY <2>1, PlaceKept DEF Parsed
<1>5. CASE MainReturns \/ StdinEnds
  <2>1. /\ UNCHANGED <<args, disk, optind>> /\ pc \in {"main", "stdin"} /\ pc' = "exit0"
        /\ pc = "stdin" \/ optind > Len(args)
    BY <1>5 DEF MainReturns, StdinEnds, inputs
  <2>2. pc = "stdin" => FirstOperand = Len(args) + 1 /\ FirstOperand \in 1..optind
    BY DEF StdinInv, KeysInv, Parsed
  <2>3. optind = Len(args) + 1
    BY <1>0, <2>1, <2>2
  <2> QED  BY <2>1, <2>3, PlaceKept DEF Parsed
<1>6. CASE SeekTail \/ FirstNumber \/ CopyByte \/ CopyEnds \/ Undefined
  <2>1. /\ UNCHANGED <<args, disk, optind>> /\ pc \in {"seek", "number", "copy", "stdin"}
        /\ pc' \in {"seek", "number", "copy", "main", "undefined"}
    BY <1>6 DEF SeekTail, FirstNumber, CopyByte, CopyEnds, Undefined, inputs
  <2> QED  BY <2>1, PlaceKept DEF Parsed
<1> QED  BY <1>1, <1>2, <1>3, <1>4, <1>5, <1>6 DEF Next

-----------------------------------------------------------------------------
(* The part of the invariant that stands without the text printed.          *)

Core == TypeInv /\ KeysInv /\ CountInv /\ StdinInv /\ FilesPlace

LEMMA CoreInit == ASSUME Init PROVE Core
BY InitTypes, InitKeys, InitCount, InitStdin, InitPlace DEF Core

LEMMA CoreNext == ASSUME Core, Next PROVE Core'
<1> USE DEF Core
<1>1. TypeInv'
  <2>1. CASE ParseKey
    BY <2>1, ParseKeyTypes
  <2>2. CASE EndOfKeys
    BY <2>2, EndOfKeysTypes
  <2>3. CASE CatFile
    <3>1. Parsed => FirstOperand \in 1..optind
      BY DEF KeysInv
    <3> QED  BY <2>3, <3>1, CatFileTypes
  <2>4. CASE CatStdin
    BY <2>4, CatStdinTypes
  <2>5. CASE ScanWord
    BY <2>5, ScanWordTypes
  <2>6. CASE MainReturns \/ StdinEnds \/ CopyEnds \/ Undefined
    BY <2>6, EndTypes
  <2>7. CASE SeekTail
    BY <2>7, SeekTailTypes
  <2>8. CASE FirstNumber
    BY <2>8, FirstNumberTypes
  <2>9. CASE CopyByte
    BY <2>9, CopyByteTypes
  <2> QED  BY <2>1, <2>2, <2>3, <2>4, <2>5, <2>6, <2>7, <2>8, <2>9 DEF Next
<1>2. KeysInv' /\ CountInv'
  BY ParseKeyKeys, ParseKeyCount, EndOfKeysKeys, EndOfKeysCount, MainKeys DEF Next
<1>3. StdinInv'
  BY OtherStdin, CatStdinStdin, ScanWordStdin, StdinEndsStdin
<1>4. FilesPlace'
  BY NextPlace
<1> QED  BY <1>1, <1>2, <1>3, <1>4

LEMMA CoreStutters == ASSUME Core, UNCHANGED vars PROVE Core'
<1> USE DEF vars, inputs
<1>1. TypeInv'
  BY DEF Core, TypeInv, TypeOK, InputsInv, InText, Exits, Sz, IsFile, Named, FirstOperand,
         Operand, TakenAsCount, Readable, Buffer, SizeOf
<1>2. KeysInv' /\ CountInv'
  <2>1. KeysInv'
    BY DEF Core, KeysInv, Parsed, AtKeys, FirstOperand, Operand, TakenAsCount
  <2>2. CountIn(optind - 1)' = CountIn(optind - 1) /\ CountGiven' = CountGiven
    BY Zenon DEF CountGiven, CountIn, CountAt, CountKey, TakenAsCount
  <2>3. CountInv'
    BY <2>2, Zenon DEF Core, CountInv, Parsed, AtKeys
  <2> QED  BY <2>1, <2>3
<1>3. StdinInv'
  BY DEF Core, StdinInv, Taken, Help
<1>4. FilesPlace'
  BY DEF Core, FilesPlace, Parsed, FirstOperand, Operand, TakenAsCount, Named
<1> QED  BY <1>1, <1>2, <1>3, <1>4 DEF Core

LEMMA CoreAlways == Spec => []Core
<1>1. Init => Core
  BY CoreInit
<1>2. Core /\ [Next]_vars => Core'
  BY CoreNext, CoreStutters
<1> QED  BY <1>1, <1>2, PTL DEF Spec

-----------------------------------------------------------------------------
(* The lines of the operands gone through.                                  *)

\* LinesOf and LinesOfFirst with the lines -d asks for.
FileLines(k) == LinesOf(args[FirstOperand + k - 1], Asked)
LinesUpTo(n) == LinesOfFirst(n, Asked)

LEMMA LinesUpToIs ==
  ASSUME NEW n
  PROVE  LinesUpTo(n) = FlattenSeq([k \in 1..n |-> FileLines(k)])
BY DEF LinesUpTo, LinesOfFirst, FileLines

LEMMA AskedType ==
  ASSUME NEW lines \in Seq(Texts), N \in Int
  PROVE  Asked(lines) \in Seq(Entries)
<1>1. lines \in Seq(Entries)
  BY TextEntries, SeqMonotonic
<1>2. ASSUME N > 0 PROVE FirstLines(lines, N) \in Seq(Entries)
  <2> DEFINE m == IF N < Len(lines) THEN N ELSE Len(lines)
  <2>1. m \in Int /\ m <= Len(lines) /\ 1 \in Int /\ 1 >= 1
    OBVIOUS
  <2> HIDE DEF m
  <2>2. SubSeq(lines, 1, m) \in Seq(Entries)
    BY <1>1, <2>1, SliceType
  <2> QED  BY <2>2 DEF FirstLines, m
<1> QED  BY <1>1, <1>2 DEF Asked

LEMMA FileLinesType ==
  ASSUME IsInput(args, disk, stdin), N \in Int,
         NEW k \in Nat, k >= 1, FirstOperand + k - 1 <= Len(args)
  PROVE  FileLines(k) \in Seq(Entries)
<1>1. Len(args) \in Nat /\ FirstOperand \in Nat \ {0}
  BY FirstOperandType DEF IsInput
<1>2. FirstOperand + k - 1 \in 1..Len(args)
  BY <1>1
<1> DEFINE f == Named(args[FirstOperand + k - 1])
<1>3. IsFile(f)
  BY <1>2, NamedIsFile
<1> HIDE DEF f
<1>4. f.kind = "text" => Asked(Lines(f.bytes)) \in Seq(Entries)
  <2>1. f.kind = "text" => f.bytes \in Texts
    BY <1>3 DEF IsFile, Texts
  <2> QED  BY <2>1, LinesType, AskedType
<1>5. HelpLines \in Seq(Entries)
  BY TextEntries DEF HelpLines
<1>6. FileLines(k) = HelpLines \o (IF f.kind = "text" THEN Asked(Lines(f.bytes)) ELSE <<>>)
  BY DEF FileLines, LinesOf, f
<1> QED  BY <1>4, <1>5, <1>6

LEMMA LinesUpToStep ==
  ASSUME IsInput(args, disk, stdin), N \in Int,
         NEW n \in Nat, FirstOperand + n <= Len(args) + 1
  PROVE  /\ LinesUpTo(0) = <<>> /\ LinesUpTo(n) \in Seq(Entries)
         /\ n > 0 => /\ LinesUpTo(n - 1) \in Seq(Entries)
                     /\ LinesUpTo(n) = LinesUpTo(n - 1) \o FileLines(n)
<1> DEFINE F(m) == [k \in 1..m |-> FileLines(k)]
<1>0. Len(args) \in Nat /\ FirstOperand \in Nat \ {0}
  BY FirstOperandType DEF IsInput
<1>1. ASSUME NEW m \in Nat, m <= n
      PROVE  /\ F(m) \in Seq(Seq(Entries)) /\ LinesUpTo(m) = FlattenSeq(F(m))
             /\ LinesUpTo(m) \in Seq(Entries) /\ Len(F(m)) = m
             /\ \A k \in 1..m : F(m)[k] = FileLines(k)
  <2>1. \A k \in 1..m : FileLines(k) \in Seq(Entries)
    <3> TAKE k \in 1..m
    <3>1. k \in Nat /\ k >= 1 /\ FirstOperand + k - 1 <= Len(args)
      BY <1>0, <1>1
    <3> QED  BY <3>1, FileLinesType
  <2>2. F(m) \in Seq(Seq(Entries)) /\ Len(F(m)) = m
    BY <2>1
  <2>3. LinesUpTo(m) = FlattenSeq(F(m))
    BY LinesUpToIs
  <2> HIDE DEF F
  <2>4. LinesUpTo(m) \in Seq(Entries)
    BY <2>2, <2>3, FlattenType
  <2> QED  BY <2>2, <2>3, <2>4 DEF F
<1>2. LinesUpTo(0) = <<>>
  <2>1. F(0) = <<>>
    OBVIOUS
  <2> QED  BY <2>1, LinesUpToIs, FlattenEmpty
<1>3. ASSUME n > 0
      PROVE  LinesUpTo(n - 1) \in Seq(Entries) /\ LinesUpTo(n) = LinesUpTo(n - 1) \o FileLines(n)
  <2>1. n - 1 \in Nat /\ n - 1 <= n /\ (n - 1) + 1 = n /\ n \in 1..n /\ n <= n
    BY <1>3
  <2>2. /\ F(n - 1) \in Seq(Seq(Entries)) /\ F(n) \in Seq(Seq(Entries))
        /\ Len(F(n - 1)) = n - 1 /\ Len(F(n)) = n
        /\ \A k \in 1..(n - 1) : F(n - 1)[k] = FileLines(k)
        /\ \A k \in 1..n : F(n)[k] = FileLines(k)
    BY <1>1, <2>1
  <2>3. FileLines(n) \in Seq(Entries)
    <3>1. n \in Nat /\ n >= 1 /\ FirstOperand + n - 1 <= Len(args)
      BY <1>0, <1>3
    <3> QED  BY <3>1, FileLinesType
  <2>4. LinesUpTo(n) = FlattenSeq(F(n)) /\ LinesUpTo(n - 1) = FlattenSeq(F(n - 1))
        /\ LinesUpTo(n - 1) \in Seq(Entries)
    BY <1>1, <2>1
  <2> DEFINE u == F(n - 1)
             v == F(n)
             l == FileLines(n)
  <2>5. v = Append(u, l)
    <3>1. /\ u \in Seq(Seq(Entries)) /\ v \in Seq(Seq(Entries)) /\ Len(u) = n - 1
          /\ Len(v) = n /\ l \in Seq(Entries)
          /\ \A k \in 1..(n - 1) : u[k] = FileLines(k)
          /\ \A k \in 1..n : v[k] = FileLines(k)
      BY <2>2, <2>3
    <3> HIDE DEF u, v
    <3>2. /\ Append(u, l) \in Seq(Seq(Entries)) /\ Len(Append(u, l)) = n
          /\ \A k \in 1..(n - 1) : Append(u, l)[k] = u[k]
          /\ Append(u, l)[n] = l
      BY <2>1, <3>1, AppendProperties
    <3>3. \A k \in 1..n : k \in 1..(n - 1) \/ k = n
      BY <2>1
    <3>4. \A k \in 1..n : v[k] = Append(u, l)[k]
      BY <3>1, <3>2, <3>3
    <3> QED  BY <3>1, <3>2, <3>4, SeqEqual
  <2>6. u \in Seq(Seq(Entries)) /\ l \in Seq(Entries)
    BY <2>2, <2>3
  <2> HIDE DEF u, v, l
  <2>7. FlattenSeq(Append(u, l)) = FlattenSeq(u) \o l
    BY <2>6, FlattenAppend
  <2> QED  BY <2>4, <2>5, <2>7 DEF u, v, l
<1>4. LinesUpTo(n) \in Seq(Entries)
  <2>1. n <= n
    OBVIOUS
  <2> QED  BY <1>1, <2>1
<1> QED  BY <1>2, <1>3, <1>4

LEMMA LinesUpToKept ==
  ASSUME UNCHANGED <<args, disk, flags, N>>, NEW n
  PROVE  LinesUpTo(n)' = LinesUpTo(n) /\ HelpLines' = HelpLines /\ Help' = Help
         /\ FirstOperand' = FirstOperand
<1>1. FirstOperand' = FirstOperand
  BY DEF FirstOperand, Operand, TakenAsCount
<1>2. HelpLines' = HelpLines /\ Help' = Help
  BY DEF HelpLines, Help
<1>3. ASSUME NEW k PROVE FileLines(k)' = FileLines(k)
  BY <1>1, <1>2 DEF FileLines, LinesOf, Named, Asked
<1>4. LinesUpTo(n) = FlattenSeq([k \in 1..n |-> FileLines(k)])
  BY LinesUpToIs
<1>5. LinesUpTo(n)' = FlattenSeq([k \in 1..n |-> FileLines(k)'])
  BY DEF LinesUpTo, LinesOfFirst, FileLines
<1> QED  BY <1>1, <1>2, <1>3, <1>4, <1>5

-----------------------------------------------------------------------------
(* A text being copied.                                                     *)

\* The lines copied whole when the cursor is at c, and where the next begins.
LinesIn(b, c) == CountUpTo(Newlines(b), c - 1)
StartIn(b, c) == LineEnd(b, LinesIn(b, c)) + 1
CopiedIn(X, b, c) == X \o SubSeq(Lines(b), 1, LinesIn(b, c))
\* Whether the line that begins at s has its number printed before it.
NumberIn(keys, b, s) ==
  s <= Len(b) /\ ("n" \in keys \/ ("b" \in keys /\ b[s] # NL))
EndMark(keys) == IF "e" \in keys THEN <<"$">> ELSE <<>>
NumberText(n, wanted) == IF wanted THEN <<ToString(n)>> ELSE <<>>

PlaceIn(b, c) ==
  /\ StartIn(b, c) \in 1..c
  /\ StartIn(b, c) = 1 \/ b[StartIn(b, c) - 1] = NL
  /\ \A k \in StartIn(b, c)..(c - 1) : b[k] # NL
LinesNumbered(keys, X, b, c) ==
  WantedUpTo(keys, CopiedIn(X, b, c), Len(CopiedIn(X, b, c)))
    + (IF NumberIn(keys, b, StartIn(b, c)) THEN 1 ELSE 0)
TextIn(keys, X, b, c, n) ==
  Rendered(keys, CopiedIn(X, b, c)) \o NumberText(n, NumberIn(keys, b, StartIn(b, c)))
    \o SubSeq(b, StartIn(b, c), c - 1)
PrintedTo(keys, X, b, c, n, o) ==
  PlaceIn(b, c) /\ n = LinesNumbered(keys, X, b, c) /\ o = TextIn(keys, X, b, c, n)

\* Prefixes of lines behind other lines.
LEMMA LinesBehind ==
  ASSUME NEW X \in Seq(Entries), NEW L \in Seq(Entries), NEW m \in 0..Len(L)
  PROVE  /\ X \o SubSeq(L, 1, m) \in Seq(Entries)
         /\ X \o SubSeq(L, 1, 0) = X
         /\ m < Len(L) => /\ L[m + 1] \in Entries
                          /\ X \o SubSeq(L, 1, m + 1) = Append(X \o SubSeq(L, 1, m), L[m + 1])
         /\ m = Len(L) => X \o SubSeq(L, 1, m) = X \o L
<1>0. Len(L) \in Nat /\ m \in Int /\ m <= Len(L) /\ 1 \in Int /\ 1 >= 1 /\ 0 \in Int /\ 0 < 1
  OBVIOUS
<1>1. SubSeq(L, 1, m) \in Seq(Entries)
  BY <1>0, SliceType
<1>2. X \o SubSeq(L, 1, m) \in Seq(Entries)
  BY <1>1, ConcatProperties
<1>3. X \o SubSeq(L, 1, 0) = X
  <2>1. SubSeq(L, 1, 0) = <<>>
    BY <1>0, SubSeqEmpty
  <2> QED  BY <2>1, ConcatEmptySeq
<1>4. ASSUME m < Len(L)
      PROVE  /\ L[m + 1] \in Entries
             /\ X \o SubSeq(L, 1, m + 1) = Append(X \o SubSeq(L, 1, m), L[m + 1])
  <2>1. m \in Nat /\ m + 1 \in 1..Len(L)
    BY <1>0, <1>4
  <2>2. L[m + 1] \in Entries /\ SubSeq(L, 1, m + 1) = Append(SubSeq(L, 1, m), L[m + 1])
    BY <2>1, PrefixGrows
  <2> DEFINE p == SubSeq(L, 1, m)
             e == L[m + 1]
  <2>3. p \in Seq(Entries) /\ e \in Entries
    BY <1>1, <2>2
  <2> HIDE DEF p, e
  <2>4. X \o Append(p, e) = Append(X \o p, e)
    <3> DEFINE u == X \o Append(p, e)
               v == Append(X \o p, e)
    <3>1. Append(p, e) \in Seq(Entries) /\ X \o p \in Seq(Entries)
      BY <2>3, ConcatProperties, AppendProperties
    <3>2. u \in Seq(Entries) /\ v \in Seq(Entries) /\ Len(u) = Len(X) + Len(p) + 1 /\ Len(v) = Len(u)
      BY <2>3, <3>1
    <3>3. \A i \in 1..Len(u) : u[i] = v[i]
      BY <2>3, <3>1, <3>2
    <3> HIDE DEF u, v
    <3> QED  BY <3>2, <3>3, SeqEqual DEF u, v
  <2> QED  BY <2>2, <2>4 DEF p, e
<1>5. m = Len(L) => X \o SubSeq(L, 1, m) = X \o L
  BY SubSeqFull
<1> QED  BY <1>2, <1>3, <1>4, <1>5

LEMMA Endings ==
  /\ <<NL>> \in Entries /\ <<"$">> \in Entries /\ <<>> \in Entries
  /\ <<>> \o <<NL>> = <<NL>> /\ <<"$">> \o <<NL>> = <<"$", NL>>
<1>1. NL \in Tokens /\ "$" \in Tokens
  BY DEF Tokens, Byte
<1>2. <<NL>> \in Entries /\ <<"$">> \in Entries /\ <<>> \in Entries
  <2> HIDE DEF Tokens
  <2> QED  BY <1>1, EmptySeq DEF Entries
<1>3. <<>> \o <<NL>> = <<NL>>
  BY <1>2, ConcatEmptySeq DEF Entries
<1>4. <<"$">> \o <<NL>> = <<"$", NL>>
  <2> DEFINE u == <<"$">> \o <<NL>>
             v == <<"$", NL>>
  <2> HIDE DEF Tokens
  <2>1. v \in Seq(Tokens) /\ Len(v) = 2 /\ v[1] = "$" /\ v[2] = NL
    BY <1>1
  <2>2. u \in Seq(Tokens) /\ Len(u) = 2 /\ u[1] = "$" /\ u[2] = NL
    <3>1. <<"$">> \in Seq(Tokens) /\ <<NL>> \in Seq(Tokens) /\ Len(<<"$">>) = 1 /\ Len(<<NL>>) = 1
      BY <1>1
    <3> QED  BY <3>1, ConcatProperties
  <2> HIDE DEF u, v
  <2>3. \A k \in 1..2 : k = 1 \/ k = 2
    OBVIOUS
  <2>4. \A k \in 1..Len(u) : u[k] = v[k]
    BY <2>1, <2>2, <2>3
  <2> QED  BY <2>1, <2>2, <2>4, SeqEqual DEF u, v
<1> QED  BY <1>2, <1>3, <1>4

LEMMA NumberTextType ==
  ASSUME NEW n \in Nat, NEW wanted
  PROVE  NumberText(n, wanted) \in Entries
<1>1. ToString(n) \in Tokens
  BY Zenon DEF Tokens
<1> HIDE DEF Tokens
<1> QED  BY <1>1 DEF NumberText, Entries

LEMMA PlaceType ==
  ASSUME NEW b \in Texts, NEW c \in 1..(Len(b) + 1), PlaceIn(b, c)
  PROVE  /\ c \in Int /\ Len(b) \in Nat /\ StartIn(b, c) \in 1..c /\ StartIn(b, c) \in Int
         /\ LinesIn(b, c) \in 0..Len(Lines(b)) /\ Lines(b) \in Seq(Entries)
         /\ SubSeq(b, StartIn(b, c), c - 1) \in Entries
<1>1. c \in Int /\ Len(b) \in Nat /\ c - 1 \in Int /\ c - 1 <= Len(b) /\ Len(b) \in Int
  BY TextSets
<1>2. StartIn(b, c) \in 1..c
  BY DEF PlaceIn
<1>3. Lines(b) \in Seq(Entries) /\ Len(Lines(b)) = Cardinality(LineEnds(b))
  BY LinesType, TextEntries, SeqMonotonic
<1>4. LinesIn(b, c) \in 0..Len(Lines(b))
  <2>1. LinesIn(b, c) \in Nat /\ Cardinality(LineEnds(b)) \in Nat
    BY TextSets, CountType DEF LinesIn
  <2>2. CountUpTo(Newlines(b), c - 1) <= CountUpTo(Newlines(b), Len(b))
    <3>1. c - 1 = Len(b) \/ c - 1 < Len(b)
      BY <1>1
    <3>2. CountUpTo(Newlines(b), Len(b)) \in Nat
      BY TextSets, CountType
    <3> QED  BY <1>1, <3>1, <3>2, TextSets, CountGrows
  <2>3. CountUpTo(Newlines(b), Len(b)) <= Len(Lines(b))
    BY <1>1, <1>3, LastLine, TextSets
  <2>4. CountUpTo(Newlines(b), Len(b)) \in Nat
    BY TextSets, CountType
  <2> QED  BY <1>3, <2>1, <2>2, <2>3, <2>4 DEF LinesIn
<1>5. SubSeq(b, StartIn(b, c), c - 1) \in Texts
  <2> DEFINE s == StartIn(b, c)
  <2>1. s \in Int /\ s >= 1
    BY <1>1, <1>2
  <2> HIDE DEF s
  <2>2. SubSeq(b, s, c - 1) \in Seq({"x", NL})
    BY <1>1, <2>1, SliceType DEF Texts
  <2> QED  BY <2>2 DEF s, Texts
<1> QED  BY <1>1, <1>2, <1>3, <1>4, <1>5, TextEntries


\* At the beginning of a line its number, if it gets one, is printed first.
LEMMA LineBegins ==
  ASSUME NEW keys, NEW X \in Seq(Entries), NEW b \in Texts, NEW c \in 1..(Len(b) + 1),
         StartIn(b, c) = c, c = 1 \/ b[c - 1] = NL,
         NEW n, n = WantedUpTo(keys, CopiedIn(X, b, c), Len(CopiedIn(X, b, c))),
         NEW o, o = Rendered(keys, CopiedIn(X, b, c)),
         NEW wanted \in BOOLEAN, wanted = NumberIn(keys, b, c)
  PROVE  PrintedTo(keys, X, b, c, n + (IF wanted THEN 1 ELSE 0), o \o NumberText(n + 1, wanted))
<1>0. c \in Int /\ Len(b) \in Nat /\ \A k \in Int : ~(k \in c..(c - 1))
  BY TextSets
<1>1. PlaceIn(b, c)
  BY <1>0 DEF PlaceIn
<1>2. LinesIn(b, c) \in 0..Len(Lines(b)) /\ Lines(b) \in Seq(Entries)
  BY <1>1, PlaceType
<1>3. CopiedIn(X, b, c) \in Seq(Entries)
  BY <1>2, LinesBehind DEF CopiedIn
<1>4. n \in Nat /\ o \in Entries
  <2>1. Len(CopiedIn(X, b, c)) \in Nat
    BY <1>3
  <2> QED  BY <1>3, <2>1, WantedType, RenderedType
<1>5. SubSeq(b, c, c - 1) = <<>>
  BY <1>0, SubSeqEmpty
<1>6. LinesNumbered(keys, X, b, c) = n + (IF wanted THEN 1 ELSE 0)
  BY DEF LinesNumbered
<1>7. TextIn(keys, X, b, c, n + (IF wanted THEN 1 ELSE 0)) = o \o NumberText(n + 1, wanted)
  <2>1. NumberText(n + (IF wanted THEN 1 ELSE 0), wanted) = NumberText(n + 1, wanted)
    BY DEF NumberText
  <2>2. NumberText(n + 1, wanted) \in Entries
    BY <1>4, NumberTextType
  <2>3. o \o NumberText(n + 1, wanted) \in Entries
    BY <1>4, <2>2, ConcatProperties DEF Entries
  <2>4. (o \o NumberText(n + 1, wanted)) \o <<>> = o \o NumberText(n + 1, wanted)
    BY <2>3, ConcatEmptySeq DEF Entries
  <2> QED  BY <1>5, <2>1, <2>4, Zenon DEF TextIn
<1> QED  BY <1>1, <1>6, <1>7 DEF PrintedTo

LEMMA TextBegins ==
  ASSUME NEW X \in Seq(Entries), NEW b \in Texts
  PROVE  LinesIn(b, 1) = 0 /\ StartIn(b, 1) = 1 /\ CopiedIn(X, b, 1) = X /\ 1 \in 1..(Len(b) + 1)
<1>1. LinesIn(b, 1) = 0
  <2>1. CountUpTo(Newlines(b), 0) = 0
    BY TextSets, CountEnds
  <2> QED  BY <2>1 DEF LinesIn
<1>2. StartIn(b, 1) = 1
  BY <1>1 DEF StartIn, LineEnd
<1>3. CopiedIn(X, b, 1) = X
  <2>1. SubSeq(Lines(b), 1, 0) = <<>>
    BY SubSeqEmpty
  <2> QED  BY <1>1, <2>1, ConcatEmptySeq DEF CopiedIn
<1> QED  BY <1>1, <1>2, <1>3, TextSets

\* Another byte of the same line.
LEMMA ByteCopied ==
  ASSUME NEW keys, NEW X \in Seq(Entries), NEW b \in Texts, NEW c \in 1..Len(b), b[c] # NL,
         NEW n \in Nat, NEW o, PrintedTo(keys, X, b, c, n, o)
  PROVE  /\ PrintedTo(keys, X, b, c + 1, n, o \o <<b[c]>>)
         /\ LinesIn(b, c + 1) = LinesIn(b, c)
<1>0. /\ c \in Int /\ Len(b) \in Nat /\ c - 1 \in Int /\ (c - 1) + 1 = c /\ (c + 1) - 1 = c
      /\ c \in 1..(Len(b) + 1) /\ PlaceIn(b, c)
  BY TextSets DEF PrintedTo
<1> DEFINE s == StartIn(b, c)
           W == CopiedIn(X, b, c)
           left == Rendered(keys, W) \o NumberText(n, NumberIn(keys, b, s))
           old == SubSeq(b, s, c - 1)
<1>1. LinesIn(b, c + 1) = LinesIn(b, c)
  <2>1. CountUpTo(Newlines(b), (c - 1) + 1)
          = CountUpTo(Newlines(b), c - 1) + (IF (c - 1) + 1 \in Newlines(b) THEN 1 ELSE 0)
    BY <1>0, TextSets, CountStep
  <2>2. c \notin Newlines(b)
    BY DEF Newlines
  <2>3. CountUpTo(Newlines(b), c - 1) \in Nat
    BY TextSets, CountType
  <2> QED  BY <1>0, <2>1, <2>2, <2>3 DEF LinesIn
<1>2. StartIn(b, c + 1) = s /\ CopiedIn(X, b, c + 1) = W
  BY <1>1 DEF StartIn, CopiedIn
<1>3. s \in 1..c /\ s \in Int /\ LinesIn(b, c) \in 0..Len(Lines(b)) /\ Lines(b) \in Seq(Entries)
      /\ old \in Entries
  BY <1>0, PlaceType
<1>4. PlaceIn(b, c + 1)
  <2>1. \A k \in s..c : k \in s..(c - 1) \/ k = c
    BY <1>0, <1>3
  <2>2. \A k \in s..c : b[k] # NL
    BY <1>0, <2>1 DEF PlaceIn
  <2>3. s \in 1..(c + 1)
    BY <1>0, <1>3
  <2> HIDE DEF s
  <2> QED  BY <1>0, <1>2, <2>2, <2>3 DEF PlaceIn, s
<1>5. LinesNumbered(keys, X, b, c + 1) = LinesNumbered(keys, X, b, c)
  BY <1>2 DEF LinesNumbered
<1>6. SubSeq(b, s, c) = old \o <<b[c]>>
  <2>1. s \in 1..Len(b) /\ c \in s..Len(b)
    BY <1>0, <1>3
  <2> HIDE DEF s
  <2> QED  BY <2>1, SubSeqRecursiveSecond DEF Texts
<1>7. left \in Entries /\ <<b[c]>> \in Entries
  <2>1. W \in Seq(Entries)
    BY <1>3, LinesBehind DEF CopiedIn
  <2>2. Rendered(keys, W) \in Entries /\ NumberText(n, NumberIn(keys, b, s)) \in Entries
    BY <2>1, RenderedType, NumberTextType
  <2>3. <<b[c]>> \in Texts
    BY DEF Texts
  <2> HIDE DEF W, s
  <2> QED  BY <2>2, <2>3, TextEntries, ConcatProperties DEF Entries
<1>8. TextIn(keys, X, b, c, n) = left \o old
  BY Zenon DEF TextIn
<1>9. TextIn(keys, X, b, c + 1, n) = left \o SubSeq(b, s, c)
  BY <1>0, <1>2, Zenon DEF TextIn
<1> HIDE DEF left, old, s
<1>10. (left \o old) \o <<b[c]>> = left \o (old \o <<b[c]>>)
  BY <1>3, <1>7, JoinMoves DEF Join
<1> QED  BY <1>1, <1>4, <1>5, <1>6, <1>8, <1>9, <1>10 DEF PrintedTo


\* The line a newline ends: it is printed whole, behind its number.
LEMMA LineCopied ==
  ASSUME NEW keys, NEW X \in Seq(Entries), NEW b \in Texts, NEW c \in 1..Len(b), b[c] = NL,
         NEW n \in Nat, NEW o, PrintedTo(keys, X, b, c, n, o)
  PROVE  /\ LinesIn(b, c + 1) = LinesIn(b, c) + 1 /\ LinesIn(b, c + 1) \in 1..Len(Lines(b))
         /\ StartIn(b, c + 1) = c + 1
         /\ n = WantedUpTo(keys, CopiedIn(X, b, c + 1), Len(CopiedIn(X, b, c + 1)))
         /\ (o \o EndMark(keys)) \o <<NL>> = Rendered(keys, CopiedIn(X, b, c + 1))
<1>0. /\ c \in Int /\ Len(b) \in Nat /\ c - 1 \in Int /\ (c + 1) - 1 = c /\ c <= Len(b)
      /\ c \in 1..(Len(b) + 1) /\ PlaceIn(b, c)
  BY TextSets DEF PrintedTo
<1> DEFINE m == LinesIn(b, c)
           s == StartIn(b, c)
           W == CopiedIn(X, b, c)
           line == Lines(b)[m + 1]
           old == SubSeq(b, s, c - 1)
           num == NumberText(n, NumberIn(keys, b, s))
           mark == IF "e" \in keys THEN <<"$">> ELSE <<>>
<1>1. /\ CountUpTo(Newlines(b), c) = m + 1
      /\ m \in Nat /\ m + 1 \in 1..Len(Lines(b)) /\ LineEnd(b, m + 1) = c
      /\ line = SubSeq(b, LineEnd(b, m) + 1, c)
  <2>1. m = CountUpTo(Newlines(b), c - 1)
    BY DEF LinesIn
  <2> QED  BY <2>1, NewlineEnds
<1>2. LinesIn(b, c + 1) = m + 1 /\ StartIn(b, c + 1) = c + 1
  BY <1>0, <1>1 DEF LinesIn, StartIn
<1>3. /\ s \in 1..c /\ s \in Int /\ m \in 0..Len(Lines(b)) /\ Lines(b) \in Seq(Entries)
      /\ old \in Entries
  BY <1>0, PlaceType
<1>4. line = old \o <<NL>>
  <2>1. s \in 1..Len(b) /\ c \in s..Len(b)
    BY <1>0, <1>3
  <2> DEFINE t == LineEnd(b, m) + 1
  <2>2. t = s
    BY DEF StartIn
  <2> HIDE DEF s, t
  <2>3. SubSeq(b, s, c) = SubSeq(b, s, c - 1) \o <<b[c]>>
    BY <2>1, SubSeqRecursiveSecond DEF Texts
  <2> QED  BY <1>1, <2>2, <2>3 DEF t
<1>5. /\ W \in Seq(Entries) /\ line \in Entries
      /\ CopiedIn(X, b, c + 1) = Append(W, line)
  <2>1. m < Len(Lines(b)) /\ m \in 0..Len(Lines(b))
    BY <1>1, <1>3
  <2> HIDE DEF m
  <2>2. /\ X \o SubSeq(Lines(b), 1, m) \in Seq(Entries) /\ Lines(b)[m + 1] \in Entries
        /\ X \o SubSeq(Lines(b), 1, m + 1)
             = Append(X \o SubSeq(Lines(b), 1, m), Lines(b)[m + 1])
    BY <1>3, <2>1, LinesBehind
  <2>3. CopiedIn(X, b, c + 1) = X \o SubSeq(Lines(b), 1, m + 1)
    BY <1>2 DEF CopiedIn
  <2> QED  BY <2>2, <2>3, Zenon DEF CopiedIn, m
<1>6. Len(old) = c - s /\ \A k \in 1..(c - s) : old[k] = b[s + k - 1]
  <2> HIDE DEF s
  <2>1. /\ s >= 1 /\ c - 1 <= Len(b) /\ (c - 1) - s + 1 = c - s
        /\ (s <= c - 1 \/ c - s = 0)
    BY <1>0, <1>3
  <2>2. /\ Len(SubSeq(b, s, c - 1)) = IF s <= c - 1 THEN (c - 1) - s + 1 ELSE 0
        /\ \A k \in 1..((c - 1) - s + 1) : SubSeq(b, s, c - 1)[k] = b[s + k - 1]
    BY <1>0, <1>3, <2>1, SliceType DEF Texts
  <2> QED  BY <1>0, <1>3, <2>1, <2>2
<1>7. Last(line) = NL /\ Front(line) = old
  <2> HIDE DEF old, line
  <2>1. old \in Seq(Tokens) /\ NL \in Tokens
    BY <1>3 DEF Entries, Tokens, Byte
  <2>2. line = Append(old, NL)
    BY <1>4, <2>1, AppendIsConcat
  <2>3. Len(line) = Len(old) + 1 /\ line[Len(old) + 1] = NL /\ Len(old) \in Nat
        /\ \A k \in 1..Len(old) : line[k] = old[k]
    BY <2>1, <2>2, AppendProperties
  <2>4. SubSeq(line, 1, Len(old)) = old
    <3>1. /\ SubSeq(line, 1, Len(old)) \in Seq(Tokens)
          /\ Len(SubSeq(line, 1, Len(old))) = IF 1 <= Len(old) THEN Len(old) - 1 + 1 ELSE 0
          /\ \A k \in 1..(Len(old) - 1 + 1) : SubSeq(line, 1, Len(old))[k] = line[1 + k - 1]
      <4>1. line \in Seq(Tokens) /\ Len(old) \in Int /\ Len(old) <= Len(line)
        BY <1>5, <2>3 DEF Entries
      <4> QED  BY <4>1, SliceType
    <3>2. Len(SubSeq(line, 1, Len(old))) = Len(old)
      BY <2>3, <3>1
    <3>3. \A k \in 1..Len(old) : SubSeq(line, 1, Len(old))[k] = old[k]
      <4>1. \A k \in 1..Len(old) : k \in 1..(Len(old) - 1 + 1) /\ 1 + k - 1 = k
        BY <2>3
      <4> QED  BY <2>3, <3>1, <4>1
    <3> QED  BY <2>1, <3>1, <3>2, <3>3, SeqEqual
  <2>5. Len(line) - 1 = Len(old)
    BY <2>3
  <2> QED  BY <2>3, <2>4, <2>5 DEF Last, Front
<1>8. Wanted(keys, line) <=> NumberIn(keys, b, s)
  <2>1. s <= Len(b)
    BY <1>0, <1>3
  <2>2. line # <<NL>> <=> b[s] # NL
    <3>1. CASE s = c
      <4>1. Len(old) = 0
        BY <1>0, <1>3, <1>6, <3>1
      <4>2. old = <<>>
        BY <1>3, <4>1, EmptySeq DEF Entries
      <4>3. <<>> \o <<NL>> = <<NL>>
        BY Endings
      <4> HIDE DEF old, line
      <4>4. line = <<NL>>
        BY <1>4, <4>2, <4>3
      <4> QED  BY <4>4, <3>1
    <3>2. CASE s # c
      <4>1. s \in s..(c - 1) /\ 1 \in 1..(c - s) /\ s + 1 - 1 = s
        BY <1>0, <1>3, <3>2
      <4>2. b[s] # NL
        BY <1>0, <4>1 DEF PlaceIn
      <4>3. line # <<NL>>
        <5> HIDE DEF old, line, s
        <5>1. Len(line) = Len(old) + 1 /\ Len(old) >= 1
          <6>1. old \in Seq(Tokens) /\ <<NL>> \in Seq(Tokens) /\ Len(<<NL>>) = 1
            BY <1>3 DEF Entries, Tokens, Byte
          <6>2. Len(old \o <<NL>>) = Len(old) + Len(<<NL>>)
            BY <6>1, ConcatProperties
          <6> QED  BY <1>0, <1>3, <1>4, <1>6, <3>2, <6>1, <6>2
        <5>2. Len(<<NL>>) = 1 /\ Len(old) \in Nat
          BY <1>3 DEF Entries
        <5> QED  BY <5>1, <5>2
      <4> QED  BY <4>2, <4>3
    <3> QED  BY <3>1, <3>2
  <2>3. line # HelpText
    <3>1. Last(HelpText) = "HELP"
      BY DEF HelpText, Last
    <3>2. "HELP" # NL
      BY DEF NL
    <3> QED  BY <1>7, <3>1, <3>2
  <2> HIDE DEF s, line
  <2> QED  BY <2>1, <2>2, <2>3 DEF Wanted, NumberIn
<1>9. /\ WantedUpTo(keys, W, Len(W)) \in Nat
      /\ WantedUpTo(keys, Append(W, line), Len(Append(W, line)))
           = WantedUpTo(keys, W, Len(W)) + (IF Wanted(keys, line) THEN 1 ELSE 0)
  BY <1>5, WantedAppend
<1>10. n = WantedUpTo(keys, W, Len(W)) + (IF Wanted(keys, line) THEN 1 ELSE 0)
  BY <1>8 DEF PrintedTo, LinesNumbered
<1>11. n = WantedUpTo(keys, CopiedIn(X, b, c + 1), Len(CopiedIn(X, b, c + 1)))
  BY <1>5, <1>9, <1>10
<1>12. num = Numbered(keys, line, WantedUpTo(keys, W, Len(W)) + 1)
  BY <1>8, <1>9, <1>10 DEF NumberText, Numbered
<1>13. Marked(keys, line) = old \o (mark \o <<NL>>)
  <2>1. CASE "e" \in keys
    <3> HIDE DEF old, line
    <3>1. mark \o <<NL>> = <<"$", NL>>
      BY <2>1, Endings
    <3> QED  BY <1>7, <2>1, <3>1, Zenon DEF Marked
  <2>2. CASE "e" \notin keys
    <3> HIDE DEF old, line
    <3>1. mark \o <<NL>> = <<NL>>
      BY <2>2, Endings
    <3> QED  BY <1>4, <2>2, <3>1 DEF Marked
  <2> QED  BY <2>1, <2>2
<1>14. Rendered(keys, CopiedIn(X, b, c + 1)) = Rendered(keys, W) \o (num \o (old \o (mark \o <<NL>>)))
  <2>1. Rendered(keys, Append(W, line))
          = Rendered(keys, W)
              \o (Numbered(keys, line, WantedUpTo(keys, W, Len(W)) + 1) \o Marked(keys, line))
    BY <1>5, RenderedAppend
  <2>2. CopiedIn(X, b, c + 1) = Append(W, line)
    BY <1>5
  <2> QED  BY <1>12, <1>13, <2>1, <2>2, Zenon
<1>15. o = (Rendered(keys, W) \o num) \o old
  BY Zenon DEF PrintedTo, TextIn
<1>16. Rendered(keys, W) \in Entries /\ num \in Entries /\ mark \in Entries /\ <<NL>> \in Entries
  <2>1. mark \in Entries /\ <<NL>> \in Entries
    BY Endings
  <2> QED  BY <1>5, <2>1, RenderedType, NumberTextType
<1>17. (((Rendered(keys, W) \o num) \o old) \o mark) \o <<NL>>
         = Rendered(keys, W) \o (num \o (old \o (mark \o <<NL>>)))
  <2> DEFINE R == Rendered(keys, W)
             z == <<NL>>
  <2>1. R \in Entries /\ num \in Entries /\ old \in Entries /\ mark \in Entries /\ z \in Entries
    BY <1>3, <1>16
  <2> HIDE DEF R, num, old, mark, z
  <2>2. Join(R, num) \in Entries /\ Join(Join(R, num), old) \in Entries /\ Join(mark, z) \in Entries
        /\ Join(old, Join(mark, z)) \in Entries
    BY <2>1, JoinType
  <2>3. Join(Join(Join(Join(R, num), old), mark), z) = Join(Join(Join(R, num), old), Join(mark, z))
    BY <2>1, <2>2, JoinMoves
  <2>4. Join(Join(Join(R, num), old), Join(mark, z)) = Join(Join(R, num), Join(old, Join(mark, z)))
    BY <2>1, <2>2, JoinMoves
  <2>5. Join(Join(R, num), Join(old, Join(mark, z))) = Join(R, Join(num, Join(old, Join(mark, z))))
    BY <2>1, <2>2, JoinMoves
  <2>6. Join(Join(Join(Join(R, num), old), mark), z) = Join(R, Join(num, Join(old, Join(mark, z))))
    BY <2>3, <2>4, <2>5
  <2> QED  BY <2>6, Zenon DEF Join, R, z
<1>18. (o \o mark) \o <<NL>> = Rendered(keys, CopiedIn(X, b, c + 1))
  BY <1>14, <1>15, <1>17
<1> QED  BY <1>1, <1>2, <1>11, <1>18 DEF EndMark


\* At the end of the text all its lines are printed, the last one even without
\* a newline behind it.
LEMMA TextCopied ==
  ASSUME NEW keys, NEW X \in Seq(Entries), NEW b \in Texts, NEW c, c = Len(b) + 1,
         NEW n \in Nat, NEW o, PrintedTo(keys, X, b, c, n, o)
  PROVE  /\ LinesIn(b, c) \in Nat /\ Len(Lines(b)) <= LinesIn(b, c) + 1
         /\ n = WantedUpTo(keys, X \o Lines(b), Len(X \o Lines(b)))
         /\ o = Rendered(keys, X \o Lines(b))
<1>0. /\ Len(b) \in Nat /\ c - 1 = Len(b) /\ c \in 1..(Len(b) + 1) /\ PlaceIn(b, c)
      /\ (b = <<>> <=> Len(b) = 0)
  <2>1. Len(b) \in Nat /\ (b = <<>> <=> Len(b) = 0)
    BY EmptySeq DEF Texts
  <2> QED  BY <2>1 DEF PrintedTo
<1> DEFINE m == LinesIn(b, c)
           s == StartIn(b, c)
           W == CopiedIn(X, b, c)
           num == NumberText(n, NumberIn(keys, b, s))
<1>1. /\ s \in 1..c /\ s \in Int /\ m \in 0..Len(Lines(b)) /\ Lines(b) \in Seq(Entries)
      /\ SubSeq(b, s, Len(b)) \in Entries
  BY <1>0, PlaceType
<1>2. /\ m \in Nat /\ m = CountUpTo(Newlines(b), Len(b))
      /\ b = <<>> \/ b[Len(b)] = NL => Len(Lines(b)) = m
      /\ b # <<>> /\ b[Len(b)] # NL =>
           /\ Len(Lines(b)) = m + 1 /\ LineEnd(b, m + 1) = Len(b)
           /\ Lines(b)[m + 1] = SubSeq(b, LineEnd(b, m) + 1, Len(b))
  <2>1. m = CountUpTo(Newlines(b), Len(b))
    BY <1>0 DEF LinesIn
  <2> QED  BY <2>1, LastLine
<1>3. s = 1 \/ b[s - 1] = NL
  BY <1>0 DEF PlaceIn
<1>4. \A k \in s..Len(b) : b[k] # NL
  BY <1>0 DEF PlaceIn
<1>5. n = WantedUpTo(keys, W, Len(W)) + (IF NumberIn(keys, b, s) THEN 1 ELSE 0)
  BY DEF PrintedTo, LinesNumbered
<1>6. o = (Rendered(keys, W) \o num) \o SubSeq(b, s, Len(b))
  BY <1>0, Zenon DEF PrintedTo, TextIn
<1>7. W \in Seq(Entries) /\ Rendered(keys, W) \in Entries /\ num \in Entries
      /\ WantedUpTo(keys, W, Len(W)) \in Nat
  <2>1. W \in Seq(Entries)
    BY <1>1, LinesBehind DEF CopiedIn
  <2>2. Len(W) \in Nat
    BY <2>1
  <2> QED  BY <2>1, <2>2, RenderedType, NumberTextType, WantedType
<1>8. CASE b = <<>> \/ b[Len(b)] = NL
  <2>1. ~(s <= Len(b))
    <3>1. CASE b = <<>>
      BY <1>0, <1>1, <3>1
    <3>2. CASE b # <<>> /\ b[Len(b)] = NL
      <4>1. Len(b) \notin s..Len(b)
        BY <1>4, <3>2
      <4> QED  BY <1>0, <1>1, <4>1
    <3> QED  BY <1>8, <3>1, <3>2
  <2>2. W = X \o Lines(b)
    <3>1. Len(Lines(b)) = m /\ m \in 0..Len(Lines(b))
      BY <1>1, <1>2, <1>8
    <3> HIDE DEF m
    <3>2. X \o SubSeq(Lines(b), 1, m) = X \o Lines(b)
      BY <1>1, <3>1, LinesBehind
    <3> QED  BY <3>2, Zenon DEF CopiedIn, m
  <2>3. ~NumberIn(keys, b, s)
    BY <2>1 DEF NumberIn
  <2>4. n = WantedUpTo(keys, W, Len(W))
    BY <1>5, <1>7, <2>3
  <2>5. num = <<>> /\ SubSeq(b, s, Len(b)) = <<>>
    <3>1. num = <<>>
      BY <2>3 DEF NumberText
    <3>2. Len(b) < s
      BY <1>0, <1>1, <2>1
    <3> QED  BY <1>0, <1>1, <3>1, <3>2, SubSeqEmpty
  <2>6. o = Rendered(keys, W)
    <3> DEFINE R == Rendered(keys, W)
    <3>1. (R \o <<>>) \o <<>> = R
      <4>1. R \in Seq(Tokens)
        BY <1>7 DEF Entries
      <4> HIDE DEF R
      <4>2. R \o <<>> = R
        BY <4>1, ConcatEmptySeq
      <4> QED  BY <4>2
    <3> QED  BY <1>6, <2>5, <3>1
  <2>7. Len(Lines(b)) <= m + 1
    BY <1>2, <1>8
  <2> QED  BY <1>2, <2>2, <2>4, <2>6, <2>7
<1>9. CASE b # <<>> /\ b[Len(b)] # NL
  <2> DEFINE line == Lines(b)[m + 1]
  <2>1. line = SubSeq(b, s, Len(b)) /\ Len(Lines(b)) = m + 1
    BY <1>2, <1>9, Zenon DEF StartIn
  <2>2. s <= Len(b)
    <3>1. CASE s = Len(b) + 1
      <4>1. s - 1 = Len(b) /\ s # 1
        BY <1>0, <1>9, <3>1
      <4> QED  BY <1>3, <1>9, <4>1
    <3> QED  BY <1>0, <1>1, <3>1
  <2>3. X \o Lines(b) = Append(W, line) /\ line \in Entries
    <3>1. /\ m < Len(Lines(b)) /\ m \in 0..Len(Lines(b)) /\ Len(Lines(b)) = m + 1
      BY <1>1, <1>2, <2>1
    <3> HIDE DEF m
    <3>2. /\ Lines(b)[m + 1] \in Entries
          /\ X \o SubSeq(Lines(b), 1, m + 1)
               = Append(X \o SubSeq(Lines(b), 1, m), Lines(b)[m + 1])
      BY <1>1, <3>1, LinesBehind
    <3>3. SubSeq(Lines(b), 1, m + 1) = Lines(b)
      BY <1>1, <3>1, SubSeqFull
    <3> QED  BY <3>2, <3>3, Zenon DEF CopiedIn, m
  <2>4. Last(line) = b[Len(b)] /\ Len(line) \in Nat
    <3> HIDE DEF s, line
    <3>1. /\ s >= 1 /\ Len(b) \in Int /\ Len(b) - s + 1 \in 1..(Len(b) - s + 1)
          /\ s + (Len(b) - s + 1) - 1 = Len(b) /\ Len(b) <= Len(b)
      BY <1>0, <1>1, <2>2
    <3>2. /\ Len(SubSeq(b, s, Len(b))) = Len(b) - s + 1
          /\ SubSeq(b, s, Len(b))[Len(b) - s + 1] = b[s + (Len(b) - s + 1) - 1]
      BY <1>1, <2>2, <3>1, SliceType DEF Texts
    <3>3. Len(line) = Len(b) - s + 1 /\ line[Len(b) - s + 1] = b[Len(b)]
      BY <2>1, <3>1, <3>2
    <3> QED  BY <1>0, <1>1, <2>2, <3>3 DEF Last
  <2>5. Last(line) # NL /\ Last(line) # "HELP"
    <3>1. b[Len(b)] \in {"x", NL}
      <4>1. Len(b) \in 1..Len(b)
        BY <1>0, <1>9
      <4> QED  BY <4>1, ElementOfSeq DEF Texts
    <3>2. "x" # "HELP" /\ NL # "HELP"
      BY DEF NL
    <3> QED  BY <1>9, <2>4, <3>1, <3>2
  <2>6. Marked(keys, line) = line
    BY <2>5 DEF Marked
  <2>7. Wanted(keys, line) <=> NumberIn(keys, b, s)
    <3>1. line # <<NL>> /\ line # HelpText
      <4>1. Last(<<NL>>) = NL /\ Last(HelpText) = "HELP"
        BY DEF Last, HelpText
      <4> HIDE DEF line
      <4> QED  BY <2>5, <4>1
    <3>2. b[s] # NL
      <4>1. s \in s..Len(b)
        BY <1>0, <1>1, <2>2
      <4> QED  BY <1>4, <4>1
    <3> HIDE DEF s, line
    <3> QED  BY <2>2, <3>1, <3>2 DEF Wanted, NumberIn
  <2>8. WantedUpTo(keys, Append(W, line), Len(Append(W, line)))
          = WantedUpTo(keys, W, Len(W)) + (IF Wanted(keys, line) THEN 1 ELSE 0)
    BY <1>7, <2>3, WantedAppend
  <2>9. n = WantedUpTo(keys, Append(W, line), Len(Append(W, line)))
    BY <1>5, <2>7, <2>8
  <2>10. num = Numbered(keys, line, WantedUpTo(keys, W, Len(W)) + 1)
    BY <1>5, <2>7 DEF NumberText, Numbered
  <2>11. Rendered(keys, Append(W, line)) = Rendered(keys, W) \o (num \o line)
    <3> HIDE DEF num, line, W
    <3>1. Rendered(keys, Append(W, line))
            = Rendered(keys, W)
                \o (Numbered(keys, line, WantedUpTo(keys, W, Len(W)) + 1) \o Marked(keys, line))
      BY <1>7, <2>3, RenderedAppend
    <3> QED  BY <3>1, <2>6, <2>10
  <2>12. (Rendered(keys, W) \o num) \o line = Rendered(keys, W) \o (num \o line)
    <3> DEFINE R == Rendered(keys, W)
    <3>1. R \in Entries /\ num \in Entries /\ line \in Entries
      BY <1>7, <2>3
    <3> HIDE DEF R, num, line
    <3>2. Join(Join(R, num), line) = Join(R, Join(num, line))
      BY <3>1, JoinMoves
    <3> QED  BY <3>2, Zenon DEF Join, R
  <2>13. o = Rendered(keys, Append(W, line))
    BY <1>6, <2>1, <2>11, <2>12
  <2>14. Len(Lines(b)) <= m + 1
    BY <1>2, <2>1
  <2> HIDE DEF line, W, m
  <2> QED  BY <1>2, <2>3, <2>9, <2>13, <2>14 DEF m
<1> QED  BY <1>8, <1>9

-----------------------------------------------------------------------------
(* What the files have printed.                                             *)

LEMMA LinesMove ==
  ASSUME NEW a \in Seq(Entries), NEW b \in Seq(Entries), NEW c \in Seq(Entries)
  PROVE  (a \o b) \o c = a \o (b \o c)
BY ConcatAssociative

\* The help text is printed as it is and has no number.
LEMMA HelpPrinted ==
  ASSUME NEW X \in Seq(Entries)
  PROVE  /\ X \o HelpLines \in Seq(Entries)
         /\ Rendered(flags, X \o HelpLines) = Rendered(flags, X) \o Help
         /\ WantedUpTo(flags, X \o HelpLines, Len(X \o HelpLines)) = WantedUpTo(flags, X, Len(X))
<1>0. Rendered(flags, X) \in Entries /\ WantedUpTo(flags, X, Len(X)) \in Nat /\ Len(X) \in Nat
  BY RenderedType, WantedType
<1>1. CASE "h" \in flags
  <2>1. HelpLines = <<HelpText>> /\ Help = HelpText
    BY <1>1 DEF HelpLines, Help
  <2>2. HelpText \in Entries
    BY TextEntries
  <2>3. X \o HelpLines = Append(X, HelpText) /\ Append(X, HelpText) \in Seq(Entries)
    BY <2>1, <2>2, AppendIsConcat, AppendProperties
  <2>4. ~Wanted(flags, HelpText) /\ Marked(flags, HelpText) = HelpText
    <3>1. Last(HelpText) = "HELP" /\ "HELP" # NL
      BY DEF HelpText, Last, NL
    <3> QED  BY <3>1 DEF Wanted, Marked
  <2>5. Rendered(flags, Append(X, HelpText))
          = Rendered(flags, X)
              \o (Numbered(flags, HelpText, WantedUpTo(flags, X, Len(X)) + 1)
                    \o Marked(flags, HelpText))
    BY <2>2, RenderedAppend
  <2>6. Numbered(flags, HelpText, WantedUpTo(flags, X, Len(X)) + 1) \o Marked(flags, HelpText) = HelpText
    <3>1. <<>> \o HelpText = HelpText
      BY <2>2, ConcatEmptySeq DEF Entries
    <3> QED  BY <2>4, <3>1 DEF Numbered
  <2>7. WantedUpTo(flags, Append(X, HelpText), Len(Append(X, HelpText))) = WantedUpTo(flags, X, Len(X))
    BY <1>0, <2>2, <2>4, WantedAppend
  <2> QED  BY <2>1, <2>3, <2>5, <2>6, <2>7
<1>2. CASE "h" \notin flags
  <2>1. HelpLines = <<>> /\ Help = <<>>
    BY <1>2 DEF HelpLines, Help
  <2>2. X \o HelpLines = X /\ Rendered(flags, X) \o Help = Rendered(flags, X)
    <3>1. X \o <<>> = X
      BY ConcatEmptySeq
    <3>2. Rendered(flags, X) \o <<>> = Rendered(flags, X)
      BY <1>0, ConcatEmptySeq DEF Entries
    <3> QED  BY <2>1, <3>1, <3>2
  <2> QED  BY <2>2
<1> QED  BY <1>1, <1>2

LEMMA PassedType ==
  ASSUME Core, Parsed
  PROVE  /\ IsInput(args, disk, stdin) /\ N \in Int /\ Len(args) \in Nat
         /\ FirstOperand \in Nat \ {0} /\ optind \in Nat /\ optind <= Len(args) + 1
         /\ Passed \in Nat /\ FirstOperand + Passed = optind
         /\ LinesUpTo(Passed) \in Seq(Entries) /\ LinesUpTo(0) = <<>>
<1>1. /\ IsInput(args, disk, stdin) /\ N \in Int /\ Len(args) \in Nat
      /\ optind \in 1..(Len(args) + 1) /\ FirstOperand \in 1..optind
  BY DEF Core, TypeInv, TypeOK, InputsInv, IsInput, KeysInv
<1>2. Passed \in Nat /\ FirstOperand + Passed = optind /\ FirstOperand \in Nat \ {0}
      /\ optind \in Nat /\ optind <= Len(args) + 1
  BY <1>1 DEF Passed
<1>3. LinesUpTo(Passed) \in Seq(Entries) /\ LinesUpTo(0) = <<>>
  BY <1>1, <1>2, LinesUpToStep
<1> QED  BY <1>1, <1>2, <1>3

\* The text being copied.
LEMMA TextType ==
  ASSUME Core, InText
  PROVE  /\ file.bytes \in Texts /\ cur \in 0..(Len(file.bytes) + 1) /\ Len(file.bytes) \in Nat
         /\ I \in Nat /\ Parsed /\ optind > FirstOperand /\ IsFile(Named(args[optind - 1]))
         /\ Readable(Named(args[optind - 1])) /\ file = Buffer(Named(args[optind - 1]))
         /\ optind - 1 \in FirstOperand..(optind - 1)
<1>1. /\ optind > FirstOperand /\ Readable(Named(args[optind - 1]))
      /\ file = Buffer(Named(args[optind - 1])) /\ IsFile(file) /\ Parsed
  BY DEF Core, TypeInv, InputsInv, InText, Parsed
<1>2. /\ FirstOperand \in Nat \ {0} /\ Len(args) \in Nat /\ optind \in Nat
      /\ optind <= Len(args) + 1 /\ IsInput(args, disk, stdin)
  BY <1>1, PassedType
<1>3. optind - 1 \in 1..Len(args) /\ optind - 1 \in FirstOperand..(optind - 1)
  BY <1>1, <1>2
<1>4. IsFile(Named(args[optind - 1]))
  BY <1>2, <1>3, NamedIsFile
<1>5. file.bytes \in Texts
  BY <1>1, <1>4, BufferIs
<1>6. cur \in 0..(Len(file.bytes) + 1) /\ I \in Nat
  BY SizesAssumption DEF Core, TypeInv, TypeOK, Sz, InText
<1> QED  BY <1>1, <1>3, <1>4, <1>5, <1>6, TextSets

\* It is the last operand gone through, if its size is told right.
LEMMA TextLines ==
  ASSUME Core, InText, SizeTold(Named(args[optind - 1]))
  PROVE  /\ Before \in Seq(Entries)
         /\ LinesUpTo(Passed) = Before \o Asked(Lines(file.bytes))
<1>0. Parsed /\ file.bytes \in Texts /\ optind > FirstOperand
  BY TextType
<1>1. /\ file.bytes = Named(args[optind - 1]).bytes
      /\ Named(args[optind - 1]).kind = "text"
  BY TextType, BufferWhole DEF Readable
<1>3. /\ Passed \in Nat /\ Passed > 0 /\ FirstOperand + Passed - 1 = optind - 1
      /\ FirstOperand + Passed <= Len(args) + 1 /\ IsInput(args, disk, stdin) /\ N \in Int
  BY <1>0, PassedType
<1>4. /\ LinesUpTo(Passed - 1) \in Seq(Entries)
      /\ LinesUpTo(Passed) = LinesUpTo(Passed - 1) \o FileLines(Passed)
  BY <1>3, LinesUpToStep
<1>5. HelpLines \in Seq(Entries)
  BY TextEntries DEF HelpLines
<1>6. FileLines(Passed) = HelpLines \o Asked(Lines(file.bytes))
  BY <1>1, <1>3 DEF FileLines, LinesOf
<1>7. Asked(Lines(file.bytes)) \in Seq(Entries)
  BY <1>0, <1>3, LinesType, AskedType
<1>8. Before = LinesUpTo(Passed - 1) \o HelpLines
  BY DEF Before, LinesUpTo
<1>9. Before \in Seq(Entries)
  BY <1>4, <1>5, <1>8, ConcatProperties
<1>10. LinesUpTo(Passed) = Before \o Asked(Lines(file.bytes))
  <2>1. /\ LinesUpTo(Passed - 1) \in Seq(Entries)
        /\ LinesUpTo(Passed) = LinesUpTo(Passed - 1) \o FileLines(Passed)
    BY <1>4
  <2>2. (LinesUpTo(Passed - 1) \o HelpLines) \o Asked(Lines(file.bytes))
          = LinesUpTo(Passed - 1) \o (HelpLines \o Asked(Lines(file.bytes)))
    BY <1>5, <1>7, <2>1, LinesMove
  <2> QED  BY <1>6, <1>8, <2>1, <2>2
<1> QED  BY <1>9, <1>10

\* The invariant of the copying loop, with the text as a parameter.
CopyAt(c, i, n, o) ==
  /\ PrintedTo(flags, Before, file.bytes, c, n, o)
  /\ "d" \in flags => i = LinesIn(file.bytes, c) /\ (N > 0 => i < N)

LEMMA CopyInvIs ==
  ASSUME Core, InText
  PROVE  CopyInv <=> CopyAt(cur, i1, I, out)
<1>1. LinesPassed = LinesIn(file.bytes, cur) /\ LineStart = StartIn(file.bytes, cur)
      /\ Copied = CopiedIn(Before, file.bytes, cur)
  BY DEF LinesPassed, LinesIn, LineStart, StartIn, Copied, CopiedIn
<1>2. \A k \in 1..Len(file.bytes) : ByteAt(k) = file.bytes[k]
  BY TextType DEF ByteAt, Sz
<1>3. cur \in 0..(Len(file.bytes) + 1) /\ Len(file.bytes) \in Nat
  BY TextType
<1> DEFINE s == StartIn(file.bytes, cur)
<1>4. ASSUME s \in 1..cur
      PROVE  /\ NumberOut <=> NumberIn(flags, file.bytes, s)
             /\ s = 1 \/ ByteAt(s - 1) = NL <=> s = 1 \/ file.bytes[s - 1] = NL
             /\ \A k \in s..(cur - 1) : ByteAt(k) = file.bytes[k]
  <2>1. s <= Len(file.bytes) => s \in 1..Len(file.bytes)
    BY <1>3, <1>4
  <2>2. s # 1 => s - 1 \in 1..Len(file.bytes)
    BY <1>3, <1>4
  <2>3. \A k \in s..(cur - 1) : k \in 1..Len(file.bytes)
    BY <1>3, <1>4
  <2> HIDE DEF s
  <2>4. NumberOut <=> NumberIn(flags, file.bytes, s)
    BY <1>1, <1>2, <2>1 DEF NumberOut, NumberIn, Sz, s
  <2> QED  BY <1>2, <2>2, <2>3, <2>4
<1>5. ASSUME s \in 1..cur
      PROVE  /\ s = 1 \/ ByteAt(s - 1) = NL <=> s = 1 \/ file.bytes[s - 1] = NL
             /\ (\A k \in s..(cur - 1) : ByteAt(k) # NL) <=> (\A k \in s..(cur - 1) : file.bytes[k] # NL)
             /\ NumberOut <=> NumberIn(flags, file.bytes, s)
  BY <1>4, <1>5
<1> HIDE DEF s
<1>6. CASE s \in 1..cur
  BY <1>1, <1>5, <1>6, Zenon
    DEF CopyInv, CopyAt, PrintedTo, PlaceIn, LinesNumbered, TextIn, NumberText, s
<1>7. CASE s \notin 1..cur
  BY <1>1, <1>7, Zenon DEF CopyInv, CopyAt, PrintedTo, PlaceIn, s
<1> QED  BY <1>6, <1>7

\* What the invariant looks at lies in the text.
LEMMA PlaceInside ==
  ASSUME NEW b \in Texts, NEW c \in 0..(Len(b) + 1), PlaceIn(b, c)
  PROVE  /\ StartIn(b, c) <= Len(b) => StartIn(b, c) \in 1..Len(b)
         /\ StartIn(b, c) # 1 => StartIn(b, c) - 1 \in 1..Len(b)
         /\ \A k \in StartIn(b, c)..(c - 1) : k \in 1..Len(b)
<1>1. Len(b) \in Nat /\ StartIn(b, c) \in 1..c
  BY TextSets DEF PlaceIn
<1> QED  BY <1>1

LEMMA CopyInvNext ==
  ASSUME Core, InText, InText', UNCHANGED <<inputs, flags, N, optind, file>>,
         cur' \in 0..(Sz + 1), CopyAt(cur', i1', I', out')
  PROVE  CopyInv'
<1>0. Before' = Before
  <2>1. Passed' = Passed /\ LinesUpTo(Passed - 1)' = LinesUpTo(Passed - 1) /\ HelpLines' = HelpLines
    BY LinesUpToKept DEF Passed, inputs
  <2> QED  BY <2>1 DEF Before, LinesUpTo
<1>1. /\ LinesPassed' = LinesIn(file.bytes, cur') /\ LineStart' = StartIn(file.bytes, cur')
      /\ Copied' = CopiedIn(Before, file.bytes, cur')
  BY <1>0 DEF LinesPassed, LinesIn, LineStart, StartIn, Copied, CopiedIn
<1>2. \A k \in 1..Len(file.bytes) : ByteAt(k)' = file.bytes[k]
  BY TextType DEF ByteAt, Sz
<1>3. cur' \in 0..(Len(file.bytes) + 1) /\ Len(file.bytes) \in Nat /\ Sz' = Len(file.bytes)
  BY TextType DEF Sz
<1>s. PICK s : s = StartIn(file.bytes, cur')
  OBVIOUS
<1>4. s \in 1..cur' /\ (s = 1 \/ file.bytes[s - 1] = NL)
      /\ \A k \in s..(cur' - 1) : file.bytes[k] # NL
  BY <1>s DEF CopyAt, PrintedTo, PlaceIn
<1>5. /\ s <= Len(file.bytes) => s \in 1..Len(file.bytes)
      /\ s # 1 => s - 1 \in 1..Len(file.bytes)
      /\ \A k \in s..(cur' - 1) : k \in 1..Len(file.bytes)
  BY <1>s, <1>3, PlaceInside, TextType DEF CopyAt, PrintedTo
<1>6. NumberOut' <=> NumberIn(flags, file.bytes, s)
  <2>1. NumberOut' <=> s <= Len(file.bytes) /\ ("n" \in flags \/ ("b" \in flags /\ ByteAt(s)' # NL))
    BY <1>s, <1>1, <1>3 DEF NumberOut
  <2> QED  BY <2>1, <1>2, <1>5 DEF NumberIn
<1>7. /\ s = 1 \/ ByteAt(s - 1)' = NL
      /\ \A k \in s..(cur' - 1) : ByteAt(k)' # NL
  BY <1>2, <1>4, <1>5
<1>8. (LineStart = 1 \/ ByteAt(LineStart - 1) = NL)'
  BY <1>s, <1>1, <1>7
<1>9. (\A k \in LineStart..(cur - 1) : ByteAt(k) # NL)'
  BY <1>1, <1>7, <1>s, Zenon
<1>10. ("d" \in flags => i1 = LinesPassed /\ (N > 0 => i1 < N))'
  BY <1>1 DEF CopyAt
<1>11. (I = WantedUpTo(flags, Copied, Len(Copied)) + (IF NumberOut THEN 1 ELSE 0))'
  BY <1>s, <1>1, <1>6 DEF CopyAt, PrintedTo, LinesNumbered
<1>12. (out = Rendered(flags, Copied) \o (IF NumberOut THEN <<ToString(I)>> ELSE <<>>)
              \o SubSeq(file.bytes, LineStart, cur - 1))'
  BY <1>s, <1>1, <1>6, Zenon DEF CopyAt, PrintedTo, TextIn, NumberText
<1> QED  BY <1>s, <1>1, <1>4, <1>8, <1>9, <1>10, <1>11, <1>12 DEF CopyInv

-----------------------------------------------------------------------------
(* A file opened, a number before its first line.                           *)

\* What has to be printed exactly, and that it has been.
Printing == /\ Parsed /\ flags \intersect {"l", "stdin"} = {}
            /\ \A f \in Opened : SizeTold(f) /\ NumbersTold(f)
FilesPrinted ==
  Printing =>
    /\ pc \in {"main", "exit0"} => PrintedAre(LinesUpTo(Passed))
    /\ pc = "exitFile" => PrintedAre(Before)
    /\ pc = "number" => cur = 1 /\ i1 = 0 /\ PrintedAre(Before)
    /\ pc = "copy" => CopyInv

LEMMA FilesInvIs == FilesInv <=> FilesPlace /\ FilesPrinted
BY DEF FilesInv, FilesPlace, FilesPrinted, Printing, LinesUpTo

LEMMA PrintingKept ==
  ASSUME Core, UNCHANGED <<args, disk, flags>>, Parsed, Printing', optind' \in {optind, optind + 1}
  PROVE  Printing
<1>1. FirstOperand' = FirstOperand
  BY DEF FirstOperand, Operand, TakenAsCount
<1>2. \A k : Named(args[k])' = Named(args[k])
  BY DEF Named
<1>3. FirstOperand \in Nat /\ optind \in Nat
  BY PassedType
<1>4. FirstOperand..(optind - 1) \subseteq (FirstOperand..(optind - 1))'
  <2>1. CASE optind' = optind
    BY <1>1, <2>1
  <2>2. CASE optind' = optind + 1
    <3>1. (FirstOperand..(optind - 1))' = FirstOperand..((optind + 1) - 1)
      BY <1>1, <2>2
    <3>2. FirstOperand..(optind - 1) \subseteq FirstOperand..((optind + 1) - 1)
      BY <1>3
    <3> QED  BY <3>1, <3>2
  <2> QED  BY <2>1, <2>2
<1>5. Opened \subseteq Opened'
  BY <1>2, <1>4 DEF Opened
<1>6. \A f \in Opened : (SizeTold(f) /\ NumbersTold(f))
  <2> TAKE f \in Opened
  <2>1. f \in Opened'
    BY <1>5
  <2>2. f.kind = "text" => Len(f.bytes) + 1 < Word
    BY <2>1 DEF Printing, SizeTold
  <2>3. f.kind = "text" /\ flags \intersect {"n", "b"} # {} =>
          f.bytes # <<>> /\ (Last(f.bytes) = NL => f.past = NUL)
    BY <2>1 DEF Printing, NumbersTold
  <2> QED  BY <2>2, <2>3 DEF SizeTold, NumbersTold
<1> QED  BY <1>6 DEF Printing

LEMMA EndOfKeysPrinted ==
  ASSUME Core, EndOfKeys PROVE FilesPrinted'
<1>1. FirstOperand' = optind' /\ optind' \in Nat
  BY EndOfKeysKeys DEF EndOfKeys, Core, TypeInv, TypeOK, InputsInv, IsInput
<1>2. Passed' = 0
  <2>1. Passed' = optind' - FirstOperand'
    BY DEF Passed
  <2>2. \A d \in Nat : d - d = 0
    OBVIOUS
  <2> QED  BY <1>1, <2>1, <2>2, Zenon
<1>3. LinesUpTo(Passed)' = <<>>
  <2>1. LinesUpTo(Passed)' = FlattenSeq([k \in 1..0 |-> FileLines(k)'])
    BY <1>2 DEF LinesUpTo, LinesOfFirst, FileLines
  <2>2. [k \in 1..0 |-> FileLines(k)'] = <<>>
    OBVIOUS
  <2> QED  BY <2>1, <2>2, FlattenEmpty
<1>4. out' = <<>> /\ I' = 0 /\ pc' = "main"
  BY DEF EndOfKeys, Core, KeysInv, Parsed
<1>5. PrintedAre(LinesUpTo(Passed))'
  BY <1>3, <1>4, RenderedNone DEF PrintedAre
<1> QED  BY <1>4, <1>5 DEF FilesPrinted

LEMMA CatFilePrinted ==
  ASSUME Core, FilesPrinted, CatFile PROVE FilesPrinted'
<1> SUFFICES ASSUME Printing'
             PROVE  /\ pc' \in {"main", "exit0"} => PrintedAre(LinesUpTo(Passed))'
                    /\ pc' = "exitFile" => PrintedAre(Before)'
                    /\ pc' = "number" => cur' = 1 /\ i1' = 0 /\ PrintedAre(Before)'
                    /\ pc' = "copy" => CopyInv'
  BY DEF FilesPrinted
<1>0. /\ UNCHANGED <<inputs, rest, letter, flags, N, I>> /\ UNCHANGED <<args, disk, flags, N>>
      /\ optind' = optind + 1 /\ out' = out \o Help /\ pc = "main" /\ Parsed /\ optind <= Len(args)
  BY DEF CatFile, inputs, Parsed
<1>1. Printing
  BY <1>0, PrintingKept
<1>2. PrintedAre(LinesUpTo(Passed))
  BY <1>0, <1>1 DEF FilesPrinted
<1>3. /\ Passed \in Nat /\ FirstOperand + Passed = optind /\ LinesUpTo(Passed) \in Seq(Entries)
      /\ IsInput(args, disk, stdin) /\ N \in Int /\ Len(args) \in Nat /\ FirstOperand \in Nat
      /\ optind \in 1..Len(args)
  BY <1>0, PassedType DEF Core, TypeInv, TypeOK
<1> DEFINE X == LinesUpTo(Passed)
<1>4. FirstOperand' = FirstOperand /\ Help' = Help /\ HelpLines' = HelpLines
      /\ \A n : LinesUpTo(n)' = LinesUpTo(n)
  BY <1>0, LinesUpToKept
<1>5. Passed' = Passed + 1 /\ Passed' - 1 = Passed
  <2>1. Passed' = (optind + 1) - FirstOperand
    BY <1>0, <1>4 DEF Passed
  <2> QED  BY <1>3, <2>1
<1>6. /\ X \o HelpLines \in Seq(Entries)
      /\ Rendered(flags, X \o HelpLines) = Rendered(flags, X) \o Help
      /\ WantedUpTo(flags, X \o HelpLines, Len(X \o HelpLines)) = WantedUpTo(flags, X, Len(X))
  BY <1>3, HelpPrinted
<1>7. /\ out' = Rendered(flags, X \o HelpLines)
      /\ I' = WantedUpTo(flags, X \o HelpLines, Len(X \o HelpLines))
  BY <1>0, <1>2, <1>6 DEF PrintedAre
<1>8. ASSUME Skipped(Named(args[optind]))
      PROVE  PrintedAre(LinesUpTo(Passed))'
  <2>1. Named(args[optind]).kind # "text"
    <3> DEFINE f == Named(args[optind])
    <3>1. SizeTold(f)
      <4>1. (\A k \in FirstOperand..(optind - 1) : SizeTold(Named(args[k])))'
        <5>1. (\A g \in Opened : SizeTold(g))'
          BY Zenon DEF Printing
        <5> QED  BY <5>1, Zenon DEF Opened
      <4>2. \A k \in FirstOperand'..(optind' - 1) : SizeTold(Named(args[k]))
        BY <1>0, <4>1 DEF SizeTold, Named
      <4>3. optind \in FirstOperand'..(optind' - 1)
        <5>1. FirstOperand <= optind /\ optind \in Int /\ (optind + 1) - 1 = optind
          BY <1>3
        <5>2. optind \in FirstOperand..((optind + 1) - 1)
          BY <1>3, <5>1
        <5> QED  BY <1>0, <1>4, <5>2
      <4> QED  BY <4>2, <4>3, Zenon
    <3>2. IsFile(f)
      BY <1>3, NamedIsFile
    <3> HIDE DEF f
    <3>3. ASSUME f.kind = "text" PROVE FALSE
      <4>1. Len(f.bytes) \in Nat /\ Len(f.bytes) + 1 < Word
        BY <3>1, <3>2, <3>3 DEF IsFile, SizeTold
      <4>2. ToInt(Len(f.bytes)) = -1 /\ IntMax \in Nat
        BY <1>8, <3>3, SizesAssumption DEF Skipped, SizeOf, f
      <4> QED  BY <4>1, <4>2, SizeIs
    <3> QED  BY <3>3 DEF f
  <2>2. FileLines(Passed + 1) = HelpLines
    <3>1. FirstOperand + (Passed + 1) - 1 = optind
      BY <1>3
    <3>2. HelpLines \o <<>> = HelpLines
      <4>1. HelpLines \in Seq(Entries)
        BY TextEntries DEF HelpLines
      <4> QED  BY <4>1, ConcatEmptySeq
    <3> QED  BY <2>1, <3>1, <3>2 DEF FileLines, LinesOf
  <2>3. LinesUpTo(Passed + 1) = X \o HelpLines
    <3>1. /\ Passed + 1 \in Nat /\ FirstOperand + (Passed + 1) <= Len(args) + 1 /\ Passed + 1 > 0
          /\ (Passed + 1) - 1 = Passed
      BY <1>3
    <3>2. LinesUpTo(Passed + 1) = LinesUpTo((Passed + 1) - 1) \o FileLines(Passed + 1)
      BY <1>3, <3>1, LinesUpToStep
    <3> QED  BY <2>2, <3>1, <3>2
  <2>4. LinesUpTo(Passed)' = X \o HelpLines
    <3>1. LinesUpTo(Passed)' = LinesUpTo(Passed')
      BY <1>0, <1>4 DEF LinesUpTo, LinesOfFirst, LinesOf, Named, Asked
    <3> QED  BY <1>5, <2>3, <3>1
  <2> QED  BY <1>0, <1>7, <2>4 DEF PrintedAre
<1>9. PrintedAre(Before)'
  <2>1. Before' = X \o HelpLines
    <3>1. Before' = LinesUpTo(Passed' - 1) \o HelpLines
      BY <1>0, <1>4 DEF Before, LinesUpTo, LinesOfFirst, LinesOf, Named, Asked
    <3> QED  BY <1>5, <3>1
  <2> QED  BY <1>0, <1>7, <2>1 DEF PrintedAre
<1>10. \/ Skipped(Named(args[optind])) /\ pc' = "main"
       \/ pc' = "exitFile"
       \/ cur' = 1 /\ i1' = 0 /\ pc' = "number"
  BY <1>0, <1>1, Zenon DEF CatFile, Printing
<1> QED  BY <1>8, <1>9, <1>10

\* What Printing says of the text being copied.
LEMMA TextDecided ==
  ASSUME Core, InText, Printing
  PROVE  /\ SizeTold(Named(args[optind - 1]))
         /\ flags \intersect {"n", "b"} # {} =>
              file.bytes # <<>> /\ (file.bytes[Len(file.bytes)] = NL => file.past = NUL)
<1> DEFINE f == Named(args[optind - 1])
<1>1. f \in Opened /\ IsFile(f) /\ Readable(f) /\ file = Buffer(f)
  BY TextType DEF Opened
<1>2. SizeTold(f) /\ NumbersTold(f)
  BY <1>1 DEF Printing
<1> HIDE DEF f
<1>3. file.bytes = f.bytes /\ file.past = f.past /\ f.kind = "text"
  BY <1>1, <1>2, BufferWhole DEF Readable
<1> QED  BY <1>2, <1>3 DEF NumbersTold, Last, f

LEMMA FirstNumberPrinted ==
  ASSUME Core, Core', FilesPrinted, FirstNumber PROVE FilesPrinted'
<1> SUFFICES ASSUME Printing' PROVE CopyInv'
  BY DEF FilesPrinted, FirstNumber
<1>0. /\ UNCHANGED <<inputs, flags, N, optind, file>> /\ UNCHANGED <<args, disk, flags>>
      /\ UNCHANGED <<cur, i1>>
      /\ pc = "number" /\ pc' = "copy" /\ Parsed /\ InText /\ InText'
  BY DEF FirstNumber, inputs, Parsed, InText
<1>1. Printing
  BY <1>0, PrintingKept
<1>2. cur = 1 /\ i1 = 0 /\ PrintedAre(Before)
  BY <1>0, <1>1 DEF FilesPrinted
<1> DEFINE b == file.bytes
           X == Before
           wanted == NumberIn(flags, b, 1)
<1>3. b \in Texts /\ X \in Seq(Entries) /\ Len(b) \in Nat /\ I \in Nat
  BY <1>0, <1>1, TextType, TextDecided, TextLines
<1>4. LinesIn(b, 1) = 0 /\ StartIn(b, 1) = 1 /\ CopiedIn(X, b, 1) = X /\ 1 \in 1..(Len(b) + 1)
  BY <1>3, TextBegins
<1>5. PrintedTo(flags, X, b, 1, I + (IF wanted THEN 1 ELSE 0), out \o NumberText(I + 1, wanted))
  <2>1. wanted \in BOOLEAN
    BY DEF NumberIn
  <2>2. I = WantedUpTo(flags, CopiedIn(X, b, 1), Len(CopiedIn(X, b, 1)))
        /\ out = Rendered(flags, CopiedIn(X, b, 1))
    BY <1>2, <1>4 DEF PrintedAre
  <2> HIDE DEF X, b
  <2> QED  BY <1>3, <1>4, <2>1, <2>2, LineBegins
<1>6. wanted <=> FirstNumbered
  <2>1. flags \intersect {"n", "b"} # {} => Len(b) >= 1
    <3>1. flags \intersect {"n", "b"} # {} => b # <<>>
      BY <1>0, <1>1, TextDecided
    <3> QED  BY <1>3, <3>1, EmptySeq DEF Texts
  <2>2. Len(b) >= 1 => ByteAt(1) = b[1]
    BY DEF ByteAt, Sz
  <2>3. "n" \in flags \/ "b" \in flags => Len(b) >= 1
    BY <2>1
  <2> HIDE DEF b
  <2> QED  BY <1>2, <2>2, <2>3 DEF NumberIn, FirstNumbered
<1>7. I' = I + (IF wanted THEN 1 ELSE 0) /\ out' = out \o NumberText(I + 1, wanted)
  <2>1. IF wanted THEN out' = out \o <<ToString(I + 1)>> /\ I' = I + 1
                  ELSE out' = out /\ I' = I
    BY <1>6 DEF FirstNumber, Number
  <2>2. out \o <<>> = out
    BY DEF Core, TypeInv, TypeOK
  <2> HIDE DEF wanted
  <2>3. CASE wanted
    BY <2>1, <2>3 DEF NumberText
  <2>4. CASE ~wanted
    <3>1. out' = out /\ I' = I
      BY <2>1, <2>4
    <3>2. NumberText(I + 1, wanted) = <<>>
      BY <2>4 DEF NumberText
    <3>3. I + 0 = I
      BY <1>3
    <3> QED  BY <2>2, <2>4, <3>1, <3>2, <3>3
  <2> QED  BY <2>3, <2>4
<1>8. PrintedTo(flags, X, b, cur', I', out')
  <2> HIDE DEF X, b, wanted
  <2> QED  BY <1>0, <1>2, <1>5, <1>7
<1>9. CopyAt(cur', i1', I', out')
  BY <1>0, <1>2, <1>4, <1>8 DEF CopyAt
<1>10. cur' \in 0..(Sz + 1)
  BY <1>0, <1>2, <1>3 DEF Sz
<1> QED  BY <1>0, <1>9, <1>10, CopyInvNext

-----------------------------------------------------------------------------
(* The copying loop.                                                        *)

LEMMA PrintedNext ==
  ASSUME UNCHANGED <<inputs, flags, N, optind>>,
         out' = Rendered(flags, LinesUpTo(Passed)),
         I' = WantedUpTo(flags, LinesUpTo(Passed), Len(LinesUpTo(Passed)))
  PROVE  PrintedAre(LinesUpTo(Passed))'
<1>1. LinesUpTo(Passed)' = LinesUpTo(Passed)
  <2>1. FirstOperand' = FirstOperand /\ \A n : LinesUpTo(n)' = LinesUpTo(n)
    BY LinesUpToKept DEF inputs
  <2>2. Passed' = Passed
    BY <2>1 DEF Passed
  <2> QED  BY <2>1, <2>2 DEF inputs, LinesUpTo, LinesOfFirst, LinesOf, Named, Asked, HelpLines
<1> QED  BY <1>1 DEF PrintedAre

\* Where the copying loop stands.
LEMMA Copying ==
  ASSUME Core, FilesPrinted, Printing, pc = "copy"
  PROVE  /\ CopyAt(cur, i1, I, out) /\ InText /\ Parsed
         /\ cur \in 1..(Len(file.bytes) + 1) /\ \A k \in 1..Len(file.bytes) : ByteAt(k) = file.bytes[k]
         /\ Sz = Len(file.bytes) /\ N \in Int /\ i1 \in Nat
<1>0. InText /\ Parsed /\ N \in Int /\ i1 \in Nat
  BY DEF InText, Parsed, Core, TypeInv, TypeOK
<1>1. CopyAt(cur, i1, I, out)
  BY <1>0, CopyInvIs DEF FilesPrinted
<1>2. cur \in 0..(Len(file.bytes) + 1) /\ Len(file.bytes) \in Nat
  BY <1>0, TextType
<1>3. StartIn(file.bytes, cur) \in 1..cur
  BY <1>1 DEF CopyAt, PrintedTo, PlaceIn
<1>4. cur \in 1..(Len(file.bytes) + 1)
  BY <1>2, <1>3
<1>5. \A k \in 1..Len(file.bytes) : ByteAt(k) = file.bytes[k]
  BY <1>2 DEF ByteAt, Sz
<1> QED  BY <1>0, <1>1, <1>4, <1>5 DEF Sz

LEMMA CopyBytePrinted ==
  ASSUME Core, Core', FilesPrinted, CopyByte PROVE FilesPrinted'
<1> SUFFICES ASSUME Printing'
             PROVE  /\ pc' \in {"main", "copy"}
                    /\ pc' = "main" => PrintedAre(LinesUpTo(Passed))'
                    /\ pc' = "copy" => CopyInv'
  BY DEF FilesPrinted
<1>0. /\ UNCHANGED <<inputs, flags, N, optind, file>> /\ UNCHANGED <<args, disk, flags>>
      /\ UNCHANGED <<inputs, flags, N, optind>>
      /\ pc = "copy" /\ Parsed /\ cur <= Sz
  BY DEF CopyByte, inputs, Parsed
<1>1. Printing
  BY <1>0, PrintingKept
<1>2. /\ CopyAt(cur, i1, I, out) /\ InText
      /\ cur \in 1..(Len(file.bytes) + 1) /\ \A k \in 1..Len(file.bytes) : ByteAt(k) = file.bytes[k]
      /\ Sz = Len(file.bytes) /\ N \in Int /\ i1 \in Nat
  BY <1>0, <1>1, Copying
<1> DEFINE b == file.bytes
           X == Before
           m == LinesIn(b, cur)
<1>3. /\ b \in Texts /\ X \in Seq(Entries) /\ Len(b) \in Nat /\ I \in Nat
      /\ LinesUpTo(Passed) = X \o Asked(Lines(b))
  BY <1>2, <1>1, TextType, TextDecided, TextLines
<1>4. /\ cur \in 1..Len(b) /\ ByteAt(cur) = b[cur] /\ cur + 1 \in 1..(Len(b) + 1)
      /\ cur + 1 \in 0..(Sz + 1) /\ (cur + 1) - 1 = cur /\ cur + 1 # 1
  BY <1>0, <1>2, <1>3
<1>5. PrintedTo(flags, X, b, cur, I, out) /\ ("d" \in flags => i1 = m /\ (N > 0 => i1 < N))
  BY <1>2 DEF CopyAt
<1>6. CASE b[cur] # NL
  <2>1. /\ PrintedTo(flags, X, b, cur + 1, I, out \o <<b[cur]>>)
        /\ LinesIn(b, cur + 1) = m
    <3> HIDE DEF X, b
    <3> QED  BY <1>3, <1>4, <1>5, <1>6, ByteCopied
  <2>2. out' = out \o <<b[cur]>> /\ I' = I /\ cur' = cur + 1 /\ i1' = i1 /\ pc' = "copy"
    <3>1. /\ out' = (out \o <<>>) \o <<b[cur]>>
          /\ I' = I /\ cur' = cur + 1 /\ i1' = i1 /\ pc' = "copy"
      BY <1>0, <1>4, <1>6 DEF CopyByte, Number
    <3>2. out \o <<>> = out
      BY DEF Core, TypeInv, TypeOK
    <3> QED  BY <3>1, <3>2
  <2>3. CopyAt(cur', i1', I', out')
    BY <1>5, <2>1, <2>2 DEF CopyAt
  <2>4. InText' /\ cur' \in 0..(Sz + 1)
    BY <1>4, <2>2 DEF InText
  <2>5. CopyInv'
    BY <1>0, <1>2, <2>3, <2>4, CopyInvNext
  <2> QED  BY <2>2, <2>5
<1>7. CASE b[cur] = NL
  <2> DEFINE shown == (out \o EndMark(flags)) \o <<NL>>
             Y == CopiedIn(X, b, cur + 1)
  <2>1. /\ LinesIn(b, cur + 1) = m + 1 /\ LinesIn(b, cur + 1) \in 1..Len(Lines(b))
        /\ StartIn(b, cur + 1) = cur + 1
        /\ I = WantedUpTo(flags, Y, Len(Y))
        /\ shown = Rendered(flags, Y)
    <3>1. /\ LinesIn(b, cur + 1) = LinesIn(b, cur) + 1 /\ LinesIn(b, cur + 1) \in 1..Len(Lines(b))
          /\ StartIn(b, cur + 1) = cur + 1
          /\ I = WantedUpTo(flags, CopiedIn(X, b, cur + 1), Len(CopiedIn(X, b, cur + 1)))
          /\ (out \o EndMark(flags)) \o <<NL>> = Rendered(flags, CopiedIn(X, b, cur + 1))
      <4> HIDE DEF X, b
      <4> QED  BY <1>3, <1>4, <1>5, <1>7, LineCopied
    <3> QED  BY <3>1, Zenon
  <2>2. /\ i1' = IF "d" \in flags THEN i1 + 1 ELSE i1
        /\ IF Enough
           THEN pc' = "main" /\ out' = shown /\ cur' = cur /\ I' = I
           ELSE Number(shown, NumberedAt(cur + 1)) /\ cur' = cur + 1 /\ pc' = "copy"
    <3> DEFINE end == IF ByteAt(cur) = NL /\ "e" \in flags THEN <<"$">> ELSE <<>>
               all == (out \o end) \o <<ByteAt(cur)>>
    <3>1. /\ i1' = IF ByteAt(cur) = NL /\ "d" \in flags THEN i1 + 1 ELSE i1
          /\ IF ByteAt(cur) = NL /\ Enough
             THEN pc' = "main" /\ out' = all /\ cur' = cur /\ I' = I
             ELSE Number(all, ByteAt(cur) = NL /\ NumberedAt(cur + 1)) /\ cur' = cur + 1 /\ pc' = pc
      BY Zenon DEF CopyByte
    <3>2. ByteAt(cur) = NL
      BY <1>4, <1>7
    <3>3. end = EndMark(flags)
      BY <3>2 DEF EndMark
    <3>4. all = shown
      BY <3>2, <3>3
    <3> HIDE DEF end, all, shown
    <3> QED  BY <1>0, <3>1, <3>2, <3>4 DEF Number
  <2> HIDE DEF shown, Y
  <2>3. CASE Enough
    <3>1. "d" \in flags /\ N = m + 1 /\ N > 0
      BY <1>5, <2>1, <2>3, <1>2 DEF Enough
    <3>2. Lines(b) \in Seq(Texts) /\ Len(Lines(b)) \in Nat /\ m + 1 \in 1..Len(Lines(b))
      BY <1>3, <2>1, LinesType
    <3>3. Asked(Lines(b)) = SubSeq(Lines(b), 1, m + 1)
      <4>1. (IF N < Len(Lines(b)) THEN N ELSE Len(Lines(b))) = m + 1
        BY <3>1, <3>2
      <4> QED  BY <3>1, <4>1, Zenon DEF Asked, FirstLines
    <3>4. LinesUpTo(Passed) = Y
      BY <1>3, <2>1, <3>3 DEF Y, CopiedIn
    <3>5. out' = Rendered(flags, LinesUpTo(Passed))
          /\ I' = WantedUpTo(flags, LinesUpTo(Passed), Len(LinesUpTo(Passed)))
      BY <2>1, <2>2, <2>3, <3>4
    <3>6. PrintedAre(LinesUpTo(Passed))'
      BY <1>0, <3>5, PrintedNext
    <3> QED  BY <2>2, <2>3, <3>6
  <2>4. CASE ~Enough
    <3> DEFINE wanted == NumberIn(flags, b, cur + 1)
    <3>1. Number(shown, NumberedAt(cur + 1)) /\ cur' = cur + 1 /\ pc' = "copy"
      BY <2>2, <2>4
    <3>2. PrintedTo(flags, X, b, cur + 1, I + (IF wanted THEN 1 ELSE 0), shown \o NumberText(I + 1, wanted))
      <4>1. wanted \in BOOLEAN
        BY DEF NumberIn
      <4>2. b[(cur + 1) - 1] = NL
        BY <1>4, <1>7
      <4> HIDE DEF X, b
      <4>3. I = WantedUpTo(flags, CopiedIn(X, b, cur + 1), Len(CopiedIn(X, b, cur + 1)))
            /\ shown = Rendered(flags, CopiedIn(X, b, cur + 1))
        BY <2>1 DEF Y
      <4> QED  BY <1>3, <1>4, <2>1, <4>1, <4>2, <4>3, LineBegins
    <3>3. wanted <=> NumberedAt(cur + 1)
      <4>1. CASE cur + 1 <= Len(b)
        <5>1. ByteAt(cur + 1) = b[cur + 1] /\ b[cur + 1] \in {"x", NL}
          <6>1. cur + 1 \in 1..Len(b)
            BY <1>3, <1>4, <4>1
          <6> QED  BY <1>2, <1>3, <6>1, ElementOfSeq DEF Texts
        <5>2. ByteAt(cur + 1) # NUL
          BY <5>1 DEF NL, NUL
        <5> QED  BY <4>1, <5>1, <5>2 DEF NumberIn, NumberedAt
      <4>2. CASE ~(cur + 1 <= Len(b))
        <5>1. cur = Len(b)
          BY <1>3, <1>4, <4>2
        <5>2. flags \intersect {"n", "b"} # {} => file.past = NUL
          BY <1>1, <1>2, <1>7, <5>1, TextDecided DEF Printing
        <5>3. ByteAt(cur + 1) = file.past
          BY <1>2, <1>4, <4>2 DEF ByteAt
        <5>4. ~NumberedAt(cur + 1)
          <6>1. "n" \in flags \/ "b" \in flags => file.past = NUL
            BY <5>2
          <6> QED  BY <5>3, <6>1 DEF NumberedAt
        <5> QED  BY <4>2, <5>4 DEF NumberIn
      <4> QED  BY <4>1, <4>2
    <3>4. I' = I + (IF wanted THEN 1 ELSE 0) /\ out' = shown \o NumberText(I + 1, wanted)
      <4> HIDE DEF wanted
      <4>1. CASE wanted
        BY <3>1, <3>3, <4>1 DEF Number, NumberText
      <4>2. CASE ~wanted
        <5>1. out' = shown /\ I' = I
          BY <3>1, <3>3, <4>2 DEF Number
        <5>2. NumberText(I + 1, wanted) = <<>>
          BY <4>2 DEF NumberText
        <5>3. shown \o <<>> = shown
          <6>1. LinesIn(b, cur + 1) \in 0..Len(Lines(b)) /\ Lines(b) \in Seq(Entries)
            BY <1>3, <2>1, LinesType, TextEntries, SeqMonotonic
          <6>2. Y \in Seq(Entries)
            BY <1>3, <6>1, LinesBehind DEF Y, CopiedIn
          <6>3. shown \in Seq(Tokens)
            BY <2>1, <6>2, RenderedType DEF Entries
          <6> QED  BY <6>3, ConcatEmptySeq
        <5>4. I + 0 = I
          BY <1>3
        <5> QED  BY <4>2, <5>1, <5>2, <5>3, <5>4
      <4> QED  BY <4>1, <4>2
    <3>5. PrintedTo(flags, X, b, cur', I', out')
      <4> HIDE DEF X, b, wanted
      <4> QED  BY <3>1, <3>2, <3>4
    <3>6. "d" \in flags => i1' = LinesIn(b, cur + 1) /\ (N > 0 => i1' < N)
      BY <1>2, <1>5, <2>1, <2>2, <2>4 DEF Enough
    <3>7. CopyAt(cur', i1', I', out')
      BY <3>1, <3>5, <3>6 DEF CopyAt
    <3>8. InText' /\ cur' \in 0..(Sz + 1)
      BY <1>4, <3>1 DEF InText
    <3>9. CopyInv'
      BY <1>0, <1>2, <3>7, <3>8, CopyInvNext
    <3> QED  BY <3>1, <3>9
  <2> QED  BY <2>3, <2>4
<1> QED  BY <1>6, <1>7

LEMMA CopyEndsPrinted ==
  ASSUME Core, FilesPrinted, CopyEnds PROVE FilesPrinted'
<1> SUFFICES ASSUME Printing' PROVE PrintedAre(LinesUpTo(Passed))'
  BY DEF FilesPrinted, CopyEnds
<1>0. /\ UNCHANGED <<inputs, flags, N, optind>> /\ UNCHANGED <<args, disk, flags>>
      /\ UNCHANGED <<I, out>>
      /\ pc = "copy" /\ Parsed /\ cur > Sz
  BY DEF CopyEnds, inputs, Parsed
<1>1. Printing
  BY <1>0, PrintingKept
<1>2. /\ CopyAt(cur, i1, I, out) /\ InText /\ cur \in 1..(Len(file.bytes) + 1)
      /\ Sz = Len(file.bytes) /\ N \in Int /\ i1 \in Nat
  BY <1>0, <1>1, Copying
<1> DEFINE b == file.bytes
           X == Before
<1>3. /\ b \in Texts /\ X \in Seq(Entries) /\ Len(b) \in Nat /\ I \in Nat
      /\ LinesUpTo(Passed) = X \o Asked(Lines(b))
  BY <1>2, <1>1, TextType, TextDecided, TextLines
<1>4. cur = Len(b) + 1
  BY <1>0, <1>2, <1>3
<1>5. /\ LinesIn(b, cur) \in Nat /\ Len(Lines(b)) <= LinesIn(b, cur) + 1
      /\ I = WantedUpTo(flags, X \o Lines(b), Len(X \o Lines(b)))
      /\ out = Rendered(flags, X \o Lines(b))
  <2>1. PrintedTo(flags, X, b, cur, I, out)
    BY <1>2 DEF CopyAt
  <2> HIDE DEF X, b
  <2> QED  BY <1>3, <1>4, <2>1, TextCopied
<1>6. Asked(Lines(b)) = Lines(b)
  <2>1. Lines(b) \in Seq(Texts) /\ Len(Lines(b)) \in Nat
    BY <1>3, LinesType
  <2>2. "d" \in flags /\ N > 0 => ~(N < Len(Lines(b)))
    BY <1>2, <1>5, <2>1 DEF CopyAt
  <2>3. SubSeq(Lines(b), 1, Len(Lines(b))) = Lines(b)
    BY <2>1, SubSeqFull
  <2> QED  BY <2>2, <2>3 DEF Asked, FirstLines
<1>7. out' = Rendered(flags, LinesUpTo(Passed))
      /\ I' = WantedUpTo(flags, LinesUpTo(Passed), Len(LinesUpTo(Passed)))
  BY <1>0, <1>3, <1>5, <1>6
<1> QED  BY <1>0, <1>7, PrintedNext

-----------------------------------------------------------------------------
(* Every step, and what follows at the end.                                 *)

LEMMA InitPrinted == ASSUME Init PROVE FilesPrinted
BY DEF Init, FilesPrinted, Printing, Parsed

LEMMA FilesNext ==
  ASSUME Core, Core', FilesPrinted, pc = "seek" => "l" \in flags, Next
  PROVE  FilesPrinted'
<1>1. CASE ParseKey
  BY <1>1 DEF ParseKey, FilesPrinted, Printing, Parsed
<1>2. CASE MainReturns
  <2> SUFFICES ASSUME Printing' PROVE PrintedAre(LinesUpTo(Passed))'
    BY <1>2 DEF FilesPrinted, MainReturns
  <2>1. /\ UNCHANGED <<inputs, flags, N, optind>> /\ UNCHANGED <<args, disk, flags>>
        /\ UNCHANGED <<I, out>> /\ pc = "main" /\ Parsed
    BY <1>2 DEF MainReturns, inputs, Parsed
  <2>2. PrintedAre(LinesUpTo(Passed))
    BY <2>1, PrintingKept DEF FilesPrinted
  <2> QED  BY <2>1, <2>2, PrintedNext DEF PrintedAre
<1>3. CASE CatStdin \/ ScanWord \/ StdinEnds
  <2>1. "stdin" \in flags'
    BY <1>3 DEF CatStdin, ScanWord, StdinEnds, Core, StdinInv
  <2> QED  BY <2>1 DEF FilesPrinted, Printing
<1>4. CASE SeekTail
  <2>1. "l" \in flags'
    BY <1>4 DEF SeekTail
  <2> QED  BY <2>1 DEF FilesPrinted, Printing
<1>5. CASE Undefined
  BY <1>5 DEF Undefined, FilesPrinted
<1> QED  BY <1>1, <1>2, <1>3, <1>4, <1>5, EndOfKeysPrinted, CatFilePrinted, FirstNumberPrinted,
            CopyBytePrinted, CopyEndsPrinted DEF Next

LEMMA FilesFollow ==
  ASSUME Core, FilesPrinted PROVE LinesExact
<1> SUFFICES ASSUME pc \in {"exit0", "exitFile"}, flags \intersect {"l", "stdin"} = {},
                    \A f \in Opened : SizeTold(f) /\ NumbersTold(f)
             PROVE  /\ N = CountGiven
                    /\ pc = "exit0" =>
                         out = Rendered(flags, LinesOfFirst(Len(args) + 1 - FirstOperand, Asked))
                    /\ pc = "exitFile" => out = Rendered(flags, Before)
  BY DEF LinesExact
<1>1. Parsed /\ Printing
  BY DEF Printing, Parsed
<1>2. N = CountGiven
  BY <1>1 DEF Core, CountInv
<1>3. pc = "exit0" => Passed = Len(args) + 1 - FirstOperand
  <2>1. pc = "exit0" => optind = Len(args) + 1
    BY DEF Core, FilesPlace
  <2>2. Len(args) \in Nat /\ FirstOperand \in Nat
    BY <1>1, PassedType DEF Core, TypeInv, InputsInv, IsInput
  <2> QED  BY <2>1, <2>2 DEF Passed
<1> QED  BY <1>1, <1>2, <1>3 DEF FilesPrinted, PrintedAre, LinesUpTo

-----------------------------------------------------------------------------
(* Ends of sequences.                                                       *)

\* s is what t ends with.
EndsWith(s, t) ==
  Len(s) <= Len(t) /\ \A k \in 1..Len(s) : s[k] = t[Len(t) - Len(s) + k]

LEMMA SuffixIs ==
  ASSUME NEW T, NEW s \in Seq(T), NEW t \in Seq(T)
  PROVE  IsSuffix(s, t) <=> EndsWith(s, t)
<1> DEFINE u == Reverse(s)
           v == Reverse(t)
           n == Len(s)
<1>0. n \in Nat /\ Len(t) \in Nat
  OBVIOUS
<1>1. /\ u \in Seq(T) /\ Len(u) = n /\ v \in Seq(T) /\ Len(v) = Len(t)
      /\ \A k \in 1..n : u[k] = s[(n - k) + 1]
      /\ \A k \in 1..Len(t) : v[k] = t[(Len(t) - k) + 1]
  <2>1. \A k \in 1..n : s[(n - k) + 1] \in T
    OBVIOUS
  <2>2. \A k \in 1..Len(t) : t[(Len(t) - k) + 1] \in T
    OBVIOUS
  <2>3. u = [k \in 1..n |-> s[(n - k) + 1]] /\ v = [k \in 1..Len(t) |-> t[(Len(t) - k) + 1]]
    BY DEF Reverse
  <2> HIDE DEF u, v
  <2> QED  BY <1>0, <2>1, <2>2, <2>3
<1>2. IsSuffix(s, t) <=> n <= Len(t) /\ u = SubSeq(v, 1, n)
  <2>1. IsSuffix(s, t) <=> IsPrefix(u, v)
    BY DEF IsSuffix
  <2> HIDE DEF u, v
  <2>2. SubSeq(u, 1, Len(u)) = u
    BY <1>1, SubSeqFull
  <2> QED  BY <1>1, <2>1, <2>2 DEF IsPrefix
<1> HIDE DEF u, v, n
<1>3. ASSUME n <= Len(t)
      PROVE  u = SubSeq(v, 1, n) <=> \A k \in 1..n : s[k] = t[Len(t) - n + k]
  <2>1. /\ SubSeq(v, 1, n) \in Seq(T) /\ Len(SubSeq(v, 1, n)) = n
        /\ \A k \in 1..n : SubSeq(v, 1, n)[k] = v[k]
    <3>1. /\ SubSeq(v, 1, n) \in Seq(T) /\ Len(SubSeq(v, 1, n)) = IF 1 <= n THEN n - 1 + 1 ELSE 0
          /\ \A k \in 1..(n - 1 + 1) : SubSeq(v, 1, n)[k] = v[1 + k - 1]
      BY <1>0, <1>1, <1>3, SliceType
    <3>2. \A k \in 1..n : k \in 1..(n - 1 + 1) /\ 1 + k - 1 = k
      BY <1>0
    <3> QED  BY <1>0, <3>1, <3>2
  <2>2. u = SubSeq(v, 1, n) <=> \A k \in 1..n : u[k] = v[k]
    BY <1>1, <2>1, SeqEqual
  <2>3. \A k \in 1..n : u[k] = s[(n - k) + 1] /\ v[k] = t[(Len(t) - k) + 1]
    <3>1. \A k \in 1..n : k \in 1..Len(t)
      BY <1>0, <1>3
    <3> QED  BY <1>1, <3>1
  <2>4. ASSUME \A k \in 1..n : u[k] = v[k], NEW k \in 1..n
        PROVE  s[k] = t[Len(t) - n + k]
    <3>1. /\ (n - k) + 1 \in 1..n /\ (n - ((n - k) + 1)) + 1 = k
          /\ (Len(t) - ((n - k) + 1)) + 1 = Len(t) - n + k
      BY <1>0
    <3> QED  BY <2>3, <2>4, <3>1
  <2>5. ASSUME \A k \in 1..n : s[k] = t[Len(t) - n + k], NEW k \in 1..n
        PROVE  u[k] = v[k]
    <3>1. (n - k) + 1 \in 1..n /\ Len(t) - n + ((n - k) + 1) = (Len(t) - k) + 1
      BY <1>0
    <3> QED  BY <2>3, <2>5, <3>1
  <2> QED  BY <2>2, <2>4, <2>5
<1> QED  BY <1>2, <1>3 DEF EndsWith, n

LEMMA SuffixGrows ==
  ASSUME NEW T, NEW s \in Seq(T), NEW t \in Seq(T), NEW x \in T
  PROVE  /\ IsSuffix(<<>>, t)
         /\ IsSuffix(s, t) => IsSuffix(s \o <<x>>, t \o <<x>>)
<1>1. IsSuffix(<<>>, t)
  <2>1. <<>> \in Seq(T) /\ Len(<<>>) = 0 /\ Len(t) \in Nat
    BY EmptySeq
  <2>2. EndsWith(<<>>, t)
    BY <2>1 DEF EndsWith
  <2> QED  BY <2>1, <2>2, SuffixIs
<1>2. ASSUME IsSuffix(s, t) PROVE IsSuffix(s \o <<x>>, t \o <<x>>)
  <2> DEFINE u == s \o <<x>>
             v == t \o <<x>>
  <2>1. /\ u \in Seq(T) /\ Len(u) = Len(s) + 1 /\ u[Len(s) + 1] = x /\ \A k \in 1..Len(s) : u[k] = s[k]
        /\ v \in Seq(T) /\ Len(v) = Len(t) + 1 /\ v[Len(t) + 1] = x /\ \A k \in 1..Len(t) : v[k] = t[k]
    <3>1. u = Append(s, x) /\ v = Append(t, x)
      BY AppendIsConcat
    <3> HIDE DEF u, v
    <3> QED  BY <3>1, AppendProperties
  <2>2. Len(s) \in Nat /\ Len(t) \in Nat /\ EndsWith(s, t)
    BY <1>2, SuffixIs
  <2> HIDE DEF u, v
  <2>3. Len(u) <= Len(v)
    BY <2>1, <2>2 DEF EndsWith
  <2>4. ASSUME NEW k \in 1..Len(u) PROVE u[k] = v[Len(v) - Len(u) + k]
    <3>0. Len(v) - Len(u) + k = Len(t) - Len(s) + k
      BY <2>1, <2>2
    <3>1. CASE k = Len(s) + 1
      <4>1. Len(t) - Len(s) + k = Len(t) + 1
        BY <2>2, <3>1
      <4> QED  BY <2>1, <3>0, <3>1, <4>1
    <3>2. CASE k # Len(s) + 1
      <4>1. k \in 1..Len(s) /\ Len(t) - Len(s) + k \in 1..Len(t)
        BY <2>1, <2>2, <3>2 DEF EndsWith
      <4> QED  BY <2>1, <2>2, <3>0, <4>1 DEF EndsWith
    <3> QED  BY <3>1, <3>2
  <2>5. EndsWith(u, v)
    BY <2>3, <2>4 DEF EndsWith
  <2> QED  BY <2>1, <2>5, SuffixIs DEF u, v
<1> QED  BY <1>1, <1>2

-----------------------------------------------------------------------------
(* The last lines of a text.                                                *)

\* At most as many newlines as line ends lie behind a position.
LEMMA NewlinesBehind ==
  ASSUME NEW b \in Texts, NEW k \in Int
  PROVE  Cardinality(Newlines(b)) - CountUpTo(Newlines(b), k)
           <= Cardinality(LineEnds(b)) - CountUpTo(LineEnds(b), k)
<1> DEFINE P(S) == {j \in S : j <= k}
<1>1. ASSUME NEW S, IsFiniteSet(S)
      PROVE  /\ Cardinality(S) - CountUpTo(S, k) = Cardinality(S \ P(S)) /\ IsFiniteSet(S \ P(S))
  <2>1. S \cap P(S) = P(S)
    OBVIOUS
  <2>2. Cardinality(S \ P(S)) = Cardinality(S) - Cardinality(S \cap P(S)) /\ IsFiniteSet(S \ P(S))
    BY <1>1, FS_Difference
  <2> QED  BY <2>1, <2>2 DEF CountUpTo
<1>2. Newlines(b) \subseteq LineEnds(b)
  BY DEF Newlines, LineEnds
<1>3. Newlines(b) \ P(Newlines(b)) \subseteq LineEnds(b) \ P(LineEnds(b))
  BY <1>2
<1>4. /\ Cardinality(Newlines(b)) - CountUpTo(Newlines(b), k) = Cardinality(Newlines(b) \ P(Newlines(b)))
      /\ Cardinality(LineEnds(b)) - CountUpTo(LineEnds(b), k) = Cardinality(LineEnds(b) \ P(LineEnds(b)))
      /\ IsFiniteSet(LineEnds(b) \ P(LineEnds(b)))
  BY <1>1, TextSets
<1> HIDE DEF P
<1> QED  BY <1>3, <1>4, FS_Subset

\* The first so many lines reach up to the end of the last of them.
LEMMA LineEndCounts ==
  ASSUME NEW b \in Texts, NEW k \in 0..Cardinality(LineEnds(b))
  PROVE  /\ CountUpTo(LineEnds(b), LineEnd(b, k)) = k
         /\ LineEnd(b, Cardinality(LineEnds(b))) = Len(b)
<1>0. /\ Cardinality(LineEnds(b)) \in Nat /\ Len(b) \in Nat /\ Len(b) \in Int /\ Len(b) >= Len(b)
      /\ LineEnds(b) \subseteq 1..Len(b)
  BY TextSets
<1>1. CountUpTo(LineEnds(b), 0) = 0 /\ CountUpTo(LineEnds(b), Len(b)) = Cardinality(LineEnds(b))
  BY <1>0, CountEnds
<1>2. CountUpTo(LineEnds(b), LineEnd(b, k)) = k
  <2>1. CASE k = 0
    BY <1>1, <2>1 DEF LineEnd
  <2>2. CASE k # 0
    <3>1. k \in 1..Cardinality(LineEnds(b))
      BY <1>0, <2>2
    <3> QED  BY <1>0, <2>2, <3>1, NthIn DEF LineEnd
  <2> QED  BY <2>1, <2>2
<1>3. LineEnd(b, Cardinality(LineEnds(b))) = Len(b)
  <2>1. CASE Len(b) = 0
    <3>1. LineEnds(b) = {}
      BY <1>0, <2>1
    <3> QED  BY <2>1, <3>1, FS_EmptySet DEF LineEnd
  <2>2. CASE Len(b) # 0
    <3>1. Len(b) \in LineEnds(b)
      BY <1>0, <2>2 DEF LineEnds
    <3>2. Nth(LineEnds(b), Cardinality(LineEnds(b))) = Len(b)
      BY <1>1, <3>1, TextSets, NthIs
    <3>3. Cardinality(LineEnds(b)) # 0
      BY <3>1, TextSets, FS_EmptySet
    <3> QED  BY <3>2, <3>3 DEF LineEnd
  <2> QED  BY <2>1, <2>2
<1> QED  BY <1>2, <1>3

LEMMA LineEndGrows ==
  ASSUME NEW b \in Texts, NEW j \in 0..Cardinality(LineEnds(b)), NEW k \in 0..Cardinality(LineEnds(b)),
         j <= k
  PROVE  LineEnd(b, j) <= LineEnd(b, k)
<1>1. /\ LineEnd(b, j) \in Int /\ LineEnd(b, k) \in Int
      /\ CountUpTo(LineEnds(b), LineEnd(b, j)) = j /\ CountUpTo(LineEnds(b), LineEnd(b, k)) = k
  BY LineEndType, LineEndCounts, TextSets
<1>2. CASE j = k
  BY <1>1, <1>2
<1>3. CASE j # k
  <2> SUFFICES ASSUME LineEnd(b, k) < LineEnd(b, j) PROVE FALSE
    BY <1>1
  <2>1. k <= j
    BY <1>1, TextSets, CountGrows
  <2> QED  BY <2>1, <1>3
<1> QED  BY <1>2, <1>3

LEMMA LinesJoined ==
  ASSUME NEW b \in Texts, NEW p \in 0..Len(Lines(b))
  PROVE  FlattenSeq(SubSeq(Lines(b), p + 1, Len(Lines(b)))) = SubSeq(b, LineEnd(b, p) + 1, Len(b))
<1> DEFINE L == Lines(b)
           n == Len(L)
           part(k) == SubSeq(L, p + 1, k)
           text(k) == SubSeq(b, LineEnd(b, p) + 1, LineEnd(b, k))
           S == {k \in Nat : k \in p..n => FlattenSeq(part(k)) = text(k)}
<1>0. /\ L \in Seq(Texts) /\ n = Cardinality(LineEnds(b)) /\ n \in Nat /\ Len(b) \in Nat
      /\ \A k \in 1..n : L[k] = SubSeq(b, LineEnd(b, k - 1) + 1, LineEnd(b, k))
      /\ \A k \in 0..n : LineEnd(b, k) \in 0..Len(b)
      /\ p \in Int /\ p + 1 \in Int /\ p >= 0 /\ p <= n
  BY LinesType, TextSets, LineEndType
<1> HIDE DEF L
<1>1. ASSUME NEW k \in Nat, k \in p..n
      PROVE  part(k) \in Seq(Texts) /\ Len(part(k)) = k - p
  <2>1. k \in Int /\ k <= Len(L) /\ p + 1 >= 1 /\ k - (p + 1) + 1 = k - p /\ (p + 1 <= k \/ k = p)
    BY <1>0, <1>1
  <2>2. part(k) \in Seq(Texts) /\ Len(part(k)) = IF p + 1 <= k THEN k - (p + 1) + 1 ELSE 0
    BY <1>0, <2>1, SliceType
  <2> QED  BY <1>0, <2>1, <2>2
<1>2. 0 \in S
  <2> SUFFICES ASSUME 0 \in p..n PROVE FlattenSeq(part(0)) = text(0)
    OBVIOUS
  <2>1. p = 0
    BY <1>0
  <2>2. part(0) = <<>>
    BY <2>1, SubSeqEmpty
  <2>3. text(0) = <<>>
    <3>1. LineEnd(b, 0) = 0
      BY DEF LineEnd
    <3> QED  BY <2>1, <3>1, SubSeqEmpty
  <2> HIDE DEF part, text
  <2> QED  BY <2>2, <2>3, FlattenEmpty
<1>3. ASSUME NEW k \in Nat, k \in S PROVE k + 1 \in S
  <2> SUFFICES ASSUME k + 1 \in p..n PROVE FlattenSeq(part(k + 1)) = text(k + 1)
    OBVIOUS
  <2>1. CASE k + 1 = p
    <3>1. part(k + 1) = <<>>
      BY <1>0, <2>1, SubSeqEmpty
    <3>2. text(k + 1) = <<>>
      <4>1. LineEnd(b, p) \in Int /\ LineEnd(b, p) < LineEnd(b, p) + 1
        BY <1>0
      <4>2. SubSeq(b, LineEnd(b, p) + 1, LineEnd(b, p)) = <<>>
        BY <4>1, SubSeqEmpty
      <4> QED  BY <2>1, <4>2
    <3> HIDE DEF part, text
    <3> QED  BY <3>1, <3>2, FlattenEmpty
  <2>2. CASE k + 1 # p
    <3>1. k \in p..n /\ k \in Int /\ p <= k /\ k + 1 \in 1..n /\ (k + 1) - 1 = k /\ k \in 0..n /\ k + 1 \in 0..n
      BY <1>0, <2>2
    <3>2. FlattenSeq(part(k)) = text(k)
      BY <1>3, <3>1
    <3>3. part(k + 1) = Append(part(k), L[k + 1])
      <4>1. p + 1 \in 1..Len(L) /\ k + 1 \in (p + 1)..Len(L)
        BY <1>0, <3>1
      <4>2. SubSeq(L, p + 1, k + 1) = SubSeq(L, p + 1, (k + 1) - 1) \o <<L[k + 1]>>
        BY <1>0, <4>1, SubSeqRecursiveSecond
      <4>3. part(k) \in Seq(Texts) /\ L[k + 1] \in Texts
        BY <1>0, <1>1, <3>1
      <4>4. Append(part(k), L[k + 1]) = part(k) \o <<L[k + 1]>>
        <5> HIDE DEF part
        <5> QED  BY <4>3, AppendIsConcat
      <4> QED  BY <3>1, <4>2, <4>4
    <3>4. FlattenSeq(Append(part(k), L[k + 1])) = FlattenSeq(part(k)) \o L[k + 1]
      <4>1. part(k) \in Seq(Seq({"x", NL})) /\ L[k + 1] \in Seq({"x", NL})
        <5>1. part(k) \in Seq(Texts) /\ L[k + 1] \in Texts
          BY <1>0, <1>1, <3>1
        <5> HIDE DEF part
        <5> QED  BY <5>1 DEF Texts
      <4> HIDE DEF part
      <4> QED  BY <4>1, FlattenAppend
    <3>5. text(k) \o L[k + 1] = text(k + 1)
      <4> DEFINE e == LineEnd(b, p)
                 f == LineEnd(b, k)
                 g == LineEnd(b, k + 1)
      <4>1. e \in 0..Len(b) /\ f \in 0..Len(b) /\ g \in 0..Len(b)
        BY <1>0, <3>1
      <4>2. e <= f /\ f <= g
        <5>1. p \in 0..Cardinality(LineEnds(b)) /\ k \in 0..Cardinality(LineEnds(b))
              /\ k + 1 \in 0..Cardinality(LineEnds(b)) /\ k <= k + 1
          BY <1>0, <3>1
        <5> QED  BY <3>1, <5>1, LineEndGrows
      <4>3. L[k + 1] = SubSeq(b, f + 1, g)
        BY <1>0, <3>1
      <4> HIDE DEF e, f, g
      <4>4. e + 1 \in 1..(Len(b) + 1) /\ f \in ((e + 1) - 1)..Len(b) /\ g \in f..Len(b)
        BY <1>0, <4>1, <4>2
      <4>5. SubSeq(b, e + 1, f) \o SubSeq(b, f + 1, g) = SubSeq(b, e + 1, g)
        BY <4>4, ConcatAdjacentSubSeq DEF Texts
      <4> QED  BY <4>3, <4>5 DEF e, f, g
    <3> HIDE DEF part, text
    <3> QED  BY <3>2, <3>3, <3>4, <3>5
  <2> QED  BY <2>1, <2>2
<1>4. n \in S
  <2> HIDE DEF S, n
  <2> QED  BY <1>0, <1>2, <1>3, NumbersReached
<1>5. n \in p..n
  BY <1>0
<1>6. FlattenSeq(part(n)) = text(n)
  BY <1>4, <1>5
<1>7. LineEnd(b, n) = Len(b)
  <2>1. 0 \in 0..Cardinality(LineEnds(b))
    BY TextSets
  <2> QED  BY <1>0, <2>1, LineEndCounts
<1> QED  BY <1>6, <1>7 DEF L

-----------------------------------------------------------------------------
(* Where write_console finds the tail of a text.                            *)

\* How many lines come before the last n - 1, and where these begin.
LinesAhead(b, n) ==
  IF n - 1 < Cardinality(LineEnds(b)) THEN Cardinality(LineEnds(b)) - (n - 1) ELSE 0
TailAt(b, n) == LineEnd(b, LinesAhead(b, n)) + 1

LEMMA TailFromIs == TailFrom = TailAt(file.bytes, N)
BY DEF TailFrom, TailAt, LinesAhead

LEMMA TailAtType ==
  ASSUME NEW b \in Texts, NEW n \in Int, n > 0
  PROVE  LinesAhead(b, n) \in 0..Cardinality(LineEnds(b)) /\ TailAt(b, n) \in 1..(Len(b) + 1)
<1>1. LinesAhead(b, n) \in 0..Cardinality(LineEnds(b))
  <2>1. Cardinality(LineEnds(b)) \in Nat
    BY TextSets
  <2> QED  BY <2>1 DEF LinesAhead
<1>2. LineEnd(b, LinesAhead(b, n)) \in 0..Len(b) /\ Len(b) \in Nat
  BY <1>1, LineEndType, TextSets
<1> QED  BY <1>1, <1>2 DEF TailAt

\* A position with n newlines behind it is not behind the last n - 1 lines.
LEMMA TailFound ==
  ASSUME NEW b \in Texts, NEW n \in Int, n > 0, NEW k \in Int,
         n = Cardinality(Newlines(b)) - CountUpTo(Newlines(b), k - 1)
  PROVE  k <= TailAt(b, n)
<1> DEFINE t == Cardinality(LineEnds(b))
           p == LinesAhead(b, n)
           c == CountUpTo(LineEnds(b), k - 1)
<1>1. t \in Nat /\ c \in Nat /\ p \in 0..t /\ k - 1 \in Int /\ TailAt(b, n) \in Int
  <2>1. t \in Nat /\ IsFiniteSet(LineEnds(b)) /\ Len(b) \in Nat
    BY TextSets
  <2>2. c \in Nat
    BY <2>1, CountType
  <2>3. p \in 0..t /\ TailAt(b, n) \in 1..(Len(b) + 1)
    BY TailAtType
  <2> QED  BY <2>1, <2>2, <2>3
<1>2. t - c >= n
  <2>1. n <= t - c
    BY <1>1, NewlinesBehind
  <2> QED  BY <1>1, <2>1
<1>3. SUFFICES ASSUME TailAt(b, n) < k PROVE FALSE
  BY <1>1
<1>4. p <= c
  <2>1. LineEnd(b, p) \in Int /\ LineEnd(b, p) < k - 1
    <3>1. LineEnd(b, p) \in 0..Len(b)
      BY <1>1, LineEndType
    <3> QED  BY <1>3, <3>1, TextSets DEF TailAt
  <2>2. CountUpTo(LineEnds(b), LineEnd(b, p)) = p
    BY <1>1, LineEndCounts
  <2>3. CountUpTo(LineEnds(b), LineEnd(b, p)) <= c
    BY <1>1, <2>1, TextSets, CountGrows
  <2> QED  BY <2>2, <2>3
<1>5. p = IF n - 1 < t THEN t - (n - 1) ELSE 0
  BY DEF LinesAhead
<1> HIDE DEF t, p, c
<1> QED  BY <1>1, <1>2, <1>4, <1>5

\* The newlines behind the cursor are counted as it steps back.
LEMMA SteppedBack ==
  ASSUME NEW b \in Texts, NEW k \in 2..(Len(b) + 1)
  PROVE  CountUpTo(Newlines(b), k - 1)
           = CountUpTo(Newlines(b), (k - 1) - 1) + (IF b[k - 1] = NL THEN 1 ELSE 0)
<1>1. /\ (k - 1) - 1 \in Int /\ ((k - 1) - 1) + 1 = k - 1 /\ k - 1 \in 1..Len(b)
  BY TextSets
<1>2. CountUpTo(Newlines(b), ((k - 1) - 1) + 1)
        = CountUpTo(Newlines(b), (k - 1) - 1) + (IF ((k - 1) - 1) + 1 \in Newlines(b) THEN 1 ELSE 0)
  BY <1>1, TextSets, CountStep
<1>3. k - 1 \in Newlines(b) <=> b[k - 1] = NL
  BY <1>1 DEF Newlines
<1> QED  BY <1>1, <1>2, <1>3

\* A byte copied lengthens the copied part of the tail, if there is one.
LEMMA TailCopied ==
  ASSUME NEW b \in Texts, NEW a \in 1..(Len(b) + 1), NEW c \in 0..Len(b), NEW x \in Tokens,
         c >= 1 => x = b[c], NEW o \in Entries, IsSuffix(SubSeq(b, a, c - 1), o)
  PROVE  IsSuffix(SubSeq(b, a, c), o \o <<x>>)
<1>1. Len(b) \in Nat /\ a \in Int /\ c \in Int /\ c - 1 \in Int /\ a >= 1 /\ c - 1 <= Len(b)
  BY TextSets
<1>2. CASE c < a
  <2>1. SubSeq(b, a, c) = <<>>
    BY <1>1, <1>2, SubSeqEmpty
  <2>2. o \o <<x>> \in Entries
    BY DEF Entries
  <2> QED  BY <2>1, <2>2, SuffixGrows DEF Entries
<1>3. CASE a <= c
  <2>1. a \in 1..Len(b) /\ c \in a..Len(b) /\ x = b[c]
    BY <1>1, <1>3
  <2>2. SubSeq(b, a, c) = SubSeq(b, a, c - 1) \o <<x>>
    BY <2>1, SubSeqRecursiveSecond DEF Texts
  <2>3. SubSeq(b, a, c - 1) \in Entries
    <3>1. SubSeq(b, a, c - 1) \in Texts
      BY <1>1, SliceType DEF Texts
    <3> QED  BY <3>1, TextEntries
  <2> QED  BY <2>2, <2>3, SuffixGrows DEF Entries
<1> QED  BY <1>1, <1>2, <1>3

-----------------------------------------------------------------------------
(* TailInv is kept.                                                         *)

LEMMA InitTail == ASSUME Init PROVE TailInv
BY DEF Init, TailInv

LEMMA TailSame ==
  ASSUME UNCHANGED <<file, N>> PROVE TailFrom' = TailFrom
BY DEF TailFrom

LEMMA OutEntries ==
  ASSUME TypeOK PROVE out \in Entries
<1>1. Byte \cup {"$", "HELP"} \cup {ToString(n) : n \in 1..I} \subseteq Tokens
  <2>1. 1..I \subseteq Nat
    BY DEF TypeOK
  <2> QED  BY <2>1 DEF Tokens
<1> QED  BY <1>1, SeqMonotonic DEF TypeOK, Entries

LEMMA CatFileTail ==
  ASSUME Core, CatFile PROVE TailInv'
<1> DEFINE f == Named(args[optind])
<1>1. IsFile(f) /\ f.kind \in {"absent", "directory", "text"}
  <2>1. optind \in 1..Len(args) /\ IsInput(args, disk, stdin)
    BY DEF Core, TypeInv, TypeOK, InputsInv, IsInput, CatFile
  <2> QED  BY <2>1, NamedIsFile
<1>2. /\ flags' = flags /\ pc = "main" /\ optind <= Len(args)
      /\ pc' \in {"main", "exitFile", "seek", "number"}
      /\ pc' = "number" => "l" \notin flags
      /\ pc' = "seek" => /\ "l" \in flags /\ Readable(f) /\ file' = Buffer(f)
                         /\ cur' = SizeOf(f) + 1 /\ i1' = 0
  BY Zenon DEF CatFile
<1> HIDE DEF f
<1>3. ASSUME pc' = "seek"
      PROVE  i1' = Cardinality(Newlines(file'.bytes)) - CountUpTo(Newlines(file'.bytes), cur' - 1)
  <2> DEFINE b == Buffer(f).bytes
  <2>1. b \in Texts /\ Len(b) = SizeOf(f)
    BY <1>1, <1>2, <1>3, BufferIs
  <2>2. /\ 0 = Cardinality(Newlines(b)) - CountUpTo(Newlines(b), (Len(b) + 1) - 1)
    <3>1. /\ Len(b) \in Nat /\ Newlines(b) \subseteq 1..Len(b) /\ Cardinality(Newlines(b)) \in Nat
          /\ Len(b) \in Int /\ Len(b) >= Len(b) /\ (Len(b) + 1) - 1 = Len(b)
      BY <2>1, TextSets
    <3>2. CountUpTo(Newlines(b), Len(b)) = Cardinality(Newlines(b))
      BY <3>1, CountEnds
    <3> QED  BY <3>1, <3>2
  <2>3. file'.bytes = b /\ cur' = Len(b) + 1 /\ i1' = 0
    <3>1. file' = Buffer(f) /\ cur' = SizeOf(f) + 1 /\ i1' = 0
      BY <1>2, <1>3, Zenon
    <3> QED  BY <2>1, <3>1, Zenon
  <2> HIDE DEF b
  <2> QED  BY <2>2, <2>3, Zenon
<1> QED  BY <1>2, <1>3 DEF TailInv

LEMMA SeekTailTail ==
  ASSUME Core, TailInv, SeekTail PROVE TailInv'
<1> DEFINE b == file.bytes
           count(k) == Cardinality(Newlines(b)) - CountUpTo(Newlines(b), k - 1)
<1>0. /\ UNCHANGED <<file, N, flags>> /\ pc = "seek" /\ InText /\ "l" \in flags /\ i1 = count(cur)
      /\ pc' \in {"seek", "number"}
  BY DEF SeekTail, TailInv, InText
<1>1. b \in Texts /\ Len(b) \in Nat /\ cur \in 1..(Len(b) + 1) /\ N \in Int /\ Sz = Len(b)
      /\ (cur - 1 \in 1..Len(b) => ByteAt(cur - 1) = b[cur - 1])
  <2>1. b \in Texts /\ Sz = Len(b) /\ Sz \in Nat
    <3>1. 1 \in Int
      OBVIOUS
    <3> QED  BY <1>0, <3>1, ByteAtType DEF Sz, Core, TypeInv
  <2>2. cur \in 0..(Sz + 1) /\ cur >= 1 /\ N \in Int
    BY <1>0 DEF Core, TypeInv, TypeOK, InputsInv
  <2>3. cur - 1 \in 1..Len(b) => ByteAt(cur - 1) = b[cur - 1]
    BY <2>1, <2>2 DEF ByteAt
  <2> HIDE DEF b
  <2> QED  BY <2>1, <2>2, <2>3
<1>2. TailFrom' = TailFrom /\ TailFrom = TailAt(b, N)
  BY <1>0, TailSame, TailFromIs
<1>3. CASE i1 = N
  <2>1. pc' = "number" /\ cur' = cur
    BY <1>3 DEF SeekTail
  <2>2. N > 0 => cur <= TailAt(b, N)
    <3>1. N = Cardinality(Newlines(b)) - CountUpTo(Newlines(b), cur - 1) /\ cur \in Int
      BY <1>0, <1>1, <1>3
    <3> HIDE DEF b
    <3> QED  BY <1>1, <3>1, TailFound
  <2>3. N' > 0 => cur' <= TailFrom'
    BY <1>0, <1>2, <2>1, <2>2
  <2> QED  BY <2>1, <2>3 DEF TailInv
<1>4. CASE i1 # N /\ cur = 1
  <2>1. pc' = "number" /\ cur' = 0
    BY <1>4 DEF SeekTail
  <2>2. N > 0 => 0 <= TailAt(b, N)
    <3>1. N > 0 => TailAt(b, N) \in 1..(Len(b) + 1)
      BY <1>1, TailAtType
    <3> QED  BY <1>1, <3>1
  <2>3. N' > 0 => cur' <= TailFrom'
    BY <1>0, <1>2, <2>1, <2>2
  <2> QED  BY <2>1, <2>3 DEF TailInv
<1>5. CASE i1 # N /\ cur # 1
  <2>1. pc' = "seek" /\ cur' = cur - 1 /\ i1' = IF ByteAt(cur - 1) = NL THEN i1 + 1 ELSE i1
    BY <1>5 DEF SeekTail
  <2>2. count(cur - 1) = IF ByteAt(cur - 1) = NL THEN i1 + 1 ELSE i1
    <3>1. cur \in 2..(Len(b) + 1) /\ cur - 1 \in 1..Len(b)
      BY <1>1, <1>5
    <3>2. CountUpTo(Newlines(b), cur - 1)
            = CountUpTo(Newlines(b), (cur - 1) - 1) + (IF b[cur - 1] = NL THEN 1 ELSE 0)
      BY <1>1, <3>1, SteppedBack
    <3>3. /\ Cardinality(Newlines(b)) \in Nat /\ CountUpTo(Newlines(b), cur - 1) \in Nat
          /\ CountUpTo(Newlines(b), (cur - 1) - 1) \in Nat
      BY <1>1, TextSets, CountType
    <3> HIDE DEF b
    <3> QED  BY <1>0, <1>1, <3>1, <3>2, <3>3
  <2>3. i1' = Cardinality(Newlines(file'.bytes)) - CountUpTo(Newlines(file'.bytes), cur' - 1)
    <3>1. i1' = count(cur - 1) /\ file' = file
      BY <1>0, <2>1, <2>2
    <3> QED  BY <2>1, <3>1, Zenon
  <2> QED  BY <1>0, <2>1, <2>3 DEF TailInv
<1> QED  BY <1>3, <1>4, <1>5

LEMMA FirstNumberTail ==
  ASSUME Core, TailInv, FirstNumber PROVE TailInv'
<1>0. /\ UNCHANGED <<file, N, flags, cur>> /\ pc = "number" /\ pc' = "copy" /\ InText
  BY DEF FirstNumber, InText
<1> SUFFICES ASSUME "l" \in flags, N > 0, flags \intersect {"n", "b", "e"} = {}
             PROVE  IsSuffix(SubSeq(file.bytes, TailFrom, cur - 1), out)
  <2>1. TailFrom' = TailFrom
    BY <1>0, TailSame
  <2>2. out' = out \/ "n" \in flags \/ "b" \in flags
    BY DEF FirstNumber, FirstNumbered, Number
  <2> QED  BY <1>0, <2>1, <2>2 DEF TailInv
<1> DEFINE b == file.bytes
           a == TailAt(b, N)
<1>1. b \in Texts /\ N \in Int /\ cur \in Int
  <2>1. 1 \in Int
    OBVIOUS
  <2>2. b \in Texts /\ Sz \in Nat
    BY <1>0, <2>1, ByteAtType DEF Core, TypeInv
  <2>3. N \in Int /\ cur \in 0..(Sz + 1)
    BY <1>0 DEF Core, TypeInv, TypeOK
  <2> HIDE DEF b
  <2> QED  BY <2>2, <2>3
<1>2. TailFrom = a
  BY TailFromIs
<1>3. SubSeq(b, a, cur - 1) = <<>>
  <2>1. a \in 1..(Len(b) + 1) /\ Len(b) \in Nat
    <3> HIDE DEF b
    <3> QED  BY <1>1, TailAtType, TextSets
  <2>2. cur <= a
    BY <1>0, <1>2 DEF TailInv
  <2> HIDE DEF a, b
  <2>3. a \in Int /\ cur - 1 \in Int /\ cur - 1 < a
    BY <1>1, <2>1, <2>2
  <2> QED  BY <2>3, SubSeqEmpty
<1>4. out \in Entries
  BY OutEntries DEF Core, TypeInv
<1>5. IsSuffix(<<>>, out)
  <2>1. NL \in Tokens
    BY DEF Tokens, Byte
  <2> QED  BY <1>4, <2>1, SuffixGrows DEF Entries
<1> QED  BY <1>2, <1>3, <1>5

LEMMA CopyByteTail ==
  ASSUME Core, TailInv, CopyByte PROVE TailInv'
<1>0. /\ UNCHANGED <<file, N, flags>> /\ pc = "copy" /\ pc' \in {"copy", "main"} /\ InText /\ cur <= Sz
  BY DEF CopyByte, InText
<1>1. SUFFICES ASSUME "l" \in flags, N > 0, flags \intersect {"n", "b", "e"} = {}, pc' = "copy"
               PROVE  IsSuffix(SubSeq(file.bytes, TailFrom, cur' - 1), out')
  <2>1. TailFrom' = TailFrom
    BY <1>0, TailSame
  <2> QED  BY <1>0, <2>1 DEF TailInv
<1> DEFINE b == file.bytes
           a == TailAt(b, N)
<1>2. /\ b \in Texts /\ Len(b) \in Nat /\ N \in Int /\ cur \in 0..Len(b)
      /\ ByteAt(cur) \in Byte /\ (cur >= 1 => ByteAt(cur) = b[cur])
  <2>1. cur \in Int /\ Sz \in Nat /\ N \in Int /\ cur \in 0..(Sz + 1)
    <3>1. 1 \in Int
      OBVIOUS
    <3>2. Sz \in Nat
      BY <1>0, <3>1, ByteAtType DEF Core, TypeInv
    <3>3. N \in Int /\ cur \in 0..(Sz + 1)
      BY <1>0 DEF Core, TypeInv, TypeOK
    <3> QED  BY <3>2, <3>3
  <2>2. b \in Texts /\ ByteAt(cur) \in Byte /\ Sz = Len(b)
    BY <1>0, <2>1, ByteAtType DEF Core, TypeInv, Sz
  <2>3. cur >= 1 => ByteAt(cur) = b[cur]
    BY <1>0, <2>1, <2>2 DEF ByteAt
  <2> HIDE DEF b
  <2> QED  BY <1>0, <2>1, <2>2, <2>3
<1>3. TailFrom = a /\ a \in 1..(Len(b) + 1)
  <2>1. a \in 1..(Len(b) + 1)
    <3> HIDE DEF b
    <3> QED  BY <1>1, <1>2, TailAtType
  <2> QED  BY <2>1, TailFromIs
<1>4. out \in Entries /\ ByteAt(cur) \in Tokens
  <2>1. out \in Entries
    BY OutEntries DEF Core, TypeInv
  <2> QED  BY <1>2, <2>1 DEF Tokens
<1>5. out' = out \o <<ByteAt(cur)>> /\ cur' = cur + 1
  <2>1. "n" \notin flags /\ "b" \notin flags /\ "e" \notin flags /\ "d" \notin flags
    <3>1. "d" \notin flags
      <4>1. "l" \in DOMAIN Rival /\ Rival["l"] = "d" /\ pc # "exitKeys"
        BY <1>0 DEF Rival
      <4> QED  BY <1>1, <4>1 DEF Core, KeysInv
    <3> QED  BY <1>1, <3>1
  <2>2. out' = (out \o <<>>) \o <<ByteAt(cur)>> /\ cur' = cur + 1
    BY <1>0, <1>1, <2>1 DEF CopyByte, Number, NumberedAt, Enough
  <2>3. out \o <<>> = out
    BY <1>4, ConcatEmptySeq DEF Entries
  <2> QED  BY <2>2, <2>3
<1>6. IsSuffix(SubSeq(b, a, cur), out \o <<ByteAt(cur)>>)
  <2>1. IsSuffix(SubSeq(b, a, cur - 1), out)
    BY <1>0, <1>1, <1>3 DEF TailInv
  <2> HIDE DEF a, b
  <2> QED  BY <1>2, <1>3, <1>4, <2>1, TailCopied
<1>7. cur' - 1 = cur
  <2>1. \A d \in Nat : (d + 1) - 1 = d
    OBVIOUS
  <2>2. cur \in Nat
    BY <1>2
  <2> QED  BY <1>5, <2>1, <2>2, Zenon
<1> QED  BY <1>3, <1>5, <1>6, <1>7

LEMMA TailNext == ASSUME Core, TailInv, Next PROVE TailInv'
<1>1. CASE \/ ParseKey \/ EndOfKeys \/ CatStdin \/ MainReturns \/ ScanWord \/ StdinEnds
           \/ CopyEnds \/ Undefined
  <2>1. pc' \notin {"seek", "number", "copy"}
    BY <1>1 DEF ParseKey, EndOfKeys, CatStdin, MainReturns, ScanWord, StdinEnds, CopyEnds, Undefined
  <2> QED  BY <2>1 DEF TailInv
<1> QED  BY <1>1, CatFileTail, SeekTailTail, FirstNumberTail, CopyByteTail DEF Next

LEMMA TailStutters == ASSUME TailInv, UNCHANGED vars PROVE TailInv'
<1>1. UNCHANGED <<file, N, flags, pc, cur, i1, out>>
  BY DEF vars
<1>2. TailFrom' = TailFrom
  BY <1>1, TailSame
<1> QED  BY <1>1, <1>2 DEF TailInv

LEMMA TailFollows == ASSUME Core, TailInv PROVE TailKeepsEnd
<1> SUFFICES ASSUME pc = "copy", cur > Sz, "l" \in flags, CountGiven > 0,
                    SizeTold(Named(args[optind - 1])), flags \intersect {"n", "b", "e"} = {}
             PROVE  IsSuffix(FlattenSeq(LastLines(Lines(Named(args[optind - 1]).bytes),
                                                  CountGiven - 1)), out)
  BY DEF TailKeepsEnd
<1>0. N = CountGiven /\ N > 0 /\ file.bytes = Named(args[optind - 1]).bytes
  BY TextType, BufferWhole DEF InText, Parsed, Core, CountInv
<1> DEFINE b == file.bytes
           p == LinesAhead(b, N)
<1>1. b \in Texts /\ N \in Int /\ cur - 1 = Len(b)
  <2>1. 1 \in Int /\ InText
    BY DEF InText
  <2>2. b \in Texts /\ Sz \in Nat /\ Sz = Len(b)
    BY <2>1, ByteAtType DEF Core, TypeInv, Sz
  <2>3. N \in Int /\ cur \in 0..(Sz + 1)
    BY DEF Core, TypeInv, TypeOK
  <2> HIDE DEF b
  <2> QED  BY <2>2, <2>3
<1>2. IsSuffix(SubSeq(b, TailAt(b, N), Len(b)), out)
  BY <1>0, <1>1, TailFromIs DEF TailInv
<1> HIDE DEF b
<1>3. p \in 0..Len(Lines(b)) /\ Len(Lines(b)) = Cardinality(LineEnds(b))
  BY <1>0, <1>1, LinesType, TailAtType
<1>4. FlattenSeq(SubSeq(Lines(b), p + 1, Len(Lines(b)))) = SubSeq(b, LineEnd(b, p) + 1, Len(b))
  BY <1>1, <1>3, LinesJoined
<1>5. LastLines(Lines(b), N - 1) = SubSeq(Lines(b), p + 1, Len(Lines(b)))
  BY <1>3 DEF LastLines, LinesAhead
<1> QED  BY <1>0, <1>2, <1>4, <1>5 DEF TailAt, b

-----------------------------------------------------------------------------
(* The inductive invariant and what follows from it.                        *)

LEMMA PrintedStutters == ASSUME Core, FilesPrinted, UNCHANGED vars PROVE FilesPrinted'
<1> SUFFICES ASSUME Printing'
             PROVE  /\ pc' \in {"main", "exit0"} => PrintedAre(LinesUpTo(Passed))'
                    /\ pc' = "exitFile" => PrintedAre(Before)'
                    /\ pc' = "number" => cur' = 1 /\ i1' = 0 /\ PrintedAre(Before)'
                    /\ pc' = "copy" => CopyInv'
  BY DEF FilesPrinted
<1>1. /\ UNCHANGED <<inputs, flags, N, optind, file>> /\ UNCHANGED <<inputs, flags, N, optind>>
      /\ UNCHANGED <<args, disk, flags>> /\ UNCHANGED <<cur, i1, I, out, pc>>
  BY DEF vars, inputs
<1>2. Printing
  <2>1. Parsed
    BY <1>1 DEF Printing, Parsed
  <2> QED  BY <1>1, <2>1, PrintingKept
<1>3. ASSUME pc' \in {"main", "exit0"} PROVE PrintedAre(LinesUpTo(Passed))'
  <2>1. PrintedAre(LinesUpTo(Passed))
    BY <1>1, <1>2, <1>3 DEF FilesPrinted
  <2> QED  BY <1>1, <2>1, PrintedNext DEF PrintedAre
<1>4. PrintedAre(Before) => PrintedAre(Before)'
  <2>1. Before' = Before
    <3>1. Passed' = Passed /\ LinesUpTo(Passed - 1)' = LinesUpTo(Passed - 1) /\ HelpLines' = HelpLines
      BY <1>1, LinesUpToKept DEF Passed, inputs
    <3> QED  BY <3>1 DEF Before, LinesUpTo
  <2> QED  BY <1>1, <2>1 DEF PrintedAre
<1>5. ASSUME pc' = "copy" PROVE CopyInv'
  <2>1. InText /\ InText' /\ cur' \in 0..(Sz + 1)
    BY <1>1, <1>5 DEF InText, Core, TypeInv, TypeOK
  <2>2. CopyAt(cur', i1', I', out')
    <3>1. CopyAt(cur, i1, I, out)
      BY <1>1, <1>2, <1>5, <2>1, CopyInvIs DEF FilesPrinted
    <3> QED  BY <1>1, <3>1
  <2> QED  BY <1>1, <2>1, <2>2, CopyInvNext
<1>6. /\ pc' = "exitFile" => PrintedAre(Before)
      /\ pc' = "number" => cur' = 1 /\ i1' = 0 /\ PrintedAre(Before)
  BY <1>1, <1>2 DEF FilesPrinted
<1> QED  BY <1>3, <1>4, <1>5, <1>6

LEMMA IInvIs == IInv <=> Core /\ FilesPrinted /\ TailInv
BY FilesInvIs DEF IInv, Core, TypeInv

\* Every part of the inductive invariant holds in every state: the types and
\* the cursor's bounds, what parse_flags has taken, COUNT as an int, what each
\* loop has printed (main.c:5-17, cat.c:14-186).
THEOREM CatInvariant == Spec => []IInv
<1> DEFINE Inv == Core /\ FilesPrinted /\ TailInv
<1>1. Init => Inv
  BY CoreInit, InitPrinted, InitTail
<1>2. ASSUME Inv, Next PROVE Inv'
  <2>1. Core'
    BY <1>2, CoreNext
  <2>2. FilesPrinted'
    BY <1>2, <2>1, FilesNext DEF TailInv
  <2>3. TailInv'
    BY <1>2, TailNext
  <2> QED  BY <2>1, <2>2, <2>3
<1>3. ASSUME Inv, UNCHANGED vars PROVE Inv'
  BY <1>3, CoreStutters, PrintedStutters, TailStutters
<1>4. Inv /\ [Next]_vars => Inv'
  BY <1>2, <1>3
<1>5. Inv => IInv
  BY IInvIs
<1> QED  BY <1>1, <1>4, <1>5, PTL DEF Spec

\* -n with -b, and -l with -d, are refused wherever they stand on the command
\* line, before anything is printed (cat.c:17-66).
THEOREM CatRivalsRefused == Spec => []RivalsRefused
<1>1. IInv => RivalsRefused
  BY IInvIs, RivalsFollow DEF Core
<1> QED  BY <1>1, CatInvariant, PTL

\* Without -l standard input is printed word by word, numbered, and up to the
\* first COUNT words (cat.c:84-98), as long as every word fits str[] and no
\* counter passes INT_MAX.
THEOREM CatStdinWordsExact == Spec => []StdinWordsExact
<1>1. IInv => StdinWordsExact
  <2>1. pc = "exit0" => Parsed
    BY DEF Parsed
  <2> QED  BY <2>1 DEF IInv, StdinInv, CountInv, StdinWordsExact
<1> QED  BY <1>1, CatInvariant, PTL

\* Without -l the output is the files' lines with their numbers and marks, the
\* first COUNT of each file under -d, for files whose size and whose numbers do
\* not depend on what an int or the buffer leaves out (cat.c:100-178).
THEOREM CatLinesExact == Spec => []LinesExact
<1>1. IInv => LinesExact
  BY IInvIs, FilesFollow
<1> QED  BY <1>1, CatInvariant, PTL

\* Under -l COUNT the last COUNT - 1 lines of a file whose size is told right
\* are always printed (cat.c:143-178).
THEOREM CatTailKeepsEnd == Spec => []TailKeepsEnd
<1>1. IInv => TailKeepsEnd
  BY IInvIs, TailFollows
<1> QED  BY <1>1, CatInvariant, PTL

=============================================================================
