---------------------------- MODULE Foundations ----------------------------
(* Facts about numbers and sequences that the proofs share: induction and   *)
(* recursion in forms that take no operator, the parts of a sequence,       *)
(* sequences joined, and running totals.                                    *)
EXTENDS Integers, SequencesExt, SequenceTheorems, WellFoundedInduction, TLAPS

\* Every nonempty set of naturals has a least element: the loops of the code
\* that stop at the first match find one (find(), set(), ring successor).
LEMMA LeastNat ==
    ASSUME NEW S \in SUBSET Nat, S # {}
    PROVE  \E i \in S : \A j \in S : i <= j
<1> DEFINE R == OpToRel(<, Nat)
<1>1. \A x, y \in Nat : x < y => <<x, y>> \in R
  BY DEF OpToRel
<1>2. IsWellFoundedOn(R, Nat)
  BY NatLessThanWellFounded
<1> HIDE DEF R
<1>3. S \subseteq Nat
  OBVIOUS
<1>4. PICK i \in S : \A j \in S : ~(<<j, i>> \in R)
  BY <1>2, <1>3, WFMin
<1>5. i \in Nat
  BY <1>3
<1>6. \A j \in S : j \in Nat /\ ~(j < i)
  BY <1>1, <1>3, <1>4, <1>5
<1>7. \A j \in S : i <= j
  BY <1>5, <1>6
<1> QED
  BY <1>4, <1>7

\* Min() is the least element.
LEMMA MinIs ==
    ASSUME NEW T \in SUBSET Nat, T # {}
    PROVE  Min(T) \in T /\ \A i \in T : Min(T) <= i
<1>1. \E i \in T : \A j \in T : i <= j
  BY LeastNat
<1> QED
  BY <1>1 DEF Min

\* The greatest number of a bounded set.
LEMMA MaxIs ==
    ASSUME NEW n \in Nat, NEW T \in SUBSET (0 .. n), T # {}
    PROVE  Max(T) \in T /\ \A i \in T : i <= Max(T)
<1> DEFINE U == {n - k : k \in T}
<1>1. U \in SUBSET Nat /\ U # {}
  <2>1. \A k \in T : k \in 0 .. n /\ n - k \in Nat
    OBVIOUS
  <2> QED
    BY <2>1
<1>2. PICK u \in U : \A t \in U : u <= t
  BY <1>1, LeastNat
<1>3. PICK m \in T : u = n - m
  BY <1>2
<1>4. \A k \in T : k <= m
  <2> SUFFICES ASSUME NEW k \in T PROVE k <= m
    OBVIOUS
  <2>1. n - m <= n - k
    BY <1>2, <1>3
  <2> QED
    BY <2>1
<1>5. \E y \in T : \A k \in T : y >= k
  BY <1>4
<1> QED
  BY <1>5 DEF Max

\* What holds of 0 and passes on to the next number holds of every number.  The
\* property is given as the set of numbers that have it.
LEMMA NatInductive ==
    ASSUME NEW S, 0 \in S, \A i \in Nat : i \in S => i + 1 \in S
    PROVE  Nat \subseteq S
<1> SUFFICES ASSUME Nat \ S # {} PROVE FALSE
  OBVIOUS
<1>1. PICK i \in Nat \ S : \A j \in Nat \ S : i <= j
  BY LeastNat
<1>2. i - 1 \in Nat /\ i - 1 \notin Nat \ S
  BY <1>1
<1> QED
  BY <1>1, <1>2

\* Induction from the end of a window to its front, as its parsers recurse.
LEMMA Downwards ==
    ASSUME NEW n \in Nat, NEW S,
           \A i \in 1 .. n : (\A j \in i + 1 .. n : j \in S) => i \in S
    PROVE  1 .. n \subseteq S
<1> DEFINE T == {m \in Nat : \A i \in 1 .. n : i > n - m => i \in S}
<1>1. 0 \in T
  OBVIOUS
<1>2. ASSUME NEW m \in Nat, m \in T PROVE m + 1 \in T
  <2> SUFFICES ASSUME NEW i \in 1 .. n, i > n - (m + 1) PROVE i \in S
    OBVIOUS
  <2>1. \A j \in i + 1 .. n : j \in S
    BY <1>2
  <2> QED
    BY <2>1
<1> HIDE DEF T
<1>3. n \in T
  BY <1>1, <1>2, NatInductive
<1> QED
  BY <1>3 DEF T

\* F[<<f, i>>] is a value of f at i that depends on the values of f behind i only.
DownwardRecursion(n, V, F) ==
    /\ n \in Nat
    /\ V # {}
    /\ F \in [[1 .. n -> V] \X (1 .. n) -> V]
    /\ \A g, h \in [1 .. n -> V] : \A i \in 1 .. n :
           (\A j \in i + 1 .. n : g[j] = h[j]) => F[<<g, i>>] = F[<<h, i>>]

\* Such a recursion defines a function.
LEMMA DownwardFunction ==
    ASSUME NEW n, NEW V, NEW F, DownwardRecursion(n, V, F)
    PROVE  \E f \in [1 .. n -> V] : \A i \in 1 .. n : f[i] = F[<<f, i>>]
<1> USE DEF DownwardRecursion
<1> DEFINE Maps == [1 .. n -> V]
           Right(f, m) == \A i \in 1 .. n : i > n - m => f[i] = F[<<f, i>>]
           T == {m \in Nat : m <= n => \E f \in Maps : Right(f, m)}
<1>0. \A f \in Maps, i \in 1 .. n : F[<<f, i>>] \in V
  OBVIOUS
<1>1. 0 \in T
  <2>1. PICK v \in V : TRUE
    OBVIOUS
  <2>2. [i \in 1 .. n |-> v] \in Maps
    OBVIOUS
  <2>3. ASSUME NEW f PROVE Right(f, 0)
    <3> SUFFICES ASSUME NEW i \in 1 .. n, i > n - 0 PROVE FALSE
      OBVIOUS
    <3> QED
      OBVIOUS
  <2> HIDE DEF Right, Maps
  <2> QED
    BY <2>2, <2>3
<1>2. ASSUME NEW m \in Nat, m \in T PROVE m + 1 \in T
  <2> SUFFICES ASSUME m + 1 <= n PROVE \E f \in Maps : Right(f, m + 1)
    <3> HIDE DEF Right, Maps
    <3> QED
      BY DEF T
  <2>1. PICK f \in Maps : Right(f, m)
    <3> HIDE DEF Right, Maps
    <3> QED
      BY <1>2 DEF T
  <2> DEFINE k == n - m
             g == [f EXCEPT ![k] = F[<<f, k>>]]
  <2>2. k \in 1 .. n
    OBVIOUS
  <2>3. g \in Maps /\ g[k] = F[<<f, k>>] /\ \A i \in 1 .. n : i # k => g[i] = f[i]
    BY <1>0, <2>2
  <2> HIDE DEF g
  <2>4. ASSUME NEW i \in 1 .. n, i >= k PROVE F[<<g, i>>] = F[<<f, i>>]
    <3>1. \A j \in i + 1 .. n : g[j] = f[j]
      BY <2>3, <2>4
    <3> QED
      BY <2>3, <3>1
  <2>5. ASSUME NEW i \in 1 .. n, i > n - (m + 1) PROVE g[i] = F[<<g, i>>]
    <3>1. i >= k
      BY <2>5
    <3>2. CASE i = k
      BY <2>3, <2>4, <3>1, <3>2
    <3>3. CASE i # k
      <4>1. f[i] = F[<<f, i>>]
        BY <2>1, <3>1, <3>3
      <4> QED
        BY <2>3, <2>4, <3>1, <3>3, <4>1
    <3> QED
      BY <3>2, <3>3
  <2> QED
    BY <2>3, <2>5
<1> HIDE DEF T, Right, Maps
<1>3. n \in T
  BY <1>1, <1>2, NatInductive
<1>4. PICK f \in Maps : Right(f, n)
  BY <1>3 DEF T
<1>5. ASSUME NEW i \in 1 .. n PROVE i > n - n
  OBVIOUS
<1> QED
  BY <1>4, <1>5 DEF Right, Maps

----------------------------------------------------------------------------
(* Parts of a sequence.                                                     *)

\* x is what sequence s holds behind position k, up to position e.
Part(x, s, k, e) ==
    /\ k \in Nat /\ e \in Nat /\ k <= e
    /\ Len(x) = e - k
    /\ \A i \in 1 .. e - k : x[i] = s[k + i]

\* The positions of x are those behind k.
LEMMA PartIsSubSeq ==
    ASSUME NEW S, NEW s \in Seq(S), NEW x \in Seq(S),
           NEW k \in Nat, NEW e \in 0 .. Len(s), k <= e
    PROVE  Part(x, s, k, e) <=> x = SubSeq(s, k + 1, e)
<1> DEFINE y == SubSeq(s, k + 1, e)
<1>1. /\ y \in Seq(S) /\ Len(y) = e - k
      /\ \A i \in 1 .. e - k : y[i] = s[k + i]
  <2>1. \A i \in k + 1 .. e : s[i] \in S
    OBVIOUS
  <2>2. /\ y \in Seq(S)
        /\ Len(y) = IF k + 1 <= e THEN e - (k + 1) + 1 ELSE 0
        /\ \A i \in 1 .. e - (k + 1) + 1 : y[i] = s[(k + 1) + i - 1]
    BY <2>1, SubSeqProperties
  <2> HIDE DEF y
  <2>3. e - (k + 1) + 1 = e - k
    OBVIOUS
  <2>4. \A i \in 1 .. e - k : (k + 1) + i - 1 = k + i
    OBVIOUS
  <2> QED
    BY <2>2, <2>3, <2>4
<1> HIDE DEF y
<1>2. ASSUME x = y PROVE Part(x, s, k, e)
  BY <1>1, <1>2 DEF Part
<1>3. ASSUME Part(x, s, k, e) PROVE x = y
  <2>1. Len(x) = Len(y) /\ \A i \in 1 .. Len(x) : x[i] = y[i]
    BY <1>1, <1>3 DEF Part
  <2> QED
    BY <1>1, <2>1, SeqEqual
<1> QED
  BY <1>2, <1>3 DEF y

\* Two parts that follow each other make one.
LEMMA PartJoin ==
    ASSUME NEW S, NEW s, NEW x \in Seq(S), NEW y \in Seq(S), NEW k, NEW m, NEW e,
           Part(x, s, k, m), Part(y, s, m, e)
    PROVE  Part(x \o y, s, k, e)
<1> DEFINE z == x \o y
<1>1. /\ Len(z) = Len(x) + Len(y)
      /\ \A i \in 1 .. Len(x) + Len(y) : z[i] = IF i <= Len(x) THEN x[i] ELSE y[i - Len(x)]
  BY ConcatProperties
<1> HIDE DEF z
<1>2. /\ k \in Nat /\ m \in Nat /\ e \in Nat /\ k <= m /\ m <= e
      /\ Len(x) = m - k /\ Len(y) = e - m
  BY DEF Part
<1>3. ASSUME NEW i \in 1 .. e - k PROVE z[i] = s[k + i]
  <2>1. CASE i <= m - k
    <3>1. i \in 1 .. m - k /\ z[i] = x[i]
      BY <1>1, <1>2, <2>1
    <3> QED
      BY <3>1 DEF Part
  <2>2. CASE ~(i <= m - k)
    <3>1. i - (m - k) \in 1 .. e - m /\ z[i] = y[i - (m - k)]
      BY <1>1, <1>2, <2>2
    <3>2. m + (i - (m - k)) = k + i
      BY <1>2
    <3> QED
      BY <3>1, <3>2 DEF Part
  <2> QED
    BY <2>1, <2>2
<1>4. Len(z) = e - k /\ k <= e
  BY <1>1, <1>2
<1> QED
  BY <1>2, <1>3, <1>4 DEF Part, z

\* The pieces of a part are parts.
LEMMA PartSplit ==
    ASSUME NEW S, NEW s, NEW x \in Seq(S), NEW y \in Seq(S), NEW k, NEW e,
           Part(x \o y, s, k, e)
    PROVE  Part(x, s, k, k + Len(x)) /\ Part(y, s, k + Len(x), e)
<1> DEFINE z == x \o y
<1>1. /\ Len(z) = Len(x) + Len(y) /\ Len(x) \in Nat /\ Len(y) \in Nat
      /\ \A i \in 1 .. Len(x) + Len(y) : z[i] = IF i <= Len(x) THEN x[i] ELSE y[i - Len(x)]
  BY ConcatProperties
<1>2. /\ k \in Nat /\ e \in Nat /\ k <= e /\ Len(z) = e - k
      /\ \A i \in 1 .. e - k : z[i] = s[k + i]
  BY DEF Part
<1> HIDE DEF z
<1>3. e - k = Len(x) + Len(y)
  BY <1>1, <1>2
<1>4. ASSUME NEW i \in 1 .. Len(x) PROVE x[i] = s[k + i]
  BY SMTT(30), <1>1, <1>2, <1>3
<1>5. ASSUME NEW i \in 1 .. Len(y) PROVE y[i] = s[(k + Len(x)) + i]
  <2>1. Len(x) + i \in 1 .. e - k /\ ~(Len(x) + i <= Len(x)) /\ (Len(x) + i) - Len(x) = i
    BY <1>1, <1>3
  <2>2. z[Len(x) + i] = y[i]
    BY <1>1, <1>3, <2>1
  <2>3. k + (Len(x) + i) = (k + Len(x)) + i
    BY <1>1, <1>2
  <2> QED
    BY <1>2, <2>1, <2>2, <2>3
<1>6. /\ (k + Len(x)) - k = Len(x) /\ e - (k + Len(x)) = Len(y)
      /\ k + Len(x) \in Nat /\ k <= k + Len(x) /\ k + Len(x) <= e
  BY <1>1, <1>2, <1>3
<1> QED
  BY <1>2, <1>4, <1>5, <1>6 DEF Part

\* A part of a part is a part.
LEMMA PartOfPart ==
    ASSUME NEW S, NEW s, NEW x \in Seq(S), NEW k, NEW e, Part(x, s, k, e),
           NEW i \in 1 .. Len(x) + 1, NEW j \in 0 .. Len(x), i <= j + 1
    PROVE  /\ SubSeq(x, i, j) \in Seq(S)
           /\ Part(SubSeq(x, i, j), s, k + (i - 1), k + j)
<1> DEFINE y == SubSeq(x, i, j)
<1>1. \A l \in i .. j : x[l] \in S
  OBVIOUS
<1>2. /\ y \in Seq(S)
      /\ Len(y) = IF i <= j THEN j - i + 1 ELSE 0
      /\ \A l \in 1 .. j - i + 1 : y[l] = x[i + l - 1]
  BY <1>1, SubSeqProperties
<1> HIDE DEF y
<1>3. k \in Nat /\ Len(x) \in Nat /\ Len(x) = e - k /\ \A l \in 1 .. e - k : x[l] = s[k + l]
  BY DEF Part
<1>4. (k + j) - (k + (i - 1)) = j - i + 1
  BY <1>3
<1>5. Len(y) = (k + j) - (k + (i - 1))
  BY <1>2, <1>3
<1>6. ASSUME NEW l \in 1 .. j - i + 1 PROVE y[l] = s[(k + (i - 1)) + l]
  <2>1. i + l - 1 \in 1 .. e - k /\ k + (i + l - 1) = (k + (i - 1)) + l
    BY <1>3
  <2> QED
    BY <1>2, <1>3, <2>1
<1>7. k + (i - 1) \in Nat /\ k + j \in Nat /\ k + (i - 1) <= k + j
  BY <1>3
<1> QED
  BY <1>2, <1>4, <1>5, <1>6, <1>7 DEF Part, y

----------------------------------------------------------------------------
(* Sequences, joined.                                                       *)

\* f[n] is the first n sequences of ms joined.
Joins(f, ms, S) ==
    /\ f \in [0 .. Len(ms) -> Seq(S)]
    /\ f[0] = <<>>
    /\ \A n \in 1 .. Len(ms) : f[n] = f[n - 1] \o ms[n]

\* Sequences can be joined, one after the other.
LEMMA JoinsExist ==
    ASSUME NEW S, NEW ms \in Seq(Seq(S))
    PROVE  \E f : Joins(f, ms, S)
<1> DEFINE Joined(f, n) == /\ f \in [0 .. n -> Seq(S)]
                           /\ f[0] = <<>>
                           /\ \A i \in 1 .. n : f[i] = f[i - 1] \o ms[i]
           T == {n \in Nat : n <= Len(ms) => \E f : Joined(f, n)}
<1>1. 0 \in T
  <2>1. <<>> \in Seq(S)
    OBVIOUS
  <2>2. Joined([i \in 0 .. 0 |-> <<>>], 0)
    BY <2>1
  <2> HIDE DEF Joined
  <2> QED
    BY <2>2
<1>2. ASSUME NEW n \in Nat, n \in T PROVE n + 1 \in T
  <2> SUFFICES ASSUME n + 1 <= Len(ms) PROVE \E f : Joined(f, n + 1)
    <3> HIDE DEF Joined
    <3> QED
      BY DEF T
  <2>1. PICK f : Joined(f, n)
    <3> HIDE DEF Joined
    <3> QED
      BY <1>2 DEF T
  <2> DEFINE x == f[n] \o ms[n + 1]
             g == [i \in 0 .. n + 1 |-> IF i = n + 1 THEN x ELSE f[i]]
  <2>2. x \in Seq(S)
    <3>1. f[n] \in Seq(S) /\ ms[n + 1] \in Seq(S)
      BY <2>1
    <3> QED
      BY <3>1, ConcatProperties
  <2> HIDE DEF x
  <2>3. g \in [0 .. n + 1 -> Seq(S)]
    BY <2>1, <2>2
  <2>4. g[0] = <<>>
    BY <2>1
  <2>5. ASSUME NEW i \in 1 .. n + 1 PROVE g[i] = g[i - 1] \o ms[i]
    <3>1. CASE i = n + 1
      <4>1. g[i] = x /\ g[i - 1] = f[n]
        BY <3>1
      <4> QED
        BY <3>1, <4>1 DEF x
    <3>2. CASE i # n + 1
      <4>1. i \in 1 .. n /\ g[i] = f[i] /\ g[i - 1] = f[i - 1]
        BY <3>2
      <4> QED
        BY <2>1, <4>1
    <3> QED
      BY <3>1, <3>2
  <2> HIDE DEF g
  <2> QED
    BY <2>3, <2>4, <2>5
<1> HIDE DEF T, Joined
<1>3. Len(ms) \in T /\ Len(ms) \in Nat
  BY <1>1, <1>2, NatInductive
<1>4. PICK f : Joined(f, Len(ms))
  BY <1>3 DEF T
<1> QED
  BY <1>4 DEF Joined, Joins

\* FlattenSeq() joins them.
LEMMA FlattenJoins ==
    ASSUME NEW S, NEW ms \in Seq(Seq(S)), NEW f, Joins(f, ms, S), NEW n \in 0 .. Len(ms)
    PROVE  FlattenSeq(SubSeq(ms, 1, n)) = f[n]
<1> DEFINE q == SubSeq(ms, 1, n)
<1>1. q \in Seq(Seq(S)) /\ Len(q) = n /\ \A i \in 1 .. n : q[i] = ms[i]
  <2>1. \A i \in 1 .. n : ms[i] \in Seq(S)
    OBVIOUS
  <2>2. /\ q \in Seq(Seq(S)) /\ Len(q) = IF 1 <= n THEN n - 1 + 1 ELSE 0
        /\ \A i \in 1 .. n - 1 + 1 : q[i] = ms[1 + i - 1]
    BY <2>1, SubSeqProperties
  <2> HIDE DEF q
  <2> QED
    BY <2>2
<1> HIDE DEF q
<1>2. CASE n = 0
  <2>1. q = <<>> /\ FlattenSeq(q) = q
    BY <1>1, <1>2, EmptySeq DEF FlattenSeq
  <2> QED
    BY <1>2, <2>1 DEF Joins, q
<1>3. CASE n # 0
  <2> DEFINE Step(g, i) == IF i = 1 THEN q[i] ELSE g[i - 1] \o q[i]
             flatten == CHOOSE g : g = [i \in 1 .. Len(q) |-> Step(g, i)]
             h == [i \in 1 .. Len(q) |-> f[i]]
  <2>1. FlattenSeq(q) = flatten[Len(q)]
    BY <1>1, <1>3 DEF FlattenSeq
  <2>2. f[1] = q[1]
    <3>1. f[1] = f[0] \o ms[1] /\ f[0] = <<>> /\ q[1] = ms[1] /\ ms[1] \in Seq(S)
      <4>1. 1 \in 1 .. n /\ 1 \in 1 .. Len(ms) /\ 1 - 1 = 0
        BY <1>3
      <4>2. f[1] = f[1 - 1] \o ms[1] /\ f[0] = <<>>
        BY <4>1 DEF Joins
      <4>3. q[1] = ms[1] /\ ms[1] \in Seq(S)
        BY <1>1, <4>1
      <4> QED
        BY <4>1, <4>2, <4>3
    <3> DEFINE x == ms[1]
    <3>2. x \in Seq(S) /\ f[1] = <<>> \o x /\ q[1] = x
      BY <3>1
    <3> HIDE DEF x
    <3> QED
      BY <3>2, ConcatEmptySeq
  <2>3. \A i \in 1 .. Len(q) : h[i] = Step(h, i)
    <3> SUFFICES ASSUME NEW i \in 1 .. Len(q) PROVE h[i] = Step(h, i)
      OBVIOUS
    <3>1. CASE i = 1
      BY <2>2, <3>1
    <3>2. CASE i # 1
      <4>1. i - 1 \in 1 .. Len(q) /\ i \in 1 .. Len(ms)
        BY <1>1, <3>2
      <4>2. f[i] = f[i - 1] \o ms[i] /\ ms[i] = q[i]
        BY <1>1, <4>1 DEF Joins
      <4>3. h[i] = f[i] /\ h[i - 1] = f[i - 1]
        BY <4>1
      <4> HIDE DEF h
      <4> QED
        BY <3>2, <4>2, <4>3
    <3> QED
      BY <3>1, <3>2
  <2>4. h = [i \in 1 .. Len(q) |-> Step(h, i)]
    <3>1. h = [i \in 1 .. Len(q) |-> h[i]]
      OBVIOUS
    <3> HIDE DEF h, Step
    <3> QED
      BY <2>3, <3>1
  <2>5. flatten = [i \in 1 .. Len(q) |-> Step(flatten, i)]
    <3> HIDE DEF h, Step
    <3> QED
      BY <2>4, Zenon
  <2> HIDE DEF flatten, h
  <2> DEFINE T == {i \in Nat : i + 1 \in 1 .. Len(q) => flatten[i + 1] = f[i + 1]}
  <2>6. \A i \in 1 .. Len(q) : flatten[i] = Step(flatten, i)
    <3> HIDE DEF Step
    <3> QED
      BY <2>5
  <2>7. 0 \in T
    BY <2>2, <2>6
  <2>8. ASSUME NEW i \in Nat, i \in T PROVE i + 1 \in T
    <3> SUFFICES ASSUME i + 1 + 1 \in 1 .. Len(q) PROVE flatten[i + 1 + 1] = f[i + 1 + 1]
      OBVIOUS
    <3>1. i + 1 \in 1 .. Len(q) /\ i + 1 + 1 \in 1 .. Len(ms) /\ i + 1 + 1 # 1
          /\ (i + 1 + 1) - 1 = i + 1
      BY <1>1
    <3>2. flatten[i + 1 + 1] = flatten[i + 1] \o q[i + 1 + 1]
      BY <2>6, <3>1
    <3>3. f[i + 1 + 1] = f[i + 1] \o ms[i + 1 + 1]
      BY <3>1 DEF Joins
    <3>4. q[i + 1 + 1] = ms[i + 1 + 1]
      BY <1>1
    <3> QED
      BY <2>8, <3>1, <3>2, <3>3, <3>4
  <2> HIDE DEF T
  <2>9. n - 1 \in T
    <3>1. Nat \subseteq T
      BY <2>7, <2>8, NatInductive
    <3> QED
      BY <1>3, <3>1
  <2>10. flatten[n] = f[n]
    <3>1. (n - 1) + 1 = n /\ n \in 1 .. Len(q)
      BY <1>1, <1>3
    <3> QED
      BY <2>9, <3>1 DEF T
  <2> QED
    BY <1>1, <2>1, <2>10 DEF q
<1> QED
  BY <1>2, <1>3

\* How long the first n of them are together.
End(ms, n) == Len(FlattenSeq(SubSeq(ms, 1, n)))

\* Each lies in the joined sequence where those before it end.
LEMMA JoinedInOrder ==
    ASSUME NEW S, NEW ms \in Seq(Seq(S))
    PROVE  LET s == FlattenSeq(ms) IN
           /\ s \in Seq(S)
           /\ End(ms, 0) = 0 /\ End(ms, Len(ms)) = Len(s)
           /\ \A n \in 0 .. Len(ms) : End(ms, n) \in 0 .. Len(s)
           /\ \A n \in 1 .. Len(ms) : Part(ms[n], s, End(ms, n - 1), End(ms, n))
<1> DEFINE N == Len(ms)
           s == FlattenSeq(ms)
<1>1. PICK f : Joins(f, ms, S)
  BY JoinsExist
<1>2. N \in Nat /\ 0 \in 0 .. N /\ N \in 0 .. N
  OBVIOUS
<1>3. \A n \in 0 .. N : f[n] \in Seq(S) /\ End(ms, n) = Len(f[n])
  BY <1>1, FlattenJoins DEF End, Joins
<1>4. s = f[N]
  <2>1. SubSeq(ms, 1, N) = ms
    BY SubSeqFull
  <2>2. FlattenSeq(SubSeq(ms, 1, N)) = f[N]
    BY <1>1, <1>2, FlattenJoins
  <2> QED
    BY <2>1, <2>2
<1>5. s \in Seq(S) /\ Len(s) \in Nat
  BY <1>2, <1>3, <1>4
<1> HIDE DEF s
<1>6. \A n \in 1 .. N : /\ n - 1 \in 0 .. N /\ n \in 0 .. N /\ f[n] = f[n - 1] \o ms[n]
                        /\ ms[n] \in Seq(S)
  BY <1>1 DEF Joins
<1> DEFINE T == {i \in 1 .. N + 1 : Part(f[i - 1], s, 0, Len(f[i - 1]))}
<1>7. ASSUME NEW n \in 1 .. N, Part(f[n], s, 0, Len(f[n]))
      PROVE  /\ Part(f[n - 1], s, 0, Len(f[n - 1]))
             /\ Part(ms[n], s, Len(f[n - 1]), Len(f[n]))
  <2> DEFINE x == f[n - 1]
             y == ms[n]
             e == Len(f[n])
  <2>0. x \in Seq(S) /\ y \in Seq(S) /\ f[n] = x \o y /\ Part(f[n], s, 0, e)
    BY <1>3, <1>6, <1>7
  <2> HIDE DEF x, y, e
  <2>1. Part(x \o y, s, 0, e) /\ 0 + Len(x) = Len(x)
    BY <2>0
  <2>2. Part(x, s, 0, 0 + Len(x)) /\ Part(y, s, 0 + Len(x), e)
    BY <2>0, <2>1, PartSplit
  <2>3. Part(x, s, 0, Len(x)) /\ Part(y, s, Len(x), e)
    BY <2>1, <2>2
  <2> QED
    BY <2>3 DEF x, y, e
<1>8. ASSUME NEW i \in 1 .. N + 1, \A j \in i + 1 .. N + 1 : j \in T
      PROVE  i \in T
  <2>1. CASE i = N + 1
    <3>1. i - 1 = N
      BY <2>1, <1>2
    <3>2. Part(s, s, 0, Len(s))
      BY <1>5 DEF Part
    <3> QED
      BY <1>4, <3>1, <3>2
  <2>2. CASE i # N + 1
    <3>0. i \in 1 .. N /\ i + 1 \in i + 1 .. N + 1 /\ (i + 1) - 1 = i
      <4> HIDE DEF N
      <4> QED
        BY <1>2, <2>2
    <3>1. i + 1 \in T
      <4> HIDE DEF T, N
      <4> QED
        BY <1>8, <3>0
    <3>2. Part(f[i], s, 0, Len(f[i]))
      BY <3>0, <3>1
    <3> QED
      BY <1>7, <3>0, <3>2
  <2> QED
    BY <2>1, <2>2
<1>9. 1 .. N + 1 \subseteq T
  <2>1. N + 1 \in Nat
    BY <1>2
  <2> HIDE DEF N, T
  <2> QED
    BY <1>8, <2>1, Downwards
<1>10. \A n \in 0 .. N : Part(f[n], s, 0, Len(f[n]))
  <2> SUFFICES ASSUME NEW n \in 0 .. N PROVE Part(f[n], s, 0, Len(f[n]))
    OBVIOUS
  <2>1. n + 1 \in 1 .. N + 1 /\ (n + 1) - 1 = n
    BY <1>2
  <2>2. n + 1 \in T
    BY <1>9, <2>1
  <2> QED
    BY <2>1, <2>2
<1>11. \A n \in 1 .. N : Part(ms[n], s, End(ms, n - 1), End(ms, n))
  BY <1>3, <1>6, <1>7, <1>10
<1>12. \A n \in 0 .. N : End(ms, n) \in Nat /\ End(ms, n) <= Len(s)
  <2> DEFINE U == {i \in 1 .. N + 1 : Len(f[i - 1]) <= Len(s)}
  <2>1. ASSUME NEW i \in 1 .. N + 1, \A j \in i + 1 .. N + 1 : j \in U
        PROVE  i \in U
    <3>1. CASE i = N + 1
      BY <1>2, <1>4, <1>5, <3>1
    <3>2. CASE i # N + 1
      <4>0. i \in 1 .. N /\ i + 1 \in i + 1 .. N + 1 /\ (i + 1) - 1 = i
        <5> HIDE DEF N
        <5> QED
          BY <1>2, <3>2
      <4>1. i + 1 \in U
        <5> HIDE DEF U, N
        <5> QED
          BY <2>1, <4>0
      <4>2. Len(f[i]) <= Len(s) /\ Len(f[i - 1]) <= Len(f[i])
        BY <1>7, <1>10, <1>6, <4>0, <4>1 DEF Part
      <4>3. Len(f[i]) \in Nat /\ Len(f[i - 1]) \in Nat
        BY <1>3, <1>6, <4>0
      <4> QED
        BY <1>5, <4>2, <4>3
    <3> QED
      BY <3>1, <3>2
  <2>2. 1 .. N + 1 \subseteq U
    <3>1. N + 1 \in Nat
      BY <1>2
    <3> HIDE DEF N, U
    <3> QED
      BY <2>1, <3>1, Downwards
  <2> SUFFICES ASSUME NEW n \in 0 .. N PROVE Len(f[n]) \in Nat /\ Len(f[n]) <= Len(s)
    BY <1>3
  <2>3. n + 1 \in 1 .. N + 1 /\ (n + 1) - 1 = n
    BY <1>2
  <2>4. n + 1 \in U
    BY <2>2, <2>3
  <2> QED
    BY <1>3, <2>3, <2>4
<1>13. End(ms, 0) = 0 /\ End(ms, N) = Len(s)
  <2>1. f[0] = <<>> /\ Len(<<>>) = 0
    BY <1>1 DEF Joins
  <2> QED
    BY <1>2, <1>3, <1>4, <2>1
<1> QED
  BY <1>5, <1>11, <1>12, <1>13 DEF s

----------------------------------------------------------------------------
(* Running totals, as loops compute them.                                   *)

Totals(v, n) == CHOOSE f : /\ f \in [0 .. n -> Int]
                           /\ f[0] = 0
                           /\ \A i \in 1 .. n : f[i] = f[i - 1] + v[i]

\* v[1] + ... + v[n]
Total(v, n) == Totals(v, n)[n]

Numbers(v, n) == n \in Nat /\ \A i \in 1 .. n : v[i] \in Int

\* There are running totals.
LEMMA TotalsDefined ==
    ASSUME NEW v, NEW n, Numbers(v, n)
    PROVE  /\ Totals(v, n) \in [0 .. n -> Int]
           /\ Totals(v, n)[0] = 0
           /\ \A i \in 1 .. n : Totals(v, n)[i] = Totals(v, n)[i - 1] + v[i]
<1> DEFINE Right(f, k) == /\ f \in [0 .. k -> Int]
                          /\ f[0] = 0
                          /\ \A i \in 1 .. k : f[i] = f[i - 1] + v[i]
           T == {k \in Nat : k <= n => \E f : Right(f, k)}
<1>1. 0 \in T
  <2>1. Right([i \in 0 .. 0 |-> 0], 0)
    OBVIOUS
  <2> HIDE DEF Right
  <2> QED
    BY <2>1
<1>2. ASSUME NEW k \in Nat, k \in T PROVE k + 1 \in T
  <2> SUFFICES ASSUME k + 1 <= n PROVE \E f : Right(f, k + 1)
    <3> HIDE DEF Right
    <3> QED
      BY DEF T
  <2>1. PICK f : Right(f, k)
    <3> HIDE DEF Right
    <3>1. k <= n
      BY DEF Numbers
    <3> QED
      BY <1>2, <3>1 DEF T
  <2> DEFINE g == [i \in 0 .. k + 1 |-> IF i = k + 1 THEN f[k] + v[k + 1] ELSE f[i]]
  <2>2. v[k + 1] \in Int /\ f[k] \in Int
    BY <2>1 DEF Numbers
  <2>3. g \in [0 .. k + 1 -> Int] /\ g[0] = 0
    BY <2>1, <2>2
  <2>4. ASSUME NEW i \in 1 .. k + 1 PROVE g[i] = g[i - 1] + v[i]
    <3>1. CASE i = k + 1
      BY <3>1
    <3>2. CASE i # k + 1
      BY <2>1, <3>2
    <3> QED
      BY <3>1, <3>2
  <2> HIDE DEF g
  <2> QED
    BY <2>3, <2>4
<1> HIDE DEF T, Right
<1>3. n \in T
  BY <1>1, <1>2, NatInductive DEF Numbers
<1>4. \E f : Right(f, n)
  BY <1>3 DEF T, Numbers
<1> QED
  BY <1>4 DEF Right, Totals

\* Running totals do not depend on what follows.
LEMMA TotalsPrefix ==
    ASSUME NEW v, NEW n, Numbers(v, n), NEW m \in 0 .. n
    PROVE  Totals(v, n)[m] = Total(v, m)
<1> DEFINE f == Totals(v, n)
           g == Totals(v, m)
           T == {k \in Nat : k <= m => f[k] = g[k]}
<1>1. Numbers(v, m)
  BY DEF Numbers
<1>2. f[0] = 0 /\ \A i \in 1 .. n : f[i] = f[i - 1] + v[i]
  BY TotalsDefined
<1>3. g[0] = 0 /\ \A i \in 1 .. m : g[i] = g[i - 1] + v[i]
  BY <1>1, TotalsDefined
<1> HIDE DEF f, g
<1>4. 0 \in T
  BY <1>2, <1>3
<1>5. ASSUME NEW k \in Nat, k \in T PROVE k + 1 \in T
  <2> SUFFICES ASSUME k + 1 <= m PROVE f[k + 1] = g[k + 1]
    OBVIOUS
  <2>1. k + 1 \in 1 .. m /\ k + 1 \in 1 .. n /\ (k + 1) - 1 = k /\ f[k] = g[k]
    BY <1>5 DEF Numbers
  <2> QED
    BY <1>2, <1>3, <2>1
<1> HIDE DEF T
<1>6. m \in T
  BY <1>4, <1>5, NatInductive DEF Numbers
<1> QED
  BY <1>6 DEF T, f, g, Total, Numbers

\* One number more.
LEMMA TotalStep ==
    ASSUME NEW v
    PROVE  /\ Total(v, 0) = 0
           /\ \A n \in Nat : Numbers(v, n) => Total(v, n) \in Int
           /\ \A n \in Nat \ {0} : Numbers(v, n) => Total(v, n) = Total(v, n - 1) + v[n]
<1>1. Numbers(v, 0)
  BY DEF Numbers
<1>2. Total(v, 0) = 0
  BY <1>1, TotalsDefined DEF Total
<1>3. ASSUME NEW n \in Nat, Numbers(v, n) PROVE Total(v, n) \in Int
  BY <1>3, TotalsDefined DEF Total
<1>4. ASSUME NEW n \in Nat \ {0}, Numbers(v, n) PROVE Total(v, n) = Total(v, n - 1) + v[n]
  <2>1. n \in 1 .. n /\ n - 1 \in 0 .. n
    OBVIOUS
  <2>2. Totals(v, n)[n] = Totals(v, n)[n - 1] + v[n]
    BY <1>4, <2>1, TotalsDefined
  <2>3. Totals(v, n)[n - 1] = Total(v, n - 1)
    BY <1>4, <2>1, TotalsPrefix
  <2> QED
    BY <2>2, <2>3 DEF Total
<1> QED
  BY <1>2, <1>3, <1>4

\* Whatever adds up in the same way is the total.
LEMMA TotalIs ==
    ASSUME NEW v, NEW n, Numbers(v, n), NEW f,
           f[0] = 0, \A i \in 1 .. n : f[i] = f[i - 1] + v[i]
    PROVE  f[n] = Total(v, n)
<1> DEFINE T == {k \in Nat : k <= n => f[k] = Total(v, k)}
<1>1. 0 \in T
  BY TotalStep
<1>2. ASSUME NEW k \in Nat, k \in T PROVE k + 1 \in T
  <2> SUFFICES ASSUME k + 1 <= n PROVE f[k + 1] = Total(v, k + 1)
    OBVIOUS
  <2>1. k + 1 \in 1 .. n /\ (k + 1) - 1 = k /\ k + 1 \in Nat \ {0} /\ k <= n
    BY DEF Numbers
  <2>2. Numbers(v, k + 1)
    BY <2>1 DEF Numbers
  <2>3. Total(v, k + 1) = Total(v, k) + v[k + 1]
    BY <2>1, <2>2, TotalStep
  <2> QED
    BY <1>2, <2>1, <2>3
<1> HIDE DEF T
<1>3. n \in T
  BY <1>1, <1>2, NatInductive DEF Numbers
<1> QED
  BY <1>3 DEF T, Numbers

\* Totals of the same numbers are the same.
LEMMA TotalSame ==
    ASSUME NEW v, NEW u, NEW n, Numbers(v, n), \A i \in 1 .. n : u[i] = v[i]
    PROVE  Total(u, n) = Total(v, n)
<1> DEFINE f == Totals(u, n)
<1>1. Numbers(u, n)
  BY DEF Numbers
<1>2. f[0] = 0 /\ \A i \in 1 .. n : f[i] = f[i - 1] + u[i]
  BY <1>1, TotalsDefined
<1>3. f[n] = Total(u, n)
  BY DEF Total
<1> HIDE DEF f
<1> QED
  BY <1>2, <1>3, TotalIs

\* Numbers that are not negative add up to no less than one of them.
LEMMA TotalBounds ==
    ASSUME NEW v, NEW n \in Nat, \A i \in 1 .. n : v[i] \in Nat
    PROVE  Total(v, n) \in Nat /\ \A j \in 1 .. n : v[j] <= Total(v, n)
<1> DEFINE T == {k \in Nat : k <= n => /\ Total(v, k) \in Nat
                                       /\ \A j \in 1 .. k : v[j] <= Total(v, k)}
<1>1. 0 \in T
  BY TotalStep
<1>2. ASSUME NEW k \in Nat, k \in T PROVE k + 1 \in T
  <2> SUFFICES ASSUME k + 1 <= n
               PROVE  /\ Total(v, k + 1) \in Nat
                      /\ \A j \in 1 .. k + 1 : v[j] <= Total(v, k + 1)
    OBVIOUS
  <2>1. Numbers(v, k + 1) /\ k + 1 \in Nat \ {0} /\ (k + 1) - 1 = k
    BY DEF Numbers
  <2>2. Total(v, k + 1) = Total(v, k) + v[k + 1]
    BY <2>1, TotalStep
  <2>3. Total(v, k) \in Nat /\ v[k + 1] \in Nat /\ \A j \in 1 .. k : v[j] <= Total(v, k) /\ v[j] \in Nat
    BY <1>2
  <2> QED
    BY <2>2, <2>3
<1> HIDE DEF T
<1>3. n \in T
  BY <1>1, <1>2, NatInductive
<1> QED
  BY <1>3 DEF T

\* The total changes by what one number does.
LEMMA TotalChange ==
    ASSUME NEW v, NEW u, NEW n, Numbers(v, n), Numbers(u, n), NEW j \in 1 .. n,
           \A i \in 1 .. n : i # j => u[i] = v[i]
    PROVE  Total(u, n) = Total(v, n) + (u[j] - v[j])
<1> DEFINE d == u[j] - v[j]
           T == {k \in Nat : k <= n => Total(u, k) = Total(v, k) + (IF k < j THEN 0 ELSE d)}
<1>0. d \in Int /\ j \in Nat /\ 0 < j /\ u[j] = v[j] + d /\ v[j] \in Int
  BY DEF Numbers
<1> HIDE DEF d
<1>1. 0 \in T
  BY <1>0, TotalStep
<1>2. ASSUME NEW k \in Nat, k \in T PROVE k + 1 \in T
  <2> SUFFICES ASSUME k + 1 <= n
               PROVE  Total(u, k + 1) = Total(v, k + 1) + (IF k + 1 < j THEN 0 ELSE d)
    OBVIOUS
  <2>1. /\ Numbers(v, k + 1) /\ Numbers(u, k + 1) /\ Numbers(v, k)
        /\ k + 1 \in Nat \ {0} /\ (k + 1) - 1 = k /\ k <= n /\ k + 1 \in 1 .. n
    BY DEF Numbers
  <2>2. Total(v, k + 1) = Total(v, k) + v[k + 1] /\ Total(u, k + 1) = Total(u, k) + u[k + 1]
    BY <2>1, TotalStep
  <2>3. Total(v, k) \in Int /\ v[k + 1] \in Int
    BY <2>1, TotalStep DEF Numbers
  <2>4. Total(u, k) = Total(v, k) + (IF k < j THEN 0 ELSE d)
    BY <1>2, <2>1
  <2>5. CASE k + 1 = j
    BY <1>0, <2>2, <2>3, <2>4, <2>5
  <2>6. CASE k + 1 # j
    <3>1. u[k + 1] = v[k + 1]
      BY <2>1, <2>6
    <3>2. (k < j) = (k + 1 < j)
      BY <1>0, <2>6
    <3> QED
      BY <1>0, <2>2, <2>3, <2>4, <3>1, <3>2
  <2> QED
    BY <2>5, <2>6
<1> HIDE DEF T
<1>3. n \in T
  BY <1>1, <1>2, NatInductive DEF Numbers
<1> QED
  BY <1>0, <1>3 DEF T, d, Numbers

\* One number counts, the others are zero.
LEMMA TotalOne ==
    ASSUME NEW v, NEW n, Numbers(v, n), NEW j \in 1 .. n, \A i \in 1 .. n : i # j => v[i] = 0
    PROVE  Total(v, n) = v[j]
<1> DEFINE T == {k \in Nat : k <= n => Total(v, k) = IF k < j THEN 0 ELSE v[j]}
<1>0. j \in Nat /\ 0 < j /\ v[j] \in Int
  BY DEF Numbers
<1>1. 0 \in T
  BY <1>0, TotalStep
<1>2. ASSUME NEW k \in Nat, k \in T PROVE k + 1 \in T
  <2> SUFFICES ASSUME k + 1 <= n
               PROVE  Total(v, k + 1) = IF k + 1 < j THEN 0 ELSE v[j]
    OBVIOUS
  <2>1. Numbers(v, k + 1) /\ k + 1 \in Nat \ {0} /\ (k + 1) - 1 = k /\ k <= n /\ k + 1 \in 1 .. n
    BY DEF Numbers
  <2>2. Total(v, k + 1) = Total(v, k) + v[k + 1]
    BY <2>1, TotalStep
  <2>3. Total(v, k) = IF k < j THEN 0 ELSE v[j]
    BY <1>2, <2>1
  <2>4. k + 1 # j => v[k + 1] = 0
    BY <2>1
  <2> QED
    BY <1>0, <2>2, <2>3, <2>4
<1> HIDE DEF T
<1>3. n \in T
  BY <1>1, <1>2, NatInductive DEF Numbers
<1> QED
  BY <1>0, <1>3 DEF T, Numbers

\* Nothing but zeros.
LEMMA TotalNone ==
    ASSUME NEW v, NEW n \in Nat, \A i \in 1 .. n : v[i] = 0
    PROVE  Total(v, n) = 0
<1> DEFINE f == [i \in 0 .. n |-> 0]
<1>1. f[0] = 0 /\ (\A i \in 1 .. n : f[i] = f[i - 1] + v[i]) /\ f[n] = 0
  OBVIOUS
<1>2. Numbers(v, n)
  BY DEF Numbers
<1> HIDE DEF f
<1> QED
  BY <1>1, <1>2, TotalIs

\* w is v[1], ..., v[n] followed by u[1], ..., u[m].
TwoParts(v, n, u, m, w) ==
    /\ Numbers(v, n) /\ Numbers(u, m)
    /\ \A i \in 1 .. n : w[i] = v[i]
    /\ \A i \in 1 .. m : w[n + i] = u[i]

\* The total of two parts.
LEMMA TotalParts ==
    ASSUME NEW v, NEW n, NEW u, NEW m, NEW w, TwoParts(v, n, u, m, w)
    PROVE  Total(w, n + m) = Total(v, n) + Total(u, m)
<1> USE DEF TwoParts
<1> n \in Nat /\ m \in Nat
  BY DEF Numbers
<1> DEFINE T == {k \in Nat : k <= m => Total(w, n + k) = Total(v, n) + Total(u, k)}
<1>0. Numbers(w, n + m)
  <2> SUFFICES ASSUME NEW i \in 1 .. n + m PROVE w[i] \in Int
    BY DEF Numbers
  <2>1. CASE i <= n
    BY <2>1 DEF Numbers
  <2>2. CASE ~(i <= n)
    <3>1. i - n \in 1 .. m /\ n + (i - n) = i
      BY <2>2
    <3>2. w[n + (i - n)] = u[i - n]
      BY <3>1
    <3> QED
      BY <3>1, <3>2 DEF Numbers
  <2> QED
    BY <2>1, <2>2
<1>1. 0 \in T
  <2>1. Total(w, n) = Total(v, n) /\ Total(v, n) \in Int
    BY TotalSame, TotalStep
  <2> QED
    BY <2>1, TotalStep
<1>2. ASSUME NEW k \in Nat, k \in T PROVE k + 1 \in T
  <2> SUFFICES ASSUME k + 1 <= m
               PROVE  Total(w, n + (k + 1)) = Total(v, n) + Total(u, k + 1)
    OBVIOUS
  <2>1. /\ Numbers(u, k + 1) /\ Numbers(u, k) /\ Numbers(w, n + (k + 1))
        /\ k + 1 \in Nat \ {0} /\ (k + 1) - 1 = k /\ k <= m /\ k + 1 \in 1 .. m
        /\ n + (k + 1) \in Nat \ {0} /\ (n + (k + 1)) - 1 = n + k
    BY <1>0 DEF Numbers
  <2>2. Total(u, k + 1) = Total(u, k) + u[k + 1]
    BY <2>1, TotalStep
  <2>3. Total(w, n + (k + 1)) = Total(w, n + k) + w[n + (k + 1)]
    BY <2>1, TotalStep
  <2>4. w[n + (k + 1)] = u[k + 1] /\ u[k + 1] \in Int
    BY <2>1 DEF Numbers
  <2>5. Total(v, n) \in Int /\ Total(u, k) \in Int
    BY <2>1, TotalStep
  <2> QED
    BY <1>2, <2>1, <2>2, <2>3, <2>4, <2>5
<1> HIDE DEF T
<1>3. m \in T
  BY <1>1, <1>2, NatInductive
<1> QED
  BY <1>3 DEF T

\* Totals of larger numbers are larger.
LEMMA TotalGrows ==
    ASSUME NEW v, NEW u, NEW n, Numbers(v, n), Numbers(u, n),
           \A i \in 1 .. n : v[i] <= u[i]
    PROVE  Total(v, n) <= Total(u, n)
<1> DEFINE T == {k \in Nat : k <= n => Total(v, k) <= Total(u, k)}
<1>1. 0 \in T
  BY TotalStep
<1>2. ASSUME NEW k \in Nat, k \in T PROVE k + 1 \in T
  <2> SUFFICES ASSUME k + 1 <= n PROVE Total(v, k + 1) <= Total(u, k + 1)
    OBVIOUS
  <2>1. /\ Numbers(v, k + 1) /\ Numbers(u, k + 1) /\ Numbers(v, k) /\ Numbers(u, k)
        /\ k + 1 \in Nat \ {0} /\ (k + 1) - 1 = k /\ k <= n /\ k + 1 \in 1 .. n
    BY DEF Numbers
  <2>2. Total(v, k + 1) = Total(v, k) + v[k + 1] /\ Total(u, k + 1) = Total(u, k) + u[k + 1]
    BY <2>1, TotalStep
  <2>3. Total(v, k) \in Int /\ Total(u, k) \in Int
    BY <2>1, TotalStep
  <2>4. v[k + 1] \in Int /\ u[k + 1] \in Int /\ v[k + 1] <= u[k + 1]
    BY <2>1 DEF Numbers
  <2>5. Total(v, k) <= Total(u, k)
    BY <1>2, <2>1
  <2> QED
    BY <2>2, <2>3, <2>4, <2>5
<1> HIDE DEF T
<1>3. n \in T
  BY <1>1, <1>2, NatInductive DEF Numbers
<1> QED
  BY <1>3 DEF T, Numbers

\* The total of sums is the sum of the totals.
LEMMA TotalAdd ==
    ASSUME NEW v, NEW u, NEW w, NEW n, Numbers(v, n), Numbers(u, n),
           \A i \in 1 .. n : w[i] = v[i] + u[i]
    PROVE  Total(w, n) = Total(v, n) + Total(u, n)
<1> DEFINE T == {k \in Nat : k <= n => Total(w, k) = Total(v, k) + Total(u, k)}
<1>0. Numbers(w, n) /\ n \in Nat
  BY DEF Numbers
<1>1. 0 \in T
  BY TotalStep
<1>2. ASSUME NEW k \in Nat, k \in T PROVE k + 1 \in T
  <2> SUFFICES ASSUME k + 1 <= n
               PROVE  Total(w, k + 1) = Total(v, k + 1) + Total(u, k + 1)
    OBVIOUS
  <2>1. /\ Numbers(v, k) /\ Numbers(u, k) /\ Numbers(w, k)
        /\ Numbers(v, k + 1) /\ Numbers(u, k + 1) /\ Numbers(w, k + 1)
    BY <1>0 DEF Numbers
  <2>2. k + 1 \in Nat \ {0} /\ (k + 1) - 1 = k /\ k + 1 \in 1 .. n
    BY <1>0
  <2>3. /\ Total(v, k + 1) = Total(v, k) + v[k + 1]
        /\ Total(u, k + 1) = Total(u, k) + u[k + 1]
        /\ Total(w, k + 1) = Total(w, k) + w[k + 1]
    BY <2>1, <2>2, TotalStep
  <2>4. Total(v, k) \in Int /\ Total(u, k) \in Int /\ v[k + 1] \in Int /\ u[k + 1] \in Int
    BY <2>1, <2>2, TotalStep DEF Numbers
  <2>5. Total(w, k) = Total(v, k) + Total(u, k)
    BY <1>0, <1>2
  <2>6. w[k + 1] = v[k + 1] + u[k + 1]
    BY <2>2
  <2> QED
    BY <2>3, <2>4, <2>5, <2>6
<1> HIDE DEF T
<1>3. n \in T
  BY <1>0, <1>1, <1>2, NatInductive
<1> QED
  BY <1>0, <1>3 DEF T

\* The total of multiples.
LEMMA TotalTimes ==
    ASSUME NEW v, NEW w, NEW n, NEW c \in Int, Numbers(v, n),
           \A i \in 1 .. n : w[i] = c * v[i]
    PROVE  Total(w, n) = c * Total(v, n)
<1> DEFINE T == {k \in Nat : k <= n => Total(w, k) = c * Total(v, k)}
<1>0. Numbers(w, n) /\ n \in Nat
  BY DEF Numbers
<1>1. 0 \in T
  BY TotalStep
<1>2. ASSUME NEW k \in Nat, k \in T PROVE k + 1 \in T
  <2> SUFFICES ASSUME k + 1 <= n PROVE  Total(w, k + 1) = c * Total(v, k + 1)
    OBVIOUS
  <2>1. Numbers(v, k) /\ Numbers(w, k) /\ Numbers(v, k + 1) /\ Numbers(w, k + 1)
    BY <1>0 DEF Numbers
  <2>2. k + 1 \in Nat \ {0} /\ (k + 1) - 1 = k /\ k + 1 \in 1 .. n
    BY <1>0
  <2>3. /\ Total(v, k + 1) = Total(v, k) + v[k + 1]
        /\ Total(w, k + 1) = Total(w, k) + w[k + 1]
    BY <2>1, <2>2, TotalStep
  <2>4. Total(v, k) \in Int /\ v[k + 1] \in Int
    BY <2>1, <2>2, TotalStep DEF Numbers
  <2>5. Total(w, k) = c * Total(v, k)
    BY <1>0, <1>2
  <2>6. w[k + 1] = c * v[k + 1]
    BY <2>2
  <2>7. \A a, b \in Int : c * (a + b) = c * a + c * b
    OBVIOUS
  <2> QED
    BY <2>3, <2>4, <2>5, <2>6, <2>7
<1> HIDE DEF T
<1>3. n \in T
  BY <1>0, <1>1, <1>2, NatInductive
<1> QED
  BY <1>0, <1>3 DEF T

\* v[i] > 0 is the length of something that lies at i, e is the last place taken,
\* and no two of these things overlap.
Packed(v, n, e) ==
    /\ n \in Nat /\ e \in Nat /\ n <= e
    /\ \A i \in 1 .. n : v[i] \in Nat /\ i + v[i] <= e + 1
    /\ \A i, j \in 1 .. n : i < j /\ v[j] > 0 => i + v[i] <= j

\* They are together no longer than the space there is.
LEMMA TotalPacked ==
    ASSUME NEW v, NEW n, NEW e, Packed(v, n, e)
    PROVE  Total(v, n) <= e
<1> DEFINE T == {k \in Nat : k <= n => \A f \in Nat : Packed(v, k, f) => Total(v, k) <= f}
<1>1. 0 \in T
  BY TotalStep
<1>2. ASSUME NEW k \in Nat, k \in T PROVE k + 1 \in T
  <2> SUFFICES ASSUME k + 1 <= n, NEW f \in Nat, Packed(v, k + 1, f)
               PROVE  Total(v, k + 1) <= f
    OBVIOUS
  <2>1. Numbers(v, k) /\ Numbers(v, k + 1)
    BY DEF Packed, Numbers
  <2>2. k + 1 \in Nat \ {0} /\ (k + 1) - 1 = k /\ k + 1 \in 1 .. k + 1
    OBVIOUS
  <2>3. Total(v, k + 1) = Total(v, k) + v[k + 1]
    BY <2>1, <2>2, TotalStep
  <2>4. Total(v, k) \in Int /\ v[k + 1] \in Nat /\ (k + 1) + v[k + 1] <= f + 1
    BY <2>1, <2>2, TotalStep DEF Packed
  <2>5. CASE v[k + 1] = 0
    <3>1. Packed(v, k, f)
      BY DEF Packed
    <3>2. k <= n
      BY DEF Packed
    <3> QED
      BY <1>2, <2>3, <2>4, <2>5, <3>1, <3>2
  <2>6. CASE v[k + 1] > 0
    <3>1. Packed(v, k, k)
      BY <2>6 DEF Packed
    <3>2. k <= n
      BY DEF Packed
    <3>3. Total(v, k) <= k
      BY <1>2, <3>1, <3>2
    <3> QED
      BY <2>3, <2>4, <3>3
  <2> QED
    BY <2>4, <2>5, <2>6
<1> HIDE DEF T
<1>3. n \in T /\ n \in Nat /\ e \in Nat
  BY <1>1, <1>2, NatInductive DEF Packed
<1> QED
  BY <1>3 DEF T
=============================================================================
