------------------------ MODULE WordCountTextProofs -------------------------
(* What the texts of the word count hold: how often a word is in a text, in *)
(* a map result and in a reduce result, that the formats and the cuts lose  *)
(* none, and that the lines are the words in the order of their counts.     *)
EXTENDS WordCount, Foundations, FiniteSetTheorems

\* Calls made at different places of a text of n bytes.
Placed(calls, n) ==
    /\ n \in Nat
    /\ \A c \in calls : c.at \in 1 .. n /\ c.delta \in Nat
    /\ \A c, d \in calls : c.at = d.at => c = d

\* What the call at place i adds.
Deltas(calls) ==
    [i \in Nat |-> IF \E c \in calls : c.at = i THEN (CHOOSE c \in calls : c.at = i).delta ELSE 0]

LEMMA DeltasAre ==
    ASSUME NEW calls, NEW n, Placed(calls, n)
    PROVE  /\ \A c \in calls : Deltas(calls)[c.at] = c.delta
           /\ \A i \in 1 .. n : (\A c \in calls : c.at # i) => Deltas(calls)[i] = 0
           /\ \A i \in 1 .. n : Deltas(calls)[i] \in Nat
           /\ Numbers(Deltas(calls), n)
<1>0. n \in Nat /\ 1 .. n \subseteq Nat
  BY DEF Placed
<1>1. ASSUME NEW c \in calls PROVE Deltas(calls)[c.at] = c.delta
  <2>1. c.at \in Nat /\ \A d \in calls : d.at = c.at => d = c
    BY <1>0 DEF Placed
  <2>2. (CHOOSE d \in calls : d.at = c.at) = c
    BY <2>1
  <2> QED
    BY <2>1, <2>2 DEF Deltas
<1>2. ASSUME NEW i \in 1 .. n, \A c \in calls : c.at # i PROVE Deltas(calls)[i] = 0
  BY <1>0, <1>2 DEF Deltas
<1>3. ASSUME NEW i \in 1 .. n PROVE Deltas(calls)[i] \in Nat
  <2>1. CASE \E c \in calls : c.at = i
    BY <1>1, <2>1 DEF Placed
  <2>2. CASE \A c \in calls : c.at # i
    BY <1>2, <2>2
  <2> QED
    BY <2>1, <2>2
<1> QED
  BY <1>0, <1>1, <1>2, <1>3 DEF Numbers

\* There are finitely many.
LEMMA PlacedFinite ==
    ASSUME NEW calls, NEW n, Placed(calls, n)
    PROVE  IsFiniteSet(calls)
<1> DEFINE f == [c \in calls |-> c.at]
<1>1. f \in Injection(calls, 1 .. n)
  BY DEF Placed, Injection, IsInjective
<1>2. IsFiniteSet(1 .. n)
  <2>1. 1 \in Int /\ n \in Int
    BY DEF Placed
  <2> QED
    BY <2>1, FS_Interval
<1> HIDE DEF f
<1> QED
  BY <1>1, <1>2, FS_Injection

\* The sum over the calls is the total over the places.
LEMMA SumSetIsTotal ==
    ASSUME NEW calls, NEW n, Placed(calls, n)
    PROVE  MapThenSumSet(LAMBDA c : c.delta, calls) = Total(Deltas(calls), n)
<1> DEFINE F == [s \in SUBSET calls |-> Total(Deltas(s), n)]
           Step(g, s) == IF s = {} THEN 0
                         ELSE (CHOOSE x \in s : TRUE).delta + g[s \ {CHOOSE x \in s : TRUE}]
           iter == CHOOSE g : g = [s \in SUBSET calls |-> Step(g, s)]
<1>1. MapThenSumSet(LAMBDA c : c.delta, calls) = iter[calls]
  BY DEF MapThenSumSet, MapThenFoldSet
<1>2. \A s \in SUBSET calls : Placed(s, n)
  BY DEF Placed
<1>3. ASSUME NEW s \in SUBSET calls, NEW x \in s
      PROVE  Total(Deltas(s), n) = x.delta + Total(Deltas(s \ {x}), n)
  <2> DEFINE v == Deltas(s)
             u == Deltas(s \ {x})
             j == x.at
  <2>1. Placed(s, n) /\ Placed(s \ {x}, n)
    BY <1>2
  <2>2. /\ Numbers(v, n) /\ Numbers(u, n) /\ j \in 1 .. n /\ x.delta \in Nat
    BY <2>1, DeltasAre DEF Placed
  <2>3. v[j] = x.delta
    BY <2>1, DeltasAre
  <2>4. u[j] = 0
    <3>1. \A c \in s \ {x} : c.at # j
      BY <2>1 DEF Placed
    <3> QED
      BY <2>1, <2>2, <3>1, DeltasAre
  <2>5. ASSUME NEW i \in 1 .. n, i # j PROVE u[i] = v[i]
    <3>1. CASE \E c \in s : c.at = i
      <4>1. PICK c \in s : c.at = i
        BY <3>1
      <4>2. c \in s \ {x}
        BY <2>5, <4>1
      <4> QED
        BY <2>1, <4>1, <4>2, DeltasAre
    <3>2. CASE \A c \in s : c.at # i
      BY <2>1, <3>2, DeltasAre
    <3> QED
      BY <3>1, <3>2
  <2> HIDE DEF u, v, j
  <2>6. Total(u, n) = Total(v, n) + (u[j] - v[j])
    BY <2>2, <2>5, TotalChange
  <2>7. Total(v, n) \in Int /\ Total(u, n) \in Int
    BY <2>2, TotalStep DEF Numbers
  <2> QED
    BY <2>2, <2>3, <2>4, <2>6, <2>7 DEF u, v
<1>4. Total(Deltas({}), n) = 0
  <2> DEFINE v == Deltas({})
  <2>1. n \in Nat /\ \A i \in 1 .. n : v[i] = 0
    BY <1>2, DeltasAre DEF Placed
  <2> HIDE DEF v
  <2>2. Total(v, n) = 0
    BY <2>1, TotalNone
  <2> QED
    BY <2>2 DEF v
<1>5. F = [s \in SUBSET calls |-> Step(F, s)]
  <2>1. ASSUME NEW s \in SUBSET calls PROVE F[s] = Step(F, s)
    <3>1. CASE s = {}
      BY <1>4, <3>1
    <3>2. CASE s # {}
      <4> DEFINE x == CHOOSE x \in s : TRUE
      <4>1. x \in s
        BY <3>2
      <4> HIDE DEF x
      <4>2. s \ {x} \in SUBSET calls
        OBVIOUS
      <4>3. F[s] = x.delta + F[s \ {x}]
        BY <1>3, <4>1, <4>2
      <4> QED
        BY <3>2, <4>3 DEF x
    <3> QED
      BY <3>1, <3>2
  <2> HIDE DEF Step
  <2> QED
    BY <2>1
<1>6. iter = [s \in SUBSET calls |-> Step(iter, s)]
  <2> HIDE DEF Step, F
  <2> QED
    BY <1>5, Zenon
<1> HIDE DEF iter, F
<1>7. IsFiniteSet(calls)
  BY PlacedFinite
<1> DEFINE T == {k \in Nat : \A s \in SUBSET calls : Cardinality(s) = k => iter[s] = F[s]}
<1>8. 0 \in T
  <2>1. ASSUME NEW s \in SUBSET calls, Cardinality(s) = 0 PROVE iter[s] = F[s]
    <3>1. s = {}
      BY <1>7, <2>1, FS_Subset, FS_EmptySet
    <3>2. iter[s] = Step(iter, s) /\ F[s] = Step(F, s)
      <4> HIDE DEF Step
      <4> QED
        BY <1>5, <1>6
    <3> QED
      BY <3>1, <3>2
  <2> QED
    BY <2>1
<1>9. ASSUME NEW k \in Nat, k \in T PROVE k + 1 \in T
  <2>1. ASSUME NEW s \in SUBSET calls, Cardinality(s) = k + 1 PROVE iter[s] = F[s]
    <3> DEFINE x == CHOOSE x \in s : TRUE
    <3>0. IsFiniteSet(s)
      BY <1>7, FS_Subset
    <3>1. s # {}
      BY <2>1, FS_EmptySet
    <3>2. x \in s
      BY <3>1
    <3> HIDE DEF x
    <3>6. Cardinality(s \ {x}) = Cardinality(s) - 1
      BY <3>0, <3>2, FS_RemoveElement
    <3>3. Cardinality(s \ {x}) = k /\ s \ {x} \in SUBSET calls
      BY <2>1, <3>6
    <3>4. iter[s \ {x}] = F[s \ {x}]
      BY <1>9, <3>3
    <3>5. iter[s] = Step(iter, s) /\ F[s] = Step(F, s)
      <4> HIDE DEF Step
      <4> QED
        BY <1>5, <1>6
    <3> QED
      BY <3>1, <3>4, <3>5 DEF x
  <2> QED
    BY <2>1
<1> HIDE DEF T
<1>10. Cardinality(calls) \in T
  <2>1. Cardinality(calls) \in Nat
    BY <1>7, FS_CardinalityType
  <2>2. Nat \subseteq T
    BY <1>8, <1>9, NatInductive
  <2> QED
    BY <2>1, <2>2
<1>11. iter[calls] = F[calls]
  BY <1>10 DEF T
<1> QED
  BY <1>1, <1>11 DEF F

----------------------------------------------------------------------------
(* Words in a text and what follows them.                                   *)

\* The run of bytes in C that begins at s[i] ends at e.
RunTo(s, i, C, e) ==
    /\ e \in Nat /\ i <= e + 1 /\ e <= Len(s)
    /\ \A k \in i .. e : s[k] \in C
    /\ e < Len(s) => s[e + 1] \notin C

LEMMA RunEndIs ==
    ASSUME NEW s \in Seq(Byte), NEW i \in 1 .. Len(s) + 1, NEW C
    PROVE  /\ RunTo(s, i, C, RunEnd(s, i, C))
           /\ \A e : RunTo(s, i, C, e) => e = RunEnd(s, i, C)
<1> DEFINE T == {k \in i .. Len(s) : s[k] \notin C} \cup {Len(s) + 1}
           m == Min(T)
<1>1. Len(s) \in Nat
  OBVIOUS
<1>2. T \in SUBSET Nat /\ T # {}
  BY <1>1
<1>3. m \in T /\ \A k \in T : m <= k
  BY <1>2, MinIs
<1>4. \A k : k \in T <=> (k \in i .. Len(s) /\ s[k] \notin C) \/ k = Len(s) + 1
  OBVIOUS
<1>5. RunEnd(s, i, C) = m - 1
  BY DEF RunEnd
<1> HIDE DEF T, m
<1>6. m \in i .. Len(s) + 1
  BY <1>1, <1>3, <1>4
<1>7. \A k \in i .. m - 1 : s[k] \in C
  BY <1>1, <1>3, <1>4, <1>6
<1>8. m - 1 < Len(s) => s[(m - 1) + 1] \notin C
  <2>1. (m - 1) + 1 = m
    BY <1>6
  <2> QED
    BY <1>1, <1>3, <1>4, <1>6, <2>1
<1>9. RunTo(s, i, C, m - 1)
  BY <1>1, <1>6, <1>7, <1>8 DEF RunTo
<1>10. ASSUME NEW e, RunTo(s, i, C, e) PROVE e = m - 1
  <2>1. e \in Nat /\ i <= e + 1 /\ e <= Len(s)
    BY <1>10 DEF RunTo
  <2>2. e + 1 \in T
    <3>1. CASE e = Len(s)
      BY <1>4, <3>1
    <3>2. CASE e < Len(s)
      BY <1>1, <1>4, <1>10, <2>1, <3>2 DEF RunTo
    <3> QED
      BY <1>1, <2>1, <3>1, <3>2
  <2>3. m <= e + 1
    BY <1>3, <2>2
  <2>4. ASSUME m <= e PROVE FALSE
    <3>1. m \in i .. e /\ m # Len(s) + 1
      BY <1>1, <1>6, <2>1, <2>4
    <3>2. s[m] \in C
      BY <1>10, <3>1 DEF RunTo
    <3> QED
      BY <1>3, <1>4, <3>1, <3>2
  <2> QED
    BY <1>6, <2>1, <2>3, <2>4
<1> QED
  BY <1>5, <1>9, <1>10

\* The bytes s[i], ..., s[e].
LEMMA SliceIs ==
    ASSUME NEW S, NEW s \in Seq(S), NEW i \in 1 .. Len(s) + 1, NEW e \in Nat,
           i <= e + 1, e <= Len(s)
    PROVE  LET x == SubSeq(s, i, e) IN
           /\ x \in Seq(S)
           /\ Len(x) = (e - i) + 1
           /\ \A k \in 1 .. (e - i) + 1 : x[k] = s[(i + k) - 1]
<1>1. i \in 1 .. Len(s) + 1 /\ e \in i - 1 .. Len(s) /\ Len(s) \in Nat
  OBVIOUS
<1>2. \A k \in i .. e : s[k] \in S
  BY <1>1
<1>3. /\ SubSeq(s, i, e) \in Seq(S)
      /\ Len(SubSeq(s, i, e)) = IF i <= e THEN e - i + 1 ELSE 0
      /\ \A k \in 1 .. e - i + 1 : SubSeq(s, i, e)[k] = s[i + k - 1]
  BY <1>1, <1>2, SubSeqProperties
<1> QED
  BY <1>1, <1>3

\* A sequence of bytes whose elements are in a set.
LEMMA SeqOfBytes ==
    ASSUME NEW S, NEW T, NEW x \in Seq(S), \A k \in 1 .. Len(x) : x[k] \in T
    PROVE  x \in Seq(T)
  OBVIOUS

\* Sequences with the same elements.
LEMMA SeqSame ==
    ASSUME NEW S, NEW x \in Seq(S), NEW y \in Seq(S), Len(x) = Len(y),
           \A k \in 1 .. Len(x) : x[k] = y[k]
    PROVE  x = y
  OBVIOUS

\* Where the letters of the word at s[i] end, and where what follows them does.
WordEnd(s, i) == RunEnd(s, i, Letters)
SuffixEnd(s, i, C) == RunEnd(s, WordEnd(s, i) + 1, C)

LEMMA WordIs ==
    ASSUME NEW s \in Seq(Byte), NEW i \in WordStarts(s)
    PROVE  /\ i \in 1 .. Len(s) /\ s[i] \in Letters
           /\ i > 1 => s[i - 1] \notin Letters
           /\ WordEnd(s, i) \in i .. Len(s)
           /\ RunTo(s, i, Letters, WordEnd(s, i))
           /\ LettersAt(s, i) \in Seq(Letters)
           /\ Len(LettersAt(s, i)) = (WordEnd(s, i) - i) + 1
           /\ \A k \in 1 .. (WordEnd(s, i) - i) + 1 : LettersAt(s, i)[k] = s[(i + k) - 1]
<1> DEFINE e == WordEnd(s, i)
<1>1. i \in 1 .. Len(s) /\ s[i] \in Letters /\ (i > 1 => s[i - 1] \notin Letters)
  BY DEF WordStarts
<1>2. RunTo(s, i, Letters, e)
  BY <1>1, RunEndIs DEF WordEnd
<1> HIDE DEF e
<1>3. e \in i .. Len(s)
  <2>1. e \in Nat /\ i <= e + 1 /\ e <= Len(s) /\ (e < Len(s) => s[e + 1] \notin Letters)
    BY <1>2 DEF RunTo
  <2>2. e # i - 1
    BY <1>1, <2>1
  <2> QED
    BY <1>1, <2>1, <2>2
<1> DEFINE x == SubSeq(s, i, e)
<1>4. LettersAt(s, i) = x
  BY DEF LettersAt, e, WordEnd
<1>5. x \in Seq(Byte) /\ Len(x) = (e - i) + 1
      /\ \A k \in 1 .. (e - i) + 1 : x[k] = s[(i + k) - 1]
  BY <1>1, <1>3, SliceIs
<1>6. \A k \in 1 .. Len(x) : x[k] \in Letters
  <2> SUFFICES ASSUME NEW k \in 1 .. Len(x) PROVE x[k] \in Letters
    OBVIOUS
  <2>1. (i + k) - 1 \in i .. e
    BY <1>1, <1>3, <1>5
  <2> QED
    BY <1>2, <1>5, <2>1 DEF RunTo
<1> HIDE DEF x
<1>7. x \in Seq(Letters)
  BY <1>5, <1>6, SeqOfBytes
<1> QED
  BY <1>1, <1>2, <1>3, <1>4, <1>5, <1>7 DEF e

LEMMA SuffixIs ==
    ASSUME NEW s \in Seq(Byte), NEW i \in WordStarts(s), NEW C
    PROVE  LET e == WordEnd(s, i)
               g == SuffixEnd(s, i, C)
               x == SuffixAt(s, i, C) IN
           /\ g \in e .. Len(s)
           /\ RunTo(s, e + 1, C, g)
           /\ x \in Seq(C) /\ x \in Seq(Byte)
           /\ Len(x) = g - e
           /\ \A k \in 1 .. g - e : x[k] = s[e + k]
<1> DEFINE e == WordEnd(s, i)
           g == SuffixEnd(s, i, C)
           x == SuffixAt(s, i, C)
<1>1. e \in 1 .. Len(s)
  BY WordIs
<1>2. RunTo(s, e + 1, C, g)
  BY <1>1, RunEndIs DEF SuffixEnd
<1>3. x = SubSeq(s, e + 1, g)
  BY DEF SuffixAt, WordEnd, SuffixEnd
<1> HIDE DEF e, g, x
<1>4. g \in Nat /\ e + 1 <= g + 1 /\ g <= Len(s)
  BY <1>2 DEF RunTo
<1>5. x \in Seq(Byte) /\ Len(x) = (g - (e + 1)) + 1
      /\ \A k \in 1 .. (g - (e + 1)) + 1 : x[k] = s[((e + 1) + k) - 1]
  BY <1>1, <1>3, <1>4, SliceIs
<1>6. Len(x) = g - e /\ g \in e .. Len(s) /\ \A k \in 1 .. g - e : x[k] = s[e + k]
  BY <1>1, <1>4, <1>5
<1>7. \A k \in 1 .. Len(x) : x[k] \in C
  BY <1>1, <1>2, <1>4, <1>6 DEF RunTo
<1>8. x \in Seq(C)
  BY <1>5, <1>7, SeqOfBytes
<1> QED
  BY <1>2, <1>5, <1>6, <1>8 DEF e, g, x

\* The next word begins behind what follows the letters of the one before.
LEMMA NextWord ==
    ASSUME NEW s \in Seq(Byte), NEW i \in WordStarts(s), NEW j \in WordStarts(s), i < j,
           NEW C, C \cap Letters = {}
    PROVE  SuffixEnd(s, i, C) < j /\ WordEnd(s, i) + 1 < j
<1> DEFINE e == WordEnd(s, i)
           g == SuffixEnd(s, i, C)
<1>1. e \in i .. Len(s) /\ \A k \in i .. e : s[k] \in Letters
  BY WordIs DEF RunTo
<1>2. g \in e .. Len(s) /\ \A k \in e + 1 .. g : s[k] \in C
  BY SuffixIs DEF RunTo
<1>3. j \in 1 .. Len(s) /\ s[j] \in Letters /\ (j > 1 => s[j - 1] \notin Letters)
  BY WordIs
<1>4. i \in 1 .. Len(s) /\ Len(s) \in Nat
  BY WordIs
<1>5. e < Len(s) => s[e + 1] \notin Letters
  BY WordIs DEF RunTo
<1> HIDE DEF e, g
<1>6. ~ (j <= e)
  <2> SUFFICES ASSUME j <= e PROVE FALSE
    OBVIOUS
  <2>1. j - 1 \in i .. e /\ j > 1
    BY <1>1, <1>3, <1>4
  <2> QED
    BY <1>1, <1>3, <2>1
<1>7. ~ (j \in e + 1 .. g)
  BY <1>2, <1>3
<1>8. j # e + 1
  BY <1>1, <1>3, <1>4, <1>5
<1> QED
  BY <1>1, <1>2, <1>3, <1>4, <1>6, <1>7, <1>8 DEF e, g

----------------------------------------------------------------------------
(* Decimal numbers.                                                         *)

\* Reading the digits at the places in s, from the left.
Reads(f, x, s) ==
    /\ f \in [0 .. Len(x) -> Nat]
    /\ f[0] = 0
    /\ \A k \in 1 .. Len(x) :
           f[k] = IF k \in s THEN 10 * f[k - 1] + (x[k] - 48) ELSE f[k - 1]

LEMMA ReadsExist ==
    ASSUME NEW x \in Seq(Digits), NEW s
    PROVE  \E f : Reads(f, x, s)
<1> DEFINE n == Len(x)
           Right(f, m) == /\ f \in [0 .. m -> Nat]
                          /\ f[0] = 0
                          /\ \A k \in 1 .. m :
                                 f[k] = IF k \in s THEN 10 * f[k - 1] + (x[k] - 48) ELSE f[k - 1]
           T == {m \in Nat : m <= n => \E f : Right(f, m)}
<1>0. n \in Nat /\ \A k \in 1 .. n : x[k] - 48 \in Nat
  BY DEF Digits
<1>1. 0 \in T
  <2>1. Right([k \in 0 .. 0 |-> 0], 0)
    OBVIOUS
  <2> QED
    BY <2>1
<1>2. ASSUME NEW m \in Nat, m \in T PROVE m + 1 \in T
  <2> SUFFICES ASSUME m + 1 <= n PROVE \E f : Right(f, m + 1)
    OBVIOUS
  <2>1. PICK f : Right(f, m)
    BY <1>0, <1>2
  <2> DEFINE v == IF m + 1 \in s THEN 10 * f[m] + (x[m + 1] - 48) ELSE f[m]
             g == [k \in 0 .. m + 1 |-> IF k = m + 1 THEN v ELSE f[k]]
  <2>2. f[m] \in Nat /\ x[m + 1] - 48 \in Nat
    BY <1>0, <2>1
  <2>3. v \in Nat
    BY <2>2
  <2> HIDE DEF v
  <2>4. g \in [0 .. m + 1 -> Nat] /\ g[0] = 0
    BY <2>1, <2>3
  <2>5. ASSUME NEW k \in 1 .. m + 1
        PROVE  g[k] = IF k \in s THEN 10 * g[k - 1] + (x[k] - 48) ELSE g[k - 1]
    <3>1. CASE k = m + 1
      <4>1. g[k] = v /\ g[k - 1] = f[m]
        BY <3>1
      <4> QED
        BY <3>1, <4>1 DEF v
    <3>2. CASE k # m + 1
      <4>1. k \in 1 .. m /\ g[k] = f[k] /\ g[k - 1] = f[k - 1]
        BY <3>2
      <4> QED
        BY <2>1, <4>1
    <3> QED
      BY <3>1, <3>2
  <2> HIDE DEF g
  <2> QED
    BY <2>4, <2>5
<1> HIDE DEF T, Right
<1>3. n \in T
  BY <1>0, <1>1, <1>2, NatInductive
<1>4. PICK f : Right(f, n)
  BY <1>0, <1>3 DEF T
<1> QED
  BY <1>4 DEF Right, Reads

\* What is read does not depend on what is not looked at.
LEMMA ReadsAgree ==
    ASSUME NEW x \in Seq(Digits), NEW y \in Seq(Digits), NEW s, NEW t, NEW f, NEW g,
           Reads(f, x, s), Reads(g, y, t),
           NEW m \in Nat, m <= Len(x), m <= Len(y),
           \A k \in 1 .. m : x[k] = y[k] /\ (k \in s <=> k \in t)
    PROVE  f[m] = g[m]
<1> DEFINE T == {k \in Nat : k <= m => f[k] = g[k]}
<1>1. 0 \in T
  BY DEF Reads
<1>2. ASSUME NEW k \in Nat, k \in T PROVE k + 1 \in T
  <2> SUFFICES ASSUME k + 1 <= m PROVE f[k + 1] = g[k + 1]
    OBVIOUS
  <2>1. k + 1 \in 1 .. Len(x) /\ k + 1 \in 1 .. Len(y) /\ (k + 1) - 1 = k /\ k + 1 \in 1 .. m
    OBVIOUS
  <2>2. f[k] = g[k]
    BY <1>2
  <2>3. f[k + 1] = IF k + 1 \in s THEN 10 * f[k] + (x[k + 1] - 48) ELSE f[k]
    BY <2>1 DEF Reads
  <2>4. g[k + 1] = IF k + 1 \in t THEN 10 * g[k] + (y[k + 1] - 48) ELSE g[k]
    BY <2>1 DEF Reads
  <2> QED
    BY <2>1, <2>2, <2>3, <2>4
<1> HIDE DEF T
<1>3. m \in T
  BY <1>1, <1>2, NatInductive
<1> QED
  BY <1>3 DEF T

Read(x, s) == CHOOSE f : Reads(f, x, s)

\* Nothing is added behind the last place looked at.
LEMMA ReadsStay ==
    ASSUME NEW x \in Seq(Digits), NEW s, NEW f, Reads(f, x, s), NEW m \in 0 .. Len(x),
           \A k \in s : k <= m
    PROVE  f[Len(x)] = f[m]
<1> DEFINE T == {k \in Nat : m + k <= Len(x) => f[m + k] = f[m]}
<1>1. 0 \in T
  OBVIOUS
<1>2. ASSUME NEW k \in Nat, k \in T PROVE k + 1 \in T
  <2> SUFFICES ASSUME m + (k + 1) <= Len(x) PROVE f[m + (k + 1)] = f[m]
    OBVIOUS
  <2>1. m + (k + 1) \in 1 .. Len(x) /\ (m + (k + 1)) - 1 = m + k /\ ~ (m + (k + 1) <= m)
    OBVIOUS
  <2>2. f[m + (k + 1)] = f[m + k]
    BY <2>1 DEF Reads
  <2> QED
    BY <1>2, <2>2
<1> HIDE DEF T
<1>3. Len(x) - m \in T /\ m + (Len(x) - m) = Len(x)
  BY <1>1, <1>2, NatInductive
<1> QED
  BY <1>3 DEF T

\* FoldLeft() reads all digits.
LEMMA NumberReads ==
    ASSUME NEW x \in Seq(Digits)
    PROVE  Number(x) = Read(x, DOMAIN x)[Len(x)]
<1> DEFINE n == Len(x)
           F == [s \in SUBSET DOMAIN x |-> Read(x, s)[n]]
           Step(g, s) == IF s = {} THEN 0
                         ELSE 10 * g[s \ {Max(s)}] + (x[Max(s)] - 48)
           iter == CHOOSE g : g = [s \in SUBSET DOMAIN x |-> Step(g, s)]
<1>1. Number(x) = iter[DOMAIN x]
  BY DEF Number, FoldLeft, MapThenFoldSet
<1>2. DOMAIN x = 1 .. n /\ n \in Nat
  OBVIOUS
<1>3. \A s : Reads(Read(x, s), x, s)
  BY ReadsExist DEF Read
<1> HIDE DEF n
<1>5. \A s \in SUBSET DOMAIN x : s # {} => Max(s) \in s /\ \A k \in s : k <= Max(s)
  <2> SUFFICES ASSUME NEW s \in SUBSET DOMAIN x, s # {}
               PROVE  Max(s) \in s /\ \A k \in s : k <= Max(s)
    OBVIOUS
  <2>1. s \in SUBSET (0 .. n)
    BY <1>2
  <2> QED
    BY <1>2, <2>1, MaxIs
<1>6. ASSUME NEW s \in SUBSET DOMAIN x PROVE Read(x, s)[n] = Step(F, s)
  <2> DEFINE f == Read(x, s)
  <2>0. Reads(f, x, s)
    BY <1>3
  <2> HIDE DEF f
  <2>1. CASE s = {}
    <3>1. f[n] = f[0] /\ f[0] = 0
      BY <1>2, <2>0, <2>1, ReadsStay DEF Reads, n
    <3> QED
      BY <2>1, <3>1 DEF f
  <2>2. CASE s # {}
    <3> DEFINE m == Max(s)
               t == s \ {m}
               g == Read(x, t)
    <3>1. m \in s /\ \A k \in s : k <= m
      BY <1>5, <2>2
    <3>2. m \in 1 .. n /\ m - 1 \in Nat /\ m - 1 \in 0 .. n /\ s \subseteq Nat
      BY <1>2, <3>1
    <3>3. F[t] = g[n]
      OBVIOUS
    <3>4. Reads(g, x, t)
      BY <1>3
    <3> HIDE DEF m, g
    <3>5. f[n] = f[m]
      BY <1>2, <2>0, <3>1, <3>2, ReadsStay DEF n
    <3>6. f[m] = 10 * f[m - 1] + (x[m] - 48)
      BY <2>0, <3>1, <3>2 DEF Reads, n
    <3>7. \A k \in t : k <= m - 1
      BY <3>1, <3>2
    <3>8. \A k \in 1 .. m - 1 : k \in s <=> k \in t
      BY <3>2
    <3> HIDE DEF t
    <3>9. g[n] = g[m - 1]
      BY <1>2, <3>2, <3>4, <3>7, ReadsStay DEF n
    <3>10. f[m - 1] = g[m - 1]
      <4>1. m - 1 <= Len(x)
        BY <1>2, <3>2 DEF n
      <4> QED
        BY <2>0, <3>2, <3>4, <3>8, <4>1, ReadsAgree
    <3>11. f[n] = 10 * F[t] + (x[m] - 48)
      BY <3>3, <3>5, <3>6, <3>9, <3>10
    <3> QED
      BY <2>2, <3>11 DEF m, t, f
  <2> QED
    BY <2>1, <2>2
<1>7. F = [s \in SUBSET DOMAIN x |-> Step(F, s)]
  <2>1. \A s \in SUBSET DOMAIN x : F[s] = Read(x, s)[n]
    OBVIOUS
  <2>2. \A s \in SUBSET DOMAIN x : F[s] = Step(F, s)
    <3> HIDE DEF F, Step
    <3> QED
      BY <1>6, <2>1
  <2>3. F = [s \in SUBSET DOMAIN x |-> F[s]]
    OBVIOUS
  <2> HIDE DEF F, Step
  <2> QED
    BY <2>2, <2>3
<1>8. iter = [s \in SUBSET DOMAIN x |-> Step(iter, s)]
  <2> HIDE DEF Step, F
  <2> QED
    BY <1>7, Zenon
<1>9. ASSUME NEW k \in 0 .. n PROVE 1 .. k \in SUBSET DOMAIN x
  BY <1>2
<1> DEFINE T == {k \in Nat : k <= n => iter[1 .. k] = F[1 .. k]}
<1> HIDE DEF iter, F
<1>10. \A s \in SUBSET DOMAIN x : iter[s] = Step(iter, s) /\ F[s] = Step(F, s)
  <2> HIDE DEF Step
  <2> QED
    BY <1>7, <1>8
<1>11. 0 \in T
  <2>1. 1 .. 0 = {} /\ {} \in SUBSET DOMAIN x
    OBVIOUS
  <2> QED
    BY <1>10, <2>1
<1>12. ASSUME NEW k \in Nat, k \in T PROVE k + 1 \in T
  <2> SUFFICES ASSUME k + 1 <= n PROVE iter[1 .. k + 1] = F[1 .. k + 1]
    OBVIOUS
  <2> DEFINE s == 1 .. k + 1
  <2>1. s \in SUBSET DOMAIN x /\ s # {}
    BY <1>2
  <2>2. Max(s) = k + 1
    <3>1. k + 1 \in s /\ \A j \in s : j \in Nat /\ j <= k + 1
      OBVIOUS
    <3> HIDE DEF s
    <3>2. Max(s) \in s /\ \A j \in s : j <= Max(s)
      BY <1>5, <2>1
    <3>3. Max(s) \in Nat /\ Max(s) <= k + 1 /\ k + 1 <= Max(s)
      BY <3>1, <3>2
    <3> QED
      BY <3>3
  <2>3. s \ {k + 1} = 1 .. k
    OBVIOUS
  <2>4. iter[1 .. k] = F[1 .. k]
    BY <1>2, <1>12
  <2> HIDE DEF s
  <2>5. iter[s] = F[s]
    <3>1. iter[s] = Step(iter, s) /\ F[s] = Step(F, s)
      <4> HIDE DEF Step
      <4> QED
        BY <1>10, <2>1
    <3>2. s \ {Max(s)} = 1 .. k
      BY <2>2, <2>3
    <3> QED
      BY <2>1, <2>4, <3>1, <3>2
  <2> QED
    BY <2>5 DEF s
<1> HIDE DEF T
<1>13. n \in T
  BY <1>2, <1>11, <1>12, NatInductive
<1>14. iter[DOMAIN x] = F[DOMAIN x]
  BY <1>2, <1>13 DEF T
<1> QED
  BY <1>1, <1>14 DEF F, n

LEMMA NumberIs ==
    /\ Number(<<>>) = 0
    /\ \A x \in Seq(Digits) : Number(x) \in Nat
    /\ \A x \in Seq(Digits), d \in Digits : Number(Append(x, d)) = 10 * Number(x) + (d - 48)
<1>1. \A x \in Seq(Digits) : Reads(Read(x, DOMAIN x), x, DOMAIN x)
  BY ReadsExist DEF Read
<1>2. ASSUME NEW x \in Seq(Digits) PROVE Number(x) \in Nat
  BY <1>1, NumberReads DEF Reads
<1>3. Number(<<>>) = 0
  <2>1. <<>> \in Seq(Digits) /\ Len(<<>>) = 0
    OBVIOUS
  <2> QED
    BY <1>1, <2>1, NumberReads DEF Reads
<1>4. ASSUME NEW x \in Seq(Digits), NEW d \in Digits
      PROVE  Number(Append(x, d)) = 10 * Number(x) + (d - 48)
  <2> DEFINE y == Append(x, d)
             f == Read(x, DOMAIN x)
             g == Read(y, DOMAIN y)
             n == Len(x)
  <2>1. y \in Seq(Digits) /\ Len(y) = n + 1 /\ y[n + 1] = d /\ n \in Nat
        /\ \A k \in 1 .. n : y[k] = x[k]
    OBVIOUS
  <2>2. Reads(f, x, DOMAIN x) /\ Reads(g, y, DOMAIN y)
    BY <1>1, <2>1
  <2>3. Number(x) = f[n] /\ Number(y) = g[n + 1]
    BY <2>1, NumberReads
  <2>4. DOMAIN x = 1 .. n /\ DOMAIN y = 1 .. n + 1
    BY <2>1
  <2> HIDE DEF f, g, y
  <2>5. g[n + 1] = 10 * g[n] + (d - 48)
    BY <2>1, <2>2, <2>4 DEF Reads
  <2>6. f[n] = g[n]
    <3>1. \A k \in 1 .. n : x[k] = y[k] /\ (k \in DOMAIN x <=> k \in DOMAIN y)
      BY <2>1, <2>4
    <3> QED
      BY <2>1, <2>2, <3>1, ReadsAgree
  <2> QED
    BY <2>3, <2>5, <2>6 DEF y
<1> QED
  BY <1>2, <1>3, <1>4

\* One step of Decimal.
Digit(g, n) == IF n < 10 THEN <<48 + n>> ELSE Append(g[n \div 10], 48 + (n % 10))

LEMMA TenthIs ==
    \A n \in Nat : /\ n \div 10 \in Nat /\ n % 10 \in 0 .. 9
                   /\ n = 10 * (n \div 10) + (n % 10)
                   /\ n >= 10 => n \div 10 < n /\ n \div 10 >= 1
  OBVIOUS

LEMMA DecimalIs == \A n \in Nat : Decimal[n] = Digit(Decimal, n)
<1> DEFINE Right(g, m) == /\ g \in [0 .. m -> Seq(Digits)]
                          /\ \A n \in 0 .. m : g[n] = Digit(g, n)
           T == {m \in Nat : \E g : Right(g, m)}
           D == [n \in Nat |-> (CHOOSE g : Right(g, n))[n]]
<1>1. 0 \in T
  <2> DEFINE g == [n \in 0 .. 0 |-> <<48>>]
  <2>1. g \in [0 .. 0 -> Seq(Digits)] /\ g[0] = <<48>>
    BY DEF Digits
  <2>2. Digit(g, 0) = <<48>>
    BY DEF Digit
  <2> HIDE DEF g
  <2>3. \A n \in 0 .. 0 : g[n] = Digit(g, n)
    BY <2>1, <2>2
  <2> QED
    BY <2>1, <2>3
<1>2. ASSUME NEW m \in Nat, m \in T PROVE m + 1 \in T
  <2>1. PICK g : Right(g, m)
    BY <1>2
  <2> DEFINE v == Digit(g, m + 1)
             h == [n \in 0 .. m + 1 |-> IF n = m + 1 THEN v ELSE g[n]]
  <2>2. v \in Seq(Digits)
    <3>1. CASE m + 1 < 10
      <4>1. 48 + (m + 1) \in Digits /\ v = <<48 + (m + 1)>>
        BY <3>1 DEF Digit, Digits
      <4> HIDE DEF v
      <4>2. \A d \in Digits : <<d>> \in Seq(Digits)
        OBVIOUS
      <4> QED
        BY <4>1, <4>2
    <3>2. CASE ~ (m + 1 < 10)
      <4>1. (m + 1) \div 10 \in 0 .. m /\ 48 + ((m + 1) % 10) \in Digits
        BY <3>2, TenthIs DEF Digits
      <4>2. g[(m + 1) \div 10] \in Seq(Digits)
        BY <2>1, <4>1
      <4>3. v = Append(g[(m + 1) \div 10], 48 + ((m + 1) % 10))
        BY <3>2 DEF Digit
      <4> HIDE DEF v
      <4>4. \A x \in Seq(Digits), d \in Digits : Append(x, d) \in Seq(Digits)
        OBVIOUS
      <4> QED
        BY <4>1, <4>2, <4>3, <4>4
    <3> QED
      BY <3>1, <3>2
  <2> HIDE DEF v
  <2>3. h \in [0 .. m + 1 -> Seq(Digits)]
    BY <2>1, <2>2
  <2>4. ASSUME NEW n \in 0 .. m + 1 PROVE h[n] = Digit(h, n)
    <3>1. n >= 10 => n \div 10 \in 0 .. m
      BY TenthIs
    <3>2. n >= 10 => h[n \div 10] = g[n \div 10]
      BY <3>1
    <3>3. Digit(h, n) = Digit(g, n)
      <4> HIDE DEF h
      <4>1. CASE n < 10
        BY <4>1 DEF Digit
      <4>2. CASE ~ (n < 10)
        BY <3>2, <4>2 DEF Digit
      <4> QED
        BY <4>1, <4>2
    <3>4. h[n] = Digit(g, n)
      BY <2>1 DEF v
    <3> QED
      BY <3>3, <3>4
  <2> HIDE DEF h
  <2> QED
    BY <2>3, <2>4
<1>3. ASSUME NEW m \in Nat PROVE Right(CHOOSE g : Right(g, m), m)
  <2>1. m \in T
    <3> HIDE DEF T
    <3> QED
      BY <1>1, <1>2, NatInductive
  <2> HIDE DEF Right
  <2> QED
    BY <2>1
<1>4. ASSUME NEW g, NEW h, NEW m \in Nat, NEW n \in Nat, Right(g, m), Right(h, n)
      PROVE  \A k \in 0 .. m : k \in 0 .. n => g[k] = h[k]
  <2> DEFINE S == {k \in Nat : \A j \in 0 .. k : j <= m /\ j <= n => g[j] = h[j]}
  <2>1. ASSUME NEW k \in Nat, k <= m, k <= n, \A j \in 0 .. k - 1 : g[j] = h[j]
        PROVE  g[k] = h[k]
    <3>1. g[k] = Digit(g, k) /\ h[k] = Digit(h, k)
      BY <2>1, <1>4
    <3>2. k >= 10 => k \div 10 \in 0 .. k - 1
      BY TenthIs
    <3>3. CASE k < 10
      BY <3>1, <3>3 DEF Digit
    <3>4. CASE ~ (k < 10)
      <4>1. g[k \div 10] = h[k \div 10]
        BY <2>1, <3>2, <3>4
      <4> QED
        BY <3>1, <3>4, <4>1 DEF Digit
    <3> QED
      BY <3>3, <3>4
  <2> HIDE DEF Right
  <2>2. 0 \in S
    <3>1. g[0] = h[0]
      BY <2>1
    <3> QED
      BY <3>1
  <2>3. ASSUME NEW k \in Nat, k \in S PROVE k + 1 \in S
    <3> SUFFICES ASSUME NEW j \in 0 .. k + 1, j <= m, j <= n PROVE g[j] = h[j]
      OBVIOUS
    <3>1. CASE j <= k
      BY <2>3, <3>1
    <3>2. CASE j = k + 1
      <4>1. \A i \in 0 .. j - 1 : g[i] = h[i]
        BY <2>3, <3>2
      <4> QED
        BY <2>1, <4>1
    <3> QED
      BY <3>1, <3>2
  <2>4. Nat \subseteq S
    <3> HIDE DEF S
    <3> QED
      BY <2>2, <2>3, NatInductive
  <2> QED
    BY <2>4
<1>5. D = [n \in Nat |-> Digit(D, n)]
  <2>1. ASSUME NEW n \in Nat PROVE D[n] = Digit(D, n)
    <3> DEFINE g == CHOOSE g : Right(g, n)
    <3>1. Right(g, n)
      BY <1>3
    <3>2. D[n] = g[n]
      OBVIOUS
    <3> HIDE DEF g
    <3>3. g[n] = Digit(g, n)
      BY <3>1
    <3>4. CASE n < 10
      BY <3>2, <3>3, <3>4 DEF Digit
    <3>5. CASE ~ (n < 10)
      <4> DEFINE k == n \div 10
                 h == CHOOSE h : Right(h, k)
      <4>1. k \in Nat /\ k < n /\ k \in 0 .. n
        BY <3>5, TenthIs
      <4>2. Right(h, k) /\ D[k] = h[k]
        BY <1>3, <4>1
      <4> HIDE DEF h, D, Right
      <4>3. h[k] = g[k]
        BY <1>4, <3>1, <4>1, <4>2
      <4> QED
        BY <3>2, <3>3, <3>5, <4>2, <4>3 DEF Digit
    <3> QED
      BY <3>4, <3>5
  <2>2. D = [n \in Nat |-> D[n]]
    OBVIOUS
  <2> HIDE DEF D
  <2> QED
    BY <2>1, <2>2
<1>6. Decimal = CHOOSE g : g = [n \in Nat |-> Digit(g, n)]
  BY DEF Decimal, Digit
<1>7. Decimal = [n \in Nat |-> Digit(Decimal, n)]
  <2> HIDE DEF D
  <2> QED
    BY <1>5, <1>6, Zenon
<1> QED
  <2> HIDE DEF D
  <2> QED
    BY <1>7

\* A count is written with at most as many digits as it is large, and read back
\* as what it is.
LEMMA DecimalNumber ==
    \A n \in Nat : /\ Decimal[n] \in Seq(Digits)
                   /\ Number(Decimal[n]) = n
                   /\ Len(Decimal[n]) >= 1
                   /\ n >= 1 => Len(Decimal[n]) <= n
<1> DEFINE Good(n) == /\ Decimal[n] \in Seq(Digits)
                      /\ Number(Decimal[n]) = n
                      /\ Len(Decimal[n]) >= 1
                      /\ n >= 1 => Len(Decimal[n]) <= n
           S == {k \in Nat : \A n \in 0 .. k : Good(n)}
<1>1. ASSUME NEW n \in Nat, \A k \in 0 .. n - 1 : Good(k) PROVE Good(n)
  <2>1. Decimal[n] = Digit(Decimal, n)
    BY DecimalIs
  <2>2. CASE n < 10
    <3>1. Decimal[n] = <<48 + n>> /\ 48 + n \in Digits
      BY <2>1, <2>2 DEF Digit, Digits
    <3>2. <<48 + n>> = Append(<<>>, 48 + n) /\ <<>> \in Seq(Digits)
      OBVIOUS
    <3>3. Number(<<48 + n>>) = 10 * 0 + ((48 + n) - 48)
      BY <3>1, <3>2, NumberIs
    <3> QED
      BY <2>2, <3>1, <3>3
  <2>3. CASE ~ (n < 10)
    <3> DEFINE k == n \div 10
               d == 48 + (n % 10)
    <3>1. k \in 0 .. n - 1 /\ k >= 1 /\ d \in Digits /\ n = 10 * k + (d - 48) /\ k < n
      BY <2>3, TenthIs DEF Digits
    <3>2. Decimal[n] = Append(Decimal[k], d)
      BY <2>1, <2>3 DEF Digit
    <3> HIDE DEF k, d
    <3>3. Good(k)
      BY <1>1, <3>1
    <3>4. Number(Decimal[n]) = 10 * Number(Decimal[k]) + (d - 48)
      BY <3>1, <3>2, <3>3, NumberIs
    <3>5. Decimal[n] \in Seq(Digits) /\ Len(Decimal[n]) = Len(Decimal[k]) + 1
      BY <3>1, <3>2, <3>3
    <3> QED
      BY <3>1, <3>3, <3>4, <3>5
  <2> QED
    BY <2>2, <2>3
<1> HIDE DEF Good
<1>2. 0 \in S
  BY <1>1
<1>3. ASSUME NEW k \in Nat, k \in S PROVE k + 1 \in S
  <2>1. \A n \in 0 .. (k + 1) - 1 : Good(n)
    BY <1>3
  <2>2. Good(k + 1)
    BY <1>1, <2>1
  <2> QED
    BY <2>1, <2>2
<1>4. Nat \subseteq S
  <2> HIDE DEF S
  <2> QED
    BY <1>2, <1>3, NatInductive
<1>5. \A n \in Nat : Good(n)
  BY <1>4
<1> QED
  BY <1>5 DEF Good

----------------------------------------------------------------------------
(* The three formats in one: words, each followed by a count.               *)

Kinds == {"text", "map", "red"}

\* How a count is written behind a word; in a text every word counts as one.
After(kind) == CASE kind = "text" -> {} [] kind = "map" -> {One} [] kind = "red" -> Digits

Items(kind, s) ==
    {i \in WordStarts(s) : kind = "text" \/ SuffixAt(s, i, After(kind)) # <<>>}

ItemWord(kind, s, i) == IF kind = "red" THEN LettersAt(s, i) ELSE WordAt(s, i)

ItemCount(kind, s, i) ==
    CASE kind = "text" -> 1
      [] kind = "map" -> Len(SuffixAt(s, i, {One}))
      [] kind = "red" -> Number(SuffixAt(s, i, Digits))

Call(kind, s, i) == [at |-> i, word |-> ItemWord(kind, s, i), delta |-> ItemCount(kind, s, i)]
Calls(kind, s) == {Call(kind, s, i) : i \in Items(kind, s)}

\* What place i of s adds to the count of w, and the count.
Adds(kind, s, w) ==
    [i \in Nat |-> IF i \in Items(kind, s) /\ ItemWord(kind, s, i) = w
                   THEN ItemCount(kind, s, i) ELSE 0]
Count(kind, s, w) == Total(Adds(kind, s, w), Len(s))

Holds(kind, s) == {ItemWord(kind, s, i) : i \in Items(kind, s)}

\* They are the three functions of wordcount.c and combine.c.
LEMMA TablesOfCalls ==
    ASSUME NEW s
    PROVE  /\ wc_tokenize_and_count(s) = hm_put_inc(Calls("text", s))
           /\ wc_from_map_format(s) = hm_put_inc(Calls("map", s))
           /\ combine(s) = hm_put_inc(Calls("red", s))
<1>1. Calls("text", s) = {[at |-> i, word |-> WordAt(s, i), delta |-> 1] : i \in WordStarts(s)}
  <2>1. Items("text", s) = WordStarts(s)
    BY DEF Items
  <2>2. \A i : Call("text", s, i) = [at |-> i, word |-> WordAt(s, i), delta |-> 1]
    BY DEF Call, ItemWord, ItemCount
  <2> QED
    BY <2>1, <2>2 DEF Calls
<1>2. Calls("map", s) =
          {[at |-> i, word |-> WordAt(s, i), delta |-> Len(SuffixAt(s, i, {One}))] :
               i \in {j \in WordStarts(s) : SuffixAt(s, j, {One}) # <<>>}}
  <2>1. Items("map", s) = {j \in WordStarts(s) : SuffixAt(s, j, {One}) # <<>>}
    BY DEF Items, After
  <2>2. \A i : Call("map", s, i) =
                   [at |-> i, word |-> WordAt(s, i), delta |-> Len(SuffixAt(s, i, {One}))]
    BY DEF Call, ItemWord, ItemCount
  <2> QED
    BY <2>1, <2>2 DEF Calls
<1>3. Calls("red", s) = Entries(s)
  <2>1. Items("red", s) = {j \in WordStarts(s) : SuffixAt(s, j, Digits) # <<>>}
    BY DEF Items, After
  <2>2. \A i : Call("red", s, i) =
                   [at |-> i, word |-> LettersAt(s, i), delta |-> Number(SuffixAt(s, i, Digits))]
    BY DEF Call, ItemWord, ItemCount
  <2> QED
    BY <2>1, <2>2 DEF Calls, Entries
<1> QED
  BY <1>1, <1>2, <1>3 DEF wc_tokenize_and_count, wc_from_map_format, combine

LEMMA AfterIs ==
    ASSUME NEW kind \in Kinds
    PROVE  /\ After(kind) \cap Letters = {}
           /\ kind = "text" => After(kind) = {}
           /\ kind = "map" => After(kind) = {One}
           /\ kind = "red" => After(kind) = Digits
           /\ After(kind) \subseteq Digits
<1>1. /\ kind = "text" => After(kind) = {}
      /\ kind = "map" => After(kind) = {One}
      /\ kind = "red" => After(kind) = Digits
  BY DEF After
<1>2. Digits \cap Letters = {} /\ One \in Digits
  BY DEF Digits, Letters, One
<1> QED
  BY <1>1, <1>2 DEF Kinds

\* A word in lower case, cut to the size of the buffer.
Low == 97 .. 122

LEMMA WordAtIs ==
    ASSUME NEW s \in Seq(Byte), NEW i \in WordStarts(s)
    PROVE  /\ WordAt(s, i) \in Seq(Low)
           /\ Len(WordAt(s, i)) \in 1 .. MAX_WORD
           /\ Len(WordAt(s, i)) <= Len(LettersAt(s, i))
<1> DEFINE w == LettersAt(s, i)
           n == Min({Len(w), MAX_WORD})
<1>1. w \in Seq(Letters) /\ Len(w) \in Nat /\ Len(w) >= 1
  BY WordIs
<1>2. MAX_WORD \in Nat \ {0}
  BY SizeAssumption
<1>3. n \in {Len(w), MAX_WORD} /\ n <= Len(w) /\ n <= MAX_WORD
  <2>1. {Len(w), MAX_WORD} \in SUBSET Nat /\ {Len(w), MAX_WORD} # {}
    BY <1>1, <1>2
  <2> QED
    BY <2>1, MinIs
<1>4. n \in 1 .. MAX_WORD /\ n <= Len(w)
  BY <1>1, <1>2, <1>3
<1>5. WordAt(s, i) = [k \in 1 .. n |-> tolower_ascii(w[k])]
  BY DEF WordAt
<1> HIDE DEF w, n
<1>6. \A k \in 1 .. n : tolower_ascii(w[k]) \in Low
  <2>1. \A c \in Letters : tolower_ascii(c) \in Low
    BY DEF Letters, tolower_ascii, Low
  <2>2. \A k \in 1 .. n : w[k] \in Letters
    BY <1>1, <1>4
  <2> QED
    BY <2>1, <2>2
<1>7. n \in Nat
  BY <1>4
<1> DEFINE x == [k \in 1 .. n |-> tolower_ascii(w[k])]
<1>8. x \in Seq(Low) /\ Len(x) = n
  BY <1>6, <1>7
<1> QED
  BY <1>4, <1>5, <1>8 DEF w

\* What an item is.
LEMMA ItemIs ==
    ASSUME NEW kind \in Kinds, NEW s \in Seq(Byte), NEW i \in Items(kind, s)
    PROVE  /\ i \in WordStarts(s) /\ i \in 1 .. Len(s)
           /\ ItemWord(kind, s, i) \in Seq(Letters)
           /\ Len(ItemWord(kind, s, i)) \in 1 .. Len(LettersAt(s, i))
           /\ kind # "red" => /\ ItemWord(kind, s, i) \in Seq(Low)
                              /\ Len(ItemWord(kind, s, i)) \in 1 .. MAX_WORD
           /\ ItemCount(kind, s, i) \in Nat
           /\ kind # "red" => ItemCount(kind, s, i) >= 1
<1> DEFINE w == ItemWord(kind, s, i)
<1>1. i \in WordStarts(s) /\ i \in 1 .. Len(s)
  BY WordIs DEF Items
<1>2. LettersAt(s, i) \in Seq(Letters) /\ Len(LettersAt(s, i)) \in Nat /\ Len(LettersAt(s, i)) >= 1
  BY <1>1, WordIs
<1>3. WordAt(s, i) \in Seq(Low) /\ Len(WordAt(s, i)) \in 1 .. MAX_WORD
      /\ Len(WordAt(s, i)) <= Len(LettersAt(s, i))
  BY <1>1, WordAtIs
<1>4. \A x \in Seq(Low) : x \in Seq(Letters)
  <2>1. Low \subseteq Letters
    BY DEF Low, Letters
  <2> QED
    BY <2>1, SeqMonotonic
<1>5. /\ w \in Seq(Letters) /\ Len(w) \in 1 .. Len(LettersAt(s, i))
      /\ kind # "red" => w \in Seq(Low) /\ Len(w) \in 1 .. MAX_WORD
  <2>1. CASE kind = "red"
    <3>1. w = LettersAt(s, i)
      BY <2>1 DEF ItemWord
    <3> HIDE DEF w
    <3> QED
      BY <1>2, <2>1, <3>1
  <2>2. CASE kind # "red"
    <3>1. w = WordAt(s, i)
      BY <2>2 DEF ItemWord
    <3>2. Len(WordAt(s, i)) \in 1 .. Len(LettersAt(s, i))
      <4>1. MAX_WORD \in Nat
        BY SizeAssumption
      <4> QED
        BY <1>2, <1>3, <4>1
    <3> HIDE DEF w
    <3> QED
      BY <1>3, <1>4, <2>2, <3>1, <3>2
  <2> QED
    BY <2>1, <2>2
<1>6. ItemCount(kind, s, i) \in Nat /\ (kind # "red" => ItemCount(kind, s, i) >= 1)
  <2>1. CASE kind = "text"
    BY <2>1 DEF ItemCount
  <2>2. CASE kind = "map"
    <3> DEFINE x == SuffixAt(s, i, {One})
    <3>1. x \in Seq(Byte) /\ x # <<>>
      BY <1>1, <2>2, SuffixIs DEF Items, After
    <3>2. ItemCount(kind, s, i) = Len(x)
      BY <2>2 DEF ItemCount
    <3> HIDE DEF x
    <3> QED
      BY <3>1, <3>2
  <2>3. CASE kind = "red"
    <3>1. SuffixAt(s, i, Digits) \in Seq(Digits)
      BY <1>1, SuffixIs
    <3>2. ItemCount(kind, s, i) = Number(SuffixAt(s, i, Digits))
      BY <2>3 DEF ItemCount
    <3> QED
      BY <2>3, <3>1, <3>2, NumberIs
  <2> QED
    BY <2>1, <2>2, <2>3 DEF Kinds
<1> QED
  BY <1>1, <1>5, <1>6

LEMMA AddsAre ==
    ASSUME NEW kind \in Kinds, NEW s \in Seq(Byte), NEW w
    PROVE  /\ Len(s) \in Nat
           /\ \A i \in Nat : Adds(kind, s, w)[i] =
                  IF i \in Items(kind, s) /\ ItemWord(kind, s, i) = w THEN ItemCount(kind, s, i) ELSE 0
           /\ \A i \in Nat : Adds(kind, s, w)[i] \in Nat
           /\ Numbers(Adds(kind, s, w), Len(s))
           /\ Count(kind, s, w) \in Nat
<1>1. Len(s) \in Nat
  OBVIOUS
<1>2. \A i \in Nat : Adds(kind, s, w)[i] =
          IF i \in Items(kind, s) /\ ItemWord(kind, s, i) = w THEN ItemCount(kind, s, i) ELSE 0
  BY DEF Adds
<1>3. \A i \in Nat : Adds(kind, s, w)[i] \in Nat
  BY <1>2, ItemIs
<1> DEFINE v == Adds(kind, s, w)
<1> HIDE DEF v
<1>4. \A i \in 1 .. Len(s) : v[i] \in Nat
  BY <1>1, <1>3 DEF v
<1>5. Numbers(v, Len(s)) /\ Total(v, Len(s)) \in Nat
  BY <1>1, <1>4, TotalBounds DEF Numbers
<1> QED
  BY <1>1, <1>2, <1>3, <1>5 DEF v, Count

\* The table holds each word with its count.
LEMMA TableIs ==
    ASSUME NEW kind \in Kinds, NEW s \in Seq(Byte)
    PROVE  hm_put_inc(Calls(kind, s)) = [w \in Holds(kind, s) |-> Count(kind, s, w)]
<1> DEFINE calls == Calls(kind, s)
           Of(w) == {c \in calls : c.word = w}
<1>1. \A i : /\ Call(kind, s, i).at = i
             /\ Call(kind, s, i).word = ItemWord(kind, s, i)
             /\ Call(kind, s, i).delta = ItemCount(kind, s, i)
  BY DEF Call
<1>2. \A c : c \in calls <=> \E i \in Items(kind, s) : c = Call(kind, s, i)
  BY DEF Calls
<1>3. {c.word : c \in calls} = Holds(kind, s)
  BY <1>1, <1>2 DEF Holds
<1>4. ASSUME NEW w PROVE MapThenSumSet(LAMBDA c : c.delta, Of(w)) = Count(kind, s, w)
  <2> DEFINE cs == Of(w)
             n == Len(s)
  <2>0. \A c : c \in cs <=> \E i \in Items(kind, s) : c = Call(kind, s, i) /\ ItemWord(kind, s, i) = w
    BY <1>1, <1>2
  <2>00. n \in Nat
    OBVIOUS
  <2> HIDE DEF cs, n
  <2>1. Placed(cs, n)
    <3>1. \A i \in Items(kind, s) : i \in 1 .. n /\ ItemCount(kind, s, i) \in Nat
      BY ItemIs DEF n
    <3>2. \A c \in cs : c.at \in 1 .. n /\ c.delta \in Nat
      BY <1>1, <2>0, <3>1
    <3>3. \A c, d \in cs : c.at = d.at => c = d
      BY <1>1, <2>0
    <3> QED
      BY <2>00, <3>2, <3>3 DEF Placed
  <2>2. MapThenSumSet(LAMBDA c : c.delta, cs) = Total(Deltas(cs), n)
    BY <2>1, SumSetIsTotal
  <2>3. \A i \in 1 .. n : Adds(kind, s, w)[i] = Deltas(cs)[i]
    <3> SUFFICES ASSUME NEW i \in 1 .. n PROVE Adds(kind, s, w)[i] = Deltas(cs)[i]
      OBVIOUS
    <3>0. i \in Nat
      BY <2>00
    <3>1. CASE i \in Items(kind, s) /\ ItemWord(kind, s, i) = w
      <4>1. Call(kind, s, i) \in cs
        BY <2>0, <3>1
      <4>2. Deltas(cs)[i] = ItemCount(kind, s, i)
        BY <1>1, <2>1, <4>1, DeltasAre
      <4> QED
        BY <3>0, <3>1, <4>2, AddsAre
    <3>2. CASE ~ (i \in Items(kind, s) /\ ItemWord(kind, s, i) = w)
      <4>1. \A c \in cs : c.at # i
        BY <1>1, <2>0, <3>2
      <4>2. Deltas(cs)[i] = 0
        BY <2>1, <4>1, DeltasAre
      <4> QED
        BY <3>0, <3>2, <4>2, AddsAre
    <3> QED
      BY <3>1, <3>2
  <2>4. Numbers(Deltas(cs), n)
    BY <2>1, DeltasAre
  <2> DEFINE u == Deltas(cs)
             v == Adds(kind, s, w)
  <2> HIDE DEF u, v
  <2>5. Total(v, n) = Total(u, n)
    <3>1. Numbers(u, n) /\ \A i \in 1 .. n : v[i] = u[i]
      BY <2>3, <2>4 DEF u, v
    <3> QED
      BY <3>1, TotalSame
  <2> QED
    BY <2>2, <2>5 DEF u, v, cs, n, Count
<1>5. hm_put_inc(calls) =
          [w \in {c.word : c \in calls} |-> MapThenSumSet(LAMBDA c : c.delta, Of(w))]
  BY DEF hm_put_inc
<1> HIDE DEF calls
<1> QED
  BY <1>3, <1>4, <1>5 DEF calls

----------------------------------------------------------------------------
(* Texts that are joined, or cut.                                           *)

\* No word, and no count, crosses the border between x and y.
Separate(kind, x, y) ==
    \/ x = <<>> \/ y = <<>>
    \/ kind = "text" /\ x[Len(x)] \notin Letters
    \/ kind = "text" /\ y[1] \notin Letters
    \/ x[Len(x)] \notin Letters /\ y[1] \in Letters

LEMMA JoinIs ==
    ASSUME NEW S, NEW x \in Seq(S), NEW y \in Seq(S)
    PROVE  /\ x \o y \in Seq(S) /\ Len(x) \in Nat /\ Len(y) \in Nat
           /\ Len(x \o y) = Len(x) + Len(y)
           /\ \A k \in 1 .. Len(x) : (x \o y)[k] = x[k]
           /\ \A k \in 1 .. Len(y) : (x \o y)[Len(x) + k] = y[k]
<1>1. /\ x \o y \in Seq(S)
      /\ Len(x \o y) = Len(x) + Len(y)
      /\ \A i \in 1 .. Len(x) + Len(y) : (x \o y)[i] = IF i <= Len(x) THEN x[i] ELSE y[i - Len(x)]
  BY ConcatProperties
<1>2. Len(x) \in Nat /\ Len(y) \in Nat
  OBVIOUS
<1> DEFINE z == x \o y
           n == Len(x)
           m == Len(y)
<1> HIDE DEF z, n, m
<1>3. /\ n \in Nat /\ m \in Nat
      /\ \A i \in 1 .. n + m : z[i] = IF i <= n THEN x[i] ELSE y[i - n]
  BY <1>1, <1>2 DEF z, n, m
<1>4. \A k \in 1 .. n : z[k] = x[k]
  BY <1>3
<1>5. ASSUME NEW k \in 1 .. m PROVE z[n + k] = y[k]
  <2>1. n + k \in 1 .. n + m /\ ~ (n + k <= n) /\ (n + k) - n = k
    BY <1>3
  <2> QED
    BY <1>3, <2>1
<1> QED
  BY <1>1, <1>2, <1>4, <1>5 DEF z, n, m

\* z is x and y joined, n bytes and m bytes long.
Joined(z, x, y, n, m) ==
    /\ x \in Seq(Byte) /\ y \in Seq(Byte) /\ z \in Seq(Byte)
    /\ n \in Nat /\ m \in Nat /\ Len(x) = n /\ Len(y) = m /\ Len(z) = n + m
    /\ \A k \in 1 .. n : z[k] = x[k]
    /\ \A k \in 1 .. m : z[n + k] = y[k]

LEMMA JoinedIs ==
    ASSUME NEW x \in Seq(Byte), NEW y \in Seq(Byte)
    PROVE  Joined(x \o y, x, y, Len(x), Len(y))
  BY JoinIs DEF Joined

\* Runs in the first part and in the second.
LEMMA RunLeft ==
    ASSUME NEW z, NEW x, NEW y, NEW n, NEW m, Joined(z, x, y, n, m),
           NEW C, NEW i \in Nat, i >= 1, NEW e, RunTo(x, i, C, e),
           e < n \/ m = 0 \/ y[1] \notin C
    PROVE  RunTo(z, i, C, e)
<1> USE DEF Joined
<1>1. e \in Nat /\ i <= e + 1 /\ e <= n /\ (\A k \in i .. e : x[k] \in C) /\ (e < n => x[e + 1] \notin C)
  BY DEF RunTo
<1>2. e <= Len(z)
  BY <1>1
<1>3. \A k \in i .. e : z[k] \in C
  BY <1>1
<1>4. ASSUME e < Len(z) PROVE z[e + 1] \notin C
  <2>1. CASE e < n
    BY <1>1, <2>1
  <2>2. CASE ~ (e < n)
    <3>1. e = n /\ m # 0
      BY <1>1, <1>4, <2>2
    <3>2. z[e + 1] = y[1]
      BY <3>1
    <3> QED
      BY <1>1, <2>2, <3>1, <3>2
  <2> QED
    BY <2>1, <2>2
<1> QED
  BY <1>1, <1>2, <1>3, <1>4 DEF RunTo

LEMMA RunRight ==
    ASSUME NEW z, NEW x, NEW y, NEW n, NEW m, Joined(z, x, y, n, m),
           NEW C, NEW i \in Nat, i >= 1, NEW e, RunTo(y, i, C, e)
    PROVE  RunTo(z, n + i, C, n + e)
<1> USE DEF Joined
<1>1. e \in Nat /\ i <= e + 1 /\ e <= m /\ (\A k \in i .. e : y[k] \in C) /\ (e < m => y[e + 1] \notin C)
  BY DEF RunTo
<1>2. n + e \in Nat /\ n + i <= (n + e) + 1 /\ n + e <= Len(z)
  BY <1>1
<1>3. ASSUME NEW k \in n + i .. n + e PROVE z[k] \in C
  <2>1. k - n \in i .. e /\ k - n \in 1 .. m /\ n + (k - n) = k
    BY <1>1
  <2>2. z[n + (k - n)] = y[k - n]
    BY <2>1
  <2> QED
    BY <1>1, <2>1, <2>2
<1>4. ASSUME n + e < Len(z) PROVE z[(n + e) + 1] \notin C
  <2>1. e + 1 \in 1 .. m /\ n + (e + 1) = (n + e) + 1
    BY <1>1, <1>4
  <2>2. z[n + (e + 1)] = y[e + 1]
    BY <2>1
  <2> QED
    BY <1>1, <2>1, <2>2
<1> QED
  BY <1>2, <1>3, <1>4 DEF RunTo

\* The same word with the same suffix, at place i of s and j of t.
SameAt(kind, s, i, t, j) ==
    /\ i \in WordStarts(s) <=> j \in WordStarts(t)
    /\ i \in WordStarts(s) => /\ LettersAt(s, i) = LettersAt(t, j)
                              /\ SuffixAt(s, i, After(kind)) = SuffixAt(t, j, After(kind))

LEMMA SameItem ==
    ASSUME NEW kind \in Kinds, NEW s, NEW t, NEW i, NEW j, SameAt(kind, s, i, t, j)
    PROVE  /\ i \in Items(kind, s) <=> j \in Items(kind, t)
           /\ i \in Items(kind, s) => /\ ItemWord(kind, s, i) = ItemWord(kind, t, j)
                                      /\ ItemCount(kind, s, i) = ItemCount(kind, t, j)
<1>1. i \in Items(kind, s) <=> j \in Items(kind, t)
  BY DEF SameAt, Items
<1>2. ASSUME i \in WordStarts(s)
      PROVE  ItemWord(kind, s, i) = ItemWord(kind, t, j) /\ ItemCount(kind, s, i) = ItemCount(kind, t, j)
  <2>1. LettersAt(s, i) = LettersAt(t, j) /\ SuffixAt(s, i, After(kind)) = SuffixAt(t, j, After(kind))
    BY <1>2 DEF SameAt
  <2>2. WordAt(s, i) = WordAt(t, j)
    BY <2>1 DEF WordAt
  <2>3. /\ kind = "map" => After(kind) = {One}
        /\ kind = "red" => After(kind) = Digits
    BY AfterIs
  <2>4. ItemCount(kind, s, i) = ItemCount(kind, t, j)
    <3>1. CASE kind = "text"
      BY <3>1 DEF ItemCount
    <3>2. CASE kind = "map"
      <4>1. SuffixAt(s, i, {One}) = SuffixAt(t, j, {One})
        BY <2>1, <2>3, <3>2
      <4> QED
        BY <3>2, <4>1 DEF ItemCount
    <3>3. CASE kind = "red"
      <4>1. SuffixAt(s, i, Digits) = SuffixAt(t, j, Digits)
        BY <2>1, <2>3, <3>3
      <4> QED
        BY <3>3, <4>1 DEF ItemCount
    <3> QED
      BY <3>1, <3>2, <3>3 DEF Kinds
  <2> QED
    BY <2>1, <2>2, <2>4 DEF ItemWord
<1>3. i \in Items(kind, s) => i \in WordStarts(s)
  BY DEF Items
<1> QED
  BY <1>1, <1>2, <1>3

\* n bytes of s from place i on are those of t from place j on.
Alike(s, t, i, j, n) ==
    /\ s \in Seq(Byte) /\ t \in Seq(Byte)
    /\ i \in Nat \ {0} /\ j \in Nat \ {0} /\ n \in Nat
    /\ i + n <= Len(s) + 1 /\ j + n <= Len(t) + 1
    /\ \A k \in 0 .. n - 1 : s[i + k] = t[j + k]

Slice(s, i, e) == SubSeq(s, i, e)

LEMMA SlicesSame ==
    ASSUME NEW s, NEW t, NEW i, NEW j, NEW n, Alike(s, t, i, j, n),
           NEW e, NEW f, e = (i + n) - 1, f = (j + n) - 1
    PROVE  Slice(s, i, e) = Slice(t, j, f)
<1> USE DEF Alike
<1> DEFINE x == SubSeq(s, i, e)
           y == SubSeq(t, j, f)
<1>1. i \in 1 .. Len(s) + 1 /\ e \in Nat /\ i <= e + 1 /\ e <= Len(s) /\ (e - i) + 1 = n
  OBVIOUS
<1>2. j \in 1 .. Len(t) + 1 /\ f \in Nat /\ j <= f + 1 /\ f <= Len(t) /\ (f - j) + 1 = n
  OBVIOUS
<1>3. x \in Seq(Byte) /\ Len(x) = n /\ \A k \in 1 .. n : x[k] = s[(i + k) - 1]
  BY <1>1, SliceIs
<1>4. y \in Seq(Byte) /\ Len(y) = n /\ \A k \in 1 .. n : y[k] = t[(j + k) - 1]
  BY <1>2, SliceIs
<1>5. ASSUME NEW k \in 1 .. n PROVE x[k] = y[k]
  <2>1. k - 1 \in 0 .. n - 1 /\ i + (k - 1) = (i + k) - 1 /\ j + (k - 1) = (j + k) - 1
    OBVIOUS
  <2>2. s[i + (k - 1)] = t[j + (k - 1)]
    BY <2>1
  <2> QED
    BY <1>3, <1>4, <2>1, <2>2
<1> HIDE DEF x, y
<1>6. x = y
  BY <1>3, <1>4, <1>5, SeqSame
<1> QED
  BY <1>6 DEF x, y, Slice

\* Behind d other bytes, the word at j of t is at d + j of s, with the same suffix.
Shifted(s, t, d, j, C) ==
    /\ s \in Seq(Byte) /\ t \in Seq(Byte) /\ d \in Nat
    /\ j \in WordStarts(t) /\ d + j \in WordStarts(s)
    /\ RunTo(s, d + j, Letters, d + WordEnd(t, j))
    /\ RunTo(s, (d + WordEnd(t, j)) + 1, C, d + SuffixEnd(t, j, C))
    /\ \A k \in j .. SuffixEnd(t, j, C) : s[d + k] = t[k]

LEMMA ShiftedSame ==
    ASSUME NEW s, NEW t, NEW d, NEW j, NEW C, Shifted(s, t, d, j, C)
    PROVE  /\ LettersAt(s, d + j) = LettersAt(t, j)
           /\ SuffixAt(s, d + j, C) = SuffixAt(t, j, C)
<1> DEFINE i == d + j
           e == WordEnd(t, j)
           g == SuffixEnd(t, j, C)
<1>0. /\ s \in Seq(Byte) /\ t \in Seq(Byte) /\ d \in Nat /\ j \in WordStarts(t) /\ i \in WordStarts(s)
      /\ RunTo(s, i, Letters, d + e) /\ RunTo(s, (d + e) + 1, C, d + g)
      /\ \A k \in j .. g : s[d + k] = t[k]
  BY DEF Shifted
<1>1. j \in 1 .. Len(t) /\ e \in j .. Len(t) /\ Len(t) \in Nat
  BY <1>0, WordIs
<1>2. g \in e .. Len(t)
  BY <1>0, SuffixIs
<1>3. i \in 1 .. Len(s) /\ Len(s) \in Nat
  BY <1>0, WordIs
<1>4. WordEnd(s, i) = d + e
  BY <1>0, <1>3, RunEndIs DEF WordEnd
<1>5. d + e \in 1 .. Len(s)
  BY SMTT(30), <1>0, <1>3, <1>4, WordIs
<1>6. SuffixEnd(s, i, C) = d + g
  <2>1. (d + e) + 1 \in 1 .. Len(s) + 1
    BY <1>3, <1>5
  <2> QED
    BY <1>0, <1>4, <2>1, RunEndIs DEF SuffixEnd
<1>7. d + g \in d + e .. Len(s)
  BY <1>0, <1>3, <1>4, <1>6, SuffixIs
<1>8. LettersAt(s, i) = SubSeq(s, i, d + e) /\ LettersAt(t, j) = SubSeq(t, j, e)
  BY <1>4 DEF LettersAt, WordEnd
<1>9. SuffixAt(s, i, C) = SubSeq(s, (d + e) + 1, d + g) /\ SuffixAt(t, j, C) = SubSeq(t, e + 1, g)
  BY <1>4, <1>6 DEF SuffixAt, WordEnd, SuffixEnd
<1> HIDE DEF e, g
<1>10. SubSeq(s, i, d + e) = SubSeq(t, j, e)
  <2> DEFINE n == (e - j) + 1
  <2>1. /\ n \in Nat /\ i >= 1 /\ j >= 1 /\ i \in Nat /\ j \in Nat
        /\ i + n <= Len(s) + 1 /\ j + n <= Len(t) + 1
        /\ (i + n) - 1 = d + e /\ (j + n) - 1 = e
    BY <1>0, <1>1, <1>3, <1>5
  <2>2. ASSUME NEW k \in 0 .. n - 1 PROVE s[i + k] = t[j + k]
    <3>1. j + k \in j .. g /\ d + (j + k) = i + k
      BY <1>0, <1>1, <1>2
    <3>2. s[d + (j + k)] = t[j + k]
      BY <1>0, <3>1
    <3> QED
      BY <3>1, <3>2
  <2> DEFINE p == d + e
  <2>4. p = (i + n) - 1 /\ e = (j + n) - 1
    BY <2>1
  <2> HIDE DEF n, i, p
  <2>3. Alike(s, t, i, j, n)
    BY <1>0, <2>1, <2>2 DEF Alike
  <2>5. Slice(s, i, p) = Slice(t, j, e)
    BY <2>3, <2>4, SlicesSame
  <2> QED
    BY <2>5 DEF p, i, Slice
<1>11. SubSeq(s, (d + e) + 1, d + g) = SubSeq(t, e + 1, g)
  <2> DEFINE n == g - e
             a == (d + e) + 1
             b == e + 1
  <2>1. /\ n \in Nat /\ a >= 1 /\ b >= 1 /\ a \in Nat /\ b \in Nat
        /\ a + n <= Len(s) + 1 /\ b + n <= Len(t) + 1
        /\ (a + n) - 1 = d + g /\ (b + n) - 1 = g
    BY <1>0, <1>1, <1>2, <1>3, <1>7
  <2>2. ASSUME NEW k \in 0 .. n - 1 PROVE s[a + k] = t[b + k]
    <3>1. b + k \in j .. g /\ d + (b + k) = a + k
      BY <1>0, <1>1, <1>2
    <3>2. s[d + (b + k)] = t[b + k]
      BY <1>0, <3>1
    <3> QED
      BY <3>1, <3>2
  <2> DEFINE p == d + g
  <2>4. p = (a + n) - 1 /\ g = (b + n) - 1
    BY <2>1
  <2> HIDE DEF n, a, b, p
  <2>3. Alike(s, t, a, b, n)
    BY <1>0, <2>1, <2>2 DEF Alike
  <2>5. Slice(s, a, p) = Slice(t, b, g)
    BY <2>3, <2>4, SlicesSame
  <2> QED
    BY <2>5 DEF a, b, p, Slice
<1> QED
  BY <1>8, <1>9, <1>10, <1>11 DEF e, g

LEMMA SameLeft ==
    ASSUME NEW kind \in Kinds, NEW z, NEW x, NEW y, NEW n, NEW m, Joined(z, x, y, n, m),
           Separate(kind, x, y), NEW i \in 1 .. n
    PROVE  SameAt(kind, z, i, x, i)
<1> DEFINE C == After(kind)
           e == WordEnd(x, i)
           g == SuffixEnd(x, i, C)
<1>0. /\ x \in Seq(Byte) /\ y \in Seq(Byte) /\ z \in Seq(Byte)
      /\ n \in Nat /\ m \in Nat /\ Len(x) = n /\ Len(y) = m /\ Len(z) = n + m
      /\ (\A k \in 1 .. n : z[k] = x[k]) /\ i \in Nat /\ i >= 1
  BY DEF Joined
<1>1. i \in WordStarts(z) <=> i \in WordStarts(x)
  <2>1. i \in DOMAIN z /\ i \in DOMAIN x /\ z[i] = x[i] /\ (i # 1 => z[i - 1] = x[i - 1])
    BY <1>0
  <2> QED
    BY <2>1 DEF WordStarts
<1>2. SUFFICES ASSUME i \in WordStarts(x)
               PROVE  LettersAt(z, i) = LettersAt(x, i) /\ SuffixAt(z, i, C) = SuffixAt(x, i, C)
  BY <1>1 DEF SameAt
<1>3. e \in i .. n /\ RunTo(x, i, Letters, e)
  BY <1>0, <1>2, WordIs
<1>4. g \in e .. n /\ RunTo(x, e + 1, C, g)
  BY <1>0, <1>2, SuffixIs
<1>5. C \cap Letters = {} /\ (kind = "text" => C = {})
  BY AfterIs
<1>6. m = 0 \/ x[n] \notin Letters \/ y[1] \notin Letters
  <2>1. y = <<>> => m = 0
    BY <1>0
  <2>2. x # <<>>
    BY <1>0
  <2> QED
    BY <1>0, <2>1, <2>2 DEF Separate
<1>7. m = 0 \/ y[1] \notin C
  <2>1. y = <<>> => m = 0
    BY <1>0
  <2>2. x # <<>>
    BY <1>0
  <2> QED
    BY <1>0, <1>5, <2>1, <2>2 DEF Separate
<1> HIDE DEF C, e, g
<1>8. e < n \/ m = 0 \/ y[1] \notin Letters
  <2>1. e \in i .. e => x[e] \in Letters
    BY <1>3 DEF RunTo
  <2> QED
    BY <1>0, <1>3, <1>6, <2>1
<1>9. RunTo(z, i, Letters, e)
  BY <1>0, <1>3, <1>8, RunLeft
<1>10. RunTo(z, e + 1, C, g)
  <2>1. e + 1 \in Nat /\ e + 1 >= 1
    BY <1>0, <1>3
  <2> QED
    BY <1>4, <1>7, <2>1, RunLeft
<1>11. \A k \in i .. g : z[0 + k] = x[k]
  BY <1>0, <1>3, <1>4
<1>12. Shifted(z, x, 0, i, C)
  <2>1. 0 + i = i /\ 0 + e = e /\ 0 + g = g
    BY <1>0, <1>3, <1>4
  <2> QED
    BY <1>0, <1>1, <1>2, <1>9, <1>10, <1>11, <2>1 DEF Shifted, e, g
<1>13. 0 + i = i
  BY <1>0
<1> QED
  BY <1>12, <1>13, ShiftedSame DEF C

LEMMA SameRight ==
    ASSUME NEW kind \in Kinds, NEW z, NEW x, NEW y, NEW n, NEW m, Joined(z, x, y, n, m),
           Separate(kind, x, y), NEW j \in 1 .. m
    PROVE  SameAt(kind, z, n + j, y, j)
<1> DEFINE C == After(kind)
           e == WordEnd(y, j)
           g == SuffixEnd(y, j, C)
<1>0. /\ x \in Seq(Byte) /\ y \in Seq(Byte) /\ z \in Seq(Byte)
      /\ n \in Nat /\ m \in Nat /\ Len(x) = n /\ Len(y) = m /\ Len(z) = n + m
      /\ (\A k \in 1 .. n : z[k] = x[k]) /\ (\A k \in 1 .. m : z[n + k] = y[k])
      /\ j \in Nat /\ j >= 1
  BY DEF Joined
<1>1. n + j \in WordStarts(z) <=> j \in WordStarts(y)
  <2>1. n + j \in DOMAIN z /\ j \in DOMAIN y /\ z[n + j] = y[j] /\ n + j \in Nat
    BY <1>0
  <2>2. CASE j > 1
    <3>1. j - 1 \in 1 .. m /\ n + (j - 1) = (n + j) - 1 /\ n + j # 1 /\ j # 1
      BY <1>0, <2>2
    <3>2. z[(n + j) - 1] = y[j - 1]
      BY <1>0, <3>1
    <3> QED
      BY <2>1, <3>1, <3>2 DEF WordStarts
  <2>3. CASE j = 1 /\ n = 0
    BY <2>1, <2>3 DEF WordStarts
  <2>4. CASE j = 1 /\ n > 0
    <3>1. z[(n + j) - 1] = x[n]
      BY <1>0, <2>4
    <3>2. x # <<>> /\ y # <<>>
      BY <1>0, <2>4
    <3>3. x[n] \notin Letters \/ y[1] \notin Letters
      BY <1>0, <3>2 DEF Separate
    <3> QED
      BY <2>1, <2>4, <3>1, <3>3 DEF WordStarts
  <2> QED
    BY <1>0, <2>2, <2>3, <2>4
<1>2. SUFFICES ASSUME j \in WordStarts(y)
               PROVE  LettersAt(z, n + j) = LettersAt(y, j) /\ SuffixAt(z, n + j, C) = SuffixAt(y, j, C)
  BY <1>1 DEF SameAt
<1>3. e \in j .. m /\ RunTo(y, j, Letters, e)
  BY <1>0, <1>2, WordIs
<1>4. g \in e .. m /\ RunTo(y, e + 1, C, g)
  BY <1>0, <1>2, SuffixIs
<1> HIDE DEF C, e, g
<1>5. RunTo(z, n + j, Letters, n + e)
  BY <1>0, <1>3, RunRight
<1>6. RunTo(z, (n + e) + 1, C, n + g)
  <2>1. e + 1 \in Nat /\ e + 1 >= 1 /\ n + (e + 1) = (n + e) + 1
    BY <1>0, <1>3
  <2>2. RunTo(z, n + (e + 1), C, n + g)
    BY <1>4, <2>1, RunRight
  <2> QED
    BY <2>1, <2>2
<1>7. \A k \in j .. g : z[n + k] = y[k]
  BY <1>0, <1>3, <1>4
<1>8. Shifted(z, y, n, j, C)
  BY <1>0, <1>1, <1>2, <1>5, <1>6, <1>7 DEF Shifted, e, g
<1> QED
  BY <1>8, ShiftedSame DEF C

\* All counts are at least 1.
Positive(kind, s) == \A i \in Items(kind, s) : ItemCount(kind, s, i) >= 1

\* Words and counts add up where two texts are joined between two words.
LEMMA CountJoin ==
    ASSUME NEW kind \in Kinds, NEW x \in Seq(Byte), NEW y \in Seq(Byte), Separate(kind, x, y)
    PROVE  /\ \A w : Count(kind, x \o y, w) = Count(kind, x, w) + Count(kind, y, w)
           /\ Positive(kind, x) /\ Positive(kind, y) => Positive(kind, x \o y)
<1> DEFINE z == x \o y
           n == Len(x)
           m == Len(y)
<1>1. Joined(z, x, y, n, m)
  BY JoinedIs
<1> HIDE DEF z, n, m
<1>2. n \in Nat /\ m \in Nat /\ Len(z) = n + m /\ z \in Seq(Byte) /\ Len(x) = n /\ Len(y) = m
  BY <1>1 DEF Joined
<1>3. ASSUME NEW w PROVE Count(kind, z, w) = Count(kind, x, w) + Count(kind, y, w)
  <2> DEFINE v == Adds(kind, x, w)
             u == Adds(kind, y, w)
             a == Adds(kind, z, w)
  <2>1. \A i \in 1 .. n : a[i] = v[i]
    <3> SUFFICES ASSUME NEW i \in 1 .. n PROVE a[i] = v[i]
      OBVIOUS
    <3>1. SameAt(kind, z, i, x, i)
      BY <1>1, SameLeft
    <3>2. i \in Nat
      BY <1>2
    <3> HIDE DEF a, v
    <3>3. a[i] = IF i \in Items(kind, z) /\ ItemWord(kind, z, i) = w THEN ItemCount(kind, z, i) ELSE 0
      BY <1>2, <3>2, AddsAre DEF a
    <3>4. v[i] = IF i \in Items(kind, x) /\ ItemWord(kind, x, i) = w THEN ItemCount(kind, x, i) ELSE 0
      BY <1>2, <3>2, AddsAre DEF v
    <3> QED
      BY <3>1, <3>3, <3>4, SameItem
  <2>2. \A i \in 1 .. m : a[n + i] = u[i]
    <3> SUFFICES ASSUME NEW i \in 1 .. m PROVE a[n + i] = u[i]
      OBVIOUS
    <3>1. SameAt(kind, z, n + i, y, i)
      BY <1>1, SameRight
    <3>2. i \in Nat /\ n + i \in Nat
      BY <1>2
    <3> HIDE DEF a, u
    <3>3. a[n + i] = IF n + i \in Items(kind, z) /\ ItemWord(kind, z, n + i) = w
                     THEN ItemCount(kind, z, n + i) ELSE 0
      BY <1>2, <3>2, AddsAre DEF a
    <3>4. u[i] = IF i \in Items(kind, y) /\ ItemWord(kind, y, i) = w THEN ItemCount(kind, y, i) ELSE 0
      BY <1>2, <3>2, AddsAre DEF u
    <3> QED
      BY <3>1, <3>3, <3>4, SameItem
  <2>3. Numbers(v, n) /\ Numbers(u, m)
    BY <1>2, AddsAre
  <2> HIDE DEF v, u, a
  <2>4. Total(a, n + m) = Total(v, n) + Total(u, m)
    <3>1. TwoParts(v, n, u, m, a)
      BY <2>1, <2>2, <2>3 DEF TwoParts
    <3> QED
      BY <3>1, TotalParts
  <2> QED
    BY <1>2, <2>4 DEF a, u, v, Count
<1>4. ASSUME Positive(kind, x), Positive(kind, y) PROVE Positive(kind, z)
  <2> SUFFICES ASSUME NEW i \in Items(kind, z) PROVE ItemCount(kind, z, i) >= 1
    BY DEF Positive
  <2>0. i \in 1 .. n + m
    BY <1>2, ItemIs
  <2>1. CASE i <= n
    <3>1. SameAt(kind, z, i, x, i)
      BY <1>1, <1>2, <2>0, <2>1, SameLeft
    <3> QED
      BY <1>4, <3>1, SameItem DEF Positive
  <2>2. CASE i > n
    <3>1. i - n \in 1 .. m /\ n + (i - n) = i
      BY <1>2, <2>0, <2>2
    <3>2. SameAt(kind, z, n + (i - n), y, i - n)
      BY <1>1, <3>1, SameRight
    <3> DEFINE j == i - n
    <3>3. SameAt(kind, z, i, y, j)
      BY <3>1, <3>2
    <3> HIDE DEF j
    <3> QED
      BY <1>4, <3>3, SameItem DEF Positive
  <2> QED
    BY <1>2, <2>0, <2>1, <2>2
<1> QED
  BY <1>3, <1>4 DEF z

\* With positive counts the words held are those that are counted.
LEMMA HoldsIs ==
    ASSUME NEW kind \in Kinds, NEW s \in Seq(Byte), Positive(kind, s)
    PROVE  \A w : w \in Holds(kind, s) <=> Count(kind, s, w) >= 1
<1> SUFFICES ASSUME NEW w PROVE w \in Holds(kind, s) <=> Count(kind, s, w) >= 1
  OBVIOUS
<1> DEFINE v == Adds(kind, s, w)
           n == Len(s)
<1>1. n \in Nat /\ (\A i \in 1 .. n : v[i] \in Nat) /\ Total(v, n) = Count(kind, s, w)
  BY AddsAre DEF Count
<1>2. ASSUME w \in Holds(kind, s) PROVE Count(kind, s, w) >= 1
  <2>1. PICK i \in Items(kind, s) : ItemWord(kind, s, i) = w
    BY <1>2 DEF Holds
  <2>2. i \in 1 .. n /\ i \in Nat /\ ItemCount(kind, s, i) >= 1
    BY ItemIs DEF Positive
  <2>3. v[i] = ItemCount(kind, s, i)
    BY <2>1, <2>2, AddsAre
  <2> HIDE DEF v, n
  <2>4. v[i] <= Total(v, n) /\ Total(v, n) \in Nat
    BY <1>1, <2>2, TotalBounds
  <2>5. v[i] \in Nat /\ v[i] >= 1
    BY <1>1, <2>2, <2>3
  <2> QED
    BY <1>1, <2>4, <2>5
<1>3. ASSUME w \notin Holds(kind, s) PROVE Count(kind, s, w) = 0
  <2>1. \A i \in Nat : v[i] = 0
    BY <1>3, AddsAre DEF Holds
  <2> HIDE DEF v, n
  <2>2. Total(v, n) = 0
    BY <1>1, <2>1, TotalNone
  <2> QED
    BY <1>1, <2>2
<1> QED
  BY <1>2, <1>3

----------------------------------------------------------------------------
(* One word with its count, as the workers write it.                        *)

Suffix(kind, c) == IF kind = "map" THEN [k \in 1 .. c |-> One] ELSE Decimal[c]
Pair(kind, w, c) == IF kind = "map" THEN map_entry(w, c) ELSE reduce_entry(w, c)

\* A word that a worker has, and a count.
WordAndCount(kind, w, c) ==
    /\ w \in Seq(Letters) /\ Len(w) >= 1
    /\ kind = "map" => w \in Seq(Low) /\ Len(w) <= MAX_WORD
    /\ c \in Nat /\ c >= 1

LEMMA SuffixOfCount ==
    ASSUME NEW kind \in {"map", "red"}, NEW c \in Nat, c >= 1
    PROVE  LET t == Suffix(kind, c) IN
           /\ t \in Seq(After(kind)) /\ Len(t) \in 1 .. c
           /\ kind = "map" => Len(t) = c
           /\ kind = "red" => Number(t) = c
<1>1. CASE kind = "map"
  <2> DEFINE t == [k \in 1 .. c |-> One]
  <2>1. t \in Seq({One}) /\ Len(t) = c
    OBVIOUS
  <2>2. Suffix(kind, c) = t
    BY <1>1 DEF Suffix
  <2>3. After(kind) = {One}
    BY <1>1 DEF After
  <2> HIDE DEF t
  <2> QED
    BY <1>1, <2>1, <2>2, <2>3
<1>2. CASE kind = "red"
  <2>1. Suffix(kind, c) = Decimal[c]
    BY <1>2 DEF Suffix
  <2>2. After(kind) = Digits
    BY <1>2 DEF After
  <2>3. Decimal[c] \in Seq(Digits) /\ Number(Decimal[c]) = c /\ Len(Decimal[c]) \in 1 .. c
    BY DecimalNumber
  <2> QED
    BY <1>2, <2>1, <2>2, <2>3
<1> QED
  BY <1>1, <1>2

LEMMA LettersAreBytes ==
    /\ Letters \subseteq Byte /\ Digits \subseteq Byte /\ Low \subseteq Letters /\ One \in Digits
    /\ Letters \cap Digits = {} /\ Letters \subseteq Nat
    /\ \A kind \in Kinds : After(kind) \subseteq Byte
<1>1. /\ Letters \subseteq Byte /\ Digits \subseteq Byte /\ Low \subseteq Letters /\ One \in Digits
      /\ Letters \cap Digits = {} /\ Letters \subseteq Nat
  BY DEF Letters, Digits, Low, One, Byte
<1> QED
  BY <1>1, AfterIs

LEMMA PairIs ==
    ASSUME NEW kind \in {"map", "red"}, NEW w, NEW c, WordAndCount(kind, w, c)
    PROVE  LET x == Pair(kind, w, c)
               t == Suffix(kind, c) IN
           /\ x \in Seq(Byte) /\ Len(x) = Len(w) + Len(t) /\ Len(x) <= Len(w) + c
           /\ Len(x) >= 1 /\ x[1] \in Letters /\ x[Len(x)] \in After(kind)
           /\ \A k \in 1 .. Len(x) : x[k] \in Letters \cup After(kind)
           /\ WordStarts(x) = {1}
           /\ LettersAt(x, 1) = w /\ SuffixAt(x, 1, After(kind)) = t
<1> DEFINE x == Pair(kind, w, c)
           t == Suffix(kind, c)
           n == Len(w)
           m == Len(t)
           C == After(kind)
<1>0. /\ w \in Seq(Letters) /\ n \in Nat /\ n >= 1 /\ c \in Nat /\ c >= 1
      /\ kind = "map" => w \in Seq(Low) /\ n <= MAX_WORD
  BY DEF WordAndCount
<1>1. t \in Seq(C) /\ m \in 1 .. c
  BY <1>0, SuffixOfCount
<1>2. C \subseteq Digits /\ C \cap Letters = {} /\ C \subseteq Byte /\ Letters \subseteq Byte
  BY AfterIs, LettersAreBytes DEF Kinds
<1>3. x = w \o t
  BY DEF Pair, map_entry, reduce_entry, Suffix
<1> HIDE DEF x, t, C
<1>4. w \in Seq(Byte) /\ t \in Seq(Byte) /\ m \in Nat
  BY <1>0, <1>1, <1>2, SeqMonotonic
<1>5. Joined(x, w, t, n, m)
  BY <1>3, <1>4, JoinedIs
<1> HIDE DEF n, m
<1>6. /\ x \in Seq(Byte) /\ Len(x) = n + m /\ Len(w) = n /\ Len(t) = m
      /\ \A k \in 1 .. n : x[k] = w[k]
      /\ \A k \in 1 .. m : x[n + k] = t[k]
  BY <1>5 DEF Joined
<1>7. \A k \in 1 .. n : x[k] \in Letters
  BY <1>0, <1>6
<1>8. \A k \in n + 1 .. n + m : x[k] \in C
  <2> SUFFICES ASSUME NEW k \in n + 1 .. n + m PROVE x[k] \in C
    OBVIOUS
  <2>1. k - n \in 1 .. m /\ n + (k - n) = k
    BY <1>0, <1>4
  <2>2. x[n + (k - n)] = t[k - n] /\ t[k - n] \in C
    BY <1>1, <1>6, <2>1
  <2> QED
    BY <2>1, <2>2
<1>9. DOMAIN x = 1 .. n + m
  BY <1>6
<1>10. WordStarts(x) = {1}
  <2>1. 1 \in WordStarts(x)
    BY <1>0, <1>1, <1>7, <1>9 DEF WordStarts
  <2>2. ASSUME NEW i \in WordStarts(x), i # 1 PROVE FALSE
    <3>1. i \in 1 .. n + m /\ x[i] \in Letters /\ x[i - 1] \notin Letters
      BY <1>9, <2>2 DEF WordStarts
    <3>2. i \in 1 .. n \/ i \in n + 1 .. n + m
      BY <1>0, <1>1, <3>1
    <3>3. i \in 1 .. n
      BY <1>2, <1>8, <3>1, <3>2
    <3>4. i - 1 \in 1 .. n
      BY <1>0, <2>2, <3>3
    <3> QED
      BY <1>7, <3>1, <3>4
  <2> QED
    BY <2>1, <2>2
<1>11. WordEnd(x, 1) = n
  <2>1. n < Len(x) => x[n + 1] \notin Letters
    <3>1. n + 1 \in n + 1 .. n + m
      BY <1>0, <1>1
    <3> QED
      BY <1>2, <1>8, <3>1
  <2>2. RunTo(x, 1, Letters, n)
    BY <1>0, <1>1, <1>6, <1>7, <2>1 DEF RunTo
  <2>3. 1 \in 1 .. Len(x) + 1
    BY <1>0, <1>1, <1>6
  <2> QED
    BY <1>6, <2>2, <2>3, RunEndIs DEF WordEnd
<1>12. SuffixEnd(x, 1, C) = n + m
  <2>1. RunTo(x, n + 1, C, n + m)
    BY <1>0, <1>1, <1>6, <1>8 DEF RunTo
  <2>2. n + 1 \in 1 .. Len(x) + 1
    BY <1>0, <1>1, <1>6
  <2> QED
    BY <1>6, <1>11, <2>1, <2>2, RunEndIs DEF SuffixEnd
<1>13. LettersAt(x, 1) = w
  <2> DEFINE y == LettersAt(x, 1)
  <2>1. 1 \in WordStarts(x)
    BY <1>10
  <2>2. y \in Seq(Letters) /\ Len(y) = (n - 1) + 1 /\ \A k \in 1 .. (n - 1) + 1 : y[k] = x[(1 + k) - 1]
    BY <1>6, <1>11, <2>1, WordIs
  <2> HIDE DEF y
  <2>3. Len(y) = Len(w) /\ \A k \in 1 .. Len(y) : y[k] = w[k]
    <3>1. Len(y) = n
      BY <1>0, <2>2
    <3>2. ASSUME NEW k \in 1 .. n PROVE y[k] = w[k]
      <4>1. (1 + k) - 1 = k /\ (n - 1) + 1 = n
        BY <1>0
      <4> QED
        BY <1>6, <2>2, <4>1
    <3> QED
      BY <1>6, <3>1, <3>2
  <2>4. y = w
    BY <1>0, <2>2, <2>3, SeqSame
  <2> QED
    BY <2>4 DEF y
<1>14. SuffixAt(x, 1, C) = t
  <2> DEFINE y == SuffixAt(x, 1, C)
  <2>1. 1 \in WordStarts(x)
    BY <1>10
  <2>2. y \in Seq(C) /\ Len(y) = (n + m) - n /\ \A k \in 1 .. (n + m) - n : y[k] = x[n + k]
    BY <1>6, <1>11, <1>12, <2>1, SuffixIs
  <2> HIDE DEF y
  <2>3. (n + m) - n = m
    BY <1>0, <1>1
  <2>4. y = t
    BY <1>1, <1>6, <2>2, <2>3, SeqSame
  <2> QED
    BY <2>4 DEF y
<1>15. n + m \in Nat /\ n + m >= 1 /\ n + m <= n + c /\ n + m \in n + 1 .. n + m /\ 1 \in 1 .. n
  BY <1>0, <1>1
<1>16. \A k \in 1 .. n + m : x[k] \in Letters \cup C
  <2>1. \A k \in 1 .. n + m : k \in 1 .. n \/ k \in n + 1 .. n + m
    BY <1>0, <1>1
  <2> QED
    BY <1>7, <1>8, <2>1
<1> QED
  BY <1>6, <1>7, <1>8, <1>10, <1>13, <1>14, <1>15, <1>16 DEF x, t, C, n, m

\* What is read of it is what was written.
LEMMA PairRead ==
    ASSUME NEW kind \in {"map", "red"}, NEW w, NEW c, WordAndCount(kind, w, c)
    PROVE  LET x == Pair(kind, w, c) IN
           /\ Items(kind, x) = {1} /\ ItemWord(kind, x, 1) = w /\ ItemCount(kind, x, 1) = c
           /\ Positive(kind, x)
           /\ \A v : Count(kind, x, v) = IF v = w THEN c ELSE 0
<1> DEFINE x == Pair(kind, w, c)
           t == Suffix(kind, c)
           n == Len(w)
<1>0. /\ w \in Seq(Letters) /\ n \in Nat /\ n >= 1 /\ c \in Nat /\ c >= 1
      /\ kind = "map" => w \in Seq(Low) /\ n <= MAX_WORD
  BY DEF WordAndCount
<1>1. /\ x \in Seq(Byte) /\ Len(x) >= 1 /\ WordStarts(x) = {1}
      /\ LettersAt(x, 1) = w /\ SuffixAt(x, 1, After(kind)) = t
  BY PairIs
<1>2. /\ t \in Seq(After(kind)) /\ Len(t) \in 1 .. c
      /\ kind = "map" => Len(t) = c
      /\ kind = "red" => Number(t) = c
  BY <1>0, SuffixOfCount
<1>3. kind \in Kinds /\ kind # "text"
  BY DEF Kinds
<1>4. t # <<>>
  <2> HIDE DEF t
  <2> QED
    BY <1>2
<1> HIDE DEF x, t
<1>5. Items(kind, x) = {1}
  BY <1>1, <1>4 DEF Items
<1>6. (WordAt(x, 1) = w /\ kind = "map") \/ kind = "red"
  <2> SUFFICES ASSUME kind = "map" PROVE WordAt(x, 1) = w
    OBVIOUS
  <2>1. w \in Seq(Low) /\ n <= MAX_WORD /\ MAX_WORD \in Nat
    BY <1>0, SizeAssumption
  <2>2. Min({n, MAX_WORD}) = n
    <3>1. {n, MAX_WORD} \in SUBSET Nat /\ {n, MAX_WORD} # {}
      BY <1>0, <2>1
    <3>2. Min({n, MAX_WORD}) \in {n, MAX_WORD} /\ Min({n, MAX_WORD}) <= n
      BY <3>1, MinIs
    <3> QED
      BY <1>0, <2>1, <3>2
  <2>3. WordAt(x, 1) = [k \in 1 .. n |-> tolower_ascii(w[k])]
    BY <1>1, <2>2 DEF WordAt
  <2>4. \A k \in 1 .. n : tolower_ascii(w[k]) = w[k]
    <3>1. \A b \in Low : tolower_ascii(b) = b
      BY DEF Low, tolower_ascii
    <3> QED
      BY <2>1, <3>1
  <2>5. w = [k \in 1 .. n |-> w[k]]
    BY <1>0
  <2> QED
    BY <2>3, <2>4, <2>5
<1>7. ItemWord(kind, x, 1) = w
  BY <1>1, <1>3, <1>6 DEF ItemWord
<1>8. ItemCount(kind, x, 1) = c
  <2>1. CASE kind = "map"
    <3>1. SuffixAt(x, 1, {One}) = t
      BY <1>1, <2>1 DEF After
    <3> QED
      BY <1>2, <2>1, <3>1 DEF ItemCount
  <2>2. CASE kind = "red"
    <3>1. SuffixAt(x, 1, Digits) = t
      BY <1>1, <2>2 DEF After
    <3> QED
      BY <1>2, <2>2, <3>1 DEF ItemCount
  <2> QED
    BY <2>1, <2>2
<1>9. Positive(kind, x)
  BY <1>0, <1>5, <1>8 DEF Positive
<1>10. ASSUME NEW v PROVE Count(kind, x, v) = IF v = w THEN c ELSE 0
  <2> DEFINE a == Adds(kind, x, v)
             l == Len(x)
  <2>1. l \in Nat /\ Numbers(a, l) /\ 1 \in 1 .. l
    BY <1>1, <1>3, AddsAre
  <2>2. \A i \in 1 .. l : a[i] = IF i \in Items(kind, x) /\ ItemWord(kind, x, i) = v
                                 THEN ItemCount(kind, x, i) ELSE 0
    BY <1>1, <1>3, <2>1, AddsAre
  <2> HIDE DEF a, l
  <2>3. Total(a, l) = a[1]
    <3>1. \A i \in 1 .. l : i # 1 => a[i] = 0
      BY <1>5, <2>2
    <3> QED
      BY <2>1, <3>1, TotalOne
  <2>4. a[1] = IF v = w THEN c ELSE 0
    BY <1>5, <1>7, <1>8, <2>1, <2>2
  <2>5. Count(kind, x, v) = Total(a, l)
    BY DEF a, l, Count
  <2> QED
    BY <2>3, <2>4, <2>5
<1> QED
  BY <1>5, <1>7, <1>8, <1>9, <1>10 DEF x

----------------------------------------------------------------------------
(* Replies: words with counts, one after the other.                         *)

\* Words with counts, and nothing in front of the first or behind the last.
Formed(s) == s = <<>> \/ (s[1] \in Letters /\ s[Len(s)] \notin Letters)

\* Every word and its '1's fit a reduce payload.
Short(s) ==
    \A i \in WordStarts(s) : Len(LettersAt(s, i)) + Len(SuffixAt(s, i, {One})) <= PAYLOAD_MAX

\* The map format.
MapForm(s) == Formed(s) /\ Short(s) /\ \A k \in 1 .. Len(s) : s[k] \in Letters \cup {One}

LEMMA FormedJoin ==
    ASSUME NEW x \in Seq(Byte), NEW y \in Seq(Byte), Formed(x), Formed(y)
    PROVE  /\ Formed(x \o y)
           /\ \A kind : Separate(kind, x, y)
<1> DEFINE z == x \o y
           n == Len(x)
           m == Len(y)
<1>1. Joined(z, x, y, n, m)
  BY JoinedIs
<1>2. x = <<>> => z = y
  BY ConcatEmptySeq
<1>3. y = <<>> => z = x
  BY ConcatEmptySeq
<1> HIDE DEF z, n, m
<1>4. /\ n \in Nat /\ m \in Nat /\ Len(x) = n /\ Len(y) = m /\ Len(z) = n + m
      /\ (\A k \in 1 .. n : z[k] = x[k]) /\ (\A k \in 1 .. m : z[n + k] = y[k])
  BY <1>1 DEF Joined
<1>5. CASE x = <<>> \/ y = <<>>
  BY <1>2, <1>3, <1>5 DEF Formed, Separate, z
<1>6. CASE x # <<>> /\ y # <<>>
  <2>1. n >= 1 /\ m >= 1
    BY <1>4, <1>6
  <2>2. x[1] \in Letters /\ x[n] \notin Letters /\ y[1] \in Letters /\ y[m] \notin Letters
    BY <1>4, <1>6 DEF Formed
  <2>3. z[1] = x[1] /\ z[Len(z)] = y[m]
    BY <1>4, <2>1
  <2>4. Formed(z)
    BY <2>2, <2>3 DEF Formed
  <2>5. \A kind : Separate(kind, x, y)
    BY <1>4, <2>2 DEF Separate
  <2> QED
    BY <2>4, <2>5 DEF z
<1> QED
  BY <1>5, <1>6

LEMMA MapFormJoin ==
    ASSUME NEW x \in Seq(Byte), NEW y \in Seq(Byte), MapForm(x), MapForm(y)
    PROVE  MapForm(x \o y)
<1> DEFINE z == x \o y
           n == Len(x)
           m == Len(y)
<1>0. "map" \in Kinds /\ After("map") = {One}
  BY DEF Kinds, After
<1>1. Joined(z, x, y, n, m)
  BY JoinedIs
<1>2. Formed(z) /\ Separate("map", x, y)
  BY FormedJoin DEF MapForm
<1> HIDE DEF z, n, m
<1>3. /\ z \in Seq(Byte) /\ n \in Nat /\ m \in Nat /\ Len(x) = n /\ Len(y) = m /\ Len(z) = n + m
      /\ (\A k \in 1 .. n : z[k] = x[k]) /\ (\A k \in 1 .. m : z[n + k] = y[k])
  BY <1>1 DEF Joined
<1>4. \A k \in 1 .. n + m : k \in 1 .. n \/ (k - n \in 1 .. m /\ n + (k - n) = k)
  BY <1>3
<1>5. ASSUME NEW k \in 1 .. n + m PROVE z[k] \in Letters \cup {One}
  <2>1. CASE k \in 1 .. n
    BY <1>3, <2>1 DEF MapForm
  <2>2. CASE k - n \in 1 .. m /\ n + (k - n) = k
    <3>1. z[n + (k - n)] = y[k - n] /\ y[k - n] \in Letters \cup {One}
      BY <1>3, <2>2 DEF MapForm
    <3> QED
      BY <2>2, <3>1
  <2> QED
    BY <1>4, <2>1, <2>2
<1>6. ASSUME NEW i \in WordStarts(z)
      PROVE  Len(LettersAt(z, i)) + Len(SuffixAt(z, i, {One})) <= PAYLOAD_MAX
  <2>0. i \in 1 .. n + m
    BY <1>3, WordIs
  <2>1. CASE i \in 1 .. n
    <3>1. SameAt("map", z, i, x, i)
      BY <1>0, <1>1, <1>2, <2>1, SameLeft
    <3>2. i \in WordStarts(x) /\ LettersAt(z, i) = LettersAt(x, i)
          /\ SuffixAt(z, i, {One}) = SuffixAt(x, i, {One})
      BY <1>0, <3>1 DEF SameAt
    <3> QED
      BY <3>2 DEF MapForm, Short
  <2>2. CASE i - n \in 1 .. m /\ n + (i - n) = i
    <3> DEFINE j == i - n
    <3>1. SameAt("map", z, n + j, y, j)
      BY <1>0, <1>1, <1>2, <2>2, SameRight
    <3>2. SameAt("map", z, i, y, j)
      BY <2>2, <3>1
    <3> HIDE DEF j
    <3>3. j \in WordStarts(y) /\ LettersAt(z, i) = LettersAt(y, j)
          /\ SuffixAt(z, i, {One}) = SuffixAt(y, j, {One})
      BY <1>0, <3>2 DEF SameAt
    <3> QED
      BY <3>3 DEF MapForm, Short
  <2> QED
    BY <1>4, <2>0, <2>1, <2>2
<1> QED
  BY <1>2, <1>3, <1>5, <1>6 DEF MapForm, Short, z

\* Some words of a table, in an order.
Ordered(kind, hm, o, n) ==
    /\ n \in Nat /\ o \in [1 .. n -> DOMAIN hm]
    /\ \A i, j \in 1 .. n : o[i] = o[j] => i = j
    /\ \A w \in DOMAIN hm : WordAndCount(kind, w, hm[w])

Pairs(kind, hm, o) == [k \in DOMAIN o |-> Pair(kind, o[k], hm[o[k]])]

LEMMA PairsAre ==
    ASSUME NEW kind \in {"map", "red"}, NEW hm, NEW o, NEW n, Ordered(kind, hm, o, n)
    PROVE  /\ Pairs(kind, hm, o) \in Seq(Seq(Byte)) /\ Len(Pairs(kind, hm, o)) = n
           /\ \A k \in 1 .. n : /\ WordAndCount(kind, o[k], hm[o[k]])
                                /\ Pairs(kind, hm, o)[k] = Pair(kind, o[k], hm[o[k]])
<1> USE DEF Ordered
<1>1. \A k \in 1 .. n : o[k] \in DOMAIN hm /\ WordAndCount(kind, o[k], hm[o[k]])
  OBVIOUS
<1>2. \A k \in 1 .. n : Pair(kind, o[k], hm[o[k]]) \in Seq(Byte)
  BY <1>1, PairIs
<1> DEFINE p == [k \in 1 .. n |-> Pair(kind, o[k], hm[o[k]])]
<1>3. Pairs(kind, hm, o) = p
  BY DEF Pairs
<1>4. n \in Nat
  OBVIOUS
<1>5. p \in Seq(Seq(Byte)) /\ Len(p) = n
  BY <1>2, <1>4
<1>6. \A k \in 1 .. n : p[k] = Pair(kind, o[k], hm[o[k]])
  OBVIOUS
<1> HIDE DEF p
<1> QED
  BY <1>1, <1>3, <1>5, <1>6

\* What the first k of them are, written.
LEMMA WrittenIs ==
    ASSUME NEW kind \in {"map", "red"}, NEW hm, NEW o, NEW n, Ordered(kind, hm, o, n),
           NEW f, Joins(f, Pairs(kind, hm, o), Byte), NEW k \in 0 .. n
    PROVE  /\ f[k] \in Seq(Byte) /\ Formed(f[k]) /\ Positive(kind, f[k])
           /\ \A v : Count(kind, f[k], v) = IF \E i \in 1 .. k : o[i] = v THEN hm[v] ELSE 0
           /\ kind = "map" /\ (\A w \in DOMAIN hm : Len(w) + hm[w] <= PAYLOAD_MAX) => MapForm(f[k])
<1> DEFINE p == Pairs(kind, hm, o)
           Fit == kind = "map" /\ \A w \in DOMAIN hm : Len(w) + hm[w] <= PAYLOAD_MAX
           Good(i) == /\ f[i] \in Seq(Byte) /\ Formed(f[i]) /\ Positive(kind, f[i])
                      /\ \A v : Count(kind, f[i], v) = IF \E j \in 1 .. i : o[j] = v THEN hm[v] ELSE 0
                      /\ Fit => MapForm(f[i])
           T == {i \in Nat : i <= n => Good(i)}
<1>0. kind \in Kinds /\ (kind = "map" => After(kind) = {One}) /\ n \in Nat
  BY DEF Kinds, After, Ordered
<1>1. /\ Len(p) = n /\ f[0] = <<>> /\ \A i \in 1 .. n : f[i] = f[i - 1] \o p[i]
      /\ \A i \in 1 .. n : WordAndCount(kind, o[i], hm[o[i]]) /\ p[i] = Pair(kind, o[i], hm[o[i]])
  <2>1. Len(p) = n /\ \A i \in 1 .. n : WordAndCount(kind, o[i], hm[o[i]]) /\ p[i] = Pair(kind, o[i], hm[o[i]])
    BY PairsAre
  <2> HIDE DEF p
  <2>2. f[0] = <<>> /\ \A i \in 1 .. Len(p) : f[i] = f[i - 1] \o p[i]
    BY DEF Joins, p
  <2> QED
    BY <2>1, <2>2
<1> HIDE DEF p
<1>2. 0 \in T
  <2>1. WordStarts(<<>>) = {}
    BY DEF WordStarts
  <2>2. Items(kind, <<>>) = {}
    BY <2>1 DEF Items
  <2>3. <<>> \in Seq(Byte) /\ Formed(<<>>) /\ Positive(kind, <<>>) /\ MapForm(<<>>)
    BY <2>1, <2>2 DEF Formed, Positive, MapForm, Short
  <2>4. ASSUME NEW v PROVE Count(kind, <<>>, v) = 0
    <3>1. Len(<<>>) = 0
      OBVIOUS
    <3> QED
      BY <3>1, TotalStep DEF Count
  <2> HIDE DEF Fit
  <2>5. Good(0)
    BY <1>1, <2>3, <2>4
  <2> QED
    BY <2>5
<1>3. ASSUME NEW i \in Nat, i \in T PROVE i + 1 \in T
  <2> SUFFICES ASSUME i + 1 <= n PROVE Good(i + 1)
    OBVIOUS
  <2> DEFINE w == o[i + 1]
             c == hm[w]
             x == f[i]
             y == Pair(kind, w, c)
  <2>1. Good(i)
    BY <1>0, <1>3
  <2>2. WordAndCount(kind, w, c) /\ f[i + 1] = x \o y
    <3>1. i + 1 \in 1 .. n /\ (i + 1) - 1 = i
      BY <1>0
    <3> QED
      BY <1>1, <3>1
  <2>3. /\ y \in Seq(Byte) /\ Len(y) >= 1 /\ y[1] \in Letters /\ y[Len(y)] \in After(kind)
        /\ WordStarts(y) = {1} /\ LettersAt(y, 1) = w /\ SuffixAt(y, 1, After(kind)) = Suffix(kind, c)
        /\ \A j \in 1 .. Len(y) : y[j] \in Letters \cup After(kind)
    BY <2>2, PairIs
  <2>4. Positive(kind, y) /\ \A v : Count(kind, y, v) = IF v = w THEN c ELSE 0
    BY <2>2, PairRead
  <2>5. c \in Nat /\ c >= 1
    BY <2>2 DEF WordAndCount
  <2>6. w \in DOMAIN hm /\ \A j \in 1 .. i : o[j] # w
    <3>1. i + 1 \in 1 .. n /\ \A j \in 1 .. i : j \in 1 .. n /\ j # i + 1
      BY <1>0
    <3> QED
      BY <3>1 DEF Ordered
  <2>7. \A v : (\E j \in 1 .. i + 1 : o[j] = v) <=> (\E j \in 1 .. i : o[j] = v) \/ v = w
    <3>1. 1 .. i + 1 = (1 .. i) \cup {i + 1}
      OBVIOUS
    <3> QED
      BY <3>1
  <2> HIDE DEF y, w
  <2>8. Formed(y)
    BY <1>0, <2>3, AfterIs DEF Formed
  <2>9. Formed(x) /\ x \in Seq(Byte) /\ Positive(kind, x)
    BY <2>1
  <2> HIDE DEF x
  <2>10. Formed(x \o y) /\ Separate(kind, x, y) /\ x \o y \in Seq(Byte)
    BY <2>3, <2>8, <2>9, FormedJoin, JoinIs
  <2>11. /\ Positive(kind, x \o y)
         /\ \A v : Count(kind, x \o y, v) = Count(kind, x, v) + Count(kind, y, v)
    BY <1>0, <2>3, <2>4, <2>9, <2>10, CountJoin
  <2>12. ASSUME NEW v
         PROVE  Count(kind, x \o y, v) = IF \E j \in 1 .. i + 1 : o[j] = v THEN hm[v] ELSE 0
    <3>1. Count(kind, x, v) = IF \E j \in 1 .. i : o[j] = v THEN hm[v] ELSE 0
      BY <2>1 DEF x
    <3>2. Count(kind, x, v) \in Nat
      BY <1>0, <2>9, AddsAre
    <3>3. CASE v = w
      <4>1. Count(kind, x, v) = 0 /\ Count(kind, y, v) = c /\ c = hm[v]
        BY <2>4, <2>6, <3>1, <3>3
      <4> QED
        BY <2>5, <2>7, <2>11, <3>3, <4>1
    <3>4. CASE v # w
      <4>1. Count(kind, y, v) = 0
        BY <2>4, <3>4
      <4>2. Count(kind, x \o y, v) = Count(kind, x, v)
        BY <2>11, <3>2, <4>1
      <4> QED
        BY <2>7, <3>1, <3>4, <4>2
    <3> QED
      BY <3>3, <3>4
  <2>13. ASSUME Fit PROVE MapForm(x \o y)
    <3>1. MapForm(x)
      BY <2>1, <2>13 DEF x
    <3>2. After(kind) = {One} /\ kind = "map"
      BY <1>0, <2>13
    <3>3. Len(Suffix(kind, c)) = c /\ Len(w) + c <= PAYLOAD_MAX
      BY <2>5, <2>6, <2>13, SuffixOfCount
    <3> HIDE DEF Fit
    <3>4. Short(y)
      BY <2>3, <3>2, <3>3 DEF Short
    <3>5. MapForm(y)
      BY <2>3, <2>8, <3>2, <3>4 DEF MapForm
    <3> QED
      BY <2>3, <2>9, <3>1, <3>5, MapFormJoin
  <2> HIDE DEF Fit
  <2> QED
    BY <2>2, <2>10, <2>11, <2>12, <2>13 DEF y, x
<1> HIDE DEF T, Good
<1>4. k \in T /\ k \in Nat
  BY <1>2, <1>3, NatInductive
<1>5. Good(k)
  BY <1>0, <1>4 DEF T
<1> QED
  BY <1>5 DEF Good

\* What is kept of them for a reply of l bytes.
LEMMA FormatIs ==
    ASSUME NEW ms \in Seq(Seq(Byte)), NEW f, Joins(f, ms, Byte), NEW l \in Nat
    PROVE  \E k \in 0 .. Len(ms) :
               /\ Format(ms, l) = f[k]
               /\ k > 0 => Len(f[k]) + 1 <= l
               /\ l > 1 /\ Len(f[Len(ms)]) + 1 <= l => k = Len(ms)
<1> DEFINE n == Len(ms)
           T == {k \in 0 .. n : Len(Bytes(ms, k)) + 1 <= l}
<1>1. n \in Nat /\ f[0] = <<>>
  BY DEF Joins
<1>2. \A k \in 0 .. n : Bytes(ms, k) = f[k]
  BY FlattenJoins DEF Bytes
<1>3. CASE l <= 1
  <2>1. Format(ms, l) = <<>>
    BY <1>3 DEF Format
  <2> QED
    BY <1>1, <1>3, <2>1
<1>4. CASE ~ (l <= 1)
  <2>1. Format(ms, l) = Bytes(ms, Max(T))
    BY <1>4 DEF Format
  <2>2. 0 \in T
    <3>1. Len(Bytes(ms, 0)) = 0
      BY <1>1, <1>2
    <3> QED
      BY <1>1, <1>4, <3>1
  <2>3. Max(T) \in T /\ \A k \in T : k <= Max(T)
    BY <1>1, <2>2, MaxIs
  <2> DEFINE m == Max(T)
  <2> HIDE DEF m
  <2>4. m \in 0 .. n /\ Len(f[m]) + 1 <= l
    <3>1. m \in T
      BY <2>3 DEF m
    <3> QED
      BY <1>2, <3>1
  <2>5. Len(f[n]) + 1 <= l => m = n
    <3> SUFFICES ASSUME Len(f[n]) + 1 <= l PROVE m = n
      OBVIOUS
    <3>1. n \in T
      BY <1>1, <1>2
    <3>2. n <= m
      BY <2>3, <3>1 DEF m
    <3> QED
      BY <1>1, <2>4, <3>2
  <2>6. Format(ms, l) = f[m]
    BY <1>2, <2>1, <2>4 DEF m
  <2> QED
    BY <2>4, <2>5, <2>6
<1> QED
  BY <1>3, <1>4

----------------------------------------------------------------------------
(* Answers: a table, written.                                               *)

\* The table of a text or of a reduce payload.
Table(kind, s) == [w \in Holds(kind, s) |-> Count(kind, s, w)]

LEMMA TablesAre ==
    ASSUME NEW s \in Seq(Byte)
    PROVE  /\ wc_tokenize_and_count(s) = Table("text", s)
           /\ wc_from_map_format(s) = Table("map", s)
           /\ combine(s) = Table("red", s)
  BY TablesOfCalls, TableIs DEF Table, Kinds

Sources == {"text", "map"}

LEMMA HoldsFinite ==
    ASSUME NEW kind \in Kinds, NEW s \in Seq(Byte)
    PROVE  IsFiniteSet(Holds(kind, s))
<1> DEFINE n == Len(s)
           I == Items(kind, s)
           f == [i \in I |-> ItemWord(kind, s, i)]
<1>1. I \subseteq 1 .. n /\ 1 \in Int /\ n \in Int
  BY ItemIs
<1>2. f \in Surjection(I, Holds(kind, s))
  BY DEF Surjection, Holds
<1> HIDE DEF n, I, f
<1>3. IsFiniteSet(1 .. n)
  BY <1>1, FS_Interval
<1>4. IsFiniteSet(I)
  BY <1>1, <1>3, FS_Subset
<1> QED
  BY <1>2, <1>4, FS_Surjection

LEMMA SourceIs ==
    ASSUME NEW kind \in Sources, NEW s \in Seq(Byte)
    PROVE  /\ kind \in Kinds /\ Positive(kind, s)
           /\ IsFiniteSet(Holds(kind, s))
           /\ \A w : w \in Holds(kind, s) <=> Count(kind, s, w) >= 1
           /\ \A to \in {"map", "red"} : \A w \in Holds(kind, s) : WordAndCount(to, w, Count(kind, s, w))
<1>0. kind \in Kinds /\ kind # "red"
  BY DEF Sources, Kinds
<1>1. Positive(kind, s)
  BY <1>0, ItemIs DEF Positive
<1>2. \A w : w \in Holds(kind, s) <=> Count(kind, s, w) >= 1
  BY <1>0, <1>1, HoldsIs
<1>3. IsFiniteSet(Holds(kind, s))
  BY <1>0, HoldsFinite
<1>4. ASSUME NEW to \in {"map", "red"}, NEW w \in Holds(kind, s)
      PROVE  WordAndCount(to, w, Count(kind, s, w))
  <2>1. PICK i \in Items(kind, s) : w = ItemWord(kind, s, i)
    BY DEF Holds
  <2>2. w \in Seq(Letters) /\ w \in Seq(Low) /\ Len(w) \in 1 .. MAX_WORD
    BY <1>0, <2>1, ItemIs
  <2>3. MAX_WORD \in Nat
    BY SizeAssumption
  <2>4. Count(kind, s, w) \in Nat /\ Count(kind, s, w) >= 1
    BY <1>0, <1>2, AddsAre
  <2> QED
    BY <2>2, <2>3, <2>4 DEF WordAndCount
<1> QED
  BY <1>0, <1>1, <1>2, <1>3, <1>4

\* An order in which hm_foreach() may visit the words.
LEMMA OrderIs ==
    ASSUME NEW kind \in Sources, NEW s \in Seq(Byte), NEW to \in {"map", "red"},
           NEW o \in hm_foreach(Table(kind, s))
    PROVE  \E n \in Nat : /\ Ordered(to, Table(kind, s), o, n) /\ DOMAIN o = 1 .. n
                          /\ \A w \in Holds(kind, s) : \E i \in 1 .. n : o[i] = w
<1> DEFINE hm == Table(kind, s)
           S == Holds(kind, s)
           n == Cardinality(S)
<1>1. DOMAIN hm = S /\ \A w \in S : hm[w] = Count(kind, s, w)
  BY DEF Table
<1>2. IsFiniteSet(S) /\ \A w \in S : WordAndCount(to, w, Count(kind, s, w))
  BY SourceIs
<1>3. o \in [1 .. n -> S] /\ \A i, j \in 1 .. n : i # j => o[i] # o[j]
  BY <1>1 DEF hm_foreach, SetToSeqs
<1> HIDE DEF hm, S
<1>4. n \in Nat
  BY <1>2, FS_CardinalityType
<1> HIDE DEF n
<1>5. Ordered(to, hm, o, n)
  BY <1>1, <1>2, <1>3, <1>4 DEF Ordered
<1>6. o \in Injection(1 .. n, S)
  BY <1>3 DEF Injection, IsInjective
<1>7. Cardinality(1 .. n) = n
  <2>1. 1 \in Int /\ n \in Int
    BY <1>4
  <2>2. Cardinality(1 .. n) = IF 1 > n THEN 0 ELSE (n - 1) + 1
    BY <2>1, FS_Interval
  <2> QED
    BY <1>4, <2>2
<1>8. o \in Surjection(1 .. n, S)
  BY <1>2, <1>6, <1>7, FS_Injection DEF n
<1>9. \A w \in S : \E i \in 1 .. n : o[i] = w
  BY <1>8 DEF Surjection
<1> QED
  BY <1>3, <1>4, <1>5, <1>9 DEF hm, S

----------------------------------------------------------------------------
(* How long an answer can be.                                               *)

\* What an item takes in the text that it is read from, at least.
Takes(kind, s, i) == Len(ItemWord(kind, s, i)) + ItemCount(kind, s, i)

\* What the items at the places in P take.
Taken(kind, s, P) == [i \in Nat |-> IF i \in Items(kind, s) /\ i \in P THEN Takes(kind, s, i) ELSE 0]

LEMMA TakenIs ==
    ASSUME NEW kind \in Sources, NEW s \in Seq(Byte), NEW P
    PROVE  /\ Len(s) \in Nat
           /\ \A i \in Nat : Taken(kind, s, P)[i] =
                  IF i \in Items(kind, s) /\ i \in P THEN Takes(kind, s, i) ELSE 0
           /\ \A i \in Items(kind, s) : Takes(kind, s, i) \in Nat
           /\ \A i \in Nat : Taken(kind, s, P)[i] \in Nat
           /\ Numbers(Taken(kind, s, P), Len(s))
           /\ Total(Taken(kind, s, P), Len(s)) \in Nat
<1>0. kind \in Kinds
  BY DEF Sources, Kinds
<1>1. ASSUME NEW i \in Items(kind, s) PROVE Takes(kind, s, i) \in Nat
  <2>1. ItemWord(kind, s, i) \in Seq(Letters) /\ ItemCount(kind, s, i) \in Nat
    BY <1>0, ItemIs
  <2> QED
    BY <2>1 DEF Takes
<1>2. \A i \in Nat : Taken(kind, s, P)[i] =
          IF i \in Items(kind, s) /\ i \in P THEN Takes(kind, s, i) ELSE 0
  BY DEF Taken
<1>3. \A i \in Nat : Taken(kind, s, P)[i] \in Nat
  BY <1>1, <1>2
<1> DEFINE v == Taken(kind, s, P)
           n == Len(s)
<1>4. n \in Nat
  OBVIOUS
<1> HIDE DEF v, n
<1>5. \A i \in 1 .. n : v[i] \in Nat
  BY <1>3, <1>4 DEF v
<1>6. Numbers(v, n) /\ Total(v, n) \in Nat
  BY <1>4, <1>5, TotalBounds DEF Numbers
<1> QED
  BY <1>1, <1>2, <1>3, <1>4, <1>6 DEF v, n

\* Items do not overlap; the text may end where the separator of the last one would be.
LEMMA TakenFits ==
    ASSUME NEW kind \in Sources, NEW s \in Seq(Byte), NEW P
    PROVE  Total(Taken(kind, s, P), Len(s)) <= Len(s) + 1
<1> DEFINE v == Taken(kind, s, P)
           n == Len(s)
           C == After(kind)
<1>0. kind \in Kinds /\ n \in Nat /\ C \cap Letters = {}
  BY AfterIs DEF Sources, Kinds
<1>1. ASSUME NEW i \in Items(kind, s)
      PROVE  /\ i \in WordStarts(s) /\ i \in 1 .. n /\ Takes(kind, s, i) \in Nat
             /\ i + Takes(kind, s, i) <= n + 2
             /\ \A j \in WordStarts(s) : i < j => i + Takes(kind, s, i) <= j
  <2> DEFINE e == WordEnd(s, i)
             g == SuffixEnd(s, i, C)
             l == Len(ItemWord(kind, s, i))
             c == ItemCount(kind, s, i)
  <2>1. i \in WordStarts(s) /\ i \in 1 .. n /\ l \in 1 .. Len(LettersAt(s, i)) /\ c \in Nat
    BY <1>0, ItemIs
  <2>2. e \in i .. n /\ Len(LettersAt(s, i)) = (e - i) + 1
    BY <2>1, WordIs
  <2>3. g \in e .. n /\ Len(SuffixAt(s, i, C)) = g - e
    BY <2>1, SuffixIs
  <2>4. \A j \in WordStarts(s) : i < j => j \in 1 .. n /\ g < j /\ e + 1 < j
    <3> SUFFICES ASSUME NEW j \in WordStarts(s), i < j PROVE j \in 1 .. n /\ g < j /\ e + 1 < j
      OBVIOUS
    <3>1. j \in 1 .. n
      BY WordIs
    <3>2. SuffixEnd(s, i, C) < j /\ WordEnd(s, i) + 1 < j
      <4> HIDE DEF C
      <4> QED
        BY <1>0, <2>1, NextWord
    <3> QED
      BY <3>1, <3>2
  <2>5. (kind = "text" /\ c = 1) \/ (kind = "map" /\ c = g - e)
    <3>1. CASE kind = "text"
      <4>1. c = 1
        BY <3>1 DEF ItemCount
      <4> HIDE DEF c
      <4> QED
        BY <3>1, <4>1
    <3>2. CASE kind = "map"
      <4>1. c = Len(SuffixAt(s, i, {One})) /\ C = {One}
        BY <3>2 DEF ItemCount, After
      <4> QED
        BY <2>3, <3>2, <4>1
    <3> QED
      BY <3>1, <3>2 DEF Sources
  <2>6. Takes(kind, s, i) = l + c
    BY DEF Takes
  <2> HIDE DEF e, g, l, c
  <2>7. l \in Nat /\ i + l <= e + 1
    BY <2>1, <2>2
  <2>8. i + (l + c) <= n + 2
    BY <1>0, <2>1, <2>2, <2>3, <2>5, <2>7
  <2>9. ASSUME NEW j \in WordStarts(s), i < j PROVE i + (l + c) <= j
    <3>1. j \in Nat /\ g < j /\ e + 1 < j
      BY <1>0, <2>4, <2>9
    <3> QED
      BY <1>0, <2>1, <2>2, <2>3, <2>5, <2>7, <3>1
  <2> QED
    BY <2>1, <2>6, <2>7, <2>8, <2>9
<1>2. /\ \A i \in Nat : v[i] = IF i \in Items(kind, s) /\ i \in P THEN Takes(kind, s, i) ELSE 0
      /\ \A i \in Nat : v[i] \in Nat
  BY TakenIs
<1> HIDE DEF v, n
<1>3. ASSUME NEW i \in 1 .. n PROVE v[i] \in Nat /\ i + v[i] <= (n + 1) + 1
  <2>0. i \in Nat /\ i <= n
    BY <1>0
  <2>1. CASE i \in Items(kind, s) /\ i \in P
    <3>1. v[i] = Takes(kind, s, i)
      BY <1>2, <2>0, <2>1
    <3>2. i + Takes(kind, s, i) <= n + 2
      BY <1>1, <2>1
    <3>3. v[i] \in Nat
      BY <1>2, <2>0
    <3> QED
      BY <1>0, <2>0, <3>1, <3>2, <3>3
  <2>2. CASE ~ (i \in Items(kind, s) /\ i \in P)
    <3>1. v[i] = 0
      BY <1>2, <2>0, <2>2
    <3> QED
      BY <1>0, <2>0, <3>1
  <2> QED
    BY <2>1, <2>2
<1>4. ASSUME NEW i \in 1 .. n, NEW j \in 1 .. n, i < j, v[j] > 0 PROVE i + v[i] <= j
  <2>0. i \in Nat /\ j \in Nat
    BY <1>0
  <2>1. j \in Items(kind, s)
    BY <1>2, <1>4, <2>0
  <2>2. j \in WordStarts(s)
    BY <1>1, <2>1
  <2>3. CASE i \in Items(kind, s) /\ i \in P
    <3>1. v[i] = Takes(kind, s, i)
      BY <1>2, <2>0, <2>3
    <3> QED
      BY <1>1, <1>4, <2>2, <2>3, <3>1
  <2>4. CASE ~ (i \in Items(kind, s) /\ i \in P)
    <3>1. v[i] = 0
      BY <1>2, <2>0, <2>4
    <3> QED
      BY <1>4, <2>0, <3>1
  <2> QED
    BY <2>3, <2>4
<1>5. Packed(v, n, n + 1)
  BY <1>0, <1>3, <1>4 DEF Packed
<1>6. Total(v, n) <= n + 1
  BY <1>5, TotalPacked
<1> QED
  BY <1>6 DEF v, n

Places(kind, s, w) == {i \in Items(kind, s) : ItemWord(kind, s, i) = w}

\* A word and its count are not longer than the items with it.
LEMMA WordTakes ==
    ASSUME NEW kind \in Sources, NEW s \in Seq(Byte), NEW w \in Holds(kind, s)
    PROVE  Len(w) + Count(kind, s, w) <= Total(Taken(kind, s, Places(kind, s, w)), Len(s))
<1> DEFINE d == Taken(kind, s, Places(kind, s, w))
           a == Adds(kind, s, w)
           n == Len(s)
           l == Len(w)
<1>0. kind \in Kinds
  BY DEF Sources, Kinds
<1>1. PICK j \in Items(kind, s) : w = ItemWord(kind, s, j)
  BY DEF Holds
<1>2. j \in 1 .. n /\ w \in Seq(Letters) /\ n \in Nat
  BY <1>0, <1>1, ItemIs, AddsAre
<1>3. /\ \A i \in 1 .. n : d[i] = IF i \in Items(kind, s) /\ i \in Places(kind, s, w)
                                  THEN Takes(kind, s, i) ELSE 0
      /\ \A i \in 1 .. n : d[i] \in Nat
      /\ Numbers(d, n) /\ Total(d, n) \in Nat
  BY <1>2, TakenIs
<1>4. /\ \A i \in 1 .. n : a[i] = IF i \in Items(kind, s) /\ ItemWord(kind, s, i) = w
                                  THEN ItemCount(kind, s, i) ELSE 0
      /\ \A i \in 1 .. n : a[i] \in Nat
      /\ Numbers(a, n)
  BY <1>0, <1>2, AddsAre
<1>5. l \in Nat
  BY <1>2
<1>6. Count(kind, s, w) = Total(a, n)
  BY DEF Count
<1>7. \A i \in Items(kind, s) : ItemWord(kind, s, i) = w => Takes(kind, s, i) = l + ItemCount(kind, s, i)
  BY DEF Takes
<1> HIDE DEF d, a, n, l
<1>8. ASSUME NEW i \in 1 .. n PROVE d[i] >= a[i] /\ (i = j => d[i] = l + a[i])
  <2>1. CASE i \in Items(kind, s) /\ ItemWord(kind, s, i) = w
    <3>1. i \in Places(kind, s, w)
      BY <2>1 DEF Places
    <3>2. d[i] = l + ItemCount(kind, s, i) /\ a[i] = ItemCount(kind, s, i)
      BY <1>3, <1>4, <1>7, <2>1, <3>1
    <3>3. a[i] \in Nat
      BY <1>4
    <3> QED
      BY <1>5, <3>2, <3>3
  <2>2. CASE ~ (i \in Items(kind, s) /\ ItemWord(kind, s, i) = w)
    <3>1. a[i] = 0 /\ d[i] \in Nat /\ i # j
      BY <1>1, <1>3, <1>4, <2>2
    <3> QED
      BY <3>1
  <2> QED
    BY <2>1, <2>2
<1> DEFINE u == [i \in 1 .. n |-> IF i = j THEN l + a[i] ELSE a[i]]
<1>9. Numbers(u, n) /\ (\A i \in 1 .. n : i # j => u[i] = a[i]) /\ u[j] = l + a[j]
  <2>1. \A i \in 1 .. n : u[i] \in Int
    BY <1>4, <1>5
  <2> QED
    BY <1>2, <2>1 DEF Numbers
<1>10. \A i \in 1 .. n : u[i] <= d[i]
  <2> SUFFICES ASSUME NEW i \in 1 .. n PROVE u[i] <= d[i]
    OBVIOUS
  <2>1. a[i] \in Nat /\ d[i] \in Nat
    BY <1>3, <1>4
  <2> QED
    BY <1>5, <1>8, <2>1
<1> HIDE DEF u
<1>11. Total(u, n) = Total(a, n) + (u[j] - a[j])
  BY <1>2, <1>4, <1>9, TotalChange
<1>12. Total(u, n) <= Total(d, n)
  BY <1>3, <1>9, <1>10, TotalGrows
<1>13. Total(a, n) \in Int /\ Total(u, n) \in Int /\ a[j] \in Nat
  BY <1>2, <1>4, <1>9, TotalStep DEF Numbers
<1>14. l + Total(a, n) <= Total(d, n)
  BY <1>3, <1>5, <1>9, <1>11, <1>12, <1>13
<1> QED
  BY <1>6, <1>14 DEF l, d, n

\* An answer is at most one byte longer than what it was counted in.
LEMMA WrittenFits ==
    ASSUME NEW kind \in Sources, NEW s \in Seq(Byte), NEW to \in {"map", "red"}, NEW o, NEW n,
           Ordered(to, Table(kind, s), o, n),
           NEW f, Joins(f, Pairs(to, Table(kind, s), o), Byte), NEW k \in 0 .. n
    PROVE  Len(f[k]) <= Len(s) + 1
<1> DEFINE hm == Table(kind, s)
           p == Pairs(to, hm, o)
           P(j) == {i \in Items(kind, s) : \E h \in 1 .. j : o[h] = ItemWord(kind, s, i)}
           W(j) == Total(Taken(kind, s, P(j)), Len(s))
           T == {j \in Nat : j <= n => Len(f[j]) <= W(j)}
<1>0. DOMAIN hm = Holds(kind, s) /\ (\A w \in Holds(kind, s) : hm[w] = Count(kind, s, w)) /\ Len(s) \in Nat
  BY DEF Table
<1>1. /\ n \in Nat /\ o \in [1 .. n -> Holds(kind, s)]
      /\ \A i, j \in 1 .. n : o[i] = o[j] => i = j
  BY <1>0 DEF Ordered
<1>2. /\ Len(p) = n /\ \A i \in 1 .. n : WordAndCount(to, o[i], hm[o[i]]) /\ p[i] = Pair(to, o[i], hm[o[i]])
  BY PairsAre
<1>3. f[0] = <<>> /\ \A i \in 1 .. Len(p) : f[i] = f[i - 1] \o p[i]
  BY DEF Joins
<1>4. \A i \in 0 .. n : f[i] \in Seq(Byte)
  BY <1>2 DEF Joins
<1> HIDE DEF hm, p
<1>5. \A j : W(j) \in Nat
  BY TakenIs
<1>6. 0 \in T
  <2>1. Len(f[0]) = 0 /\ W(0) \in Nat
    BY <1>3, <1>5
  <2> HIDE DEF W
  <2> QED
    BY <2>1
<1>7. ASSUME NEW j \in Nat, j \in T PROVE j + 1 \in T
  <2> SUFFICES ASSUME j + 1 <= n PROVE Len(f[j + 1]) <= W(j + 1)
    OBVIOUS
  <2> DEFINE w == o[j + 1]
             D == Places(kind, s, w)
             a == Taken(kind, s, P(j))
             b == Taken(kind, s, D)
             c == Taken(kind, s, P(j + 1))
             m == Len(s)
  <2>1. j + 1 \in 1 .. n /\ j \in 0 .. n /\ (j + 1) - 1 = j
    BY <1>1
  <2>2. w \in Holds(kind, s) /\ WordAndCount(to, w, hm[w]) /\ hm[w] = Count(kind, s, w)
    BY <1>0, <1>1, <1>2, <2>1
  <2>3. f[j + 1] = f[j] \o Pair(to, w, hm[w])
    <3>1. f[j + 1] = f[(j + 1) - 1] \o p[j + 1] /\ p[j + 1] = Pair(to, w, hm[w])
      BY <1>2, <1>3, <2>1
    <3> QED
      BY <2>1, <3>1
  <2>4. Pair(to, w, hm[w]) \in Seq(Byte) /\ Len(Pair(to, w, hm[w])) <= Len(w) + hm[w]
    BY <2>2, PairIs
  <2>5. Len(f[j + 1]) = Len(f[j]) + Len(Pair(to, w, hm[w]))
    BY <1>4, <2>1, <2>3, <2>4, JoinIs
  <2>6. Len(w) + Count(kind, s, w) <= Total(b, m)
    BY <2>2, WordTakes
  <2>7. ASSUME NEW i \in Items(kind, s)
        PROVE  /\ i \in P(j + 1) <=> i \in P(j) \/ i \in D
               /\ ~ (i \in P(j) /\ i \in D)
    <3>1. 1 .. j + 1 = (1 .. j) \cup {j + 1}
      OBVIOUS
    <3>2. i \in D <=> ItemWord(kind, s, i) = w
      BY DEF Places
    <3>3. i \in P(j + 1) <=> i \in P(j) \/ i \in D
      BY <3>1, <3>2
    <3>4. ASSUME i \in P(j), i \in D PROVE FALSE
      <4>1. PICK h \in 1 .. j : o[h] = ItemWord(kind, s, i)
        BY <3>4
      <4>2. o[h] = o[j + 1] /\ h \in 1 .. n /\ h # j + 1
        BY <1>1, <2>1, <3>2, <3>4, <4>1
      <4> QED
        BY <1>1, <2>1, <4>2
    <3> QED
      BY <3>3, <3>4
  <2>8. \A i \in 1 .. m : c[i] = a[i] + b[i]
    <3> SUFFICES ASSUME NEW i \in 1 .. m PROVE c[i] = a[i] + b[i]
      OBVIOUS
    <3>0. i \in Nat
      BY <1>0
    <3> DEFINE Pj == P(j)
               Pk == P(j + 1)
    <3>1. i \in Items(kind, s) => (i \in Pk <=> i \in Pj \/ i \in D) /\ ~ (i \in Pj /\ i \in D)
      BY <2>7
    <3> HIDE DEF Pj, Pk, D
    <3>2. /\ c[i] = IF i \in Items(kind, s) /\ i \in Pk THEN Takes(kind, s, i) ELSE 0
          /\ a[i] = IF i \in Items(kind, s) /\ i \in Pj THEN Takes(kind, s, i) ELSE 0
          /\ b[i] = IF i \in Items(kind, s) /\ i \in D THEN Takes(kind, s, i) ELSE 0
      BY <3>0, TakenIs DEF Pj, Pk
    <3>3. i \in Items(kind, s) => Takes(kind, s, i) \in Nat
      BY TakenIs
    <3> HIDE DEF a, b, c
    <3> QED
      BY <3>1, <3>2, <3>3
  <2>9. Numbers(a, m) /\ Numbers(b, m) /\ Total(a, m) \in Nat /\ Total(b, m) \in Nat
    BY TakenIs
  <2> HIDE DEF a, b, c, m
  <2>10. Total(c, m) = Total(a, m) + Total(b, m)
    BY <2>8, <2>9, TotalAdd
  <2>11. Len(f[j]) <= Total(a, m)
    BY <1>1, <1>7, <2>1 DEF a, m
  <2>12. Len(f[j]) \in Nat /\ Len(Pair(to, w, hm[w])) \in Nat /\ Len(w) \in Nat /\ Count(kind, s, w) \in Nat
    <3>1. f[j] \in Seq(Byte)
      BY <1>4, <2>1
    <3>2. w \in Seq(Letters) /\ hm[w] \in Nat
      BY <2>2 DEF WordAndCount
    <3> QED
      BY <2>2, <2>4, <3>1, <3>2
  <2>13. Len(f[j + 1]) <= Total(c, m)
    <3> DEFINE q == Len(Pair(to, w, hm[w]))
    <3>1. q \in Nat /\ q <= Len(w) + Count(kind, s, w) /\ Len(f[j + 1]) = Len(f[j]) + q
      BY <2>2, <2>4, <2>5, <2>12
    <3> HIDE DEF q, w
    <3> QED
      BY SMTT(30), <2>6, <2>9, <2>10, <2>11, <2>12, <3>1
  <2> QED
    BY <2>13 DEF c, m
<1> HIDE DEF T, W
<1>8. k \in T /\ k \in Nat
  BY <1>6, <1>7, NatInductive
<1>9. Len(f[k]) <= W(k)
  BY <1>1, <1>8 DEF T
<1>10. W(k) <= Len(s) + 1
  BY TakenFits DEF W
<1>11. Len(f[k]) \in Nat
  BY <1>4, <1>1
<1> QED
  BY <1>0, <1>5, <1>9, <1>10, <1>11

LEMMA Dividing ==
    ASSUME NEW l \in Nat, NEW c \in Nat, NEW n \in Nat, (l + 1) * c <= n
    PROVE  c <= n \div (l + 1)
<1> DEFINE d == l + 1
           q == n \div d
           r == n % d
<1>1. d \in Nat \ {0}
  OBVIOUS
<1>2. q \in Nat /\ r \in Nat /\ r < d /\ n = d * q + r
  <2> HIDE DEF d
  <2> QED
    BY <1>1
<1> HIDE DEF d, q, r
<1>3. SUFFICES ASSUME c > q PROVE FALSE
  BY <1>2 DEF d, q
<1>4. \A a, b \in Nat : a <= b => d * a <= d * b
  BY <1>1
<1>5. d * (q + 1) <= d * c
  BY <1>2, <1>3, <1>4
<1>6. d * (q + 1) = d * q + d
  BY <1>1, <1>2
<1>7. d * q \in Nat /\ d * c \in Nat /\ d * c <= n
  BY <1>1, <1>2 DEF d
<1> QED
  BY <1>1, <1>2, <1>5, <1>6, <1>7

LEMMA Sizes ==
    /\ MAX_MSG_LEN \in Nat /\ CHUNK_MAX_SIZE \in Nat /\ MAX_WORD \in Nat /\ MAX_WORD >= 1
    /\ CHUNK_MAX_SIZE = MAX_MSG_LEN - 3 /\ PAYLOAD_MAX = MAX_MSG_LEN - 7
    /\ PAYLOAD_MAX >= 1 /\ MAX_WORD < CHUNK_MAX_SIZE
    /\ \A l \in 1 .. MAX_WORD, c \in Nat : (l + 1) * c <= CHUNK_MAX_SIZE => l + c <= PAYLOAD_MAX
<1>1. /\ MAX_MSG_LEN \in Nat /\ CHUNK_MAX_SIZE \in Nat /\ MAX_WORD \in Nat /\ MAX_WORD >= 1
      /\ CHUNK_MAX_SIZE = MAX_MSG_LEN - 3
  BY SizeAssumption
<1>2. PAYLOAD_MAX = MAX_MSG_LEN - 7
  BY <1>1 DEF PAYLOAD_MAX, HEADER_LEN
<1>3. ASSUME NEW l \in 1 .. MAX_WORD
      PROVE  /\ l \in Nat /\ CHUNK_MAX_SIZE \div (l + 1) \in Nat
             /\ l + (CHUNK_MAX_SIZE \div (l + 1)) <= PAYLOAD_MAX
  <2>1. l + (CHUNK_MAX_SIZE \div (l + 1)) <= PAYLOAD_MAX
    BY SizeAssumption
  <2> DEFINE d == l + 1
  <2>2. d \in Nat \ {0} /\ l \in Nat
    BY <1>1
  <2> HIDE DEF d
  <2>3. CHUNK_MAX_SIZE \div d \in Nat
    BY <1>1, <2>2
  <2> QED
    BY <2>1, <2>2, <2>3 DEF d
<1>4. PAYLOAD_MAX >= MAX_WORD
  <2> DEFINE q == CHUNK_MAX_SIZE \div (MAX_WORD + 1)
  <2>1. q \in Nat /\ MAX_WORD + q <= PAYLOAD_MAX
    BY <1>1, <1>3
  <2> HIDE DEF q
  <2> QED
    BY <1>1, <1>2, <2>1
<1>5. ASSUME NEW l \in 1 .. MAX_WORD, NEW c \in Nat, (l + 1) * c <= CHUNK_MAX_SIZE
      PROVE  l + c <= PAYLOAD_MAX
  <2> DEFINE q == CHUNK_MAX_SIZE \div (l + 1)
  <2>1. q \in Nat /\ l + q <= PAYLOAD_MAX /\ l \in Nat
    BY <1>3
  <2>2. c <= q
    BY <1>1, <1>5, <2>1, Dividing
  <2> HIDE DEF q
  <2> QED
    BY <1>1, <1>2, <2>1, <2>2
<1> QED
  BY <1>1, <1>2, <1>4, <1>5

\* A pair that a chunk gives fits a reduce payload.
LEMMA WordShort ==
    ASSUME NEW s \in Seq(Byte), Len(s) <= MAX_MSG_LEN - 4, NEW w \in Holds("text", s)
    PROVE  Len(w) + Count("text", s, w) <= PAYLOAD_MAX
<1> DEFINE a == Adds("text", s, w)
           n == Len(s)
           l == Len(w)
           u == [i \in Nat |-> (l + 1) * a[i]]
           I == Items("text", s)
           t == Taken("text", s, I)
<1>0. "text" \in Kinds /\ "text" \in Sources
  BY DEF Kinds, Sources
<1>1. l \in 1 .. MAX_WORD /\ l \in Nat
  <2>1. PICK i \in I : w = ItemWord("text", s, i)
    BY DEF Holds
  <2>2. Len(w) \in 1 .. MAX_WORD
    BY <1>0, <2>1, ItemIs
  <2> QED
    BY <2>2, Sizes
<1>2. /\ n \in Nat /\ Numbers(a, n)
      /\ \A i \in 1 .. n : a[i] = IF i \in I /\ ItemWord("text", s, i) = w THEN ItemCount("text", s, i) ELSE 0
      /\ \A i \in 1 .. n : a[i] \in Nat
  BY <1>0, AddsAre
<1>3. /\ \A i \in 1 .. n : t[i] = IF i \in I THEN Takes("text", s, i) ELSE 0
      /\ \A i \in 1 .. n : t[i] \in Nat
      /\ Numbers(t, n) /\ Total(t, n) \in Nat /\ Total(t, n) <= n + 1
  BY <1>0, <1>2, TakenIs, TakenFits
<1>4. /\ \A i \in I : ItemCount("text", s, i) = 1
      /\ \A i \in I : ItemWord("text", s, i) = w => Takes("text", s, i) = l + ItemCount("text", s, i)
  BY DEF ItemCount, Takes
<1>5. Count("text", s, w) = Total(a, n) /\ Count("text", s, w) \in Nat
  BY <1>0, AddsAre DEF Count
<1>6. \A i \in 1 .. n : u[i] = (l + 1) * a[i]
  BY <1>2
<1> HIDE DEF a, n, l, u, I, t
<1>7. \A i \in 1 .. n : u[i] \in Nat /\ u[i] <= t[i]
  <2> SUFFICES ASSUME NEW i \in 1 .. n PROVE u[i] \in Nat /\ u[i] <= t[i]
    OBVIOUS
  <2>1. CASE i \in I /\ ItemWord("text", s, i) = w
    <3>1. a[i] = 1 /\ t[i] = l + 1
      BY <1>2, <1>3, <1>4, <2>1
    <3>2. u[i] = (l + 1) * 1
      BY <1>6, <3>1
    <3> QED
      BY <1>1, <3>1, <3>2
  <2>2. CASE ~ (i \in I /\ ItemWord("text", s, i) = w)
    <3>1. a[i] = 0 /\ t[i] \in Nat
      BY <1>2, <1>3, <2>2
    <3>2. u[i] = (l + 1) * 0
      BY <1>6, <3>1
    <3> QED
      BY <1>1, <3>1, <3>2
  <2> QED
    BY <2>1, <2>2
<1>8. Numbers(u, n)
  BY <1>2, <1>7 DEF Numbers
<1>9. Total(u, n) = (l + 1) * Total(a, n)
  <2>1. l + 1 \in Int
    BY <1>1
  <2> QED
    BY <1>2, <1>6, <2>1, TotalTimes
<1>10. Total(u, n) <= Total(t, n) /\ Total(u, n) \in Int
  BY <1>2, <1>3, <1>7, <1>8, TotalGrows, TotalStep DEF Numbers
<1>11. (l + 1) * Total(a, n) <= CHUNK_MAX_SIZE
  <2>1. n + 1 <= CHUNK_MAX_SIZE
    BY <1>2, Sizes DEF n
  <2>2. Total(u, n) <= CHUNK_MAX_SIZE
    BY <1>2, <1>3, <1>10, <2>1, Sizes
  <2> QED
    BY <1>9, <2>2
<1>12. l + Total(a, n) <= PAYLOAD_MAX
  BY <1>1, <1>5, <1>11, Sizes
<1> QED
  BY <1>5, <1>12 DEF l

\* r is a table of s, written in the format `to' for a buffer of l bytes.
Written(r, kind, s, to, l) ==
    \E o \in hm_foreach(Table(kind, s)) : r = Format(Pairs(to, Table(kind, s), o), l)

LEMMA AnswerIs ==
    ASSUME NEW kind \in Sources, NEW s \in Seq(Byte), NEW to \in {"map", "red"}, NEW l \in Nat,
           NEW r, Written(r, kind, s, to, l)
    PROVE  /\ r \in Seq(Byte) /\ Formed(r) /\ Positive(to, r) /\ Len(r) <= Len(s) + 1
           /\ kind = "text" /\ to = "map" /\ Len(s) <= MAX_MSG_LEN - 4 => MapForm(r)
           /\ \A v : Count(to, r, v) <= Count(kind, s, v)
           /\ l > 1 /\ Len(s) + 2 <= l => \A v : Count(to, r, v) = Count(kind, s, v)
<1> DEFINE hm == Table(kind, s)
<1>1. PICK o \in hm_foreach(hm) : r = Format(Pairs(to, hm, o), l)
  BY DEF Written
<1>2. PICK n \in Nat : /\ Ordered(to, hm, o, n) /\ DOMAIN o = 1 .. n
                       /\ \A w \in Holds(kind, s) : \E i \in 1 .. n : o[i] = w
  BY <1>1, OrderIs
<1> DEFINE ms == Pairs(to, hm, o)
<1>3. ms \in Seq(Seq(Byte)) /\ Len(ms) = n
  BY <1>2, PairsAre
<1>4. PICK f : Joins(f, ms, Byte)
  BY <1>3, JoinsExist
<1>5. PICK k \in 0 .. n : /\ Format(ms, l) = f[k]
                          /\ l > 1 /\ Len(f[n]) + 1 <= l => k = n
  <2> HIDE DEF ms
  <2> QED
    BY <1>3, <1>4, FormatIs
<1>6. r = f[k]
  BY <1>1, <1>5
<1>7. Len(s) \in Nat
  OBVIOUS
<1>8. /\ f[k] \in Seq(Byte) /\ Formed(f[k]) /\ Positive(to, f[k])
      /\ \A v : Count(to, f[k], v) = IF \E i \in 1 .. k : o[i] = v THEN hm[v] ELSE 0
      /\ to = "map" /\ (\A w \in DOMAIN hm : Len(w) + hm[w] <= PAYLOAD_MAX) => MapForm(f[k])
  BY <1>2, <1>4, WrittenIs
<1>9. Len(f[k]) <= Len(s) + 1 /\ Len(f[n]) <= Len(s) + 1
  BY <1>2, <1>4, WrittenFits
<1>10. DOMAIN hm = Holds(kind, s) /\ \A w \in Holds(kind, s) : hm[w] = Count(kind, s, w)
  BY DEF Table
<1>11. ASSUME kind = "text", Len(s) <= MAX_MSG_LEN - 4 PROVE \A w \in DOMAIN hm : Len(w) + hm[w] <= PAYLOAD_MAX
  <2> SUFFICES ASSUME NEW w \in Holds(kind, s) PROVE Len(w) + Count(kind, s, w) <= PAYLOAD_MAX
    BY <1>10
  <2> QED
    BY <1>11, WordShort
<1>12. ASSUME l > 1, Len(s) + 2 <= l, NEW v PROVE Count(to, r, v) = Count(kind, s, v)
  <2>1. f[n] \in Seq(Byte)
    BY <1>2, <1>4, WrittenIs
  <2>2. k = n
    <3>1. Len(f[n]) \in Nat
      BY <2>1
    <3>2. Len(f[n]) + 1 <= l
      BY <1>7, <1>9, <1>12, <3>1
    <3> QED
      BY <1>5, <1>12, <3>2
  <2>3. Count(to, r, v) = IF \E i \in 1 .. n : o[i] = v THEN hm[v] ELSE 0
    BY <1>6, <1>8, <2>2
  <2>4. (\E i \in 1 .. n : o[i] = v) <=> v \in Holds(kind, s)
    BY <1>2, <1>10 DEF Ordered
  <2>5. CASE v \in Holds(kind, s)
    BY <2>3, <2>4, <2>5, <1>10
  <2>6. CASE v \notin Holds(kind, s)
    <3>1. kind \in Kinds /\ (v \in Holds(kind, s) <=> Count(kind, s, v) >= 1)
      BY SourceIs
    <3>2. Count(kind, s, v) \in Nat
      BY <3>1, AddsAre
    <3>3. Count(kind, s, v) = 0
      BY <2>6, <3>1, <3>2
    <3> QED
      BY <2>3, <2>4, <2>6, <3>3
  <2> QED
    BY <2>5, <2>6
<1>13. ASSUME NEW v PROVE Count(to, r, v) <= Count(kind, s, v)
  <2>1. Count(kind, s, v) \in Nat
    BY SourceIs, AddsAre
  <2>2. Count(to, r, v) = IF \E i \in 1 .. k : o[i] = v THEN hm[v] ELSE 0
    BY <1>6, <1>8
  <2>3. CASE \E i \in 1 .. k : o[i] = v
    <3>1. v \in Holds(kind, s)
      BY <1>2, <1>10, <2>3 DEF Ordered
    <3> QED
      BY <1>10, <2>1, <2>2, <2>3, <3>1
  <2>4. CASE ~ \E i \in 1 .. k : o[i] = v
    <3> HIDE DEF hm
    <3> QED
      BY <2>1, <2>2, <2>4
  <2> QED
    BY <2>3, <2>4
<1> QED
  BY <1>6, <1>8, <1>9, <1>11, <1>12, <1>13

\* The answers to map and to reduce requests.
LEMMA MapAnswers ==
    ASSUME NEW s \in Seq(Byte), NEW l, NEW r \in wc_to_map_format(wc_tokenize_and_count(s), l)
    PROVE  Written(r, "text", s, "map", l)
<1> DEFINE hm == Table("text", s)
<1>1. wc_tokenize_and_count(s) = hm
  BY TablesAre
<1>2. r \in wc_to_map_format(hm, l)
  BY <1>1
<1>3. PICK o \in hm_foreach(hm) : r = Format([k \in DOMAIN o |-> map_entry(o[k], hm[o[k]])], l)
  <2> HIDE DEF hm
  <2> QED
    BY <1>2 DEF wc_to_map_format
<1>4. [k \in DOMAIN o |-> map_entry(o[k], hm[o[k]])] = Pairs("map", hm, o)
  <2> HIDE DEF hm
  <2> QED
    BY DEF Pairs, Pair
<1> QED
  BY <1>3, <1>4 DEF Written

LEMMA ReduceAnswers ==
    ASSUME NEW s \in Seq(Byte), NEW l, NEW r \in wc_to_reduce_format(wc_from_map_format(s), l)
    PROVE  Written(r, "map", s, "red", l)
<1> DEFINE hm == Table("map", s)
<1>1. wc_from_map_format(s) = hm
  BY TablesAre
<1>2. r \in wc_to_reduce_format(hm, l)
  BY <1>1
<1>3. PICK o \in hm_foreach(hm) : r = Format([k \in DOMAIN o |-> reduce_entry(o[k], hm[o[k]])], l)
  <2> HIDE DEF hm
  <2> QED
    BY <1>2 DEF wc_to_reduce_format
<1>4. [k \in DOMAIN o |-> reduce_entry(o[k], hm[o[k]])] = Pairs("red", hm, o)
  <2> HIDE DEF hm
  <2> QED
    BY DEF Pairs, Pair
<1> QED
  BY <1>3, <1>4 DEF Written

\* What a worker takes of a message.
LEMMA PayloadIs ==
    ASSUME NEW b \in Seq(Byte)
    PROVE  /\ payload(b) \in Seq(Byte) /\ Len(payload(b)) <= Len(b)
           /\ msg_len(b) \in Nat
           /\ ~ is_new_protocol(b) => payload(b) = b /\ msg_len(b) = MAX_MSG_LEN
<1>1. CASE ~ is_new_protocol(b)
  BY <1>1, Sizes DEF payload, msg_len
<1>2. CASE is_new_protocol(b)
  <2>1. Len(b) >= 3 /\ \A k \in 1 .. 3 : b[k] \in Digits
    BY <1>2 DEF is_new_protocol
  <2>2. payload(b) = SubSeq(b, 4, Len(b)) /\ msg_len(b) = parse_msg_len(b)
    BY <1>2 DEF payload, msg_len
  <2>3. /\ SubSeq(b, 4, Len(b)) \in Seq(Byte)
        /\ Len(SubSeq(b, 4, Len(b))) = Len(b) - 3
    <3> DEFINE i == 4
               e == Len(b)
    <3>1. i \in 1 .. Len(b) + 1 /\ e \in Nat /\ i <= e + 1 /\ e <= Len(b) /\ (e - i) + 1 = Len(b) - 3
      BY <2>1
    <3> HIDE DEF i, e
    <3>2. SubSeq(b, i, e) \in Seq(Byte) /\ Len(SubSeq(b, i, e)) = (e - i) + 1
      BY <3>1, SliceIs
    <3> QED
      BY <3>1, <3>2 DEF i, e
  <2>4. SubSeq(b, 1, 3) \in Seq(Digits)
    <3> DEFINE x == SubSeq(b, 1, 3)
    <3>1. x \in Seq(Byte) /\ Len(x) = 3 /\ \A k \in 1 .. 3 : x[k] = b[(1 + k) - 1]
      <4> DEFINE i == 1
                 e == 3
      <4>1. i \in 1 .. Len(b) + 1 /\ e \in Nat /\ i <= e + 1 /\ e <= Len(b) /\ (e - i) + 1 = 3
        BY <2>1
      <4> HIDE DEF i, e
      <4>2. /\ SubSeq(b, i, e) \in Seq(Byte) /\ Len(SubSeq(b, i, e)) = (e - i) + 1
            /\ \A k \in 1 .. (e - i) + 1 : SubSeq(b, i, e)[k] = b[(i + k) - 1]
        BY <4>1, SliceIs
      <4> QED
        BY <4>1, <4>2 DEF i, e
    <3> HIDE DEF x
    <3>2. \A k \in 1 .. Len(x) : x[k] \in Digits
      <4> SUFFICES ASSUME NEW k \in 1 .. 3 PROVE x[k] \in Digits
        BY <3>1
      <4>1. (1 + k) - 1 = k
        OBVIOUS
      <4> QED
        BY <2>1, <3>1, <4>1
    <3> QED
      BY <3>1, <3>2, SeqOfBytes DEF x
  <2>5. parse_msg_len(b) \in Nat
    <3> DEFINE v == Number(SubSeq(b, 1, 3))
    <3>1. v \in Nat
      BY <2>4, NumberIs
    <3>2. parse_msg_len(b) = IF v = 0 \/ v > MAX_MSG_LEN THEN MAX_MSG_LEN ELSE v
      BY DEF parse_msg_len
    <3> HIDE DEF v
    <3> QED
      BY <3>1, <3>2, Sizes
  <2> QED
    BY <1>2, <2>2, <2>3, <2>5
<1> QED
  BY <1>1, <1>2

\* What is sent of a payload.
LEMMA TruncatedIs ==
    ASSUME NEW s \in Seq(Byte)
    PROVE  /\ Truncated(s) \in Seq(Byte) /\ Len(Truncated(s)) <= MAX_MSG_LEN - 4
           /\ Len(Truncated(s)) <= Len(s)
           /\ Len(s) <= MAX_MSG_LEN - 4 => Truncated(s) = s
           /\ Len(s) > MAX_MSG_LEN - 4 => Truncated(s) = SubSeq(s, 1, MAX_MSG_LEN - 4)
<1> DEFINE T == {Len(s), MAX_MSG_LEN - 4}
           m == Min(T)
<1>1. MAX_MSG_LEN - 4 \in Nat /\ Len(s) \in Nat
  BY Sizes
<1>2. m \in T /\ \A i \in T : m <= i
  <2>1. T \in SUBSET Nat /\ T # {}
    BY <1>1
  <2> QED
    BY <2>1, MinIs
<1>3. m \in Nat /\ m <= Len(s) /\ m <= MAX_MSG_LEN - 4 /\ (m = Len(s) \/ m = MAX_MSG_LEN - 4)
  BY <1>1, <1>2
<1>4. Truncated(s) = SubSeq(s, 1, m)
  BY DEF Truncated
<1> HIDE DEF m, T
<1>5. SubSeq(s, 1, m) \in Seq(Byte) /\ Len(SubSeq(s, 1, m)) = (m - 1) + 1
  <2>1. 1 \in 1 .. Len(s) + 1 /\ 1 <= m + 1
    BY <1>1, <1>3
  <2> QED
    BY <1>3, <2>1, SliceIs
<1>6. Len(s) <= MAX_MSG_LEN - 4 => Truncated(s) = s
  <2> SUFFICES ASSUME Len(s) <= MAX_MSG_LEN - 4 PROVE Truncated(s) = s
    OBVIOUS
  <2>1. m = Len(s)
    BY <1>1, <1>3
  <2>2. SubSeq(s, 1, Len(s)) = s
    OBVIOUS
  <2> QED
    BY <1>4, <2>1, <2>2
<1>7. Len(s) > MAX_MSG_LEN - 4 => m = MAX_MSG_LEN - 4
  BY <1>1, <1>3
<1> QED
  BY <1>1, <1>3, <1>4, <1>5, <1>6, <1>7

----------------------------------------------------------------------------
(* The order of the lines.                                                  *)

\* A strict order of all elements of a finite set, as a set of pairs.
StrictOrder(R, S) ==
    /\ IsFiniteSet(S)
    /\ \A v \in S : <<v, v>> \notin R
    /\ \A u, v, w \in S : <<u, v>> \in R /\ <<v, w>> \in R => <<u, w>> \in R
    /\ \A v, w \in S : v = w \/ <<v, w>> \in R \/ <<w, v>> \in R

Below(R, S, w) == {v \in S : <<v, w>> \in R}

\* Counting the smaller elements numbers the set.
LEMMA RankIs ==
    ASSUME NEW S, NEW R, StrictOrder(R, S)
    PROVE  /\ Cardinality(S) \in Nat
           /\ \A w \in S : Cardinality(Below(R, S, w)) \in 0 .. Cardinality(S) - 1
           /\ \A v, w \in S : <<v, w>> \in R => Cardinality(Below(R, S, v)) < Cardinality(Below(R, S, w))
           /\ \A k \in 1 .. Cardinality(S) : \E w \in S : Cardinality(Below(R, S, w)) = k - 1
<1> DEFINE n == Cardinality(S)
           b(w) == Below(R, S, w)
           f == [w \in S |-> Cardinality(b(w)) + 1]
<1>1. IsFiniteSet(S) /\ n \in Nat
  BY FS_CardinalityType DEF StrictOrder
<1>2. \A v \in S : IsFiniteSet(b(v)) /\ Cardinality(b(v)) \in Nat /\ b(v) \subseteq S /\ v \notin b(v)
  <2> SUFFICES ASSUME NEW v \in S
               PROVE  IsFiniteSet(b(v)) /\ Cardinality(b(v)) \in Nat /\ b(v) \subseteq S /\ v \notin b(v)
    OBVIOUS
  <2>1. b(v) \in SUBSET S /\ v \notin b(v)
    BY DEF StrictOrder, Below
  <2>2. IsFiniteSet(b(v))
    BY <1>1, <2>1, FS_Subset
  <2> QED
    BY <2>1, <2>2, FS_CardinalityType
<1>3. \A w \in S : Cardinality(b(w)) \in 0 .. n - 1
  <2> SUFFICES ASSUME NEW w \in S PROVE Cardinality(b(w)) \in 0 .. n - 1
    OBVIOUS
  <2>1. IsFiniteSet(S \ {w}) /\ Cardinality(S \ {w}) = n - 1
    BY <1>1, FS_RemoveElement
  <2>2. b(w) \in SUBSET (S \ {w})
    BY <1>2
  <2>3. Cardinality(b(w)) <= n - 1
    BY <2>1, <2>2, FS_Subset
  <2> QED
    BY <1>1, <1>2, <2>3
<1>4. \A v, w \in S : <<v, w>> \in R => Cardinality(b(v)) < Cardinality(b(w))
  <2> SUFFICES ASSUME NEW v \in S, NEW w \in S, <<v, w>> \in R PROVE Cardinality(b(v)) < Cardinality(b(w))
    OBVIOUS
  <2>1. b(v) \in SUBSET b(w) /\ v \in b(w) /\ v \notin b(v)
    BY DEF StrictOrder, Below
  <2>2. IsFiniteSet(b(w))
    BY <1>2
  <2>3. Cardinality(b(v)) <= Cardinality(b(w)) /\ Cardinality(b(v)) # Cardinality(b(w))
    BY <2>1, <2>2, FS_Subset
  <2> QED
    BY <1>2, <2>3
<1> HIDE DEF b, n
<1>5. f \in [S -> 1 .. n] /\ \A v, w \in S : f[v] = f[w] => v = w
  <2>1. \A w \in S : f[w] = Cardinality(b(w)) + 1 /\ f[w] \in 1 .. n
    BY <1>1, <1>3
  <2>2. ASSUME NEW v \in S, NEW w \in S, f[v] = f[w] PROVE v = w
    <3>1. Cardinality(b(v)) = Cardinality(b(w)) /\ Cardinality(b(v)) \in Nat
      BY <1>2, <2>1, <2>2
    <3>2. <<v, w>> \notin R /\ <<w, v>> \notin R
      BY <1>4, <3>1
    <3> QED
      BY <3>2 DEF StrictOrder
  <2> QED
    BY <2>1, <2>2
<1> HIDE DEF f
<1>6. f \in Injection(S, 1 .. n)
  BY <1>5 DEF Injection, IsInjective
<1>7. IsFiniteSet(1 .. n) /\ Cardinality(1 .. n) = n
  BY <1>1, FS_Interval
<1>8. f \in Surjection(S, 1 .. n)
  BY <1>6, <1>7, FS_Injection DEF n
<1>9. \A k \in 1 .. n : \E w \in S : f[w] = k
  BY <1>8 DEF Surjection
<1>10. \A k \in 1 .. n : \E w \in S : Cardinality(b(w)) = k - 1
  <2> SUFFICES ASSUME NEW k \in 1 .. n PROVE \E w \in S : Cardinality(b(w)) = k - 1
    OBVIOUS
  <2>1. PICK w \in S : f[w] = k
    BY <1>9
  <2>2. Cardinality(b(w)) + 1 = k /\ Cardinality(b(w)) \in Nat
    BY <1>2, <2>1 DEF f
  <2> QED
    BY <1>1, <2>2
<1> QED
  BY <1>1, <1>3, <1>4, <1>10 DEF n, b

\* v and w are the same before k, where w goes on and v ends or is less.
LessAt(v, w, k) ==
    /\ k \in Nat \ {0} /\ k <= Len(w) /\ k <= Len(v) + 1
    /\ \A j \in 1 .. k - 1 : v[j] = w[j]
    /\ k <= Len(v) => v[k] < w[k]

LEMMA PrecedesIs ==
    ASSUME NEW v \in Seq(Nat), NEW w \in Seq(Nat)
    PROVE  Precedes(v, w) <=> \E k : LessAt(v, w, k)
<1> DEFINE T == {Len(v), Len(w)}
           m == Min(T)
           d == {k \in 1 .. m : v[k] # w[k]}
           i == Min(d)
<1>0. Len(v) \in Nat /\ Len(w) \in Nat
  OBVIOUS
<1>1. m \in Nat /\ m <= Len(v) /\ m <= Len(w) /\ (m = Len(v) \/ m = Len(w))
  <2>1. T \in SUBSET Nat /\ T # {}
    BY <1>0
  <2>2. m \in T /\ \A j \in T : m <= j
    BY <2>1, MinIs
  <2> QED
    BY <1>0, <2>2
<1>2. Precedes(v, w) <=> IF d = {} THEN Len(v) < Len(w) ELSE v[i] < w[i]
  BY DEF Precedes
<1> HIDE DEF m
<1>3. d # {} => i \in 1 .. m /\ v[i] # w[i] /\ \A j \in 1 .. i - 1 : v[j] = w[j]
  <2> SUFFICES ASSUME d # {} PROVE i \in 1 .. m /\ v[i] # w[i] /\ \A j \in 1 .. i - 1 : v[j] = w[j]
    OBVIOUS
  <2>1. d \in SUBSET Nat
    BY <1>1
  <2>2. i \in d /\ \A j \in d : i <= j
    BY <2>1, MinIs
  <2>3. i \in 1 .. m /\ v[i] # w[i]
    BY <2>2
  <2>4. ASSUME NEW j \in 1 .. i - 1 PROVE v[j] = w[j]
    <3> HIDE DEF i, d
    <3>0. i \in Nat /\ i <= m
      BY <1>1, <2>3
    <3>1. j \in 1 .. m /\ ~ (i <= j)
      BY <1>1, <3>0
    <3> QED
      BY <2>2, <3>1 DEF d
  <2> QED
    BY <2>3, <2>4
<1>4. d = {} => \A j \in 1 .. m : v[j] = w[j]
  OBVIOUS
<1>5. \A j \in 1 .. m : v[j] \in Nat /\ w[j] \in Nat
  BY <1>0, <1>1
<1> HIDE DEF d, i
<1>6. ASSUME Precedes(v, w) PROVE \E k : LessAt(v, w, k)
  <2>1. CASE d = {}
    <3>1. Len(v) < Len(w) /\ m = Len(v)
      BY <1>0, <1>1, <1>2, <1>6, <2>1
    <3>2. LessAt(v, w, Len(v) + 1)
      <4>1. Len(v) + 1 \in Nat \ {0} /\ Len(v) + 1 <= Len(w) /\ ~ (Len(v) + 1 <= Len(v)) /\ (Len(v) + 1) - 1 = m
        BY <1>0, <3>1
      <4> QED
        BY <1>4, <2>1, <4>1 DEF LessAt
    <3> QED
      BY <3>2
  <2>2. CASE d # {}
    <3>1. v[i] < w[i] /\ i \in 1 .. m
      BY <1>2, <1>3, <1>6, <2>2
    <3>2. LessAt(v, w, i)
      <4>1. i \in Nat \ {0} /\ i <= Len(w) /\ i <= Len(v) + 1
        BY <1>0, <1>1, <3>1
      <4> QED
        BY <1>3, <2>2, <3>1, <4>1 DEF LessAt
    <3> QED
      BY <3>2
  <2> QED
    BY <2>1, <2>2
<1>7. ASSUME NEW k, LessAt(v, w, k) PROVE Precedes(v, w)
  <2>1. /\ k \in Nat \ {0} /\ k <= Len(w) /\ k <= Len(v) + 1
        /\ \A j \in 1 .. k - 1 : v[j] = w[j]
        /\ k <= Len(v) => v[k] < w[k]
    BY <1>7 DEF LessAt
  <2>2. CASE d = {}
    <3>1. ASSUME k <= Len(v) PROVE FALSE
      <4>1. k \in 1 .. m
        BY <1>0, <1>1, <2>1, <3>1
      <4>2. v[k] = w[k] /\ v[k] \in Nat /\ v[k] < w[k]
        BY <1>4, <1>5, <2>1, <2>2, <3>1, <4>1
      <4> QED
        BY <4>2
    <3>2. Len(v) < Len(w)
      BY <1>0, <2>1, <3>1
    <3> QED
      BY <1>2, <2>2, <3>2
  <2>3. CASE d # {}
    <3>0. i \in 1 .. m /\ v[i] # w[i] /\ \A j \in 1 .. i - 1 : v[j] = w[j]
      BY <1>3, <2>3
    <3>1. ~ (i < k)
      <4>1. i < k => i \in 1 .. k - 1
        BY <1>1, <2>1, <3>0
      <4> QED
        BY <2>1, <3>0, <4>1
    <3>2. i <= Len(v) /\ i \in Nat
      BY <1>0, <1>1, <3>0
    <3>3. k <= Len(v) /\ (k < i => k \in 1 .. i - 1)
      BY <1>0, <2>1, <3>1, <3>2
    <3>4. v[k] < w[k]
      BY <2>1, <3>3
    <3>5. ASSUME k < i PROVE FALSE
      <4>1. v[k] = w[k] /\ v[k] \in Nat
        <5>1. k \in 1 .. m
          BY <1>1, <2>1, <3>0, <3>5
        <5> QED
          BY <1>5, <3>0, <3>3, <3>5, <5>1
      <4> QED
        BY <3>4, <4>1
    <3>6. k = i
      BY <2>1, <3>1, <3>2, <3>5
    <3> QED
      BY <1>2, <2>3, <3>4, <3>6
  <2> QED
    BY <2>2, <2>3
<1> QED
  BY <1>6, <1>7

LEMMA PrecedesOrders ==
    /\ \A v \in Seq(Nat) : ~ Precedes(v, v)
    /\ \A u, v, w \in Seq(Nat) : Precedes(u, v) /\ Precedes(v, w) => Precedes(u, w)
    /\ \A v, w \in Seq(Nat) : v = w \/ Precedes(v, w) \/ Precedes(w, v)
<1>1. ASSUME NEW v \in Seq(Nat) PROVE ~ Precedes(v, v)
  <2>1. ASSUME NEW k, LessAt(v, v, k) PROVE FALSE
    <3>1. k \in 1 .. Len(v) /\ v[k] < v[k]
      BY <2>1 DEF LessAt
    <3>2. v[k] \in Nat
      BY <3>1
    <3> QED
      BY <3>1, <3>2
  <2> QED
    BY <2>1, PrecedesIs
<1>2. ASSUME NEW u \in Seq(Nat), NEW v \in Seq(Nat), NEW w \in Seq(Nat), Precedes(u, v), Precedes(v, w)
      PROVE  Precedes(u, w)
  <2>1. PICK k : LessAt(u, v, k)
    BY <1>2, PrecedesIs
  <2>2. PICK l : LessAt(v, w, l)
    BY <1>2, PrecedesIs
  <2>3. /\ k \in Nat \ {0} /\ k <= Len(v) /\ k <= Len(u) + 1
        /\ \A j \in 1 .. k - 1 : u[j] = v[j]
        /\ k <= Len(u) => u[k] < v[k]
    BY <2>1 DEF LessAt
  <2>4. /\ l \in Nat \ {0} /\ l <= Len(w) /\ l <= Len(v) + 1
        /\ \A j \in 1 .. l - 1 : v[j] = w[j]
        /\ l <= Len(v) => v[l] < w[l]
    BY <2>2 DEF LessAt
  <2>5. Len(u) \in Nat /\ Len(v) \in Nat /\ Len(w) \in Nat
    OBVIOUS
  <2>6. /\ \A j \in 1 .. Len(u) : u[j] \in Nat
        /\ \A j \in 1 .. Len(v) : v[j] \in Nat
        /\ \A j \in 1 .. Len(w) : w[j] \in Nat
    OBVIOUS
  <2>7. CASE k < l
    <3>1. k \in 1 .. l - 1 /\ v[k] = w[k]
      BY <2>3, <2>4, <2>7
    <3>2. k <= Len(w)
      BY <2>3, <2>4, <2>5, <2>7
    <3>3. ASSUME NEW j \in 1 .. k - 1 PROVE u[j] = w[j]
      <4>1. j \in 1 .. l - 1
        BY <2>3, <2>4, <2>7
      <4> QED
        BY <2>3, <2>4, <4>1
    <3>4. LessAt(u, w, k)
      BY <2>3, <3>1, <3>2, <3>3 DEF LessAt
    <3> QED
      BY <3>4, PrecedesIs
  <2>8. CASE ~ (k < l)
    <3>1. l <= Len(u) + 1
      BY <2>3, <2>4, <2>5, <2>8
    <3>2. ASSUME NEW j \in 1 .. l - 1 PROVE u[j] = w[j]
      <4>1. j \in 1 .. k - 1
        BY <2>3, <2>4, <2>8
      <4> QED
        BY <2>3, <2>4, <4>1
    <3>3. ASSUME l <= Len(u) PROVE u[l] < w[l]
      <4>1. l \in 1 .. Len(u) /\ l \in 1 .. Len(v) /\ l \in 1 .. Len(w)
        BY <2>3, <2>4, <2>5, <2>8, <3>3
      <4>2. v[l] < w[l] /\ u[l] \in Nat /\ v[l] \in Nat /\ w[l] \in Nat
        BY <2>4, <2>6, <4>1
      <4>3. u[l] <= v[l]
        <5>1. l = k \/ l \in 1 .. k - 1
          BY <2>3, <2>4, <2>8
        <5>2. CASE l = k
          <6>1. u[l] < v[l]
            BY <2>3, <3>3, <5>2
          <6> QED
            BY <4>2, <6>1
        <5>3. CASE l \in 1 .. k - 1
          <6>1. u[l] = v[l]
            BY <2>3, <5>3
          <6> QED
            BY <4>2, <6>1
        <5> QED
          BY <5>1, <5>2, <5>3
      <4> QED
        BY <4>2, <4>3
    <3>4. LessAt(u, w, l)
      BY <2>4, <3>1, <3>2, <3>3 DEF LessAt
    <3> QED
      BY <3>4, PrecedesIs
  <2> QED
    BY <2>7, <2>8
<1>3. ASSUME NEW v \in Seq(Nat), NEW w \in Seq(Nat), v # w PROVE Precedes(v, w) \/ Precedes(w, v)
  <2> DEFINE D == {k \in Nat \ {0} : k > Len(v) \/ k > Len(w) \/ v[k] # w[k]}
  <2>0. Len(v) \in Nat /\ Len(w) \in Nat
    OBVIOUS
  <2>1. Len(v) + 1 \in D /\ D \in SUBSET Nat
    BY <2>0
  <2>2. PICK k \in D : \A j \in D : k <= j
    <3> HIDE DEF D
    <3> QED
      BY <2>1, LeastNat
  <2>3. k \in Nat \ {0} /\ (k > Len(v) \/ k > Len(w) \/ v[k] # w[k])
    BY <2>2
  <2>4. \A j \in 1 .. k - 1 : j <= Len(v) /\ j <= Len(w) /\ v[j] = w[j]
    <3> SUFFICES ASSUME NEW j \in 1 .. k - 1 PROVE j <= Len(v) /\ j <= Len(w) /\ v[j] = w[j]
      OBVIOUS
    <3>1. j \notin D /\ j \in Nat \ {0}
      BY <2>2, <2>3
    <3> QED
      BY <2>0, <3>1
  <2> HIDE DEF D
  <2>5. k <= Len(v) + 1 /\ k <= Len(w) + 1
    <3>1. k = 1 \/ k - 1 \in 1 .. k - 1
      BY <2>3
    <3>2. k = 1 \/ (k - 1 <= Len(v) /\ k - 1 <= Len(w))
      BY <2>4, <3>1
    <3> QED
      BY <2>0, <2>3, <3>2
  <2>6. CASE k > Len(v) /\ k > Len(w)
    <3>1. Len(v) = Len(w) /\ Len(v) = k - 1
      BY <2>0, <2>3, <2>5, <2>6
    <3>2. \A j \in 1 .. Len(v) : v[j] = w[j]
      BY <2>4, <3>1
    <3> QED
      BY <1>3, <3>1, <3>2, SeqSame
  <2>7. CASE k > Len(v) /\ k <= Len(w)
    <3>1. LessAt(v, w, k)
      BY <2>0, <2>3, <2>4, <2>5, <2>7 DEF LessAt
    <3> QED
      BY <3>1, PrecedesIs
  <2>8. CASE k <= Len(v) /\ k > Len(w)
    <3>1. LessAt(w, v, k)
      BY <2>0, <2>3, <2>4, <2>5, <2>8 DEF LessAt
    <3> QED
      BY <3>1, PrecedesIs
  <2>9. CASE k <= Len(v) /\ k <= Len(w)
    <3>1. v[k] \in Nat /\ w[k] \in Nat /\ v[k] # w[k]
      <4>1. k \in 1 .. Len(v) /\ k \in 1 .. Len(w)
        BY <2>0, <2>3, <2>9
      <4> QED
        BY <2>0, <2>3, <2>9, <4>1
    <3>2. CASE v[k] < w[k]
      <4>1. LessAt(v, w, k)
        BY <2>3, <2>4, <2>5, <2>9, <3>2 DEF LessAt
      <4> QED
        BY <4>1, PrecedesIs
    <3>3. CASE w[k] < v[k]
      <4>1. LessAt(w, v, k)
        BY <2>3, <2>4, <2>5, <2>9, <3>3 DEF LessAt
      <4> QED
        BY <4>1, PrecedesIs
    <3> QED
      BY <3>1, <3>2, <3>3
  <2> QED
    BY <2>0, <2>3, <2>6, <2>7, <2>8, <2>9
<1> QED
  BY <1>1, <1>2, <1>3

\* The order in which lines are printed.
Earlier(c) ==
    {p \in (DOMAIN c) \X (DOMAIN c) : \/ c[p[1]] > c[p[2]]
                                      \/ c[p[1]] = c[p[2]] /\ Precedes(p[1], p[2])}

LEMMA EarlierIs ==
    ASSUME NEW c, NEW v \in DOMAIN c, NEW w \in DOMAIN c
    PROVE  <<v, w>> \in Earlier(c) <=> c[v] > c[w] \/ (c[v] = c[w] /\ Precedes(v, w))
  BY DEF Earlier

\* Words with numbers.
WordCounts(c, S) == IsFiniteSet(S) /\ S \subseteq Seq(Nat) /\ c \in [S -> Nat]

LEMMA EarlierOrders ==
    ASSUME NEW c, NEW S, WordCounts(c, S)
    PROVE  StrictOrder(Earlier(c), S)
<1>1. IsFiniteSet(S) /\ DOMAIN c = S /\ \A v \in S : v \in Seq(Nat) /\ c[v] \in Nat
  BY DEF WordCounts
<1>2. \A v, w \in S : <<v, w>> \in Earlier(c) <=> c[v] > c[w] \/ (c[v] = c[w] /\ Precedes(v, w))
  BY <1>1, EarlierIs
<1>3. \A v \in S : <<v, v>> \notin Earlier(c)
  <2> SUFFICES ASSUME NEW v \in S PROVE <<v, v>> \notin Earlier(c)
    OBVIOUS
  <2>1. ~ Precedes(v, v) /\ c[v] \in Nat
    BY <1>1, PrecedesOrders
  <2>2. ~ (c[v] > c[v])
    BY <2>1
  <2> QED
    BY <1>2, <2>1, <2>2
<1>4. \A u, v, w \in S : <<u, v>> \in Earlier(c) /\ <<v, w>> \in Earlier(c) => <<u, w>> \in Earlier(c)
  <2> SUFFICES ASSUME NEW u \in S, NEW v \in S, NEW w \in S, <<u, v>> \in Earlier(c), <<v, w>> \in Earlier(c)
               PROVE  <<u, w>> \in Earlier(c)
    OBVIOUS
  <2>1. Precedes(u, v) /\ Precedes(v, w) => Precedes(u, w)
    BY <1>1, PrecedesOrders
  <2>2. c[u] \in Nat /\ c[v] \in Nat /\ c[w] \in Nat
    BY <1>1
  <2>3. /\ c[u] > c[v] \/ (c[u] = c[v] /\ Precedes(u, v))
        /\ c[v] > c[w] \/ (c[v] = c[w] /\ Precedes(v, w))
    BY <1>2
  <2> DEFINE x == c[u]
             y == c[v]
             z == c[w]
  <2> HIDE DEF x, y, z
  <2>4. x > z \/ (x = z /\ Precedes(u, v) /\ Precedes(v, w))
    <3>1. /\ x \in Nat /\ y \in Nat /\ z \in Nat
          /\ x > y \/ (x = y /\ Precedes(u, v))
          /\ y > z \/ (y = z /\ Precedes(v, w))
      BY <2>2, <2>3 DEF x, y, z
    <3> QED
      BY <3>1
  <2> QED
    BY <1>2, <2>1, <2>4 DEF x, z
<1>5. \A v, w \in S : v = w \/ <<v, w>> \in Earlier(c) \/ <<w, v>> \in Earlier(c)
  <2> SUFFICES ASSUME NEW v \in S, NEW w \in S
               PROVE  v = w \/ <<v, w>> \in Earlier(c) \/ <<w, v>> \in Earlier(c)
    OBVIOUS
  <2>1. v = w \/ Precedes(v, w) \/ Precedes(w, v)
    BY <1>1, PrecedesOrders
  <2>2. c[v] > c[w] \/ c[v] = c[w] \/ c[w] > c[v]
    <3>1. c[v] \in Nat /\ c[w] \in Nat
      BY <1>1
    <3> QED
      BY <3>1
  <2> QED
    BY <1>2, <2>1, <2>2
<1> QED
  BY <1>1, <1>3, <1>4, <1>5 DEF StrictOrder

Line(c, w) == [word |-> w, count |-> c[w]]

\* Every word has a line, and they are in order.
LEMMA LinesAre ==
    ASSUME NEW c, NEW S, WordCounts(c, S)
    PROVE  LET L == Lines(c) IN
           /\ DOMAIN L \subseteq Nat
           /\ \A k \in DOMAIN L : \E w \in S : L[k] = Line(c, w)
           /\ {L[k] : k \in DOMAIN L} = {Line(c, w) : w \in S}
           /\ \A k \in DOMAIN L : \A l \in 1 .. k - 1 :
                  \/ L[l].count > L[k].count
                  \/ /\ L[l].count = L[k].count
                     /\ Precedes(L[l].word, L[k].word)
<1> DEFINE L == Lines(c)
           n == Cardinality(S)
           Before(v, w) == \/ c[v] > c[w]
                           \/ c[v] = c[w] /\ Precedes(v, w)
           nth(k) == CHOOSE w \in S : Cardinality({v \in S : Before(v, w)}) = k - 1
           R == Earlier(c)
           rank(w) == Cardinality(Below(R, S, w))
<1>1. DOMAIN c = S /\ \A w \in S : c[w] \in Nat
  BY DEF WordCounts
<1>2. L = [k \in 1 .. n |-> [word |-> nth(k), count |-> c[nth(k)]]]
  BY <1>1 DEF Lines
<1>3. \A w \in S : {v \in S : Before(v, w)} = Below(R, S, w)
  <2> SUFFICES ASSUME NEW w \in S PROVE {v \in S : Before(v, w)} = Below(R, S, w)
    OBVIOUS
  <2>1. \A v \in S : Before(v, w) <=> <<v, w>> \in R
    BY <1>1, EarlierIs
  <2> QED
    BY <2>1 DEF Below
<1> HIDE DEF Before
<1>4. /\ n \in Nat
      /\ \A w \in S : rank(w) \in 0 .. n - 1
      /\ \A v, w \in S : <<v, w>> \in R => rank(v) < rank(w)
      /\ \A k \in 1 .. n : \E w \in S : rank(w) = k - 1
  BY EarlierOrders, RankIs
<1>5. \A k : nth(k) = CHOOSE w \in S : rank(w) = k - 1
  BY <1>3
<1> HIDE DEF nth, rank, R, n, L
<1>6. \A k \in 1 .. n : nth(k) \in S /\ rank(nth(k)) = k - 1
  BY <1>4, <1>5
<1>7. \A v, w \in S : rank(v) < rank(w) => <<v, w>> \in R
  <2> SUFFICES ASSUME NEW v \in S, NEW w \in S, rank(v) < rank(w) PROVE <<v, w>> \in R
    OBVIOUS
  <2>1. v = w \/ <<v, w>> \in R \/ <<w, v>> \in R
    BY EarlierOrders DEF StrictOrder, R
  <2>2. rank(v) \in Nat /\ rank(w) \in Nat
    BY <1>4
  <2>3. v # w /\ ~ (rank(w) < rank(v))
    BY <2>2
  <2> QED
    BY <1>4, <2>1, <2>3
<1>8. \A v, w \in S : rank(v) = rank(w) => v = w
  <2> SUFFICES ASSUME NEW v \in S, NEW w \in S, rank(v) = rank(w) PROVE v = w
    OBVIOUS
  <2>1. v = w \/ <<v, w>> \in R \/ <<w, v>> \in R
    BY EarlierOrders DEF StrictOrder, R
  <2>2. ~ (rank(v) < rank(w)) /\ ~ (rank(w) < rank(v))
    BY <1>4
  <2> QED
    BY <1>4, <2>1, <2>2
<1>9. DOMAIN L = 1 .. n /\ \A k \in 1 .. n : L[k] = Line(c, nth(k))
  BY <1>2 DEF Line
<1>10. {L[k] : k \in DOMAIN L} = {Line(c, w) : w \in S}
  <2>1. ASSUME NEW w \in S PROVE \E k \in 1 .. n : L[k] = Line(c, w)
    <3>1. rank(w) + 1 \in 1 .. n /\ (rank(w) + 1) - 1 = rank(w)
      BY <1>4
    <3>2. nth(rank(w) + 1) = w
      BY <1>6, <1>8, <3>1
    <3> QED
      BY <1>9, <3>1, <3>2
  <2> QED
    BY <1>6, <1>9, <2>1
<1>11. ASSUME NEW k \in 1 .. n, NEW l \in 1 .. k - 1
       PROVE  \/ L[l].count > L[k].count
              \/ /\ L[l].count = L[k].count
                 /\ Precedes(L[l].word, L[k].word)
  <2> DEFINE v == nth(l)
             w == nth(k)
  <2>1. l \in 1 .. n /\ l - 1 < k - 1
    BY <1>4
  <2>2. v \in S /\ w \in S /\ rank(v) < rank(w)
    <3>1. v \in S /\ rank(v) = l - 1 /\ w \in S /\ rank(w) = k - 1
      BY <1>6, <2>1
    <3> QED
      BY <2>1, <3>1
  <2>3. <<v, w>> \in R
    BY <1>7, <2>2
  <2>4. c[v] > c[w] \/ (c[v] = c[w] /\ Precedes(v, w))
    BY <1>1, <2>2, <2>3, EarlierIs DEF R
  <2>5. L[l].count = c[v] /\ L[l].word = v /\ L[k].count = c[w] /\ L[k].word = w
    BY <1>9, <2>1 DEF Line
  <2> QED
    BY <2>4, <2>5
<1>12. 1 .. n \subseteq Nat
  BY <1>4
<1> QED
  BY <1>6, <1>9, <1>10, <1>11, <1>12 DEF L

\* Counting by adding up.
LEMMA TotalCounts ==
    ASSUME NEW n \in Nat, NEW T \in SUBSET (1 .. n), NEW v,
           \A i \in 1 .. n : v[i] = IF i \in T THEN 1 ELSE 0
    PROVE  Total(v, n) = Cardinality(T) /\ IsFiniteSet(T)
<1> DEFINE C(k) == T \cap (1 .. k)
           P == {k \in Nat : k <= n => IsFiniteSet(C(k)) /\ Total(v, k) = Cardinality(C(k))}
<1>1. Numbers(v, n) /\ \A k \in Nat : k <= n => Numbers(v, k)
  BY DEF Numbers
<1>2. 0 \in P
  <2>1. C(0) = {}
    OBVIOUS
  <2>2. Total(v, 0) = 0
    BY TotalStep
  <2> HIDE DEF C
  <2> QED
    BY <2>1, <2>2, FS_EmptySet
<1>3. ASSUME NEW k \in Nat, k \in P PROVE k + 1 \in P
  <2> SUFFICES ASSUME k + 1 <= n
               PROVE  IsFiniteSet(C(k + 1)) /\ Total(v, k + 1) = Cardinality(C(k + 1))
    OBVIOUS
  <2>1. IsFiniteSet(C(k)) /\ Total(v, k) = Cardinality(C(k))
    BY <1>3
  <2>2. C(k + 1) = IF k + 1 \in T THEN C(k) \cup {k + 1} ELSE C(k)
    OBVIOUS
  <2>3. k + 1 \notin C(k)
    OBVIOUS
  <2>4. Total(v, k + 1) = Total(v, k) + v[k + 1]
    <3>1. k + 1 \in Nat \ {0} /\ (k + 1) - 1 = k /\ Numbers(v, k + 1)
      BY <1>1
    <3>2. \A m \in Nat \ {0} : Numbers(v, m) => Total(v, m) = Total(v, m - 1) + v[m]
      BY TotalStep
    <3> QED
      BY <3>1, <3>2
  <2>5. v[k + 1] = IF k + 1 \in T THEN 1 ELSE 0
    OBVIOUS
  <2>6. Cardinality(C(k)) \in Nat
    BY <2>1, FS_CardinalityType
  <2> HIDE DEF C
  <2>7. CASE k + 1 \in T
    <3>1. IsFiniteSet(C(k + 1)) /\ Cardinality(C(k + 1)) = Cardinality(C(k)) + 1
      BY <2>1, <2>2, <2>3, <2>7, FS_AddElement
    <3> QED
      BY <2>1, <2>4, <2>5, <2>7, <3>1
  <2>8. CASE k + 1 \notin T
    BY <2>1, <2>2, <2>4, <2>5, <2>6, <2>8
  <2> QED
    BY <2>7, <2>8
<1>4. C(n) = T
  OBVIOUS
<1> HIDE DEF C, P
<1>5. n \in P
  BY <1>2, <1>3, NatInductive
<1> QED
  BY <1>4, <1>5 DEF P

\* In a text the count of a word is the number of its places.
LEMMA CountPlaces ==
    ASSUME NEW s \in Seq(Byte), NEW w
    PROVE  Count("text", s, w) = Cardinality(Places("text", s, w)) /\ IsFiniteSet(Places("text", s, w))
<1> DEFINE T == Places("text", s, w)
           v == Adds("text", s, w)
           n == Len(s)
<1>0. "text" \in Kinds
  BY DEF Kinds
<1>1. n \in Nat /\ \A i \in Nat : v[i] = IF i \in Items("text", s) /\ ItemWord("text", s, i) = w
                                         THEN ItemCount("text", s, i) ELSE 0
  BY <1>0, AddsAre
<1>2. \A i \in Items("text", s) : i \in 1 .. n /\ ItemCount("text", s, i) = 1
  BY <1>0, ItemIs DEF ItemCount
<1>3. T \in SUBSET (1 .. n)
  BY <1>2 DEF Places
<1>4. \A i \in 1 .. n : v[i] = IF i \in T THEN 1 ELSE 0
  BY <1>1, <1>2 DEF Places
<1> HIDE DEF T, v, n
<1>5. Total(v, n) = Cardinality(T) /\ IsFiniteSet(T)
  BY <1>1, <1>3, <1>4, TotalCounts
<1> QED
  BY <1>5 DEF Count, T, v, n

\* The words of a text that no letter before or behind makes longer.
LEMMA SpanIs ==
    ASSUME text \in Seq(Byte), NEW i \in 1 .. Len(text), NEW j \in 1 .. Len(text)
    PROVE  i <= j /\ WordAtPositions(i, j) <=> i \in WordStarts(text) /\ j = WordEnd(text, i)
<1>0. Len(text) \in Nat /\ i \in Nat /\ j \in Nat
  OBVIOUS
<1>1. ASSUME i <= j, WordAtPositions(i, j) PROVE i \in WordStarts(text) /\ j = WordEnd(text, i)
  <2>1. /\ \A k \in i .. j : text[k] \in Letters
        /\ i > 1 => text[i - 1] \notin Letters
        /\ j < Len(text) => text[j + 1] \notin Letters
    BY <1>1 DEF WordAtPositions
  <2>2. text[i] \in Letters
    BY <1>1, <2>1
  <2>3. i \in WordStarts(text)
    BY <2>1, <2>2 DEF WordStarts
  <2>4. RunTo(text, i, Letters, j)
    BY <1>0, <1>1, <2>1 DEF RunTo
  <2>5. i \in 1 .. Len(text) + 1
    BY <1>0
  <2>6. j = RunEnd(text, i, Letters)
    BY <2>4, <2>5, RunEndIs
  <2> QED
    BY <2>3, <2>6 DEF WordEnd
<1>2. ASSUME i \in WordStarts(text), j = WordEnd(text, i) PROVE i <= j /\ WordAtPositions(i, j)
  <2>1. /\ i > 1 => text[i - 1] \notin Letters
        /\ WordEnd(text, i) \in i .. Len(text)
        /\ RunTo(text, i, Letters, WordEnd(text, i))
    BY <1>2, WordIs
  <2> QED
    BY <1>2, <2>1 DEF RunTo, WordAtPositions
<1> QED
  BY <1>1, <1>2

\* In lower case, it is what a worker stores, if the buffer is long enough.
LEMMA SpanWord ==
    ASSUME text \in Seq(Byte), NEW i \in WordStarts(text), Len(LettersAt(text, i)) <= MAX_WORD
    PROVE  SubSeq([k \in 1 .. Len(text) |-> tolower_ascii(text[k])], i, WordEnd(text, i)) = WordAt(text, i)
<1> DEFINE lower == [k \in 1 .. Len(text) |-> tolower_ascii(text[k])]
           e == WordEnd(text, i)
           w == LettersAt(text, i)
           n == Len(text)
<1>1. /\ i \in 1 .. n /\ e \in i .. n
      /\ w \in Seq(Letters) /\ Len(w) = (e - i) + 1
      /\ \A k \in 1 .. (e - i) + 1 : w[k] = text[(i + k) - 1]
  BY WordIs
<1>2. n \in Nat
  OBVIOUS
<1>3. lower \in Seq(Byte) /\ Len(lower) = n /\ \A k \in 1 .. n : lower[k] = tolower_ascii(text[k])
  <2>1. \A k \in 1 .. n : tolower_ascii(text[k]) \in Byte
    <3> SUFFICES ASSUME NEW k \in 1 .. n PROVE tolower_ascii(text[k]) \in Byte
      OBVIOUS
    <3>0. text[k] \in Byte
      OBVIOUS
    <3> DEFINE c == text[k]
    <3> HIDE DEF c
    <3>1. c \in 1 .. 255
      BY <3>0 DEF Byte, c
    <3>2. c \in 65 .. 90 => c + 32 \in 1 .. 255
      OBVIOUS
    <3>3. tolower_ascii(c) \in 1 .. 255
      BY <3>1, <3>2 DEF tolower_ascii
    <3> QED
      BY <3>3 DEF Byte, c
  <2> QED
    BY <1>2, <2>1
<1> HIDE DEF lower, e, w, n
<1>4. LET x == SubSeq(lower, i, e) IN
      /\ x \in Seq(Byte) /\ Len(x) = (e - i) + 1
      /\ \A k \in 1 .. (e - i) + 1 : x[k] = lower[(i + k) - 1]
  <2>1. i \in 1 .. Len(lower) + 1 /\ e \in Nat /\ i <= e + 1 /\ e <= Len(lower)
    BY <1>1, <1>2, <1>3
  <2> QED
    BY <1>3, <2>1, SliceIs
<1>5. Min({Len(w), MAX_WORD}) = (e - i) + 1
  <2> DEFINE T == {Len(w), MAX_WORD}
  <2>1. T \in SUBSET Nat /\ T # {} /\ Len(w) \in Nat /\ MAX_WORD \in Nat
    BY <1>1, Sizes
  <2>2. Min(T) \in T /\ \A j \in T : Min(T) <= j
    BY <2>1, MinIs
  <2>3. Len(w) <= MAX_WORD
    BY DEF w
  <2>4. Min(T) = Len(w)
    <3> DEFINE m == Min(T)
    <3> HIDE DEF m
    <3>1. (m = Len(w) \/ m = MAX_WORD) /\ m <= Len(w)
      BY <2>2 DEF m
    <3>2. m = Len(w)
      BY <2>1, <2>3, <3>1
    <3> QED
      BY <3>2 DEF m
  <2> QED
    BY <1>1, <2>4
<1>6. WordAt(text, i) = [k \in 1 .. (e - i) + 1 |-> tolower_ascii(w[k])]
  BY <1>5 DEF WordAt, w
<1> DEFINE x == SubSeq(lower, i, e)
           y == WordAt(text, i)
<1>7. x \in Seq(Byte) /\ y \in Seq(Low) /\ Len(x) = Len(y)
  <2>1. y \in Seq(Low)
    BY WordAtIs
  <2>2. Len(y) = (e - i) + 1
    <3>1. DOMAIN y = 1 .. Len(y) /\ Len(y) \in Nat
      BY <2>1
    <3>2. DOMAIN y = 1 .. (e - i) + 1 /\ (e - i) + 1 \in Nat
      BY <1>1, <1>2, <1>6
    <3> HIDE DEF y
    <3> QED
      BY <3>1, <3>2
  <2> QED
    BY <1>4, <2>1, <2>2
<1>8. \A k \in 1 .. Len(x) : x[k] = y[k]
  <2> SUFFICES ASSUME NEW k \in 1 .. (e - i) + 1 PROVE x[k] = y[k]
    BY <1>4
  <2>1. (i + k) - 1 \in 1 .. n
    BY <1>1, <1>2
  <2>2. x[k] = tolower_ascii(text[(i + k) - 1])
    BY <1>3, <1>4, <2>1
  <2>3. y[k] = tolower_ascii(w[k]) /\ w[k] = text[(i + k) - 1]
    BY <1>1, <1>6
  <2> QED
    BY <2>2, <2>3
<1>9. y \in Seq(Byte)
  <2>1. Low \subseteq Byte
    BY LettersAreBytes
  <2> HIDE DEF y
  <2> QED
    BY <1>7, <2>1
<1> HIDE DEF x, y
<1>10. x = y
  BY <1>7, <1>8, <1>9, SeqSame
<1> QED
  BY <1>10 DEF x, y, lower, e

\* The lines that should be printed are the words with their counts.
LEMMA ExpectedIs ==
    ASSUME text \in Seq(Byte), WordsFitBuffers
    PROVE  ExpectedLines = {[word |-> w, count |-> Count("text", text, w)] : w \in Holds("text", text)}
<1> DEFINE n == Len(text)
           spans == {s \in (1 .. n) \X (1 .. n) : s[1] <= s[2] /\ WordAtPositions(s[1], s[2])}
           lower == [k \in 1 .. n |-> tolower_ascii(text[k])]
           word(s) == SubSeq(lower, s[1], s[2])
           span(i) == <<i, WordEnd(text, i)>>
           I == WordStarts(text)
           same(w) == {t \in spans : word(t) = w}
<1>1. ExpectedLines = {[word |-> word(s), count |-> Cardinality(same(word(s)))] : s \in spans}
  BY DEF ExpectedLines
<1>2. \A i \in I : i \in 1 .. n /\ WordEnd(text, i) \in 1 .. n
  <2> SUFFICES ASSUME NEW i \in I PROVE i \in 1 .. n /\ WordEnd(text, i) \in 1 .. n
    OBVIOUS
  <2>1. i \in 1 .. n /\ WordEnd(text, i) \in i .. n
    BY WordIs
  <2> QED
    BY <2>1
<1>3. \A i \in I : span(i) \in spans /\ word(span(i)) = WordAt(text, i)
  <2> SUFFICES ASSUME NEW i \in I PROVE span(i) \in spans /\ word(span(i)) = WordAt(text, i)
    OBVIOUS
  <2>1. span(i) \in (1 .. n) \X (1 .. n) /\ span(i)[1] = i /\ span(i)[2] = WordEnd(text, i)
    BY <1>2
  <2>2. i <= WordEnd(text, i) /\ WordAtPositions(i, WordEnd(text, i))
    BY <1>2, SpanIs
  <2>3. word(span(i)) = WordAt(text, i)
    <3>1. Len(LettersAt(text, i)) <= MAX_WORD
      BY DEF WordsFitBuffers
    <3>2. SubSeq(lower, i, WordEnd(text, i)) = WordAt(text, i)
      BY <3>1, SpanWord
    <3> QED
      BY <3>2
  <2> HIDE DEF span
  <2> QED
    BY <2>1, <2>2, <2>3
<1>4. \A s \in spans : \E i \in I : s = span(i)
  <2> SUFFICES ASSUME NEW s \in spans PROVE \E i \in I : s = span(i)
    OBVIOUS
  <2>1. s = <<s[1], s[2]>> /\ s[1] \in 1 .. n /\ s[2] \in 1 .. n /\ s[1] <= s[2] /\ WordAtPositions(s[1], s[2])
    OBVIOUS
  <2>2. s[1] \in I /\ s[2] = WordEnd(text, s[1])
    BY <2>1, SpanIs
  <2> QED
    BY <2>1, <2>2
<1>5. \A i, j \in I : span(i) = span(j) => i = j
  OBVIOUS
<1>6. I = Items("text", text) /\ \A i \in I : ItemWord("text", text, i) = WordAt(text, i)
  BY DEF Items, ItemWord
<1> HIDE DEF spans, word, span, I
<1>7. ASSUME NEW w PROVE Cardinality(same(w)) = Count("text", text, w)
  <2> DEFINE S == Places("text", text, w)
             T == same(w)
             g == [i \in S |-> span(i)]
  <2>1. S = {i \in I : WordAt(text, i) = w}
    BY <1>6 DEF Places
  <2>2. T = {t \in spans : word(t) = w}
    OBVIOUS
  <2> HIDE DEF S, T
  <2>3. g \in [S -> T] /\ \A i, j \in S : g[i] = g[j] => i = j
    BY <1>3, <1>5, <2>1, <2>2
  <2>4. \A t \in T : \E i \in S : g[i] = t
    <3> SUFFICES ASSUME NEW t \in T PROVE \E i \in S : span(i) = t
      OBVIOUS
    <3>1. PICK i \in I : t = span(i)
      BY <1>4, <2>2
    <3>2. WordAt(text, i) = w
      BY <1>3, <2>2, <3>1
    <3> QED
      BY <2>1, <3>1, <3>2
  <2> HIDE DEF g
  <2>5. ExistsBijection(S, T)
    BY <2>3, <2>4 DEF ExistsBijection, Bijection, Injection, IsInjective, Surjection
  <2>6. IsFiniteSet(S) /\ Count("text", text, w) = Cardinality(S)
    BY CountPlaces DEF S
  <2>7. Cardinality(T) = Cardinality(S)
    BY <2>5, <2>6, FS_Bijection
  <2> QED
    BY <2>6, <2>7 DEF T
<1> HIDE DEF same
<1>8. {word(s) : s \in spans} = Holds("text", text)
  BY <1>3, <1>4, <1>6 DEF Holds
<1> DEFINE line(w) == [word |-> w, count |-> Count("text", text, w)]
<1>9. ExpectedLines = {line(word(s)) : s \in spans}
  BY <1>1, <1>7
<1> HIDE DEF line
<1>10. {line(word(s)) : s \in spans} = {line(w) : w \in Holds("text", text)}
  BY <1>8
<1> QED
  BY <1>9, <1>10 DEF line

\* What is printed for the reduce results s.
LEMMA TableLines ==
    ASSUME NEW s \in Seq(Byte), Positive("red", s)
    PROVE  LET L == Lines(Table("red", s)) IN
           /\ \A k \in DOMAIN L : L[k].word \in Seq(Letters) /\ L[k].count \in Nat \ {0}
           /\ {L[k] : k \in DOMAIN L} =
                  {[word |-> w, count |-> Count("red", s, w)] : w \in Holds("red", s)}
           /\ \A k \in DOMAIN L : \A l \in 1 .. (k - 1) :
                  \/ L[l].count > L[k].count
                  \/ /\ L[l].count = L[k].count
                     /\ Precedes(L[l].word, L[k].word)
<1> DEFINE c == Table("red", s)
           S == Holds("red", s)
           L == Lines(c)
<1>0. "red" \in Kinds 
  BY DEF Kinds
<1>1. \A w \in S : w \in Seq(Letters) /\ c[w] \in Nat /\ c[w] >= 1 /\ c[w] = Count("red", s, w)
  <2> SUFFICES ASSUME NEW w \in S
               PROVE  w \in Seq(Letters) /\ c[w] \in Nat /\ c[w] >= 1 /\ c[w] = Count("red", s, w)
    OBVIOUS
  <2>1. c[w] = Count("red", s, w)
    BY DEF Table
  <2>2. Count("red", s, w) \in Nat /\ Count("red", s, w) >= 1
    BY <1>0, AddsAre, HoldsIs
  <2>3. PICK i \in Items("red", s) : w = ItemWord("red", s, i)
    BY DEF Holds
  <2>4. w \in Seq(Letters)
    BY <1>0, <2>3, ItemIs
  <2> QED
    BY <2>1, <2>2, <2>4
<1>2. WordCounts(c, S)
  <2>1. IsFiniteSet(S)
    BY <1>0, HoldsFinite
  <2>2. S \subseteq Seq(Nat)
    <3> SUFFICES ASSUME NEW w \in S PROVE w \in Seq(Nat)
      OBVIOUS
    <3>1. Letters \subseteq Nat
      BY LettersAreBytes
    <3>2. w \in Seq(Letters)
      BY <1>1
    <3>3. \A k \in 1 .. Len(w) : w[k] \in Nat
      <4> SUFFICES ASSUME NEW k \in 1 .. Len(w) PROVE w[k] \in Nat
        OBVIOUS
      <4>1. w[k] \in Letters
        BY <3>2
      <4> QED
        BY <3>1, <4>1
    <3> QED
      BY <3>2, <3>3, SeqOfBytes
  <2>3. c \in [S -> Nat]
    BY <1>1 DEF Table
  <2> QED
    BY <2>1, <2>2, <2>3 DEF WordCounts
<1> HIDE DEF c, S, L
<1>3. /\ \A k \in DOMAIN L : \E w \in S : L[k] = Line(c, w)
      /\ {L[k] : k \in DOMAIN L} = {Line(c, w) : w \in S}
      /\ \A k \in DOMAIN L : \A l \in 1 .. (k - 1) :
             \/ L[l].count > L[k].count
             \/ /\ L[l].count = L[k].count
                /\ Precedes(L[l].word, L[k].word)
  BY <1>2, LinesAre DEF L
<1>4. \A w \in S : Line(c, w) = [word |-> w, count |-> Count("red", s, w)]
  BY <1>1 DEF Line
<1>5. {Line(c, w) : w \in S} = {[word |-> w, count |-> Count("red", s, w)] : w \in S}
  BY <1>4
<1>6. ASSUME NEW k \in DOMAIN L PROVE L[k].word \in Seq(Letters) /\ L[k].count \in Nat \ {0}
  <2>1. PICK w \in S : L[k] = Line(c, w)
    BY <1>3
  <2>2. L[k].word = w /\ L[k].count = c[w]
    BY <2>1 DEF Line
  <2> QED
    BY <1>1, <2>2
<1> QED
  BY <1>3, <1>5, <1>6 DEF L, S, c

----------------------------------------------------------------------------
(* Cuts.                                                                    *)

\* What is left behind the first a bytes, and the n bytes behind them.
From(s, a)     == SubSeq(s, a + 1, Len(s))
Piece(s, a, n) == SubSeq(s, a + 1, a + n)

LEMMA CutIs ==
    ASSUME NEW s \in Seq(Byte), NEW a \in Nat, NEW n \in Nat, a + n <= Len(s)
    PROVE  /\ Piece(s, a, n) \in Seq(Byte) /\ Len(Piece(s, a, n)) = n
           /\ \A k \in 1 .. n : Piece(s, a, n)[k] = s[a + k]
           /\ From(s, a) \in Seq(Byte) /\ Len(From(s, a)) = Len(s) - a
           /\ \A k \in 1 .. Len(s) - a : From(s, a)[k] = s[a + k]
           /\ From(s, a + n) \in Seq(Byte)
           /\ From(s, a) = Piece(s, a, n) \o From(s, a + n)
<1> DEFINE i == a + 1
           e == a + n
           m == Len(s)
           j == e + 1
           p == Piece(s, a, n)
           f == From(s, a)
           g == From(s, a + n)
<1>0. /\ m \in Nat /\ e \in Nat /\ e <= m /\ i \in Nat /\ j \in Nat
      /\ i \in 1 .. m + 1 /\ i <= e + 1 /\ i <= m + 1 /\ j \in 1 .. m + 1 /\ j <= m + 1
      /\ (e - i) + 1 = n /\ (m - i) + 1 = m - a /\ (m - j) + 1 = m - e
  OBVIOUS
<1>1. p = SubSeq(s, i, e) /\ f = SubSeq(s, i, m) /\ g = SubSeq(s, j, m)
  BY DEF Piece, From
<1>3. /\ \A k \in 1 .. n : (i + k) - 1 = a + k
      /\ \A k \in 1 .. m - a : (i + k) - 1 = a + k
      /\ \A k \in 1 .. m - e : (j + k) - 1 = e + k
  BY <1>0
<1> HIDE DEF i, e, j, m, p, f, g
<1>4. p \in Seq(Byte) /\ Len(p) = n /\ \A k \in 1 .. n : p[k] = s[a + k]
  <2>1. /\ SubSeq(s, i, e) \in Seq(Byte) /\ Len(SubSeq(s, i, e)) = (e - i) + 1
        /\ \A k \in 1 .. (e - i) + 1 : SubSeq(s, i, e)[k] = s[(i + k) - 1]
    <3>1. i \in 1 .. Len(s) + 1 /\ e \in Nat /\ i <= e + 1 /\ e <= Len(s)
      BY <1>0 DEF m
    <3> QED
      BY <3>1, SliceIs
  <2> QED
    BY <1>0, <1>1, <1>3, <2>1
<1>5. f \in Seq(Byte) /\ Len(f) = m - a /\ \A k \in 1 .. m - a : f[k] = s[a + k]
  <2>1. /\ SubSeq(s, i, m) \in Seq(Byte) /\ Len(SubSeq(s, i, m)) = (m - i) + 1
        /\ \A k \in 1 .. (m - i) + 1 : SubSeq(s, i, m)[k] = s[(i + k) - 1]
    <3>1. i \in 1 .. Len(s) + 1 /\ m \in Nat /\ i <= m + 1 /\ m <= Len(s)
      BY <1>0 DEF m
    <3> QED
      BY <3>1, SliceIs
  <2> QED
    BY <1>0, <1>1, <1>3, <2>1
<1>6. g \in Seq(Byte) /\ Len(g) = m - e /\ \A k \in 1 .. m - e : g[k] = s[e + k]
  <2>1. /\ SubSeq(s, j, m) \in Seq(Byte) /\ Len(SubSeq(s, j, m)) = (m - j) + 1
        /\ \A k \in 1 .. (m - j) + 1 : SubSeq(s, j, m)[k] = s[(j + k) - 1]
    <3>1. j \in 1 .. Len(s) + 1 /\ m \in Nat /\ j <= m + 1 /\ m <= Len(s)
      BY <1>0 DEF m
    <3> QED
      BY <3>1, SliceIs
  <2> QED
    BY <1>0, <1>1, <1>3, <2>1
<1> DEFINE q == p \o g
<1>7. /\ q \in Seq(Byte) /\ Len(q) = Len(p) + Len(g)
      /\ \A k \in 1 .. Len(p) : q[k] = p[k]
      /\ \A k \in 1 .. Len(g) : q[Len(p) + k] = g[k]
  <2>1. p \in Seq(Byte) /\ g \in Seq(Byte)
    BY <1>4, <1>6
  <2> QED
    BY <2>1, JoinIs
<1> HIDE DEF q
<1>8. Len(f) = Len(q) /\ \A k \in 1 .. Len(f) : f[k] = q[k]
  <2>1. Len(f) = Len(q)
    BY <1>0, <1>4, <1>5, <1>6, <1>7 DEF e, m
  <2>2. ASSUME NEW k \in 1 .. Len(f) PROVE f[k] = q[k]
    <3>0. k \in 1 .. m - a /\ k \in Nat /\ f[k] = s[a + k]
      <4>1. k \in 1 .. m - a
        BY <1>5, <2>2
      <4>2. f[k] = s[a + k]
        BY <1>5, <4>1
      <4>3. k \in Nat
        BY <1>0, <4>1
      <4> QED
        BY <4>1, <4>2, <4>3
    <3>1. CASE k <= n
      <4>1. k \in 1 .. n
        BY <3>0, <3>1
      <4> QED
        BY <1>4, <1>7, <3>0, <4>1
    <3>2. CASE k > n
      <4> DEFINE h == k - n
      <4>1. h \in 1 .. m - e /\ n + h = k /\ e + h = a + k
        BY <1>0, <3>0, <3>2 DEF e
      <4> HIDE DEF h
      <4>2. q[n + h] = g[h] /\ g[h] = s[e + h]
        BY <1>4, <1>6, <1>7, <4>1
      <4> QED
        BY <3>0, <4>1, <4>2
    <3> QED
      BY <3>0, <3>1, <3>2
  <2> QED
    BY <2>1, <2>2
<1>9. f = q
  BY <1>5, <1>7, <1>8, SeqSame
<1> QED
  BY <1>4, <1>5, <1>6, <1>9 DEF p, f, g, q, m

LEMMA CutEnds ==
    ASSUME NEW s \in Seq(Byte)
    PROVE  From(s, 0) = s /\ From(s, Len(s)) = <<>>
<1>1. From(s, 0) = s
  BY DEF From
<1>2. From(s, Len(s)) \in Seq(Byte) /\ Len(From(s, Len(s))) = 0
  <2> DEFINE a == Len(s)
             n == 0
  <2>1. a \in Nat /\ n \in Nat /\ a + n <= Len(s) /\ Len(s) - a = 0
    OBVIOUS
  <2> HIDE DEF a, n
  <2>2. From(s, a) \in Seq(Byte) /\ Len(From(s, a)) = Len(s) - a
    BY <2>1, CutIs
  <2> QED
    BY <2>1, <2>2 DEF a
<1> QED
  BY <1>1, <1>2

\* Where a chunk ends: at the end of the text, behind a separator, or where
\* there is none.
LEMMA ChunkIs ==
    ASSUME NEW s \in Seq(Byte), NEW a \in Nat, a < Len(s), NEW n, n = ChunkLength(s, a)
    PROVE  /\ n \in Nat /\ n >= 1 /\ a + n <= Len(s) /\ n <= CHUNK_MAX_SIZE
           /\ \/ a + n = Len(s) /\ n < CHUNK_MAX_SIZE
              \/ s[a + n] \notin Letters
              \/ n = CHUNK_MAX_SIZE /\ \A k \in 1 .. CHUNK_MAX_SIZE : s[a + k] \in Letters
<1> DEFINE T == {CHUNK_MAX_SIZE, Len(s) - a}
           room == Min(T)
           safe == {k \in 1 .. room : s[a + k] \notin Letters}
<1>1. Len(s) - a \in Nat /\ Len(s) - a >= 1 /\ CHUNK_MAX_SIZE \in Nat /\ CHUNK_MAX_SIZE >= 1
  BY Sizes
<1>2. room \in Nat /\ room >= 1 /\ room <= CHUNK_MAX_SIZE /\ room <= Len(s) - a
      /\ (room = CHUNK_MAX_SIZE \/ room = Len(s) - a)
  <2>1. T \in SUBSET Nat /\ T # {}
    BY <1>1
  <2>2. room \in T /\ \A i \in T : room <= i
    BY <2>1, MinIs
  <2> QED
    BY <1>1, <2>2
<1>3. n = IF room = CHUNK_MAX_SIZE /\ safe # {} THEN Max(safe) ELSE room
  BY DEF ChunkLength
<1> HIDE DEF room, T
<1>4. CASE room = CHUNK_MAX_SIZE /\ safe # {}
  <2>1. safe \in SUBSET (0 .. room)
    BY <1>2
  <2>2. Max(safe) \in safe
    BY <1>2, <1>4, <2>1, MaxIs
  <2>3. n \in 1 .. room /\ s[a + n] \notin Letters
    BY <1>3, <1>4, <2>2
  <2> QED
    BY <1>1, <1>2, <2>3
<1>5. CASE room = CHUNK_MAX_SIZE /\ safe = {}
  <2>1. n = CHUNK_MAX_SIZE /\ n = room
    BY <1>3, <1>5
  <2>2. \A k \in 1 .. CHUNK_MAX_SIZE : s[a + k] \in Letters
    BY <1>5
  <2> HIDE DEF safe
  <2> QED
    BY <1>1, <1>2, <2>1, <2>2
<1>6. CASE room # CHUNK_MAX_SIZE
  <2>1. n = Len(s) - a /\ n < CHUNK_MAX_SIZE /\ n = room
    BY <1>1, <1>2, <1>3, <1>6
  <2> HIDE DEF safe
  <2> QED
    BY <1>1, <1>2, <2>1
<1> QED
  BY <1>4, <1>5, <1>6

\* No word is as long as a chunk; no three digits in a row.
Fits(s) == \A i \in WordStarts(s) : Len(LettersAt(s, i)) < CHUNK_MAX_SIZE
Plain(s) == \A i \in 1 .. (Len(s) - 2) : \E k \in 0 .. 2 : s[i + k] \notin Digits

\* No word lies across the place behind the first a bytes.
Aligned(s, a) == a = 0 \/ a = Len(s) \/ s[a] \notin Letters

LEMMA ChunkEnds ==
    ASSUME NEW s \in Seq(Byte), NEW a \in Nat, a < Len(s), NEW n, n = ChunkLength(s, a),
           Fits(s), Aligned(s, a)
    PROVE  Aligned(s, a + n) /\ (n = CHUNK_MAX_SIZE => s[a + n] \notin Letters)
<1>1. /\ n \in Nat /\ n >= 1 /\ a + n <= Len(s) /\ n <= CHUNK_MAX_SIZE
      /\ \/ a + n = Len(s) /\ n < CHUNK_MAX_SIZE
         \/ s[a + n] \notin Letters
         \/ n = CHUNK_MAX_SIZE /\ \A k \in 1 .. CHUNK_MAX_SIZE : s[a + k] \in Letters
  BY ChunkIs
<1>2. ASSUME n = CHUNK_MAX_SIZE, \A k \in 1 .. CHUNK_MAX_SIZE : s[a + k] \in Letters PROVE FALSE
  <2> DEFINE i == a + 1
             e == WordEnd(s, i)
  <2>0. Len(s) \in Nat /\ i \in 1 .. Len(s) /\ i - 1 = a
    OBVIOUS
  <2>1. i \in WordStarts(s)
    <3>1. s[i] \in Letters
      <4>1. 1 \in 1 .. CHUNK_MAX_SIZE
        BY Sizes
      <4> QED
        BY <1>2, <4>1
    <3>2. i = 1 \/ s[i - 1] \notin Letters
      <4>1. a = 0 \/ s[a] \notin Letters
        BY <2>0 DEF Aligned
      <4> QED
        BY <2>0, <4>1
    <3>3. i \in DOMAIN s
      BY <2>0
    <3> HIDE DEF i
    <3> QED
      BY <3>1, <3>2, <3>3 DEF WordStarts
  <2>2. /\ e \in i .. Len(s) /\ RunTo(s, i, Letters, e) /\ Len(LettersAt(s, i)) = (e - i) + 1
    BY <2>1, WordIs
  <2>3. (e - i) + 1 < CHUNK_MAX_SIZE
    BY <2>1, <2>2 DEF Fits
  <2> HIDE DEF e
  <2> DEFINE k == (e + 1) - a
  <2>4. e < Len(s) /\ k \in 1 .. CHUNK_MAX_SIZE /\ a + k = e + 1
    BY <1>1, <1>2, <2>0, <2>2, <2>3, Sizes
  <2>5. s[e + 1] \notin Letters
    BY <2>2, <2>4 DEF RunTo
  <2> HIDE DEF k
  <2> QED
    BY <1>2, <2>4, <2>5
<1>3. (a + n = Len(s) /\ n < CHUNK_MAX_SIZE) \/ s[a + n] \notin Letters
  BY <1>1, <1>2
<1> QED
  BY <1>1, <1>3, Sizes DEF Aligned

\* Bytes that are no letters are no words.
LEMMA NoWord ==
    ASSUME NEW x \in Seq(Byte), \A i \in 1 .. Len(x) : x[i] \notin Letters
    PROVE  \A w : Count("text", x, w) = 0
<1>0. "text" \in Kinds
  BY DEF Kinds
<1>1. \A i \in DOMAIN x : x[i] \notin Letters
  OBVIOUS
<1>2. Items("text", x) = {}
  BY <1>1 DEF Items, WordStarts
<1> SUFFICES ASSUME NEW w PROVE Count("text", x, w) = 0
  OBVIOUS
<1>3. Len(x) \in Nat /\ \A i \in Nat : Adds("text", x, w)[i] = 0
  BY <1>0, <1>2, AddsAre
<1>4. Total(Adds("text", x, w), Len(x)) = 0
  <2> DEFINE v == Adds("text", x, w)
             n == Len(x)
  <2>1. n \in Nat /\ \A i \in 1 .. n : v[i] = 0
    BY <1>3
  <2> HIDE DEF v, n
  <2>2. Total(v, n) = 0
    BY <2>1, TotalNone
  <2> QED
    BY <2>2 DEF v, n
<1> QED
  BY <1>4 DEF Count

\* What is sent of a chunk holds its words, and can be taken for no header if
\* the text has no three digits in a row.
LEMMA ChunkCounts ==
    ASSUME NEW s \in Seq(Byte), NEW a \in Nat, a < Len(s), NEW n, n = ChunkLength(s, a),
           Fits(s), Aligned(s, a), NEW b, b = Truncated(Piece(s, a, n))
    PROVE  /\ Plain(s) => ~ is_new_protocol(b)
           /\ \A w : Count("text", From(s, a), w) = Count("text", b, w) + Count("text", From(s, a + n), w)
<1> DEFINE p == Piece(s, a, n)
           g == From(s, a + n)
           h == From(s, a)
           m == MAX_MSG_LEN - 4
<1>0. "text" \in Kinds
  BY DEF Kinds
<1>1. n \in Nat /\ n >= 1 /\ a + n <= Len(s) /\ n <= CHUNK_MAX_SIZE /\ Len(s) \in Nat
  BY ChunkIs
<1>2. Aligned(s, a + n) /\ (n = CHUNK_MAX_SIZE => s[a + n] \notin Letters)
  BY ChunkEnds
<1>3. /\ p \in Seq(Byte) /\ Len(p) = n /\ \A k \in 1 .. n : p[k] = s[a + k]
      /\ g \in Seq(Byte) /\ h = p \o g
  BY ZenonT(40), <1>1, CutIs
<1>4. Len(g) = Len(s) - (a + n)
  <2> DEFINE c == a + n
             z == 0
  <2>1. c \in Nat /\ z \in Nat /\ c + z <= Len(s)
    BY <1>1
  <2> HIDE DEF c, z
  <2>2. Len(From(s, c)) = Len(s) - c
    BY <2>1, CutIs
  <2> QED
    BY <2>2 DEF c
<1>5. /\ b \in Seq(Byte) /\ Len(b) <= n
      /\ n <= m => b = p
      /\ n > m => b = SubSeq(p, 1, m)
  BY SMTT(30), <1>3, TruncatedIs
<1>6. m \in Nat /\ CHUNK_MAX_SIZE = m + 1
  BY Sizes
<1> HIDE DEF p, g, h, m
<1>7. Separate("text", p, g)
  <2>1. CASE a + n = Len(s)
    <3>1. g = <<>>
      BY <1>1, <1>3, <1>4, <2>1
    <3> QED
      BY <3>1 DEF Separate
  <2>2. CASE a + n # Len(s)
    <3>1. s[a + n] \notin Letters
      BY <1>1, <1>2, <2>2 DEF Aligned
    <3>2. p[Len(p)] \notin Letters
      <4>1. n \in 1 .. n
        BY <1>1
      <4> QED
        BY <1>3, <3>1, <4>1
    <3> QED
      BY <3>2 DEF Separate
  <2> QED
    BY <2>1, <2>2
<1>8. \A w : Count("text", h, w) = Count("text", p, w) + Count("text", g, w)
  BY <1>0, <1>3, <1>7, CountJoin
<1>9. /\ \A w : Count("text", p, w) = Count("text", b, w)
      /\ \A k \in 1 .. Len(b) : b[k] = p[k]
  <2>1. CASE n <= m
    BY <1>5, <2>1
  <2>2. CASE n > m
    <3>1. n = CHUNK_MAX_SIZE /\ n = m + 1
      BY <1>1, <1>6, <2>2
    <3> DEFINE y == From(p, m)
               z == 0
               d == 1
    <3>2. /\ Piece(p, z, m) \in Seq(Byte) /\ Len(Piece(p, z, m)) = m
          /\ \A k \in 1 .. m : Piece(p, z, m)[k] = p[z + k]
          /\ From(p, z) = Piece(p, z, m) \o From(p, z + m)
      <4>1. z \in Nat /\ m \in Nat /\ z + m <= Len(p)
        BY <1>3, <1>6, <3>1
      <4> HIDE DEF z
      <4> QED
        BY ZenonT(40), <1>3, <4>1, CutIs
    <3>3. From(p, z) = p /\ Piece(p, z, m) = b /\ From(p, z + m) = y /\ \A k \in 1 .. m : z + k = k
      <4>1. From(p, z) = p
        BY <1>3, CutEnds
      <4>2. z + m = m /\ z + 1 = 1
        BY <1>6
      <4>3. Piece(p, z, m) = b
        BY <1>5, <2>2, <4>2 DEF Piece
      <4>4. From(p, z + m) = y
        BY <4>2
      <4>5. \A k \in 1 .. m : z + k = k
        BY <1>6
      <4> QED
        BY <4>1, <4>3, <4>4, <4>5
    <3>4. p = b \o y /\ Len(b) = m /\ \A k \in 1 .. m : b[k] = p[k]
      BY <3>2, <3>3
    <3>5. /\ y \in Seq(Byte) /\ Len(y) = Len(p) - m
          /\ \A k \in 1 .. Len(p) - m : y[k] = p[m + k]
      <4>1. m \in Nat /\ z \in Nat /\ m + z <= Len(p)
        BY <1>3, <1>6, <3>1
      <4> HIDE DEF z
      <4> QED
        BY <1>3, <4>1, CutIs
    <3>6. Len(y) = 1 /\ y[1] \notin Letters
      <4>1. Len(p) - m = 1
        BY <1>3, <1>6, <3>1
      <4>2. 1 \in 1 .. 1 /\ y[1] = p[m + 1]
        BY <3>5, <4>1
      <4>3. n \in 1 .. n
        BY <1>1
      <4>4. p[n] = s[a + n]
        BY <1>3, <4>3
      <4> QED
        BY <1>2, <3>1, <3>5, <4>1, <4>2, <4>4
    <3> HIDE DEF y
    <3>7. Separate("text", b, y)
      BY <3>6 DEF Separate
    <3>8. \A w : Count("text", p, w) = Count("text", b, w) + Count("text", y, w)
      BY <1>0, <1>5, <3>4, <3>5, <3>7, CountJoin
    <3>9. \A w : Count("text", y, w) = 0
      <4>1. \A k \in 1 .. Len(y) : y[k] \notin Letters
        BY <3>6
      <4> QED
        BY <3>5, <4>1, NoWord
    <3>10. \A w : Count("text", b, w) \in Nat
      BY <1>0, <1>5, AddsAre
    <3>11. \A w : Count("text", p, w) = Count("text", b, w)
      <4> SUFFICES ASSUME NEW w PROVE Count("text", p, w) = Count("text", b, w)
        OBVIOUS
      <4> QED
        BY <3>8, <3>9, <3>10
    <3> QED
      BY <3>4, <3>11
  <2> QED
    BY <1>1, <1>6, <2>1, <2>2
<1>10. Plain(s) => ~ is_new_protocol(b)
  <2> SUFFICES ASSUME Plain(s), is_new_protocol(b) PROVE FALSE
    OBVIOUS
  <2>1. Len(b) >= 3 /\ \A k \in 1 .. 3 : b[k] \in Digits
    BY DEF is_new_protocol
  <2> DEFINE i == a + 1
  <2>2. i \in 1 .. (Len(s) - 2) /\ Len(b) \in Nat
    BY <1>1, <1>5, <2>1
  <2>3. PICK k \in 0 .. 2 : s[i + k] \notin Digits
    <3> HIDE DEF i
    <3> QED
      BY <2>2 DEF Plain
  <2> DEFINE j == k + 1
  <2>4. j \in 1 .. 3 /\ j \in 1 .. Len(b) /\ j \in 1 .. n /\ i + k = a + j
    BY <1>1, <1>5, <2>1, <2>2
  <2> HIDE DEF i, j
  <2>5. b[j] = s[a + j]
    BY <1>3, <1>9, <2>4
  <2> QED
    BY <2>1, <2>3, <2>4, <2>5
<1> QED
  BY <1>8, <1>9, <1>10 DEF h, g

\* The digits that a worker takes for a header are no words.
LEMMA PayloadCounts ==
    ASSUME NEW b \in Seq(Byte)
    PROVE  \A w : Count("text", payload(b), w) = Count("text", b, w)
<1>0. "text" \in Kinds
  BY DEF Kinds
<1>1. CASE ~ is_new_protocol(b)
  BY <1>1, PayloadIs
<1>2. CASE is_new_protocol(b)
  <2> DEFINE z == 0
             m == 3
             x == Piece(b, z, m)
             y == From(b, m)
  <2>1. Len(b) >= m /\ (\A k \in 1 .. m : b[k] \in Digits) /\ Len(b) \in Nat
    BY <1>2 DEF is_new_protocol
  <2>2. z \in Nat /\ m \in Nat /\ z + m <= Len(b) /\ z + m = m /\ m + z <= Len(b) /\ m >= 1
        /\ \A k \in 1 .. m : z + k = k
    BY <2>1
  <2>3. payload(b) = y
    <3>1. payload(b) = SubSeq(b, 4, Len(b)) /\ 3 + 1 = 4
      BY <1>2 DEF payload
    <3> QED
      BY <3>1 DEF From
  <2>4. From(b, z) = b
    BY CutEnds
  <2> HIDE DEF z, m
  <2>5. /\ x \in Seq(Byte) /\ Len(x) = m /\ \A k \in 1 .. m : x[k] = b[z + k]
        /\ From(b, z) = x \o From(b, z + m)
    BY ZenonT(40), <2>2, CutIs
  <2>6. y \in Seq(Byte)
    BY <2>2, CutIs
  <2>7. b = x \o y
    BY <2>2, <2>4, <2>5
  <2> HIDE DEF x, y
  <2>8. \A k \in 1 .. Len(x) : x[k] \notin Letters
    <3>1. Digits \cap Letters = {}
      BY DEF Digits, Letters
    <3> QED
      BY <2>1, <2>2, <2>5, <3>1
  <2>9. Separate("text", x, y)
    <3>1. Len(x) \in 1 .. Len(x)
      BY <2>2, <2>5
    <3> QED
      BY <2>8, <3>1 DEF Separate
  <2>10. ASSUME NEW w PROVE Count("text", y, w) = Count("text", b, w)
    <3>1. Count("text", b, w) = Count("text", x, w) + Count("text", y, w)
      BY <1>0, <2>5, <2>6, <2>7, <2>9, CountJoin
    <3>2. Count("text", x, w) = 0
      BY <2>5, <2>8, NoWord
    <3>3. Count("text", y, w) \in Nat
      BY <1>0, <2>6, AddsAre
    <3> QED
      BY <3>1, <3>2, <3>3
  <2> QED
    BY <2>3, <2>10
<1> QED
  BY <1>1, <1>2

\* In the map format a pair ends within the reach of find_safe_split().
LEMMA PairEnds ==
    ASSUME NEW f \in Seq(Byte), MapForm(f), Len(f) > PAYLOAD_MAX
    PROVE  \E g \in 1 .. PAYLOAD_MAX : f[g] \in Digits /\ f[g + 1] \in Letters
<1> DEFINE e == WordEnd(f, 1)
           g == SuffixEnd(f, 1, {One})
           n == Len(f)
<1>0. n \in Nat /\ n >= 1 /\ n > PAYLOAD_MAX /\ PAYLOAD_MAX \in Nat
  BY Sizes
<1>1. /\ f # <<>> /\ f[1] \in Letters /\ f[n] \notin Letters
      /\ \A k \in 1 .. n : f[k] \in Letters \cup {One}
  BY <1>0 DEF MapForm, Formed
<1>2. 1 \in WordStarts(f)
  BY <1>0, <1>1 DEF WordStarts
<1>3. /\ e \in 1 .. n /\ RunTo(f, 1, Letters, e) /\ Len(LettersAt(f, 1)) = (e - 1) + 1
  BY <1>2, WordIs
<1>4. g \in e .. n /\ RunTo(f, e + 1, {One}, g) /\ Len(SuffixAt(f, 1, {One})) = g - e
  BY <1>2, SuffixIs
<1>5. Len(LettersAt(f, 1)) + Len(SuffixAt(f, 1, {One})) <= PAYLOAD_MAX
  BY <1>2 DEF MapForm, Short
<1> HIDE DEF e, g, n
<1>6. g \in Nat /\ e \in Nat /\ g <= PAYLOAD_MAX /\ g < n /\ e <= g /\ e >= 1
  BY <1>0, <1>3, <1>4, <1>5
<1>7. f[g + 1] \in Letters
  <2>1. f[g + 1] \notin {One}
    BY <1>4, <1>6 DEF RunTo, n
  <2>2. g + 1 \in 1 .. n
    BY <1>0, <1>6
  <2> QED
    BY <1>1, <2>1, <2>2
<1>8. e < g
  <2> SUFFICES ASSUME e = g PROVE FALSE
    BY <1>6
  <2>1. f[e + 1] \notin Letters
    BY <1>3, <1>6 DEF RunTo, n
  <2> QED
    BY <1>7, <2>1
<1>9. f[g] \in Digits
  <2>1. g \in e + 1 .. g
    BY <1>6, <1>8
  <2>2. f[g] \in {One}
    BY <1>4, <2>1 DEF RunTo
  <2> QED
    BY <2>2, LettersAreBytes
<1> QED
  BY <1>0, <1>6, <1>7, <1>9

\* A reduce request takes whole pairs.
LEMMA ReduceIs ==
    ASSUME NEW f \in Seq(Byte), MapForm(f), f # <<>>, NEW n, n = ReduceLength(f)
    PROVE  /\ n \in Nat /\ n >= 1 /\ n <= Len(f) /\ n <= PAYLOAD_MAX
           /\ n = Len(f) \/ (f[n] \in Digits /\ f[n + 1] \in Letters)
<1>0. Len(f) \in Nat /\ Len(f) >= 1 /\ PAYLOAD_MAX \in Nat
  BY Sizes
<1>1. CASE ~ (Len(f) > PAYLOAD_MAX)
  BY <1>0, <1>1 DEF ReduceLength
<1>2. CASE Len(f) > PAYLOAD_MAX
  <2> DEFINE safe == {i \in 1 .. PAYLOAD_MAX : f[i] \in Digits /\ f[i + 1] \in Letters}
  <2>1. safe # {}
    BY <1>2, PairEnds
  <2>2. n = Max(safe)
    BY <1>2, <2>1 DEF ReduceLength, find_safe_split
  <2>3. safe \in SUBSET (0 .. PAYLOAD_MAX)
    BY <1>0
  <2>4. n \in safe
    <3> HIDE DEF safe
    <3> QED
      BY <1>0, <2>1, <2>2, <2>3, MaxIs
  <2> QED
    BY <1>0, <1>2, <2>4
<1> QED
  BY <1>1, <1>2

\* What is sent and what is left are in the map format as well.
LEMMA ReduceCut ==
    ASSUME NEW m \in Seq(Byte), NEW o \in Nat, o < Len(m), MapForm(From(m, o)),
           NEW n, n = ReduceLength(From(m, o))
    PROVE  /\ n \in Nat /\ n >= 1 /\ o + n <= Len(m) /\ n <= PAYLOAD_MAX
           /\ MapForm(Piece(m, o, n)) /\ MapForm(From(m, o + n))
<1> DEFINE f == From(m, o)
           x == Piece(m, o, n)
           y == From(m, o + n)
<1>0. Len(m) \in Nat /\ "map" \in Kinds /\ After("map") = {One}
  BY DEF Kinds, After
<1>1. f \in Seq(Byte) /\ Len(f) = Len(m) - o /\ f # <<>>
  <2> DEFINE z == 0
  <2>1. z \in Nat /\ o + z <= Len(m)
    BY <1>0
  <2> HIDE DEF z
  <2>2. f \in Seq(Byte) /\ Len(f) = Len(m) - o
    BY <2>1, CutIs
  <2>3. Len(f) # 0
    BY <1>0, <2>2
  <2> HIDE DEF f
  <2> QED
    BY <2>2, <2>3
<1>2. /\ n \in Nat /\ n >= 1 /\ n <= Len(f) /\ n <= PAYLOAD_MAX
      /\ n = Len(f) \/ (f[n] \in Digits /\ f[n + 1] \in Letters)
  BY <1>1, ReduceIs
<1>3. o + n <= Len(m)
  BY <1>0, <1>1, <1>2
<1>4. /\ x \in Seq(Byte) /\ Len(x) = n
      /\ y \in Seq(Byte) /\ f = x \o y
  BY <1>2, <1>3, CutIs
<1>5. MapForm(f)
  OBVIOUS
<1> HIDE DEF f, x, y
<1> DEFINE l == Len(y)
<1>6. Joined(f, x, y, n, l)
  BY <1>4, JoinedIs
<1>7. /\ l \in Nat /\ Len(f) = n + l /\ Len(y) = l
      /\ \A k \in 1 .. n : f[k] = x[k]
      /\ \A k \in 1 .. l : f[n + k] = y[k]
  BY <1>6 DEF Joined
<1>8. /\ Short(f) /\ \A k \in 1 .. Len(f) : f[k] \in Letters \cup {One}
      /\ f[1] \in Letters /\ f[Len(f)] \notin Letters
  BY <1>1, <1>5 DEF MapForm, Formed
<1> HIDE DEF l
<1>9. Digits \cap Letters = {}
  BY LettersAreBytes
<1>10. x[1] \in Letters /\ x[n] \notin Letters
  <2>1. 1 \in 1 .. n /\ n \in 1 .. n
    BY <1>2
  <2> QED
    BY <1>2, <1>7, <1>8, <1>9, <2>1
<1>11. l > 0 => y[1] \in Letters /\ y[l] \notin Letters
  <2> SUFFICES ASSUME l > 0 PROVE y[1] \in Letters /\ y[l] \notin Letters
    OBVIOUS
  <2>1. 1 \in 1 .. l /\ l \in 1 .. l /\ n # Len(f)
    BY <1>2, <1>7
  <2> QED
    BY <1>2, <1>7, <1>8, <2>1
<1>12. Formed(x) /\ Formed(y)
  <2>1. Formed(x)
    BY <1>4, <1>10 DEF Formed
  <2>2. l = 0 => y = <<>>
    BY <1>4, <1>7
  <2>3. Formed(y)
    BY <1>7, <1>11, <2>2 DEF Formed
  <2> QED
    BY <2>1, <2>3
<1>13. Separate("map", x, y)
  BY <1>4, <1>12, FormedJoin
<1>14. Short(x)
  <2> SUFFICES ASSUME NEW i \in WordStarts(x)
               PROVE  Len(LettersAt(x, i)) + Len(SuffixAt(x, i, {One})) <= PAYLOAD_MAX
    BY DEF Short
  <2>1. i \in 1 .. n
    BY <1>4, WordIs
  <2>2. SameAt("map", f, i, x, i)
    BY <1>0, <1>6, <1>13, <2>1, SameLeft
  <2>3. /\ i \in WordStarts(f) /\ LettersAt(f, i) = LettersAt(x, i)
        /\ SuffixAt(f, i, {One}) = SuffixAt(x, i, {One})
    BY <1>0, <2>2 DEF SameAt
  <2> QED
    BY <1>8, <2>3 DEF Short
<1>15. Short(y)
  <2> SUFFICES ASSUME NEW i \in WordStarts(y)
               PROVE  Len(LettersAt(y, i)) + Len(SuffixAt(y, i, {One})) <= PAYLOAD_MAX
    BY DEF Short
  <2>1. i \in 1 .. l
    BY <1>4, <1>7, WordIs
  <2>2. SameAt("map", f, n + i, y, i)
    BY <1>0, <1>6, <1>13, <2>1, SameRight
  <2>3. /\ n + i \in WordStarts(f) /\ LettersAt(f, n + i) = LettersAt(y, i)
        /\ SuffixAt(f, n + i, {One}) = SuffixAt(y, i, {One})
    BY <1>0, <2>2 DEF SameAt
  <2> QED
    BY <1>8, <2>3 DEF Short
<1>16. \A k \in 1 .. Len(x) : x[k] \in Letters \cup {One}
  <2> SUFFICES ASSUME NEW k \in 1 .. n PROVE x[k] \in Letters \cup {One}
    BY <1>4
  <2>1. k \in 1 .. Len(f)
    BY <1>2, <1>7
  <2> QED
    BY <1>7, <1>8, <2>1
<1>17. \A k \in 1 .. Len(y) : y[k] \in Letters \cup {One}
  <2> SUFFICES ASSUME NEW k \in 1 .. l PROVE y[k] \in Letters \cup {One}
    BY <1>7
  <2>1. n + k \in 1 .. Len(f)
    BY <1>2, <1>7
  <2> QED
    BY <1>7, <1>8, <2>1
<1> QED
  BY <1>2, <1>3, <1>12, <1>14, <1>15, <1>16, <1>17 DEF MapForm, x, y

\* A part in the map format is sent whole, can be taken for no header, and its
\* words and those left are all.
LEMMA ReduceCounts ==
    ASSUME NEW m \in Seq(Byte), NEW o \in Nat, o < Len(m), MapForm(From(m, o)),
           NEW n, n = ReduceLength(From(m, o)), NEW b, b = Truncated(Piece(m, o, n))
    PROVE  /\ b = Piece(m, o, n) /\ ~ is_new_protocol(b) /\ Len(b) <= PAYLOAD_MAX
           /\ \A w : Count("map", From(m, o), w) = Count("map", b, w) + Count("map", From(m, o + n), w)
<1> DEFINE x == Piece(m, o, n)
           y == From(m, o + n)
<1>0. "map" \in Kinds /\ Len(m) \in Nat
  BY DEF Kinds
<1>1. /\ n \in Nat /\ n >= 1 /\ o + n <= Len(m) /\ n <= PAYLOAD_MAX
      /\ MapForm(x) /\ MapForm(y)
  BY ReduceCut
<1>2. /\ x \in Seq(Byte) /\ Len(x) = n
      /\ y \in Seq(Byte) /\ From(m, o) = x \o y
  BY <1>1, CutIs
<1> HIDE DEF x, y
<1>3. Len(x) <= MAX_MSG_LEN - 4
  BY <1>1, <1>2, Sizes
<1>4. b = x
  BY <1>2, <1>3, TruncatedIs DEF x
<1>5. ~ is_new_protocol(x)
  <2>1. x[1] \in Letters
    <3>1. x # <<>>
      BY <1>1, <1>2
    <3> QED
      BY <1>1, <3>1 DEF MapForm, Formed
  <2>2. x[1] \notin Digits
    BY <2>1, LettersAreBytes
  <2>3. 1 \in 1 .. 3
    OBVIOUS
  <2> QED
    BY <2>2, <2>3 DEF is_new_protocol
<1>6. Separate("map", x, y)
  BY <1>1, <1>2, FormedJoin DEF MapForm
<1>7. \A w : Count("map", From(m, o), w) = Count("map", x, w) + Count("map", y, w)
  BY <1>0, <1>2, <1>6, CountJoin
<1> QED
  BY <1>1, <1>2, <1>4, <1>5, <1>7 DEF x, y
=============================================================================
