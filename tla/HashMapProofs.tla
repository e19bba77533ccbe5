--------------------------- MODULE HashMapProofs ---------------------------
(* Theorems about HashMap, for any tables, words, hashes and sizes, and     *)
(* whichever allocations find no memory.                                    *)
EXTENDS HashMap, Foundations, FiniteSetTheorems

\* A node that is counted in.
Counted == [key : Keys, count : 1 .. MaxCount]

----------------------------------------------------------------------------
(* A bucket: what is found in it and what its nodes add up to.              *)

\* Words, their lower case and keys.
LEMMA KeysAre ==
    /\ \A w \in Words : Lower[w] \in Keys /\ Lower[w] \in Words /\ Hash[w] = Hash[Lower[w]]
    /\ \A k \in Keys : k \in Words /\ Lower[k] = k /\ Hash[k] \in Nat
    /\ NULL \notin Nat /\ MaxCount \in Nat /\ MaxFaults \in Nat
    /\ \A c \in Counted : c.key \in Keys /\ c.count \in 1 .. MaxCount /\ c.count \in Nat
    /\ \A k \in Keys, n \in 1 .. MaxCount : Node(k, n) \in Counted
  BY HashMapAssumption DEF Keys, Counted, Node

\* ll_find() finds the first node of a word.
LEMMA FindIs ==
    ASSUME NEW list \in Seq(Counted), NEW w
    PROVE  LET p == ll_find(list, w) IN
           /\ p \in 0 .. Len(list)
           /\ p = 0 => \A i \in 1 .. Len(list) : list[i].key # Lower[w]
           /\ p # 0 => /\ list[p].key = Lower[w]
                       /\ \A i \in 1 .. Len(list) : list[i].key = Lower[w] => p <= i
<1> DEFINE I == {i \in 1 .. Len(list) : list[i].key = Lower[w]}
<1>1. ll_find(list, w) = IF I # {} THEN Min(I) ELSE 0
  BY DEF ll_find, SelectInSeq
<1>2. I \in SUBSET Nat /\ Len(list) \in Nat
  OBVIOUS
<1>3. \A i : i \in I <=> i \in 1 .. Len(list) /\ list[i].key = Lower[w]
  OBVIOUS
<1> HIDE DEF I
<1>4. CASE I = {}
  BY <1>1, <1>2, <1>3, <1>4
<1>5. CASE I # {}
  <2>1. Min(I) \in I /\ \A i \in I : Min(I) <= i
    BY <1>2, <1>5, MinIs
  <2> QED
    BY <1>1, <1>2, <1>3, <1>5, <2>1
<1> QED
  BY <1>4, <1>5

\* What a node counts for word w.
Value(node, w) == IF node.key = Lower[w] THEN node.count ELSE 0
Values(nodes, w) == [i \in 1 .. Len(nodes) |-> Value(nodes[i], w)]

LEMMA ValuesType ==
    ASSUME NEW nodes \in Seq(Counted), NEW w
    PROVE  /\ Len(nodes) \in Nat
           /\ \A i \in 1 .. Len(nodes) : /\ nodes[i] \in Counted
                                         /\ Values(nodes, w)[i] = Value(nodes[i], w)
                                         /\ Value(nodes[i], w) \in Nat
           /\ Numbers(Values(nodes, w), Len(nodes))
<1>1. Len(nodes) \in Nat /\ \A i \in 1 .. Len(nodes) : nodes[i] \in Counted
  OBVIOUS
<1>2. \A i \in 1 .. Len(nodes) : Value(nodes[i], w) \in Nat
  BY <1>1, KeysAre DEF Value
<1> QED
  BY <1>1, <1>2 DEF Values, Numbers

\* The loop over the nodes computes the total of their values.
LEMMA SumIsTotal ==
    ASSUME NEW nodes \in Seq(Counted), NEW w
    PROVE  SumIn(nodes, w) = Total(Values(nodes, w), Len(nodes))
<1> DEFINE n == Len(nodes)
           v == Values(nodes, w)
           f == Totals(v, n)
           Step(g, i) == IF i = 0 THEN 0
                         ELSE g[i - 1] + (IF nodes[i].key = Lower[w] THEN nodes[i].count ELSE 0)
           upto == CHOOSE g : g = [i \in 0 .. n |-> Step(g, i)]
<1>1. n \in Nat /\ Numbers(v, n) /\ \A i \in 1 .. n : v[i] = Value(nodes[i], w)
  BY ValuesType
<1>2. f \in [0 .. n -> Int] /\ f[0] = 0 /\ \A i \in 1 .. n : f[i] = f[i - 1] + v[i]
  BY <1>1, TotalsDefined
<1>3. SumIn(nodes, w) = upto[n]
  BY DEF SumIn
<1> HIDE DEF f, v
<1>4. f = [i \in 0 .. n |-> Step(f, i)]
  <2>1. \A i \in 0 .. n : f[i] = Step(f, i)
    BY <1>1, <1>2 DEF Value
  <2> HIDE DEF Step, n
  <2> QED
    BY <1>2, <2>1
<1>5. upto = [i \in 0 .. n |-> Step(upto, i)]
  <2> HIDE DEF Step, n
  <2> QED
    BY <1>4, Zenon
<1> HIDE DEF upto
<1>6. upto[0] = 0 /\ \A i \in 1 .. n : upto[i] = upto[i - 1] + v[i]
  <2>1. \A i \in 0 .. n : upto[i] = Step(upto, i)
    <3> HIDE DEF Step
    <3> QED
      BY <1>5
  <2> QED
    BY <1>1, <2>1 DEF Value
<1>7. upto[n] = Total(v, n)
  <2> HIDE DEF n
  <2> QED
    BY <1>1, <1>6, TotalIs
<1> QED
  BY <1>3, <1>7 DEF v

\* It is a natural number, and no node counts more.
LEMMA SumBounds ==
    ASSUME NEW nodes \in Seq(Counted), NEW w
    PROVE  /\ SumIn(nodes, w) \in Nat
           /\ \A i \in 1 .. Len(nodes) : nodes[i].key = Lower[w] => nodes[i].count <= SumIn(nodes, w)
           /\ (\A i \in 1 .. Len(nodes) : nodes[i].key # Lower[w]) => SumIn(nodes, w) = 0
<1> DEFINE v == Values(nodes, w)
           n == Len(nodes)
<1>1. n \in Nat /\ \A i \in 1 .. n : v[i] = Value(nodes[i], w) /\ v[i] \in Nat
  BY ValuesType
<1>2. SumIn(nodes, w) = Total(v, n)
  BY SumIsTotal
<1> HIDE DEF v
<1>3. Total(v, n) \in Nat /\ \A i \in 1 .. n : v[i] <= Total(v, n)
  <2> HIDE DEF n
  <2> QED
    BY <1>1, TotalBounds
<1>4. ASSUME \A i \in 1 .. n : nodes[i].key # Lower[w] PROVE Total(v, n) = 0
  <2>1. \A i \in 1 .. n : v[i] = 0
    BY <1>1, <1>4 DEF Value
  <2> HIDE DEF n
  <2> QED
    BY <1>1, <2>1, TotalNone
<1> QED
  BY <1>1, <1>2, <1>3, <1>4 DEF Value

\* Two lists, one behind the other.
LEMMA SumOfParts ==
    ASSUME NEW x \in Seq(Counted), NEW y \in Seq(Counted), NEW w
    PROVE  x \o y \in Seq(Counted) /\ SumIn(x \o y, w) = SumIn(x, w) + SumIn(y, w)
<1> DEFINE z == x \o y
<1>1. /\ z \in Seq(Counted) /\ Len(z) = Len(x) + Len(y)
      /\ \A i \in 1 .. Len(x) + Len(y) : z[i] = IF i <= Len(x) THEN x[i] ELSE y[i - Len(x)]
  BY ConcatProperties
<1> HIDE DEF z
<1>2. /\ Len(x) \in Nat /\ Numbers(Values(x, w), Len(x))
      /\ \A i \in 1 .. Len(x) : Values(x, w)[i] = Value(x[i], w)
  BY ValuesType
<1>3. /\ Len(y) \in Nat /\ Numbers(Values(y, w), Len(y))
      /\ \A i \in 1 .. Len(y) : Values(y, w)[i] = Value(y[i], w)
  BY ValuesType
<1>4. \A i \in 1 .. Len(z) : Values(z, w)[i] = Value(z[i], w)
  BY <1>1, ValuesType
<1>5. \A i \in 1 .. Len(x) : Values(z, w)[i] = Values(x, w)[i]
  BY <1>1, <1>2, <1>3, <1>4
<1>6. \A i \in 1 .. Len(y) : Values(z, w)[Len(x) + i] = Values(y, w)[i]
  <2> SUFFICES ASSUME NEW i \in 1 .. Len(y)
               PROVE  Values(z, w)[Len(x) + i] = Values(y, w)[i]
    OBVIOUS
  <2>1. Len(x) + i \in 1 .. Len(z) /\ Len(x) + i \in 1 .. Len(x) + Len(y)
        /\ ~(Len(x) + i <= Len(x)) /\ (Len(x) + i) - Len(x) = i
    BY <1>1, <1>2, <1>3
  <2>2. z[Len(x) + i] = y[i]
    BY <1>1, <2>1
  <2> QED
    BY <1>3, <1>4, <2>1, <2>2
<1>7. Total(Values(z, w), Len(x) + Len(y))
          = Total(Values(x, w), Len(x)) + Total(Values(y, w), Len(y))
  <2> DEFINE a == Values(x, w)
             b == Values(y, w)
             c == Values(z, w)
             m == Len(x)
             n == Len(y)
  <2>1. TwoParts(a, m, b, n, c)
    BY <1>2, <1>3, <1>5, <1>6 DEF TwoParts
  <2> HIDE DEF a, b, c, m, n
  <2>2. Total(c, m + n) = Total(a, m) + Total(b, n)
    BY <2>1, TotalParts
  <2> QED
    BY <2>2 DEF a, b, c, m, n
<1> QED
  BY <1>1, <1>7, SumIsTotal DEF z

\* A list of one node, and the first node of a list.
LEMMA SumOfNode ==
    ASSUME NEW node \in Counted, NEW w
    PROVE  <<node>> \in Seq(Counted) /\ SumIn(<<node>>, w) = Value(node, w)
<1> DEFINE x == <<node>>
<1>1. x \in Seq(Counted) /\ Len(x) = 1 /\ x[1] = node
  OBVIOUS
<1> HIDE DEF x
<1> DEFINE v == Values(x, w)
<1>2. Numbers(v, 1) /\ v[1] = Value(node, w) /\ Value(node, w) \in Nat
  BY <1>1, ValuesType
<1>3. SumIn(x, w) = Total(v, 1)
  BY <1>1, SumIsTotal
<1> HIDE DEF v
<1>4. 1 \in Nat \ {0} /\ 1 - 1 = 0
  OBVIOUS
<1>5. Total(v, 0) = 0 /\ Total(v, 1) = Total(v, 1 - 1) + v[1]
  BY <1>2, <1>4, TotalStep
<1> QED
  BY <1>1, <1>2, <1>3, <1>4, <1>5 DEF x

LEMMA SumOfHead ==
    ASSUME NEW nodes \in Seq(Counted), nodes # <<>>, NEW w
    PROVE  /\ Head(nodes) \in Counted /\ Tail(nodes) \in Seq(Counted)
           /\ SumIn(nodes, w) = Value(Head(nodes), w) + SumIn(Tail(nodes), w)
<1> DEFINE h == Head(nodes)
           t == Tail(nodes)
<1>0. /\ h \in Counted /\ t \in Seq(Counted) /\ h = nodes[1]
      /\ Len(nodes) = Len(t) + 1 /\ Len(t) \in Nat /\ \A i \in 1 .. Len(t) : t[i] = nodes[i + 1]
  BY HeadTailProperties
<1> HIDE DEF h, t
<1>1. nodes = <<h>> \o t
  <2> DEFINE x == <<h>>
             z == x \o t
  <2>1. x \in Seq(Counted) /\ Len(x) = 1 /\ x[1] = h
    BY <1>0
  <2>0. x \in Seq(Counted) /\ t \in Seq(Counted)
    BY <1>0, <2>1
  <2> HIDE DEF x
  <2>2. /\ z \in Seq(Counted) /\ Len(z) = Len(x) + Len(t)
        /\ \A i \in 1 .. Len(x) + Len(t) : z[i] = IF i <= Len(x) THEN x[i] ELSE t[i - Len(x)]
    BY <2>0, ConcatProperties
  <2> HIDE DEF z
  <2>3. ASSUME NEW i \in 1 .. Len(nodes) PROVE nodes[i] = z[i]
    <3>1. i \in 1 .. Len(x) + Len(t)
      BY <1>0, <2>1
    <3>2. CASE i = 1
      BY <1>0, <2>1, <2>2, <3>1, <3>2
    <3>3. CASE i # 1
      <4>1. i - 1 \in 1 .. Len(t) /\ (i - 1) + 1 = i /\ ~(i <= Len(x)) /\ i - Len(x) = i - 1
        BY <1>0, <2>1, <3>3
      <4>2. z[i] = t[i - 1] /\ t[i - 1] = nodes[(i - 1) + 1]
        BY <1>0, <2>2, <3>1, <4>1
      <4> QED
        BY <4>1, <4>2
    <3> QED
      BY <3>2, <3>3
  <2> QED
    BY <1>0, <2>2, <2>3, SeqEqual DEF x, z
<1>2. <<h>> \in Seq(Counted) /\ SumIn(<<h>>, w) = Value(h, w)
  BY <1>0, SumOfNode
<1>3. SumIn(<<h>> \o t, w) = SumIn(<<h>>, w) + SumIn(t, w)
  BY <1>0, <1>2, SumOfParts
<1> QED
  BY <1>0, <1>1, <1>2, <1>3 DEF h, t

\* Nothing adds up to nothing.
LEMMA SumOfNothing ==
    ASSUME NEW w
    PROVE  <<>> \in Seq(Counted) /\ SumIn(<<>>, w) = 0
<1> DEFINE x == <<>>
<1>1. x \in Seq(Counted) /\ Len(x) = 0
  OBVIOUS
<1> HIDE DEF x
<1>2. \A i \in 1 .. Len(x) : x[i].key # Lower[w]
  BY <1>1
<1>3. SumIn(x, w) = 0
  BY <1>1, <1>2, SumBounds
<1> QED
  BY <1>1, <1>3 DEF x

\* A count is changed.
LEMMA CountChanged ==
    ASSUME NEW list \in Seq(Counted), NEW j \in 1 .. Len(list), NEW c \in 1 .. MaxCount
    PROVE  LET new == [list EXCEPT ![j].count = c] IN
           /\ new \in Seq(Counted) /\ Len(new) = Len(list)
           /\ \A i \in 1 .. Len(list) : new[i].key = list[i].key
           /\ \A i \in 1 .. Len(list) : i # j => new[i] = list[i]
           /\ new[j].count = c
           /\ \A w : SumIn(new, w) = SumIn(list, w) + (IF list[j].key = Lower[w]
                                                       THEN c - list[j].count ELSE 0)
<1> DEFINE e == [list[j] EXCEPT !.count = c]
           new == [list EXCEPT ![j] = e]
<1>1. list[j] \in Counted /\ list[j].count \in Nat /\ c \in Nat
  BY KeysAre
<1>2. e \in Counted /\ e.key = list[j].key /\ e.count = c
  BY <1>1 DEF Counted
<1> HIDE DEF e
<1>3. /\ new \in Seq(Counted) /\ Len(new) = Len(list)
      /\ \A i \in 1 .. Len(list) : new[i] = IF i = j THEN e ELSE list[i]
  BY <1>2, ExceptSeq
<1> HIDE DEF new
<1>4. ASSUME NEW w
      PROVE  SumIn(new, w) = SumIn(list, w) + (IF list[j].key = Lower[w]
                                               THEN c - list[j].count ELSE 0)
  <2> DEFINE u == Values(new, w)
             v == Values(list, w)
             n == Len(list)
  <2>1. /\ Numbers(v, n) /\ \A i \in 1 .. n : v[i] = Value(list[i], w)
        /\ SumIn(list, w) = Total(v, n)
    BY ValuesType, SumIsTotal
  <2>2. /\ Numbers(u, n) /\ \A i \in 1 .. n : u[i] = Value(new[i], w)
        /\ SumIn(new, w) = Total(u, n)
    BY <1>3, ValuesType, SumIsTotal
  <2>3. \A i \in 1 .. n : i # j => u[i] = v[i]
    BY <1>3, <2>1, <2>2
  <2>4. u[j] = Value(e, w) /\ v[j] = Value(list[j], w) /\ j \in 1 .. n
    BY <1>3, <2>1, <2>2
  <2> HIDE DEF u, v, n
  <2>5. Total(u, n) = Total(v, n) + (u[j] - v[j]) /\ Total(v, n) \in Int
    <3>1. n \in Nat
      BY <2>1 DEF Numbers
    <3>2. Total(u, n) = Total(v, n) + (u[j] - v[j])
      BY <2>1, <2>2, <2>3, <2>4, TotalChange
    <3>3. Total(v, n) \in Int
      BY <2>1, <3>1, TotalStep
    <3> QED
      BY <3>2, <3>3
  <2>6. u[j] - v[j] = IF list[j].key = Lower[w] THEN c - list[j].count ELSE 0
    BY <1>1, <1>2, <2>4 DEF Value
  <2> QED
    BY <2>1, <2>2, <2>5, <2>6
<1>5. \A i \in 1 .. Len(list) : new[i].key = list[i].key
  BY <1>2, <1>3
<1>6. new[j].count = c
  BY <1>2, <1>3
<1>7. new = [list EXCEPT ![j].count = c]
  BY DEF new, e
<1> QED
  BY <1>3, <1>4, <1>5, <1>6, <1>7

\* A node becomes the head.
LEMMA NodeInserted ==
    ASSUME NEW list \in Seq(Counted), NEW k \in Keys, NEW n \in 1 .. MaxCount
    PROVE  LET new == <<Node(k, n)>> \o list IN
           /\ new \in Seq(Counted) /\ Len(new) = Len(list) + 1 /\ new[1] = Node(k, n)
           /\ \A i \in 1 .. Len(list) : new[i + 1] = list[i]
           /\ \A i \in 1 .. Len(new) : i # 1 => i - 1 \in 1 .. Len(list) /\ new[i] = list[i - 1]
           /\ \A w : SumIn(new, w) = SumIn(list, w) + (IF k = Lower[w] THEN n ELSE 0)
<1> DEFINE node == Node(k, n)
           x == <<node>>
           new == x \o list
<1>1. node \in Counted /\ node.key = k /\ node.count = n
  BY KeysAre DEF Node
<1> HIDE DEF node
<1>2. x \in Seq(Counted) /\ Len(x) = 1 /\ x[1] = node /\ \A w : SumIn(x, w) = Value(node, w)
  BY <1>1, SumOfNode
<1> HIDE DEF x
<1>3. /\ new \in Seq(Counted) /\ Len(new) = Len(x) + Len(list)
      /\ \A i \in 1 .. Len(x) + Len(list) : new[i] = IF i <= Len(x) THEN x[i] ELSE list[i - Len(x)]
  <2>1. x \in Seq(Counted)
    BY <1>2
  <2> QED
    BY <2>1, ConcatProperties
<1>4. \A w : SumIn(new, w) = SumIn(x, w) + SumIn(list, w)
  BY <1>2, SumOfParts
<1> HIDE DEF new
<1>5. Len(list) \in Nat /\ Len(new) = Len(list) + 1 /\ new[1] = node
  BY <1>2, <1>3
<1>6. ASSUME NEW i \in 1 .. Len(new), i # 1
      PROVE  i - 1 \in 1 .. Len(list) /\ new[i] = list[i - 1]
  <2>1. i \in 1 .. Len(x) + Len(list) /\ ~(i <= Len(x)) /\ i - Len(x) = i - 1
    BY <1>2, <1>3, <1>5, <1>6
  <2> QED
    BY <1>3, <1>5, <1>6, <2>1
<1>7. ASSUME NEW i \in 1 .. Len(list) PROVE new[i + 1] = list[i]
  <2>1. i + 1 \in 1 .. Len(new) /\ i + 1 # 1 /\ (i + 1) - 1 = i
    BY <1>5
  <2>2. new[i + 1] = list[(i + 1) - 1]
    BY <1>6, <2>1
  <2> QED
    BY <2>1, <2>2
<1>8. ASSUME NEW w
      PROVE  SumIn(new, w) = SumIn(list, w) + (IF k = Lower[w] THEN n ELSE 0)
  <2>1. SumIn(list, w) \in Nat /\ Value(node, w) = (IF k = Lower[w] THEN n ELSE 0)
    BY <1>1, SumBounds DEF Value
  <2>2. SumIn(new, w) = Value(node, w) + SumIn(list, w)
    BY <1>2, <1>4
  <2> QED
    BY <2>1, <2>2
<1> QED
  BY <1>3, <1>5, <1>6, <1>7, <1>8 DEF new, x, node

\* A node is unlinked.
LEMMA NodeUnlinked ==
    ASSUME NEW list \in Seq(Counted), NEW j \in 1 .. Len(list)
    PROVE  LET new == unlink(list, j) IN
           /\ new \in Seq(Counted) /\ Len(new) = Len(list) - 1
           /\ \A i \in 1 .. Len(new) : new[i] = list[IF i < j THEN i ELSE i + 1]
           /\ \A w : SumIn(new, w) + Value(list[j], w) = SumIn(list, w)
<1> DEFINE a == SubSeq(list, 1, j - 1)
           b == SubSeq(list, j + 1, Len(list))
           new == a \o b
<1>0. Len(list) \in Nat /\ j \in Nat /\ 1 <= j /\ j <= Len(list)
  OBVIOUS
<1>1. /\ a \in Seq(Counted) /\ Len(a) = j - 1
      /\ \A i \in 1 .. j - 1 : a[i] = list[i]
  <2>1. \A i \in 1 .. j - 1 : list[i] \in Counted
    OBVIOUS
  <2>2. /\ a \in Seq(Counted) /\ Len(a) = IF 1 <= j - 1 THEN (j - 1) - 1 + 1 ELSE 0
        /\ \A i \in 1 .. (j - 1) - 1 + 1 : a[i] = list[1 + i - 1]
    BY <2>1, SubSeqProperties
  <2> HIDE DEF a
  <2>3. (j - 1) - 1 + 1 = j - 1 /\ \A i \in 1 .. j - 1 : 1 + i - 1 = i
    OBVIOUS
  <2> QED
    BY <2>2, <2>3
<1>2. /\ b \in Seq(Counted) /\ Len(b) = Len(list) - j
      /\ \A i \in 1 .. Len(list) - j : b[i] = list[j + i]
  <2>1. \A i \in j + 1 .. Len(list) : list[i] \in Counted
    OBVIOUS
  <2>2. /\ b \in Seq(Counted)
        /\ Len(b) = IF j + 1 <= Len(list) THEN Len(list) - (j + 1) + 1 ELSE 0
        /\ \A i \in 1 .. Len(list) - (j + 1) + 1 : b[i] = list[(j + 1) + i - 1]
    BY <2>1, SubSeqProperties
  <2> HIDE DEF b
  <2>3. /\ Len(list) - (j + 1) + 1 = Len(list) - j
        /\ \A i \in 1 .. Len(list) - j : (j + 1) + i - 1 = j + i
    BY <1>0
  <2>4. Len(b) = Len(list) - j
    BY <1>0, <2>2
  <2> QED
    BY <2>2, <2>3, <2>4
<1> HIDE DEF a, b
<1>3. /\ new \in Seq(Counted) /\ Len(new) = Len(a) + Len(b)
      /\ \A i \in 1 .. Len(a) + Len(b) : new[i] = IF i <= Len(a) THEN a[i] ELSE b[i - Len(a)]
  <2>1. a \in Seq(Counted) /\ b \in Seq(Counted)
    BY <1>1, <1>2
  <2> QED
    BY <2>1, ConcatProperties
<1>4. \A w : SumIn(new, w) = SumIn(a, w) + SumIn(b, w)
  BY <1>1, <1>2, SumOfParts
<1> HIDE DEF new
<1>5. Len(new) = Len(list) - 1
  BY <1>0, <1>1, <1>2, <1>3
<1>6. ASSUME NEW i \in 1 .. Len(new)
      PROVE  new[i] = list[IF i < j THEN i ELSE i + 1]
  <2>1. CASE i < j
    <3>1. i \in 1 .. Len(a) + Len(b) /\ i <= Len(a) /\ i \in 1 .. j - 1
      BY <1>0, <1>1, <1>2, <1>5, <2>1
    <3> QED
      BY <1>1, <1>3, <2>1, <3>1
  <2>2. CASE ~(i < j)
    <3>1. /\ i \in 1 .. Len(a) + Len(b) /\ ~(i <= Len(a)) /\ i - Len(a) \in 1 .. Len(list) - j
          /\ j + (i - Len(a)) = i + 1
      BY <1>0, <1>1, <1>2, <1>5, <2>2
    <3> QED
      BY <1>2, <1>3, <2>2, <3>1
  <2> QED
    BY <2>1, <2>2
<1>7. ASSUME NEW w PROVE SumIn(new, w) + Value(list[j], w) = SumIn(list, w)
  <2> DEFINE node == list[j]
             c == <<node>> \o b
             all == a \o c
  <2>1. node \in Counted /\ Value(node, w) \in Nat
    BY ValuesType
  <2> HIDE DEF node
  <2>2. <<node>> \in Seq(Counted) /\ SumIn(<<node>>, w) = Value(node, w)
    BY <2>1, SumOfNode
  <2>3. c \in Seq(Counted) /\ SumIn(c, w) = Value(node, w) + SumIn(b, w)
    <3> DEFINE x == <<node>>
    <3>1. x \in Seq(Counted) /\ b \in Seq(Counted) /\ SumIn(x, w) = Value(node, w)
      BY <1>2, <2>2
    <3> HIDE DEF x
    <3>2. x \o b \in Seq(Counted) /\ SumIn(x \o b, w) = SumIn(x, w) + SumIn(b, w)
      BY <3>1, SumOfParts
    <3> QED
      BY <3>1, <3>2 DEF x
  <2>4. Len(c) = Len(b) + 1 /\ c[1] = node /\ \A i \in 1 .. Len(b) : c[i + 1] = b[i]
    <3> DEFINE x == <<node>>
    <3>1. x \in Seq(Counted) /\ Len(x) = 1 /\ x[1] = node
      BY <2>1
    <3> HIDE DEF x
    <3>2. x \in Seq(Counted) /\ b \in Seq(Counted)
      BY <3>1, <1>2
    <3>3. /\ Len(x \o b) = Len(x) + Len(b)
          /\ \A i \in 1 .. Len(x) + Len(b) : (x \o b)[i] = IF i <= Len(x) THEN x[i] ELSE b[i - Len(x)]
      BY <3>2, ConcatProperties
    <3>4. ASSUME NEW i \in 1 .. Len(b) PROVE (x \o b)[i + 1] = b[i]
      <4>1. i + 1 \in 1 .. Len(x) + Len(b) /\ ~(i + 1 <= Len(x)) /\ (i + 1) - Len(x) = i
        BY <1>0, <1>2, <3>1
      <4> QED
        BY <3>3, <4>1
    <3>5. 1 \in 1 .. Len(x) + Len(b) /\ 1 <= Len(x)
      BY <1>0, <1>2, <3>1
    <3> QED
      BY <1>0, <1>2, <3>1, <3>3, <3>4, <3>5 DEF x
  <2> HIDE DEF c
  <2>5. all \in Seq(Counted) /\ SumIn(all, w) = SumIn(a, w) + SumIn(c, w)
    BY <1>1, <2>3, SumOfParts
  <2>6. all = list
    <3>1. a \in Seq(Counted) /\ c \in Seq(Counted)
      BY <1>1, <2>3
    <3>2. /\ Len(all) = Len(a) + Len(c)
          /\ \A i \in 1 .. Len(a) + Len(c) : all[i] = IF i <= Len(a) THEN a[i] ELSE c[i - Len(a)]
      BY <3>1, ConcatProperties
    <3> HIDE DEF all
    <3>3. Len(all) = Len(list)
      BY <1>0, <1>1, <1>2, <2>4, <3>2
    <3>4. ASSUME NEW i \in 1 .. Len(list) PROVE all[i] = list[i]
      <4>0. i \in 1 .. Len(a) + Len(c) /\ i \in Nat
        BY <1>0, <3>2, <3>3
      <4>1. CASE i < j
        <5>1. i <= Len(a) /\ i \in 1 .. j - 1
          BY <1>0, <1>1, <4>1
        <5> QED
          BY <1>1, <3>2, <4>0, <5>1
      <4>2. CASE i = j
        <5>1. ~(i <= Len(a)) /\ i - Len(a) = 1
          BY <1>0, <1>1, <4>2
        <5> QED
          BY <2>4, <3>2, <4>0, <4>2, <5>1 DEF node
      <4>3. CASE i > j
        <5>1. ~(i <= Len(a)) /\ i - Len(a) = (i - j) + 1 /\ i - j \in 1 .. Len(b)
              /\ i - j \in 1 .. Len(list) - j /\ j + (i - j) = i
          BY <1>0, <1>1, <1>2, <4>3
        <5>2. all[i] = c[(i - j) + 1] /\ c[(i - j) + 1] = b[i - j] /\ b[i - j] = list[j + (i - j)]
          BY <1>2, <2>4, <3>2, <4>0, <5>1
        <5> QED
          BY <5>1, <5>2
      <4> QED
        BY <1>0, <4>0, <4>1, <4>2, <4>3
    <3>5. all \in Seq(Counted)
      BY <2>5
    <3> QED
      BY <3>3, <3>4, <3>5, SeqEqual
  <2>7. SumIn(a, w) \in Nat /\ SumIn(b, w) \in Nat
    BY <1>1, <1>2, SumBounds
  <2> HIDE DEF all
  <2> QED
    BY <1>4, <2>1, <2>3, <2>5, <2>6, <2>7 DEF node
<1>8. unlink(list, j) = new
  BY DEF unlink, RemoveAt, new, a, b
<1> QED
  BY <1>3, <1>5, <1>6, <1>7, <1>8

----------------------------------------------------------------------------
(* A table: its buckets.                                                    *)

\* Every node is in the bucket where its key is looked for.
Tables ==
    /\ DOMAIN hm = Maps
    /\ \A m \in Maps : Exists(m) =>
          /\ \E n \in Sizes[m] : hm[m] \in [0 .. Buckets(n) - 1 -> Seq(Counted)]
          /\ \A b \in DOMAIN hm[m] : \A j \in 1 .. Len(hm[m][b]) :
                 bucket_index(m, hm[m][b][j].key) = b

\* Table m with n buckets.
LEMMA TableHas ==
    ASSUME NEW m \in Maps, NEW n \in Sizes[m], NEW t \in [0 .. Buckets(n) - 1 -> Seq(Counted)]
    PROVE  /\ Buckets(n) \in Nat \ {0} /\ DOMAIN t = 0 .. Buckets(n) - 1
           /\ Cardinality(DOMAIN t) = Buckets(n) /\ t # NULL
<1>1. Sizes[m] \in SUBSET Nat /\ DEFAULT_N_BUCKETS \in Nat \ {0}
  BY HashMapAssumption
<1>2. Buckets(n) \in Nat \ {0}
  BY <1>1 DEF Buckets
<1>3. Cardinality(0 .. Buckets(n) - 1) = Buckets(n)
  <2> DEFINE b == Buckets(n)
  <2>1. b \in Nat \ {0} /\ 0 \in Int /\ b - 1 \in Int /\ ~(0 > b - 1) /\ (b - 1) - 0 + 1 = b
    BY <1>2
  <2> HIDE DEF b
  <2>2. Cardinality(0 .. b - 1) = IF 0 > b - 1 THEN 0 ELSE (b - 1) - 0 + 1
    BY <2>1, FS_Interval
  <2> QED
    BY <2>1, <2>2 DEF b
<1>4. t \in [0 .. Buckets(n) - 1 -> Seq(Nodes)]
  <2>1. Counted \subseteq Nodes
    BY KeysAre DEF Counted, Nodes
  <2>2. Seq(Counted) \subseteq Seq(Nodes)
    BY <2>1, SeqMonotonic
  <2> QED
    BY <2>2
<1>5. t # NULL
  BY <1>4, HashMapAssumption
<1> QED
  BY <1>2, <1>3, <1>5

\* Where a word is looked for.
LEMMA IndexIn ==
    ASSUME NEW w \in Words, NEW n \in Nat \ {0}
    PROVE  /\ Hash[w] % n \in 0 .. n - 1
           /\ Hash[w] % n = Hash[Lower[w]] % n
<1>1. Hash[w] \in Nat /\ Hash[w] = Hash[Lower[w]]
  BY HashMapAssumption
<1> QED
  BY <1>1

LEMMA TableIs ==
    ASSUME Tables, NEW m \in Maps, Exists(m)
    PROVE  /\ n_buckets(m) \in Nat \ {0} /\ \E n \in Sizes[m] : n_buckets(m) = Buckets(n)
           /\ DOMAIN hm[m] = 0 .. n_buckets(m) - 1
           /\ hm[m] \in [0 .. n_buckets(m) - 1 -> Seq(Counted)]
           /\ \A w \in Words :
                 /\ bucket_index(m, w) \in 0 .. n_buckets(m) - 1
                 /\ bucket_index(m, w) = bucket_index(m, Lower[w])
                 /\ Bucket(m, w) \in Seq(Counted)
                 /\ Bucket(m, w) = Bucket(m, Lower[w])
                 /\ \A j \in 1 .. Len(Bucket(m, w)) :
                        bucket_index(m, Bucket(m, w)[j].key) = bucket_index(m, w)
<1>1. PICK n \in Sizes[m] : hm[m] \in [0 .. Buckets(n) - 1 -> Seq(Counted)]
  BY DEF Tables
<1>2. /\ Buckets(n) \in Nat \ {0} /\ DOMAIN hm[m] = 0 .. Buckets(n) - 1
      /\ n_buckets(m) = Buckets(n)
  BY <1>1, TableHas DEF n_buckets
<1>3. ASSUME NEW w \in Words
      PROVE  /\ bucket_index(m, w) \in 0 .. n_buckets(m) - 1
             /\ bucket_index(m, w) = bucket_index(m, Lower[w])
  BY <1>2, IndexIn DEF bucket_index
<1>4. ASSUME NEW w \in Words
      PROVE  /\ Bucket(m, w) \in Seq(Counted) /\ Bucket(m, w) = Bucket(m, Lower[w])
             /\ \A j \in 1 .. Len(Bucket(m, w)) :
                    bucket_index(m, Bucket(m, w)[j].key) = bucket_index(m, w)
  <2>1. bucket_index(m, w) \in DOMAIN hm[m]
    BY <1>2, <1>3
  <2>2. \A b \in DOMAIN hm[m] : \A j \in 1 .. Len(hm[m][b]) :
            bucket_index(m, hm[m][b][j].key) = b
    BY DEF Tables
  <2> QED
    BY <1>1, <1>2, <1>3, <2>1, <2>2 DEF Bucket
<1> QED
  BY <1>1, <1>2, <1>3, <1>4

\* The sum of joined lists is the total of their sums.
LEMMA SumOfJoined ==
    ASSUME NEW lists \in Seq(Seq(Counted)), NEW w
    PROVE  /\ FlattenSeq(lists) \in Seq(Counted)
           /\ Numbers([i \in 1 .. Len(lists) |-> SumIn(lists[i], w)], Len(lists))
           /\ SumIn(FlattenSeq(lists), w)
                  = Total([i \in 1 .. Len(lists) |-> SumIn(lists[i], w)], Len(lists))
<1> DEFINE n == Len(lists)
           v == [i \in 1 .. n |-> SumIn(lists[i], w)]
<1>1. PICK f : Joins(f, lists, Counted)
  BY JoinsExist
<1>2. /\ n \in Nat /\ f[0] = <<>>
      /\ \A i \in 0 .. n : f[i] \in Seq(Counted)
      /\ \A i \in 1 .. n : f[i] = f[i - 1] \o lists[i] /\ lists[i] \in Seq(Counted)
  BY SMTT(30), <1>1 DEF Joins
<1>3. FlattenSeq(lists) = f[n]
  <2>1. SubSeq(lists, 1, Len(lists)) = lists
    BY SubSeqFull
  <2>2. Len(lists) \in 0 .. Len(lists)
    OBVIOUS
  <2>3. FlattenSeq(SubSeq(lists, 1, Len(lists))) = f[Len(lists)]
    <3> HIDE DEF n, v
    <3> QED
      BY <1>1, <2>2, FlattenJoins
  <2> QED
    BY <2>1, <2>3
<1>4. n \in Nat /\ \A i \in 1 .. n : v[i] = SumIn(lists[i], w) /\ v[i] \in Nat
  BY <1>2, SumBounds
<1>5. Numbers(v, n)
  BY <1>4 DEF Numbers
<1> DEFINE g == [i \in 0 .. n |-> SumIn(f[i], w)]
<1> HIDE DEF v, n
<1>6. g[0] = 0
  BY <1>2, SumOfNothing
<1>7. ASSUME NEW i \in 1 .. n PROVE g[i] = g[i - 1] + v[i]
  <2>1. i \in 0 .. n /\ i - 1 \in 0 .. n
    BY <1>2
  <2>2. SumIn(f[i], w) = SumIn(f[i - 1], w) + SumIn(lists[i], w)
    <3> DEFINE x == f[i - 1]
               y == lists[i]
    <3>1. x \in Seq(Counted) /\ y \in Seq(Counted) /\ f[i] = x \o y
      BY <1>2, <2>1
    <3> HIDE DEF x, y
    <3>2. SumIn(x \o y, w) = SumIn(x, w) + SumIn(y, w)
      BY <3>1, SumOfParts
    <3> QED
      BY <3>1, <3>2 DEF x, y
  <2> QED
    BY <1>4, <2>1, <2>2
<1>8. g[n] = SumIn(f[n], w) /\ n \in 0 .. n
  BY <1>2
<1> HIDE DEF g
<1>9. g[n] = Total(v, n)
  BY <1>5, <1>6, <1>7, TotalIs
<1> QED
  BY <1>2, <1>3, <1>5, <1>8, <1>9 DEF v, n

\* hm_foreach() visits every node of a word, which are all in one bucket.
LEMMA ForeachSums ==
    ASSUME Tables, NEW m \in Maps
    PROVE  /\ hm_foreach(m) \in Seq(Counted)
           /\ \A w \in Words : SumIn(hm_foreach(m), w) = Sum(m, w)
<1>1. CASE ~Exists(m)
  BY <1>1, SumOfNothing DEF hm_foreach, Sum
<1>2. CASE Exists(m)
  <2> DEFINE n == n_buckets(m)
             lists == [i \in 1 .. n |-> hm[m][i - 1]]
  <2>1. /\ n \in Nat \ {0} /\ hm[m] \in [0 .. n - 1 -> Seq(Counted)]
        /\ \A b \in 0 .. n - 1 : \A j \in 1 .. Len(hm[m][b]) :
               bucket_index(m, hm[m][b][j].key) = b
    BY <1>2, TableIs DEF Tables
  <2>2. lists \in Seq(Seq(Counted)) /\ Len(lists) = n /\ \A i \in 1 .. n : lists[i] = hm[m][i - 1]
    <3> HIDE DEF n
    <3>1. \A i \in 1 .. n : hm[m][i - 1] \in Seq(Counted)
      BY <2>1
    <3> QED
      BY <2>1, <3>1
  <2>3. hm_foreach(m) = FlattenSeq(lists)
    BY <1>2 DEF hm_foreach
  <2> HIDE DEF lists
  <2>4. hm_foreach(m) \in Seq(Counted)
    BY <2>2, <2>3, SumOfJoined
  <2>5. ASSUME NEW w \in Words PROVE SumIn(hm_foreach(m), w) = Sum(m, w)
    <3> DEFINE v == [i \in 1 .. Len(lists) |-> SumIn(lists[i], w)]
               b == bucket_index(m, w)
    <3>1. Numbers(v, n) /\ SumIn(hm_foreach(m), w) = Total(v, n)
      BY <2>2, <2>3, SumOfJoined
    <3>2. b \in 0 .. n - 1 /\ b = bucket_index(m, Lower[w])
      BY <1>2, TableIs
    <3>3. \A i \in 1 .. n : v[i] = SumIn(hm[m][i - 1], w)
      BY <2>2
    <3> HIDE DEF v, n
    <3>4. ASSUME NEW i \in 1 .. n, i # b + 1 PROVE v[i] = 0
      <4>1. i - 1 \in 0 .. n - 1 /\ i - 1 # b
        BY <2>1, <3>2, <3>4
      <4>2. hm[m][i - 1] \in Seq(Counted)
        BY <2>1, <4>1
      <4>3. \A j \in 1 .. Len(hm[m][i - 1]) : hm[m][i - 1][j].key # Lower[w]
        BY <2>1, <3>2, <4>1
      <4>4. SumIn(hm[m][i - 1], w) = 0
        BY <4>2, <4>3, SumBounds
      <4> QED
        BY <3>3, <4>4
    <3>5. b + 1 \in 1 .. n /\ (b + 1) - 1 = b
      BY <2>1, <3>2
    <3>6. Total(v, n) = v[b + 1]
      BY <3>1, <3>4, <3>5, TotalOne
    <3>7. v[b + 1] = SumIn(hm[m][b], w)
      BY <3>3, <3>5
    <3> QED
      BY <1>2, <3>1, <3>6, <3>7 DEF Sum, Bucket, b
  <2> QED
    BY <2>4, <2>5
<1> QED
  BY <1>1, <1>2

\* What a word's nodes add up to, whatever its case.
LEMMA SumType ==
    ASSUME Tables, NEW m \in Maps, NEW w \in Words
    PROVE  Sum(m, w) \in Nat /\ Sum(m, w) = Sum(m, Lower[w])
<1>1. CASE ~Exists(m)
  BY <1>1 DEF Sum
<1>2. CASE Exists(m)
  <2>1. Bucket(m, w) \in Seq(Counted) /\ Bucket(m, w) = Bucket(m, Lower[w])
    BY <1>2, TableIs
  <2>2. Lower[Lower[w]] = Lower[w]
    BY HashMapAssumption
  <2>3. SumIn(Bucket(m, w), w) = SumIn(Bucket(m, w), Lower[w])
    BY <2>2 DEF SumIn
  <2> QED
    BY <1>2, <2>1, <2>3, SumBounds DEF Sum
<1> QED
  BY <1>1, <1>2

\* One bucket of table m, that of word w, is changed.
Changes(m, w, new) ==
    /\ hm' = [hm EXCEPT ![m][bucket_index(m, w)] = new]
    /\ new \in Seq(Counted)
    /\ \A j \in 1 .. Len(new) : bucket_index(m, new[j].key) = bucket_index(m, w)

LEMMA BucketChanged ==
    ASSUME Tables, NEW m \in Maps, Exists(m), NEW w \in Words, NEW new, Changes(m, w, new)
    PROVE  /\ Tables'
           /\ \A x \in Maps : Exists(x)' <=> Exists(x)
           /\ \A x \in Maps, k \in Words : Exists(x) =>
                 /\ bucket_index(x, k)' = bucket_index(x, k)
                 /\ Bucket(x, k)' = IF x = m /\ bucket_index(m, k) = bucket_index(m, w)
                                    THEN new ELSE Bucket(x, k)
           /\ \A x \in Maps, k \in Words :
                 Sum(x, k)' = IF x = m /\ bucket_index(m, k) = bucket_index(m, w)
                              THEN SumIn(new, k) ELSE Sum(x, k)
<1> DEFINE b == bucket_index(m, w)
           t == [hm[m] EXCEPT ![b] = new]
<1>1. /\ hm' = [hm EXCEPT ![m] = t] /\ new \in Seq(Counted)
      /\ \A j \in 1 .. Len(new) : bucket_index(m, new[j].key) = b
  BY DEF Changes
<1>2. PICK n \in Sizes[m] : hm[m] \in [0 .. Buckets(n) - 1 -> Seq(Counted)]
  BY DEF Tables
<1>3. Buckets(n) \in Nat \ {0} /\ n_buckets(m) = Buckets(n) /\ b \in 0 .. Buckets(n) - 1
  <2>1. Buckets(n) \in Nat \ {0} /\ n_buckets(m) = Buckets(n)
    BY <1>2, TableHas DEF n_buckets
  <2>2. b \in 0 .. n_buckets(m) - 1
    BY TableIs
  <2> QED
    BY <2>1, <2>2
<1> HIDE DEF b
<1>4. /\ t \in [0 .. Buckets(n) - 1 -> Seq(Counted)] /\ DOMAIN t = DOMAIN hm[m]
      /\ t[b] = new /\ \A i \in 0 .. Buckets(n) - 1 : i # b => t[i] = hm[m][i]
  BY <1>1, <1>2, <1>3
<1>5. t # NULL
  BY <1>2, <1>4, TableHas
<1> HIDE DEF t
<1>6. DOMAIN hm = Maps /\ DOMAIN hm' = Maps /\ hm'[m] = t /\ \A x \in Maps \ {m} : hm'[x] = hm[x]
  BY <1>1 DEF Tables
<1>7. \A x \in Maps : Exists(x)' <=> Exists(x)
  BY <1>5, <1>6 DEF Exists
<1>8. \A x \in Maps : DOMAIN hm'[x] = DOMAIN hm[x]
  BY <1>4, <1>6
<1>9. \A x \in Maps : n_buckets(x)' = n_buckets(x)
  BY <1>8 DEF n_buckets
<1>10. \A x \in Maps : \A k : bucket_index(x, k)' = bucket_index(x, k)
  BY <1>9 DEF bucket_index
<1>11. Tables'
  <2>1. ASSUME NEW x \in Maps, Exists(x)'
        PROVE  /\ \E l \in Sizes[x] : hm'[x] \in [0 .. Buckets(l) - 1 -> Seq(Counted)]
               /\ \A i \in DOMAIN hm'[x] : \A j \in 1 .. Len(hm'[x][i]) :
                      Hash[hm'[x][i][j].key] % n_buckets(x)' = i
    <3>1. CASE x = m
      <4>1. hm'[x] = t
        BY <1>6, <3>1
      <4>2. \A i \in DOMAIN hm[m] : \A j \in 1 .. Len(hm[m][i]) :
                bucket_index(m, hm[m][i][j].key) = i
        BY DEF Tables
      <4>4. n_buckets(x)' = n_buckets(m)
        BY <1>9, <3>1
      <4>3. ASSUME NEW i \in DOMAIN t, NEW j \in 1 .. Len(t[i])
            PROVE  bucket_index(m, t[i][j].key) = i
        <5>1. CASE i = b
          BY <1>1, <1>4, <5>1
        <5>2. CASE i # b
          BY <1>2, <1>4, <4>2, <5>2
        <5> QED
          BY <5>1, <5>2
      <4>5. \A i \in DOMAIN t : \A j \in 1 .. Len(t[i]) : Hash[t[i][j].key] % n_buckets(m) = i
        BY <4>3 DEF bucket_index
      <4>6. \E l \in Sizes[x] : t \in [0 .. Buckets(l) - 1 -> Seq(Counted)]
        BY <1>2, <1>4, <3>1
      <4> QED
        BY <4>1, <4>4, <4>5, <4>6
    <3>2. CASE x # m
      <4>1. hm'[x] = hm[x] /\ Exists(x) /\ n_buckets(x)' = n_buckets(x)
        BY <1>6, <1>7, <1>9, <2>1, <3>2
      <4>2. /\ \E l \in Sizes[x] : hm[x] \in [0 .. Buckets(l) - 1 -> Seq(Counted)]
            /\ \A i \in DOMAIN hm[x] : \A j \in 1 .. Len(hm[x][i]) :
                   Hash[hm[x][i][j].key] % n_buckets(x) = i
        BY <4>1 DEF Tables, bucket_index
      <4> QED
        BY <4>1, <4>2
    <3> QED
      BY <3>1, <3>2
  <2> QED
    BY <1>6, <2>1 DEF Tables, bucket_index
<1>12. ASSUME NEW x \in Maps, NEW k \in Words, Exists(x)
       PROVE  Bucket(x, k)' = IF x = m /\ bucket_index(m, k) = b THEN new ELSE Bucket(x, k)
  <2>1. Bucket(x, k)' = hm'[x][bucket_index(x, k)]
    BY <1>10 DEF Bucket
  <2>2. CASE x = m
    <3>1. bucket_index(m, k) \in 0 .. Buckets(n) - 1
      BY <1>3, TableIs
    <3> QED
      BY <1>4, <1>6, <2>1, <2>2, <3>1 DEF Bucket
  <2>3. CASE x # m
    BY <1>6, <2>1, <2>3 DEF Bucket
  <2> QED
    BY <2>2, <2>3
<1>13. ASSUME NEW x \in Maps, NEW k \in Words
       PROVE  Sum(x, k)' = IF x = m /\ bucket_index(m, k) = b THEN SumIn(new, k) ELSE Sum(x, k)
  <2>1. CASE Exists(x)
    <3>1. Sum(x, k)' = SumIn(Bucket(x, k)', k)
      BY <1>7, <2>1 DEF Sum
    <3> QED
      BY <1>12, <2>1, <3>1 DEF Sum
  <2>2. CASE ~Exists(x)
    BY <1>7, <2>2 DEF Sum
  <2> QED
    BY <2>1, <2>2
<1> QED
  BY <1>7, <1>10, <1>11, <1>12, <1>13 DEF b

----------------------------------------------------------------------------
(* Calls that change the nodes of one word.                                 *)

\* The tables stay, and only what the nodes of w in table m add up to changes.
Grows(m, w, d) ==
    /\ Tables'
    /\ \A x \in Maps : Exists(x)' <=> Exists(x)
    /\ \A x \in Maps, k \in Words :
          Sum(x, k)' = Sum(x, k) + (IF x = m /\ Lower[k] = Lower[w] THEN d ELSE 0)

LEMMA Grown ==
    ASSUME Tables, NEW m \in Maps, Exists(m), NEW w \in Words, NEW new, Changes(m, w, new),
           NEW d \in Int,
           \A k \in Words : SumIn(new, k) = SumIn(Bucket(m, w), k)
                                                + (IF Lower[w] = Lower[k] THEN d ELSE 0)
    PROVE  Grows(m, w, d)
<1>1. /\ Tables'
      /\ \A x \in Maps : Exists(x)' <=> Exists(x)
      /\ \A x \in Maps, k \in Words :
            Sum(x, k)' = IF x = m /\ bucket_index(m, k) = bucket_index(m, w)
                         THEN SumIn(new, k) ELSE Sum(x, k)
  BY BucketChanged
<1>2. ASSUME NEW x \in Maps, NEW k \in Words
      PROVE  Sum(x, k)' = Sum(x, k) + (IF x = m /\ Lower[k] = Lower[w] THEN d ELSE 0)
  <2>1. Sum(x, k) \in Nat
    BY SumType
  <2>2. CASE x = m /\ bucket_index(m, k) = bucket_index(m, w)
    <3>1. Sum(m, k) = SumIn(Bucket(m, w), k)
      BY <2>2 DEF Sum, Bucket
    <3> QED
      BY <1>1, <2>1, <2>2, <3>1
  <2>3. CASE ~(x = m /\ bucket_index(m, k) = bucket_index(m, w))
    <3>1. bucket_index(m, k) = bucket_index(m, Lower[k])
          /\ bucket_index(m, w) = bucket_index(m, Lower[w])
      BY TableIs
    <3>2. ~(x = m /\ Lower[k] = Lower[w])
      BY <2>3, <3>1
    <3> QED
      BY <1>1, <2>1, <2>3, <3>2
  <2> QED
    BY <2>2, <2>3
<1> QED
  BY <1>1, <1>2 DEF Grows

\* No count is more than what the nodes of its word add up to.
LEMMA FoundInBucket ==
    ASSUME Tables, NEW m \in Maps, Exists(m), NEW w \in Words
    PROVE  /\ Bucket(m, w) \in Seq(Counted)
           /\ Position(m, w) \in 0 .. Len(Bucket(m, w))
           /\ Position(m, w) # 0 =>
                 LET node == Bucket(m, w)[Position(m, w)] IN
                 /\ Position(m, w) \in 1 .. Len(Bucket(m, w))
                 /\ node \in Counted /\ node.key = Lower[w]
                 /\ node.count \in 1 .. MaxCount /\ node.count <= Sum(m, w)
           /\ Position(m, w) = 0 => Sum(m, w) = 0
<1> DEFINE list == Bucket(m, w)
           p == Position(m, w)
<1>1. list \in Seq(Counted) /\ Len(list) \in Nat
  BY TableIs
<1>2. Sum(m, w) = SumIn(list, w) /\ p = ll_find(list, w)
  BY DEF Sum, Position
<1> HIDE DEF list, p
<1>3. /\ p \in 0 .. Len(list)
      /\ p = 0 => \A i \in 1 .. Len(list) : list[i].key # Lower[w]
      /\ p # 0 => list[p].key = Lower[w]
  BY <1>1, <1>2, FindIs
<1>4. /\ \A i \in 1 .. Len(list) : list[i].key = Lower[w] => list[i].count <= SumIn(list, w)
      /\ (\A i \in 1 .. Len(list) : list[i].key # Lower[w]) => SumIn(list, w) = 0
  BY <1>1, SumBounds
<1>5. ASSUME p # 0
      PROVE  /\ p \in 1 .. Len(list) /\ list[p] \in Counted /\ list[p].key = Lower[w]
             /\ list[p].count \in 1 .. MaxCount /\ list[p].count <= SumIn(list, w)
  <2>1. p \in 1 .. Len(list) /\ list[p] \in Counted
    BY <1>1, <1>3, <1>5
  <2> QED
    BY <1>3, <1>4, <1>5, <2>1, KeysAre
<1> QED
  BY <1>1, <1>2, <1>3, <1>4, <1>5 DEF list, p

\* The count of a node that is found becomes c.
LEMMA FoundChanged ==
    ASSUME Tables, NEW m \in Maps, Exists(m), NEW w \in Words, NEW c \in 1 .. MaxCount,
           Position(m, w) # 0,
           hm' = [hm EXCEPT ![m][bucket_index(m, w)][Position(m, w)].count = c]
    PROVE  Grows(m, w, c - Bucket(m, w)[Position(m, w)].count)
<1> DEFINE list == Bucket(m, w)
           p == Position(m, w)
           new == [list EXCEPT ![p].count = c]
           d == c - list[p].count
<1>1. hm' = [hm EXCEPT ![m][bucket_index(m, w)] = new]
  BY DEF Bucket
<1>2. list \in Seq(Counted) /\ p \in 1 .. Len(list) /\ list[p].key = Lower[w]
      /\ d \in Int
  BY FoundInBucket
<1>3. \A j \in 1 .. Len(list) : bucket_index(m, list[j].key) = bucket_index(m, w)
  BY TableIs
<1> HIDE DEF list, p
<1>4. /\ new \in Seq(Counted) /\ Len(new) = Len(list)
      /\ \A i \in 1 .. Len(list) : new[i].key = list[i].key
      /\ \A k : SumIn(new, k) = SumIn(list, k) + (IF list[p].key = Lower[k]
                                                  THEN c - list[p].count ELSE 0)
  BY <1>2, CountChanged
<1> HIDE DEF new
<1>5. Changes(m, w, new)
  <2>1. \A j \in 1 .. Len(new) : bucket_index(m, new[j].key) = bucket_index(m, w)
    BY <1>3, <1>4
  <2> QED
    BY <1>1, <1>4, <2>1 DEF Changes
<1>6. \A k \in Words : SumIn(new, k) = SumIn(list, k) + (IF Lower[w] = Lower[k] THEN d ELSE 0)
  BY <1>2, <1>4
<1> HIDE DEF d
<1>7. Grows(m, w, d)
  BY <1>2, <1>5, <1>6, Grown DEF list
<1> QED
  BY <1>7 DEF d, list, p

\* A node is put before the others.
LEMMA HeadPut ==
    ASSUME Tables, NEW m \in Maps, Exists(m), NEW w \in Words, NEW n \in 1 .. MaxCount,
           hm' = [hm EXCEPT ![m][bucket_index(m, w)] = <<Node(Lower[w], n)>> \o @]
    PROVE  Grows(m, w, n)
<1> DEFINE list == Bucket(m, w)
           k0 == Lower[w]
           new == <<Node(k0, n)>> \o list
<1>1. hm' = [hm EXCEPT ![m][bucket_index(m, w)] = new]
  BY DEF Bucket
<1>2. /\ list \in Seq(Counted) /\ bucket_index(m, w) = bucket_index(m, k0)
      /\ \A j \in 1 .. Len(list) : bucket_index(m, list[j].key) = bucket_index(m, w)
      /\ k0 \in Keys /\ Node(k0, n).key = k0 /\ n \in Int
  BY TableIs, KeysAre DEF Node
<1> HIDE DEF list, k0
<1>3. /\ new \in Seq(Counted) /\ Len(new) = Len(list) + 1 /\ new[1] = Node(k0, n)
      /\ \A i \in 1 .. Len(new) : i # 1 => i - 1 \in 1 .. Len(list) /\ new[i] = list[i - 1]
      /\ \A k : SumIn(new, k) = SumIn(list, k) + (IF k0 = Lower[k] THEN n ELSE 0)
  BY <1>2, NodeInserted
<1> HIDE DEF new
<1>4. \A j \in 1 .. Len(new) : bucket_index(m, new[j].key) = bucket_index(m, w)
  BY <1>2, <1>3
<1>5. Changes(m, w, new)
  BY <1>1, <1>3, <1>4 DEF Changes
<1>6. \A k \in Words : SumIn(new, k) = SumIn(list, k) + (IF Lower[w] = Lower[k] THEN n ELSE 0)
  BY <1>3 DEF k0
<1> QED
  BY <1>2, <1>5, <1>6, Grown DEF list

\* The node that is found goes.
LEMMA FoundRemoved ==
    ASSUME Tables, NEW m \in Maps, Exists(m), NEW w \in Words, Position(m, w) # 0,
           hm' = [hm EXCEPT ![m][bucket_index(m, w)] = unlink(@, Position(m, w))]
    PROVE  Grows(m, w, -(Bucket(m, w)[Position(m, w)].count))
<1> DEFINE list == Bucket(m, w)
           p == Position(m, w)
           new == unlink(list, p)
           d == -(list[p].count)
<1>1. hm' = [hm EXCEPT ![m][bucket_index(m, w)] = new]
  BY DEF Bucket
<1>2. /\ list \in Seq(Counted) /\ p \in 1 .. Len(list) /\ list[p].key = Lower[w]
      /\ list[p].count \in Nat
  BY FoundInBucket
<1>3. \A j \in 1 .. Len(list) : bucket_index(m, list[j].key) = bucket_index(m, w)
  BY TableIs
<1> HIDE DEF list, p
<1>4. /\ new \in Seq(Counted) /\ Len(new) = Len(list) - 1
      /\ \A i \in 1 .. Len(new) : new[i] = list[IF i < p THEN i ELSE i + 1]
      /\ \A k : SumIn(new, k) + Value(list[p], k) = SumIn(list, k)
  BY <1>2, NodeUnlinked
<1> HIDE DEF new
<1>5. \A i \in 1 .. Len(new) : (IF i < p THEN i ELSE i + 1) \in 1 .. Len(list)
  BY <1>2, <1>4
<1>6. \A i \in 1 .. Len(new) : bucket_index(m, new[i].key) = bucket_index(m, w)
  BY <1>3, <1>4, <1>5
<1>7. Changes(m, w, new)
  BY <1>1, <1>4, <1>6 DEF Changes
<1>8. ASSUME NEW k \in Words
      PROVE  SumIn(new, k) = SumIn(list, k) + (IF Lower[w] = Lower[k] THEN d ELSE 0)
  <2>1. SumIn(new, k) \in Nat /\ SumIn(list, k) \in Nat
    BY <1>2, <1>4, SumBounds
  <2>2. SumIn(new, k) + Value(list[p], k) = SumIn(list, k)
    BY <1>4
  <2> QED
    BY <1>2, <2>1, <2>2 DEF Value
<1>9. d \in Int
  BY <1>2
<1> HIDE DEF d
<1>10. Grows(m, w, d)
  BY <1>7, <1>8, <1>9, Grown DEF list
<1> QED
  BY <1>10 DEF d, list, p

\* What each call does to the sums.
LEMMA Incremented ==
    ASSUME Tables, NEW m \in Maps, Exists(m), NEW w \in Words, NEW d \in 1 .. MaxCount,
           Sum(m, w) + d <= MaxCount, ll_increment(m, w, d) \/ ll_insert(m, w, d)
    PROVE  Grows(m, w, d)
<1>1. ASSUME ll_increment(m, w, d) PROVE Grows(m, w, d)
  <2> DEFINE c == Bucket(m, w)[Position(m, w)].count + d
  <2>1. /\ Position(m, w) # 0
        /\ hm' = [hm EXCEPT ![m][bucket_index(m, w)][Position(m, w)].count = c]
    BY <1>1 DEF ll_increment, Bucket
  <2>2. c \in 1 .. MaxCount /\ c - Bucket(m, w)[Position(m, w)].count = d
    <3>1. Bucket(m, w)[Position(m, w)].count \in 1 .. MaxCount
          /\ Bucket(m, w)[Position(m, w)].count <= Sum(m, w)
      BY <2>1, FoundInBucket
    <3>2. Sum(m, w) \in Nat /\ MaxCount \in Nat
      BY SumType, KeysAre
    <3> QED
      BY <3>1, <3>2
  <2> HIDE DEF c
  <2>3. Grows(m, w, c - Bucket(m, w)[Position(m, w)].count)
    BY <2>1, <2>2, FoundChanged
  <2> QED
    BY <2>2, <2>3
<1>2. ASSUME ll_insert(m, w, d) PROVE Grows(m, w, d)
  BY <1>2, HeadPut DEF ll_insert
<1> QED
  BY <1>1, <1>2

\* Nothing happens to the tables.
LEMMA Unchanged ==
    ASSUME Tables, UNCHANGED hm
    PROVE  /\ Tables'
           /\ \A x \in Maps : Exists(x)' <=> Exists(x)
           /\ \A x \in Maps : \A k : Sum(x, k)' = Sum(x, k)
<1>1. \A x \in Maps : \A k : bucket_index(x, k)' = bucket_index(x, k)
  BY DEF bucket_index, n_buckets
<1>2. Tables'
  BY DEF Tables, Exists, bucket_index, n_buckets
<1>3. \A x \in Maps : Exists(x)' <=> Exists(x)
  BY DEF Exists
<1>4. \A x \in Maps : \A k : Sum(x, k)' = Sum(x, k)
  BY <1>1, <1>3 DEF Sum, Bucket
<1> QED
  BY <1>2, <1>3, <1>4

\* A table is made, emptied or freed.
LEMMA TableReplaced ==
    ASSUME Tables, NEW m \in Maps, NEW t, hm' = [hm EXCEPT ![m] = t],
           t # NULL => \E n \in Sizes[m] : t \in [0 .. Buckets(n) - 1 -> {<<>>}]
    PROVE  /\ Tables'
           /\ \A x \in Maps : Exists(x)' <=> IF x = m THEN t # NULL ELSE Exists(x)
           /\ \A x \in Maps, k \in Words : Sum(x, k)' = IF x = m THEN 0 ELSE Sum(x, k)
<1>1. DOMAIN hm' = Maps /\ hm'[m] = t /\ \A x \in Maps \ {m} : hm'[x] = hm[x]
  BY DEF Tables
<1>2. \A x \in Maps : Exists(x)' <=> IF x = m THEN t # NULL ELSE Exists(x)
  BY <1>1 DEF Exists
<1>3. ASSUME NEW x \in Maps, Exists(x)'
      PROVE  /\ \E l \in Sizes[x] : hm'[x] \in [0 .. Buckets(l) - 1 -> Seq(Counted)]
             /\ \A i \in DOMAIN hm'[x] : \A j \in 1 .. Len(hm'[x][i]) :
                    Hash[hm'[x][i][j].key] % n_buckets(x)' = i
             /\ x = m => /\ n_buckets(x)' \in Nat \ {0}
                         /\ \A b \in 0 .. n_buckets(x)' - 1 : hm'[x][b] = <<>>
  <2>1. CASE x = m
    <3>1. PICK n \in Sizes[m] : t \in [0 .. Buckets(n) - 1 -> {<<>>}]
      BY <1>2, <1>3, <2>1
    <3>2. t \in [0 .. Buckets(n) - 1 -> Seq(Counted)]
      <4>1. <<>> \in Seq(Counted)
        BY SumOfNothing
      <4> QED
        BY <3>1, <4>1
    <3>3. \A i \in DOMAIN t : t[i] = <<>> /\ Len(t[i]) = 0
      BY <3>1
    <3>4. DOMAIN t = 0 .. n_buckets(x)' - 1 /\ n_buckets(x)' \in Nat \ {0}
      <4>1. /\ Cardinality(DOMAIN t) = Buckets(n) /\ DOMAIN t = 0 .. Buckets(n) - 1
            /\ Buckets(n) \in Nat \ {0}
        BY <3>1, <3>2, TableHas
      <4> QED
        BY <1>1, <2>1, <4>1 DEF n_buckets
    <3>5. \E l \in Sizes[m] : t \in [0 .. Buckets(l) - 1 -> Seq(Counted)]
      BY <3>1, <3>2
    <3> QED
      BY <1>1, <2>1, <3>3, <3>4, <3>5
  <2>2. CASE x # m
    <3>1. hm'[x] = hm[x] /\ Exists(x)
      BY <1>1, <1>2, <1>3, <2>2
    <3> QED
      BY <2>2, <3>1 DEF Tables, bucket_index, n_buckets
  <2> QED
    BY <2>1, <2>2
<1>4. Tables'
  BY <1>1, <1>3 DEF Tables, bucket_index
<1>5. ASSUME NEW x \in Maps, NEW k \in Words
      PROVE  Sum(x, k)' = IF x = m THEN 0 ELSE Sum(x, k)
  <2>1. CASE x = m /\ t # NULL
    <3>1. Exists(x)'
      BY <1>2, <2>1
    <3>2. n_buckets(x)' \in Nat \ {0}
      BY <1>3, <2>1, <3>1
    <3>3. bucket_index(x, k)' \in 0 .. n_buckets(x)' - 1
      BY <3>2, IndexIn DEF bucket_index
    <3>4. Sum(x, k)' = SumIn(<<>>, k)
      BY <1>3, <2>1, <3>1, <3>3 DEF Sum, Bucket
    <3> QED
      BY <2>1, <3>4, SumOfNothing
  <2>2. CASE x = m /\ t = NULL
    BY <1>2, <2>2 DEF Sum
  <2>3. CASE x # m
    <3>1. hm'[x] = hm[x] /\ (Exists(x)' <=> Exists(x))
      BY <1>1, <1>2, <2>3
    <3> QED
      BY <2>3, <3>1 DEF Sum, Bucket, bucket_index, n_buckets
  <2> QED
    BY <2>1, <2>2, <2>3
<1> QED
  BY <1>2, <1>4, <1>5

----------------------------------------------------------------------------
(* The inductive invariant.                                                 *)

Typed ==
    /\ Tables
    /\ ~Idle => merging \in [dst : Maps, todo : Seq(Counted), goal : [Keys -> 0 .. MaxCount]]
    /\ \A x \in Maps : ~Idle /\ merging.dst = x => Exists(x)
    /\ faults \in 0 .. MaxFaults
    /\ added \in [Maps -> [Keys -> Nat]]
    /\ \A m \in Maps \ Counting : added[m] = Nothing

Summed ==
    /\ \A m \in Maps, k \in Keys : Sum(m, k) <= MaxCount
    /\ AcknowledgedIsCounted
    /\ \A x \in Maps, k \in Keys : ~Idle /\ merging.dst = x =>
          Sum(x, k) + SumIn(merging.todo, k) = merging.goal[k]

IInv == Typed /\ Summed

LEMMA InitIInv == Init => IInv
<1> SUFFICES ASSUME Init PROVE IInv
  OBVIOUS
<1>1. hm = [m \in Maps |-> NULL] /\ Idle /\ faults = 0 /\ added = [m \in Maps |-> Nothing]
  BY DEF Init, Idle
<1>2. \A m \in Maps : ~Exists(m)
  BY <1>1 DEF Exists
<1>3. \A m \in Maps : \A k : Sum(m, k) = 0
  BY <1>2 DEF Sum
<1>4. Counting \subseteq Maps /\ MaxCount \in Nat /\ MaxFaults \in Nat
  BY HashMapAssumption
<1>5. Tables
  BY <1>1, <1>2 DEF Tables
<1>6. Typed
  BY <1>1, <1>4, <1>5 DEF Typed, Nothing
<1>7. Summed
  BY <1>1, <1>3, <1>4 DEF Summed, AcknowledgedIsCounted, Nothing
<1> QED
  BY <1>6, <1>7 DEF IInv

\* An increment that is acknowledged.
LEMMA PutInc ==
    ASSUME Typed, Summed, NEW m \in Maps, Exists(m), NEW w \in Words, NEW d \in 1 .. MaxCount,
           Sum(m, w) + d <= MaxCount, ll_put_inc(m, w, d, 0)
    PROVE  /\ Grows(m, w, d)
           /\ faults' \in 0 .. MaxFaults
           /\ added' \in [Maps -> [Keys -> Nat]]
           /\ \A x \in Maps \ Counting : added'[x] = Nothing
           /\ \A x \in Maps, k \in Keys : Sum(x, k)' <= MaxCount
           /\ \A x \in Counting, k \in Keys : Sum(x, k)' = added'[x][k]
<1>0. /\ Tables /\ faults \in 0 .. MaxFaults /\ added \in [Maps -> [Keys -> Nat]]
      /\ \A x \in Maps \ Counting : added[x] = Nothing
  BY DEF Typed
<1>1. ll_increment(m, w, d) \/ ll_insert(m, w, d)
  BY DEF ll_put_inc
<1>2. added' = IF m \in Counting THEN [added EXCEPT ![m][Lower[w]] = @ + d] ELSE added
  BY DEF ll_put_inc
<1>3. Grows(m, w, d)
  BY <1>0, <1>1, Incremented
<1>4. faults' \in 0 .. MaxFaults
  BY <1>0, <1>1, KeysAre DEF ll_increment, ll_insert, NoMemory
<1>5. Lower[w] \in Keys /\ d \in Nat /\ MaxCount \in Nat /\ Counting \subseteq Maps
      /\ \A k \in Keys : k \in Words /\ Lower[k] = k
  BY KeysAre, HashMapAssumption
<1>6. added' \in [Maps -> [Keys -> Nat]] /\ \A x \in Maps \ Counting : added'[x] = Nothing
  BY <1>0, <1>2, <1>5
<1>7. \A x \in Counting, k \in Keys :
          added'[x][k] = added[x][k] + (IF x = m /\ k = Lower[w] THEN d ELSE 0)
  BY <1>0, <1>2, <1>5
<1>8. \A x \in Maps, k \in Keys :
          Sum(x, k)' = Sum(x, k) + (IF x = m /\ k = Lower[w] THEN d ELSE 0)
  BY <1>3, <1>5 DEF Grows
<1>9. \A x \in Maps, k \in Keys : Sum(x, k) \in Nat /\ Sum(x, k) <= MaxCount
  BY <1>0, <1>5, SumType DEF Summed
<1>10. Sum(m, w) = Sum(m, Lower[w])
  BY <1>0, SumType
<1>11. \A x \in Maps, k \in Keys : Sum(x, k)' <= MaxCount
  BY <1>5, <1>8, <1>9, <1>10
<1>12. \A x \in Counting, k \in Keys : Sum(x, k)' = added'[x][k]
  BY <1>5, <1>7, <1>8 DEF Summed, AcknowledgedIsCounted
<1> QED
  BY <1>3, <1>4, <1>6, <1>11, <1>12

LEMMA PutIncFails ==
    ASSUME Typed, NEW m, NEW w, NEW d, ll_put_inc(m, w, d, -1)
    PROVE  UNCHANGED <<hm, added>> /\ faults' \in 0 .. MaxFaults
<1>1. -1 # 0
  OBVIOUS
<1> QED
  BY <1>1, KeysAre DEF ll_put_inc, ll_insert_fails, NoMemory, Typed

LEMMA QuietKeeps ==
    ASSUME IInv, UNCHANGED <<hm, merging, added>>, faults' \in 0 .. MaxFaults
    PROVE  IInv'
<1>1. /\ Tables' /\ \A x \in Maps : Exists(x)' <=> Exists(x)
      /\ \A x \in Maps : \A k : Sum(x, k)' = Sum(x, k)
  BY Unchanged DEF IInv, Typed
<1>2. Typed'
  BY <1>1 DEF IInv, Typed, Idle
<1>3. Counting \subseteq Maps
  BY HashMapAssumption
<1>4. Summed'
  BY <1>1, <1>3 DEF IInv, Summed, Idle, AcknowledgedIsCounted
<1> QED
  BY <1>2, <1>4 DEF IInv

LEMMA ReplacedKeeps ==
    ASSUME IInv, Idle, NEW m \in Maps, NEW t, hm' = [hm EXCEPT ![m] = t],
           t # NULL => \E n \in Sizes[m] : t \in [0 .. Buckets(n) - 1 -> {<<>>}],
           UNCHANGED <<merging, faults>>,
           added' = [added EXCEPT ![m] = Nothing]
    PROVE  IInv'
<1>1. /\ Tables'
      /\ \A x \in Maps, k \in Words : Sum(x, k)' = IF x = m THEN 0 ELSE Sum(x, k)
  BY TableReplaced DEF IInv, Typed
<1>2. Idle' /\ added \in [Maps -> [Keys -> Nat]] /\ Nothing \in [Keys -> Nat]
  BY DEF Idle, IInv, Typed, Nothing
<1>3. Typed'
  BY <1>1, <1>2 DEF IInv, Typed
<1>4. /\ Counting \subseteq Maps /\ MaxCount \in Nat
      /\ \A k \in Keys : k \in Words
  BY HashMapAssumption, KeysAre
<1>5. \A x \in Maps, k \in Keys : Sum(x, k)' = IF x = m THEN 0 ELSE Sum(x, k)
  BY <1>1, <1>4
<1>6. \A x \in Maps, k \in Keys : added'[x][k] = IF x = m THEN 0 ELSE added[x][k]
  BY <1>2 DEF Nothing
<1>7. \A x \in Maps, k \in Keys : Sum(x, k)' <= MaxCount
  BY <1>4, <1>5 DEF IInv, Summed
<1>8. \A x \in Counting, k \in Keys : Sum(x, k)' = added'[x][k]
  BY <1>4, <1>5, <1>6 DEF IInv, Summed, AcknowledgedIsCounted
<1>9. Summed'
  BY <1>2, <1>7, <1>8 DEF Summed, AcknowledgedIsCounted
<1> QED
  BY <1>3, <1>9 DEF IInv

\* A table that is created or freed or emptied.
LEMMA CreateKeeps ==
    ASSUME IInv, NEW m \in Maps, NEW n \in Sizes[m], hm_create(m, n)
    PROVE  IInv'
<1>1. CASE UNCHANGED faults
  <2>1. CASE hm' = [hm EXCEPT ![m] = [i \in 0 .. Buckets(n) - 1 |-> <<>>]]
    <3>1. added = [added EXCEPT ![m] = Nothing]
      <4>1. \A k \in Keys : Sum(m, k) = 0
        BY DEF hm_create, Sum
      <4>2. added[m] = Nothing
        BY <4>1 DEF IInv, Typed, Summed, AcknowledgedIsCounted, Nothing
      <4> QED
        BY <4>2 DEF IInv, Typed
    <3> DEFINE t == [i \in 0 .. Buckets(n) - 1 |-> <<>>]
    <3>2. t \in [0 .. Buckets(n) - 1 -> {<<>>}]
      OBVIOUS
    <3>3. hm' = [hm EXCEPT ![m] = t]
      BY <2>1
    <3> HIDE DEF t
    <3> QED
      BY <1>1, <3>1, <3>2, <3>3, ReplacedKeeps DEF hm_create
  <2>2. CASE UNCHANGED hm
    BY <1>1, <2>2, QuietKeeps DEF hm_create, IInv, Typed
  <2> QED
    BY <2>1, <2>2 DEF hm_create
<1>2. CASE NoMemory(1) /\ UNCHANGED hm
  <2>1. faults' \in 0 .. MaxFaults
    BY <1>2, KeysAre DEF NoMemory, IInv, Typed
  <2> QED
    BY <1>2, <2>1, QuietKeeps DEF hm_create
<1> QED
  BY <1>1, <1>2 DEF hm_create

LEMMA FreeKeeps ==
    ASSUME IInv, NEW m \in Maps, hm_free(m)
    PROVE  IInv'
  BY ReplacedKeeps DEF hm_free

LEMMA ClearKeeps ==
    ASSUME IInv, NEW m \in Maps, hm_clear(m)
    PROVE  IInv'
<1>1. CASE Exists(m)
  <2> DEFINE t == [i \in DOMAIN hm[m] |-> <<>>]
  <2>1. hm' = [hm EXCEPT ![m] = t]
    BY <1>1 DEF hm_clear
  <2>2. PICK n \in Sizes[m] : hm[m] \in [0 .. Buckets(n) - 1 -> Seq(Counted)]
    BY <1>1 DEF IInv, Typed, Tables
  <2>3. \E l \in Sizes[m] : t \in [0 .. Buckets(l) - 1 -> {<<>>}]
    BY <2>2
  <2> HIDE DEF t
  <2> QED
    BY <2>1, <2>3, ReplacedKeeps DEF hm_clear
<1>2. CASE ~Exists(m)
  <2>1. \A k \in Keys : Sum(m, k) = 0
    BY <1>2 DEF Sum
  <2>2. added[m] = Nothing
    BY <2>1 DEF IInv, Typed, Summed, AcknowledgedIsCounted, Nothing
  <2>3. UNCHANGED <<hm, merging, added>> /\ faults' \in 0 .. MaxFaults
    BY <1>2, <2>2 DEF hm_clear, IInv, Typed
  <2> QED
    BY <2>3, QuietKeeps
<1> QED
  BY <1>1, <1>2

\* An increment by a caller.
LEMMA PutIncKeeps ==
    ASSUME IInv, NEW m \in Maps, NEW w \in Words, NEW n \in 1 .. MaxCount, hm_put_inc(m, w, n)
    PROVE  IInv'
<1>1. Idle' /\ Idle /\ Exists(m) /\ Sum(m, w) + n <= MaxCount
  BY DEF hm_put_inc, Idle
<1>2. CASE ll_put_inc(m, w, n, 0)
  <2>1. /\ Grows(m, w, n) /\ faults' \in 0 .. MaxFaults /\ added' \in [Maps -> [Keys -> Nat]]
        /\ \A x \in Maps \ Counting : added'[x] = Nothing
        /\ \A x \in Maps, k \in Keys : Sum(x, k)' <= MaxCount
        /\ \A x \in Counting, k \in Keys : Sum(x, k)' = added'[x][k]
    BY <1>1, <1>2, PutInc DEF IInv
  <2>2. Typed'
    BY <1>1, <2>1 DEF Typed, Grows
  <2>3. Summed'
    BY <1>1, <2>1 DEF Summed, AcknowledgedIsCounted
  <2> QED
    BY <2>2, <2>3 DEF IInv
<1>3. CASE ll_put_inc(m, w, n, -1)
  <2>1. UNCHANGED <<hm, added>> /\ faults' \in 0 .. MaxFaults
    BY <1>3, PutIncFails DEF IInv
  <2> QED
    BY <2>1, QuietKeeps DEF hm_put_inc
<1> QED
  BY <1>2, <1>3 DEF hm_put_inc

\* Tables that are set or removed from.
LEMMA GrowsKeeps ==
    ASSUME IInv, Idle, NEW m \in Maps \ Counting, NEW w \in Words, NEW d \in Int, Grows(m, w, d),
           Sum(m, w) + d <= MaxCount, UNCHANGED <<merging, added>>, faults' \in 0 .. MaxFaults
    PROVE  IInv'
<1>1. Idle' /\ Counting \subseteq Maps /\ MaxCount \in Nat
      /\ \A k \in Keys : k \in Words /\ Lower[k] = k
  BY HashMapAssumption, KeysAre DEF Idle
<1>2. Typed'
  BY <1>1 DEF IInv, Typed, Grows
<1>3. \A x \in Maps, k \in Keys :
          Sum(x, k)' = Sum(x, k) + (IF x = m /\ k = Lower[w] THEN d ELSE 0)
  BY <1>1 DEF Grows
<1>4. /\ \A x \in Maps, k \in Keys : Sum(x, k) \in Nat /\ Sum(x, k) <= MaxCount
      /\ Sum(m, w) = Sum(m, Lower[w])
  BY <1>1, SumType DEF IInv, Typed, Summed
<1>5. \A x \in Maps, k \in Keys : Sum(x, k)' <= MaxCount
  BY <1>1, <1>3, <1>4
<1>6. \A x \in Counting, k \in Keys : Sum(x, k)' = added'[x][k]
  BY <1>1, <1>3, <1>4 DEF IInv, Summed, AcknowledgedIsCounted
<1>7. Summed'
  BY <1>1, <1>5, <1>6 DEF Summed, AcknowledgedIsCounted
<1> QED
  BY <1>2, <1>7 DEF IInv

LEMMA SetKeeps ==
    ASSUME IInv, NEW m \in Maps, NEW w \in Words, NEW n \in 1 .. MaxCount, hm_set(m, w, n)
    PROVE  IInv'
<1>1. /\ Idle /\ Exists(m) /\ m \in Maps \ Counting /\ Sum(m, w) + n <= MaxCount
      /\ UNCHANGED <<merging, added>> /\ Tables /\ faults \in 0 .. MaxFaults
  BY DEF hm_set, IInv, Typed
<1>2. CASE ll_update(m, w, n)
  <2> DEFINE d == n - Bucket(m, w)[Position(m, w)].count
  <2>1. Grows(m, w, d)
    BY <1>1, <1>2, FoundChanged DEF ll_update
  <2>2. d \in Int /\ Sum(m, w) + d <= MaxCount
    <3>1. Bucket(m, w)[Position(m, w)].count \in 1 .. MaxCount
      BY <1>1, <1>2, FoundInBucket DEF ll_update
    <3>2. Sum(m, w) \in Nat /\ MaxCount \in Nat
      BY <1>1, SumType, KeysAre
    <3> QED
      BY <1>1, <3>1, <3>2
  <2>3. faults' \in 0 .. MaxFaults
    BY <1>1, <1>2 DEF ll_update
  <2> HIDE DEF d
  <2> QED
    BY <1>1, <2>1, <2>2, <2>3, GrowsKeeps
<1>3. CASE ll_insert(m, w, n)
  <2>1. Grows(m, w, n)
    BY <1>1, <1>3, HeadPut DEF ll_insert
  <2>3. n \in Int
    OBVIOUS
  <2>2. faults' \in 0 .. MaxFaults
    BY <1>1, <1>3, KeysAre DEF ll_insert, NoMemory
  <2> QED
    BY <1>1, <2>1, <2>2, <2>3, GrowsKeeps
<1>4. CASE ll_insert_fails(m, w)
  <2>1. UNCHANGED hm /\ faults' \in 0 .. MaxFaults
    BY <1>1, <1>4, KeysAre DEF ll_insert_fails, NoMemory
  <2> QED
    BY <1>1, <2>1, QuietKeeps
<1> QED
  BY <1>2, <1>3, <1>4 DEF hm_set

LEMMA RemoveKeeps ==
    ASSUME IInv, NEW m \in Maps, NEW w \in Words, ll_remove(m, w)
    PROVE  IInv'
<1>1. /\ Idle /\ Exists(m) /\ m \in Maps \ Counting
      /\ UNCHANGED <<merging, added>> /\ Tables /\ faults \in 0 .. MaxFaults
  BY DEF ll_remove, IInv, Typed
<1>2. CASE /\ Position(m, w) # 0 /\ UNCHANGED faults
           /\ hm' = [hm EXCEPT ![m][bucket_index(m, w)] = unlink(@, Position(m, w))]
  <2> DEFINE d == -(Bucket(m, w)[Position(m, w)].count)
  <2>1. Grows(m, w, d)
    BY <1>1, <1>2, FoundRemoved
  <2>2. d \in Int /\ Sum(m, w) + d <= MaxCount
    <3>1. Bucket(m, w)[Position(m, w)].count \in 1 .. MaxCount
      BY <1>1, <1>2, FoundInBucket
    <3>2. Sum(m, w) \in Nat /\ Sum(m, w) <= MaxCount /\ MaxCount \in Nat
      <4>1. Sum(m, w) = Sum(m, Lower[w]) /\ Lower[w] \in Keys /\ Sum(m, w) \in Nat
        BY <1>1, SumType, KeysAre
      <4> QED
        BY <4>1, KeysAre DEF IInv, Summed
    <3> QED
      BY <3>1, <3>2
  <2>3. faults' \in 0 .. MaxFaults
    BY <1>1, <1>2
  <2> HIDE DEF d
  <2> QED
    BY <1>1, <2>1, <2>2, <2>3, GrowsKeeps
<1>3. CASE UNCHANGED hm /\ IF Position(m, w) = 0 THEN UNCHANGED faults ELSE NoMemory(1)
  <2>1. faults' \in 0 .. MaxFaults
    BY <1>1, <1>3, KeysAre DEF NoMemory
  <2> QED
    BY <1>1, <1>3, <2>1, QuietKeeps
<1> QED
  BY <1>2, <1>3 DEF ll_remove

\* A merge begins.
LEMMA MergeKeeps ==
    ASSUME IInv, NEW m \in Maps, NEW src \in Maps, hm_merge(m, src)
    PROVE  IInv'
<1> DEFINE todo == NodesToMerge(src)
           goal == [k \in Keys |-> Sum(m, k) + Sum(src, k)]
<1>1. /\ Exists(m) /\ \A k \in Keys : Sum(m, k) + Sum(src, k) <= MaxCount
      /\ merging' = [dst |-> m, todo |-> todo, goal |-> goal]
      /\ UNCHANGED <<hm, faults, added>> /\ Tables
  BY DEF hm_merge, IInv, Typed
<1>2. /\ todo \in Seq(Counted)
      /\ \A k \in Words : SumIn(todo, k) = Sum(src, k)
  BY <1>1, ForeachSums DEF NodesToMerge
<1>3. \A k \in Keys : k \in Words /\ Sum(m, k) \in Nat /\ Sum(src, k) \in Nat /\ MaxCount \in Nat
  BY <1>1, KeysAre, SumType
<1>4. goal \in [Keys -> 0 .. MaxCount] /\ \A k \in Keys : goal[k] = Sum(m, k) + Sum(src, k)
  BY <1>1, <1>3
<1> HIDE DEF todo, goal
<1>5. /\ Tables' /\ \A x \in Maps : Exists(x)' <=> Exists(x)
      /\ \A x \in Maps : \A k : Sum(x, k)' = Sum(x, k)
  BY <1>1, Unchanged
<1>6. Typed'
  BY <1>1, <1>2, <1>4, <1>5 DEF IInv, Typed
<1>7. \A x \in Maps, k \in Keys : Sum(x, k)' <= MaxCount
  BY <1>5 DEF IInv, Summed
<1>8. \A x \in Counting, k \in Keys : Sum(x, k)' = added'[x][k]
  <2>1. Counting \subseteq Maps
    BY HashMapAssumption
  <2> QED
    BY <1>1, <1>5, <2>1 DEF IInv, Summed, AcknowledgedIsCounted
<1>9. \A k \in Keys : Sum(m, k)' + SumIn(merging'.todo, k) = merging'.goal[k]
  BY <1>1, <1>2, <1>3, <1>4, <1>5
<1>10. merging'.dst = m
  BY <1>1
<1>11. Summed'
  BY <1>7, <1>8, <1>9, <1>10 DEF Summed, AcknowledgedIsCounted
<1> QED
  BY <1>6, <1>11 DEF IInv

\* A node is merged.
LEMMA MergeNodeKeeps ==
    ASSUME IInv, merge_node
    PROVE  IInv'
<1> DEFINE dst == merging.dst
           node == Head(merging.todo)
           todo == merging.todo
           rest == Tail(merging.todo)
           goal == merging.goal
<1>1. /\ ~Idle /\ todo # <<>> /\ todo \in Seq(Counted) /\ dst \in Maps /\ Exists(dst)
      /\ goal \in [Keys -> 0 .. MaxCount] /\ Tables
      /\ merging \in [dst : Maps, todo : Seq(Counted), goal : [Keys -> 0 .. MaxCount]]
  BY DEF merge_node, IInv, Typed
<1>2. CASE /\ ll_put_inc(dst, node.key, node.count, 0)
           /\ merging' = [merging EXCEPT !.todo = Tail(@)]
  <2>1. merging' = [dst |-> dst, todo |-> rest, goal |-> goal]
    BY <1>1, <1>2
  <2> DEFINE key == node.key
             d == node.count
  <2>2. /\ node \in Counted /\ rest \in Seq(Counted)
        /\ \A k : SumIn(todo, k) = Value(node, k) + SumIn(rest, k)
    BY <1>1, SumOfHead
  <2>3. key \in Keys /\ key \in Words /\ Lower[key] = key /\ d \in 1 .. MaxCount
    BY <2>2, KeysAre
  <2>4. \A k \in Keys : Sum(dst, k) + SumIn(todo, k) = goal[k]
    BY <1>1 DEF IInv, Summed
  <2>5. \A k \in Keys : /\ k \in Words /\ Lower[k] = k
                        /\ Sum(dst, k) \in Nat /\ SumIn(rest, k) \in Nat
                        /\ goal[k] \in 0 .. MaxCount
    BY <1>1, <2>2, KeysAre, SumType, SumBounds
  <2>6. \A k \in Keys : Value(node, k) = IF key = k THEN d ELSE 0
    BY <2>5 DEF Value
  <2>7. ll_put_inc(dst, key, d, 0)
    BY <1>2
  <2> HIDE DEF dst, key, d, rest, todo, goal, node
  <2>8. Sum(dst, key) + d <= MaxCount
    BY <2>2, <2>3, <2>4, <2>5, <2>6, KeysAre
  <2>9. /\ Grows(dst, key, d) /\ faults' \in 0 .. MaxFaults /\ added' \in [Maps -> [Keys -> Nat]]
        /\ \A x \in Maps \ Counting : added'[x] = Nothing
        /\ \A x \in Maps, k \in Keys : Sum(x, k)' <= MaxCount
        /\ \A x \in Counting, k \in Keys : Sum(x, k)' = added'[x][k]
    BY <1>1, <2>3, <2>7, <2>8, PutInc DEF IInv
  <2>10. Typed'
    BY <1>1, <2>1, <2>2, <2>9 DEF Typed, Grows
  <2>11. \A x \in Maps, k \in Keys : x = dst => Sum(x, k)' + SumIn(rest, k) = goal[k]
    <3>1. \A x \in Maps, k \in Keys :
              x = dst => Sum(x, k)' = Sum(x, k) + (IF key = k THEN d ELSE 0)
      BY <2>3, <2>5, <2>9 DEF Grows
    <3> QED
      BY <2>2, <2>3, <2>4, <2>5, <2>6, <3>1
  <2>12. merging'.dst = dst /\ merging'.todo = rest /\ merging'.goal = goal
    BY <2>1
  <2>13. Summed'
    BY <2>9, <2>11, <2>12 DEF Summed, AcknowledgedIsCounted
  <2> QED
    BY <2>10, <2>13 DEF IInv
<1>3. CASE /\ ll_put_inc(dst, node.key, node.count, -1)
           /\ merging' = NULL
  <2>1. UNCHANGED <<hm, added>> /\ faults' \in 0 .. MaxFaults
    BY <1>3, PutIncFails DEF IInv
  <2>2. /\ Tables' /\ \A x \in Maps : \A k : Sum(x, k)' = Sum(x, k)
    BY <1>1, <2>1, Unchanged
  <2>3. Idle' /\ Counting \subseteq Maps
    BY <1>3, HashMapAssumption DEF Idle
  <2>4. Typed'
    BY <2>1, <2>2, <2>3 DEF IInv, Typed
  <2>5. Summed'
    BY <2>1, <2>2, <2>3 DEF IInv, Summed, AcknowledgedIsCounted
  <2> QED
    BY <2>4, <2>5 DEF IInv
<1> QED
  BY <1>2, <1>3 DEF merge_node

LEMMA MergeDoneKeeps ==
    ASSUME IInv, merge_done
    PROVE  IInv'
<1>1. Idle' /\ Counting \subseteq Maps /\ UNCHANGED <<hm, faults, added>>
  BY HashMapAssumption DEF merge_done, Idle
<1>2. /\ Tables' /\ \A x \in Maps : \A k : Sum(x, k)' = Sum(x, k)
  BY <1>1, Unchanged DEF IInv, Typed
<1>3. Typed'
  BY <1>1, <1>2 DEF IInv, Typed
<1>4. Summed'
  BY <1>1, <1>2 DEF IInv, Summed, AcknowledgedIsCounted
<1> QED
  BY <1>3, <1>4 DEF IInv

LEMMA NextIInv == IInv /\ [Next]_vars => IInv'
<1> SUFFICES ASSUME IInv, [Next]_vars PROVE IInv'
  OBVIOUS
<1>1. ASSUME NEW m \in Maps, NEW n \in Sizes[m], hm_create(m, n) PROVE IInv'
  BY <1>1, CreateKeeps
<1>2. ASSUME NEW m \in Maps, hm_free(m) PROVE IInv'
  BY <1>2, FreeKeeps
<1>3. ASSUME NEW m \in Maps, hm_clear(m) PROVE IInv'
  BY <1>3, ClearKeeps
<1>4. faults \in 0 .. MaxFaults
  BY DEF IInv, Typed
<1>5. ASSUME NEW m \in Maps, hm_entry_count(m) \/ call_without_table(m) PROVE IInv'
  <2>1. UNCHANGED <<hm, merging, added>> /\ faults' = faults
    BY <1>5 DEF hm_entry_count, call_without_table
  <2> QED
    BY <1>4, <2>1, QuietKeeps
<1>6. ASSUME NEW m \in Maps, NEW w \in Words, hm_get(m, w) PROVE IInv'
  <2>1. UNCHANGED <<hm, merging, added>> /\ faults' \in 0 .. MaxFaults
    BY <1>4, <1>6, KeysAre DEF hm_get, NoMemory
  <2> QED
    BY <2>1, QuietKeeps
<1>7. ASSUME NEW m \in Maps, NEW w \in Words, ll_remove(m, w) PROVE IInv'
  BY <1>7, RemoveKeeps
<1>8. ASSUME NEW m \in Maps, NEW w \in Words, NEW n \in 1 .. MaxCount,
             hm_put_inc(m, w, n) PROVE IInv'
  BY <1>8, PutIncKeeps
<1>9. ASSUME NEW m \in Maps, NEW w \in Words, NEW n \in 1 .. MaxCount,
             hm_set(m, w, n) PROVE IInv'
  BY <1>9, SetKeeps
<1>10. ASSUME NEW m \in Maps, NEW src \in Maps, hm_merge(m, src) PROVE IInv'
  BY <1>10, MergeKeeps
<1>11. ASSUME merge_node PROVE IInv'
  BY <1>11, MergeNodeKeeps
<1>12. ASSUME merge_done PROVE IInv'
  BY <1>12, MergeDoneKeeps
<1>13. ASSUME UNCHANGED vars PROVE IInv'
  BY <1>4, <1>13, QuietKeeps DEF vars
<1> QED
  BY <1>1, <1>2, <1>3, <1>5, <1>6, <1>7, <1>8, <1>9, <1>10, <1>11, <1>12, <1>13 DEF Next

LEMMA Inductive == Spec => []IInv
  BY InitIInv, NextIInv, PTL DEF Spec

----------------------------------------------------------------------------
(* The invariants.                                                          *)

\* Whatever calls follow one another and whichever allocations fail, every node
\* is in the bucket where its key is looked for, its key is in lower case, and
\* its count is at least 1 (hashmap.c, linked_list.c).
THEOREM TypeCorrect == Spec => []TypeOK
<1>1. IInv => TypeOK
  <2> SUFFICES ASSUME IInv PROVE TypeOK
    OBVIOUS
  <2>1. ASSUME NEW m \in Maps, Exists(m)
        PROVE  /\ DOMAIN hm[m] = 0 .. n_buckets(m) - 1 /\ n_buckets(m) > 0
               /\ \A i \in DOMAIN hm[m] : \A j \in DOMAIN hm[m][i] :
                     /\ hm[m][i][j].key \in Keys /\ hm[m][i][j].count \in 1 .. MaxCount
                     /\ bucket_index(m, hm[m][i][j].key) = i
    <3>1. /\ n_buckets(m) \in Nat \ {0} /\ DOMAIN hm[m] = 0 .. n_buckets(m) - 1
          /\ hm[m] \in [0 .. n_buckets(m) - 1 -> Seq(Counted)]
      BY <2>1, TableIs DEF IInv, Typed
    <3>2. ASSUME NEW i \in DOMAIN hm[m], NEW j \in DOMAIN hm[m][i]
          PROVE  /\ hm[m][i][j].key \in Keys /\ hm[m][i][j].count \in 1 .. MaxCount
                 /\ bucket_index(m, hm[m][i][j].key) = i
      <4>1. hm[m][i] \in Seq(Counted)
        BY <3>1, <3>2
      <4>2. j \in 1 .. Len(hm[m][i]) /\ hm[m][i][j] \in Counted
        BY <3>2, <4>1
      <4>3. bucket_index(m, hm[m][i][j].key) = i
        BY <2>1, <3>2, <4>2 DEF IInv, Typed, Tables
      <4> QED
        BY <4>2, <4>3, KeysAre
    <3> QED
      BY <3>1, <3>2
  <2>2. merging # NULL => Exists(merging.dst)
    BY DEF IInv, Typed, Idle
  <2>3. added \in [Maps -> [Keys -> 0 .. MaxCount]]
    <3>1. added \in [Maps -> [Keys -> Nat]]
      BY DEF IInv, Typed
    <3>2. ASSUME NEW m \in Maps, NEW k \in Keys PROVE added[m][k] \in 0 .. MaxCount
      <4>1. CASE m \in Counting
        BY <3>1, <4>1, KeysAre DEF IInv, Summed, AcknowledgedIsCounted
      <4>2. CASE m \notin Counting
        BY <4>2, KeysAre DEF IInv, Typed, Nothing
      <4> QED
        BY <4>1, <4>2
    <3> QED
      BY <3>1, <3>2
  <2> QED
    BY <2>1, <2>2, <2>3 DEF IInv, Typed, TypeOK
<1> QED
  BY <1>1, Inductive, PTL

\* In a table that is only counted in, every increment that was acknowledged is
\* counted once, for any hash, any number of buckets and any allocation that
\* fails, also when a key has become two nodes (hm_put_inc(), ll_put_inc()).
THEOREM AcknowledgedCounted == Spec => []AcknowledgedIsCounted
<1>1. IInv => AcknowledgedIsCounted
  BY DEF IInv, Summed
<1> QED
  BY <1>1, Inductive, PTL

\* At every point of hm_merge() the destination and the nodes still to be merged
\* add up to what the two tables held.
THEOREM MergesConserve == Spec => []MergeConserves
<1>1. IInv => MergeConserves
  BY DEF IInv, Typed, Summed, MergeConserves
<1> QED
  BY <1>1, Inductive, PTL

----------------------------------------------------------------------------
(* The tables are tables of counts.                                         *)

\* What a table holds of a word, from what its nodes add up to.
Count(s) == IF s = 0 THEN NULL ELSE s
SumsHeld == Contents = [m \in Maps |-> [k \in Keys |-> Count(Sum(m, k))]]

LEMMA ContentsAre ==
    Tables => /\ SumsHeld
              /\ \A m \in Maps : T!Held(m) = {k \in Keys : Sum(m, k) # 0}
              /\ \A m \in Maps : m \notin Open => T!Held(m) = {}
<1> SUFFICES ASSUME Tables
             PROVE  /\ SumsHeld
                    /\ \A m \in Maps : T!Held(m) = {k \in Keys : Sum(m, k) # 0}
                    /\ \A m \in Maps : m \notin Open => T!Held(m) = {}
  OBVIOUS
<1>1. ASSUME NEW m \in Maps, NEW k \in Keys
      PROVE  /\ Contents[m][k] = Count(Sum(m, k))
             /\ k \in T!Held(m) <=> Sum(m, k) # 0
             /\ ~Exists(m) => Sum(m, k) = 0
  <2>1. Contents[m][k] = IF Exists(m) /\ Position(m, k) # 0 THEN Sum(m, k) ELSE NULL
    BY DEF Contents
  <2>2. k \in Words /\ Sum(m, k) \in Nat /\ NULL \notin Nat
    BY KeysAre, SumType
  <2>3. CASE ~Exists(m)
    BY <2>1, <2>3 DEF Sum, Count, T!Held
  <2>4. CASE Exists(m) /\ Position(m, k) = 0
    <3>1. Sum(m, k) = 0
      BY <2>2, <2>4, FoundInBucket
    <3> QED
      BY <2>1, <2>4, <3>1 DEF Count, T!Held
  <2>5. CASE Exists(m) /\ Position(m, k) # 0
    <3>1. /\ Bucket(m, k)[Position(m, k)].count \in 1 .. MaxCount
          /\ Bucket(m, k)[Position(m, k)].count <= Sum(m, k)
      BY <2>2, <2>5, FoundInBucket
    <3>2. Sum(m, k) # 0
      BY <2>2, <3>1
    <3> QED
      BY <2>1, <2>2, <2>5, <3>2 DEF Count, T!Held
  <2> QED
    BY <2>3, <2>4, <2>5
<1>2. SumsHeld
  BY <1>1 DEF Contents, SumsHeld
<1>3. \A m \in Maps : T!Held(m) = {k \in Keys : Sum(m, k) # 0}
  BY <1>1 DEF T!Held
<1>4. \A m \in Maps : m \notin Open => T!Held(m) = {}
  BY <1>1, <1>3 DEF Open
<1> QED
  BY <1>2, <1>3, <1>4

\* The contents change where the sums do.
LEMMA ContentsGrow ==
    ASSUME Tables, NEW m \in Maps, NEW w \in Words, NEW d, Grows(m, w, d)
    PROVE  /\ Open' = Open
           /\ Contents' = [Contents EXCEPT ![m][Lower[w]] = Count(Sum(m, w) + d)]
<1>1. /\ Contents = [x \in Maps |-> [k \in Keys |-> Count(Sum(x, k))]]
      /\ Contents' = [x \in Maps |-> [k \in Keys |-> Count(Sum(x, k)')]]
  <2>1. (Tables => SumsHeld) /\ (Tables' => SumsHeld')
    BY ContentsAre, PTL
  <2> QED
    BY <2>1 DEF Grows, SumsHeld, Count
<1>2. Open' = Open
  BY DEF Grows, Open
<1>3. Lower[w] \in Keys /\ Sum(m, w) = Sum(m, Lower[w])
  BY KeysAre, SumType
<1>4. ASSUME NEW x \in Maps, NEW k \in Keys
      PROVE  Sum(x, k)' = IF x = m /\ k = Lower[w] THEN Sum(m, w) + d ELSE Sum(x, k)
  <2>1. k \in Words /\ Lower[k] = k /\ Sum(x, k) \in Nat
    BY KeysAre, SumType
  <2>2. Sum(x, k)' = Sum(x, k) + (IF x = m /\ k = Lower[w] THEN d ELSE 0)
    BY <2>1 DEF Grows
  <2> QED
    BY <1>3, <2>1, <2>2
<1>5. \A x \in Maps, k \in Keys :
          Contents'[x][k] = IF x = m /\ k = Lower[w] THEN Count(Sum(m, w) + d)
                            ELSE Contents[x][k]
  BY <1>1, <1>4
<1>6. Contents' = [Contents EXCEPT ![m][Lower[w]] = Count(Sum(m, w) + d)]
  <2> DEFINE e == [Contents EXCEPT ![m][Lower[w]] = Count(Sum(m, w) + d)]
  <2>1. /\ Contents = [x \in Maps |-> [k \in Keys |-> Contents[x][k]]]
        /\ Contents' = [x \in Maps |-> [k \in Keys |-> Contents'[x][k]]]
    BY <1>1
  <2>2. e = [x \in Maps |-> [k \in Keys |-> e[x][k]]]
        /\ \A x \in Maps, k \in Keys :
              e[x][k] = IF x = m /\ k = Lower[w] THEN Count(Sum(m, w) + d) ELSE Contents[x][k]
    BY <1>3, <2>1
  <2> HIDE DEF e
  <2>3. \A x \in Maps, k \in Keys : Contents'[x][k] = e[x][k]
    BY <1>5, <2>2
  <2>4. Contents' = e
    BY <2>1, <2>2, <2>3
  <2> QED
    BY <2>4 DEF e
<1> QED
  BY <1>2, <1>6

LEMMA ContentsReplaced ==
    ASSUME Tables, NEW m \in Maps, NEW t, hm' = [hm EXCEPT ![m] = t],
           t # NULL => \E n \in Sizes[m] : t \in [0 .. Buckets(n) - 1 -> {<<>>}]
    PROVE  /\ t # NULL => Open' = Open \cup {m}
           /\ t = NULL => Open' = Open \ {m}
           /\ Contents' = [Contents EXCEPT ![m] = [k \in Keys |-> NULL]]
<1>1. /\ Tables'
      /\ \A x \in Maps : Exists(x)' <=> IF x = m THEN t # NULL ELSE Exists(x)
      /\ \A x \in Maps, k \in Words : Sum(x, k)' = IF x = m THEN 0 ELSE Sum(x, k)
  BY TableReplaced
<1>2. /\ Contents = [x \in Maps |-> [k \in Keys |-> Count(Sum(x, k))]]
      /\ Contents' = [x \in Maps |-> [k \in Keys |-> Count(Sum(x, k)')]]
  <2>1. (Tables => SumsHeld) /\ (Tables' => SumsHeld')
    BY ContentsAre, PTL
  <2> QED
    BY <1>1, <2>1 DEF SumsHeld, Count
<1>3. (t # NULL => Open' = Open \cup {m}) /\ (t = NULL => Open' = Open \ {m})
  BY <1>1 DEF Open
<1>4. \A x \in Maps, k \in Keys : Sum(x, k)' = IF x = m THEN 0 ELSE Sum(x, k)
  BY <1>1, KeysAre
<1>5. \A x \in Maps : Contents'[x] = IF x = m THEN [k \in Keys |-> NULL] ELSE Contents[x]
  BY <1>2, <1>4 DEF Count
<1>6. Contents' = [Contents EXCEPT ![m] = [k \in Keys |-> NULL]]
  BY <1>2, <1>5
<1> QED
  BY <1>3, <1>6

LEMMA ContentsStay ==
    ASSUME UNCHANGED hm
    PROVE  UNCHANGED <<Open, Contents>>
  BY DEF Open, Contents, Exists, Position, Sum, Bucket, bucket_index, n_buckets

\* Without duplicates a node counts all that is counted of its word.
LEMMA OnlyNode ==
    ASSUME Tables, NoDuplicates, NEW m \in Maps, Exists(m), NEW w \in Words, Position(m, w) # 0
    PROVE  Bucket(m, w)[Position(m, w)].count = Sum(m, w)
<1> DEFINE list == Bucket(m, w)
           p == Position(m, w)
           n == Len(list)
           v == Values(list, w)
<1>1. list \in Seq(Counted) /\ n \in Nat /\ p \in 1 .. n /\ list[p].key = Lower[w]
  BY FoundInBucket
<1>2. \A i, j \in 1 .. n : list[i].key = list[j].key => i = j
  <2>1. bucket_index(m, w) \in DOMAIN hm[m]
    BY TableIs
  <2>2. DOMAIN list = 1 .. n
    BY <1>1
  <2> QED
    BY <2>1, <2>2 DEF NoDuplicates, Bucket
<1>3. Sum(m, w) = SumIn(list, w)
  BY DEF Sum
<1> HIDE DEF list, p
<1>4. /\ Numbers(v, n) /\ \A i \in 1 .. n : v[i] = Value(list[i], w)
      /\ SumIn(list, w) = Total(v, n)
  BY <1>1, ValuesType, SumIsTotal
<1>5. \A i \in 1 .. n : i # p => v[i] = 0
  BY <1>1, <1>2, <1>4 DEF Value
<1>6. v[p] = list[p].count
  BY <1>1, <1>4 DEF Value
<1> HIDE DEF v, n
<1>7. Total(v, n) = v[p]
  BY <1>1, <1>4, <1>5, TotalOne
<1> QED
  BY <1>3, <1>4, <1>6, <1>7 DEF list, p

\* A second node of a word is a duplicate.
LEMMA SecondNode ==
    ASSUME Tables, NEW m \in Maps, Exists(m), NEW w \in Words, NEW n \in 1 .. MaxCount,
           Position(m, w) # 0, ll_insert(m, w, n)
    PROVE  ~NoDuplicates'
<1> DEFINE list == Bucket(m, w)
           p == Position(m, w)
           b == bucket_index(m, w)
           k == Lower[w]
           new == <<Node(k, n)>> \o list
<1>1. list \in Seq(Counted) /\ p \in 1 .. Len(list) /\ list[p].key = k /\ k \in Keys
  BY FoundInBucket, KeysAre
<1>2. hm' = [hm EXCEPT ![m][b] = new]
  BY DEF ll_insert, Bucket
<1>3. b \in DOMAIN hm[m] /\ DOMAIN hm = Maps
  BY TableIs DEF Tables
<1>4. Exists(m)'
  <2>1. Grows(m, w, n)
    BY HeadPut DEF ll_insert
  <2> QED
    BY <2>1 DEF Grows
<1>5. hm'[m][b] = new /\ b \in DOMAIN hm'[m]
  <2> HIDE DEF b, new
  <2> QED
    BY <1>2, <1>3
<1> HIDE DEF list, p, b, k
<1>6. /\ new \in Seq(Counted) /\ Len(new) = Len(list) + 1 /\ new[1] = Node(k, n)
      /\ \A i \in 1 .. Len(list) : new[i + 1] = list[i]
  BY <1>1, NodeInserted
<1> HIDE DEF new
<1>7. /\ 1 \in DOMAIN new /\ p + 1 \in DOMAIN new /\ p + 1 # 1
      /\ new[1].key = new[p + 1].key
  BY <1>1, <1>6 DEF Node
<1>8. ASSUME NoDuplicates' PROVE FALSE
  <2>1. \A i, j \in DOMAIN hm'[m][b] : hm'[m][b][i].key = hm'[m][b][j].key => i = j
    BY <1>4, <1>5, <1>8 DEF NoDuplicates
  <2> QED
    BY <1>5, <1>7, <2>1
<1> QED
  BY <1>8

\* Without duplicates no two of the nodes that hm_foreach() visits are of a word.
LEMMA ForeachDistinct ==
    ASSUME Tables, NoDuplicates, NEW m \in Maps, Exists(m)
    PROVE  LET nodes == hm_foreach(m) IN
           \A i, j \in 1 .. Len(nodes) : nodes[i].key = nodes[j].key => i = j
<1> DEFINE n == n_buckets(m)
           lists == [i \in 1 .. n |-> hm[m][i - 1]]
           h(c) == bucket_index(m, c.key)
<1>1. n \in Nat \ {0} /\ hm[m] \in [0 .. n - 1 -> Seq(Counted)] /\ DOMAIN hm[m] = 0 .. n - 1
  BY TableIs
<1>2. /\ lists \in Seq(Seq(Counted)) /\ Len(lists) = n
      /\ \A i \in 1 .. n : lists[i] = hm[m][i - 1]
  <2> HIDE DEF n
  <2>1. \A i \in 1 .. n : hm[m][i - 1] \in Seq(Counted)
    BY <1>1
  <2> QED
    BY <1>1, <2>1
<1>3. \A i \in 1 .. n : \A j \in 1 .. Len(lists[i]) : h(lists[i][j]) = i - 1
  <2>1. \A b \in 0 .. n - 1 : \A j \in 1 .. Len(hm[m][b]) : h(hm[m][b][j]) = b
    BY <1>1 DEF Tables
  <2> HIDE DEF n, h
  <2>2. \A i \in 1 .. n : i - 1 \in 0 .. n - 1
    BY <1>1
  <2> QED
    BY <1>2, <2>1, <2>2
<1>4. \A i \in 1 .. n : \A j, l \in 1 .. Len(lists[i]) : lists[i][j].key = lists[i][l].key => j = l
  <2>1. \A b \in 0 .. n - 1 : \A j, l \in 1 .. Len(hm[m][b]) :
            hm[m][b][j].key = hm[m][b][l].key => j = l
    BY <1>1 DEF NoDuplicates
  <2> HIDE DEF n
  <2>2. \A i \in 1 .. n : i - 1 \in 0 .. n - 1
    BY <1>1
  <2> QED
    BY <1>2, <2>1, <2>2
<1>5. hm_foreach(m) = FlattenSeq(lists)
  BY DEF hm_foreach
<1>6. \A c, d \in Counted : c.key = d.key => h(c) = h(d)
  OBVIOUS
<1> HIDE DEF lists, h, n
<1>7. PICK f : Joins(f, lists, Counted)
  BY <1>2, JoinsExist
<1>8. /\ f[0] = <<>> /\ \A i \in 0 .. n : f[i] \in Seq(Counted)
      /\ \A i \in 1 .. n : f[i] = f[i - 1] \o lists[i] /\ lists[i] \in Seq(Counted)
  <2>1. \A i \in 1 .. n : lists[i] \in Seq(Counted)
    BY <1>2
  <2>2. /\ f \in [0 .. n -> Seq(Counted)] /\ f[0] = <<>>
        /\ \A i \in 1 .. n : f[i] = f[i - 1] \o lists[i]
    BY <1>2, <1>7 DEF Joins
  <2> QED
    BY <2>1, <2>2
<1>9. hm_foreach(m) = f[n]
  <2>1. SubSeq(lists, 1, n) = lists
    BY <1>2, SubSeqFull
  <2>2. n \in 0 .. Len(lists)
    BY <1>1, <1>2
  <2>3. FlattenSeq(SubSeq(lists, 1, n)) = f[n]
    BY <1>2, <1>7, <2>2, FlattenJoins
  <2> QED
    BY <1>5, <2>1, <2>3
<1> DEFINE Distinct(s, i) == /\ \A j \in 1 .. Len(s) : h(s[j]) < i /\ h(s[j]) \in Int
                             /\ \A j, l \in 1 .. Len(s) : s[j].key = s[l].key => j = l
           S == {i \in Nat : i <= n => Distinct(f[i], i)}
<1>10. 0 \in S
  <2>1. Len(f[0]) = 0
    BY <1>8
  <2> QED
    BY <2>1
<1>11. ASSUME NEW i \in Nat, i \in S PROVE i + 1 \in S
  <2> SUFFICES ASSUME i + 1 <= n PROVE Distinct(f[i + 1], i + 1)
    OBVIOUS
  <2> DEFINE x == f[i]
             y == lists[i + 1]
             z == x \o y
  <2>1. Distinct(x, i)
    BY <1>1, <1>11
  <2>2. i + 1 \in 1 .. n /\ i \in 0 .. n /\ (i + 1) - 1 = i
    BY <1>1
  <2>3. x \in Seq(Counted) /\ y \in Seq(Counted) /\ f[i + 1] = z
    BY <1>8, <2>2
  <2>4. /\ \A j \in 1 .. Len(y) : h(y[j]) = i
        /\ \A j, l \in 1 .. Len(y) : y[j].key = y[l].key => j = l
    BY <1>3, <1>4, <2>2
  <2> HIDE DEF x, y
  <2>5. /\ z \in Seq(Counted) /\ Len(z) = Len(x) + Len(y)
        /\ \A j \in 1 .. Len(x) + Len(y) : z[j] = IF j <= Len(x) THEN x[j] ELSE y[j - Len(x)]
    BY <2>3, ConcatProperties
  <2> HIDE DEF z
  <2>6. Len(x) \in Nat /\ Len(y) \in Nat
    BY <2>3
  <2>7. ASSUME NEW j \in 1 .. Len(z)
        PROVE  \/ /\ j \in 1 .. Len(x) /\ z[j] = x[j] /\ h(z[j]) < i /\ h(z[j]) \in Int
               \/ /\ j \notin 1 .. Len(x) /\ j - Len(x) \in 1 .. Len(y) /\ z[j] = y[j - Len(x)]
                  /\ h(z[j]) = i
    <3>1. CASE j <= Len(x)
      <4>1. j \in 1 .. Len(x) /\ z[j] = x[j]
        BY <2>5, <2>6, <3>1
      <4> QED
        BY <2>1, <4>1
    <3>2. CASE ~(j <= Len(x))
      <4>1. j \notin 1 .. Len(x) /\ j - Len(x) \in 1 .. Len(y) /\ z[j] = y[j - Len(x)]
        BY <2>5, <2>6, <3>2
      <4> QED
        BY <2>4, <4>1
    <3> QED
      BY <3>1, <3>2
  <2>8. \A j \in 1 .. Len(z) : h(z[j]) < i + 1 /\ h(z[j]) \in Int
    <3> SUFFICES ASSUME NEW j \in 1 .. Len(z) PROVE h(z[j]) < i + 1 /\ h(z[j]) \in Int
      OBVIOUS
    <3> DEFINE e == h(z[j])
    <3>1. (e < i /\ e \in Int) \/ e = i
      BY <2>7
    <3> HIDE DEF e
    <3>2. e < i + 1 /\ e \in Int
      BY <3>1
    <3> QED
      BY <3>2 DEF e
  <2>9. ASSUME NEW j \in 1 .. Len(z), NEW l \in 1 .. Len(z), z[j].key = z[l].key PROVE j = l
    <3>1. h(z[j]) = h(z[l]) /\ z[j] \in Counted /\ z[l] \in Counted
      BY <1>6, <2>5, <2>9
    <3>2. CASE j \in 1 .. Len(x) /\ l \in 1 .. Len(x)
      BY <2>1, <2>7, <2>9, <3>2
    <3>3. CASE j \notin 1 .. Len(x) /\ l \notin 1 .. Len(x)
      <4>1. j - Len(x) = l - Len(x)
        BY <2>4, <2>7, <2>9, <3>3
      <4> QED
        BY <2>5, <2>6, <4>1
    <3>4. CASE j \in 1 .. Len(x) /\ l \notin 1 .. Len(x)
      BY <2>7, <3>1, <3>4
    <3>5. CASE j \notin 1 .. Len(x) /\ l \in 1 .. Len(x)
      BY <2>7, <3>1, <3>5
    <3> QED
      BY <3>2, <3>3, <3>4, <3>5
  <2> QED
    BY <2>3, <2>8, <2>9
<1> HIDE DEF S
<1>12. n \in S
  BY <1>1, <1>10, <1>11, NatInductive
<1> QED
  BY <1>1, <1>9, <1>12 DEF S

LEMMA SameCardinality ==
    ASSUME NEW S PROVE T!Cardinality(S) = Cardinality(S)
  BY DEF T!Cardinality, Cardinality

\* Then they are as many as the keys that the table holds.
LEMMA EntriesCounted ==
    ASSUME Tables, NoDuplicates, NEW m \in Maps
    PROVE  Len(hm_foreach(m)) = T!Cardinality(T!Held(m))
<1> DEFINE nodes == hm_foreach(m)
           I == 1 .. Len(nodes)
           key == [i \in I |-> nodes[i].key]
           held == T!Held(m)
<1>1. /\ nodes \in Seq(Counted) /\ Len(nodes) \in Nat
      /\ \A w \in Words : SumIn(nodes, w) = Sum(m, w)
  BY ForeachSums
<1>2. held = {k \in Keys : Sum(m, k) # 0}
  BY ContentsAre
<1>3. \A i, j \in I : nodes[i].key = nodes[j].key => i = j
  <2>1. CASE Exists(m)
    BY <2>1, ForeachDistinct
  <2>2. CASE ~Exists(m)
    <3>1. nodes = <<>>
      BY <2>2 DEF hm_foreach
    <3> QED
      BY <3>1
  <2> QED
    BY <2>1, <2>2
<1> HIDE DEF nodes, held
<1>4. ASSUME NEW i \in I PROVE nodes[i].key \in held
  <2> DEFINE k == nodes[i].key
  <2>1. nodes[i] \in Counted /\ k \in Keys /\ nodes[i].count \in 1 .. MaxCount
    BY <1>1, KeysAre
  <2>2. k \in Words /\ Lower[k] = k
    BY <2>1, KeysAre
  <2>3. SumIn(nodes, k) \in Nat /\ nodes[i].count <= SumIn(nodes, k)
    BY <1>1, <2>2, SumBounds
  <2>4. Sum(m, k) # 0
    BY <1>1, <2>1, <2>2, <2>3
  <2> QED
    BY <1>2, <2>1, <2>4
<1>5. ASSUME NEW k \in held PROVE \E i \in I : key[i] = k
  <2>1. k \in Words /\ Lower[k] = k /\ Sum(m, k) # 0
    BY <1>2, KeysAre
  <2>2. ~ \A i \in 1 .. Len(nodes) : nodes[i].key # Lower[k]
    BY <1>1, <2>1, SumBounds
  <2> QED
    BY <2>1, <2>2
<1>6. key \in Bijection(I, held)
  <2>1. key \in [I -> held]
    BY <1>4
  <2>2. \A i, j \in I : key[i] = key[j] => i = j
    BY <1>3
  <2> HIDE DEF key, I
  <2> QED
    BY <1>5, <2>1, <2>2 DEF Bijection, Injection, IsInjective, Surjection
<1>7. IsFiniteSet(I) /\ Cardinality(I) = Len(nodes)
  <2> DEFINE l == Len(nodes)
  <2>1. l \in Nat /\ 1 \in Int /\ l \in Int
    BY <1>1
  <2> HIDE DEF l
  <2>2. IsFiniteSet(1 .. l) /\ Cardinality(1 .. l) = IF 1 > l THEN 0 ELSE l - 1 + 1
    BY <2>1, FS_Interval
  <2>3. Cardinality(1 .. l) = l
    BY <2>1, <2>2
  <2> QED
    BY <2>2, <2>3 DEF l
<1> HIDE DEF I, key
<1>8. Cardinality(held) = Cardinality(I)
  BY <1>6, <1>7, FS_Bijection DEF ExistsBijection
<1> QED
  BY <1>7, <1>8, SameCardinality DEF held, nodes

\* Every call is a call of a table of counts, or has no memory and no effect.
TallyStep == T!Next \/ UNCHANGED T!vars \/ (faults' > faults /\ T!Fail)

\* What a call may return when it finds no memory.
Refusals(m, k) ==
    {Returned(op, m, k, -1) : op \in {"put_inc", "set", "merge"}}
        \cup {Returned(op, m, k, 0) : op \in {"create", "remove"}}
        \cup {Returned("get", m, k, NULL)}

LEMMA FailsWithoutEffect ==
    ASSUME NEW m \in Maps, NEW k \in Keys \cup {NULL}, result' \in Refusals(m, k),
           UNCHANGED hm, faults \in Nat, faults' \in {faults + 1, faults + 2}
    PROVE  TallyStep
<1>1. UNCHANGED <<Open, Contents>>
  BY ContentsStay
<1>2. T!Fail
  <2>1. \/ \E op \in {"put_inc", "set", "merge"} : result' = T!Returned(op, m, k, -1)
        \/ \E op \in {"create", "remove"} : result' = T!Returned(op, m, k, 0)
        \/ result' = T!Returned("get", m, k, NULL)
    BY DEF Refusals, Returned, T!Returned
  <2> QED
    BY <1>1, <2>1 DEF T!Fail
<1>3. faults' > faults
  OBVIOUS
<1> QED
  BY <1>2, <1>3 DEF TallyStep

\* An increment that is acknowledged adds, also when it makes a second node.
LEMMA AddStep ==
    ASSUME IInv, NEW m \in Maps, Exists(m), NEW w \in Words, NEW d \in 1 .. MaxCount,
           Sum(m, w) + d <= MaxCount, ll_put_inc(m, w, d, 0),
           result' = Returned("put_inc", m, Lower[w], 0)
    PROVE  TallyStep
<1> DEFINE k == Lower[w]
<1>1. k \in Keys /\ Tables /\ NULL \notin Nat /\ d \in Nat /\ d > 0
  BY KeysAre DEF IInv, Typed
<1>2. Grows(m, w, d)
  BY PutInc DEF IInv
<1>3. /\ Open' = Open
      /\ Contents' = [Contents EXCEPT ![m][k] = Count(Sum(m, w) + d)]
  BY <1>1, <1>2, ContentsGrow
<1>4. Sum(m, w) \in Nat /\ Sum(m, w) = Sum(m, k)
  BY <1>1, SumType
<1>5. /\ Contents[m][k] = Count(Sum(m, k))
      /\ k \in T!Held(m) <=> Sum(m, k) # 0
  BY <1>1, ContentsAre DEF SumsHeld
<1> HIDE DEF k
<1>6. Count(Sum(m, w) + d) = IF k \in T!Held(m) THEN Contents[m][k] + d ELSE d
  BY <1>1, <1>4, <1>5 DEF Count
<1>7. Contents' = [Contents EXCEPT ![m][k] = IF k \in T!Held(m) THEN @ + d ELSE d]
  BY <1>3, <1>6
<1>8. m \in Open /\ result' = T!Returned("put_inc", m, k, 0)
  BY DEF Open, Returned, T!Returned, k
<1>9. T!Add(m, k, d)
  BY <1>3, <1>7, <1>8 DEF T!Add
<1> QED
  BY <1>1, <1>9 DEF TallyStep, T!Next

LEMMA CreateStep ==
    ASSUME IInv, NEW m \in Maps, NEW n \in Sizes[m], hm_create(m, n)
    PROVE  TallyStep
<1>1. ~Exists(m) /\ m \notin Open /\ Tables /\ faults \in Nat
  BY KeysAre DEF hm_create, Open, IInv, Typed
<1>2. CASE /\ hm' = [hm EXCEPT ![m] = [i \in 0 .. Buckets(n) - 1 |-> <<>>]]
           /\ result' = Returned("create", m, NULL, 1)
  <2> DEFINE t == [i \in 0 .. Buckets(n) - 1 |-> <<>>]
  <2>1. t \in [0 .. Buckets(n) - 1 -> {<<>>}] /\ hm' = [hm EXCEPT ![m] = t]
    BY <1>2
  <2>2. t # NULL
    <3>1. <<>> \in Seq(Counted)
      BY SumOfNothing
    <3>2. t \in [0 .. Buckets(n) - 1 -> Seq(Counted)]
      BY <2>1, <3>1
    <3> HIDE DEF t
    <3> QED
      BY <3>2, TableHas
  <2> HIDE DEF t
  <2>3. Open' = Open \cup {m} /\ Contents' = [Contents EXCEPT ![m] = [k \in Keys |-> NULL]]
    <3>1. \E l \in Sizes[m] : t \in [0 .. Buckets(l) - 1 -> {<<>>}]
      BY <2>1
    <3> QED
      BY <1>1, <2>1, <2>2, <3>1, ContentsReplaced
  <2>4. Contents[m] = [k \in Keys |-> NULL]
    BY <1>1 DEF Contents
  <2>5. Contents' = Contents
    BY <2>3, <2>4 DEF Contents
  <2>6. T!Create(m)
    BY <1>1, <1>2, <2>3, <2>5 DEF T!Create, Returned, T!Returned
  <2> QED
    BY <2>6 DEF TallyStep, T!Next
<1>3. CASE NoMemory(1) /\ result' = Returned("create", m, NULL, 0) /\ UNCHANGED hm
  <2>1. result' \in Refusals(m, NULL) /\ faults' = faults + 1
    BY <1>3 DEF Refusals, NoMemory
  <2> QED
    BY <1>1, <1>3, <2>1, FailsWithoutEffect
<1> QED
  BY <1>2, <1>3 DEF hm_create

LEMMA FreeStep ==
    ASSUME IInv, NEW m \in Maps, hm_free(m)
    PROVE  TallyStep
<1>1. Open' = Open \ {m} /\ Contents' = [Contents EXCEPT ![m] = [k \in Keys |-> NULL]]
  BY ContentsReplaced DEF hm_free, IInv, Typed
<1>2. T!Free(m)
  BY <1>1 DEF hm_free, T!Free, T!Emptied, Returned, T!Returned
<1> QED
  BY <1>2 DEF TallyStep, T!Next

LEMMA ClearStep ==
    ASSUME IInv, NEW m \in Maps, hm_clear(m)
    PROVE  TallyStep
<1>1. Open' = Open /\ Contents' = [Contents EXCEPT ![m] = [k \in Keys |-> NULL]]
  <2>1. CASE Exists(m)
    <3> DEFINE t == [i \in DOMAIN hm[m] |-> <<>>]
    <3>1. hm' = [hm EXCEPT ![m] = t]
      BY <2>1 DEF hm_clear
    <3>2. PICK n \in Sizes[m] : hm[m] \in [0 .. Buckets(n) - 1 -> Seq(Counted)]
      BY <2>1 DEF IInv, Typed, Tables
    <3>3. t \in [0 .. Buckets(n) - 1 -> {<<>>}] /\ t \in [0 .. Buckets(n) - 1 -> Seq(Counted)]
      <4>1. <<>> \in Seq(Counted)
        BY SumOfNothing
      <4> QED
        BY <3>2, <4>1
    <3> HIDE DEF t
    <3>4. t # NULL
      BY <3>3, TableHas
    <3>5. \E l \in Sizes[m] : t \in [0 .. Buckets(l) - 1 -> {<<>>}]
      BY <3>2, <3>3
    <3>6. Open' = Open \cup {m} /\ Contents' = [Contents EXCEPT ![m] = [k \in Keys |-> NULL]]
      BY <3>1, <3>4, <3>5, ContentsReplaced DEF IInv, Typed
    <3> QED
      BY <2>1, <3>6 DEF Open
  <2>2. CASE ~Exists(m)
    <3>1. UNCHANGED <<Open, Contents>>
      BY <2>2, ContentsStay DEF hm_clear
    <3>2. Contents[m] = [k \in Keys |-> NULL]
      BY <2>2 DEF Contents
    <3>3. [Contents EXCEPT ![m] = [k \in Keys |-> NULL]] = Contents
      BY <3>2 DEF Contents
    <3> QED
      BY <3>1, <3>3
  <2> QED
    BY <2>1, <2>2
<1>2. T!Clear(m)
  BY <1>1 DEF hm_clear, T!Clear, T!Emptied, Returned, T!Returned
<1> QED
  BY <1>2 DEF TallyStep, T!Next

LEMMA EntryCountStep ==
    ASSUME IInv, NoDuplicates, NEW m \in Maps, hm_entry_count(m)
    PROVE  TallyStep
<1>1. UNCHANGED <<Open, Contents>>
  BY ContentsStay DEF hm_entry_count
<1>2. Len(hm_foreach(m)) = T!Cardinality(T!Held(m))
  BY EntriesCounted DEF IInv, Typed
<1>3. T!EntryCount(m)
  BY <1>1, <1>2 DEF hm_entry_count, T!EntryCount, Returned, T!Returned
<1> QED
  BY <1>3 DEF TallyStep, T!Next

LEMMA RefuseStep ==
    ASSUME NEW m \in Maps, call_without_table(m)
    PROVE  TallyStep
<1>1. UNCHANGED <<Open, Contents>> /\ m \notin Open
  BY ContentsStay DEF call_without_table, Open
<1>2. \E op \in {"put_inc", "set", "merge"}, k \in Keys \cup {NULL} :
          result' = T!Returned(op, m, k, -1)
  BY DEF call_without_table, Returned, T!Returned
<1>3. T!Refuse(m)
  BY <1>1, <1>2 DEF T!Refuse
<1> QED
  BY <1>3 DEF TallyStep, T!Next

LEMMA PutIncStep ==
    ASSUME IInv, NEW m \in Maps, NEW w \in Words, NEW n \in 1 .. MaxCount, hm_put_inc(m, w, n)
    PROVE  TallyStep
<1>1. CASE ll_put_inc(m, w, n, 0) /\ result' = Returned("put_inc", m, Lower[w], 0)
  BY <1>1, AddStep DEF hm_put_inc
<1>2. CASE ll_put_inc(m, w, n, -1) /\ result' = Returned("put_inc", m, Lower[w], -1)
  <2>1. Lower[w] \in Keys /\ faults \in Nat
    BY KeysAre DEF IInv, Typed
  <2>2. UNCHANGED hm /\ faults' \in {faults + 1, faults + 2}
    <3>1. -1 # 0
      OBVIOUS
    <3> QED
      BY <1>2, <3>1 DEF ll_put_inc, ll_insert_fails, NoMemory
  <2>3. result' \in Refusals(m, Lower[w])
    BY <1>2 DEF Refusals
  <2> QED
    BY <2>1, <2>2, <2>3, FailsWithoutEffect
<1> QED
  BY <1>1, <1>2 DEF hm_put_inc

LEMMA SetStep ==
    ASSUME IInv, NoDuplicates, NoDuplicates', NEW m \in Maps, NEW w \in Words,
           NEW n \in 1 .. MaxCount, hm_set(m, w, n)
    PROVE  TallyStep
<1> DEFINE k == Lower[w]
<1>1. /\ Tables /\ Exists(m) /\ k \in Keys /\ faults \in Nat /\ NULL \notin Nat
      /\ Sum(m, w) \in Nat /\ n \in Nat /\ n # 0
  BY KeysAre, SumType DEF hm_set, IInv, Typed
<1>2. CASE /\ ll_update(m, w, n) \/ ll_insert(m, w, n)
           /\ result' = Returned("set", m, k, 0)
  <2>1. Open' = Open /\ Contents' = [Contents EXCEPT ![m][k] = n]
    <3>1. PICK d \in Int : Grows(m, w, d) /\ Sum(m, w) + d = n
      <4>1. CASE ll_update(m, w, n)
        <5> DEFINE d == n - Bucket(m, w)[Position(m, w)].count
        <5>1. Grows(m, w, d)
          BY <1>1, <4>1, FoundChanged DEF ll_update
        <5>2. Bucket(m, w)[Position(m, w)].count = Sum(m, w)
          BY <1>1, <4>1, OnlyNode DEF ll_update
        <5>3. d \in Int /\ Sum(m, w) + d = n
          BY <1>1, <5>2
        <5> HIDE DEF d
        <5> QED
          BY <5>1, <5>3
      <4>2. CASE ll_insert(m, w, n)
        <5>1. Position(m, w) = 0
          BY <1>1, <4>2, SecondNode
        <5>2. Sum(m, w) = 0 /\ Sum(m, w) + n = n
          BY <1>1, <5>1, FoundInBucket
        <5>3. Grows(m, w, n)
          BY <1>1, <4>2, HeadPut DEF ll_insert
        <5> QED
          BY <1>1, <5>2, <5>3
      <4> QED
        BY <1>2, <4>1, <4>2
    <3>2. Open' = Open /\ Contents' = [Contents EXCEPT ![m][k] = Count(Sum(m, w) + d)]
      BY <1>1, <3>1, ContentsGrow
    <3> QED
      BY <1>1, <3>1, <3>2 DEF Count
  <2>2. T!Set(m, k, n)
    BY <1>1, <1>2, <2>1 DEF T!Set, Open, Returned, T!Returned
  <2> QED
    BY <1>1, <2>2 DEF TallyStep, T!Next
<1>3. CASE ll_insert_fails(m, w) /\ result' = Returned("set", m, k, -1)
  <2>1. UNCHANGED hm /\ faults' \in {faults + 1, faults + 2} /\ result' \in Refusals(m, k)
    BY <1>3 DEF ll_insert_fails, NoMemory, Refusals
  <2> QED
    BY <1>1, <2>1, FailsWithoutEffect
<1> QED
  BY <1>2, <1>3 DEF hm_set

LEMMA GetStep ==
    ASSUME IInv, NoDuplicates, NEW m \in Maps, NEW w \in Words, hm_get(m, w)
    PROVE  TallyStep
<1> DEFINE k == Lower[w]
           held == Exists(m) /\ Position(m, w) # 0
           found == IF held THEN Bucket(m, w)[Position(m, w)].count ELSE NULL
<1>1. /\ Tables /\ k \in Keys /\ faults \in Nat /\ NULL \notin Nat
      /\ Sum(m, w) = Sum(m, k) /\ UNCHANGED hm
  BY KeysAre, SumType DEF hm_get, IInv, Typed
<1>2. CASE result' = Returned("get", m, k, found)
  <2>1. UNCHANGED <<Open, Contents>>
    BY <1>1, ContentsStay
  <2>2. Contents[m][k] = Count(Sum(m, w))
    BY <1>1, ContentsAre DEF SumsHeld
  <2>3. found = Count(Sum(m, w))
    <3>1. CASE held
      <4>1. /\ Bucket(m, w)[Position(m, w)].count = Sum(m, w)
            /\ Bucket(m, w)[Position(m, w)].count \in 1 .. MaxCount
        BY <1>1, <3>1, OnlyNode, FoundInBucket
      <4> QED
        BY <3>1, <4>1 DEF Count
    <3>2. CASE Exists(m) /\ Position(m, w) = 0
      <4>1. Sum(m, w) = 0
        BY <1>1, <3>2, FoundInBucket
      <4> QED
        BY <3>2, <4>1 DEF Count
    <3>3. CASE ~Exists(m)
      BY <3>3 DEF Sum, Count
    <3> QED
      BY <3>1, <3>2, <3>3
  <2>4. T!Get(m, k)
    BY <1>2, <2>1, <2>2, <2>3 DEF T!Get, Returned, T!Returned
  <2> QED
    BY <1>1, <2>4 DEF TallyStep, T!Next
<1>3. CASE result' = Returned("get", m, k, NULL) /\ NoMemory(1)
  <2>1. faults' \in {faults + 1, faults + 2} /\ result' \in Refusals(m, k)
    BY <1>3 DEF NoMemory, Refusals
  <2> QED
    BY <1>1, <2>1, FailsWithoutEffect
<1> QED
  BY <1>2, <1>3 DEF hm_get

LEMMA RemoveStep ==
    ASSUME IInv, NoDuplicates, NEW m \in Maps, NEW w \in Words, ll_remove(m, w)
    PROVE  TallyStep
<1> DEFINE k == Lower[w]
<1>1. /\ Tables /\ Exists(m) /\ k \in Keys /\ faults \in Nat
      /\ Sum(m, w) \in Nat /\ Sum(m, w) = Sum(m, k)
  BY KeysAre, SumType DEF ll_remove, IInv, Typed
<1>2. /\ Contents[m][k] = Count(Sum(m, w))
      /\ k \in T!Held(m) <=> Sum(m, w) # 0
  BY <1>1, ContentsAre DEF SumsHeld
<1>3. CASE /\ Position(m, w) # 0 /\ result' = Returned("remove", m, k, 1)
           /\ hm' = [hm EXCEPT ![m][bucket_index(m, w)] = unlink(@, Position(m, w))]
  <2> DEFINE d == -(Bucket(m, w)[Position(m, w)].count)
  <2>1. Grows(m, w, d)
    BY <1>1, <1>3, FoundRemoved
  <2>2. /\ Bucket(m, w)[Position(m, w)].count = Sum(m, w)
        /\ Bucket(m, w)[Position(m, w)].count \in 1 .. MaxCount
    BY <1>1, <1>3, OnlyNode, FoundInBucket
  <2>3. Sum(m, w) + d = 0 /\ Sum(m, w) # 0
    BY <1>1, <2>2
  <2> HIDE DEF d
  <2>4. Open' = Open /\ Contents' = [Contents EXCEPT ![m][k] = Count(Sum(m, w) + d)]
    BY <1>1, <2>1, ContentsGrow
  <2>5. Contents' = [Contents EXCEPT ![m][k] = NULL]
    BY <2>3, <2>4 DEF Count
  <2>6. result' = T!Returned("remove", m, k, IF k \in T!Held(m) THEN 1 ELSE 0)
    BY <1>2, <1>3, <2>3 DEF Returned, T!Returned
  <2>7. T!Remove(m, k)
    BY <2>4, <2>5, <2>6 DEF T!Remove
  <2> QED
    BY <1>1, <2>7 DEF TallyStep, T!Next
<1>4. CASE Position(m, w) = 0 /\ result' = Returned("remove", m, k, 0) /\ UNCHANGED hm
  <2>1. Sum(m, w) = 0
    BY <1>1, <1>4, FoundInBucket
  <2>2. UNCHANGED <<Open, Contents>>
    BY <1>4, ContentsStay
  <2>3. [Contents EXCEPT ![m][k] = NULL] = Contents
    <3>1. Contents[m][k] = NULL
      BY <1>2, <2>1 DEF Count
    <3>2. Contents[m] = [x \in Keys |-> Contents[m][x]] /\ Contents = [x \in Maps |-> Contents[x]]
      BY DEF Contents
    <3>3. [Contents[m] EXCEPT ![k] = NULL] = Contents[m]
      BY <1>1, <3>1, <3>2
    <3> QED
      BY <3>2, <3>3
  <2>4. result' = T!Returned("remove", m, k, IF k \in T!Held(m) THEN 1 ELSE 0)
    BY <1>2, <1>4, <2>1 DEF Returned, T!Returned
  <2>5. T!Remove(m, k)
    BY <2>2, <2>3, <2>4 DEF T!Remove
  <2> QED
    BY <1>1, <2>5 DEF TallyStep, T!Next
<1>5. CASE NoMemory(1) /\ result' = Returned("remove", m, k, 0) /\ UNCHANGED hm
  <2>1. faults' \in {faults + 1, faults + 2} /\ result' \in Refusals(m, k)
    BY <1>5 DEF NoMemory, Refusals
  <2> QED
    BY <1>1, <1>5, <2>1, FailsWithoutEffect
<1> QED
  BY <1>3, <1>4, <1>5 DEF ll_remove

LEMMA MergeNodeStep ==
    ASSUME IInv, merge_node
    PROVE  TallyStep
<1>1. PICK dst \in Maps : dst = merging.dst /\ Exists(dst)
  BY DEF merge_node, IInv, Typed
<1>2. PICK node \in Counted : node = Head(merging.todo)
  <2>1. merging.todo \in Seq(Counted) /\ merging.todo # <<>>
    BY DEF merge_node, IInv, Typed
  <2> QED
    BY <2>1, SumOfHead
<1>3. CASE ll_put_inc(dst, node.key, node.count, 0) /\ result' = Returned("put_inc", dst, node.key, 0)
  <2> DEFINE key == node.key
             d == node.count
  <2>1. key \in Keys /\ key \in Words /\ Lower[key] = key /\ d \in 1 .. MaxCount
    BY KeysAre
  <2>2. Sum(dst, key) + d <= MaxCount
    <3> DEFINE todo == merging.todo
               rest == Tail(merging.todo)
    <3>1. todo \in Seq(Counted) /\ todo # <<>> /\ merging.goal[key] \in 0 .. MaxCount /\ Tables
      BY <2>1 DEF merge_node, IInv, Typed
    <3>2. Sum(dst, key) + SumIn(todo, key) = merging.goal[key]
      BY <1>1, <2>1 DEF merge_node, IInv, Summed
    <3>3. SumIn(todo, key) = Value(node, key) + SumIn(rest, key) /\ rest \in Seq(Counted)
      BY <1>2, <3>1, SumOfHead
    <3>4. Value(node, key) = d
      BY <2>1 DEF Value
    <3>5. SumIn(rest, key) \in Nat /\ Sum(dst, key) \in Nat
      BY <2>1, <3>1, <3>3, SumBounds, SumType
    <3> HIDE DEF todo, rest, key, d
    <3> QED
      BY <2>1, <3>1, <3>2, <3>3, <3>4, <3>5, KeysAre
  <2>3. result' = Returned("put_inc", dst, Lower[key], 0) /\ ll_put_inc(dst, key, d, 0)
    BY <1>3, <2>1
  <2> HIDE DEF key, d
  <2> QED
    BY <1>1, <2>1, <2>2, <2>3, AddStep
<1>4. CASE ll_put_inc(dst, node.key, node.count, -1) /\ result' = Returned("merge", dst, NULL, -1)
  <2>1. UNCHANGED hm /\ faults' \in {faults + 1, faults + 2}
    <3>1. -1 # 0
      OBVIOUS
    <3> QED
      BY <1>4, <3>1 DEF ll_put_inc, ll_insert_fails, NoMemory
  <2>2. result' \in Refusals(dst, NULL) /\ faults \in Nat
    BY <1>4, KeysAre DEF Refusals, IInv, Typed
  <2> QED
    BY <2>1, <2>2, FailsWithoutEffect
<1> QED
  BY <1>1, <1>2, <1>3, <1>4 DEF merge_node

LEMMA MergeDoneStep ==
    ASSUME IInv, merge_done
    PROVE  TallyStep
<1>1. PICK dst \in Maps : dst = merging.dst /\ Exists(dst)
  BY DEF merge_done, IInv, Typed
<1>2. UNCHANGED <<Open, Contents>> /\ dst \in Open
  BY <1>1, ContentsStay DEF merge_done, Open
<1>3. T!Merged(dst)
  BY <1>1, <1>2 DEF merge_done, T!Merged, Returned, T!Returned
<1> QED
  BY <1>3 DEF TallyStep, T!Next

LEMMA StepTally == IInv /\ NoDuplicates /\ NoDuplicates' /\ [Next]_vars => TallyStep
<1> SUFFICES ASSUME IInv, NoDuplicates, NoDuplicates', [Next]_vars PROVE TallyStep
  OBVIOUS
<1>1. ASSUME NEW m \in Maps, NEW n \in Sizes[m], hm_create(m, n) PROVE TallyStep
  BY <1>1, CreateStep
<1>2. ASSUME NEW m \in Maps, hm_free(m) PROVE TallyStep
  BY <1>2, FreeStep
<1>3. ASSUME NEW m \in Maps, hm_clear(m) PROVE TallyStep
  BY <1>3, ClearStep
<1>4. ASSUME NEW m \in Maps, hm_entry_count(m) PROVE TallyStep
  BY <1>4, EntryCountStep
<1>5. ASSUME NEW m \in Maps, call_without_table(m) PROVE TallyStep
  BY <1>5, RefuseStep
<1>6. ASSUME NEW m \in Maps, NEW w \in Words, hm_get(m, w) PROVE TallyStep
  BY <1>6, GetStep
<1>7. ASSUME NEW m \in Maps, NEW w \in Words, ll_remove(m, w) PROVE TallyStep
  BY <1>7, RemoveStep
<1>8. ASSUME NEW m \in Maps, NEW w \in Words, NEW n \in 1 .. MaxCount,
             hm_put_inc(m, w, n) PROVE TallyStep
  BY <1>8, PutIncStep
<1>9. ASSUME NEW m \in Maps, NEW w \in Words, NEW n \in 1 .. MaxCount,
             hm_set(m, w, n) PROVE TallyStep
  BY <1>9, SetStep
<1>10. ASSUME UNCHANGED <<hm, result>> PROVE TallyStep
  BY <1>10, ContentsStay DEF TallyStep, T!vars
<1>11. ASSUME NEW m \in Maps, NEW src \in Maps, hm_merge(m, src) PROVE TallyStep
  BY <1>10, <1>11 DEF hm_merge
<1>12. ASSUME merge_node PROVE TallyStep
  BY <1>12, MergeNodeStep
<1>13. ASSUME merge_done PROVE TallyStep
  BY <1>13, MergeDoneStep
<1>14. ASSUME UNCHANGED vars PROVE TallyStep
  BY <1>10, <1>14 DEF vars
<1> QED
  BY <1>1, <1>2, <1>3, <1>4, <1>5, <1>6, <1>7, <1>8, <1>9, <1>11, <1>12, <1>13, <1>14 DEF Next

\* As long as no key is stored twice, the buckets and their lists are a table of
\* counts per key ("If key exists: increments its count", hashmap.h:75), for
\* words in any case, and a call that finds no memory has no effect.
THEOREM TablesAreTallies == Spec => ImplementsTally
<1>1. Init => T!Init
  <2> SUFFICES ASSUME Init PROVE T!Init
    OBVIOUS
  <2>1. \A m \in Maps : ~Exists(m)
    BY DEF Init, Exists
  <2>2. Open = {} /\ Contents = [m \in Maps |-> [k \in Keys |-> NULL]]
    BY <2>1 DEF Open, Contents
  <2> QED
    BY <2>2 DEF Init, T!Init, Returned, T!Returned
<1>2. IInv /\ [Next]_vars =>
          [NoDuplicates /\ NoDuplicates' =>
              \/ T!Next \/ UNCHANGED T!vars
              \/ faults' > faults /\ T!Fail]_vars
  BY StepTally DEF TallyStep
<1> QED
  BY <1>1, <1>2, Inductive, PTL DEF Spec, ImplementsTally
=============================================================================
