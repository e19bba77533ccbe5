-------------------------- MODULE NodeServerProofs --------------------------
(* Theorems about the poll loop of NodeServer and its buffer, for any number *)
(* of clients, whatever they send and however it is cut into segments.       *)
EXTENDS NodeServer, Foundations

----------------------------------------------------------------------------
(* How requests are found in a window of received symbols does not depend   *)
(* on what follows them, nor on where the window begins.                    *)

\* The first '\r' is the least of them.
LEMMA FirstCRFound ==
    ASSUME NEW S, NEW w \in Seq(S), NEW i \in 1 .. Len(w) + 1
    PROVE  LET e == FirstCR(w, i) IN
           \/ e = 0 /\ \A j \in i .. Len(w) : w[j] # CR
           \/ /\ e \in i .. Len(w) /\ w[e] = CR
              /\ \A j \in i .. e - 1 : w[j] # CR
<1> DEFINE T == {j \in i .. Len(w) : w[j] = CR}
<1>1. CASE T = {}
  BY <1>1 DEF FirstCR
<1>2. CASE T # {}
  <2>1. \E j \in T : \A k \in T : j <= k
    <3>1. T \in SUBSET Nat
      OBVIOUS
    <3> HIDE DEF T
    <3> QED
      BY <1>2, <3>1, LeastNat
  <2>2. FirstCR(w, i) = CHOOSE j \in T : \A k \in T : j <= k
    BY <1>2 DEF FirstCR
  <2>3. FirstCR(w, i) \in T /\ \A k \in T : FirstCR(w, i) <= k
    BY <2>1, <2>2
  <2> QED
    BY <2>3
<1> QED
  BY <1>1, <1>2

\* It is the only place with a '\r' and none before it.
LEMMA FirstCRIs ==
    ASSUME NEW S, NEW w \in Seq(S), NEW i \in 1 .. Len(w) + 1,
           NEW e \in i .. Len(w), w[e] = CR, \A j \in i .. e - 1 : w[j] # CR
    PROVE  FirstCR(w, i) = e
<1>1. FirstCR(w, i) \in i .. Len(w) /\ w[FirstCR(w, i)] = CR
      /\ \A j \in i .. FirstCR(w, i) - 1 : w[j] # CR
  BY FirstCRFound
<1>2. ~(FirstCR(w, i) < e) /\ ~(e < FirstCR(w, i))
  BY <1>1
<1> QED
  BY <1>1, <1>2

----------------------------------------------------------------------------
(* The recursive functions of HttpFraming have values.                      *)

\* What a parser may report of window w.
Outcomes(w) == [verdict : {"request", "incomplete", "malformed", "loops"},
                next : 1 .. Len(w) + 1, length : 0 .. 1, close : BOOLEAN]

\* One line of the headers, the rest being h.
HeaderLine(w, h, i) ==
    LET e == FirstCR(w, i) IN
    IF Loops(w, e) THEN Outcome("loops", i, 0, FALSE)
    ELSE IF e = 0 THEN Outcome("incomplete", i, 0, FALSE)
    ELSE IF e = i THEN Outcome("request", i + 2, 0, FALSE)
    ELSE IF ~IsHeader(w, i) THEN Outcome("malformed", i, 0, FALSE)
    ELSE LET rest == h[e + 2] IN
         [rest EXCEPT !.length = IF w[i] = "len" THEN 1 ELSE @,
                      !.close  = Closes(w[i], @)]

\* A line that is complete ends in front of the end of the window.
LEMMA LineEnds ==
    ASSUME NEW S, NEW w \in Seq(S), NEW i \in 1 .. Len(w) + 1,
           ~Loops(w, FirstCR(w, i)), FirstCR(w, i) # 0
    PROVE  FirstCR(w, i) \in i .. Len(w) - 1
  BY FirstCRFound DEF Loops

\* A line is judged within the window.
LEMMA HeaderLineType ==
    ASSUME NEW S, NEW w \in Seq(S), NEW i \in 1 .. Len(w) + 1,
           NEW h \in [1 .. Len(w) + 1 -> Outcomes(w)]
    PROVE  HeaderLine(w, h, i) \in Outcomes(w)
<1> DEFINE e == FirstCR(w, i)
<1>1. ASSUME NEW v \in {"request", "incomplete", "malformed", "loops"},
             NEW n \in 1 .. Len(w) + 1
      PROVE  Outcome(v, n, 0, FALSE) \in Outcomes(w)
  BY DEF Outcome, Outcomes
<1>2. CASE Loops(w, e)
  BY <1>1, <1>2 DEF HeaderLine
<1>3. CASE ~Loops(w, e) /\ e = 0
  BY <1>1, <1>3 DEF HeaderLine
<1>4. CASE ~Loops(w, e) /\ e # 0
  <2>1. e \in i .. Len(w) - 1
    BY <1>4, LineEnds
  <2> HIDE DEF e
  <2>2. CASE e = i
    <3>1. HeaderLine(w, h, i) = Outcome("request", i + 2, 0, FALSE)
      BY <1>4, <2>2 DEF HeaderLine, e
    <3>2. i + 2 \in 1 .. Len(w) + 1
      BY <2>1, <2>2
    <3> QED
      BY <1>1, <3>1, <3>2
  <2>3. CASE e # i /\ ~IsHeader(w, i)
    BY <1>1, <1>4, <2>1, <2>3 DEF HeaderLine, e
  <2>4. CASE e # i /\ IsHeader(w, i)
    <3> DEFINE rest == h[e + 2]
    <3>1. rest \in Outcomes(w)
      BY <2>1
    <3>2. HeaderLine(w, h, i) = [rest EXCEPT !.length = IF w[i] = "len" THEN 1 ELSE @,
                                             !.close  = Closes(w[i], @)]
      BY <1>4, <2>1, <2>4 DEF HeaderLine, e
    <3> HIDE DEF rest
    <3>3. ASSUME NEW l \in 0 .. 1, NEW c \in BOOLEAN
          PROVE  [rest EXCEPT !.length = l, !.close = c] \in Outcomes(w)
      BY <3>1 DEF Outcomes
    <3>4. Closes(w[i], rest.close) \in BOOLEAN
      BY Zenon DEF Closes
    <3>5. (IF w[i] = "len" THEN 1 ELSE rest.length) \in 0 .. 1
      BY <3>1 DEF Outcomes
    <3> QED
      BY <3>2, <3>3, <3>4, <3>5, Zenon
  <2> QED
    BY <2>2, <2>3, <2>4
<1> QED
  BY <1>2, <1>3, <1>4

\* What a line comes to depends on the lines behind it only.
LEMMA HeaderLineLocal ==
    ASSUME NEW w, NEW i, NEW g, NEW h,
           g[FirstCR(w, i) + 2] = h[FirstCR(w, i) + 2]
    PROVE  HeaderLine(w, g, i) = HeaderLine(w, h, i)
  BY Zenon DEF HeaderLine

\* HeadersOf() is the function that judges one line after the other.
LEMMA HeadersDefined ==
    ASSUME NEW S, NEW w \in Seq(S)
    PROVE  /\ HeadersOf(w) \in [1 .. Len(w) + 1 -> Outcomes(w)]
           /\ \A i \in 1 .. Len(w) + 1 : HeadersOf(w)[i] = HeaderLine(w, HeadersOf(w), i)
<1> DEFINE n == Len(w) + 1
           V == Outcomes(w)
           F == [p \in [1 .. n -> V] \X (1 .. n) |-> HeaderLine(w, p[1], p[2])]
<1>1. n \in Nat
  OBVIOUS
<1>2. V # {}
  <2>1. Outcome("loops", 1, 0, FALSE) \in V
    BY DEF Outcome, Outcomes
  <2> QED
    BY <2>1
<1>3. F \in [[1 .. n -> V] \X (1 .. n) -> V]
  BY HeaderLineType
<1>4. ASSUME NEW g \in [1 .. n -> V], NEW h \in [1 .. n -> V], NEW i \in 1 .. n,
             \A j \in i + 1 .. n : g[j] = h[j]
      PROVE  F[<<g, i>>] = F[<<h, i>>]
  <2>1. F[<<g, i>>] = HeaderLine(w, g, i) /\ F[<<h, i>>] = HeaderLine(w, h, i)
    OBVIOUS
  <2>2. CASE ~Loops(w, FirstCR(w, i)) /\ FirstCR(w, i) # 0
    <3>1. FirstCR(w, i) + 2 \in i + 1 .. n
      BY <2>2, LineEnds
    <3> QED
      BY <1>4, <2>1, <3>1, HeaderLineLocal
  <2>3. CASE ~(~Loops(w, FirstCR(w, i)) /\ FirstCR(w, i) # 0)
    BY <2>1, <2>3 DEF HeaderLine
  <2> QED
    BY <2>2, <2>3
<1>5. PICK f \in [1 .. n -> V] : \A i \in 1 .. n : f[i] = F[<<f, i>>]
  <2> HIDE DEF n, V, F
  <2> QED
    <3>1. \A g, h \in [1 .. n -> V] : \A i \in 1 .. n :
              (\A j \in i + 1 .. n : g[j] = h[j]) => F[<<g, i>>] = F[<<h, i>>]
      BY <1>4
    <3>2. DownwardRecursion(n, V, F)
      BY <1>1, <1>2, <1>3, <3>1 DEF DownwardRecursion
    <3> QED
      BY <3>2, DownwardFunction
<1>6. f = [i \in 1 .. n |-> HeaderLine(w, f, i)]
  <2>1. \A i \in 1 .. n : F[<<f, i>>] = HeaderLine(w, f, i)
    OBVIOUS
  <2> QED
    BY <1>5, <2>1
<1>7. HeadersOf(w) = CHOOSE h : h = [i \in 1 .. n |-> HeaderLine(w, h, i)]
  BY DEF HeadersOf, HeaderLine
<1>8. HeadersOf(w) = [i \in 1 .. n |-> HeaderLine(w, HeadersOf(w), i)]
  <2> HIDE DEF n
  <2> QED
    BY <1>6, <1>7, Zenon
<1>9. ASSUME NEW h, h = [i \in 1 .. n |-> HeaderLine(w, h, i)]
      PROVE  h = f
  <2> DEFINE T == {i \in 1 .. n : h[i] = f[i]}
  <2>1. ASSUME NEW i \in 1 .. n, \A j \in i + 1 .. n : j \in T
        PROVE  i \in T
    <3>1. h[i] = HeaderLine(w, h, i) /\ f[i] = HeaderLine(w, f, i)
      BY <1>6, <1>9
    <3>2. CASE ~Loops(w, FirstCR(w, i)) /\ FirstCR(w, i) # 0
      <4>1. FirstCR(w, i) + 2 \in i + 1 .. n
        BY <3>2, LineEnds
      <4>2. h[FirstCR(w, i) + 2] = f[FirstCR(w, i) + 2]
        BY <2>1, <4>1
      <4> QED
        BY <3>1, <4>2, HeaderLineLocal
    <3>3. CASE ~(~Loops(w, FirstCR(w, i)) /\ FirstCR(w, i) # 0)
      <4>1. HeaderLine(w, h, i) = HeaderLine(w, f, i)
        BY <3>3 DEF HeaderLine
      <4> QED
        BY <3>1, <4>1
    <3> QED
      BY <3>2, <3>3
  <2>2. 1 .. n \subseteq T
    <3> HIDE DEF n, T
    <3> QED
      BY <1>1, <2>1, Downwards
  <2> HIDE DEF n
  <2> QED
    BY <1>6, <1>9, <2>2
<1> HIDE DEF n, V, F
<1>10. HeadersOf(w) = f
  BY <1>8, <1>9
<1> QED
  BY <1>6, <1>10 DEF n, V

\* The headers of a complete request end behind the line they begin with.
LEMMA HeadersAdvance ==
    ASSUME NEW S, NEW w \in Seq(S), NEW i \in 1 .. Len(w) + 1,
           HeadersOf(w)[i].verdict = "request"
    PROVE  HeadersOf(w)[i].next >= i
<1> DEFINE n == Len(w) + 1
           h == HeadersOf(w)
           T == {j \in 1 .. n : h[j].verdict = "request" => h[j].next >= j}
<1>1. ASSUME NEW j \in 1 .. n, \A l \in j + 1 .. n : l \in T
      PROVE  j \in T
  <2> DEFINE e == FirstCR(w, j)
             rest == h[e + 2]
  <2>1. h[j] = HeaderLine(w, h, j) /\ h \in [1 .. n -> Outcomes(w)]
    BY HeadersDefined
  <2> SUFFICES ASSUME h[j].verdict = "request" PROVE h[j].next >= j
    OBVIOUS
  <2> HIDE DEF h
  <2>2. ~Loops(w, e) /\ e # 0
    BY <2>1 DEF HeaderLine, Outcome
  <2>3. e \in j .. Len(w) - 1 /\ e + 2 \in j + 1 .. n
    BY <2>2, LineEnds
  <2>4. CASE e = j
    BY <2>1, <2>2, <2>4 DEF HeaderLine, Outcome
  <2>5. CASE e # j
    <3>1. IsHeader(w, j)
      BY <2>1, <2>2, <2>5 DEF HeaderLine, Outcome
    <3>2. h[j] = [rest EXCEPT !.length = IF w[j] = "len" THEN 1 ELSE @,
                              !.close  = Closes(w[j], @)]
      BY <2>1, <2>2, <2>5, <3>1 DEF HeaderLine
    <3>3. rest \in Outcomes(w)
      BY <2>1, <2>3
    <3>4. h[j].verdict = rest.verdict /\ h[j].next = rest.next /\ rest.next \in Nat
      BY <3>2, <3>3 DEF Outcomes
    <3>5. rest.next >= e + 2
      BY <1>1, <2>3, <3>4
    <3> QED
      BY <2>3, <3>4, <3>5
  <2> QED
    BY <2>4, <2>5
<1>2. 1 .. n \subseteq T
  <2>1. n \in Nat
    OBVIOUS
  <2> HIDE DEF T, n
  <2> QED
    BY <1>1, <2>1, Downwards
<1> QED
  BY <1>2

\* A request that is complete lies within the window; nothing else is consumed.
LEMMA ParsedType ==
    ASSUME NEW S, NEW w \in Seq(S), NEW i \in 1 .. Len(w) + 1
    PROVE  LET r == parse_request(w, i) IN
           /\ r \in Outcomes(w)
           /\ r.verdict = "request" => r.next + r.length \in i + 1 .. Len(w) + 1
<1> DEFINE e == FirstCR(w, i)
           r == HeadersOf(w)[e + 2]
<1>1. ASSUME NEW v \in {"request", "incomplete", "malformed", "loops"}
      PROVE  Outcome(v, i, 0, FALSE) \in Outcomes(w) /\ Outcome(v, i, 0, FALSE).verdict = v
  BY DEF Outcome, Outcomes
<1>2. CASE Loops(w, e) \/ e = 0 \/ ~IsRequestLine(w, i, e)
  <2>1. \/ parse_request(w, i) = Outcome("loops", i, 0, FALSE)
        \/ parse_request(w, i) = Outcome("incomplete", i, 0, FALSE)
        \/ parse_request(w, i) = Outcome("malformed", i, 0, FALSE)
    BY <1>2 DEF parse_request
  <2> QED
    BY <1>1, <2>1
<1>3. CASE ~Loops(w, e) /\ e # 0 /\ IsRequestLine(w, i, e)
  <2>1. e \in i .. Len(w) - 1
    BY <1>3, LineEnds
  <2>2. e + 2 \in i + 1 .. Len(w) + 1
    BY <2>1
  <2>3. r \in Outcomes(w)
    BY <2>2, HeadersDefined
  <2>4. r.verdict = "request" => r.next >= e + 2
    <3> HIDE DEF e
    <3> QED
      BY <2>2, HeadersAdvance
  <2>5. parse_request(w, i) = IF r.verdict = "request" /\ r.next + r.length > Len(w) + 1
                              THEN Outcome("incomplete", i, 0, FALSE) ELSE r
    BY <1>3 DEF parse_request
  <2> HIDE DEF r, e
  <2>6. r.next \in 1 .. Len(w) + 1 /\ r.length \in 0 .. 1
    BY <2>3 DEF Outcomes
  <2>7. CASE r.verdict = "request" /\ r.next + r.length > Len(w) + 1
    BY <1>1, <2>5, <2>7
  <2>8. CASE r.verdict = "request" /\ ~(r.next + r.length > Len(w) + 1)
    <3>1. r.next + r.length \in i + 1 .. Len(w) + 1
      BY <2>1, <2>4, <2>6, <2>8
    <3> QED
      BY <2>3, <2>5, <2>8, <3>1
  <2>9. CASE r.verdict # "request"
    BY <2>3, <2>5, <2>9
  <2> QED
    BY <2>7, <2>8, <2>9
<1> QED
  BY <1>2, <1>3

----------------------------------------------------------------------------
(* The loop of handle_connection().                                         *)

\* What the loop may come to at a position of a window of n symbols.
Answer == [upto : Int, bad : BOOLEAN]
Answered(n) == [state : {"loops", "open", "closed"}, left : 1 .. n + 1, answers : Seq(Answer)]

\* Answers are put behind answers in any grouping.
LEMMA AnswersAssociate ==
    \A x, y, z \in Seq(Answer) : (x \o y) \o z = x \o (y \o z)
  BY ConcatAssociative

\* One turn of the loop, what follows being h.
AnswerRequest(w, base, h, i) ==
    LET r == parse_request(w, i)
        end == r.next + r.length
    IN
    CASE r.verdict = "loops"      -> [state |-> "loops", left |-> i, answers |-> <<>>]
      [] r.verdict = "incomplete" -> [state |-> "open", left |-> i, answers |-> <<>>]
      [] r.verdict = "malformed"  ->
             [state |-> "closed", left |-> i,
              answers |-> <<[upto |-> base + i - 1, bad |-> TRUE]>>]
      [] OTHER ->
             LET first == [upto |-> base + end - 1, bad |-> FALSE] IN
             IF r.close
             THEN [state |-> "closed", left |-> end, answers |-> <<first>>]
             ELSE [h[end] EXCEPT !.answers = <<first>> \o @]

\* The loop from each position of the window on: the local function of AnswerWindow().
Answering(w, base) ==
    CHOOSE h : h = [i \in 1 .. Len(w) + 1 |-> AnswerRequest(w, base, h, i)]

\* The loop begins at the front of the window.
LEMMA AnswersFromFront ==
    ASSUME NEW w, NEW base
    PROVE  AnswerWindow(w, base) = Answering(w, base)[1]
  BY DEF AnswerWindow, Answering, AnswerRequest

\* The ways a turn of the loop can go, after request r from i on.
AnswerCase(r, base, h, i, a) ==
    LET end == r.next + r.length
        first == [upto |-> base + end - 1, bad |-> FALSE]
    IN
    \/ r.verdict = "loops" /\ a = [state |-> "loops", left |-> i, answers |-> <<>>]
    \/ r.verdict = "incomplete" /\ a = [state |-> "open", left |-> i, answers |-> <<>>]
    \/ /\ r.verdict = "malformed"
       /\ a = [state |-> "closed", left |-> i,
               answers |-> <<[upto |-> base + i - 1, bad |-> TRUE]>>]
    \/ /\ r.verdict = "request" /\ r.close
       /\ a = [state |-> "closed", left |-> end, answers |-> <<first>>]
    \/ /\ r.verdict = "request" /\ ~r.close
       /\ a = [h[end] EXCEPT !.answers = <<first>> \o @]

\* No other is possible.
LEMMA AnswerCases ==
    ASSUME NEW S, NEW w \in Seq(S), NEW i \in 1 .. Len(w) + 1, NEW base, NEW h
    PROVE  AnswerCase(parse_request(w, i), base, h, i, AnswerRequest(w, base, h, i))
<1>1. parse_request(w, i).verdict \in {"request", "incomplete", "malformed", "loops"}
  BY ParsedType DEF Outcomes
<1>2. CASE parse_request(w, i).verdict = "loops"
  BY <1>2 DEF AnswerRequest, AnswerCase
<1>3. CASE parse_request(w, i).verdict = "incomplete"
  BY <1>3 DEF AnswerRequest, AnswerCase
<1>4. CASE parse_request(w, i).verdict = "malformed"
  BY <1>4 DEF AnswerRequest, AnswerCase
<1>5. CASE parse_request(w, i).verdict = "request"
  BY <1>5 DEF AnswerRequest, AnswerCase
<1> QED
  BY <1>1, <1>2, <1>3, <1>4, <1>5

\* A turn of the loop ends within the window.
LEMMA AnswerType ==
    ASSUME NEW S, NEW w \in Seq(S), NEW i \in 1 .. Len(w) + 1, NEW base \in Int,
           NEW h \in [1 .. Len(w) + 1 -> Answered(Len(w))]
    PROVE  AnswerRequest(w, base, h, i) \in Answered(Len(w))
<1> DEFINE r == parse_request(w, i)
           end == r.next + r.length
           first == [upto |-> base + end - 1, bad |-> FALSE]
           a == AnswerRequest(w, base, h, i)
<1>1. ASSUME NEW s \in {"loops", "open", "closed"}, NEW l \in 1 .. Len(w) + 1,
             NEW z \in Seq(Answer)
      PROVE  [state |-> s, left |-> l, answers |-> z] \in Answered(Len(w))
  BY DEF Answered
<1>2. ASSUME NEW u \in Int, NEW b \in BOOLEAN
      PROVE  <<[upto |-> u, bad |-> b]>> \in Seq(Answer)
  BY DEF Answer
<1> SUFFICES a \in Answered(Len(w))
  OBVIOUS
<1>0. AnswerCase(r, base, h, i, a)
  BY AnswerCases
<1> HIDE DEF a
<1>3. CASE r.verdict = "loops" \/ r.verdict = "incomplete"
  <2>1. \/ a = [state |-> "loops", left |-> i, answers |-> <<>>]
        \/ a = [state |-> "open", left |-> i, answers |-> <<>>]
    BY <1>0, <1>3 DEF AnswerCase
  <2> DEFINE none == <<>>
  <2>2. none \in Seq(Answer)
    OBVIOUS
  <2>3. \/ a = [state |-> "loops", left |-> i, answers |-> none]
        \/ a = [state |-> "open", left |-> i, answers |-> none]
    BY <2>1
  <2> HIDE DEF none
  <2> QED
    BY <2>2, <2>3 DEF Answered
<1>4. CASE r.verdict = "malformed"
  <2>1. a = [state |-> "closed", left |-> i,
             answers |-> <<[upto |-> base + i - 1, bad |-> TRUE]>>]
    BY <1>0, <1>4 DEF AnswerCase
  <2>2. base + i - 1 \in Int
    OBVIOUS
  <2>3. <<[upto |-> base + i - 1, bad |-> TRUE]>> \in Seq(Answer)
    BY <1>2, <2>2
  <2> QED
    BY <2>1, <2>3 DEF Answered
<1>5. CASE r.verdict = "request"
  <2>1. end \in 1 .. Len(w) + 1 /\ end \in Int
    BY <1>5, ParsedType
  <2> HIDE DEF end
  <2>2. base + end - 1 \in Int
    BY <2>1
  <2>3. <<first>> \in Seq(Answer)
    BY <1>2, <2>2
  <2> HIDE DEF first
  <2>4. \/ a = [state |-> "closed", left |-> end, answers |-> <<first>>]
        \/ a = [h[end] EXCEPT !.answers = <<first>> \o @]
    BY <1>0, <1>5 DEF AnswerCase, end, first
  <2>5. CASE a = [state |-> "closed", left |-> end, answers |-> <<first>>]
    BY <2>1, <2>3, <2>5 DEF Answered
  <2>6. CASE a = [h[end] EXCEPT !.answers = <<first>> \o @]
    <3>1. h[end] \in Answered(Len(w))
      BY <2>1
    <3>2. <<first>> \o h[end].answers \in Seq(Answer)
      BY <2>3, <3>1 DEF Answered
    <3> DEFINE z == <<first>> \o h[end].answers
    <3>3. a = [h[end] EXCEPT !.answers = z]
      BY <2>6
    <3> HIDE DEF z
    <3> QED
      BY <3>1, <3>2, <3>3 DEF Answered, z
  <2> QED
    BY <2>4, <2>5, <2>6
<1>6. r.verdict \in {"request", "incomplete", "malformed", "loops"}
  BY ParsedType DEF Outcomes
<1> QED
  BY <1>3, <1>4, <1>5, <1>6

\* What a turn comes to depends on the requests behind it only.
LEMMA AnswerLocal ==
    ASSUME NEW S, NEW w \in Seq(S), NEW i \in 1 .. Len(w) + 1, NEW base, NEW g, NEW h,
           \A j \in i + 1 .. Len(w) + 1 : g[j] = h[j]
    PROVE  AnswerRequest(w, base, g, i) = AnswerRequest(w, base, h, i)
<1> DEFINE r == parse_request(w, i)
<1>1. CASE r.verdict = "request"
  <2>1. r.next + r.length \in i + 1 .. Len(w) + 1
    BY <1>1, ParsedType
  <2>2. g[r.next + r.length] = h[r.next + r.length]
    BY <2>1
  <2> HIDE DEF r
  <2> QED
    BY <2>2, Zenon DEF AnswerRequest, r
<1>2. CASE r.verdict # "request"
  <2>1. r.verdict \in {"incomplete", "malformed", "loops"}
    BY <1>2, ParsedType DEF Outcomes
  <2>2. CASE r.verdict = "loops"
    BY <2>2 DEF AnswerRequest
  <2>3. CASE r.verdict = "incomplete"
    BY <2>3 DEF AnswerRequest
  <2>4. CASE r.verdict = "malformed"
    BY <2>4 DEF AnswerRequest
  <2> QED
    BY <2>1, <2>2, <2>3, <2>4
<1> QED
  BY <1>1, <1>2

\* Answering() is the function that takes one turn of the loop after the other.
LEMMA AnsweringDefined ==
    ASSUME NEW S, NEW w \in Seq(S), NEW base \in Int
    PROVE  /\ Answering(w, base) \in [1 .. Len(w) + 1 -> Answered(Len(w))]
           /\ \A i \in 1 .. Len(w) + 1 :
                 Answering(w, base)[i] = AnswerRequest(w, base, Answering(w, base), i)
<1> DEFINE n == Len(w) + 1
           V == Answered(Len(w))
           F == [p \in [1 .. n -> V] \X (1 .. n) |-> AnswerRequest(w, base, p[1], p[2])]
<1>1. n \in Nat
  OBVIOUS
<1>2. V # {}
  <2>1. [state |-> "loops", left |-> 1, answers |-> <<>>] \in V
    BY DEF Answered
  <2> QED
    BY <2>1
<1>3. F \in [[1 .. n -> V] \X (1 .. n) -> V]
  BY AnswerType
<1>4. \A g, h \in [1 .. n -> V] : \A i \in 1 .. n :
          (\A j \in i + 1 .. n : g[j] = h[j]) => F[<<g, i>>] = F[<<h, i>>]
  BY AnswerLocal
<1>5. PICK f \in [1 .. n -> V] : \A i \in 1 .. n : f[i] = F[<<f, i>>]
  <2> HIDE DEF n, V, F
  <2>1. DownwardRecursion(n, V, F)
    BY <1>1, <1>2, <1>3, <1>4 DEF DownwardRecursion
  <2> QED
    BY <2>1, DownwardFunction
<1>6. f = [i \in 1 .. n |-> AnswerRequest(w, base, f, i)]
  <2>1. \A i \in 1 .. n : F[<<f, i>>] = AnswerRequest(w, base, f, i)
    OBVIOUS
  <2> QED
    BY <1>5, <2>1
<1>7. Answering(w, base) = [i \in 1 .. n |-> AnswerRequest(w, base, Answering(w, base), i)]
  <2>1. Answering(w, base) = CHOOSE h : h = [i \in 1 .. n |-> AnswerRequest(w, base, h, i)]
    BY DEF Answering
  <2> HIDE DEF n
  <2> QED
    BY <1>6, <2>1, Zenon
<1>8. ASSUME NEW h, h = [i \in 1 .. n |-> AnswerRequest(w, base, h, i)]
      PROVE  h = f
  <2> DEFINE T == {i \in 1 .. n : h[i] = f[i]}
  <2>1. ASSUME NEW i \in 1 .. n, \A j \in i + 1 .. n : j \in T
        PROVE  i \in T
    <3>1. h[i] = AnswerRequest(w, base, h, i) /\ f[i] = AnswerRequest(w, base, f, i)
      BY <1>6, <1>8
    <3>2. \A j \in i + 1 .. Len(w) + 1 : h[j] = f[j]
      BY <2>1
    <3> QED
      BY <3>1, <3>2, AnswerLocal
  <2>2. 1 .. n \subseteq T
    <3> HIDE DEF n, T
    <3> QED
      BY <1>1, <2>1, Downwards
  <2> HIDE DEF n
  <2> QED
    BY <1>6, <1>8, <2>2
<1> HIDE DEF n, V, F
<1>9. Answering(w, base) = f
  BY <1>7, <1>8
<1> QED
  BY <1>6, <1>9 DEF n, V

----------------------------------------------------------------------------
(* A window shows what the stream holds behind position k.                  *)

IsWindow(S, w, s, k) ==
    /\ w \in Seq(S) /\ s \in Seq(S)
    /\ k \in Nat /\ k + Len(w) <= Len(s)
    /\ \A j \in 1 .. Len(w) : w[j] = s[k + j]

\* Report q on the stream is report r on the window, k positions further on.
Shifted(r, q, k) ==
    /\ q.verdict = r.verdict /\ q.next = k + r.next
    /\ q.length = r.length /\ q.close = r.close

\* A line that is complete in the window is the same line in the stream.
LEMMA LineInStream ==
    ASSUME NEW S, NEW w, NEW s, NEW k, IsWindow(S, w, s, k), NEW i \in 1 .. Len(w) + 1,
           ~Loops(w, FirstCR(w, i)), FirstCR(w, i) # 0
    PROVE  /\ k + i \in 1 .. Len(s) + 1
           /\ FirstCR(s, k + i) = k + FirstCR(w, i)
           /\ ~Loops(s, FirstCR(s, k + i)) /\ FirstCR(s, k + i) # 0
<1> DEFINE e == FirstCR(w, i)
<1>1. w \in Seq(S) /\ s \in Seq(S) /\ k \in Nat /\ k + Len(w) <= Len(s)
  BY DEF IsWindow
<1>2. e \in i .. Len(w) - 1
  BY <1>1, LineEnds
<1>3. w[e] = CR /\ w[e + 1] = LF /\ \A j \in i .. e - 1 : w[j] # CR
  BY <1>1, FirstCRFound DEF Loops
<1> HIDE DEF e
<1>4. s[k + e] = CR /\ s[k + e + 1] = LF
  <2>1. e \in 1 .. Len(w) /\ e + 1 \in 1 .. Len(w) /\ k + (e + 1) = k + e + 1
    BY <1>1, <1>2
  <2> QED
    BY <1>3, <2>1 DEF IsWindow
<1>5. \A j \in k + i .. (k + e) - 1 : s[j] # CR
  <2> SUFFICES ASSUME NEW j \in k + i .. (k + e) - 1 PROVE s[j] # CR
    OBVIOUS
  <2>1. j - k \in i .. e - 1 /\ j - k \in 1 .. Len(w) /\ k + (j - k) = j
    BY <1>1, <1>2
  <2>2. w[j - k] = s[k + (j - k)] /\ w[j - k] # CR
    BY <1>3, <2>1 DEF IsWindow
  <2> QED
    BY <2>1, <2>2
<1>6. k + i \in 1 .. Len(s) + 1 /\ k + e \in k + i .. Len(s) /\ k + e < Len(s)
  BY <1>1, <1>2
<1>7. FirstCR(s, k + i) = k + e
  <2> DEFINE d == k + e
             b == k + i
  <2>1. /\ b \in 1 .. Len(s) + 1 /\ d \in b .. Len(s) /\ s[d] = CR
        /\ \A j \in b .. d - 1 : s[j] # CR
    BY <1>4, <1>5, <1>6
  <2>2. FirstCR(s, b) = d
    <3> HIDE DEF b, d
    <3> QED
      BY <1>1, <2>1, FirstCRIs
  <2> QED
    BY <2>2
<1>8. ~Loops(s, k + e) /\ k + e # 0
  BY <1>1, <1>2, <1>4, <1>6 DEF Loops
<1> QED
  BY <1>6, <1>7, <1>8 DEF e

\* Headers that are complete or malformed in the window are so in the stream.
LEMMA HeadersInStream ==
    ASSUME NEW S, NEW w, NEW s, NEW k, IsWindow(S, w, s, k), NEW i \in 1 .. Len(w) + 1,
           HeadersOf(w)[i].verdict \in {"request", "malformed"}
    PROVE  Shifted(HeadersOf(w)[i], HeadersOf(s)[k + i], k)
<1> DEFINE n == Len(w) + 1
           h == HeadersOf(w)
           g == HeadersOf(s)
           T == {j \in 1 .. n : h[j].verdict \in {"request", "malformed"}
                                  => Shifted(h[j], g[k + j], k)}
<1>1. w \in Seq(S) /\ s \in Seq(S) /\ k \in Nat /\ n \in Nat
  BY DEF IsWindow
<1>0. k + Len(w) <= Len(s) /\ Len(s) \in Nat /\ Len(w) \in Nat
  BY DEF IsWindow
<1>2. ASSUME NEW j \in 1 .. n, \A l \in j + 1 .. n : l \in T
      PROVE  j \in T
  <2> DEFINE e == FirstCR(w, j)
  <2>1. h[j] = HeaderLine(w, h, j) /\ h \in [1 .. n -> Outcomes(w)]
    BY <1>1, HeadersDefined
  <2> SUFFICES ASSUME h[j].verdict \in {"request", "malformed"}
               PROVE  Shifted(h[j], g[k + j], k)
    OBVIOUS
  <2>2. ~Loops(w, e) /\ e # 0
    <3> HIDE DEF h
    <3> QED
      BY <2>1 DEF HeaderLine, Outcome
  <2>3. e \in j .. Len(w) - 1 /\ e + 2 \in j + 1 .. n
    BY <1>1, <2>2, LineEnds
  <2>4. /\ k + j \in 1 .. Len(s) + 1 /\ FirstCR(s, k + j) = k + e
        /\ ~Loops(s, k + e) /\ k + e # 0
    BY <2>2, LineInStream
  <2>5. g[k + j] = HeaderLine(s, g, k + j) /\ g \in [1 .. Len(s) + 1 -> Outcomes(s)]
    BY <1>1, <2>4, HeadersDefined
  <2>6. w[j] = s[k + j]
    BY <2>3 DEF IsWindow
  <2>7. IsHeader(w, j) <=> IsHeader(s, k + j)
    BY <2>6 DEF IsHeader
  <2> HIDE DEF h, g, e
  <2>8. (k + e) + 2 = k + (e + 2) /\ k + e \in Nat /\ (k + e = k + j <=> e = j)
    BY <1>1, <2>3
  <2>9. k + (e + 2) \in 1 .. Len(s) + 1
    BY <1>0, <1>1, <2>3
  <2>10. CASE e = j
    <3>1. h[j] = Outcome("request", j + 2, 0, FALSE)
      BY <2>1, <2>2, <2>10 DEF HeaderLine, e
    <3>2. g[k + j] = Outcome("request", k + j + 2, 0, FALSE)
      BY <2>4, <2>5, <2>8, <2>10 DEF HeaderLine
    <3> QED
      BY <1>1, <3>1, <3>2 DEF Shifted, Outcome
  <2>11. CASE e # j /\ ~IsHeader(w, j)
    <3>1. h[j] = Outcome("malformed", j, 0, FALSE)
      BY <2>1, <2>2, <2>11 DEF HeaderLine, e
    <3>2. g[k + j] = Outcome("malformed", k + j, 0, FALSE)
      BY <2>4, <2>5, <2>7, <2>8, <2>11 DEF HeaderLine
    <3> QED
      BY <1>1, <3>1, <3>2 DEF Shifted, Outcome
  <2>12. CASE e # j /\ IsHeader(w, j)
    <3> DEFINE r == h[e + 2]
               q == g[k + (e + 2)]
    <3>1. h[j] = [r EXCEPT !.length = IF w[j] = "len" THEN 1 ELSE @,
                           !.close  = Closes(w[j], @)]
      BY <2>1, <2>2, <2>12 DEF HeaderLine, e
    <3>2. g[k + j] = [q EXCEPT !.length = IF s[k + j] = "len" THEN 1 ELSE @,
                               !.close  = Closes(s[k + j], @)]
      BY <2>4, <2>5, <2>7, <2>8, <2>12 DEF HeaderLine
    <3>3. r \in Outcomes(w) /\ q \in Outcomes(s)
      BY <2>1, <2>3, <2>5, <2>9
    <3>4. r.verdict \in {"request", "malformed"} => Shifted(r, q, k)
      BY <1>2, <2>3
    <3> HIDE DEF r, q
    <3>5. /\ h[j].verdict = r.verdict /\ h[j].next = r.next
          /\ h[j].length = IF w[j] = "len" THEN 1 ELSE r.length
          /\ h[j].close = Closes(w[j], r.close)
      BY <3>1, <3>3 DEF Outcomes
    <3>6. /\ g[k + j].verdict = q.verdict /\ g[k + j].next = q.next
          /\ g[k + j].length = IF s[k + j] = "len" THEN 1 ELSE q.length
          /\ g[k + j].close = Closes(s[k + j], q.close)
      BY <3>2, <3>3 DEF Outcomes
    <3> QED
      BY <2>6, <3>4, <3>5, <3>6 DEF Shifted
  <2> QED
    BY <2>10, <2>11, <2>12
<1>3. 1 .. n \subseteq T
  <2> HIDE DEF n, T
  <2> QED
    BY <1>1, <1>2, Downwards
<1> QED
  BY <1>3

\* A request that is complete or malformed in the window is so in the stream.
LEMMA RequestInStream ==
    ASSUME NEW S, NEW w, NEW s, NEW k, IsWindow(S, w, s, k), NEW i \in 1 .. Len(w) + 1,
           parse_request(w, i).verdict \in {"request", "malformed"}
    PROVE  Shifted(parse_request(w, i), parse_request(s, k + i), k)
<1> DEFINE e == FirstCR(w, i)
           r == HeadersOf(w)[e + 2]
           q == HeadersOf(s)[k + (e + 2)]
<1>1. w \in Seq(S) /\ s \in Seq(S) /\ k \in Nat /\ k + Len(w) <= Len(s)
  BY DEF IsWindow
<1>2. ~Loops(w, e) /\ e # 0
  BY DEF parse_request, Outcome
<1>3. e \in i .. Len(w) - 1 /\ e + 2 \in i + 1 .. Len(w) + 1
  BY <1>1, <1>2, LineEnds
<1>4. /\ k + i \in 1 .. Len(s) + 1 /\ FirstCR(s, k + i) = k + e
      /\ ~Loops(s, k + e) /\ k + e # 0
  BY <1>2, LineInStream
<1> HIDE DEF e
<1>5. IsRequestLine(w, i, e) <=> IsRequestLine(s, k + i, k + e)
  <2>1. ASSUME NEW j \in i .. e - 1
        PROVE  k + j \in k + i .. (k + e) - 1 /\ w[j] = s[k + j]
    BY <1>1, <1>3 DEF IsWindow
  <2>2. ASSUME NEW j \in k + i .. (k + e) - 1
        PROVE  j - k \in i .. e - 1 /\ k + (j - k) = j
    BY <1>1, <1>3
  <2>3. ASSUME IsRequestLine(w, i, e) PROVE IsRequestLine(s, k + i, k + e)
    <3>1. PICK j \in i .. e - 1 : w[j] \in {"GET", "PUT"}
      BY <2>3 DEF IsRequestLine
    <3> QED
      BY <2>1, <3>1 DEF IsRequestLine
  <2>4. ASSUME IsRequestLine(s, k + i, k + e) PROVE IsRequestLine(w, i, e)
    <3>1. PICK j \in k + i .. (k + e) - 1 : s[j] \in {"GET", "PUT"}
      BY <2>4 DEF IsRequestLine
    <3>2. j - k \in i .. e - 1 /\ w[j - k] = s[j]
      BY <2>1, <2>2
    <3> QED
      BY <3>1, <3>2 DEF IsRequestLine
  <2> QED
    BY <2>3, <2>4
<1>6. CASE ~IsRequestLine(w, i, e)
  <2>1. parse_request(w, i) = Outcome("malformed", i, 0, FALSE)
    BY <1>2, <1>6 DEF parse_request, e
  <2>2. parse_request(s, k + i) = Outcome("malformed", k + i, 0, FALSE)
    BY <1>4, <1>5, <1>6 DEF parse_request
  <2> QED
    <3>1. Shifted(Outcome("malformed", i, 0, FALSE), Outcome("malformed", k + i, 0, FALSE), k)
      BY <1>1 DEF Shifted, Outcome
    <3> QED
      BY <2>1, <2>2, <3>1
<1>7. CASE IsRequestLine(w, i, e)
  <2>1. parse_request(w, i) = IF r.verdict = "request" /\ r.next + r.length > Len(w) + 1
                              THEN Outcome("incomplete", i, 0, FALSE) ELSE r
    BY <1>2, <1>7 DEF parse_request, e
  <2>2. (k + e) + 2 = k + (e + 2)
    BY <1>1, <1>3
  <2>3. parse_request(s, k + i) = IF q.verdict = "request" /\ q.next + q.length > Len(s) + 1
                                  THEN Outcome("incomplete", k + i, 0, FALSE) ELSE q
    BY <1>4, <1>5, <1>7, <2>2 DEF parse_request
  <2>4. r \in Outcomes(w)
    <3>1. HeadersOf(w) \in [1 .. Len(w) + 1 -> Outcomes(w)] /\ e + 2 \in 1 .. Len(w) + 1
      BY <1>1, <1>3, HeadersDefined
    <3> QED
      BY <3>1
  <2>5. r.verdict \in {"request", "malformed"} => Shifted(r, q, k)
    BY <1>3, HeadersInStream
  <2> HIDE DEF r, q
  <2>6. /\ parse_request(w, i) = r
        /\ r.verdict \in {"request", "malformed"}
        /\ ~(r.verdict = "request" /\ r.next + r.length > Len(w) + 1)
    BY <2>1 DEF Outcome
  <2>7. Shifted(r, q, k) /\ r.next \in Nat /\ r.length \in Nat
    BY <2>4, <2>5, <2>6 DEF Outcomes
  <2>8. ~(q.verdict = "request" /\ q.next + q.length > Len(s) + 1)
    BY <1>1, <2>6, <2>7 DEF Shifted
  <2> QED
    BY <2>3, <2>6, <2>7, <2>8
<1> QED
  BY <1>6, <1>7

\* The loop on the window gives the answers it would give on the stream, as far
\* as it gets; what it leaves in the window is answered as if nothing had been.
LEMMA AnswersInStream ==
    ASSUME NEW S, NEW w, NEW s, NEW k, IsWindow(S, w, s, k), NEW i \in 1 .. Len(w) + 1
    PROVE  LET p == Answering(w, k)[i]
               whole == Answering(s, 0)
           IN
           /\ p.left \in i .. Len(w) + 1
           /\ whole[k + i].answers =
                  IF p.state = "closed" THEN p.answers
                  ELSE p.answers \o whole[k + p.left].answers
<1> DEFINE n == Len(w) + 1
           f == Answering(w, k)
           g == Answering(s, 0)
           Agree(j) == /\ f[j].left \in j .. n
                       /\ g[k + j].answers =
                              IF f[j].state = "closed" THEN f[j].answers
                              ELSE f[j].answers \o g[k + f[j].left].answers
           T == {j \in 1 .. n : Agree(j)}
<1>1. /\ w \in Seq(S) /\ s \in Seq(S) /\ k \in Nat /\ k \in Int /\ 0 \in Int
      /\ k + Len(w) <= Len(s) /\ Len(s) \in Nat /\ Len(w) \in Nat /\ n \in Nat
  BY DEF IsWindow
<1>2. /\ f \in [1 .. n -> Answered(Len(w))]
      /\ \A j \in 1 .. n : f[j] = AnswerRequest(w, k, f, j)
  BY <1>1, AnsweringDefined
<1>3. /\ g \in [1 .. Len(s) + 1 -> Answered(Len(s))]
      /\ \A j \in 1 .. Len(s) + 1 : g[j] = AnswerRequest(s, 0, g, j)
  BY <1>1, AnsweringDefined
<1> HIDE DEF f, g
<1>4. ASSUME NEW j \in 1 .. n
      PROVE  k + j \in 1 .. Len(s) + 1 /\ g[k + j].answers \in Seq(Answer)
  <2>1. k + j \in 1 .. Len(s) + 1
    BY <1>1
  <2> QED
    BY <1>3, <2>1 DEF Answered
<1>5. ASSUME NEW j \in 1 .. n, \A l \in j + 1 .. n : l \in T
      PROVE  j \in T
  <2> DEFINE r == parse_request(w, j)
             q == parse_request(s, k + j)
             end == r.next + r.length
             first == [upto |-> k + end - 1, bad |-> FALSE]
  <2> SUFFICES Agree(j)
    OBVIOUS
  <2>1. AnswerCase(r, k, f, j, f[j])
    BY <1>1, <1>2, AnswerCases
  <2>2. AnswerCase(q, 0, g, k + j, g[k + j])
    BY <1>1, <1>3, <1>4, AnswerCases
  <2>3. r.verdict \in {"request", "malformed"} => Shifted(r, q, k)
    BY RequestInStream
  <2>4. r.verdict = "request" => end \in j + 1 .. n
    BY <1>1, ParsedType
  <2>5. r \in Outcomes(w)
    BY <1>1, ParsedType
  <2>6. r.verdict \in {"request", "incomplete", "malformed", "loops"}
    BY <2>5 DEF Outcomes
  <2> HIDE DEF r, q
  <2>7. CASE r.verdict \in {"loops", "incomplete"}
    <3>1. f[j].left = j /\ f[j].answers = <<>> /\ f[j].state # "closed"
      BY <2>1, <2>7 DEF AnswerCase
    <3>2. <<>> \o g[k + j].answers = g[k + j].answers
      BY <1>4, ConcatEmptySeq
    <3> QED
      BY <3>1, <3>2
  <2>8. CASE r.verdict = "malformed"
    <3>1. f[j] = [state |-> "closed", left |-> j,
                  answers |-> <<[upto |-> k + j - 1, bad |-> TRUE]>>]
      BY <2>1, <2>8 DEF AnswerCase
    <3>2. q.verdict = "malformed"
      BY <2>3, <2>8 DEF Shifted
    <3>3. g[k + j] = [state |-> "closed", left |-> k + j,
                      answers |-> <<[upto |-> 0 + (k + j) - 1, bad |-> TRUE]>>]
      BY <2>2, <3>2 DEF AnswerCase
    <3>4. 0 + (k + j) - 1 = k + j - 1
      BY <1>1
    <3> DEFINE z == <<[upto |-> k + j - 1, bad |-> TRUE]>>
    <3>5. f[j] = [state |-> "closed", left |-> j, answers |-> z]
      BY <3>1
    <3>6. g[k + j] = [state |-> "closed", left |-> k + j, answers |-> z]
      BY <3>3, <3>4
    <3> HIDE DEF z
    <3> QED
      BY <3>5, <3>6
  <2>9. CASE r.verdict = "request"
    <3>1. r.next \in Nat /\ r.length \in Nat /\ r.close \in BOOLEAN
      BY <2>5 DEF Outcomes
    <3>2. /\ q.verdict = "request" /\ q.next + q.length = k + end /\ q.close = r.close
          /\ 0 + (k + end) - 1 = k + end - 1
      BY <1>1, <2>3, <2>9, <3>1 DEF Shifted
    <3>3. end \in j + 1 .. n /\ end \in 1 .. n
      BY <2>4, <2>9
    <3> HIDE DEF end
    <3>4. CASE r.close
      <4>1. f[j] = [state |-> "closed", left |-> end, answers |-> <<first>>]
        BY <2>1, <2>9, <3>4 DEF AnswerCase, end
      <4>2. g[k + j] = [state |-> "closed", left |-> k + end, answers |-> <<first>>]
        BY <2>2, <3>2, <3>4 DEF AnswerCase
      <4> DEFINE z == <<first>>
      <4>3. f[j] = [state |-> "closed", left |-> end, answers |-> z]
        BY <4>1
      <4>4. g[k + j] = [state |-> "closed", left |-> k + end, answers |-> z]
        BY <4>2
      <4> HIDE DEF z
      <4> QED
        BY <3>3, <4>3, <4>4
    <3>5. CASE ~r.close
      <4> DEFINE x == f[end]
                 y == g[k + end]
      <4>1. f[j] = [x EXCEPT !.answers = <<first>> \o @]
        BY <2>1, <2>9, <3>5 DEF AnswerCase, end
      <4>2. g[k + j] = [y EXCEPT !.answers = <<first>> \o @]
        BY <2>2, <3>2, <3>5 DEF AnswerCase
      <4>3. x \in Answered(Len(w)) /\ y \in Answered(Len(s)) /\ Agree(end)
        BY <1>2, <1>3, <1>4, <1>5, <3>3
      <4>4. first \in Answer
        BY <1>1, <3>3 DEF Answer
      <4>5. <<first>> \in Seq(Answer)
        BY <4>4
      <4> HIDE DEF x, y, first
      <4>6. /\ f[j].left = x.left /\ f[j].state = x.state
            /\ f[j].answers = <<first>> \o x.answers
            /\ g[k + j].answers = <<first>> \o y.answers
        BY <4>1, <4>2, <4>3 DEF Answered
      <4>7. x.left \in end .. n /\ x.left \in 1 .. n /\ x.left \in j .. n
        BY <3>3, <4>3 DEF x
      <4>8. y.answers = IF x.state = "closed" THEN x.answers
                        ELSE x.answers \o g[k + x.left].answers
        BY <4>3 DEF x, y
      <4> DEFINE z == g[k + x.left].answers
      <4>9. z \in Seq(Answer) /\ x.answers \in Seq(Answer)
        BY <1>4, <4>3, <4>7 DEF Answered
      <4>10. (<<first>> \o x.answers) \o z = <<first>> \o (x.answers \o z)
        BY <4>5, <4>9, AnswersAssociate
      <4>11. CASE x.state = "closed"
        BY <4>6, <4>7, <4>8, <4>11
      <4>12. CASE x.state # "closed"
        BY <4>6, <4>7, <4>8, <4>10, <4>12
      <4> QED
        BY <4>11, <4>12
    <3> QED
      BY <3>1, <3>4, <3>5
  <2> QED
    BY <2>6, <2>7, <2>8, <2>9
<1>6. 1 .. n \subseteq T
  <2> HIDE DEF n, T
  <2> QED
    BY <1>1, <1>5, Downwards
<1> QED
  BY <1>6 DEF f, g

----------------------------------------------------------------------------
(* The poll loop and the buffer.                                            *)

\* Only clients are in the queue of connections, so an accepted connection is
\* never mistaken for none.
Inv == backlog \in Seq(Clients) /\ OneConnection

\* At first nothing is connected and connections are polled for.
LEMMA InvInit == Init => Inv
<1> SUFFICES ASSUME Init PROVE Inv
  OBVIOUS
<1>1. backlog \in Seq(Clients)
  BY DEF Init
<1> QED
  BY <1>1 DEF Init, Inv, OneConnection

\* Clients and datagrams change nothing of the process.
LEMMA InvEnvironment ==
    ASSUME Inv, Environment
    PROVE  Inv'
<1>1. UNCHANGED <<accepting, connection, state_sock, revents>>
  BY DEF Environment, Datagram, Connect, Segment, Hangup, Reset, node
<1>2. backlog' \in Seq(Clients)
  <2>1. CASE UNCHANGED backlog
    BY <2>1 DEF Inv
  <2>2. ASSUME NEW c \in Clients, backlog' = Append(backlog, c)
        PROVE  backlog' \in Seq(Clients)
    BY <2>2 DEF Inv
  <2> QED
    BY <2>1, <2>2 DEF Environment, Datagram, Connect, Segment, Hangup, Reset
<1> QED
  BY <1>1, <1>2 DEF Inv, OneConnection

\* poll() reports slot 2 only when it holds a connection.
LEMMA InvPoll ==
    ASSUME Inv, poll
    PROVE  Inv'
<1>1. UNCHANGED <<accepting, connection, state_sock, backlog>>
  BY DEF poll, node
<1>2. 2 \in revents' => connection # NoClient
  BY DEF poll, Ready
<1> QED
  BY <1>1, <1>2 DEF Inv, OneConnection

\* An accepted connection takes slot 2 and switches accepting off.
LEMMA InvAccept ==
    ASSUME Inv, accept
    PROVE  Inv'
<1>1. Head(backlog) \in Clients /\ Tail(backlog) \in Seq(Clients)
  BY DEF Inv, accept
<1>2. /\ backlog' = Tail(backlog) /\ connection' = Head(backlog)
      /\ state_sock' = Head(backlog) /\ accepting' = FALSE
  BY DEF accept
<1> QED
  BY <1>1, <1>2, ServerAssumption DEF Inv, OneConnection

\* The UDP socket has nothing to do with the connection.
LEMMA InvUdp ==
    ASSUME Inv, handle_udp_socket
    PROVE  Inv'
<1>1. UNCHANGED <<accepting, connection, state_sock, backlog>> /\ revents' \subseteq revents
  BY DEF handle_udp_socket, Slot, node
<1> QED
  BY <1>1 DEF Inv, OneConnection

\* Whichever way handle_connection() ends, the connection stays with accepting
\* off, or goes and accepting is on; slot 2 has been handled.
LEMMA InvConnection ==
    ASSUME Inv, handle_connection
    PROVE  Inv'
<1>1. backlog' = backlog /\ 2 \notin revents' /\ connection # NoClient
  BY DEF handle_connection, Slot
<1>2. \/ UNCHANGED <<accepting, connection, state_sock>>
      \/ CloseConnection
  BY DEF handle_connection, recv_error, recv_nothing, recv_some
<1>3. CASE UNCHANGED <<accepting, connection, state_sock>>
  BY <1>1, <1>3 DEF Inv, OneConnection
<1>4. CASE CloseConnection
  BY <1>1, <1>4 DEF Inv, OneConnection, CloseConnection
<1> QED
  BY <1>2, <1>3, <1>4

\* Each step of the loop or of its environment keeps the invariant.
LEMMA InvStep == Inv /\ [Next]_vars => Inv'
<1> SUFFICES ASSUME Inv, [Next]_vars PROVE Inv'
  OBVIOUS
<1>1. CASE UNCHANGED vars
  BY <1>1 DEF vars, node, Inv, OneConnection
<1> QED
  BY <1>1, InvEnvironment, InvPoll, InvAccept, InvUdp, InvConnection DEF Next, NodeStep

\* Whatever clients send, and however their connections end, the process
\* listens exactly when it has no connection, and an event on slot 2 is for the
\* connection whose buffer this is: the assert in main() never fails.
THEOREM OnlyOneConnection == Spec => []OneConnection
<1>1. Inv => OneConnection
  BY DEF Inv
<1> QED
  BY <1>1, InvInit, InvStep, PTL DEF Spec

----------------------------------------------------------------------------
(* Types.                                                                   *)

\* TypeOK, and the sequences it does not look into.
Typed ==
    /\ TypeOK
    /\ stream \in [Clients -> AllStreams]
    /\ sent \in [Clients -> Nat]
    /\ buffer \in Seq(Symbols)
    /\ received \in [Clients -> Seq(Symbols)]
    /\ answers \in [Clients -> Seq(Answer)]

\* What a client sends is a sequence of symbols.
LEMMA StreamsAreSequences == AllStreams \subseteq Seq(Symbols)
  BY ServerAssumption DEF AllStreams

\* Nothing is connected, received or sent.
LEMMA TypedInit == Init => Typed
<1> SUFFICES ASSUME Init PROVE Typed
  OBVIOUS
<1>1. stream \in [Clients -> Seq(Symbols)]
  BY StreamsAreSequences DEF Init
<1>2. \A c \in Clients : 0 \in 0 .. Len(stream[c])
  BY <1>1
<1>3. MaxUdp \in Nat /\ HTTP_MAX_SIZE \in Nat
  BY ServerAssumption
<1>4. <<>> \in Seq(Symbols) /\ <<>> \in Seq(Answer) /\ Len(<<>>) = 0
  BY EmptySeq
<1> QED
  BY <1>2, <1>3, <1>4 DEF Init, Typed, TypeOK

\* Segments are cut from the stream of the client, in order.
LEMMA TypedSegment ==
    ASSUME Typed, NEW c \in Clients, Segment(c)
    PROVE  Typed'
<1>1. PICK n \in sent[c] + 1 .. Len(stream[c]) :
          /\ sent' = [sent EXCEPT ![c] = n]
          /\ received' = [received EXCEPT
                 ![c] = IF c \in served THEN @ ELSE @ \o SubSeq(stream[c], sent[c] + 1, n)]
  BY DEF Segment
<1>2. stream[c] \in Seq(Symbols) /\ sent[c] \in 0 .. Len(stream[c])
  BY StreamsAreSequences DEF Typed, TypeOK
<1>3. n \in 0 .. Len(stream[c]) /\ n \in Nat
  BY <1>1, <1>2
<1>4. SubSeq(stream[c], sent[c] + 1, n) \in Seq(Symbols)
  <2>1. \A i \in sent[c] + 1 .. n : stream[c][i] \in Symbols
    BY <1>1, <1>2
  <2> QED
    BY <1>2, <1>3, <2>1, SubSeqProperties
<1>5. received' \in [Clients -> Seq(Symbols)]
  <2>1. received[c] \o SubSeq(stream[c], sent[c] + 1, n) \in Seq(Symbols)
    BY <1>4, ConcatProperties DEF Typed
  <2>2. received[c] \in Seq(Symbols) /\ received \in [Clients -> Seq(Symbols)]
    BY DEF Typed
  <2> QED
    BY <1>1, <2>1, <2>2
<1>6. sent' \in [Clients -> Nat] /\ \A d \in Clients : sent'[d] \in 0 .. Len(stream[d])
  BY <1>1, <1>3 DEF Typed, TypeOK
<1>7. UNCHANGED <<node, revents, udp, stream, mode>>
  BY DEF Segment
<1> QED
  BY <1>5, <1>6, <1>7 DEF Typed, TypeOK, node

\* What recv() adds fits into the buffer, and is answered within the buffer.
LEMMA WindowTyped ==
    ASSUME Typed, connection \in Clients,
           NEW n \in Nat, n <= Len(received[connection]), n <= room
    PROVE  LET w == buffer \o SubSeq(received[connection], 1, n) IN
           /\ w \in Seq(Symbols) /\ Len(w) = Len(buffer) + n /\ Len(w) <= HTTP_MAX_SIZE
           /\ AnswerWindow(w, consumed) \in Answered(Len(w))
           /\ SubSeq(received[connection], n + 1, Len(received[connection])) \in Seq(Symbols)
<1> DEFINE u == received[connection]
           v == SubSeq(u, 1, n)
           w == buffer \o v
<1>1. u \in Seq(Symbols) /\ buffer \in Seq(Symbols) /\ consumed \in Int
  BY DEF Typed, TypeOK
<1> HIDE DEF u
<1>2. v \in Seq(Symbols) /\ Len(v) = n
  <2>1. \A i \in 1 .. n : u[i] \in Symbols
    BY <1>1 DEF u
  <2> QED
    BY <1>1, <2>1, SubSeqProperties
<1>3. SubSeq(u, n + 1, Len(u)) \in Seq(Symbols)
  <2>1. \A i \in n + 1 .. Len(u) : u[i] \in Symbols
    BY <1>1
  <2> QED
    BY <1>1, <2>1, SubSeqProperties
<1> HIDE DEF v
<1>4. w \in Seq(Symbols) /\ Len(w) = Len(buffer) + n
  BY <1>1, <1>2, ConcatProperties
<1>5. Len(w) <= HTTP_MAX_SIZE
  BY <1>1, <1>4, ServerAssumption DEF room
<1> HIDE DEF w
<1>6. AnswerWindow(w, consumed) \in Answered(Len(w))
  <2>1. 1 \in 1 .. Len(w) + 1
    BY <1>4
  <2> QED
    BY <1>1, <1>4, <2>1, AnsweringDefined, AnswersFromFront
<1> QED
  BY <1>3, <1>4, <1>5, <1>6 DEF u, v, w

\* The amount that handle_connection() receives.
LEMMA AmountReceived ==
    ASSUME Typed, connection \in Clients
    PROVE  LET unread == Len(received[connection])
               n == IF unread <= room THEN unread ELSE room
           IN  n \in Nat /\ n <= unread /\ n <= room
<1>1. Len(received[connection]) \in Nat /\ Len(buffer) \in Nat
  BY DEF Typed
<1>2. room \in Nat
  BY <1>1, ServerAssumption DEF room, Typed, TypeOK
<1> QED
  BY <1>1, <1>2

\* The buffer keeps what is left of the window; nothing else gets a new value.
LEMMA TypedConnection ==
    ASSUME Typed, Inv, handle_connection
    PROVE  Typed'
<1> DEFINE unread == Len(received[connection])
           n == IF unread <= room THEN unread ELSE room
           w == buffer \o SubSeq(received[connection], 1, n)
           p == AnswerWindow(w, consumed)
<1>1. connection \in Clients
  BY DEF Typed, TypeOK, handle_connection
<1>2. n \in Nat /\ n <= unread /\ n <= room
  BY <1>1, AmountReceived
<1>3. /\ recv_error \/ recv_nothing(n) \/ recv_some(n)
      /\ UNCHANGED <<udp, peers>> /\ revents' \subseteq revents
  BY DEF handle_connection, Slot
<1> HIDE DEF n
<1>4. /\ w \in Seq(Symbols) /\ Len(w) <= HTTP_MAX_SIZE /\ p \in Answered(Len(w))
      /\ SubSeq(received[connection], n + 1, unread) \in Seq(Symbols)
  BY <1>1, <1>2, WindowTyped
<1>5. connection \in Clients \cup {NoClient} /\ served \cup {connection} \subseteq Clients
  BY <1>1 DEF Typed, TypeOK
<1>6. revents' \subseteq 0 .. 2
  BY <1>3 DEF Typed, TypeOK
<1>7. CASE recv_error
  BY <1>3, <1>6, <1>7 DEF recv_error, Typed, TypeOK, peers
<1>8. CASE recv_nothing(n)
  BY <1>3, <1>5, <1>6, <1>8 DEF recv_nothing, CloseConnection, Typed, TypeOK, peers
<1>9. CASE recv_some(n)
  <2>1. /\ received' = [received EXCEPT ![connection] = SubSeq(@, n + 1, Len(@))]
        /\ answers' = [answers EXCEPT ![connection] = @ \o p.answers]
        /\ \/ /\ p.state = "open"
              /\ buffer' = Buffered(w, p.left)
              /\ consumed' = consumed + p.left - 1
              /\ UNCHANGED <<accepting, connection, state_sock, process, served>>
           \/ /\ p.state = "closed"
              /\ CloseConnection
              /\ UNCHANGED <<buffer, consumed, process>>
           \/ /\ p.state = "loops"
              /\ process' = "stuck"
              /\ UNCHANGED <<accepting, connection, state_sock, buffer, consumed, served>>
    BY <1>9 DEF recv_some
  <2> HIDE DEF p, w
  <2>2. received' \in [Clients -> Seq(Symbols)]
    BY <1>4, <2>1 DEF Typed
  <2>3. answers' \in [Clients -> Seq(Answer)]
    <3>1. answers[connection] \o p.answers \in Seq(Answer)
      BY <1>1, <1>4, ConcatProperties DEF Typed, Answered
    <3> QED
      BY <2>1, <3>1 DEF Typed
  <2>4. buffer' \in Seq(Symbols) /\ Len(buffer') <= HTTP_MAX_SIZE /\ consumed' \in Nat
    <3>1. CASE UNCHANGED <<buffer, consumed>>
      BY <3>1 DEF Typed, TypeOK
    <3>2. CASE buffer' = Buffered(w, p.left) /\ consumed' = consumed + p.left - 1
      <4>1. p.left \in 1 .. Len(w) + 1 /\ Len(w) \in Nat /\ HTTP_MAX_SIZE \in Nat
        BY <1>4, ServerAssumption DEF Answered
      <4>2. \A i \in p.left .. Len(w) : w[i] \in Symbols
        BY <1>4, <4>1
      <4>3. /\ SubSeq(w, p.left, Len(w)) \in Seq(Symbols)
            /\ Len(SubSeq(w, p.left, Len(w))) <= Len(w)
            /\ Len(SubSeq(w, p.left, Len(w))) \in Nat
        BY <4>1, <4>2, SubSeqProperties
      <4>4. consumed' \in Nat
        <5>1. consumed \in Nat
          BY DEF Typed, TypeOK
        <5> QED
          BY <3>2, <4>1, <5>1
      <4> QED
        BY <1>4, <3>2, <4>1, <4>3, <4>4 DEF Buffered
    <3> QED
      BY <2>1, <3>1, <3>2
  <2>5. /\ accepting' \in BOOLEAN /\ served' \subseteq Clients
        /\ {connection', state_sock'} \subseteq Clients \cup {NoClient}
        /\ process' \in {"running", "stuck", "exited"}
    BY <1>5, <2>1 DEF CloseConnection, Typed, TypeOK
  <2> QED
    BY <1>3, <1>6, <2>2, <2>3, <2>4, <2>5 DEF Typed, TypeOK, peers
<1> QED
  BY <1>3, <1>7, <1>8, <1>9

\* Every step keeps the types.
LEMMA TypedStep ==
    ASSUME Typed, Inv, [Next]_vars
    PROVE  Typed'
<1>1. CASE UNCHANGED vars
  BY <1>1 DEF vars, node, peers, Typed, TypeOK
<1>2. CASE Datagram
  BY SMTT(40), <1>2, ServerAssumption DEF Datagram, node, Typed, TypeOK
<1>3. ASSUME NEW c \in Clients, Connect(c) \/ Hangup(c) \/ Reset(c)
      PROVE  Typed'
  <2>1. mode' \in [Clients -> {"new", "open", "done", "reset"}]
    BY <1>3 DEF Connect, Hangup, Reset, Typed, TypeOK
  <2>2. UNCHANGED <<node, revents, received, udp, stream, sent>>
    BY <1>3 DEF Connect, Hangup, Reset
  <2> QED
    BY <2>1, <2>2 DEF node, Typed, TypeOK
<1>4. CASE poll
  BY <1>4 DEF poll, Ready, node, peers, Typed, TypeOK
<1>5. CASE accept
  <2>1. Head(backlog) \in Clients
    BY <1>5 DEF Inv, accept
  <2>2. <<>> \in Seq(Symbols) /\ Len(<<>>) = 0 /\ HTTP_MAX_SIZE \in Nat
    BY EmptySeq, ServerAssumption
  <2>3. /\ accepting' \in BOOLEAN /\ consumed' \in Nat
        /\ {connection', state_sock'} \subseteq Clients \cup {NoClient}
        /\ buffer' \in Seq(Symbols) /\ Len(buffer') <= HTTP_MAX_SIZE
    <3>1. buffer' = <<>> /\ consumed' = 0 /\ accepting' = FALSE
      BY <1>5 DEF accept
    <3>2. buffer' \in Seq(Symbols) /\ Len(buffer') <= HTTP_MAX_SIZE
      BY <2>2, <3>1
    <3>3. connection' = Head(backlog) /\ state_sock' = Head(backlog)
      BY <1>5 DEF accept
    <3> QED
      BY <2>1, <3>1, <3>2, <3>3
  <2>4. revents' \subseteq 0 .. 2
    BY <1>5 DEF accept, Slot, Typed, TypeOK
  <2>5. UNCHANGED <<process, answers, served, received, udp, peers>>
    BY <1>5 DEF accept
  <2> QED
    BY <2>3, <2>4, <2>5 DEF peers, Typed, TypeOK
<1>6. CASE handle_udp_socket
  BY <1>6, ServerAssumption DEF handle_udp_socket, Slot, node, peers, Typed, TypeOK
<1> QED
  BY <1>1, <1>2, <1>3, <1>4, <1>5, <1>6, TypedSegment, TypedConnection
  DEF Next, Environment, NodeStep

\* Clients send what they mean to send, in order, and the buffer never grows
\* beyond its size, whatever is received and however the connection ends.
THEOREM BufferFits == Spec => []TypeOK
<1>1. Typed => TypeOK
  BY DEF Typed
<1>2. Typed /\ Inv /\ [Next]_vars => Typed'
  BY TypedStep
<1> QED
  BY <1>1, <1>2, TypedInit, InvInit, InvStep, PTL DEF Spec

----------------------------------------------------------------------------
(* The stream behind the buffer.                                            *)

\* A client has one connection, which waits, is handled and is closed in turn.
Queue ==
    /\ \A i, j \in 1 .. Len(backlog) : backlog[i] = backlog[j] => i = j
    /\ \A i \in 1 .. Len(backlog) : /\ mode[backlog[i]] # "new"
                                    /\ backlog[i] \notin served \cup {connection}
    /\ \A c \in served \cup ({connection} \ {NoClient}) : mode[c] # "new"
    /\ connection \notin served
    /\ 0 \in revents => accepting

\* Nothing is read from a connection that is not accepted.
Unread == \A c \in Clients \ (served \cup {connection}) :
              Part(received[c], stream[c], 0, sent[c]) /\ answers[c] = <<>>

\* Client c's stream goes on from position k with buffer b, unread data u; the
\* answers to the whole stream are those given, a, and the ones due from there on.
Continues(c, k, b, u, a) ==
    /\ Part(b \o u, stream[c], k, sent[c])
    /\ WholeAnswers[stream[c]] = a \o Answering(stream[c], 0)[k + 1].answers

\* What is buffered and unread continues the stream of the client connected.
Kept == connection # NoClient /\ process = "running" =>
            Continues(connection, consumed, buffer, received[connection], answers[connection])

\* The answers given begin those to the whole stream.
Begun == \A c \in Clients : \E z \in Seq(Answer) : WholeAnswers[stream[c]] = answers[c] \o z

StreamInv == Queue /\ Unread /\ Kept /\ Begun

\* The answers to a stream are a sequence of answers, at every position.
LEMMA WholeAnswersType ==
    ASSUME NEW s \in AllStreams
    PROVE  /\ s \in Seq(Symbols) /\ Len(s) \in Nat
           /\ Answering(s, 0) \in [1 .. Len(s) + 1 -> Answered(Len(s))]
           /\ WholeAnswers[s] = Answering(s, 0)[1].answers
           /\ \A k \in 1 .. Len(s) + 1 : Answering(s, 0)[k].answers \in Seq(Answer)
<1>1. s \in Seq(Symbols) /\ Len(s) \in Nat /\ 0 \in Int
  BY StreamsAreSequences
<1>2. Answering(s, 0) \in [1 .. Len(s) + 1 -> Answered(Len(s))]
  BY <1>1, AnsweringDefined
<1>3. WholeAnswers[s] = Answering(s, 0)[1].answers
  BY AnswersFromFront DEF WholeAnswers
<1> QED
  BY <1>1, <1>2, <1>3 DEF Answered

\* The answers p to window w of client c's stream are due behind those given, a;
\* unless they end the connection, the rest of w and the data v go on from there.
Resumes(c, k, w, v, a, p) ==
    /\ p.state # "closed" =>
           Continues(c, k + p.left - 1, SubSeq(w, p.left, Len(w)), v, a \o p.answers)
    /\ \E z \in Seq(Answer) : WholeAnswers[stream[c]] = (a \o p.answers) \o z

\* What was sent and not consumed, cut where the buffer ends, and answered.
LEMMA WindowAnswered ==
    ASSUME Typed, NEW c \in Clients, NEW k \in Nat, NEW b \in Seq(Symbols),
           NEW u \in Seq(Symbols), NEW a \in Seq(Answer), Continues(c, k, b, u, a),
           NEW n \in Nat, n <= Len(u)
    PROVE  LET w == b \o SubSeq(u, 1, n)
               v == SubSeq(u, n + 1, Len(u))
           IN  Resumes(c, k, w, v, a, AnswerWindow(w, k))
<1> DEFINE s == stream[c]
           w == b \o SubSeq(u, 1, n)
           v == SubSeq(u, n + 1, Len(u))
           p == AnswerWindow(w, k)
           rest == SubSeq(w, p.left, Len(w))
           whole == Answering(s, 0)
<1>1. /\ s \in AllStreams /\ s \in Seq(Symbols) /\ Len(s) \in Nat
      /\ WholeAnswers[s] = whole[1].answers
      /\ \A j \in 1 .. Len(s) + 1 : whole[j].answers \in Seq(Answer)
  BY WholeAnswersType DEF Typed
<1>2. sent[c] \in 0 .. Len(s)
  BY DEF Typed, TypeOK
<1> HIDE DEF s
<1> DEFINE m == k + Len(b)
           f == m + n
<1>3. /\ Part(b, s, k, m) /\ Part(u, s, m, sent[c])
      /\ k \in Nat /\ m \in Nat /\ f \in Nat /\ sent[c] = m + Len(u) /\ f <= sent[c]
  <2>1. Part(b \o u, s, k, sent[c])
    BY DEF Continues, s
  <2>2. Part(b, s, k, m) /\ Part(u, s, m, sent[c])
    BY <2>1, PartSplit
  <2>3. Len(b) \in Nat /\ Len(u) \in Nat /\ Len(u) = sent[c] - m
    BY <2>2 DEF Part
  <2> QED
    BY <1>2, <2>2, <2>3
<1> HIDE DEF m
<1>4. SubSeq(u, 1, n) \in Seq(Symbols) /\ Part(SubSeq(u, 1, n), s, m, f)
  <2>1. 1 \in 1 .. Len(u) + 1 /\ n \in 0 .. Len(u) /\ 1 <= n + 1 /\ m + (1 - 1) = m
    BY <1>3
  <2>2. SubSeq(u, 1, n) \in Seq(Symbols) /\ Part(SubSeq(u, 1, n), s, m + (1 - 1), m + n)
    BY <1>3, <2>1, PartOfPart
  <2> QED
    BY <2>1, <2>2
<1>5. v \in Seq(Symbols) /\ Part(v, s, f, sent[c])
  <2>1. /\ n + 1 \in 1 .. Len(u) + 1 /\ Len(u) \in 0 .. Len(u) /\ n + 1 <= Len(u) + 1
        /\ m + ((n + 1) - 1) = f
    BY <1>3
  <2>2. v \in Seq(Symbols) /\ Part(v, s, m + ((n + 1) - 1), m + Len(u))
    BY <1>3, <2>1, PartOfPart
  <2> QED
    BY <1>3, <2>1, <2>2
<1> HIDE DEF v, f
<1>6. w \in Seq(Symbols) /\ Part(w, s, k, f)
  BY <1>3, <1>4, PartJoin, ConcatProperties
<1> HIDE DEF w
<1>7. Len(w) \in Nat /\ Len(w) = f - k /\ k + Len(w) = f
  BY <1>3, <1>6 DEF Part
<1>8. IsWindow(Symbols, w, s, k)
  <2>1. k + Len(w) <= Len(s)
    BY <1>1, <1>2, <1>3, <1>7
  <2>2. \A i \in 1 .. Len(w) : w[i] = s[k + i]
    BY <1>6, <1>7 DEF Part
  <2> QED
    BY <1>1, <1>6, <2>1, <2>2 DEF IsWindow
<1>9. /\ p = Answering(w, k)[1] /\ p \in Answered(Len(w)) /\ 1 \in 1 .. Len(w) + 1
  <2>1. 1 \in 1 .. Len(w) + 1 /\ k \in Int
    BY <1>7
  <2> QED
    BY <1>6, <2>1, AnsweringDefined, AnswersFromFront
<1>10. /\ p.left \in 1 .. Len(w) + 1
       /\ whole[k + 1].answers = IF p.state = "closed" THEN p.answers
                                 ELSE p.answers \o whole[k + p.left].answers
  BY <1>8, <1>9, AnswersInStream
<1>11. WholeAnswers[s] = a \o whole[k + 1].answers
  BY DEF Continues, s
<1> HIDE DEF p, whole
<1>12. p.answers \in Seq(Answer)
  BY <1>9 DEF Answered
<1> DEFINE z == whole[k + p.left].answers
<1>13. z \in Seq(Answer)
  <2>1. k + p.left \in 1 .. Len(s) + 1
    <3> DEFINE left == p.left
    <3>1. left \in 1 .. Len(w) + 1
      BY <1>10
    <3> HIDE DEF left
    <3>2. k + left \in 1 .. Len(s) + 1
      BY <1>1, <1>2, <1>3, <1>7, <3>1
    <3> QED
      BY <3>2 DEF left
  <2> QED
    BY <1>1, <2>1
<1> HIDE DEF z
<1>14. (a \o p.answers) \o z = a \o (p.answers \o z)
  BY <1>12, <1>13, AnswersAssociate
<1>15. CASE p.state = "closed"
  <2>1. WholeAnswers[s] = a \o p.answers
    BY <1>10, <1>11, <1>15
  <2>2. (a \o p.answers) \o <<>> = a \o p.answers /\ <<>> \in Seq(Answer)
    BY <1>12, ConcatProperties, ConcatEmptySeq, EmptySeq
  <2> QED
    BY <1>15, <2>1, <2>2 DEF Resumes, p, w, s
<1>16. CASE p.state # "closed"
  <2>1. WholeAnswers[s] = (a \o p.answers) \o z
    BY <1>10, <1>11, <1>14, <1>16 DEF z
  <2> DEFINE left == p.left
  <2>2. left \in 1 .. Len(w) + 1
    BY <1>10
  <2> HIDE DEF left
  <2>3. /\ Len(w) \in 0 .. Len(w) /\ left <= Len(w) + 1
        /\ k + Len(w) = f /\ k + left - 1 = k + (left - 1)
    BY <1>3, <1>7, <2>2
  <2>4. /\ SubSeq(w, left, Len(w)) \in Seq(Symbols)
        /\ Part(SubSeq(w, left, Len(w)), s, k + (left - 1), k + Len(w))
    BY <1>6, <2>2, <2>3, PartOfPart
  <2>5. Part(SubSeq(w, left, Len(w)) \o v, s, k + left - 1, sent[c])
    BY <1>5, <2>3, <2>4, PartJoin
  <2>6. (k + left - 1) + 1 = k + left
    BY <1>3, <2>2
  <2>7. Continues(c, k + left - 1, SubSeq(w, left, Len(w)), v, a \o p.answers)
    BY <2>1, <2>5, <2>6 DEF Continues, s, whole, z, left
  <2>8. Continues(c, k + p.left - 1, rest, v, a \o p.answers)
    BY <2>7 DEF left
  <2> QED
    BY <1>13, <2>1, <2>8 DEF Resumes, rest, v, p, w, s
<1> QED
  BY <1>15, <1>16

\* At first nothing is sent, received or answered.
LEMMA StreamInit == Init /\ Typed => StreamInv
<1> SUFFICES ASSUME Init, Typed PROVE StreamInv
  OBVIOUS
<1>1. Queue
  <2>1. Len(backlog) = 0
    BY DEF Init
  <2> QED
    BY <2>1 DEF Init, Queue
<1>2. Unread
  <2>1. \A s : Part(<<>>, s, 0, 0)
    BY DEF Part
  <2> QED
    BY <2>1 DEF Init, Unread
<1>3. Kept
  BY DEF Init, Kept
<1>4. Begun
  <2> SUFFICES ASSUME NEW c \in Clients
               PROVE  \E z \in Seq(Answer) : WholeAnswers[stream[c]] = answers[c] \o z
    BY DEF Begun
  <2> DEFINE z == WholeAnswers[stream[c]]
  <2>1. z \in Seq(Answer)
    <3>1. stream[c] \in AllStreams
      BY DEF Typed
    <3>2. 1 \in 1 .. Len(stream[c]) + 1
      BY <3>1, WholeAnswersType
    <3> QED
      BY <3>1, <3>2, WholeAnswersType
  <2> HIDE DEF z
  <2>2. answers[c] = <<>> /\ <<>> \o z = z
    BY <2>1, ConcatEmptySeq DEF Init
  <2> QED
    BY <2>1, <2>2 DEF z
<1> QED
  BY <1>1, <1>2, <1>3, <1>4 DEF StreamInv

\* A client that connects is new: neither handled nor served nor waiting.
LEMMA StreamConnect ==
    ASSUME Typed, Inv, StreamInv, NEW c \in Clients, Connect(c)
    PROVE  StreamInv'
<1>1. /\ mode[c] = "new" /\ mode' = [mode EXCEPT ![c] = "open"]
      /\ backlog' = Append(backlog, c) /\ mode \in [Clients -> {"new", "open", "done", "reset"}]
      /\ UNCHANGED <<node, revents, received, stream, sent>>
  BY DEF Connect, Typed, TypeOK
<1>2. Queue'
  <2>1. /\ Len(backlog') = Len(backlog) + 1 /\ backlog'[Len(backlog) + 1] = c
        /\ \A i \in 1 .. Len(backlog) : backlog'[i] = backlog[i] /\ backlog[i] \in Clients
    BY <1>1 DEF Inv
  <2>2. c \notin served \cup {connection} /\ c # NoClient
    BY <1>1, ServerAssumption DEF StreamInv, Queue
  <2>3. \A i \in 1 .. Len(backlog) : backlog[i] # c
    BY <1>1 DEF StreamInv, Queue
  <2>4. Len(backlog) \in Nat
    BY DEF Inv
  <2>5. \A i \in 1 .. Len(backlog') : i \in 1 .. Len(backlog) \/ i = Len(backlog) + 1
    BY <2>1, <2>4
  <2>6. served \subseteq Clients /\ connection \in Clients \cup {NoClient}
    BY DEF Typed, TypeOK
  <2>7. \A d \in Clients : d # c => mode'[d] = mode[d]
    BY <1>1
  <2>8. mode'[c] = "open" /\ UNCHANGED <<served, connection, revents, accepting>>
    BY <1>1 DEF node
  <2>9. \A i, j \in 1 .. Len(backlog') : backlog'[i] = backlog'[j] => i = j
    BY <2>1, <2>3, <2>5 DEF StreamInv, Queue
  <2>10. \A i \in 1 .. Len(backlog') : /\ mode'[backlog'[i]] # "new"
                                      /\ backlog'[i] \notin served' \cup {connection'}
    BY <2>1, <2>2, <2>3, <2>5, <2>7, <2>8 DEF StreamInv, Queue
  <2>11. \A d \in served' \cup ({connection'} \ {NoClient}) : mode'[d] # "new"
    BY <2>6, <2>7, <2>8 DEF StreamInv, Queue
  <2> QED
    BY <2>8, <2>9, <2>10, <2>11 DEF StreamInv, Queue
<1>3. Unread' /\ Kept' /\ Begun'
  BY <1>1 DEF StreamInv, Unread, Kept, Begun, Continues, node
<1> QED
  BY <1>2, <1>3 DEF StreamInv

\* A client that stops sending is not new again.
LEMMA StreamHangup ==
    ASSUME Typed, Inv, StreamInv, NEW c \in Clients, Hangup(c) \/ Reset(c)
    PROVE  StreamInv'
<1>1. /\ \A d \in Clients : mode[d] # "new" => mode'[d] # "new"
      /\ UNCHANGED <<node, revents, backlog, received, stream, sent>>
  BY DEF Hangup, Reset, Typed, TypeOK
<1>2. Queue'
  <2>1. /\ \A i \in 1 .. Len(backlog) : backlog[i] \in Clients
        /\ served \subseteq Clients /\ connection \in Clients \cup {NoClient}
    BY SMTT(30) DEF Inv, Typed, TypeOK
  <2> QED
    BY <1>1, <2>1 DEF StreamInv, Queue, node
<1>3. Unread' /\ Kept' /\ Begun'
  BY <1>1 DEF StreamInv, Unread, Kept, Begun, Continues, node
<1> QED
  BY <1>2, <1>3 DEF StreamInv

\* Data is put behind data in any grouping.
LEMMA SymbolsAssociate ==
    \A x, y, z \in Seq(Symbols) : (x \o y) \o z = x \o (y \o z)
  BY ConcatAssociative

\* A segment goes behind the data of its client.
LEMMA StreamSegment ==
    ASSUME Typed, Inv, StreamInv, NEW c \in Clients, Segment(c)
    PROVE  StreamInv'
<1>1. PICK n \in sent[c] + 1 .. Len(stream[c]) :
          /\ sent' = [sent EXCEPT ![c] = n]
          /\ received' = [received EXCEPT
                 ![c] = IF c \in served THEN @ ELSE @ \o SubSeq(stream[c], sent[c] + 1, n)]
  BY DEF Segment
<1>2. UNCHANGED <<node, revents, backlog, stream, mode>>
  BY DEF Segment
<1>3. stream[c] \in Seq(Symbols) /\ sent[c] \in 0 .. Len(stream[c]) /\ Len(stream[c]) \in Nat
  BY StreamsAreSequences DEF Typed, TypeOK
<1>4. received[c] \in Seq(Symbols) /\ buffer \in Seq(Symbols)
  BY DEF Typed
<1> DEFINE new == SubSeq(stream[c], sent[c] + 1, n)
<1>5. new \in Seq(Symbols) /\ Part(new, stream[c], sent[c], n)
  <2>1. \A i \in sent[c] + 1 .. n : stream[c][i] \in Symbols
    BY <1>1, <1>3
  <2>2. new \in Seq(Symbols)
    BY <1>1, <1>3, <2>1, SubSeqProperties
  <2>3. sent[c] \in Nat /\ n \in 0 .. Len(stream[c]) /\ sent[c] <= n
    BY <1>1, <1>3
  <2> HIDE DEF new
  <2>4. new = SubSeq(stream[c], sent[c] + 1, n)
    BY DEF new
  <2> QED
    BY <1>3, <2>2, <2>3, <2>4, PartIsSubSeq
<1> HIDE DEF new
<1>6. /\ sent'[c] = n /\ (c \notin served => received'[c] = received[c] \o new)
      /\ \A d \in Clients \ {c} : sent'[d] = sent[d] /\ received'[d] = received[d]
  BY <1>1 DEF Typed, new
<1>7. Queue' /\ Begun'
  BY <1>2 DEF StreamInv, Queue, Begun, node
<1>8. Unread'
  <2> SUFFICES ASSUME NEW d \in Clients \ (served \cup {connection})
               PROVE  Part(received'[d], stream[d], 0, sent'[d]) /\ answers[d] = <<>>
    BY <1>2 DEF Unread, node
  <2>1. Part(received[d], stream[d], 0, sent[d]) /\ answers[d] = <<>>
    BY DEF StreamInv, Unread
  <2>2. CASE d = c
    <3>1. Part(received[c] \o new, stream[c], 0, n)
      BY <1>4, <1>5, <2>1, <2>2, PartJoin
    <3> QED
      BY <1>6, <2>1, <2>2, <3>1
  <2>3. CASE d # c
    BY <1>6, <2>1, <2>3
  <2> QED
    BY <2>2, <2>3
<1>9. Kept'
  <2> SUFFICES ASSUME connection # NoClient, process = "running"
               PROVE  Continues(connection, consumed, buffer, received[connection], answers[connection])'
    BY <1>2 DEF Kept, node
  <2>1. Continues(connection, consumed, buffer, received[connection], answers[connection])
    BY DEF StreamInv, Kept
  <2>2. connection \in Clients
    BY DEF Typed, TypeOK
  <2>3. CASE connection = c
    <3>1. c \notin served
      BY <2>3 DEF StreamInv, Queue
    <3> DEFINE x == buffer \o received[c]
    <3>2. x \in Seq(Symbols) /\ Part(x, stream[c], consumed, sent[c])
      BY <1>4, <2>1, <2>3, ConcatProperties DEF Continues
    <3>3. Part(x \o new, stream[c], consumed, n)
      <4> HIDE DEF x
      <4> QED
        BY <1>5, <3>2, PartJoin
    <3>4. x \o new = buffer \o (received[c] \o new)
      BY <1>4, <1>5, SymbolsAssociate
    <3> HIDE DEF x
    <3>5. Part(buffer \o received'[c], stream[c], consumed, sent'[c])
      BY <1>6, <3>1, <3>3, <3>4
    <3> QED
      BY <1>2, <2>1, <2>3, <3>5 DEF Continues, node
  <2>4. CASE connection # c
    BY <1>2, <1>6, <2>1, <2>2, <2>4 DEF Continues, node
  <2> QED
    BY <2>3, <2>4
<1> QED
  BY <1>7, <1>8, <1>9 DEF StreamInv

\* A connection is accepted while there is none, with an empty buffer, and
\* everything its client has sent is still to be read.
LEMMA StreamAccept ==
    ASSUME Typed, Inv, StreamInv, accept
    PROVE  StreamInv'
<1> DEFINE c == Head(backlog)
<1>1. /\ backlog' = Tail(backlog) /\ connection' = c /\ buffer' = <<>> /\ consumed' = 0
      /\ accepting' = FALSE /\ 0 \in revents /\ revents' = revents \ {0}
      /\ UNCHANGED <<process, answers, served, received, udp, peers>>
  BY DEF accept, Slot
<1>2. connection = NoClient
  BY <1>1 DEF StreamInv, Queue, Inv, OneConnection
<1>3. /\ backlog \in Seq(Clients) /\ backlog # <<>> /\ c = backlog[1] /\ c \in Clients
      /\ 1 \in 1 .. Len(backlog) /\ Len(backlog) \in Nat
  BY DEF Inv, accept
<1>4. /\ Len(backlog') = Len(backlog) - 1
      /\ \A i \in 1 .. Len(backlog') : backlog'[i] = backlog[i + 1]
  BY <1>1, <1>3, HeadTailProperties
<1> HIDE DEF c
<1>5. c \notin served /\ c # NoClient /\ mode[c] # "new"
  BY <1>3, ServerAssumption DEF StreamInv, Queue
<1>6. UNCHANGED <<stream, sent, mode>>
  BY <1>1 DEF peers
<1>7. Queue'
  <2>1. \A i \in 1 .. Len(backlog') : i + 1 \in 1 .. Len(backlog) /\ i + 1 # 1
    BY <1>3, <1>4
  <2>2. \A i, j \in 1 .. Len(backlog') : backlog'[i] = backlog'[j] => i = j
    <3> SUFFICES ASSUME NEW i \in 1 .. Len(backlog'), NEW j \in 1 .. Len(backlog'),
                        backlog'[i] = backlog'[j]
                 PROVE  i = j
      OBVIOUS
    <3>1. i + 1 = j + 1
      BY <1>4, <2>1 DEF StreamInv, Queue
    <3> QED
      BY <3>1
  <2>3. \A i \in 1 .. Len(backlog') : backlog'[i] # c
    BY <1>3, <1>4, <2>1 DEF StreamInv, Queue
  <2>4. \A i \in 1 .. Len(backlog') : mode[backlog'[i]] # "new" /\ backlog'[i] \notin served
    BY <1>4, <2>1 DEF StreamInv, Queue
  <2>5. \A d \in served : mode[d] # "new"
    BY DEF StreamInv, Queue
  <2> QED
    BY <1>1, <1>5, <1>6, <2>2, <2>3, <2>4, <2>5 DEF Queue
<1>8. Unread'
  BY <1>1, <1>2, <1>3, <1>5, <1>6, ServerAssumption DEF StreamInv, Unread
<1>9. Kept'
  <2>1. Part(received[c], stream[c], 0, sent[c]) /\ answers[c] = <<>>
    BY <1>2, <1>3, <1>5 DEF StreamInv, Unread
  <2>2. received[c] \in Seq(Symbols) /\ stream[c] \in AllStreams
    BY <1>3 DEF Typed
  <2>3. <<>> \o received[c] = received[c]
    BY <2>2, ConcatEmptySeq
  <2> DEFINE z == Answering(stream[c], 0)[1].answers
  <2>4. WholeAnswers[stream[c]] = z /\ z \in Seq(Answer)
    <3>1. 1 \in 1 .. Len(stream[c]) + 1
      BY <2>2, WholeAnswersType
    <3> QED
      BY <2>2, <3>1, WholeAnswersType
  <2>5. WholeAnswers[stream[c]] = <<>> \o Answering(stream[c], 0)[0 + 1].answers
    <3> HIDE DEF z
    <3>1. <<>> \o z = z
      BY <2>4, ConcatEmptySeq
    <3> QED
      BY <2>4, <3>1 DEF z
  <2>6. Continues(c, 0, <<>>, received[c], <<>>)
    BY <2>1, <2>3, <2>5 DEF Continues
  <2> QED
    BY <1>1, <1>6, <2>1, <2>6 DEF Kept, Continues
<1>10. Begun'
  BY <1>1, <1>6 DEF StreamInv, Begun
<1> QED
  BY <1>7, <1>8, <1>9, <1>10 DEF StreamInv

\* The connection that is closed joins those served, with its answers.
LEMMA StreamClose ==
    ASSUME Typed, Inv, StreamInv, connection \in Clients, CloseConnection,
           revents' \subseteq revents, UNCHANGED <<backlog, stream, sent, mode>>,
           \A d \in Clients \ {connection} : received'[d] = received[d] /\ answers'[d] = answers[d]
    PROVE  Queue' /\ Unread' /\ Kept'
<1>1. accepting' = TRUE /\ connection' = NoClient /\ served' = served \cup {connection}
  BY DEF CloseConnection
<1>2. served \subseteq Clients /\ \A i \in 1 .. Len(backlog) : backlog[i] \in Clients
  <2>1. backlog \in Seq(Clients) /\ served \subseteq Clients
    BY DEF Typed, TypeOK, Inv
  <2> QED
    BY <2>1
<1>3. Queue'
  BY <1>1, <1>2, ServerAssumption DEF StreamInv, Queue
<1>4. Unread'
  BY <1>1, ServerAssumption DEF StreamInv, Unread
<1> QED
  BY <1>1, <1>3, <1>4 DEF Kept

\* What is answered is due, and the rest of the window goes on with the stream.
LEMMA StreamConnection ==
    ASSUME Typed, Inv, StreamInv, handle_connection
    PROVE  StreamInv'
<1> DEFINE c == connection
           u == received[c]
           unread == Len(u)
           n == IF unread <= room THEN unread ELSE room
           w == buffer \o SubSeq(u, 1, n)
           v == SubSeq(u, n + 1, Len(u))
           p == AnswerWindow(w, consumed)
<1>1. c \in Clients /\ c # NoClient /\ process = "running" /\ revents' \subseteq revents
  BY DEF Typed, TypeOK, handle_connection, Slot
<1>2. n \in Nat /\ n <= unread
  BY <1>1, AmountReceived
<1>3. /\ recv_error \/ recv_nothing(n) \/ recv_some(n)
      /\ UNCHANGED <<backlog, stream, sent, mode>>
  BY DEF handle_connection, peers
<1> HIDE DEF n
<1>4. Continues(c, consumed, buffer, u, answers[c])
  BY <1>1 DEF StreamInv, Kept
<1>5. CASE recv_error
  <2>1. /\ UNCHANGED <<accepting, connection, buffer, answers, served, received>>
        /\ process' = "exited"
    BY <1>5 DEF recv_error
  <2> QED
    BY <1>1, <1>3, <2>1 DEF StreamInv, Queue, Unread, Kept, Begun
<1>6. CASE recv_nothing(n)
  <2>1. CloseConnection /\ UNCHANGED <<answers, received>>
    BY <1>6 DEF recv_nothing
  <2>2. Queue' /\ Unread' /\ Kept'
    BY <1>1, <1>3, <2>1, StreamClose
  <2>3. Begun'
    BY <1>3, <2>1 DEF StreamInv, Begun
  <2> QED
    BY <2>2, <2>3 DEF StreamInv
<1>7. CASE recv_some(n)
  <2>1. /\ received' = [received EXCEPT ![c] = SubSeq(@, n + 1, Len(@))]
        /\ answers' = [answers EXCEPT ![c] = @ \o p.answers]
        /\ \/ /\ p.state = "open"
              /\ buffer' = Buffered(w, p.left)
              /\ consumed' = consumed + p.left - 1
              /\ UNCHANGED <<accepting, connection, state_sock, process, served>>
           \/ /\ p.state = "closed"
              /\ CloseConnection
              /\ UNCHANGED <<buffer, consumed, process>>
           \/ /\ p.state = "loops"
              /\ process' = "stuck"
              /\ UNCHANGED <<accepting, connection, state_sock, buffer, consumed, served>>
    BY <1>7 DEF recv_some
  <2>2. /\ received'[c] = v /\ answers'[c] = answers[c] \o p.answers
        /\ \A d \in Clients \ {c} : received'[d] = received[d] /\ answers'[d] = answers[d]
    BY <1>1, <2>1 DEF Typed
  <2>3. Resumes(c, consumed, w, v, answers[c], p)
    <3>1. /\ consumed \in Nat /\ buffer \in Seq(Symbols) /\ u \in Seq(Symbols)
          /\ answers[c] \in Seq(Answer)
      BY <1>1 DEF Typed, TypeOK
    <3> DEFINE a == answers[c]
    <3>2. n <= Len(u) /\ a \in Seq(Answer) /\ Continues(c, consumed, buffer, u, a)
      BY <1>2, <1>4, <3>1
    <3> HIDE DEF u, c, a
    <3> QED
      BY <1>1, <1>2, <3>1, <3>2, WindowAnswered DEF a
  <2> HIDE DEF v, p, w, u
  <2>4. Begun'
    BY ZenonT(40), <1>3, <2>2, <2>3 DEF StreamInv, Begun, Resumes
  <2>5. CASE p.state = "closed"
    <3>1. CloseConnection
      BY <2>1, <2>5
    <3>2. Queue' /\ Unread' /\ Kept'
      BY <1>1, <1>3, <2>2, <3>1, StreamClose
    <3> QED
      BY <2>4, <3>2 DEF StreamInv
  <2>6. CASE p.state # "closed"
    <3>1. UNCHANGED <<accepting, connection, served>>
      BY <2>1, <2>6
    <3>2. Queue'
      BY <1>1, <1>3, <3>1 DEF StreamInv, Queue
    <3>3. Unread'
      BY <1>3, <2>2, <3>1 DEF StreamInv, Unread
    <3>4. Kept'
      <4> SUFFICES ASSUME process' = "running"
                   PROVE  Continues(connection, consumed, buffer, received[connection],
                                    answers[connection])'
        BY DEF Kept
      <4>1. buffer' = SubSeq(w, p.left, Len(w)) /\ consumed' = consumed + p.left - 1
        BY <2>1, <2>6 DEF Buffered
      <4>2. Continues(c, consumed', buffer', received'[c], answers'[c])
        BY <2>2, <2>3, <2>6, <4>1 DEF Resumes
      <4> QED
        BY <1>3, <3>1, <4>2 DEF Continues
    <3> QED
      BY <2>4, <3>2, <3>3, <3>4 DEF StreamInv
  <2> QED
    BY <2>5, <2>6
<1> QED
  BY <1>3, <1>5, <1>6, <1>7

\* Every step keeps the streams.
LEMMA StreamStep ==
    ASSUME Typed, Inv, StreamInv, [Next]_vars
    PROVE  StreamInv'
<1> USE DEF StreamInv, Queue, Unread, Kept, Begun, Continues, node, peers
<1>1. CASE UNCHANGED vars
  BY <1>1 DEF vars
<1>2. CASE Datagram
  BY <1>2 DEF Datagram
<1>3. CASE poll
  <2>1. (0 \in revents)' => accepting'
    BY <1>3 DEF poll, Ready, node
  <2>2. UNCHANGED <<node, backlog, received, peers>>
    BY <1>3 DEF poll
  <2> QED
    BY <2>1, <2>2
<1>4. CASE handle_udp_socket
  BY <1>4 DEF handle_udp_socket, Slot
<1> QED
  BY <1>1, <1>2, <1>3, <1>4, StreamConnect, StreamHangup, StreamSegment, StreamAccept,
     StreamConnection DEF Next, Environment, NodeStep

\* The invariants of the process together.
LEMMA AllInit == Init => Typed /\ Inv /\ StreamInv
  BY TypedInit, InvInit, StreamInit

LEMMA AllStep == Typed /\ Inv /\ StreamInv /\ [Next]_vars => (Typed /\ Inv /\ StreamInv)'
  BY TypedStep, InvStep, StreamStep

\* No byte of a client is lost, repeated or taken from another connection: what
\* recv() leaves, buffer_discard() keeps and accept() empties continues the
\* stream where the last answered request ended.
THEOREM BufferContinuesItsStream == Spec => []StreamPreserved
<1>1. Typed /\ StreamInv => StreamPreserved
  <2> SUFFICES ASSUME Typed, StreamInv, connection # NoClient, process = "running"
               PROVE  buffer \o received[connection] =
                          SubSeq(stream[connection], consumed + 1, sent[connection])
    BY DEF StreamPreserved
  <2> DEFINE c == connection
             x == buffer \o received[c]
  <2>1. c \in Clients
    BY DEF Typed, TypeOK
  <2>2. Part(x, stream[c], consumed, sent[c])
    BY DEF StreamInv, Kept, Continues
  <2>3. stream[c] \in Seq(Symbols) /\ sent[c] \in 0 .. Len(stream[c]) /\ consumed \in Nat
    BY <2>1, StreamsAreSequences DEF Typed, TypeOK
  <2>4. x \in Seq(Symbols)
    BY <2>1, ConcatProperties DEF Typed
  <2> HIDE DEF x
  <2>5. consumed <= sent[c]
    BY <2>2 DEF Part
  <2>6. x = SubSeq(stream[c], consumed + 1, sent[c])
    BY SMTT(30), <2>2, <2>3, <2>4, <2>5, PartIsSubSeq
  <2> QED
    BY <2>6 DEF x
<1> QED
  BY <1>1, AllInit, AllStep, PTL DEF Spec

\* However the stream of a client is cut into segments, whatever else happens
\* to the process, it is given the answers it would get if everything arrived at
\* once, in order, up to some point.
THEOREM AnswersAreThoseToTheWhole == Spec => []SegmentationIndependent
<1>1. Typed /\ StreamInv => SegmentationIndependent
  <2> SUFFICES ASSUME Typed, StreamInv, NEW c \in Clients
               PROVE  LET whole == WholeAnswers[stream[c]] IN
                      /\ Len(answers[c]) <= Len(whole)
                      /\ answers[c] = SubSeq(whole, 1, Len(answers[c]))
    BY DEF SegmentationIndependent
  <2> DEFINE a == answers[c]
             whole == WholeAnswers[stream[c]]
  <2>1. PICK z \in Seq(Answer) : whole = a \o z
    BY DEF StreamInv, Begun
  <2>2. a \in Seq(Answer)
    BY DEF Typed
  <2> HIDE DEF a, whole
  <2>3. /\ whole \in Seq(Answer) /\ Len(whole) = Len(a) + Len(z)
        /\ \A i \in 1 .. Len(a) + Len(z) : whole[i] = IF i <= Len(a) THEN a[i] ELSE z[i - Len(a)]
    BY <2>1, <2>2, ConcatProperties
  <2>4. Len(a) \in 0 .. Len(whole) /\ Len(a) \in Nat /\ Len(z) \in Nat
    BY <2>2, <2>3
  <2>5. Part(a, whole, 0, Len(a))
    BY <2>3, <2>4 DEF Part
  <2>6. a = SubSeq(whole, 0 + 1, Len(a))
    BY <2>2, <2>3, <2>4, <2>5, PartIsSubSeq
  <2> QED
    BY <2>4, <2>6 DEF a, whole
<1> QED
  BY <1>1, AllInit, AllStep, PTL DEF Spec
=============================================================================
