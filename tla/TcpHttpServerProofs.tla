------------------------ MODULE TcpHttpServerProofs ------------------------
(* Theorems about the plain TCP server, for any number of clients, whatever *)
(* messages they send and however these are cut into segments.              *)
EXTENDS TcpHttpServer, Foundations, FiniteSetTheorems

(* How a message is found does not depend on what follows it.               *)

\* The four symbols at the end of the headers.
EmptyLine(buf, i) ==
    buf[i] = CR /\ buf[i + 1] = LF /\ buf[i + 2] = CR /\ buf[i + 3] = LF

\* find_crlfcrlf() finds the first of them.
LEMMA EmptyLineFound ==
    ASSUME NEW S, NEW buf \in Seq(S)
    PROVE  LET p == find_crlfcrlf(buf) IN
           /\ p \in Nat
           /\ p = 0 => \A i \in 1 .. Len(buf) - 3 : ~EmptyLine(buf, i)
           /\ p # 0 => /\ p \in 1 .. Len(buf) - 3 /\ EmptyLine(buf, p)
                       /\ \A i \in 1 .. Len(buf) - 3 : EmptyLine(buf, i) => p <= i
<1> DEFINE found == {i \in 1 .. Len(buf) - 3 : SubSeq(buf, i, i + 3) = <<CR, LF, CR, LF>>}
<1>1. find_crlfcrlf(buf) = IF found = {} THEN 0 ELSE Min(found)
  BY DEF find_crlfcrlf
<1>2. ASSUME NEW i \in 1 .. Len(buf) - 3
      PROVE  SubSeq(buf, i, i + 3) = <<CR, LF, CR, LF>> <=> EmptyLine(buf, i)
  <2> DEFINE x == SubSeq(buf, i, i + 3)
             y == <<CR, LF, CR, LF>>
  <2>1. \A j \in i .. i + 3 : buf[j] \in S
    OBVIOUS
  <2>2. /\ x \in Seq(S) /\ Len(x) = 4
        /\ x[1] = buf[i] /\ x[2] = buf[i + 1] /\ x[3] = buf[i + 2] /\ x[4] = buf[i + 3]
    <3>1. /\ x \in Seq(S) /\ Len(x) = IF i <= i + 3 THEN (i + 3) - i + 1 ELSE 0
          /\ \A j \in 1 .. (i + 3) - i + 1 : x[j] = buf[i + j - 1]
      BY <2>1, SubSeqProperties
    <3> HIDE DEF x
    <3>2. (i + 3) - i + 1 = 4 /\ i <= i + 3
      OBVIOUS
    <3>3. Len(x) = 4 /\ \A j \in 1 .. 4 : x[j] = buf[i + j - 1]
      BY <3>1, <3>2
    <3>4. /\ i + 1 - 1 = i /\ i + 2 - 1 = i + 1 /\ i + 3 - 1 = i + 2 /\ i + 4 - 1 = i + 3
          /\ 1 \in 1 .. 4 /\ 2 \in 1 .. 4 /\ 3 \in 1 .. 4 /\ 4 \in 1 .. 4
      OBVIOUS
    <3>5. /\ x[1] = buf[i + 1 - 1] /\ x[2] = buf[i + 2 - 1]
          /\ x[3] = buf[i + 3 - 1] /\ x[4] = buf[i + 4 - 1]
      BY <3>3, <3>4
    <3> QED
      BY <3>1, <3>3, <3>4, <3>5
  <2> DEFINE V == {CR, LF} \cup S
  <2>3. y \in Seq(V) /\ Len(y) = 4 /\ y[1] = CR /\ y[2] = LF /\ y[3] = CR /\ y[4] = LF
    OBVIOUS
  <2>4. x \in Seq(V)
    BY <2>2
  <2> HIDE DEF x, y, V
  <2>5. x = y <=> \A j \in 1 .. 4 : x[j] = y[j]
    BY <2>2, <2>3, <2>4, SeqEqual
  <2>6. 1 .. 4 = {1, 2, 3, 4}
    OBVIOUS
  <2> QED
    BY <2>2, <2>3, <2>5, <2>6 DEF EmptyLine, x, y
<1>3. CASE found = {}
  <2>1. \A i \in 1 .. Len(buf) - 3 : EmptyLine(buf, i) => i \in found
    BY <1>2
  <2> HIDE DEF found
  <2> QED
    BY <1>1, <1>3, <2>1
<1>4. CASE found # {}
  <2>1. found \in SUBSET Nat
    OBVIOUS
  <2> HIDE DEF found
  <2>2. find_crlfcrlf(buf) \in found /\ \A i \in found : find_crlfcrlf(buf) <= i
    BY ZenonT(40), <1>1, <1>4, <2>1, MinIs
  <2> QED
    BY <1>2, <2>2 DEF found
<1> QED
  BY <1>3, <1>4

\* x and y begin alike: one is the front of the other.
Alike(x, y) == \A i \in 1 .. Len(x) : i <= Len(y) => x[i] = y[i]

\* Of two that begin alike, each has its first empty line where the other has.
LEMMA FirstEmptyLine ==
    ASSUME NEW S, NEW x \in Seq(S), NEW y \in Seq(S), Alike(x, y),
           find_crlfcrlf(x) # 0, find_crlfcrlf(y) # 0
    PROVE  find_crlfcrlf(x) = find_crlfcrlf(y)
<1> DEFINE p == find_crlfcrlf(x)
           q == find_crlfcrlf(y)
<1>1. /\ p \in 1 .. Len(x) - 3 /\ EmptyLine(x, p)
      /\ \A i \in 1 .. Len(x) - 3 : EmptyLine(x, i) => p <= i
  BY EmptyLineFound
<1>2. /\ q \in 1 .. Len(y) - 3 /\ EmptyLine(y, q)
      /\ \A i \in 1 .. Len(y) - 3 : EmptyLine(y, i) => q <= i
  BY EmptyLineFound
<1> HIDE DEF p, q
<1>3. Len(x) \in Nat /\ Len(y) \in Nat
  OBVIOUS
<1>4. \A i \in Int : i >= 1 /\ i + 3 <= Len(x) /\ i + 3 <= Len(y) =>
          (EmptyLine(x, i) <=> EmptyLine(y, i))
  <2> SUFFICES ASSUME NEW i \in Int, i >= 1, i + 3 <= Len(x), i + 3 <= Len(y)
               PROVE  EmptyLine(x, i) <=> EmptyLine(y, i)
    OBVIOUS
  <2>1. \A j \in {i, i + 1, i + 2, i + 3} : j \in 1 .. Len(x) /\ j <= Len(y)
    BY <1>3
  <2>2. x[i] = y[i] /\ x[i + 1] = y[i + 1] /\ x[i + 2] = y[i + 2] /\ x[i + 3] = y[i + 3]
    BY <2>1 DEF Alike
  <2> QED
    BY <2>2 DEF EmptyLine
<1>5. CASE p <= q
  <2>1. p \in 1 .. Len(y) - 3 /\ p + 3 <= Len(x) /\ p + 3 <= Len(y)
    BY <1>1, <1>2, <1>3, <1>5
  <2>2. EmptyLine(y, p)
    BY <1>1, <1>4, <2>1
  <2> QED
    BY <1>1, <1>2, <1>5, <2>1, <2>2 DEF p, q
<1>6. CASE q <= p
  <2>1. q \in 1 .. Len(x) - 3 /\ q + 3 <= Len(x) /\ q + 3 <= Len(y)
    BY <1>1, <1>2, <1>3, <1>6
  <2>2. EmptyLine(x, q)
    BY <1>2, <1>4, <2>1
  <2> QED
    BY <1>1, <1>2, <1>6, <2>1, <2>2 DEF p, q
<1> QED
  BY <1>1, <1>2, <1>5, <1>6

\* The announced length is a number, and that of any other that begins alike.
LEMMA SameLength ==
    ASSUME NEW S, NEW x \in Seq(S), NEW y \in Seq(S), Alike(x, y),
           find_crlfcrlf(x) # 0, find_crlfcrlf(y) # 0
    PROVE  header_len(x) = header_len(y) /\ content_length(x) = content_length(y)
<1> DEFINE h == header_len(x)
<1>1. header_len(y) = h
  BY FirstEmptyLine DEF header_len
<1>2. h \in Nat /\ h <= Len(x) /\ h <= Len(y)
  <2>1. find_crlfcrlf(x) \in 1 .. Len(x) - 3 /\ find_crlfcrlf(y) \in 1 .. Len(y) - 3
    BY EmptyLineFound
  <2>2. Len(x) \in Nat /\ Len(y) \in Nat
    OBVIOUS
  <2> QED
    BY <1>1, <2>1, <2>2 DEF header_len
<1> HIDE DEF h
<1> DEFINE block == Min({h, HEADER_BLOCK})
           inX == {i \in 1 .. block : x[i] \in DOMAIN Length}
           inY == {i \in 1 .. block : y[i] \in DOMAIN Length}
<1>3. block \in Nat /\ block <= h
  <2>1. {h, HEADER_BLOCK} \in SUBSET Nat /\ {h, HEADER_BLOCK} # {}
    BY <1>2, TcpAssumption
  <2>2. block \in {h, HEADER_BLOCK} /\ \A i \in {h, HEADER_BLOCK} : block <= i
    BY <2>1, MinIs
  <2> QED
    BY <2>1, <2>2
<1> HIDE DEF block
<1>4. \A i \in 1 .. block : x[i] = y[i]
  BY <1>2, <1>3 DEF Alike
<1>5. inX = inY
  BY <1>4
<1>6. content_length(x) = IF inX = {} THEN 0 ELSE Length[x[Min(inX)]]
  BY DEF content_length, h, block
<1>7. content_length(y) = IF inY = {} THEN 0 ELSE Length[y[Min(inY)]]
  BY <1>1 DEF content_length, h, block
<1>8. CASE inX # {}
  <2>1. inX \in SUBSET Nat
    BY <1>3
  <2> HIDE DEF inX, inY
  <2>2. Min(inX) \in inX
    BY <1>8, <2>1, MinIs
  <2>3. x[Min(inX)] = y[Min(inX)]
    BY <1>4, <2>2 DEF inX
  <2> QED
    BY <1>1, <1>5, <1>6, <1>7, <2>3 DEF h
<1> HIDE DEF inX, inY
<1> QED
  BY <1>1, <1>5, <1>6, <1>7, <1>8 DEF h

\* The length of a message is a number of at least four symbols.
LEMMA LengthOfMessage ==
    ASSUME NEW S, NEW x \in Seq(S), find_crlfcrlf(x) # 0
    PROVE  /\ header_len(x) \in 4 .. Len(x)
           /\ content_length(x) \in Nat
           /\ total_len(x) \in Nat /\ total_len(x) >= header_len(x)
<1>1. header_len(x) \in 4 .. Len(x)
  <2>1. find_crlfcrlf(x) \in 1 .. Len(x) - 3 /\ Len(x) \in Nat
    BY EmptyLineFound
  <2> QED
    BY <2>1 DEF header_len
<1> DEFINE h == header_len(x)
           block == Min({h, HEADER_BLOCK})
           announced == {i \in 1 .. block : x[i] \in DOMAIN Length}
<1>2. content_length(x) = IF announced = {} THEN 0 ELSE Length[x[Min(announced)]]
  BY DEF content_length
<1>3. content_length(x) \in Nat
  <2>1. CASE announced = {}
    BY <1>2, <2>1
  <2>2. CASE announced # {}
    <3>1. announced \in SUBSET Nat
      OBVIOUS
    <3> HIDE DEF announced
    <3>2. Min(announced) \in announced
      BY <2>2, <3>1, MinIs
    <3> QED
      BY <1>2, <2>2, <3>2, TcpAssumption DEF announced
  <2> QED
    BY <2>1, <2>2
<1> QED
  BY <1>1, <1>3 DEF total_len

\* The message that is cut off the front of a buffer is as long as it says.
LEMMA FrontIsMessage ==
    ASSUME NEW S, NEW b \in Seq(S), Complete(b)
    PROVE  LET m == SubSeq(b, 1, total_len(b)) IN
           /\ m \in Seq(S) /\ Len(m) = total_len(b) /\ Len(m) \in 1 .. Len(b)
           /\ find_crlfcrlf(m) # 0 /\ Complete(m)
<1> DEFINE n == total_len(b)
           p == find_crlfcrlf(b)
           m == SubSeq(b, 1, n)
<1>1. n \in 1 .. Len(b) /\ header_len(b) <= n /\ p + 3 = header_len(b)
  BY LengthOfMessage DEF Complete, header_len
<1>2. p \in 1 .. Len(b) - 3 /\ EmptyLine(b, p)
  BY EmptyLineFound DEF Complete
<1>3. total_len(b) = header_len(b) + content_length(b)
  BY DEF total_len
<1> HIDE DEF n, p
<1>4. m \in Seq(S) /\ Len(m) = n /\ \A i \in 1 .. n : m[i] = b[i]
  <2>1. \A i \in 1 .. n : b[i] \in S
    BY <1>1
  <2>2. /\ m \in Seq(S) /\ Len(m) = IF 1 <= n THEN n - 1 + 1 ELSE 0
        /\ \A i \in 1 .. n - 1 + 1 : m[i] = b[1 + i - 1]
    BY <1>1, <2>1, SubSeqProperties
  <2> HIDE DEF m
  <2>4. \A i \in 1 .. n : 1 + i - 1 = i
    OBVIOUS
  <2>5. n - 1 + 1 = n /\ 1 <= n
    BY <1>1
  <2> QED
    BY <2>2, <2>4, <2>5
<1> HIDE DEF m
<1>5. find_crlfcrlf(m) # 0
  <2>1. p \in 1 .. Len(m) - 3
    BY <1>1, <1>2, <1>4
  <2>2. p \in 1 .. n /\ p + 1 \in 1 .. n /\ p + 2 \in 1 .. n /\ p + 3 \in 1 .. n
    BY <1>4, <2>1
  <2>3. m[p] = b[p] /\ m[p + 1] = b[p + 1] /\ m[p + 2] = b[p + 2] /\ m[p + 3] = b[p + 3]
    BY <1>4, <2>2
  <2>4. EmptyLine(m, p)
    BY <1>2, <2>3 DEF EmptyLine
  <2> QED
    BY <1>4, <2>1, <2>4, EmptyLineFound
<1>6. Alike(m, b)
  BY <1>4 DEF Alike
<1>7. header_len(m) = header_len(b) /\ content_length(m) = content_length(b)
  BY <1>4, <1>5, <1>6, SameLength DEF Complete
<1>8. total_len(m) = n
  BY <1>3, <1>7 DEF total_len, n
<1> QED
  BY <1>1, <1>4, <1>5, <1>8 DEF Complete, n, m

\* The buffer begins with the message that the client sent next.
LEMMA FrontIsNext ==
    ASSUME NEW S, NEW s, NEW b \in Seq(S), NEW m \in Seq(S), NEW k, NEW e, NEW f,
           Part(b, s, k, e), Part(m, s, k, f), Complete(b), Complete(m), total_len(m) = Len(m)
    PROVE  SubSeq(b, 1, total_len(b)) = m
<1> DEFINE x == SubSeq(b, 1, total_len(b))
<1>1. x \in Seq(S) /\ Len(x) = total_len(b) /\ Len(x) <= Len(b)
  BY FrontIsMessage
<1>2. /\ k \in Nat /\ Len(b) = e - k /\ Len(m) = f - k
      /\ \A i \in 1 .. e - k : b[i] = s[k + i]
      /\ \A i \in 1 .. f - k : m[i] = s[k + i]
  BY DEF Part
<1>3. Alike(b, m)
  BY <1>2 DEF Alike
<1>4. header_len(b) = header_len(m) /\ content_length(b) = content_length(m)
  BY <1>3, SameLength DEF Complete
<1>5. total_len(b) = Len(m)
  BY <1>4 DEF total_len
<1>6. \A i \in 1 .. Len(x) : x[i] = b[i]
  <2> DEFINE n == total_len(b)
  <2>1. n \in Nat /\ n <= Len(b) /\ Len(b) \in Nat
    BY <1>1
  <2> HIDE DEF n
  <2>2. \A i \in 1 .. n : SubSeq(b, 1, n)[i] = b[i]
    BY <2>1
  <2> QED
    BY <1>1, <2>2 DEF n
<1> HIDE DEF x
<1>7. \A i \in 1 .. Len(x) : x[i] = m[i]
  BY <1>1, <1>2, <1>5, <1>6
<1>8. x = m
  BY <1>1, <1>5, <1>7, SeqEqual
<1> QED
  BY <1>8 DEF x

----------------------------------------------------------------------------
(* What a message comes to.                                                 *)

\* A start line asks for something that get_code() has an answer to.
Understood(r) ==
    \/ r.method \in {"malformed", "other"}
    \/ /\ r.method \in {"GET", "PUT", "DELETE"}
       /\ r.dir \in {"static", "dynamic", "other"}
       /\ r.dir = "dynamic" => r.name \in Names \cup {""}

\* check_first_line() understands every message that ends its headers.
LEMMA FirstLineUnderstood ==
    ASSUME NEW S, NEW m \in Seq(S), find_crlfcrlf(m) # 0
    PROVE  Understood(check_first_line(m))
<1> DEFINE ends  == {i \in 1 .. find_crlfcrlf(m) : m[i] = CR /\ m[i + 1] = LF}
           first == Min(ends)
           r     == check_first_line(m)
<1>1. r = IF \/ first = 1
             \/ m[first - 1] \notin DOMAIN Request
             \/ \E i \in ends \ {first} : m[i - 1] \notin Headers
          THEN BadRequest
          ELSE IF first > 2 THEN Other ELSE Request[m[1]]
  BY DEF check_first_line
<1>2. first \in Nat /\ first >= 1
  <2> DEFINE p == find_crlfcrlf(m)
  <2>1. p \in Nat /\ p >= 1 /\ EmptyLine(m, p)
    BY EmptyLineFound
  <2>2. p \in ends /\ ends \in SUBSET Nat /\ \A i \in ends : i >= 1
    BY <2>1 DEF EmptyLine
  <2> HIDE DEF ends
  <2> QED
    BY <2>2, MinIs
<1> HIDE DEF ends, first, r
<1>3. r = BadRequest \/ r = Other \/ (m[1] \in DOMAIN Request /\ r = Request[m[1]])
  <2>1. CASE r = BadRequest \/ r = Other
    BY <2>1
  <2>2. CASE r # BadRequest /\ r # Other
    <3>1. first # 1 /\ m[first - 1] \in DOMAIN Request /\ ~(first > 2) /\ r = Request[m[1]]
      BY <1>1, <2>2
    <3>2. first - 1 = 1
      BY <1>2, <3>1
    <3> QED
      BY <3>1, <3>2
  <2> QED
    BY <2>1, <2>2
<1>4. Understood(BadRequest) /\ Understood(Other)
  BY DEF Understood, BadRequest, Other
<1>5. \A l \in DOMAIN Request : Understood(Request[l])
  BY TcpAssumption DEF Understood
<1> QED
  BY <1>3, <1>4, <1>5 DEF r

\* A message changes or asks the list through one call, for a name, or not at all.
LEMMA OneCallOfList ==
    ASSUME NEW m, Understood(check_first_line(m)), NEW o \in get_code(m)
    PROVE  LET r == check_first_line(m) IN
           \/ \E code : o \in Just(code)
           \/ /\ r.method \in {"GET", "PUT", "DELETE"} /\ r.dir = "dynamic"
              /\ r.name \in Names /\ r.name # ""
              /\ \/ o \in get_dynamic_ressource(r.name)
                 \/ o \in put(r.name, get_body(m))
                 \/ o \in delete(r.name)
<1> DEFINE r == check_first_line(m)
           body == get_body(m)
<1>1. Understood(r)
  OBVIOUS
<1>2. get_code(m) =
          CASE r.method = "malformed" -> Just(400)
            [] r.method = "GET" /\ r.dir = "static" -> check_static_resource(r.name)
            [] r.method = "GET" /\ r.dir = "dynamic" -> get_dynamic_ressource(r.name)
            [] r.method = "GET" /\ r.dir = "other" -> Just(404)
            [] r.method \in {"PUT", "DELETE"} -> check_dynamic_resource(r, body)
            [] r.method = "other" -> Just(501)
  BY DEF get_code
<1> HIDE DEF r, body
<1>3. "" \notin Names
  BY TcpAssumption
<1>4. CASE r.method = "malformed"
  BY <1>2, <1>4 DEF r
<1>5. CASE r.method = "other"
  BY <1>2, <1>5 DEF r
<1>6. CASE r.method = "GET"
  <2>1. CASE r.dir = "static"
    BY <1>2, <1>6, <2>1 DEF r, check_static_resource
  <2>2. CASE r.dir = "other"
    BY <1>2, <1>6, <2>2 DEF r
  <2>3. CASE r.dir = "dynamic"
    <3>1. get_code(m) = get_dynamic_ressource(r.name)
      BY <1>2, <1>6, <2>3
    <3>2. CASE r.name = ""
      BY ZenonT(40), <3>1, <3>2 DEF get_dynamic_ressource
    <3> QED
      BY <1>1, <1>3, <1>6, <2>3, <3>1, <3>2 DEF Understood, r
  <2> QED
    BY <1>1, <1>6, <2>1, <2>2, <2>3 DEF Understood
<1>7. CASE r.method \in {"PUT", "DELETE"}
  <2>1. get_code(m) = check_dynamic_resource(r, body)
    BY <1>2, <1>7
  <2>2. CASE r.dir # "dynamic"
    BY <2>1, <2>2 DEF check_dynamic_resource
  <2>3. CASE r.dir = "dynamic" /\ r.name = ""
    BY <2>1, <2>3 DEF check_dynamic_resource
  <2>4. CASE r.dir = "dynamic" /\ r.name # ""
    <3>1. r.name \in Names
      BY <1>1, <1>7, <2>4 DEF Understood
    <3>2. o \in put(r.name, body) \/ o \in delete(r.name)
      BY <1>7, <2>1, <2>4 DEF check_dynamic_resource
    <3> QED
      BY <1>7, <2>4, <3>1, <3>2 DEF r, body
  <2> QED
    BY <2>2, <2>3, <2>4
<1> QED
  BY <1>1, <1>4, <1>5, <1>6, <1>7 DEF Understood

\* The parts of an outcome.
LEMMA OutcomeParts ==
    \A code, list, failures, call :
        /\ Outcome(code, list, failures, call).code = code
        /\ Outcome(code, list, failures, call).list = list
        /\ Outcome(code, list, failures, call).failures = failures
        /\ Outcome(code, list, failures, call).call = call
  BY DEF Outcome

\* Failed allocations are counted.
LEMMA FailuresCounted ==
    ASSUME NEW m, Understood(check_first_line(m)), NEW o \in get_code(m)
    PROVE  o.failures \in Nat
<1>1. ASSUME NEW code, o \in Just(code) PROVE o.failures \in Nat
  BY <1>1 DEF Just, Outcome
<1>2. ASSUME NEW n, o \in get_dynamic_ressource(n) PROVE o.failures \in Nat
  <2>1. PICK code, call : o = Outcome(code, resource_list, 0, call)
    BY ZenonT(40), <1>2 DEF get_dynamic_ressource, Just
  <2>2. o.failures = 0
    BY <2>1, OutcomeParts
  <2> QED
    BY <2>2
<1>3. ASSUME NEW n, o \in delete(n) PROVE o.failures \in Nat
  <2>1. PICK code, list, call : o = Outcome(code, list, 0, call)
    BY ZenonT(40), <1>3 DEF delete
  <2>2. o.failures = 0
    BY <2>1, OutcomeParts
  <2> QED
    BY <2>2
<1>4. ASSUME NEW n, NEW body, o \in put(n, body) PROVE o.failures \in Nat
  <2>1. \A s : \A copy \in Copies(s) : copy.failures \in Nat
    BY DEF Copies
  <2>2. CASE o \in overwrite(n, body)
    <3>1. PICK copy \in Copies(body) :
              \E code, list, call : o = Outcome(code, list, copy.failures, call)
      BY <2>2 DEF overwrite
    <3>2. o.failures = copy.failures
      BY <3>1, OutcomeParts
    <3> QED
      BY <2>1, <3>2
  <2>3. CASE o \in create(n, body)
    <3>1. CASE o = Outcome(500, resource_list, 1, result)
      <4>1. o.failures = 1
        BY <3>1, OutcomeParts
      <4> QED
        BY <4>1
    <3>2. ASSUME NEW name \in Copies(n), NEW copy \in Copies(body), NEW list, NEW call,
                 o = Outcome(201, list, name.failures + copy.failures, call)
          PROVE  o.failures \in Nat
      <4>1. o.failures = name.failures + copy.failures
        BY <3>2, OutcomeParts
      <4> QED
        BY <2>1, <4>1
    <3>3. \/ o = Outcome(500, resource_list, 1, result)
          \/ \E name \in Copies(n), copy \in Copies(body) : \E list, call :
                 o = Outcome(201, list, name.failures + copy.failures, call)
      <4> DEFINE call == Returned("set", n, FALSE)
      <4>1. create(n, body) =
                {Outcome(201, new_head(name.string, copy.string), name.failures + copy.failures,
                         call) : name \in Copies(n), copy \in Copies(body)}
                \cup {Outcome(500, resource_list, 1, result)}
        BY DEF create
      <4> HIDE DEF call
      <4> QED
        BY <2>3, <4>1
    <3> QED
      BY <3>1, <3>2, <3>3
  <2> QED
    BY <1>4, <2>2, <2>3 DEF put
<1> QED
  BY <1>1, <1>2, <1>3, <1>4, OneCallOfList

----------------------------------------------------------------------------
(* Types.                                                                   *)

Answer == [upto : Nat, status : {200, 201, 204, 400, 403, 404, 501}]

\* TypeOK except for the list, and the sequences it does not look into.
Typed ==
    /\ pc \in {"accept", "recv", "messages", "crashed"}
    /\ new_fd \in Clients \cup {NoClient}
    /\ (pc = "accept" <=> new_fd = NoClient)
    /\ buff \in Seq(Symbols) /\ Len(buff) <= SIZE
    /\ faults \in 0 .. MaxFaults
    /\ closed \subseteq Clients
    /\ consumed \in Nat
    /\ answers \in [Clients -> Seq(Answer)]
    /\ backlog \in Seq(Clients)
    /\ received \in [Clients -> Seq(Symbols)]
    /\ script \in Scripts
    /\ sent \in [Clients -> Nat] /\ \A c \in Clients : sent[c] <= Len(Stream(c))
    /\ segments \in [Clients -> Nat] /\ \A c \in Clients : segments[c] <= MaxSegments[c]
    /\ mode \in [Clients -> {"new", "open", "done", "reset"}]

\* The bounds are numbers.
LEMMA BoundsAre == SIZE \in Nat /\ MaxFaults \in Nat /\ \A c \in Clients : MaxSegments[c] \in Nat
  BY TcpAssumption

\* The stream of a client is a sequence of symbols.
LEMMA StreamIs ==
    ASSUME script \in Scripts, NEW c \in Clients
    PROVE  /\ script[c] \in Seq(Seq(Symbols)) /\ Len(script[c]) \in Nat
           /\ Stream(c) \in Seq(Symbols) /\ Len(Stream(c)) \in Nat
<1>1. script[c] \in Seq(Seq(Symbols))
  BY TcpAssumption
<1> DEFINE ms == script[c]
<1>2. ms \in Seq(Seq(Symbols))
  BY <1>1
<1> HIDE DEF ms
<1>3. FlattenSeq(ms) \in Seq(Symbols)
  BY <1>2, JoinedInOrder
<1>4. Len(ms) \in Nat /\ Len(FlattenSeq(ms)) \in Nat
  BY <1>2, <1>3
<1> QED
  BY <1>2, <1>3, <1>4 DEF Stream, ms

\* Nothing is connected, received or sent.
LEMMA TypedInit == Init => Typed
<1> SUFFICES ASSUME Init PROVE Typed
  OBVIOUS
<1>1. script \in Scripts
  BY DEF Init
<1>2. \A c \in Clients : Len(Stream(c)) \in Nat
  BY <1>1, StreamIs
<1>3. SIZE \in Nat /\ MaxFaults \in Nat /\ \A c \in Clients : MaxSegments[c] \in Nat
  BY TcpAssumption
<1>4. <<>> \in Seq(Symbols) /\ <<>> \in Seq(Clients) /\ <<>> \in Seq(Answer) /\ Len(<<>>) = 0
  BY EmptySeq
<1>5. \A c \in Clients : sent[c] = 0 /\ segments[c] = 0
  BY DEF Init
<1>6. sent \in [Clients -> Nat] /\ segments \in [Clients -> Nat]
  BY DEF Init
<1> QED
  BY <1>1, <1>2, <1>3, <1>4, <1>5, <1>6 DEF Init, Typed

\* A cut of a stream is a sequence of symbols, and so is what is left of it.
LEMMA CutIs ==
    ASSUME NEW s \in Seq(Symbols), NEW i \in 1 .. Len(s) + 1, NEW j \in 0 .. Len(s), i <= j + 1
    PROVE  /\ SubSeq(s, i, j) \in Seq(Symbols)
           /\ Len(SubSeq(s, i, j)) = j - (i - 1)
           /\ Part(SubSeq(s, i, j), s, i - 1, j)
<1>1. i - 1 \in Nat /\ j \in Nat /\ i - 1 <= j /\ (i - 1) + 1 = i
  OBVIOUS
<1> DEFINE x == SubSeq(s, i, j)
<1>2. x \in Seq(Symbols)
  <2>1. \A l \in i .. j : s[l] \in Symbols
    OBVIOUS
  <2> QED
    BY <2>1, SubSeqProperties
<1>3. x = SubSeq(s, (i - 1) + 1, j)
  BY <1>1
<1> HIDE DEF x
<1>4. Part(x, s, i - 1, j)
  BY <1>1, <1>2, <1>3, PartIsSubSeq
<1> QED
  BY <1>2, <1>4 DEF Part, x

\* Segments are cut from the stream of the client, in order.
LEMMA TypedSegment ==
    ASSUME Typed, NEW c \in Clients, Segment(c)
    PROVE  Typed'
<1>1. PICK n \in sent[c] + 1 .. Len(Stream(c)) :
          /\ sent' = [sent EXCEPT ![c] = n]
          /\ received' = [received EXCEPT
                 ![c] = IF c \in closed THEN @ ELSE @ \o SubSeq(Stream(c), sent[c] + 1, n)]
  BY DEF Segment
<1>2. /\ UNCHANGED <<pc, new_fd, buff, faults, consumed, answers, closed, backlog, script, mode>>
      /\ segments' = [segments EXCEPT ![c] = @ + 1] /\ segments[c] < MaxSegments[c]
  BY DEF Segment, store, talk
<1>3. /\ sent[c] \in Nat /\ Stream(c) \in Seq(Symbols) /\ Len(Stream(c)) \in Nat
      /\ n \in Nat /\ n <= Len(Stream(c)) /\ MaxSegments[c] \in Nat
  BY <1>1, StreamIs, BoundsAre DEF Typed
<1>4. SubSeq(Stream(c), sent[c] + 1, n) \in Seq(Symbols)
  <2>1. sent[c] + 1 \in 1 .. Len(Stream(c)) + 1 /\ n \in 0 .. Len(Stream(c)) /\ sent[c] + 1 <= n + 1
    BY <1>1, <1>3
  <2> QED
    BY <1>3, <2>1, CutIs
<1>5. received' \in [Clients -> Seq(Symbols)]
  <2>1. received[c] \o SubSeq(Stream(c), sent[c] + 1, n) \in Seq(Symbols)
    BY <1>4, ConcatProperties DEF Typed
  <2>2. received[c] \in Seq(Symbols) /\ received \in [Clients -> Seq(Symbols)]
    BY DEF Typed
  <2> QED
    BY <1>1, <2>1, <2>2
<1>6. \A d \in Clients : Stream(d)' = Stream(d)
  BY <1>2 DEF Stream
<1>7. sent' \in [Clients -> Nat] /\ \A d \in Clients : sent'[d] <= Len(Stream(d)')
  BY <1>1, <1>3, <1>6 DEF Typed
<1>8. segments' \in [Clients -> Nat] /\ \A d \in Clients : segments'[d] <= MaxSegments[d]
  <2>1. segments \in [Clients -> Nat] /\ \A d \in Clients : segments[d] <= MaxSegments[d]
    BY DEF Typed
  <2>2. segments[c] + 1 <= MaxSegments[c]
    BY <1>2, <1>3, <2>1
  <2> QED
    BY <1>2, <2>1, <2>2
<1> QED
  BY <1>2, <1>5, <1>7, <1>8 DEF Typed

\* What recv() takes: at most the room in the buffer.
LEMMA AmountReceived ==
    ASSUME Typed, recv
    PROVE  \E n \in Nat :
               /\ n <= Len(received[new_fd]) /\ Len(buff) + n <= SIZE /\ new_fd \in Clients
               /\ buff' = buff \o SubSeq(received[new_fd], 1, n)
               /\ received' = [received EXCEPT ![new_fd] = SubSeq(@, n + 1, Len(@))]
<1> DEFINE u == Len(received[new_fd])
           n == Min({room, u})
<1>1. new_fd \in Clients
  BY DEF Typed, recv
<1>2. u \in Nat /\ room \in Nat /\ Len(buff) + room = SIZE
  <2>1. Len(buff) \in Nat /\ Len(buff) <= SIZE /\ Len(received[new_fd]) \in Nat
    BY <1>1 DEF Typed
  <2> QED
    BY <2>1, BoundsAre DEF room
<1>3. n \in {room, u} /\ \A i \in {room, u} : n <= i
  <2>1. {room, u} \in SUBSET Nat /\ {room, u} # {}
    BY <1>2
  <2> QED
    BY <2>1, MinIs
<1>4. /\ buff' = buff \o SubSeq(received[new_fd], 1, n)
      /\ received' = [received EXCEPT ![new_fd] = SubSeq(@, n + 1, Len(@))]
  BY DEF recv
<1>5. n \in Nat /\ n <= u /\ n <= room
  BY <1>2, <1>3
<1> HIDE DEF n
<1>6. Len(buff) + n <= SIZE
  BY <1>2, <1>5 DEF Typed
<1> QED
  BY <1>1, <1>4, <1>5, <1>6

\* A message is answered and leaves the buffer, or stays there.
LEMMA MessageAnswered ==
    ASSUME Typed, message
    PROVE  LET m == SubSeq(buff, 1, total_len(buff)) IN
           /\ m \in Seq(Symbols) /\ Len(m) \in 1 .. Len(buff) /\ new_fd \in Clients
           /\ Complete(buff) /\ Understood(check_first_line(m))
           /\ faults' \in 0 .. MaxFaults
           /\ \/ Unreplied
              \/ \E code : Replied(m, code)
           /\ UNCHANGED <<new_fd, closed, peers>>
<1> DEFINE m == SubSeq(buff, 1, total_len(buff))
<1>1. /\ pc = "messages" /\ Complete(buff) /\ new_fd \in Clients
      /\ UNCHANGED <<new_fd, closed, peers>>
  BY DEF message, Typed
<1>2. m \in Seq(Symbols) /\ Len(m) \in 1 .. Len(buff) /\ find_crlfcrlf(m) # 0
  BY <1>1, FrontIsMessage DEF Typed
<1>3. PICK o \in get_code(m), send_failures \in {0, 1} :
          /\ faults' = faults + o.failures + send_failures
          /\ faults' <= MaxFaults
          /\ \/ send_failures = 0 /\ Replied(m, o.code)
             \/ mode[new_fd] = "reset" /\ send_failures = 0 /\ Unreplied
             \/ send_failures = 1 /\ Unreplied
  BY DEF message
<1> HIDE DEF m
<1>4. Understood(check_first_line(m))
  BY <1>2, FirstLineUnderstood
<1>5. o.failures \in Nat
  BY <1>4, FailuresCounted
<1>6. faults' \in 0 .. MaxFaults
  <2>1. faults \in Nat
    BY DEF Typed
  <2> QED
    BY <1>3, <1>5, <2>1, BoundsAre
<1> QED
  BY <1>1, <1>2, <1>3, <1>4, <1>6 DEF m

\* recv() fills the buffer up to its size.
LEMMA TypedRecv ==
    ASSUME Typed, recv
    PROVE  Typed'
<1>1. PICK n \in Nat :
          /\ n <= Len(received[new_fd]) /\ Len(buff) + n <= SIZE /\ new_fd \in Clients
          /\ buff' = buff \o SubSeq(received[new_fd], 1, n)
          /\ received' = [received EXCEPT ![new_fd] = SubSeq(@, n + 1, Len(@))]
  BY AmountReceived
<1> DEFINE u == received[new_fd]
           x == SubSeq(u, 1, n)
           y == SubSeq(u, n + 1, Len(u))
<1>2. u \in Seq(Symbols) /\ Len(u) \in Nat
  BY <1>1 DEF Typed
<1>3. x \in Seq(Symbols) /\ Len(x) = n /\ y \in Seq(Symbols)
  <2> HIDE DEF u
  <2>1. /\ 1 \in 1 .. Len(u) + 1 /\ n \in 0 .. Len(u) /\ 1 <= n + 1 /\ n - (1 - 1) = n
        /\ n + 1 \in 1 .. Len(u) + 1 /\ Len(u) \in 0 .. Len(u) /\ n + 1 <= Len(u) + 1
    BY <1>1, <1>2 DEF u
  <2> QED
    BY <1>2, <2>1, CutIs
<1>4. buff' = buff \o x /\ received' = [received EXCEPT ![new_fd] = y]
  BY <1>1
<1> HIDE DEF x, y
<1>5. buff' \in Seq(Symbols) /\ Len(buff') <= SIZE
  <2>1. buff \in Seq(Symbols) /\ Len(buff) + n <= SIZE
    BY <1>1 DEF Typed
  <2>2. buff \o x \in Seq(Symbols) /\ Len(buff \o x) = Len(buff) + Len(x)
    BY <1>3, <2>1, ConcatProperties
  <2> QED
    BY <1>3, <1>4, <2>1, <2>2
<1>6. received' \in [Clients -> Seq(Symbols)]
  BY <1>3, <1>4 DEF Typed
<1>7. /\ pc = "recv" /\ pc' = "messages"
      /\ UNCHANGED <<new_fd, faults, consumed, answers, closed, backlog, script, sent, segments, mode>>
  BY DEF recv, store, talk
<1>8. \A c \in Clients : Stream(c)' = Stream(c)
  BY <1>7 DEF Stream
<1> QED
  BY <1>5, <1>6, <1>7, <1>8 DEF Typed

\* The message that leaves the buffer leaves a sequence of symbols.
LEMMA TypedMessage ==
    ASSUME Typed, message
    PROVE  Typed'
<1> DEFINE m == SubSeq(buff, 1, total_len(buff))
<1>1. /\ Len(m) \in 1 .. Len(buff) /\ new_fd \in Clients /\ faults' \in 0 .. MaxFaults
      /\ \/ Unreplied
         \/ \E code : Replied(m, code)
      /\ UNCHANGED <<new_fd, closed, backlog, received, script, sent, segments, mode>>
  BY MessageAnswered DEF peers
<1> HIDE DEF m
<1>2. pc = "messages"
  BY DEF message
<1>3. \A c \in Clients : Stream(c)' = Stream(c)
  BY <1>1 DEF Stream
<1>4. CASE Unreplied
  BY <1>1, <1>2, <1>3, <1>4 DEF Unreplied, talk, Typed
<1>5. ASSUME NEW code, Replied(m, code) PROVE Typed'
  <2> DEFINE x == SubSeq(buff, Len(m) + 1, Len(buff))
             a == [upto |-> consumed + Len(m), status |-> Status(code)]
  <2>1. /\ pc' = pc /\ buff' = x /\ consumed' = consumed + Len(m)
        /\ answers' = [answers EXCEPT ![new_fd] = Append(@, a)]
    BY <1>5 DEF Replied
  <2>2. buff \in Seq(Symbols) /\ Len(buff) \in Nat /\ consumed \in Nat /\ Len(buff) <= SIZE
    BY DEF Typed
  <2>3. x \in Seq(Symbols) /\ Len(x) <= SIZE
    <3>1. /\ Len(m) + 1 \in 1 .. Len(buff) + 1 /\ Len(buff) \in 0 .. Len(buff)
          /\ Len(m) + 1 <= Len(buff) + 1 /\ Len(m) \in Nat
      BY <1>1, <2>2
    <3>2. x \in Seq(Symbols) /\ Len(x) = Len(buff) - ((Len(m) + 1) - 1)
      BY <2>2, <3>1, CutIs
    <3> QED
      BY <2>2, <3>1, <3>2, BoundsAre
  <2>4. a \in Answer /\ consumed + Len(m) \in Nat
    BY <1>1, <2>2 DEF Answer, Status
  <2> HIDE DEF a, x
  <2>5. answers' \in [Clients -> Seq(Answer)]
    <3>1. Append(answers[new_fd], a) \in Seq(Answer)
      BY <1>1, <2>4 DEF Typed
    <3> QED
      BY <2>1, <3>1 DEF Typed
  <2> QED
    BY <1>1, <1>2, <1>3, <2>1, <2>3, <2>4, <2>5 DEF Typed
<1> QED
  BY <1>1, <1>4, <1>5

\* Every step keeps the types.
LEMMA TypedStep ==
    ASSUME Typed, [Next]_vars
    PROVE  Typed'
<1> USE DEF store, talk, peers
<1>1. ASSUME UNCHANGED script PROVE \A c \in Clients : Stream(c)' = Stream(c)
  BY <1>1 DEF Stream
<1>2. CASE UNCHANGED vars
  BY <1>1, <1>2 DEF vars, Typed
<1>3. ASSUME NEW c \in Clients, Connect(c) \/ Hangup(c) \/ Reset(c)
      PROVE  Typed'
  <2>1. mode' \in [Clients -> {"new", "open", "done", "reset"}]
    BY <1>3 DEF Connect, Hangup, Reset, Typed
  <2>2. backlog' \in Seq(Clients)
    <3>1. backlog' = backlog \/ backlog' = Append(backlog, c)
      BY <1>3 DEF Connect, Hangup, Reset
    <3>2. backlog \in Seq(Clients) /\ Append(backlog, c) \in Seq(Clients)
      BY DEF Typed
    <3> QED
      BY <3>1, <3>2
  <2>3. UNCHANGED <<pc, new_fd, buff, faults, consumed, answers, closed, received, script, sent,
                    segments>>
    BY <1>3 DEF Connect, Hangup, Reset
  <2> QED
    BY <1>1, <2>1, <2>2, <2>3 DEF Typed
<1>4. CASE accept
  <2>1. Head(backlog) \in Clients /\ Tail(backlog) \in Seq(Clients)
    BY <1>4 DEF accept, Typed
  <2>2. <<>> \in Seq(Symbols) /\ Len(<<>>) <= SIZE /\ NoClient \notin Clients
    <3>1. <<>> \in Seq(Symbols) /\ Len(<<>>) = 0
      BY EmptySeq
    <3>2. NoClient \notin Clients
      BY TcpAssumption
    <3> QED
      BY <3>1, <3>2, BoundsAre
  <2>3. /\ pc' = "recv" /\ new_fd' = Head(backlog) /\ buff' = <<>> /\ consumed' = 0
        /\ backlog' = Tail(backlog)
        /\ UNCHANGED <<faults, answers, closed, received, script, sent, segments, mode>>
    BY <1>4 DEF accept
  <2> QED
    BY <1>1, <2>1, <2>2, <2>3 DEF Typed
<1>5. CASE recv_ends
  <2>1. new_fd \in Clients
    BY <1>5 DEF recv_ends, Typed
  <2> QED
    BY <1>1, <1>5, <2>1 DEF recv_ends, Leave, Typed
<1>6. CASE no_message
  BY <1>1, <1>6 DEF no_message, Typed
<1>7. CASE crash
  BY <1>1, <1>7 DEF crash, Typed
<1> QED
  BY <1>2, <1>3, <1>4, <1>5, <1>6, <1>7, TypedSegment, TypedRecv, TypedMessage
  DEF Next, Environment, Server

----------------------------------------------------------------------------
(* The stream behind the buffer.                                            *)

\* A client has one connection, which waits, is served and is closed in turn.
Queue ==
    /\ \A i, j \in 1 .. Len(backlog) : backlog[i] = backlog[j] => i = j
    /\ \A i \in 1 .. Len(backlog) : /\ mode[backlog[i]] # "new"
                                    /\ backlog[i] \notin closed \cup {new_fd}
    /\ \A c \in closed \cup ({new_fd} \ {NoClient}) : mode[c] # "new"
    /\ new_fd \notin closed

\* Nothing is read from a connection that is not accepted.
Unread == \A c \in Clients \ (closed \cup {new_fd}) :
              Part(received[c], Stream(c), 0, sent[c]) /\ answers[c] = <<>>

\* What is buffered and unread continues the stream of the client connected.
Kept == new_fd # NoClient =>
            Part(buff \o received[new_fd], Stream(new_fd), consumed, sent[new_fd])

StreamInv == Queue /\ Unread /\ Kept

\* At first nothing is sent or received.
LEMMA StreamInit == Init => StreamInv
<1> SUFFICES ASSUME Init PROVE StreamInv
  OBVIOUS
<1>1. Queue
  <2>1. Len(backlog) = 0
    BY DEF Init
  <2> QED
    BY <2>1 DEF Init, Queue
<1>2. Unread
  <2>1. \A s : Part(<<>>, s, 0, 0)
    BY DEF Part
  <2> QED
    BY <2>1 DEF Init, Unread
<1> QED
  BY <1>1, <1>2 DEF Init, Kept, StreamInv

\* A client that connects is new: neither served nor closed nor waiting.
LEMMA StreamConnect ==
    ASSUME Typed, StreamInv, NEW c \in Clients, Connect(c)
    PROVE  StreamInv'
<1>1. /\ mode[c] = "new" /\ mode' = [mode EXCEPT ![c] = "open"]
      /\ backlog' = Append(backlog, c) /\ mode \in [Clients -> {"new", "open", "done", "reset"}]
      /\ UNCHANGED <<new_fd, buff, consumed, answers, closed, received, script, sent>>
  BY DEF Connect, Typed, talk
<1>2. Queue'
  <2>1. /\ Len(backlog') = Len(backlog) + 1 /\ backlog'[Len(backlog) + 1] = c
        /\ \A i \in 1 .. Len(backlog) : backlog'[i] = backlog[i] /\ backlog[i] \in Clients
    BY SMTT(30), <1>1 DEF Typed
  <2>2. c \notin closed \cup {new_fd}
    <3>1. NoClient \notin Clients
      BY TcpAssumption
    <3> QED
      BY <1>1, <3>1 DEF StreamInv, Queue
  <2>3. \A i \in 1 .. Len(backlog) : backlog[i] # c
    BY <1>1 DEF StreamInv, Queue
  <2>4. Len(backlog) \in Nat
    BY DEF Typed
  <2>5. \A i \in 1 .. Len(backlog') : i \in 1 .. Len(backlog) \/ i = Len(backlog) + 1
    BY <2>1, <2>4
  <2>6. closed \subseteq Clients /\ new_fd \in Clients \cup {NoClient}
    BY DEF Typed
  <2>7. mode'[c] = "open" /\ \A d \in Clients : d # c => mode'[d] = mode[d]
    BY <1>1
  <2>8. \A i, j \in 1 .. Len(backlog') : backlog'[i] = backlog'[j] => i = j
    BY <2>1, <2>3, <2>5 DEF StreamInv, Queue
  <2>9. \A i \in 1 .. Len(backlog') : /\ mode'[backlog'[i]] # "new"
                                      /\ backlog'[i] \notin closed' \cup {new_fd'}
    BY <1>1, <2>1, <2>2, <2>3, <2>5, <2>7 DEF StreamInv, Queue
  <2>10. \A d \in closed' \cup ({new_fd'} \ {NoClient}) : mode'[d] # "new"
    BY <1>1, <2>6, <2>7 DEF StreamInv, Queue
  <2> QED
    BY <1>1, <2>8, <2>9, <2>10 DEF StreamInv, Queue
<1>3. Unread' /\ Kept'
  BY <1>1 DEF StreamInv, Unread, Kept, Stream
<1> QED
  BY <1>2, <1>3 DEF StreamInv

\* A client that stops sending is not new again.
LEMMA StreamHangup ==
    ASSUME Typed, StreamInv, NEW c \in Clients, Hangup(c) \/ Reset(c)
    PROVE  StreamInv'
<1>1. /\ \A d \in Clients : mode[d] # "new" => mode'[d] # "new"
      /\ UNCHANGED <<new_fd, buff, consumed, answers, closed, backlog, received, script, sent>>
  BY DEF Hangup, Reset, Typed, talk
<1>2. Queue'
  <2>1. /\ \A i \in 1 .. Len(backlog) : backlog[i] \in Clients
        /\ closed \subseteq Clients /\ new_fd \in Clients \cup {NoClient}
    BY DEF Typed
  <2> QED
    BY <1>1, <2>1 DEF StreamInv, Queue
<1>3. Unread' /\ Kept'
  BY <1>1 DEF StreamInv, Unread, Kept, Stream
<1> QED
  BY <1>2, <1>3 DEF StreamInv

\* Data is put behind data in any grouping.
LEMMA SymbolsAssociate ==
    \A x, y, z \in Seq(Symbols) : (x \o y) \o z = x \o (y \o z)
  BY ConcatAssociative

\* A segment goes behind the data of its client.
LEMMA StreamSegment ==
    ASSUME Typed, StreamInv, NEW c \in Clients, Segment(c)
    PROVE  StreamInv'
<1>1. PICK n \in sent[c] + 1 .. Len(Stream(c)) :
          /\ sent' = [sent EXCEPT ![c] = n]
          /\ received' = [received EXCEPT
                 ![c] = IF c \in closed THEN @ ELSE @ \o SubSeq(Stream(c), sent[c] + 1, n)]
  BY DEF Segment
<1>2. UNCHANGED <<new_fd, buff, consumed, answers, closed, backlog, script, mode>>
  BY DEF Segment, talk
<1>3. /\ sent[c] \in Nat /\ sent[c] <= Len(Stream(c)) /\ n \in Nat /\ n <= Len(Stream(c))
      /\ Stream(c) \in Seq(Symbols) /\ Len(Stream(c)) \in Nat /\ sent[c] + 1 <= n
  BY <1>1, StreamIs DEF Typed
<1>4. received[c] \in Seq(Symbols) /\ buff \in Seq(Symbols)
  BY DEF Typed
<1>5. \A d \in Clients : Stream(d)' = Stream(d)
  BY <1>2 DEF Stream
<1> DEFINE new == SubSeq(Stream(c), sent[c] + 1, n)
<1>6. new \in Seq(Symbols) /\ Part(new, Stream(c), sent[c], n)
  <2>1. /\ sent[c] + 1 \in 1 .. Len(Stream(c)) + 1 /\ n \in 0 .. Len(Stream(c))
        /\ sent[c] + 1 <= n + 1 /\ (sent[c] + 1) - 1 = sent[c]
    BY <1>3
  <2>2. new \in Seq(Symbols) /\ Part(new, Stream(c), (sent[c] + 1) - 1, n)
    BY <1>3, <2>1, CutIs
  <2> QED
    BY <2>1, <2>2
<1>7. /\ sent'[c] = n /\ (c \notin closed => received'[c] = received[c] \o new)
      /\ \A d \in Clients \ {c} : sent'[d] = sent[d] /\ received'[d] = received[d]
  BY <1>1 DEF Typed
<1> HIDE DEF new
<1>8. Queue'
  BY <1>2 DEF StreamInv, Queue
<1>9. Unread'
  <2> SUFFICES ASSUME NEW d \in Clients \ (closed \cup {new_fd})
               PROVE  Part(received'[d], Stream(d), 0, sent'[d]) /\ answers[d] = <<>>
    BY <1>2, <1>5 DEF Unread
  <2>1. Part(received[d], Stream(d), 0, sent[d]) /\ answers[d] = <<>>
    BY DEF StreamInv, Unread
  <2>2. CASE d = c
    <3>1. Part(received[c] \o new, Stream(c), 0, n)
      BY <1>4, <1>6, <2>1, <2>2, PartJoin
    <3> QED
      BY <1>7, <2>1, <2>2, <3>1
  <2>3. CASE d # c
    BY <1>7, <2>1, <2>3
  <2> QED
    BY <2>2, <2>3
<1>10. Kept'
  <2> SUFFICES ASSUME new_fd # NoClient
               PROVE  Part(buff \o received'[new_fd], Stream(new_fd), consumed, sent'[new_fd])
    BY <1>2 DEF Kept, Stream
  <2>1. Part(buff \o received[new_fd], Stream(new_fd), consumed, sent[new_fd])
    BY DEF StreamInv, Kept
  <2>2. new_fd \in Clients
    BY DEF Typed
  <2>3. CASE new_fd = c
    <3>1. c \notin closed
      BY <2>3 DEF StreamInv, Queue
    <3> DEFINE x == buff \o received[c]
    <3>2. x \in Seq(Symbols) /\ Part(x, Stream(c), consumed, sent[c])
      BY <1>4, <2>1, <2>3, ConcatProperties
    <3>3. Part(x \o new, Stream(c), consumed, n)
      <4> HIDE DEF x
      <4> QED
        BY <1>6, <3>2, PartJoin
    <3>4. x \o new = buff \o (received[c] \o new)
      BY <1>4, <1>6, SymbolsAssociate
    <3> HIDE DEF x
    <3> QED
      BY <1>7, <2>3, <3>1, <3>3, <3>4
  <2>4. CASE new_fd # c
    BY <1>7, <2>1, <2>2, <2>4
  <2> QED
    BY <2>3, <2>4
<1> QED
  BY <1>8, <1>9, <1>10 DEF StreamInv

\* A connection is accepted with an empty buffer, and everything its client has
\* sent is still to be read.
LEMMA StreamAccept ==
    ASSUME Typed, StreamInv, accept
    PROVE  /\ StreamInv'
           /\ consumed' = 0 /\ new_fd' \in Clients /\ answers'[new_fd'] = <<>>
           /\ UNCHANGED <<answers, script>>
<1> DEFINE c == Head(backlog)
<1>1. /\ backlog' = Tail(backlog) /\ new_fd' = c /\ buff' = <<>> /\ consumed' = 0
      /\ new_fd = NoClient /\ backlog # <<>>
      /\ UNCHANGED <<answers, closed, received, script, sent, mode>>
  BY DEF accept, Typed
<1>2. /\ backlog \in Seq(Clients) /\ c = backlog[1] /\ c \in Clients
      /\ 1 \in 1 .. Len(backlog) /\ Len(backlog) \in Nat
  BY <1>1 DEF Typed
<1>3. /\ Len(backlog') = Len(backlog) - 1
      /\ \A i \in 1 .. Len(backlog') : backlog'[i] = backlog[i + 1]
  BY <1>1, <1>2, HeadTailProperties
<1> HIDE DEF c
<1>4. c # NoClient /\ NoClient \notin Clients
  BY <1>2, TcpAssumption
<1>5. c \notin closed /\ mode[c] # "new"
  BY <1>2 DEF StreamInv, Queue
<1>6. \A d \in Clients : Stream(d)' = Stream(d)
  BY <1>1 DEF Stream
<1>7. Queue'
  <2>1. \A i \in 1 .. Len(backlog') : i + 1 \in 1 .. Len(backlog) /\ i + 1 # 1
    BY <1>2, <1>3
  <2>2. \A i, j \in 1 .. Len(backlog') : backlog'[i] = backlog'[j] => i = j
    <3> SUFFICES ASSUME NEW i \in 1 .. Len(backlog'), NEW j \in 1 .. Len(backlog'),
                        backlog'[i] = backlog'[j]
                 PROVE  i = j
      OBVIOUS
    <3>1. i + 1 = j + 1
      BY <1>3, <2>1 DEF StreamInv, Queue
    <3> QED
      BY <3>1
  <2>3. \A i \in 1 .. Len(backlog') : backlog'[i] # c
    BY <1>2, <1>3, <2>1 DEF StreamInv, Queue
  <2>4. \A i \in 1 .. Len(backlog') : mode[backlog'[i]] # "new" /\ backlog'[i] \notin closed
    BY <1>3, <2>1 DEF StreamInv, Queue
  <2>5. \A d \in closed : mode[d] # "new"
    BY DEF StreamInv, Queue
  <2> QED
    BY <1>1, <1>5, <2>2, <2>3, <2>4, <2>5 DEF Queue
<1>8. Part(received[c], Stream(c), 0, sent[c]) /\ answers[c] = <<>>
  BY <1>1, <1>2, <1>4, <1>5 DEF StreamInv, Unread
<1>9. Unread'
  <2>1. \A d \in Clients \ (closed \cup {c}) :
            Part(received[d], Stream(d), 0, sent[d]) /\ answers[d] = <<>>
    BY <1>1, <1>4 DEF StreamInv, Unread
  <2> QED
    BY <1>1, <1>6, <2>1 DEF Unread
<1>10. Kept'
  <2>1. <<>> \o received[c] = received[c]
    <3>1. received[c] \in Seq(Symbols)
      BY <1>2 DEF Typed
    <3> QED
      BY <3>1, ConcatEmptySeq
  <2>2. Part(<<>> \o received[c], Stream(c), 0, sent[c])
    BY <1>8, <2>1
  <2> QED
    BY <1>1, <2>2 DEF Kept, Stream
<1> QED
  BY <1>1, <1>2, <1>7, <1>8, <1>9, <1>10 DEF StreamInv

\* What recv() takes goes behind the buffer.
LEMMA StreamRecv ==
    ASSUME Typed, StreamInv, recv
    PROVE  StreamInv'
<1>1. PICK n \in Nat :
          /\ n <= Len(received[new_fd]) /\ new_fd \in Clients
          /\ buff' = buff \o SubSeq(received[new_fd], 1, n)
          /\ received' = [received EXCEPT ![new_fd] = SubSeq(@, n + 1, Len(@))]
  BY AmountReceived
<1>2. UNCHANGED <<new_fd, consumed, answers, closed, backlog, script, sent, mode>>
  BY DEF recv, talk
<1> DEFINE u == received[new_fd]
           x == SubSeq(u, 1, n)
           y == SubSeq(u, n + 1, Len(u))
<1>3. u \in Seq(Symbols) /\ Len(u) \in Nat /\ buff \in Seq(Symbols)
  BY <1>1 DEF Typed
<1>4. buff' = buff \o x /\ received'[new_fd] = y
      /\ \A d \in Clients \ {new_fd} : received'[d] = received[d]
  BY <1>1 DEF Typed
<1>5. Queue' /\ Unread'
  BY <1>2, <1>4 DEF StreamInv, Queue, Unread, Stream
<1>6. new_fd # NoClient
  BY <1>1, TcpAssumption
<1>7. Part(buff \o u, Stream(new_fd), consumed, sent[new_fd])
  BY <1>6 DEF StreamInv, Kept
<1>8. n <= Len(u)
  BY <1>1
<1> HIDE DEF u
<1>9. /\ x \in Seq(Symbols) /\ Len(x) = n /\ Part(x, u, 0, n)
      /\ y \in Seq(Symbols) /\ Part(y, u, n, Len(u))
  <2>1. /\ 1 \in 1 .. Len(u) + 1 /\ n \in 0 .. Len(u) /\ 1 <= n + 1 /\ 1 - 1 = 0 /\ n - 0 = n
        /\ n + 1 \in 1 .. Len(u) + 1 /\ Len(u) \in 0 .. Len(u) /\ n + 1 <= Len(u) + 1
        /\ (n + 1) - 1 = n
    BY <1>1, <1>3, <1>8
  <2>2. x \in Seq(Symbols) /\ Len(x) = n - (1 - 1) /\ Part(x, u, 1 - 1, n)
    BY <1>3, <2>1, CutIs
  <2>3. y \in Seq(Symbols) /\ Part(y, u, (n + 1) - 1, Len(u))
    BY <1>3, <2>1, CutIs
  <2> QED
    BY <2>1, <2>2, <2>3
<1> HIDE DEF x, y
<1>10. u = x \o y
  <2>1. Part(x \o y, u, 0, Len(u))
    BY <1>9, PartJoin
  <2> DEFINE z == x \o y
  <2>2. z \in Seq(Symbols) /\ Part(z, u, 0, Len(u))
    BY <1>9, <2>1, ConcatProperties
  <2> HIDE DEF z
  <2>3. Len(z) = Len(u) - 0 /\ \A i \in 1 .. Len(u) - 0 : z[i] = u[0 + i]
    BY <2>2 DEF Part
  <2>4. Len(z) = Len(u) /\ \A i \in 1 .. Len(u) : z[i] = u[i]
    BY <1>3, <2>3
  <2>5. z = u
    BY <1>3, <2>2, <2>4, SeqEqual
  <2> QED
    BY <2>5 DEF z
<1>11. (buff \o x) \o y = buff \o u
  BY <1>3, <1>9, <1>10, SymbolsAssociate
<1>12. Kept'
  BY <1>2, <1>4, <1>7, <1>11 DEF Kept, Stream
<1> QED
  BY <1>5, <1>12 DEF StreamInv

\* The message that leaves the buffer is consumed.
LEMMA StreamMessage ==
    ASSUME Typed, StreamInv, message
    PROVE  StreamInv'
<1> DEFINE m == SubSeq(buff, 1, total_len(buff))
<1>1. /\ Len(m) \in 1 .. Len(buff) /\ new_fd \in Clients
      /\ \/ Unreplied
         \/ \E code : Replied(m, code)
      /\ UNCHANGED <<new_fd, closed, backlog, received, script, sent, segments, mode>>
  BY MessageAnswered DEF peers
<1> HIDE DEF m
<1>2. new_fd # NoClient
  BY <1>1, TcpAssumption
<1>3. CASE Unreplied
  BY <1>1, <1>3 DEF Unreplied, talk, StreamInv, Queue, Unread, Kept, Stream
<1>4. ASSUME NEW code, Replied(m, code) PROVE StreamInv'
  <2> DEFINE l == Len(m)
             x == SubSeq(buff, l + 1, Len(buff))
             u == received[new_fd]
             k == consumed
             s == Stream(new_fd)
             e == sent[new_fd]
  <2>1. /\ buff' = x /\ consumed' = k + l
        /\ \A d \in Clients \ {new_fd} : answers'[d] = answers[d]
    BY <1>4 DEF Replied, Typed
  <2>2. Queue' /\ Unread'
    BY <1>1, <2>1 DEF StreamInv, Queue, Unread, Stream
  <2>3. Part(buff \o u, s, k, e)
    BY <1>2 DEF StreamInv, Kept
  <2>4. buff \in Seq(Symbols) /\ Len(buff) \in Nat /\ u \in Seq(Symbols) /\ k \in Nat
    BY <1>1 DEF Typed
  <2>5. l \in 1 .. Len(buff)
    BY <1>1
  <2> HIDE DEF l, u, s, k, e
  <2>6. Part(buff, s, k, k + Len(buff)) /\ Part(u, s, k + Len(buff), e)
    BY <2>3, <2>4, PartSplit
  <2>7. x \in Seq(Symbols) /\ Part(x, s, k + l, k + Len(buff))
    <3>1. /\ l + 1 \in 1 .. Len(buff) + 1 /\ Len(buff) \in 0 .. Len(buff)
          /\ l + 1 <= Len(buff) + 1 /\ (l + 1) - 1 = l
      BY <2>4, <2>5
    <3>2. x \in Seq(Symbols) /\ Part(x, s, k + ((l + 1) - 1), k + Len(buff))
      BY <2>4, <2>6, <3>1, PartOfPart
    <3> QED
      BY <3>1, <3>2
  <2> HIDE DEF x
  <2>8. Part(x \o u, s, k + l, e)
    BY <2>4, <2>6, <2>7, PartJoin
  <2>9. Kept'
    BY <1>1, <2>1, <2>8 DEF Kept, Stream, u, s, e
  <2> QED
    BY <2>2, <2>9 DEF StreamInv
<1> QED
  BY <1>1, <1>3, <1>4

\* Every step keeps the streams.
LEMMA StreamStep ==
    ASSUME Typed, StreamInv, [Next]_vars
    PROVE  StreamInv'
<1> USE DEF StreamInv, Queue, Unread, Kept, Stream, store, talk, peers
<1>1. CASE UNCHANGED vars
  BY <1>1 DEF vars
<1>2. CASE recv_ends
  <2>1. /\ new_fd' = NoClient /\ closed' = closed \cup {new_fd} /\ new_fd \in Clients
        /\ UNCHANGED <<buff, consumed, answers, backlog, received, script, sent, mode>>
    BY <1>2 DEF recv_ends, Typed
  <2>2. NoClient \notin Clients /\ closed \subseteq Clients
        /\ \A i \in 1 .. Len(backlog) : backlog[i] \in Clients
    <3>1. closed \subseteq Clients /\ backlog \in Seq(Clients)
      BY DEF Typed
    <3>2. NoClient \notin Clients
      BY TcpAssumption
    <3> QED
      BY <3>1, <3>2
  <2>3. Queue'
    BY <2>1, <2>2
  <2>4. Unread' /\ Kept'
    BY <2>1, <2>2
  <2> QED
    BY <2>3, <2>4
<1>3. CASE no_message
  BY <1>3 DEF no_message
<1>4. CASE crash
  BY <1>4 DEF crash
<1> QED
  BY <1>1, <1>2, <1>3, <1>4, StreamConnect, StreamHangup, StreamSegment, StreamAccept,
     StreamRecv, StreamMessage DEF Next, Environment, Server

\* Nothing of a client's stream is lost, repeated or taken from another client,
\* whichever messages it sends: what recv() leaves, what answered messages leave
\* behind and what is tried again when send() failed continues the stream.
THEOREM BufferContinuesTheStream == Spec => []BufferContinuesStream
<1>1. Typed /\ StreamInv => BufferContinuesStream
  <2> SUFFICES ASSUME Typed, StreamInv, new_fd # NoClient
               PROVE  buff \o received[new_fd] =
                          SubSeq(Stream(new_fd), consumed + 1, sent[new_fd])
    BY DEF BufferContinuesStream
  <2> DEFINE x == buff \o received[new_fd]
             s == Stream(new_fd)
  <2>1. new_fd \in Clients
    BY DEF Typed
  <2>2. Part(x, s, consumed, sent[new_fd])
    BY DEF StreamInv, Kept
  <2>3. s \in Seq(Symbols) /\ sent[new_fd] \in 0 .. Len(s) /\ consumed \in Nat
    BY <2>1, StreamIs DEF Typed
  <2>4. x \in Seq(Symbols)
    BY <2>1, ConcatProperties DEF Typed
  <2> HIDE DEF x, s
  <2>5. consumed <= sent[new_fd]
    BY <2>2 DEF Part
  <2>6. x = SubSeq(s, consumed + 1, sent[new_fd])
    BY <2>2, <2>3, <2>4, <2>5, PartIsSubSeq
  <2> QED
    BY <2>6 DEF x, s
<1>2. Init => Typed /\ StreamInv
  BY TypedInit, StreamInit
<1>3. Typed /\ StreamInv /\ [Next]_vars => (Typed /\ StreamInv)'
  BY TypedStep, StreamStep
<1> QED
  BY <1>1, <1>2, <1>3, PTL DEF Spec

----------------------------------------------------------------------------
(* Which message is answered, and what becomes of the list.                 *)

\* FramedMessages makes get_messages_and_send() find the messages that were sent.
Followed ==
    /\ AnswersFollowMessages
    /\ new_fd # NoClient => consumed = End(script[new_fd], Len(answers[new_fd]))

\* The first message in the buffer is the first one not answered.
LEMMA NextMessage ==
    ASSUME FramedMessages, Typed, StreamInv, Followed, new_fd \in Clients, Complete(buff)
    PROVE  LET m  == SubSeq(buff, 1, total_len(buff))
               ms == script[new_fd]
               n  == Len(answers[new_fd])
           IN  /\ n \in Nat /\ n + 1 \in 1 .. Len(ms) /\ m = ms[n + 1] /\ m \in Sendable
               /\ consumed + Len(m) = End(ms, n + 1)
<1> DEFINE ms == script[new_fd]
           n  == Len(answers[new_fd])
           s  == FlattenSeq(ms)
           k  == End(ms, n)
           u  == received[new_fd]
           e  == sent[new_fd]
<1>1. /\ buff \in Seq(Symbols) /\ u \in Seq(Symbols) /\ answers[new_fd] \in Seq(Answer)
      /\ ms \in Seq(Seq(Symbols)) /\ Len(ms) \in Nat /\ Stream(new_fd) = s
      /\ e \in Nat /\ e <= Len(s)
  BY StreamIs DEF Typed, Stream
<1>2. n \in Nat /\ n <= Len(ms) /\ consumed = k /\ new_fd # NoClient
  <2>1. new_fd # NoClient
    BY TcpAssumption
  <2> QED
    BY <1>1, <2>1 DEF Followed, AnswersFollowMessages
<1>3. Part(buff \o u, s, k, e)
  BY <1>1, <1>2 DEF StreamInv, Kept
<1>4. \A i \in DOMAIN ms : ms[i] \in Sendable
  <2>1. \A i \in DOMAIN ms : ms[i] \in Range(ms)
    BY DEF Range
  <2>2. UNION {Range(script[c]) : c \in Clients} \subseteq Sendable
    BY DEF Sendable, Typed
  <2>3. Range(ms) \in {Range(script[c]) : c \in Clients}
    OBVIOUS
  <2> QED
    BY <2>1, <2>2, <2>3
<1> HIDE DEF ms, n, k, u, e
<1>5. /\ End(ms, Len(ms)) = Len(s) /\ s \in Seq(Symbols)
      /\ \A i \in 1 .. Len(ms) : Part(ms[i], s, End(ms, i - 1), End(ms, i))
  BY <1>1, JoinedInOrder
<1> HIDE DEF s
<1>6. Part(buff, s, k, k + Len(buff)) /\ k + Len(buff) <= e /\ k \in Nat /\ Len(buff) \in Nat
  <2>1. Part(buff, s, k, k + Len(buff)) /\ Part(u, s, k + Len(buff), e)
    BY <1>1, <1>3, PartSplit
  <2> QED
    BY <1>1, <2>1 DEF Part
<1>7. Len(buff) >= 4
  <2>1. header_len(buff) \in 4 .. Len(buff)
    BY <1>1, LengthOfMessage DEF Complete
  <2> QED
    BY <1>6, <2>1
<1>8. n + 1 \in 1 .. Len(ms) /\ (n + 1) - 1 = n
  <2>1. Len(s) \in Nat
    BY <1>5
  <2>2. n # Len(ms)
    <3> SUFFICES ASSUME n = Len(ms) PROVE FALSE
      OBVIOUS
    <3>1. k = Len(s)
      BY <1>5 DEF k
    <3> QED
      BY <1>1, <1>6, <1>7, <2>1, <3>1
  <2> QED
    BY <1>1, <1>2, <2>2
<1> DEFINE m == ms[n + 1]
           f == End(ms, n + 1)
<1>9. m \in Seq(Symbols) /\ m \in Sendable /\ Part(m, s, k, f)
  BY <1>1, <1>4, <1>5, <1>8 DEF k
<1>10. Complete(m) /\ total_len(m) = Len(m)
  BY <1>9 DEF FramedMessages
<1> HIDE DEF m, f
<1>11. SubSeq(buff, 1, total_len(buff)) = m
  BY <1>1, <1>6, <1>9, <1>10, FrontIsNext
<1>12. k + Len(m) = f
  BY <1>9 DEF Part
<1> QED
  BY <1>2, <1>8, <1>9, <1>11, <1>12 DEF m, f, ms, n

\* At first nothing is answered.
LEMMA FollowedInit == Init => Followed
<1> SUFFICES ASSUME Init PROVE Followed
  OBVIOUS
<1>1. \A c \in Clients : answers[c] = <<>> /\ Len(answers[c]) = 0 /\ DOMAIN answers[c] = {}
  BY DEF Init
<1>2. \A c \in Clients : Len(script[c]) \in Nat
  BY StreamIs DEF Init
<1> QED
  BY <1>1, <1>2 DEF Init, Followed, AnswersFollowMessages

\* An answer follows the message that it answers.
LEMMA FollowedMessage ==
    ASSUME FramedMessages, Typed, StreamInv, Followed, message
    PROVE  Followed'
<1> DEFINE m  == SubSeq(buff, 1, total_len(buff))
           ms == script[new_fd]
           a  == answers[new_fd]
           n  == Len(a)
<1>1. /\ new_fd \in Clients /\ Complete(buff) /\ UNCHANGED <<new_fd, script>>
      /\ \/ Unreplied
         \/ \E code : Replied(m, code)
  BY MessageAnswered DEF peers
<1>2. /\ n \in Nat /\ n + 1 \in 1 .. Len(ms) /\ consumed + Len(m) = End(ms, n + 1)
  BY <1>1, NextMessage
<1> HIDE DEF m
<1>3. CASE Unreplied
  BY <1>1, <1>3 DEF Unreplied, talk, Followed, AnswersFollowMessages, EndOf
<1>4. ASSUME NEW code, Replied(m, code) PROVE Followed'
  <2> DEFINE last == [upto |-> consumed + Len(m), status |-> Status(code)]
  <2>1. /\ consumed' = consumed + Len(m)
        /\ answers' = [answers EXCEPT ![new_fd] = Append(@, last)]
    BY <1>4 DEF Replied
  <2>2. last.upto = End(ms, n + 1)
    BY <1>2
  <2> HIDE DEF last
  <2>3. answers'[new_fd] = Append(a, last) /\ \A c \in Clients \ {new_fd} : answers'[c] = answers[c]
    BY <1>1, <2>1 DEF Typed
  <2>4. a \in Seq(Answer) /\ Len(ms) \in Nat
    BY <1>1, StreamIs DEF Typed
  <2>5. /\ Len(a) <= Len(ms) /\ \A i \in DOMAIN a : a[i].upto = End(ms, i)
    BY <1>1 DEF Followed, AnswersFollowMessages, EndOf, End
  <2> HIDE DEF a, ms
  <2> DEFINE b == Append(a, last)
  <2>6. /\ Len(b) = n + 1 /\ DOMAIN b = 1 .. n + 1 /\ DOMAIN a = 1 .. n /\ b[n + 1] = last
        /\ \A i \in 1 .. n : b[i] = a[i]
    BY <2>4
  <2> HIDE DEF b
  <2>7. Len(b) <= Len(ms) /\ \A i \in DOMAIN b : b[i].upto = End(ms, i)
    <3>1. \A i \in DOMAIN b : i \in 1 .. n \/ i = n + 1
      BY <1>2, <2>6
    <3>2. Len(b) <= Len(ms)
      BY <1>2, <2>4, <2>6
    <3> QED
      BY <2>2, <2>5, <2>6, <3>1, <3>2
  <2>8. AnswersFollowMessages'
    <3> SUFFICES ASSUME NEW c \in Clients
                 PROVE  /\ Len(answers'[c]) <= Len(script[c])
                        /\ \A i \in DOMAIN answers'[c] : answers'[c][i].upto = End(script[c], i)
      BY <1>1 DEF AnswersFollowMessages, EndOf, End
    <3>1. CASE c = new_fd
      BY <2>3, <2>7, <3>1 DEF b, ms
    <3>2. CASE c # new_fd
      BY <2>3, <3>2 DEF Followed, AnswersFollowMessages, EndOf, End
    <3> QED
      BY <3>1, <3>2
  <2>9. consumed' = End(script[new_fd], Len(answers'[new_fd]))
    BY <1>2, <2>1, <2>3, <2>6 DEF b, ms
  <2> QED
    BY <1>1, <2>8, <2>9 DEF Followed, End
<1> QED
  BY <1>1, <1>3, <1>4

\* Every other step leaves the answers alone.
LEMMA FollowedStep ==
    ASSUME FramedMessages, Typed, StreamInv, Followed, [Next]_vars
    PROVE  Followed'
<1> USE DEF Followed, AnswersFollowMessages, EndOf, End, store, talk, peers
<1>1. CASE UNCHANGED vars
  BY <1>1 DEF vars
<1>2. ASSUME NEW c \in Clients, Connect(c) \/ Segment(c) \/ Hangup(c) \/ Reset(c)
      PROVE  Followed'
  <2>1. UNCHANGED <<new_fd, consumed, answers, script>>
    BY <1>2 DEF Connect, Segment, Hangup, Reset
  <2> QED
    BY <2>1
<1>3. CASE accept
  <2>1. /\ consumed' = 0 /\ new_fd' \in Clients /\ answers'[new_fd'] = <<>>
        /\ UNCHANGED <<answers, script>>
    BY <1>3, StreamAccept
  <2>2. End(script[new_fd'], 0) = 0
    <3>1. script[new_fd'] \in Seq(Seq(Symbols))
      BY <2>1, StreamIs DEF Typed
    <3> HIDE DEF End
    <3> QED
      BY <3>1, JoinedInOrder
  <2>3. Len(answers'[new_fd']) = 0
    BY <2>1
  <2> QED
    BY <2>1, <2>2, <2>3
<1>4. CASE recv
  BY <1>4 DEF recv
<1>5. CASE recv_ends
  BY <1>5 DEF recv_ends
<1>6. CASE no_message
  BY <1>6 DEF no_message
<1>7. CASE crash
  BY <1>7 DEF crash
<1> QED
  BY <1>1, <1>2, <1>3, <1>4, <1>5, <1>6, <1>7, FollowedMessage DEF Next, Environment, Server

\* If every message is as long as its header says, however the stream is cut
\* into segments, and whichever send() fails, the answers of a client are those
\* to its messages, one each and in order: get_messages_and_send() takes no
\* payload for a message and cuts none.
THEOREM AnswersFollow ==
    ASSUME FramedMessages
    PROVE  Spec => []AnswersFollowMessages
<1>1. Init => Typed /\ StreamInv /\ Followed
  BY TypedInit, StreamInit, FollowedInit
<1>2. Typed /\ StreamInv /\ Followed /\ [Next]_vars => (Typed /\ StreamInv /\ Followed)'
  BY TypedStep, StreamStep, FollowedStep
<1>3. Followed => AnswersFollowMessages
  BY DEF Followed
<1> QED
  BY <1>1, <1>2, <1>3, PTL DEF Spec

----------------------------------------------------------------------------
(* The list of resources.                                                   *)

\* The nodes are what they should be, and no name is in two of them.
Listed ==
    /\ resource_list \in Seq(Nodes)
    /\ \A i, j \in 1 .. Len(resource_list) :
           /\ resource_list[i].filename = resource_list[j].filename
           /\ resource_list[i].filename # NULL
           => i = j

\* A search stops at the first node of that name, or without a name.
LEMMA FoundIs ==
    ASSUME resource_list \in Seq(Nodes), NEW n
    PROVE  /\ Found(n) = 0 \/ Found(n) \in 1 .. Len(resource_list)
           /\ Found(n) # 0 => resource_list[Found(n)].filename \in {n, NULL}
           /\ Found(n) = 0 => \A i \in 1 .. Len(resource_list) :
                                  resource_list[i].filename \notin {n, NULL}
<1> DEFINE I == {i \in 1 .. Len(resource_list) : resource_list[i].filename \in {n, NULL}}
<1>1. Found(n) = IF I # {} THEN Min(I) ELSE 0
  BY DEF Found, SelectInSeq
<1>2. I \in SUBSET Nat /\ \A i \in I : i # 0
  OBVIOUS
<1>3. I # {} => Found(n) \in I
  <2> HIDE DEF I
  <2> QED
    BY <1>1, <1>2, MinIs
<1>4. I = {} => Found(n) = 0
  BY <1>1
<1> QED
  BY <1>2, <1>3, <1>4

\* A new node goes in front of the others.
LEMMA NewHeadIs ==
    ASSUME resource_list \in Seq(Nodes), NEW name \in Names \cup {NULL},
           NEW content \in Bodies \cup {NULL}
    PROVE  LET l == new_head(name, content) IN
           /\ l \in Seq(Nodes) /\ Len(l) = Len(resource_list) + 1
           /\ l[1] = [filename |-> name, content |-> content]
           /\ \A i \in 1 .. Len(resource_list) : l[i + 1] = resource_list[i]
<1> DEFINE z == [filename |-> name, content |-> content]
           x == <<z>>
           y == resource_list
<1>1. z \in Nodes
  BY DEF Nodes
<1> HIDE DEF z
<1>2. x \in Seq(Nodes) /\ Len(x) = 1 /\ x[1] = z /\ y \in Seq(Nodes) /\ Len(y) \in Nat
  BY <1>1
<1>3. new_head(name, content) = x \o y
  BY DEF new_head, z
<1> HIDE DEF x, y
<1>4. /\ x \o y \in Seq(Nodes) /\ Len(x \o y) = Len(x) + Len(y)
      /\ \A i \in 1 .. Len(x) + Len(y) : (x \o y)[i] = IF i <= Len(x) THEN x[i] ELSE y[i - Len(x)]
  BY <1>2, ConcatProperties
<1> DEFINE l == x \o y
<1>5. Len(l) = Len(y) + 1 /\ l[1] = z
  BY <1>2, <1>4
<1>6. ASSUME NEW i \in 1 .. Len(y) PROVE l[i + 1] = y[i]
  <2>1. i + 1 \in 1 .. Len(x) + Len(y) /\ ~(i + 1 <= Len(x)) /\ (i + 1) - Len(x) = i
    BY <1>2
  <2> QED
    BY <1>4, <2>1
<1> QED
  BY <1>3, <1>4, <1>5, <1>6 DEF y, z

\* Where the j-th node was before node i was unlinked.
Before(i, j) == IF j < i THEN j ELSE j + 1

\* The other nodes stay.
LEMMA UnlinkIs ==
    ASSUME resource_list \in Seq(Nodes), NEW i \in 1 .. Len(resource_list)
    PROVE  LET l == unlink(i) IN
           /\ l \in Seq(Nodes) /\ Len(l) = Len(resource_list) - 1
           /\ \A j \in 1 .. Len(resource_list) - 1 : l[j] = resource_list[Before(i, j)]
<1> DEFINE s == resource_list
           x == SubSeq(s, 1, i - 1)
           y == SubSeq(s, i + 1, Len(s))
<1>1. s \in Seq(Nodes) /\ Len(s) \in Nat /\ i \in 1 .. Len(s) /\ unlink(i) = x \o y
  BY DEF unlink, RemoveAt
<1> HIDE DEF s
<1>2. x \in Seq(Nodes) /\ Len(x) = i - 1 /\ \A j \in 1 .. i - 1 : x[j] = s[j]
  <2>1. \A j \in 1 .. i - 1 : s[j] \in Nodes
    BY <1>1
  <2>2. /\ x \in Seq(Nodes) /\ Len(x) = IF 1 <= i - 1 THEN (i - 1) - 1 + 1 ELSE 0
        /\ \A j \in 1 .. (i - 1) - 1 + 1 : x[j] = s[1 + j - 1]
    BY <1>1, <2>1, SubSeqProperties
  <2> HIDE DEF x
  <2>3. (i - 1) - 1 + 1 = i - 1 /\ \A j \in 1 .. i - 1 : 1 + j - 1 = j
    BY <1>1
  <2> QED
    BY <1>1, <2>2, <2>3
<1>3. y \in Seq(Nodes) /\ Len(y) = Len(s) - i /\ \A j \in 1 .. Len(s) - i : y[j] = s[i + j]
  <2>1. \A j \in i + 1 .. Len(s) : s[j] \in Nodes
    BY <1>1
  <2>2. /\ y \in Seq(Nodes) /\ Len(y) = IF i + 1 <= Len(s) THEN Len(s) - (i + 1) + 1 ELSE 0
        /\ \A j \in 1 .. Len(s) - (i + 1) + 1 : y[j] = s[(i + 1) + j - 1]
    BY <1>1, <2>1, SubSeqProperties
  <2> HIDE DEF y
  <2>3. Len(s) - (i + 1) + 1 = Len(s) - i
    BY <1>1
  <2>4. \A j \in 1 .. Len(s) - i : (i + 1) + j - 1 = i + j
    BY <1>1
  <2> QED
    <3>1. Len(y) = Len(s) - i
      BY <1>1, <2>2
    <3>2. ASSUME NEW j \in 1 .. Len(s) - i PROVE y[j] = s[i + j]
      <4>1. j \in 1 .. Len(s) - (i + 1) + 1
        BY <2>3
      <4>2. y[j] = s[(i + 1) + j - 1]
        BY <2>2, <4>1
      <4> QED
        BY <2>4, <4>2
    <3> QED
      BY <2>2, <3>1, <3>2
<1> HIDE DEF x, y
<1> DEFINE l == x \o y
<1>4. /\ l \in Seq(Nodes) /\ Len(l) = Len(x) + Len(y)
      /\ \A j \in 1 .. Len(x) + Len(y) : l[j] = IF j <= Len(x) THEN x[j] ELSE y[j - Len(x)]
  BY <1>2, <1>3, ConcatProperties
<1> HIDE DEF l
<1>5. Len(l) = Len(s) - 1
  BY <1>1, <1>2, <1>3, <1>4
<1>6. ASSUME NEW j \in 1 .. Len(s) - 1 PROVE l[j] = s[Before(i, j)]
  <2>1. j \in 1 .. Len(x) + Len(y)
    BY <1>1, <1>2, <1>3
  <2>2. CASE j < i
    <3>1. j <= Len(x) /\ j \in 1 .. i - 1 /\ Before(i, j) = j
      BY <1>1, <1>2, <2>2 DEF Before
    <3> QED
      BY <1>2, <1>4, <2>1, <3>1
  <2>3. CASE ~(j < i)
    <3>1. /\ ~(j <= Len(x)) /\ j - Len(x) \in 1 .. Len(s) - i /\ i + (j - Len(x)) = j + 1
          /\ Before(i, j) = j + 1
      BY <1>1, <1>2, <2>3 DEF Before
    <3> QED
      BY <1>3, <1>4, <2>1, <3>1
  <2> QED
    BY <2>2, <2>3
<1> QED
  BY <1>1, <1>4, <1>5, <1>6 DEF l, s

\* No two nodes come from the same place, and none from that of the unlinked one.
LEMMA BeforeIs ==
    ASSUME NEW k \in Nat, NEW i \in 1 .. k
    PROVE  /\ \A j \in 1 .. k - 1 : Before(i, j) \in 1 .. k /\ Before(i, j) # i
           /\ \A j, l \in 1 .. k - 1 : Before(i, j) = Before(i, l) => j = l
           /\ \A j \in 1 .. k : j # i => \E l \in 1 .. k - 1 : Before(i, l) = j
<1>1. \A j \in 1 .. k - 1 : Before(i, j) \in 1 .. k /\ Before(i, j) # i
  BY DEF Before
<1>2. \A j, l \in 1 .. k - 1 : Before(i, j) = Before(i, l) => j = l
  BY DEF Before
<1>3. ASSUME NEW j \in 1 .. k, j # i PROVE \E l \in 1 .. k - 1 : Before(i, l) = j
  <2>1. CASE j < i
    <3>1. j \in 1 .. k - 1 /\ Before(i, j) = j
      BY <2>1 DEF Before
    <3> QED
      BY <3>1
  <2>2. CASE ~(j < i)
    <3>1. j - 1 \in 1 .. k - 1 /\ Before(i, j - 1) = j
      BY <1>3, <2>2 DEF Before
    <3> QED
      BY <3>1
  <2> QED
    BY <2>1, <2>2
<1> QED
  BY <1>1, <1>2, <1>3

\* What a message does to the list, told by the fields of the nodes: nothing, new
\* content for the node found, a new head, or the node found is unlinked.
Overwrites(l, i, body) ==
    /\ i \in 1 .. Len(resource_list) /\ l \in Seq(Nodes) /\ Len(l) = Len(resource_list)
    /\ \A j \in 1 .. Len(l) : l[j].filename = resource_list[j].filename
    /\ l[i].content \in {body, NULL}
    /\ \A j \in 1 .. Len(l) : j # i => l[j].content = resource_list[j].content

Creates(l, n, body) ==
    /\ Found(n) = 0
    /\ l \in Seq(Nodes) /\ Len(l) = Len(resource_list) + 1
    /\ l[1].filename \in {n, NULL} /\ l[1].content \in {body, NULL}
    /\ \A i \in 1 .. Len(resource_list) : l[i + 1] = resource_list[i]

Unlinks(l, i) ==
    /\ i \in 1 .. Len(resource_list) /\ l \in Seq(Nodes) /\ Len(l) = Len(resource_list) - 1
    /\ \A j \in 1 .. Len(resource_list) - 1 : l[j] = resource_list[Before(i, j)]

\* The call of the list that outcome o is of, for name n, and what it returns.
Calls(o, n, body) ==
    \/ /\ o.list = resource_list /\ o.call = result
    \/ /\ o.list = resource_list /\ Found(n) = 0 /\ o.call = Returned("get", n, NULL)
    \/ /\ o.list = resource_list /\ Found(n) # 0
       /\ o.call = Returned("get", n, resource_list[Found(n)].content)
    \/ /\ Found(n) # 0 /\ Overwrites(o.list, Found(n), body) /\ o.call = Returned("set", n, TRUE)
    \/ /\ Creates(o.list, n, body) /\ o.call = Returned("set", n, FALSE)
    \/ /\ o.list = resource_list /\ Found(n) = 0 /\ o.call = Returned("delete", n, FALSE)
    \/ /\ Found(n) # 0 /\ Unlinks(o.list, Found(n)) /\ o.call = Returned("delete", n, TRUE)

\* overwrite() changes the content of the node found.
LEMMA OverwriteCalls ==
    ASSUME resource_list \in Seq(Nodes), NEW n, NEW body \in Bodies, Found(n) # 0,
           NEW o \in overwrite(n, body)
    PROVE  Calls(o, n, body)
<1> DEFINE i == Found(n)
           changed(s) == [resource_list EXCEPT ![i].content = s]
           call == Returned("set", n, TRUE)
<1>1. overwrite(n, body) =
          {Outcome(204, changed(copy.string), copy.failures, call) : copy \in Copies(body)}
  BY DEF overwrite
<1>2. i \in 1 .. Len(resource_list)
  BY FoundIs
<1> HIDE DEF i
<1>3. ASSUME NEW s \in {body, NULL} PROVE Overwrites(changed(s), i, body)
  <2> DEFINE l == changed(s)
             x == [resource_list[i] EXCEPT !.content = s]
  <2>1. l = [resource_list EXCEPT ![i] = x]
    OBVIOUS
  <2>2. x \in Nodes /\ x.filename = resource_list[i].filename /\ x.content = s
    <3>1. resource_list[i] \in Nodes
      BY <1>2
    <3> QED
      BY <1>3, <3>1 DEF Nodes
  <2> HIDE DEF l, x
  <2>3. /\ l \in Seq(Nodes) /\ Len(l) = Len(resource_list) /\ l[i] = x
        /\ \A j \in 1 .. Len(resource_list) : j # i => l[j] = resource_list[j]
    BY <1>2, <2>1, <2>2
  <2> HIDE DEF changed
  <2>4. Overwrites(l, i, body)
    BY <1>2, <1>3, <2>2, <2>3 DEF Overwrites
  <2> QED
    BY <2>4 DEF l
<1> HIDE DEF changed, call
<1>4. PICK copy \in Copies(body) : o = Outcome(204, changed(copy.string), copy.failures, call)
  BY <1>1
<1>5. copy.string \in {body, NULL}
  BY <1>4 DEF Copies
<1>6. o.list = changed(copy.string) /\ o.call = call
  BY <1>4, OutcomeParts
<1>7. Overwrites(o.list, i, body)
  BY <1>3, <1>5, <1>6
<1> QED
  BY <1>6, <1>7 DEF Calls, i, call

\* create() puts a node for the name, which no node has, in front.
LEMMA CreateCalls ==
    ASSUME resource_list \in Seq(Nodes), NEW n \in Names, NEW body \in Bodies, Found(n) = 0,
           NEW o \in create(n, body)
    PROVE  Calls(o, n, body)
<1> DEFINE call == Returned("set", n, FALSE)
<1>1. create(n, body) =
          {Outcome(201, new_head(name.string, copy.string), name.failures + copy.failures, call) :
               name \in Copies(n), copy \in Copies(body)}
          \cup {Outcome(500, resource_list, 1, result)}
  BY DEF create
<1> HIDE DEF call
<1>2. CASE o = Outcome(500, resource_list, 1, result)
  <2>1. o.list = resource_list /\ o.call = result
    BY <1>2, OutcomeParts
  <2> QED
    BY <2>1 DEF Calls
<1>3. ASSUME NEW name \in Copies(n), NEW copy \in Copies(body),
             o = Outcome(201, new_head(name.string, copy.string), name.failures + copy.failures, call)
      PROVE  Calls(o, n, body)
  <2>1. name.string \in {n, NULL} /\ copy.string \in {body, NULL}
    BY DEF Copies
  <2>2. o.list = new_head(name.string, copy.string) /\ o.call = call
    BY <1>3, OutcomeParts
  <2> DEFINE x == name.string
             y == copy.string
             l == new_head(x, y)
  <2>3. x \in Names \cup {NULL} /\ y \in Bodies \cup {NULL}
    BY <2>1
  <2>4. x \in {n, NULL} /\ y \in {body, NULL}
    BY <2>1
  <2> HIDE DEF x, y
  <2>5. /\ l \in Seq(Nodes) /\ Len(l) = Len(resource_list) + 1
        /\ l[1] = [filename |-> x, content |-> y]
        /\ \A i \in 1 .. Len(resource_list) : l[i + 1] = resource_list[i]
    BY <2>3, NewHeadIs
  <2> HIDE DEF l
  <2>6. Creates(l, n, body)
    BY <2>4, <2>5 DEF Creates
  <2>7. o.list = l
    BY <2>2 DEF l, x, y
  <2> QED
    BY <2>2, <2>6, <2>7 DEF Calls, call
<1> QED
  BY <1>1, <1>2, <1>3

\* Every request comes to one of these calls, or to none.
LEMMA MessageCalls ==
    ASSUME resource_list \in Seq(Nodes), NEW m, Understood(check_first_line(m)),
           get_body(m) \in Bodies, NEW o \in get_code(m)
    PROVE  \/ o.list = resource_list /\ o.call = result
           \/ /\ ~Crashes(m) => ~Faulty(check_first_line(m).name)
              /\ check_first_line(m).name \in Names
              /\ Calls(o, check_first_line(m).name, get_body(m))
<1> DEFINE r == check_first_line(m)
           n == r.name
           body == get_body(m)
<1>1. ASSUME NEW code, o \in Just(code) PROVE o.list = resource_list /\ o.call = result
  BY <1>1, OutcomeParts DEF Just
<1>2. CASE /\ r.method \in {"GET", "PUT", "DELETE"} /\ r.dir = "dynamic"
           /\ n \in Names /\ n # ""
           /\ o \in get_dynamic_ressource(n) \/ o \in put(n, body) \/ o \in delete(n)
  <2>1. ~Crashes(m) => ~Faulty(n)
    BY <1>2 DEF Crashes
  <2> HIDE DEF r, n, body
  <2>2. body \in Bodies
    BY DEF body
  <2>3. ASSUME o \in get_dynamic_ressource(n) PROVE Calls(o, n, body)
    <3> DEFINE v == resource_list[Found(n)].content
    <3>1. get_dynamic_ressource(n) =
              IF Found(n) = 0 THEN {Outcome(404, resource_list, 0, Returned("get", n, NULL))}
              ELSE {Outcome(200, resource_list, 0, Returned("get", n, v))}
      BY <1>2 DEF get_dynamic_ressource
    <3> HIDE DEF v
    <3>2. CASE Found(n) = 0
      <4>1. o.list = resource_list /\ o.call = Returned("get", n, NULL)
        BY <2>3, <3>1, <3>2, OutcomeParts
      <4> QED
        BY <3>2, <4>1 DEF Calls
    <3>3. CASE Found(n) # 0
      <4>1. o.list = resource_list /\ o.call = Returned("get", n, v)
        BY <2>3, <3>1, <3>3, OutcomeParts
      <4> QED
        BY <3>3, <4>1 DEF Calls, v
    <3> QED
      BY <3>2, <3>3
  <2>4. ASSUME o \in put(n, body) PROVE Calls(o, n, body)
    BY <1>2, <2>2, <2>4, OverwriteCalls, CreateCalls DEF put
  <2>5. ASSUME o \in delete(n) PROVE Calls(o, n, body)
    <3> DEFINE no == Returned("delete", n, FALSE)
               yes == Returned("delete", n, TRUE)
    <3>1. delete(n) = IF Found(n) = 0 THEN {Outcome(404, resource_list, 0, no)}
                      ELSE {Outcome(204, unlink(Found(n)), 0, yes)}
      BY DEF delete
    <3> HIDE DEF no, yes
    <3>2. CASE Found(n) = 0
      <4>1. o.list = resource_list /\ o.call = no
        BY <2>5, <3>1, <3>2, OutcomeParts
      <4> QED
        BY <3>2, <4>1 DEF Calls, no
    <3>3. CASE Found(n) # 0
      <4>1. o.list = unlink(Found(n)) /\ o.call = yes
        BY <2>5, <3>1, <3>3, OutcomeParts
      <4> DEFINE i == Found(n)
                 l == unlink(i)
      <4>2. i \in 1 .. Len(resource_list)
        BY <3>3, FoundIs
      <4> HIDE DEF i
      <4>3. /\ l \in Seq(Nodes) /\ Len(l) = Len(resource_list) - 1
            /\ \A j \in 1 .. Len(resource_list) - 1 : l[j] = resource_list[Before(i, j)]
        BY <4>2, UnlinkIs
      <4> HIDE DEF l
      <4>4. Unlinks(l, i)
        BY <4>2, <4>3 DEF Unlinks
      <4> QED
        BY <3>3, <4>1, <4>4 DEF Calls, yes, l, i
    <3> QED
      BY <3>2, <3>3
  <2>6. Calls(o, n, body)
    BY <1>2, <2>3, <2>4, <2>5
  <2> QED
    BY <1>2, <2>1, <2>6 DEF n, r, body
<1> QED
  BY <1>1, <1>2, OneCallOfList

\* A message is carried out by one call of the list, or none.
LEMMA MessageOnList ==
    ASSUME FramedMessages, Typed, StreamInv, Followed, Listed, message
    PROVE  \/ UNCHANGED <<resource_list, result>>
           \/ \E n \in Names, body \in Bodies : \E o :
                  /\ ~Faulty(n) /\ Calls(o, n, body)
                  /\ resource_list' = o.list /\ result' = o.call
<1> DEFINE m == SubSeq(buff, 1, total_len(buff))
<1>1. new_fd \in Clients /\ Complete(buff) /\ Understood(check_first_line(m))
  BY MessageAnswered
<1>2. m \in Sendable
  BY <1>1, NextMessage
<1>3. get_body(m) \in Bodies
  BY <1>2 DEF Bodies
<1>4. PICK o \in get_code(m) : resource_list' = o.list /\ result' = o.call
  BY DEF message
<1>5. ~Crashes(m)
  BY DEF message
<1> HIDE DEF m
<1>6. resource_list \in Seq(Nodes)
  BY DEF Listed
<1> QED
  BY <1>1, <1>3, <1>4, <1>5, <1>6, MessageCalls

\* A call keeps the names apart.
LEMMA ListedCalls ==
    ASSUME Listed, NEW n \in Names, NEW body \in Bodies, NEW o, Calls(o, n, body),
           resource_list' = o.list
    PROVE  Listed'
<1> DEFINE s == resource_list
           l == resource_list'
<1>1. s \in Seq(Nodes) /\ Len(s) \in Nat
  BY DEF Listed
<1>2. \A i, j \in 1 .. Len(s) : s[i].filename = s[j].filename /\ s[i].filename # NULL => i = j
  BY DEF Listed
<1>3. CASE l = s
  BY <1>3 DEF Listed
<1>4. CASE Overwrites(l, Found(n), body)
  BY <1>4 DEF Overwrites, Listed
<1>5. CASE Creates(l, n, body)
  <2>1. /\ l \in Seq(Nodes) /\ Len(l) = Len(s) + 1 /\ l[1].filename \in {n, NULL}
        /\ \A i \in 1 .. Len(s) : l[i + 1] = s[i] /\ s[i].filename # n
    BY <1>1, <1>5, FoundIs DEF Creates
  <2> HIDE DEF l, s
  <2>2. \A i \in 1 .. Len(l) : i = 1 \/ (i - 1 \in 1 .. Len(s) /\ l[i] = s[i - 1])
    <3> SUFFICES ASSUME NEW i \in 1 .. Len(l), i # 1
                 PROVE  i - 1 \in 1 .. Len(s) /\ l[i] = s[i - 1]
      OBVIOUS
    <3>1. i - 1 \in 1 .. Len(s) /\ (i - 1) + 1 = i
      BY <1>1, <2>1
    <3> QED
      BY <2>1, <3>1
  <2>3. ASSUME NEW i \in 1 .. Len(l), NEW j \in 1 .. Len(l),
               l[i].filename = l[j].filename, l[i].filename # NULL
        PROVE  i = j
    <3>1. CASE i = 1 /\ j # 1
      BY <2>1, <2>2, <2>3, <3>1
    <3>2. CASE i # 1 /\ j = 1
      BY <2>1, <2>2, <2>3, <3>2
    <3>3. CASE i # 1 /\ j # 1
      <4>1. i - 1 = j - 1
        BY <1>2, <2>2, <2>3, <3>3
      <4> QED
        BY <1>1, <2>1, <4>1
    <3> QED
      BY <3>1, <3>2, <3>3
  <2> QED
    BY <2>1, <2>3 DEF Listed, l
<1>6. CASE Unlinks(l, Found(n))
  <2> DEFINE i == Found(n)
  <2>1. /\ i \in 1 .. Len(s) /\ l \in Seq(Nodes) /\ Len(l) = Len(s) - 1
        /\ \A j \in 1 .. Len(s) - 1 : l[j] = s[Before(i, j)]
    BY <1>6 DEF Unlinks
  <2> HIDE DEF l, s, i
  <2>2. /\ \A j \in 1 .. Len(s) - 1 : Before(i, j) \in 1 .. Len(s)
        /\ \A j, k \in 1 .. Len(s) - 1 : Before(i, j) = Before(i, k) => j = k
    BY <1>1, <2>1, BeforeIs
  <2>3. \A j, k \in 1 .. Len(l) : l[j].filename = l[k].filename /\ l[j].filename # NULL => j = k
    BY SMTT(30), <1>2, <2>1, <2>2
  <2> QED
    BY <2>1, <2>3 DEF Listed, l
<1> QED
  BY <1>3, <1>4, <1>5, <1>6 DEF Calls

\* Only messages reach the list.
LEMMA ListUntouched ==
    ASSUME [Next]_vars, ~message
    PROVE  UNCHANGED <<resource_list, result>>
BY DEF Next, vars, Environment, Server, Connect, Segment, Hangup, Reset, accept, recv, recv_ends,
       no_message, crash, store

\* Every step keeps the list in order.
LEMMA ListedStep ==
    ASSUME FramedMessages, Typed, StreamInv, Followed, Listed, [Next]_vars
    PROVE  Listed'
<1>1. CASE message
  BY <1>1, MessageOnList, ListedCalls DEF Listed
<1>2. CASE ~message
  BY <1>2, ListUntouched DEF Listed
<1> QED
  BY <1>1, <1>2

\* At first there is nothing on the list.
LEMMA ListedInit == Init => Listed
  BY EmptySeq DEF Init, Listed

\* All that is known of the state of the process.
AllInv == Typed /\ StreamInv /\ Followed /\ Listed

LEMMA AllInit == Init => AllInv
  BY TypedInit, StreamInit, FollowedInit, ListedInit DEF AllInv

LEMMA AllStep ==
    ASSUME FramedMessages, AllInv, [Next]_vars
    PROVE  AllInv'
  BY TypedStep, StreamStep, FollowedStep, ListedStep DEF AllInv

\* If messages are framed, the buffer stays within its size, whatever is received
\* and however send() fails, and the list holds names and payloads that were sent,
\* or what my_strdup() left when it failed.
THEOREM ServerTypes ==
    ASSUME FramedMessages
    PROVE  Spec => []TypeOK
<1>1. AllInv => TypeOK
  <2> SUFFICES ASSUME AllInv PROVE TypeOK
    OBVIOUS
  <2>1. Typed /\ Listed
    BY DEF AllInv
  <2>2. \A i \in DOMAIN resource_list : resource_list[i] \in Nodes
    BY <2>1 DEF Listed
  <2>3. \A c \in Clients : sent[c] \in 0 .. Len(Stream(c)) /\ segments[c] \in 0 .. MaxSegments[c]
    <3> SUFFICES ASSUME NEW c \in Clients
                 PROVE  sent[c] \in 0 .. Len(Stream(c)) /\ segments[c] \in 0 .. MaxSegments[c]
      OBVIOUS
    <3>1. Len(Stream(c)) \in Nat /\ MaxSegments[c] \in Nat
      BY <2>1, StreamIs, BoundsAre DEF Typed
    <3>2. /\ sent[c] \in Nat /\ sent[c] <= Len(Stream(c))
          /\ segments[c] \in Nat /\ segments[c] <= MaxSegments[c]
      BY <2>1 DEF Typed
    <3> QED
      BY <3>1, <3>2
  <2> QED
    BY <2>1, <2>2, <2>3 DEF Typed, TypeOK
<1> QED
  BY <1>1, AllInit, AllStep, PTL DEF Spec

----------------------------------------------------------------------------
(* The list as a dictionary.                                                *)

\* A name has the content of its node, or none.
ContentsFind ==
    /\ \A n \in Names, i \in 1 .. Len(resource_list) :
           resource_list[i].filename = n => Contents[n] = resource_list[i].content
    /\ \A n \in Names :
           (\A i \in 1 .. Len(resource_list) : resource_list[i].filename # n) => Contents[n] = NULL

\* No name is in two nodes, so the first of its nodes is the only one.
LEMMA ListFinds == Listed => ContentsFind
<1> SUFFICES ASSUME Listed PROVE ContentsFind
  OBVIOUS
<1>1. ASSUME NEW n \in Names, NEW i \in 1 .. Len(resource_list), resource_list[i].filename = n
      PROVE  Contents[n] = resource_list[i].content
  <2> DEFINE I == {j \in 1 .. Len(resource_list) : resource_list[j].filename = n}
             f == SelectInSeq(resource_list, LAMBDA node : node.filename = n)
  <2>1. i \in I /\ I \in SUBSET Nat
    BY <1>1
  <2>2. f = Min(I)
    BY <2>1 DEF SelectInSeq
  <2>3. f \in I
    <3> HIDE DEF I, f
    <3> QED
      BY <2>1, <2>2, MinIs
  <2>4. f = i
    <3>1. f \in 1 .. Len(resource_list) /\ resource_list[f].filename = n
      BY <2>3
    <3>2. n # NULL
      BY TcpAssumption
    <3> HIDE DEF f
    <3> QED
      BY <1>1, <3>1, <3>2 DEF Listed
  <2>5. Content(n) = resource_list[f].content
    <3>1. i \in DOMAIN resource_list
      BY DEF Listed
    <3> QED
      BY <1>1, <3>1 DEF Content
  <2> HIDE DEF f
  <2> QED
    BY <2>4, <2>5 DEF Contents
<1>2. ASSUME NEW n \in Names, \A i \in 1 .. Len(resource_list) : resource_list[i].filename # n
      PROVE  Contents[n] = NULL
  <2>1. DOMAIN resource_list = 1 .. Len(resource_list)
    BY DEF Listed
  <2> QED
    BY <1>2, <2>1 DEF Content, Contents
<1> QED
  BY <1>1, <1>2 DEF ContentsFind

\* A list without missing copies: a name is held exactly if it has a node.
LEMMA HeldHasNode ==
    ASSUME Listed, Intact, NEW n \in Names, ~Faulty(n)
    PROVE  /\ Found(n) # 0 =>
                  /\ Found(n) \in 1 .. Len(resource_list)
                  /\ resource_list[Found(n)].filename = n
                  /\ Contents[n] = resource_list[Found(n)].content
                  /\ n \in D!Held
           /\ Found(n) = 0 =>
                  /\ \A i \in 1 .. Len(resource_list) : resource_list[i].filename # n
                  /\ Contents[n] = NULL
                  /\ n \notin D!Held
<1>1. ContentsFind
  BY ListFinds
<1>2. resource_list \in Seq(Nodes)
  BY DEF Listed
<1>3. ASSUME Found(n) # 0
      PROVE  /\ Found(n) \in 1 .. Len(resource_list)
             /\ resource_list[Found(n)].filename = n
             /\ Contents[n] = resource_list[Found(n)].content
             /\ n \in D!Held
  <2>1. Found(n) \in 1 .. Len(resource_list) /\ resource_list[Found(n)].filename \in {n, NULL}
    BY <1>2, <1>3, FoundIs
  <2>2. resource_list[Found(n)].filename = n
    BY <1>3, <2>1 DEF Faulty
  <2>3. Contents[n] = resource_list[Found(n)].content
    BY <1>1, <2>1, <2>2 DEF ContentsFind
  <2>4. resource_list[Found(n)].content # NULL
    BY <1>2, <2>1 DEF Intact
  <2> QED
    BY <2>1, <2>2, <2>3, <2>4 DEF D!Held
<1>4. ASSUME Found(n) = 0
      PROVE  /\ \A i \in 1 .. Len(resource_list) : resource_list[i].filename # n
             /\ Contents[n] = NULL
             /\ n \notin D!Held
  <2>1. \A i \in 1 .. Len(resource_list) : resource_list[i].filename # n
    BY <1>2, <1>4, FoundIs
  <2>2. Contents[n] = NULL
    BY <1>1, <2>1 DEF ContentsFind
  <2> QED
    BY <2>1, <2>2 DEF D!Held
<1> QED
  BY <1>3, <1>4

\* The dictionary has room for every name.
LEMMA RoomForAll == D!Cardinality(D!Held) < Cardinality(Names) + 1
<1>1. D!Held \in SUBSET Names /\ IsFiniteSet(Names)
  BY TcpAssumption DEF D!Held
<1>2. /\ Cardinality(D!Held) <= Cardinality(Names) /\ Cardinality(Names) \in Nat
      /\ Cardinality(D!Held) \in Nat
  BY <1>1, FS_Subset, FS_CardinalityType
<1>3. D!Cardinality(D!Held) = Cardinality(D!Held)
  BY DEF D!Cardinality, Cardinality
<1> QED
  BY <1>2, <1>3

\* A step leaves the nodes of names other than n, and makes none.
OthersKept(n) == \A x \in Names \ {n} :
    /\ \A i \in 1 .. Len(resource_list) :
           resource_list[i].filename = x =>
               \E j \in 1 .. Len(resource_list') :
                   /\ resource_list'[j].filename = x
                   /\ resource_list'[j].content = resource_list[i].content
    /\ \A j \in 1 .. Len(resource_list') :
           resource_list'[j].filename = x =>
               \E i \in 1 .. Len(resource_list) : resource_list[i].filename = x

\* If it gives n content v it puts v at n.
LEMMA OneNameChanged ==
    ASSUME ContentsFind, ContentsFind', NEW n \in Names, NEW v, Contents'[n] = v, OthersKept(n)
    PROVE  Contents' = [Contents EXCEPT ![n] = v]
<1>1. Contents = [x \in Names |-> Contents[x]] /\ Contents' = [x \in Names |-> Contents'[x]]
  BY DEF Contents
<1>2. ASSUME NEW x \in Names \ {n} PROVE Contents'[x] = Contents[x]
  <2>1. CASE \E i \in 1 .. Len(resource_list) : resource_list[i].filename = x
    <3>1. PICK i \in 1 .. Len(resource_list) : resource_list[i].filename = x
      BY <2>1
    <3>2. PICK j \in 1 .. Len(resource_list') :
              /\ resource_list'[j].filename = x
              /\ resource_list'[j].content = resource_list[i].content
      BY <3>1 DEF OthersKept
    <3> QED
      BY <3>1, <3>2 DEF ContentsFind
  <2>2. CASE ~ \E i \in 1 .. Len(resource_list) : resource_list[i].filename = x
    <3>1. ~ \E j \in 1 .. Len(resource_list') : resource_list'[j].filename = x
      BY <2>2 DEF OthersKept
    <3> QED
      BY <2>2, <3>1 DEF ContentsFind
  <2> QED
    BY <2>1, <2>2
<1> QED
  BY <1>1, <1>2

\* The contents depend on the list only.
LEMMA SameContents == UNCHANGED resource_list => UNCHANGED Contents
  BY DEF Contents, Content, SelectInSeq

\* Each call is the call of the dictionary.
LEMMA CallOfDictionary ==
    ASSUME Listed, Listed', Intact, Intact', NEW n \in Names, NEW body \in Bodies, NEW o,
           ~Faulty(n), Calls(o, n, body), resource_list' = o.list, result' = o.call
    PROVE  D!Next \/ UNCHANGED D!vars
<1> DEFINE s == resource_list
           l == resource_list'
           i == Found(n)
<1>1. ContentsFind /\ ContentsFind'
  BY ListFinds, PTL
<1>2. s \in Seq(Nodes) /\ Len(s) \in Nat /\ n # NULL
  <2>1. s \in Seq(Nodes)
    BY DEF Listed
  <2>2. n # NULL
    BY TcpAssumption
  <2> QED
    BY <2>1, <2>2
<1>3. /\ i # 0 => /\ i \in 1 .. Len(s) /\ s[i].filename = n /\ Contents[n] = s[i].content
                  /\ n \in D!Held
      /\ i = 0 => /\ \A j \in 1 .. Len(s) : s[j].filename # n
                  /\ Contents[n] = NULL /\ n \notin D!Held
  BY HeldHasNode
<1>4. \A x \in D!Held : \A op, ret : Returned(op, x, ret) = D!Returned(op, x, ret)
  BY DEF Returned, D!Returned
<1>5. \A op, ret : Returned(op, n, ret) = D!Returned(op, n, ret)
  BY DEF Returned, D!Returned
<1>6. ASSUME l = s PROVE Contents' = Contents
  BY <1>6, SameContents
<1>7. \A j \in 1 .. Len(l) : l[j].filename # NULL /\ l[j].content # NULL
  BY DEF Intact, Listed
<1>8. CASE l = s /\ result' = result
  BY <1>6, <1>8 DEF D!vars
<1>9. CASE l = s /\ result' = Returned("get", n, Contents[n])
  <2>1. D!Get(n)
    BY <1>5, <1>6, <1>9 DEF D!Get
  <2> QED
    BY <2>1 DEF D!Next
<1>10. CASE i # 0 /\ Overwrites(l, i, body) /\ result' = Returned("set", n, TRUE)
  <2>1. /\ l[i].filename = n /\ l[i].content = body
        /\ i \in 1 .. Len(l) /\ Len(l) = Len(s)
        /\ \A j \in 1 .. Len(s) : /\ l[j].filename = s[j].filename
                                  /\ j # i => l[j].content = s[j].content
    BY <1>3, <1>7, <1>10 DEF Overwrites
  <2>2. Contents'[n] = body
    BY <1>1, <2>1 DEF ContentsFind
  <2>3. OthersKept(n)
    BY <1>3, <1>10, <2>1 DEF OthersKept
  <2>4. Contents' = [Contents EXCEPT ![n] = body]
    BY <1>1, <2>2, <2>3, OneNameChanged
  <2>5. (n \in D!Held) = TRUE
    BY <1>3, <1>10
  <2>6. result' = D!Returned("set", n, n \in D!Held)
    BY <1>5, <1>10, <2>5
  <2>7. D!Set(n, body)
    BY <2>4, <2>5, <2>6 DEF D!Set
  <2> QED
    BY <2>7 DEF D!Next
<1>11. CASE Creates(l, n, body) /\ result' = Returned("set", n, FALSE)
  <2>1. /\ i = 0 /\ Len(l) = Len(s) + 1 /\ l[1].filename = n /\ l[1].content = body
        /\ \A j \in 1 .. Len(s) : l[j + 1] = s[j]
    <3>1. /\ i = 0 /\ Len(l) = Len(s) + 1
          /\ l[1].filename \in {n, NULL} /\ l[1].content \in {body, NULL}
          /\ \A j \in 1 .. Len(s) : l[j + 1] = s[j]
      BY <1>11 DEF Creates
    <3>2. 1 \in 1 .. Len(l)
      BY <1>2, <3>1
    <3> QED
      BY <1>7, <3>1, <3>2
  <2>2. 1 \in 1 .. Len(l)
    BY <1>2, <2>1
  <2>3. Contents'[n] = body
    BY <1>1, <2>1, <2>2 DEF ContentsFind
  <2>4. OthersKept(n)
    <3> HIDE DEF s, l, i
    <3> SUFFICES ASSUME NEW x \in Names \ {n}
                 PROVE  /\ \A j \in 1 .. Len(s) : s[j].filename = x =>
                               \E k \in 1 .. Len(l) : /\ l[k].filename = x
                                                      /\ l[k].content = s[j].content
                        /\ \A k \in 1 .. Len(l) : l[k].filename = x =>
                               \E j \in 1 .. Len(s) : s[j].filename = x
      BY DEF OthersKept, s, l
    <3>1. ASSUME NEW j \in 1 .. Len(s)
          PROVE  j + 1 \in 1 .. Len(l) /\ l[j + 1] = s[j]
      BY <1>2, <2>1
    <3>2. ASSUME NEW k \in 1 .. Len(l), l[k].filename = x
          PROVE  \E j \in 1 .. Len(s) : s[j].filename = x
      <4>1. k # 1
        BY <2>1, <3>2
      <4>2. k - 1 \in 1 .. Len(s) /\ (k - 1) + 1 = k
        BY <1>2, <2>1, <4>1
      <4>3. l[k] = s[k - 1]
        BY <2>1, <4>2
      <4> QED
        BY <3>2, <4>2, <4>3
    <3> QED
      BY <3>1, <3>2
  <2>5. Contents' = [Contents EXCEPT ![n] = body]
    BY <1>1, <2>3, <2>4, OneNameChanged
  <2>6. (n \in D!Held) = FALSE
    BY <1>3, <2>1
  <2>7. result' = D!Returned("set", n, n \in D!Held)
    BY <1>5, <1>11, <2>6
  <2>8. D!Set(n, body)
    BY <2>5, <2>7, RoomForAll DEF D!Set
  <2> QED
    BY <2>8 DEF D!Next
<1>12. CASE l = s /\ i = 0 /\ result' = Returned("delete", n, FALSE)
  <2>1. Contents' = [Contents EXCEPT ![n] = NULL]
    <3>1. Contents = [x \in Names |-> Contents[x]]
      BY DEF Contents
    <3> QED
      BY <1>3, <1>6, <1>12, <3>1
  <2>2. (n \in D!Held) = FALSE
    BY <1>3, <1>12
  <2>3. result' = D!Returned("delete", n, n \in D!Held)
    BY <1>5, <1>12, <2>2
  <2>4. D!Delete(n)
    BY <2>1, <2>3 DEF D!Delete
  <2> QED
    BY <2>4 DEF D!Next
<1>13. CASE i # 0 /\ Unlinks(l, i) /\ result' = Returned("delete", n, TRUE)
  <2>1. /\ i \in 1 .. Len(s) /\ s[i].filename = n /\ Len(l) = Len(s) - 1
        /\ \A j \in 1 .. Len(s) - 1 : l[j] = s[Before(i, j)]
    BY <1>3, <1>13 DEF Unlinks
  <2>2. /\ \A j \in 1 .. Len(s) - 1 : Before(i, j) \in 1 .. Len(s) /\ Before(i, j) # i
        /\ \A j \in 1 .. Len(s) : j # i => \E k \in 1 .. Len(s) - 1 : Before(i, k) = j
    <3> HIDE DEF s, i
    <3> QED
      BY <1>2, <2>1, BeforeIs
  <2>3. \A j \in 1 .. Len(l) : l[j].filename # n
    <3>1. \A j \in 1 .. Len(s) : s[j].filename = n => j = i
      BY <1>2, <2>1 DEF Listed
    <3> HIDE DEF s, l, i
    <3>2. ASSUME NEW j \in 1 .. Len(l) PROVE l[j].filename # n
      <4>1. j \in 1 .. Len(s) - 1
        BY <2>1
      <4>2. l[j] = s[Before(i, j)] /\ Before(i, j) \in 1 .. Len(s) /\ Before(i, j) # i
        BY <2>1, <2>2, <4>1
      <4> QED
        BY <3>1, <4>2
    <3> QED
      BY <3>2
  <2>4. Contents'[n] = NULL
    BY <1>1, <2>3 DEF ContentsFind
  <2>5. OthersKept(n)
    <3> HIDE DEF s, l, i
    <3> SUFFICES ASSUME NEW x \in Names \ {n}
                 PROVE  /\ \A j \in 1 .. Len(s) : s[j].filename = x =>
                               \E k \in 1 .. Len(l) : /\ l[k].filename = x
                                                      /\ l[k].content = s[j].content
                        /\ \A k \in 1 .. Len(l) : l[k].filename = x =>
                               \E j \in 1 .. Len(s) : s[j].filename = x
      BY DEF OthersKept, s, l
    <3>1. ASSUME NEW j \in 1 .. Len(s), s[j].filename = x
          PROVE  \E k \in 1 .. Len(l) : l[k].filename = x /\ l[k].content = s[j].content
      <4>1. j # i
        BY <2>1, <3>1
      <4>2. PICK k \in 1 .. Len(s) - 1 : Before(i, k) = j
        BY <2>2, <4>1
      <4> QED
        BY <2>1, <3>1, <4>2
    <3>2. ASSUME NEW k \in 1 .. Len(l), l[k].filename = x
          PROVE  \E j \in 1 .. Len(s) : s[j].filename = x
      BY <2>1, <2>2, <3>2
    <3> QED
      BY <3>1, <3>2
  <2>6. Contents' = [Contents EXCEPT ![n] = NULL]
    BY <1>1, <2>4, <2>5, OneNameChanged
  <2>7. (n \in D!Held) = TRUE
    BY <1>3, <1>13
  <2>8. result' = D!Returned("delete", n, n \in D!Held)
    BY <1>5, <1>13, <2>7
  <2>9. D!Delete(n)
    BY <2>6, <2>8 DEF D!Delete
  <2> QED
    BY <2>9 DEF D!Next
<1>14. \/ l = s /\ result' = result
       \/ l = s /\ result' = Returned("get", n, Contents[n])
       \/ i # 0 /\ Overwrites(l, i, body) /\ result' = Returned("set", n, TRUE)
       \/ Creates(l, n, body) /\ result' = Returned("set", n, FALSE)
       \/ l = s /\ i = 0 /\ result' = Returned("delete", n, FALSE)
       \/ i # 0 /\ Unlinks(l, i) /\ result' = Returned("delete", n, TRUE)
  BY <1>3 DEF Calls
<1> QED
  BY <1>8, <1>9, <1>10, <1>11, <1>12, <1>13, <1>14

\* Every step of the server that leaves the copies in place is a step of the
\* dictionary, or none.
LEMMA StepOfDictionary ==
    ASSUME FramedMessages, AllInv, AllInv', [Next]_vars, Intact, Intact'
    PROVE  D!Next \/ UNCHANGED D!vars
<1>1. CASE UNCHANGED <<resource_list, result>>
  BY <1>1, SameContents DEF D!vars
<1>2. CASE ~UNCHANGED <<resource_list, result>>
  <2>1. message
    BY <1>2, ListUntouched
  <2>2. PICK n \in Names, body \in Bodies :
            \E o : /\ ~Faulty(n) /\ Calls(o, n, body)
                   /\ resource_list' = o.list /\ result' = o.call
    BY <1>2, <2>1, MessageOnList DEF AllInv
  <2>3. PICK o : /\ ~Faulty(n) /\ Calls(o, n, body)
                 /\ resource_list' = o.list /\ result' = o.call
    BY <2>2
  <2> QED
    BY <2>3, CallOfDictionary DEF AllInv
<1> QED
  BY <1>1, <1>2

\* If messages are framed and no copy that my_strdup() made is missing, the list is
\* one dictionary that all clients share: each message that is carried out, also one
\* that is tried again because its answer could not be sent, is one call of it or
\* none, and returns what that call does, whatever nodes come and go.
THEOREM ListIsDictionary ==
    ASSUME FramedMessages
    PROVE  Spec => DictionaryWhileIntact
<1>1. Init => D!Init
  <2> SUFFICES ASSUME Init PROVE D!Init
    OBVIOUS
  <2>1. \A n \in Names : Contents[n] = NULL
    BY DEF Init, Contents, Content
  <2>2. Contents = [n \in Names |-> NULL]
    BY <2>1 DEF Contents
  <2> QED
    BY <2>2 DEF Init, D!Init, Returned, D!Returned
<1>2. AllInv /\ AllInv' /\ [Next]_vars => [Intact /\ Intact' => D!Next \/ UNCHANGED D!vars]_vars
  BY StepOfDictionary
<1> QED
  BY <1>1, <1>2, AllInit, AllStep, PTL DEF Spec, DictionaryWhileIntact
=============================================================================
