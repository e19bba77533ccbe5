-------------------------- MODULE WordCountProofs ---------------------------
(* Theorems about WordCount, for any text without NUL bytes, any number of  *)
(* ports and workers and any sizes of the buffers, whichever ports a worker *)
(* serves and whatever fails.                                               *)
EXTENDS WordCountTextProofs

----------------------------------------------------------------------------
(* The inductive invariant.                                                 *)

Slots(S) == {<<>>} \cup {<<m>> : m \in S}

Sending == {"map reply", "reduce reply", "rip reply"}

\* What request the distributor waits for.
TypeSent == CASE pc = "map reply" -> "map" [] pc = "reduce reply" -> "red" [] OTHER -> "rip"

\* What a request of a type and a reply to it may be.
Requests(type) == {m \in Message : m.type = type /\ Len(m.body) <= MAX_MSG_LEN - 4}

Replies(type) ==
    {r \in Seq(Byte) : /\ Len(r) <= MAX_MSG_LEN - 3
                       /\ type = "map" => MapForm(r)
                       /\ type = "red" => Formed(r) /\ Positive("red", r)}

Typed ==
    /\ text \in Texts /\ at \in Nat /\ at <= Len(text)
    /\ pc \in Pc /\ worker_idx \in Ports
    /\ map_results \in Seq(Byte) /\ offset \in Nat /\ offset <= Len(map_results)
    /\ reduce_results \in Seq(Byte)
    /\ open \subseteq Ports
    /\ ready \in [Workers -> SUBSET open]
    /\ process \in [Workers -> {"running", "stopping", "exited"}]
    /\ faults \in 0..MaxFaults /\ failed \subseteq {"bind", "memory", "SIGINT"}

\* One port at a time has a message, the request that was sent or its reply,
\* and a worker serves only ports of its own that have a request.
InTurn ==
    /\ request \in [Ports -> Slots(Message)]
    /\ reply \in [Ports -> Slots(Seq(Byte))]
    /\ \A p \in Ports : p # worker_idx \/ pc \notin Sending => request[p] = <<>> /\ reply[p] = <<>>
    /\ request[worker_idx] = <<>> \/ reply[worker_idx] = <<>>
    /\ request[worker_idx] # <<>> => request[worker_idx][1] \in Requests(TypeSent)
    /\ reply[worker_idx] # <<>> => reply[worker_idx][1] \in Replies(TypeSent)
    /\ \A w \in Workers : \A p \in ready[w] : Host[p] = w /\ request[p] # <<>>

\* The results are in the formats of the workers.
Results ==
    /\ MapForm(From(map_results, offset))
    /\ Formed(reduce_results) /\ Positive("red", reduce_results)

\* How far the distributor is.
Progress ==
    /\ pc \in {"map", "map reply"} => offset = 0
    /\ pc \notin {"map", "map reply"} => at = Len(text)
    /\ Printed => offset = Len(map_results)
    /\ printed = IF Printed THEN Lines(combine(reduce_results)) ELSE <<>>

Base == Typed /\ InTurn /\ Results /\ Progress

LEMMA EmptyReply ==
    /\ \A type : <<>> \in Replies(type)
    /\ \A kind \in Kinds : \A w : Count(kind, <<>>, w) = 0
<1>1. <<>> \in Seq(Byte) /\ Len(<<>>) = 0 /\ \A i : i \notin DOMAIN <<>>
  OBVIOUS
<1>2. WordStarts(<<>>) = {}
  BY <1>1 DEF WordStarts
<1>3. \A kind : Items(kind, <<>>) = {}
  BY <1>2 DEF Items
<1>4. MapForm(<<>>)
  BY <1>1, <1>2 DEF MapForm, Formed, Short
<1>5. Formed(<<>>) /\ Positive("red", <<>>)
  BY <1>3 DEF Formed, Positive
<1>6. 0 <= MAX_MSG_LEN - 3
  BY Sizes
<1>7. ASSUME NEW kind \in Kinds, NEW w PROVE Count(kind, <<>>, w) = 0
  <2> DEFINE v == Adds(kind, <<>>, w)
  <2>1. 0 \in Nat /\ \A i \in 1 .. 0 : v[i] = 0
    OBVIOUS
  <2> HIDE DEF v
  <2>2. Total(v, 0) = 0
    BY TotalStep
  <2> QED
    BY <1>1, <2>2 DEF Count, v
<1> QED
  BY <1>1, <1>4, <1>5, <1>6, <1>7 DEF Replies

\* What a reply to the request m is.  It holds no word of a chunk too often.  If
\* m cannot be taken for one with a header, nothing is left out.
LEMMA AnswersAre ==
    ASSUME NEW m \in Message, Len(m.body) <= MAX_MSG_LEN - 4, NEW r \in Answers(m)
    PROVE  /\ r \in Replies(m.type)
           /\ m.type = "map" => \A w : Count("map", r, w) <= Count("text", m.body, w)
           /\ ~ is_new_protocol(m.body) =>
                  /\ m.type = "map" => \A w : Count("map", r, w) = Count("text", m.body, w)
                  /\ m.type = "red" => \A w : Count("red", r, w) = Count("map", m.body, w)
<1> DEFINE b == m.body
           s == payload(b)
           l == msg_len(b)
<1>0. m.type \in {"map", "red", "rip"} /\ b \in Seq(Byte)
  BY DEF Message
<1>1. /\ s \in Seq(Byte) /\ Len(s) <= Len(b) /\ l \in Nat
      /\ ~ is_new_protocol(b) => s = b /\ l = MAX_MSG_LEN
  <2> HIDE DEF b
  <2> QED
    BY <1>0, PayloadIs
<1>2. Len(b) \in Nat /\ Len(s) \in Nat /\ Len(s) <= MAX_MSG_LEN - 4 /\ MAX_MSG_LEN \in Nat /\ MAX_MSG_LEN >= 8
  <2>1. Len(b) \in Nat /\ Len(s) \in Nat
    BY <1>0, <1>1
  <2> QED
    BY <1>1, <2>1, Sizes
<1>3. CASE m.type = "map"
  <2>1. r \in wc_to_map_format(wc_tokenize_and_count(s), l)
    BY <1>3 DEF Answers
  <2> HIDE DEF b, s, l
  <2>2. Written(r, "text", s, "map", l)
    BY <1>1, <2>1, MapAnswers
  <2>3. /\ r \in Seq(Byte) /\ Len(r) <= Len(s) + 1 /\ MapForm(r)
        /\ \A v : Count("map", r, v) <= Count("text", s, v)
        /\ l > 1 /\ Len(s) + 2 <= l => \A v : Count("map", r, v) = Count("text", s, v)
    BY <1>1, <1>2, <2>2, AnswerIs DEF Sources
  <2>4. Len(r) <= MAX_MSG_LEN - 3
    <3>1. Len(r) \in Nat
      BY <2>3
    <3> QED
      BY <1>2, <2>3, <3>1
  <2>5. ~ is_new_protocol(b) => \A v : Count("map", r, v) = Count("text", b, v)
    <3> SUFFICES ASSUME ~ is_new_protocol(b) PROVE \A v : Count("map", r, v) = Count("text", b, v)
      OBVIOUS
    <3>1. s = b /\ l > 1 /\ Len(s) + 2 <= l
      BY <1>1, <1>2
    <3> QED
      BY <2>3, <3>1
  <2>6. \A v : Count("map", r, v) <= Count("text", b, v)
    <3>1. \A v : Count("text", s, v) = Count("text", b, v)
      BY <1>0, PayloadCounts DEF s
    <3> QED
      BY <2>3, <3>1
  <2> QED
    BY <1>3, <2>3, <2>4, <2>5, <2>6 DEF Replies, b
<1>4. CASE m.type = "red"
  <2>1. r \in wc_to_reduce_format(wc_from_map_format(s), l)
    BY <1>4 DEF Answers
  <2> HIDE DEF b, s, l
  <2>2. Written(r, "map", s, "red", l)
    BY <1>1, <2>1, ReduceAnswers
  <2>3. /\ r \in Seq(Byte) /\ Len(r) <= Len(s) + 1 /\ Formed(r) /\ Positive("red", r)
        /\ l > 1 /\ Len(s) + 2 <= l => \A v : Count("red", r, v) = Count("map", s, v)
    BY <1>1, <1>2, <2>2, AnswerIs DEF Sources
  <2>4. Len(r) <= MAX_MSG_LEN - 3
    <3>1. Len(r) \in Nat
      BY <2>3
    <3> QED
      BY <1>2, <2>3, <3>1
  <2>5. ~ is_new_protocol(b) => \A v : Count("red", r, v) = Count("map", b, v)
    <3> SUFFICES ASSUME ~ is_new_protocol(b) PROVE \A v : Count("red", r, v) = Count("map", b, v)
      OBVIOUS
    <3>1. s = b /\ l > 1 /\ Len(s) + 2 <= l
      BY <1>1, <1>2
    <3> QED
      BY <2>3, <3>1
  <2> QED
    BY <1>4, <2>3, <2>4, <2>5 DEF Replies, b
<1>5. CASE m.type = "rip"
  <2>1. r = IF is_new_protocol(b) THEN <<>> ELSE <<114, 105, 112>>
    BY <1>5 DEF Answers
  <2>2. <<114, 105, 112>> \in Seq(Byte) /\ Len(<<114, 105, 112>>) = 3
    BY DEF Byte
  <2>3. <<>> \in Seq(Byte) /\ Len(<<>>) = 0
    OBVIOUS
  <2>4. r \in Seq(Byte) /\ Len(r) <= 3
    BY <2>1, <2>2, <2>3
  <2>5. Len(r) <= MAX_MSG_LEN - 3
    <3>1. Len(r) \in Nat
      BY <2>4
    <3> QED
      BY <1>2, <2>4, <3>1
  <2> QED
    BY <1>5, <2>4, <2>5 DEF Replies
<1> QED
  BY <1>0, <1>3, <1>4, <1>5

LEMMA SlotIs ==
    ASSUME NEW S, NEW x \in Slots(S), x # <<>>
    PROVE  x[1] \in S /\ x = <<x[1]>> /\ Head(x) = x[1]
<1>1. PICK m \in S : x = <<m>>
  BY DEF Slots
<1>2. <<m>>[1] = m /\ Head(<<m>>) = m
  OBVIOUS
<1> QED
  BY <1>1, <1>2

LEMMA PortsAre ==
    /\ Ports \subseteq Nat /\ 1 \in Ports /\ PortCount \in Nat /\ PortCount >= 1
    /\ \A p \in Ports : Host[p] \in Workers
    /\ IsFiniteSet(Ports) /\ MaxFaults \in Nat /\ Texts \subseteq Seq(Byte)
    /\ \A p \in Ports : p < PortCount => p + 1 \in Ports
    /\ \A p \in Ports : (p % PortCount) + 1 \in Ports
<1>1. PortCount \in Nat /\ PortCount >= 1 /\ MaxFaults \in Nat /\ Texts \subseteq Seq(Byte)
  BY PortAssumption
<1>2. Ports = 1 .. PortCount
  BY DEF Ports
<1>3. \A p \in Ports : Host[p] \in Workers
  BY PortAssumption
<1>4. IsFiniteSet(Ports)
  <2>1. 1 \in Int /\ PortCount \in Int
    BY <1>1
  <2> QED
    BY <1>2, <2>1, FS_Interval
<1>5. \A p \in Ports : (p % PortCount) + 1 \in Ports
  <2> SUFFICES ASSUME NEW p \in Ports PROVE (p % PortCount) + 1 \in Ports
    OBVIOUS
  <2> DEFINE r == p % PortCount
  <2>1. r \in 0 .. PortCount - 1
    BY <1>1, <1>2
  <2> HIDE DEF r
  <2>2. r + 1 \in 1 .. PortCount
    BY <1>1, <2>1
  <2> QED
    BY <1>2, <2>2 DEF r
<1> QED
  BY <1>1, <1>2, <1>3, <1>4, <1>5

\* A worker serves at most the port in turn.
LEMMA ReadyIs ==
    ASSUME Base, NEW w \in Workers
    PROVE  /\ ready[w] \subseteq {worker_idx} /\ ready[w] \subseteq open
           /\ ready[w] # {} => /\ pc \in Sending /\ request[worker_idx] # <<>> /\ reply[worker_idx] = <<>>
                               /\ Host[worker_idx] = w /\ NextPort(w) = worker_idx
                               /\ worker_idx \in open /\ worker_idx \in ready[w]
<1>1. ready[w] \subseteq open /\ open \subseteq Ports /\ worker_idx \in Ports
  BY DEF Base, Typed
<1>2. \A p \in ready[w] : p = worker_idx /\ pc \in Sending /\ Host[p] = w /\ request[p] # <<>>
  BY <1>1 DEF Base, InTurn
<1>3. ASSUME ready[w] # {}
      PROVE  /\ pc \in Sending /\ request[worker_idx] # <<>> /\ reply[worker_idx] = <<>>
             /\ Host[worker_idx] = w /\ NextPort(w) = worker_idx
             /\ worker_idx \in open /\ worker_idx \in ready[w]
  <2>1. worker_idx \in ready[w]
    BY <1>2, <1>3
  <2>2. reply[worker_idx] = <<>>
    BY <1>2, <2>1 DEF Base, InTurn
  <2>3. NextPort(w) \in ready[w]
    <3>1. ready[w] \in SUBSET Nat
      BY <1>1, PortsAre
    <3> QED
      BY <1>3, <3>1, MinIs DEF NextPort
  <2> QED
    BY <1>1, <1>2, <2>1, <2>2, <2>3
<1> QED
  BY <1>1, <1>2, <1>3

\* A request is sent.
LEMMA SendIs ==
    ASSUME Base, pc \notin Sending, NEW type, NEW body, Send(type, body),
           pc' \in Sending, type = TypeSent', worker_idx' = worker_idx, ready' = ready,
           type \in {"map", "red", "rip"}, body \in Seq(Byte), Len(body) <= MAX_MSG_LEN - 4
    PROVE  InTurn' /\ request'[worker_idx] = <<[type |-> type, body |-> body]>>
<1> DEFINE m == [type |-> type, body |-> body]
<1>0. worker_idx \in Ports
  BY DEF Base, Typed
<1>1. m \in Message /\ m.type = type /\ m.body = body
  BY DEF Message
<1>2. /\ request \in [Ports -> Slots(Message)] /\ reply \in [Ports -> Slots(Seq(Byte))]
      /\ \A p \in Ports : request[p] = <<>> /\ reply[p] = <<>>
  BY DEF Base, InTurn
<1>3. \A w \in Workers : ready[w] = {}
  BY ReadyIs
<1>4. request' = [request EXCEPT ![worker_idx] = <<m>>] /\ reply' = reply
  BY DEF Send
<1>5. m \in Requests(type)
  BY <1>1 DEF Requests
<1> HIDE DEF m
<1>6. <<m>> \in Slots(Message) /\ <<m>>[1] = m
  BY <1>1 DEF Slots
<1>7. request' \in [Ports -> Slots(Message)] /\ reply' \in [Ports -> Slots(Seq(Byte))]
  BY <1>2, <1>4, <1>6
<1>8. /\ request'[worker_idx] = <<m>>
      /\ \A p \in Ports : (p # worker_idx => request'[p] = <<>>) /\ reply'[p] = <<>>
  BY <1>0, <1>2, <1>4
<1>9. request'[worker_idx][1] \in Requests(type)
  BY <1>5, <1>6, <1>8
<1> QED
  BY <1>0, <1>3, <1>7, <1>8, <1>9 DEF InTurn, m

\* A reply is received.
LEMMA ReceiveIs ==
    ASSUME Base, Receive, pc' \notin Sending, worker_idx' \in Ports, ready' = ready
    PROVE  /\ InTurn' /\ pc \in Sending
           /\ request[worker_idx] = <<>> /\ reply[worker_idx] # <<>>
           /\ Head(reply[worker_idx]) = reply[worker_idx][1]
           /\ Head(reply[worker_idx]) \in Replies(TypeSent) /\ Head(reply[worker_idx]) \in Seq(Byte)
<1>0. worker_idx \in Ports
  BY DEF Base, Typed
<1>1. /\ request \in [Ports -> Slots(Message)] /\ reply \in [Ports -> Slots(Seq(Byte))]
      /\ \A p \in Ports : p # worker_idx \/ pc \notin Sending => request[p] = <<>> /\ reply[p] = <<>>
      /\ request[worker_idx] = <<>> \/ reply[worker_idx] = <<>>
      /\ reply[worker_idx] # <<>> => reply[worker_idx][1] \in Replies(TypeSent)
      /\ \A w \in Workers : \A p \in ready[w] : Host[p] = w /\ request[p] # <<>>
  BY DEF Base, InTurn
<1>2. /\ reply[worker_idx] # <<>> /\ reply' = [reply EXCEPT ![worker_idx] = <<>>]
      /\ request' = request
  BY DEF Receive
<1>3. /\ reply[worker_idx][1] \in Replies(TypeSent) /\ Head(reply[worker_idx]) = reply[worker_idx][1]
  <2>1. reply[worker_idx] \in Slots(Seq(Byte))
    BY <1>0, <1>1
  <2> QED
    BY <1>1, <1>2, <2>1, SlotIs
<1>4. pc \in Sending /\ request[worker_idx] = <<>>
  BY <1>0, <1>1, <1>2
<1>5. <<>> \in Slots(Seq(Byte))
  BY DEF Slots
<1>6. reply' \in [Ports -> Slots(Seq(Byte))]
  BY <1>1, <1>2, <1>5
<1>7. \A p \in Ports : request'[p] = <<>> /\ reply'[p] = <<>>
  BY <1>0, <1>1, <1>2, <1>4
<1>8. InTurn'
  <2>1. \A w \in Workers : \A p \in ready'[w] : Host[p] = w /\ request'[p] # <<>>
    BY <1>1, <1>2
  <2> QED
    BY <1>1, <1>2, <1>6, <1>7, <2>1 DEF InTurn
<1>9. reply[worker_idx][1] \in Seq(Byte)
  BY <1>3 DEF Replies
<1> QED
  BY <1>2, <1>3, <1>4, <1>8, <1>9

\* A worker answers.
LEMMA RespondIs ==
    ASSUME Base, NEW w \in Workers, ready[w] # {}, NEW r \in Replies(TypeSent), Respond(w, r),
           pc' = pc, worker_idx' = worker_idx
    PROVE  /\ InTurn' /\ request[worker_idx] # <<>> /\ request'[worker_idx] = <<>> /\ reply'[worker_idx] = <<r>>
           /\ request[worker_idx][1] \in Requests(TypeSent)
           /\ \A S : open \ {NextPort(w)} \subseteq S => ready' \in [Workers -> SUBSET S]
<1>0. worker_idx \in Ports /\ ready \in [Workers -> SUBSET open] /\ open \subseteq Ports
  BY DEF Base, Typed
<1>1. /\ request \in [Ports -> Slots(Message)] /\ reply \in [Ports -> Slots(Seq(Byte))]
      /\ \A p \in Ports : p # worker_idx \/ pc \notin Sending => request[p] = <<>> /\ reply[p] = <<>>
      /\ request[worker_idx] # <<>> => request[worker_idx][1] \in Requests(TypeSent)
  BY DEF Base, InTurn
<1>2. NextPort(w) = worker_idx /\ pc \in Sending /\ request[worker_idx] # <<>> /\ Host[worker_idx] = w
  BY ReadyIs
<1>3. /\ request' = [request EXCEPT ![worker_idx] = <<>>]
      /\ reply' = [reply EXCEPT ![worker_idx] = <<r>>]
      /\ ready' = [ready EXCEPT ![w] = ready[w] \ {worker_idx}]
  BY <1>2 DEF Respond
<1>4. \A v \in Workers : ready'[v] = {}
  <2> SUFFICES ASSUME NEW v \in Workers PROVE ready'[v] = {}
    OBVIOUS
  <2>1. CASE v = w
    <3>1. ready[w] \subseteq {worker_idx}
      BY ReadyIs
    <3> QED
      BY <1>0, <1>3, <2>1, <3>1
  <2>2. CASE v # w
    <3>1. ready[v] = {}
      BY <1>2, <2>2, ReadyIs
    <3> QED
      BY <1>0, <1>3, <2>2, <3>1
  <2> QED
    BY <2>1, <2>2
<1>5. <<>> \in Slots(Message) /\ <<r>> \in Slots(Seq(Byte)) /\ <<r>>[1] = r
  BY DEF Slots, Replies
<1>6. request' \in [Ports -> Slots(Message)] /\ reply' \in [Ports -> Slots(Seq(Byte))]
  BY <1>1, <1>3, <1>5
<1>7. /\ \A p \in Ports : request'[p] = <<>> /\ (p # worker_idx => reply'[p] = <<>>)
      /\ reply'[worker_idx] = <<r>>
  BY <1>0, <1>1, <1>3
<1>8. TypeSent' = TypeSent
  BY DEF TypeSent
<1>9. reply'[worker_idx][1] \in Replies(TypeSent')
  BY <1>5, <1>7, <1>8
<1>10. InTurn'
  BY <1>0, <1>2, <1>4, <1>6, <1>7, <1>9 DEF InTurn
<1>11. \A S : ready' \in [Workers -> SUBSET S]
  <2>1. DOMAIN ready' = Workers /\ ready' = [v \in Workers |-> ready'[v]]
    BY <1>0, <1>3
  <2> QED
    BY <1>4, <2>1
<1> QED
  BY <1>0, <1>1, <1>2, <1>7, <1>10, <1>11

LEMMA BaseInit == Init => Base
<1> SUFFICES ASSUME Init PROVE Base
  OBVIOUS
<1>1. /\ text \in Texts /\ at = 0 /\ pc = "map" /\ worker_idx = 1
      /\ map_results = <<>> /\ offset = 0 /\ reduce_results = <<>> /\ printed = <<>>
      /\ request = [p \in Ports |-> <<>>] /\ reply = [p \in Ports |-> <<>>]
      /\ open \in SUBSET Ports /\ Cardinality(Ports \ open) <= MaxFaults
      /\ ready = [w \in Workers |-> {}] /\ process = [w \in Workers |-> "running"]
      /\ faults = Cardinality(Ports \ open)
      /\ failed = IF open = Ports THEN {} ELSE {"bind"}
  BY DEF Init
<1>2. text \in Seq(Byte) /\ 1 \in Ports /\ MaxFaults \in Nat
  BY <1>1, PortsAre
<1>3. faults \in 0 .. MaxFaults
  <2> DEFINE T == Ports \ open
  <2>1. IsFiniteSet(T)
    BY PortsAre, FS_Subset
  <2> HIDE DEF T
  <2>2. Cardinality(T) \in Nat
    BY <2>1, FS_CardinalityType
  <2> QED
    BY <1>1, <1>2, <2>2 DEF T
<1>4. Typed
  <2>1. 0 <= Len(text)
    BY <1>2
  <2>2. <<>> \in Seq(Byte) /\ 0 <= Len(<<>>)
    OBVIOUS
  <2>3. failed \subseteq {"bind", "memory", "SIGINT"}
    BY <1>1
  <2> QED
    BY <1>1, <1>2, <1>3, <2>1, <2>2, <2>3 DEF Typed, Pc
<1>5. InTurn
  <2>1. <<>> \in Slots(Message) /\ <<>> \in Slots(Seq(Byte))
    BY DEF Slots
  <2>2. \A p \in Ports : request[p] = <<>> /\ reply[p] = <<>>
    BY <1>1
  <2>3. request \in [Ports -> Slots(Message)] /\ reply \in [Ports -> Slots(Seq(Byte))]
    BY <1>1, <2>1
  <2>4. \A w \in Workers : ready[w] = {}
    BY <1>1
  <2> QED
    BY <1>1, <1>2, <2>2, <2>3, <2>4 DEF InTurn
<1>6. Results
  <2>1. <<>> \in Replies("map") /\ <<>> \in Replies("red")
    BY EmptyReply
  <2>2. MapForm(<<>>) /\ Formed(<<>>) /\ Positive("red", <<>>)
    BY <2>1 DEF Replies
  <2>3. From(<<>>, 0) = <<>>
    <3>1. <<>> \in Seq(Byte)
      OBVIOUS
    <3> QED
      BY <3>1, CutEnds
  <2> QED
    BY <1>1, <2>2, <2>3 DEF Results
<1>7. Progress
  BY <1>1 DEF Progress, Printed
<1> QED
  BY <1>4, <1>5, <1>6, <1>7 DEF Base

LEMMA SendMapBase == ASSUME Base, SendMap PROVE Base'
<1> DEFINE n == ChunkLength(text, at)
           b == Truncated(SubSeq(text, at + 1, at + n))
<1>1. /\ pc = "map" /\ at < Len(text) /\ Send("map", b) /\ at' = at + n /\ pc' = "map reply"
      /\ UNCHANGED <<text, worker_idx, map_results, offset, reduce_results, printed, work, hist>>
  BY DEF SendMap
<1>2. text \in Seq(Byte) /\ at \in Nat /\ Typed /\ Results /\ Progress
  BY PortsAre DEF Base, Typed
<1>3. n \in Nat /\ at + n <= Len(text)
  BY <1>1, <1>2, ChunkIs
<1>4. b \in Seq(Byte) /\ Len(b) <= MAX_MSG_LEN - 4
  <2>1. Piece(text, at, n) \in Seq(Byte)
    BY <1>2, <1>3, CutIs
  <2> QED
    BY <2>1, TruncatedIs DEF Piece
<1> HIDE DEF n, b
<1>5. InTurn'
  <2>1. pc \notin Sending /\ pc' \in Sending /\ TypeSent' = "map"
    BY <1>1 DEF Sending, TypeSent
  <2>2. worker_idx' = worker_idx /\ ready' = ready
    BY <1>1 DEF work
  <2> QED
    BY <1>1, <1>4, <2>1, <2>2, SendIs
<1>6. Typed'
  <2>1. at' \in Nat /\ at' <= Len(text')
    <3>1. at' = at + n /\ text' = text
      BY <1>1
    <3> QED
      BY <1>2, <1>3, <3>1
  <2> QED
    BY <1>1, <1>2, <2>1 DEF Typed, Pc, work, hist
<1>7. Results'
  BY <1>1, <1>2 DEF Results
<1>8. Progress'
  BY <1>1, <1>2 DEF Progress, Printed
<1> QED
  BY <1>5, <1>6, <1>7, <1>8 DEF Base

\* Results received in the map format stay in it when joined.
LEMMA ReceiveMapBase == ASSUME Base, ReceiveMap PROVE Base'
<1> DEFINE r == Head(reply[worker_idx])
           z == map_results \o r
<1>1. /\ pc = "map reply" /\ Receive /\ map_results' = z
      /\ worker_idx' = next_worker /\ pc' = "map"
      /\ UNCHANGED <<text, at, offset, reduce_results, printed, work, hist>>
  BY DEF ReceiveMap
<1>2. Typed /\ Results /\ Progress /\ map_results \in Seq(Byte) /\ offset = 0
  BY <1>1 DEF Base, Typed, Progress
<1>3. worker_idx' \in Ports
  BY <1>1, <1>2, PortsAre DEF Typed, next_worker
<1>4. InTurn' /\ r \in Replies("map") /\ r \in Seq(Byte)
  <2>1. pc' \notin Sending /\ ready' = ready /\ TypeSent = "map"
    BY <1>1 DEF Sending, work, TypeSent
  <2> QED
    BY <1>1, <1>3, <2>1, ReceiveIs
<1> HIDE DEF r
<1>5. z \in Seq(Byte) /\ MapForm(z) /\ Len(z) \in Nat
  <2>1. MapForm(map_results)
    BY <1>2, CutEnds DEF Results
  <2>2. MapForm(r)
    BY <1>4 DEF Replies
  <2>3. MapForm(z)
    BY <1>2, <1>4, <2>1, <2>2, MapFormJoin
  <2> QED
    BY <1>2, <1>4, <2>3, JoinIs
<1> HIDE DEF z
<1>6. Typed'
  <2>1. map_results' \in Seq(Byte) /\ offset' \in Nat /\ offset' <= Len(map_results')
    <3>1. map_results' = z /\ offset' = 0
      BY <1>1, <1>2
    <3>2. 0 <= Len(z)
      BY <1>5
    <3> QED
      BY <1>5, <3>1, <3>2
  <2> QED
    BY <1>1, <1>2, <1>3, <2>1 DEF Typed, Pc, work, hist
<1>7. Results'
  <2>1. From(z, 0) = z
    BY <1>5, CutEnds
  <2> QED
    BY <1>1, <1>2, <1>5, <2>1 DEF Results
<1>8. Progress'
  BY <1>1, <1>2 DEF Progress, Printed
<1> QED
  BY <1>4, <1>6, <1>7, <1>8 DEF Base

LEMMA StartReduceBase == ASSUME Base, StartReduce PROVE Base'
<1>1. /\ pc = "map" /\ at = Len(text) /\ pc' = "reduce" /\ worker_idx' = 1
      /\ UNCHANGED <<text, at, map_results, offset, reduce_results, printed, net, work, hist>>
  BY DEF StartReduce
<1>2. Typed /\ Results /\ Progress /\ InTurn
  BY DEF Base
<1>3. worker_idx' \in Ports
  BY <1>1, PortsAre
<1>4. InTurn'
  <2>1. pc \notin Sending /\ pc' \notin Sending
    BY <1>1 DEF Sending
  <2>2. \A p \in Ports : request[p] = <<>> /\ reply[p] = <<>>
    BY <1>2, <2>1 DEF InTurn
  <2>3. request' = request /\ reply' = reply /\ ready' = ready
    BY <1>1 DEF net, work
  <2> QED
    BY <1>2, <1>3, <2>2, <2>3 DEF InTurn
<1>5. Typed'
  BY <1>1, <1>2, <1>3 DEF Typed, Pc, work, hist
<1>6. Results'
  BY <1>1, <1>2 DEF Results
<1>7. Progress'
  BY <1>1, <1>2 DEF Progress, Printed
<1> QED
  BY <1>4, <1>5, <1>6, <1>7 DEF Base

LEMMA SendReduceBase == ASSUME Base, SendReduce PROVE Base'
<1> DEFINE n == ReduceLength(From(map_results, offset))
           b == Truncated(Piece(map_results, offset, n))
<1>1. /\ pc = "reduce" /\ offset < Len(map_results) /\ Send("red", b) /\ offset' = offset + n
      /\ pc' = "reduce reply"
      /\ UNCHANGED <<text, at, worker_idx, map_results, reduce_results, printed, work, hist>>
  BY DEF SendReduce, From, Piece
<1>2. map_results \in Seq(Byte) /\ offset \in Nat /\ Typed /\ Results /\ Progress
  BY DEF Base, Typed
<1>3. /\ n \in Nat /\ offset + n <= Len(map_results)
      /\ MapForm(From(map_results, offset + n))
  BY <1>1, <1>2, ReduceCut DEF Results
<1>4. b \in Seq(Byte) /\ Len(b) <= MAX_MSG_LEN - 4
  <2>1. Piece(map_results, offset, n) \in Seq(Byte)
    BY <1>2, <1>3, CutIs
  <2> QED
    BY <2>1, TruncatedIs
<1> HIDE DEF n, b
<1>5. InTurn'
  <2>1. pc \notin Sending /\ pc' \in Sending /\ TypeSent' = "red"
    BY <1>1 DEF Sending, TypeSent
  <2>2. worker_idx' = worker_idx /\ ready' = ready
    BY <1>1 DEF work
  <2> QED
    BY <1>1, <1>4, <2>1, <2>2, SendIs
<1>6. Typed'
  <2>1. offset' \in Nat /\ offset' <= Len(map_results')
    <3>1. offset' = offset + n /\ map_results' = map_results
      BY <1>1
    <3> QED
      BY <1>2, <1>3, <3>1
  <2> QED
    BY <1>1, <1>2, <2>1 DEF Typed, Pc, work, hist
<1>7. Results'
  BY <1>1, <1>2, <1>3 DEF Results
<1>8. Progress'
  BY <1>1, <1>2 DEF Progress, Printed
<1> QED
  BY <1>5, <1>6, <1>7, <1>8 DEF Base

LEMMA ReceiveReduceBase == ASSUME Base, ReceiveReduce PROVE Base'
<1> DEFINE r == Head(reply[worker_idx])
           z == reduce_results \o r
<1>1. /\ pc = "reduce reply" /\ Receive /\ reduce_results' = z
      /\ worker_idx' = next_worker /\ pc' = "reduce"
      /\ UNCHANGED <<text, at, map_results, offset, printed, work, hist>>
  BY DEF ReceiveReduce
<1>2. Typed /\ Results /\ Progress /\ reduce_results \in Seq(Byte)
  BY <1>1 DEF Base, Typed
<1>3. worker_idx' \in Ports
  BY <1>1, <1>2, PortsAre DEF Typed, next_worker
<1>4. InTurn' /\ r \in Replies("red") /\ r \in Seq(Byte)
  <2>1. pc' \notin Sending /\ ready' = ready /\ TypeSent = "red"
    BY <1>1 DEF Sending, work, TypeSent
  <2> QED
    BY <1>1, <1>3, <2>1, ReceiveIs
<1> HIDE DEF r
<1>5. z \in Seq(Byte) /\ Formed(z) /\ Positive("red", z)
  <2>1. Formed(reduce_results) /\ Positive("red", reduce_results)
    BY <1>2 DEF Results
  <2>2. Formed(r) /\ Positive("red", r)
    BY <1>4 DEF Replies
  <2>3. Formed(z) /\ Separate("red", reduce_results, r)
    BY <1>2, <1>4, <2>1, <2>2, FormedJoin
  <2>4. Positive("red", z)
    BY <1>2, <1>4, <2>1, <2>2, <2>3, CountJoin DEF Kinds
  <2> QED
    BY <1>2, <1>4, <2>3, <2>4, JoinIs
<1> HIDE DEF z
<1>6. Typed'
  BY <1>1, <1>2, <1>3, <1>5 DEF Typed, Pc, work, hist
<1>7. Results'
  BY <1>1, <1>2, <1>5 DEF Results
<1>8. Progress'
  BY <1>1, <1>2 DEF Progress, Printed
<1> QED
  BY <1>4, <1>6, <1>7, <1>8 DEF Base

LEMMA CombineBase == ASSUME Base, CombineAndPrint PROVE Base'
<1>1. /\ pc = "reduce" /\ offset = Len(map_results)
      /\ printed' = Lines(combine(reduce_results))
      /\ pc' = "rip" /\ worker_idx' = 1
      /\ UNCHANGED <<text, at, map_results, offset, reduce_results, net, work, hist>>
  BY DEF CombineAndPrint
<1>2. Typed /\ Results /\ Progress /\ InTurn
  BY DEF Base
<1>3. worker_idx' \in Ports
  BY <1>1, PortsAre
<1>4. InTurn'
  <2>1. pc \notin Sending /\ pc' \notin Sending
    BY <1>1 DEF Sending
  <2>2. \A p \in Ports : request[p] = <<>> /\ reply[p] = <<>>
    BY <1>2, <2>1 DEF InTurn
  <2>3. request' = request /\ reply' = reply /\ ready' = ready
    BY <1>1 DEF net, work
  <2> QED
    BY <1>2, <1>3, <2>2, <2>3 DEF InTurn
<1>5. Typed'
  BY <1>1, <1>2, <1>3 DEF Typed, Pc, work, hist
<1>6. Results'
  BY <1>1, <1>2 DEF Results
<1>7. Progress'
  BY <1>1, <1>2 DEF Progress, Printed
<1> QED
  BY <1>4, <1>5, <1>6, <1>7 DEF Base

LEMMA SendRipBase == ASSUME Base, SendRip PROVE Base'
<1>1. /\ pc = "rip" /\ Send("rip", <<>>) /\ pc' = "rip reply"
      /\ UNCHANGED <<text, at, worker_idx, map_results, offset, reduce_results, printed, work, hist>>
  BY DEF SendRip
<1>2. Typed /\ Results /\ Progress
  BY DEF Base
<1>3. <<>> \in Seq(Byte) /\ Len(<<>>) <= MAX_MSG_LEN - 4
  <2>1. 0 <= MAX_MSG_LEN - 4
    BY Sizes
  <2>2. <<>> \in Seq(Byte) /\ Len(<<>>) = 0
    OBVIOUS
  <2> QED
    BY <2>1, <2>2
<1>4. InTurn'
  <2>1. pc \notin Sending /\ pc' \in Sending /\ TypeSent' = "rip"
    BY <1>1 DEF Sending, TypeSent
  <2>2. worker_idx' = worker_idx /\ ready' = ready
    BY <1>1 DEF work
  <2> QED
    BY <1>1, <1>3, <2>1, <2>2, SendIs
<1>5. Typed'
  BY <1>1, <1>2 DEF Typed, Pc, work, hist
<1>6. Results'
  BY <1>1, <1>2 DEF Results
<1>7. Progress'
  BY <1>1, <1>2 DEF Progress, Printed
<1> QED
  BY <1>4, <1>5, <1>6, <1>7 DEF Base

LEMMA ReceiveRipBase == ASSUME Base, ReceiveRip PROVE Base'
<1>1. /\ pc = "rip reply" /\ Receive
      /\ \/ worker_idx < PortCount /\ pc' = "rip" /\ worker_idx' = worker_idx + 1
         \/ pc' = "done" /\ worker_idx' = worker_idx
      /\ UNCHANGED <<text, at, map_results, offset, reduce_results, printed, work, hist>>
  BY DEF ReceiveRip
<1>2. Typed /\ Results /\ Progress /\ worker_idx \in Ports
  BY DEF Base, Typed
<1>3. worker_idx' \in Ports
  BY <1>1, <1>2, PortsAre
<1>4. InTurn'
  <2>1. pc' \notin Sending /\ ready' = ready
    BY <1>1 DEF Sending, work
  <2> QED
    BY <1>1, <1>3, <2>1, ReceiveIs
<1>5. Typed'
  BY <1>1, <1>2, <1>3 DEF Typed, Pc, work, hist
<1>6. Results'
  BY <1>1, <1>2 DEF Results
<1>7. Progress'
  BY <1>1, <1>2 DEF Progress, Printed
<1> QED
  BY <1>4, <1>5, <1>6, <1>7 DEF Base

\* The steps of a worker leave the distributor alone.
LEMMA DistBase ==
    ASSUME Base, UNCHANGED dist
    PROVE  /\ Results' /\ Progress' /\ TypeSent' = TypeSent /\ pc' = pc /\ worker_idx' = worker_idx
           /\ text' \in Texts /\ at' \in Nat /\ at' <= Len(text')
           /\ pc' \in Pc /\ worker_idx' \in Ports
           /\ map_results' \in Seq(Byte) /\ offset' \in Nat /\ offset' <= Len(map_results')
           /\ reduce_results' \in Seq(Byte)
<1>1. /\ text' = text /\ at' = at /\ pc' = pc /\ worker_idx' = worker_idx
      /\ map_results' = map_results /\ offset' = offset
      /\ reduce_results' = reduce_results /\ printed' = printed
  BY DEF dist
<1>2. Typed /\ Results /\ Progress
  BY DEF Base
<1>3. Results'
  BY <1>1, <1>2 DEF Results
<1>4. Progress'
  BY <1>1, <1>2 DEF Progress, Printed
<1>5. TypeSent' = TypeSent
  BY <1>1 DEF TypeSent
<1> QED
  BY <1>1, <1>2, <1>3, <1>4, <1>5 DEF Typed

LEMMA PollBase == ASSUME Base, NEW w \in Workers, Poll(w) PROVE Base'
<1>1. /\ ready' = [ready EXCEPT ![w] = Readable(w)] /\ request' = request /\ reply' = reply
      /\ open' = open /\ process' = process /\ faults' = faults /\ failed' = failed
      /\ UNCHANGED dist
  BY DEF Poll, net, hist
<1>2. Typed /\ InTurn
  BY DEF Base
<1>3. /\ Results' /\ Progress' /\ TypeSent' = TypeSent /\ pc' = pc /\ worker_idx' = worker_idx
      /\ text' \in Texts /\ at' \in Nat /\ at' <= Len(text')
      /\ pc' \in Pc /\ worker_idx' \in Ports
      /\ map_results' \in Seq(Byte) /\ offset' \in Nat /\ offset' <= Len(map_results')
      /\ reduce_results' \in Seq(Byte)
  BY <1>1, DistBase
<1>4. Readable(w) \subseteq open /\ \A p \in Readable(w) : Host[p] = w /\ request[p] # <<>>
  BY DEF Readable, Served
<1>5. ready' \in [Workers -> SUBSET open]
  <2>1. ready \in [Workers -> SUBSET open] /\ Readable(w) \in SUBSET open
    BY <1>2, <1>4 DEF Typed
  <2> QED
    BY <1>1, <2>1
<1>6. \A v \in Workers : \A p \in ready'[v] : Host[p] = v /\ request[p] # <<>>
  <2> SUFFICES ASSUME NEW v \in Workers, NEW p \in ready'[v] PROVE Host[p] = v /\ request[p] # <<>>
    OBVIOUS
  <2>1. ready \in [Workers -> SUBSET open]
    BY <1>2 DEF Typed
  <2>2. CASE v = w
    BY <1>1, <1>4, <2>1, <2>2
  <2>3. CASE v # w
    <3>1. p \in ready[v]
      BY <1>1, <2>1, <2>3
    <3> QED
      BY <1>2, <3>1 DEF InTurn
  <2> QED
    BY <2>2, <2>3
<1>7. Typed'
  BY <1>1, <1>2, <1>3, <1>5 DEF Typed
<1>8. InTurn'
  BY <1>1, <1>2, <1>3, <1>6 DEF InTurn
<1> QED
  BY <1>3, <1>7, <1>8 DEF Base

LEMMA ServeBase == ASSUME Base, NEW w \in Workers, Serve(w) PROVE Base'
<1> DEFINE p == NextPort(w)
           m == Head(request[p])
<1>1. /\ ready[w] # {}
      /\ open' = IF m.type = "rip" THEN open \ {p} ELSE open
      /\ process' = process /\ faults' = faults /\ failed' = failed
      /\ UNCHANGED dist
  BY DEF Serve, hist
<1>2. PICK r \in Answers(m) : Respond(w, r)
  BY DEF Serve
<1>3. Typed /\ InTurn /\ worker_idx \in Ports
  BY DEF Base, Typed
<1>4. /\ Results' /\ Progress' /\ TypeSent' = TypeSent /\ pc' = pc /\ worker_idx' = worker_idx
      /\ text' \in Texts /\ at' \in Nat /\ at' <= Len(text')
      /\ pc' \in Pc /\ worker_idx' \in Ports
      /\ map_results' \in Seq(Byte) /\ offset' \in Nat /\ offset' <= Len(map_results')
      /\ reduce_results' \in Seq(Byte)
  BY <1>1, DistBase
<1>5. p = worker_idx /\ request[worker_idx] # <<>>
  BY <1>1, ReadyIs
<1>6. m = request[worker_idx][1] /\ m \in Requests(TypeSent)
  <2>1. request[worker_idx] \in Slots(Message)
    BY <1>3 DEF InTurn
  <2>2. Head(request[worker_idx]) = request[worker_idx][1]
    BY <1>5, <2>1, SlotIs
  <2> QED
    BY <1>3, <1>5, <2>2 DEF InTurn
<1> HIDE DEF p, m
<1>7. r \in Replies(TypeSent)
  <2>1. m \in Message /\ m.type = TypeSent /\ Len(m.body) <= MAX_MSG_LEN - 4
    BY <1>6 DEF Requests
  <2> QED
    BY <2>1, AnswersAre
<1>8. /\ InTurn' /\ \A S : open \ {p} \subseteq S => ready' \in [Workers -> SUBSET S]
  BY <1>1, <1>2, <1>4, <1>7, RespondIs DEF p
<1>9. open' \subseteq Ports /\ ready' \in [Workers -> SUBSET open']
  <2>1. open \ {p} \subseteq open' /\ open' \subseteq Ports
    BY <1>1, <1>3 DEF Typed
  <2> QED
    BY <1>8, <2>1
<1>10. Typed'
  BY <1>1, <1>3, <1>4, <1>9 DEF Typed
<1> QED
  BY <1>4, <1>8, <1>10 DEF Base

LEMMA ServeWithoutMemoryBase == ASSUME Base, NEW w \in Workers, ServeWithoutMemory(w) PROVE Base'
<1>1. /\ ready[w] # {} /\ Respond(w, <<>>) /\ faults < MaxFaults
      /\ open' = open /\ process' = process /\ faults' = faults + 1 /\ failed' = failed \cup {"memory"}
      /\ UNCHANGED dist
  BY DEF ServeWithoutMemory
<1>2. Typed
  BY DEF Base
<1>3. /\ Results' /\ Progress' /\ TypeSent' = TypeSent /\ pc' = pc /\ worker_idx' = worker_idx
      /\ text' \in Texts /\ at' \in Nat /\ at' <= Len(text')
      /\ pc' \in Pc /\ worker_idx' \in Ports
      /\ map_results' \in Seq(Byte) /\ offset' \in Nat /\ offset' <= Len(map_results')
      /\ reduce_results' \in Seq(Byte)
  BY <1>1, DistBase
<1>4. <<>> \in Replies(TypeSent)
  BY EmptyReply
<1>5. InTurn' /\ ready' \in [Workers -> SUBSET open]
  BY <1>1, <1>3, <1>4, RespondIs
<1>6. faults' \in 0 .. MaxFaults /\ failed' \subseteq {"bind", "memory", "SIGINT"}
  BY <1>1, <1>2, PortsAre DEF Typed
<1>7. Typed'
  BY <1>1, <1>2, <1>3, <1>5, <1>6 DEF Typed
<1> QED
  BY <1>3, <1>5, <1>7 DEF Base

LEMMA InterruptBase == ASSUME Base, NEW w \in Workers, Interrupt(w) PROVE Base'
<1>1. /\ process' = [process EXCEPT ![w] = "stopping"] /\ faults < MaxFaults
      /\ faults' = faults + 1 /\ failed' = failed \cup {"SIGINT"}
      /\ request' = request /\ reply' = reply /\ open' = open /\ ready' = ready
      /\ UNCHANGED dist
  BY DEF Interrupt, net
<1>2. Typed /\ InTurn
  BY DEF Base
<1>3. /\ Results' /\ Progress' /\ TypeSent' = TypeSent /\ pc' = pc /\ worker_idx' = worker_idx
      /\ text' \in Texts /\ at' \in Nat /\ at' <= Len(text')
      /\ pc' \in Pc /\ worker_idx' \in Ports
      /\ map_results' \in Seq(Byte) /\ offset' \in Nat /\ offset' <= Len(map_results')
      /\ reduce_results' \in Seq(Byte)
  BY <1>1, DistBase
<1>4. faults' \in 0 .. MaxFaults /\ failed' \subseteq {"bind", "memory", "SIGINT"}
  BY <1>1, <1>2, PortsAre DEF Typed
<1>5. process' \in [Workers -> {"running", "stopping", "exited"}]
  BY <1>1, <1>2 DEF Typed
<1>6. Typed'
  BY <1>1, <1>2, <1>3, <1>4, <1>5 DEF Typed
<1>7. InTurn'
  BY <1>1, <1>2, <1>3 DEF InTurn
<1> QED
  BY <1>3, <1>6, <1>7 DEF Base

LEMMA ExitBase == ASSUME Base, NEW w \in Workers, Exit(w) PROVE Base'
<1>1. /\ process' = [process EXCEPT ![w] = "exited"] /\ ready[w] = {}
      /\ open' = open \ Served(w)
      /\ request' = request /\ reply' = reply /\ ready' = ready
      /\ faults' = faults /\ failed' = failed
      /\ UNCHANGED dist
  BY DEF Exit, net, hist
<1>2. Typed /\ InTurn
  BY DEF Base
<1>3. /\ Results' /\ Progress' /\ TypeSent' = TypeSent /\ pc' = pc /\ worker_idx' = worker_idx
      /\ text' \in Texts /\ at' \in Nat /\ at' <= Len(text')
      /\ pc' \in Pc /\ worker_idx' \in Ports
      /\ map_results' \in Seq(Byte) /\ offset' \in Nat /\ offset' <= Len(map_results')
      /\ reduce_results' \in Seq(Byte)
  BY <1>1, DistBase
<1>4. ready' \in [Workers -> SUBSET open']
  <2>1. ready \in [Workers -> SUBSET open]
    BY <1>2 DEF Typed
  <2>2. ASSUME NEW v \in Workers PROVE ready[v] \subseteq open'
    <3> SUFFICES ASSUME NEW p \in ready[v] PROVE p \in open'
      OBVIOUS
    <3>1. p \in open /\ Host[p] = v /\ v # w
      BY <1>1, <1>2, <2>1 DEF InTurn
    <3> QED
      BY <1>1, <3>1 DEF Served
  <2> QED
    BY <1>1, <2>1, <2>2
<1>5. process' \in [Workers -> {"running", "stopping", "exited"}] /\ open' \subseteq Ports
  BY <1>1, <1>2 DEF Typed
<1>6. Typed'
  BY <1>1, <1>2, <1>3, <1>4, <1>5 DEF Typed
<1>7. InTurn'
  BY <1>1, <1>2, <1>3 DEF InTurn
<1> QED
  BY <1>3, <1>6, <1>7 DEF Base

LEMMA BaseKept == ASSUME Base, [Next]_vars PROVE Base'
<1>1. CASE UNCHANGED vars
  <2>1. UNCHANGED dist /\ UNCHANGED net /\ UNCHANGED work /\ UNCHANGED hist
    BY <1>1 DEF vars
  <2>2. Typed /\ InTurn
    BY DEF Base
  <2>3. /\ Results' /\ Progress' /\ TypeSent' = TypeSent /\ pc' = pc /\ worker_idx' = worker_idx
        /\ text' \in Texts /\ at' \in Nat /\ at' <= Len(text')
        /\ pc' \in Pc /\ worker_idx' \in Ports
        /\ map_results' \in Seq(Byte) /\ offset' \in Nat /\ offset' <= Len(map_results')
        /\ reduce_results' \in Seq(Byte)
    BY <2>1, DistBase
  <2>4. /\ request' = request /\ reply' = reply /\ ready' = ready /\ open' = open
        /\ process' = process /\ faults' = faults /\ failed' = failed
    BY <2>1 DEF net, work, hist
  <2>5. Typed'
    BY <2>2, <2>3, <2>4 DEF Typed
  <2>6. InTurn'
    BY <2>2, <2>3, <2>4 DEF InTurn
  <2> QED
    BY <2>3, <2>5, <2>6 DEF Base
<1>2. CASE Distributor
  BY <1>2, SendMapBase, ReceiveMapBase, StartReduceBase, SendReduceBase, ReceiveReduceBase,
     CombineBase, SendRipBase, ReceiveRipBase DEF Distributor
<1>3. ASSUME NEW w \in Workers, Worker(w) \/ Interrupt(w) PROVE Base'
  BY <1>3, PollBase, ServeBase, ServeWithoutMemoryBase, ExitBase, InterruptBase DEF Worker
<1> QED
  BY <1>1, <1>2, <1>3 DEF Next

LEMMA BaseAlways == Spec => []Base
<1>1. Base /\ [Next]_vars => Base'
  BY BaseKept
<1> QED
  BY BaseInit, <1>1, PTL DEF Spec

\* The types of the distributor's state, the ports and the workers; what is
\* printed are words of letters, each with a positive number.
THEOREM TypesKept == Spec => []TypeOK
<1>1. ASSUME Base PROVE TypeOK
  <2>1. Typed /\ InTurn /\ Results /\ Progress
    BY <1>1 DEF Base
  <2>2. at \in 0 .. Len(text) /\ offset \in 0 .. Len(map_results)
    <3>1. text \in Seq(Byte) /\ map_results \in Seq(Byte)
      BY <2>1, PortsAre DEF Typed
    <3>2. Len(text) \in Nat /\ Len(map_results) \in Nat
      BY <3>1
    <3>3. at \in Nat /\ at <= Len(text) /\ offset \in Nat /\ offset <= Len(map_results)
      BY <2>1 DEF Typed
    <3> QED
      BY <3>2, <3>3
  <2>3. \A p \in Ports : /\ request[p] = <<>> \/ request[p][1] \in Message
                         /\ reply[p] = <<>> \/ reply[p][1] \in Seq(Byte)
    <3> SUFFICES ASSUME NEW p \in Ports
                 PROVE  /\ request[p] = <<>> \/ request[p][1] \in Message
                        /\ reply[p] = <<>> \/ reply[p][1] \in Seq(Byte)
      OBVIOUS
    <3>1. request[p] \in Slots(Message) /\ reply[p] \in Slots(Seq(Byte))
      BY <2>1 DEF InTurn
    <3> QED
      BY <3>1, SlotIs
  <2>4. \A k \in DOMAIN printed :
            printed[k].word \in Seq(Letters) /\ printed[k].count \in Nat \ {0}
    <3>1. CASE ~ Printed
      <4>1. printed = <<>>
        BY <2>1, <3>1 DEF Progress
      <4>2. \A k : k \notin DOMAIN <<>>
        OBVIOUS
      <4> QED
        BY <4>1, <4>2
    <3>2. CASE Printed
      <4>1. printed = Lines(Table("red", reduce_results))
        <5>1. reduce_results \in Seq(Byte) /\ printed = Lines(combine(reduce_results))
          BY <2>1, <3>2 DEF Progress, Typed
        <5> QED
          BY <5>1, TablesAre
      <4>2. reduce_results \in Seq(Byte) /\ Positive("red", reduce_results)
        BY <2>1 DEF Results, Typed
      <4>3. LET L == Lines(Table("red", reduce_results)) IN
            \A k \in DOMAIN L : L[k].word \in Seq(Letters) /\ L[k].count \in Nat \ {0}
        BY <4>2, TableLines
      <4> QED
        BY <4>1, <4>3
    <3> QED
      BY <3>1, <3>2
  <2> QED
    BY <2>1, <2>2, <2>3, <2>4 DEF TypeOK, Typed
<1> QED
  BY BaseAlways, <1>1, PTL

\* A reply and the NUL behind it fit the buffer that the distributor reads it
\* into, whatever the text, the number of ports and the sizes of the buffers.
THEOREM RepliesFitAlways == Spec => []RepliesFit
<1>1. ASSUME Base PROVE RepliesFit
  <2> SUFFICES ASSUME NEW p \in Ports, reply[p] # <<>> PROVE Len(reply[p][1]) + 1 <= MAX_MSG_LEN - 1
    BY DEF RepliesFit
  <2>1. InTurn
    BY <1>1 DEF Base
  <2>2. p = worker_idx
    BY <2>1 DEF InTurn
  <2>3. reply[p][1] \in Replies(TypeSent)
    BY <2>1, <2>2 DEF InTurn
  <2>4. reply[p][1] \in Seq(Byte) /\ Len(reply[p][1]) <= MAX_MSG_LEN - 3
    BY <2>3 DEF Replies
  <2>5. Len(reply[p][1]) \in Nat
    BY <2>4
  <2> QED
    BY <2>4, <2>5, Sizes
<1> QED
  BY BaseAlways, <1>1, PTL

----------------------------------------------------------------------------
(* No word is lost, and none is invented.                                   *)

\* What conservation of the words needs.
Fine == "memory" \notin failed /\ Fits(text) /\ Plain(text)

\* How often w is in the message under way.
Under(w) ==
    IF request[worker_idx] # <<>>
    THEN CASE pc = "map reply"    -> Count("text", request[worker_idx][1].body, w)
           [] pc = "reduce reply" -> Count("map", request[worker_idx][1].body, w)
           [] OTHER               -> 0
    ELSE IF reply[worker_idx] # <<>>
    THEN CASE pc = "map reply"    -> Count("map", reply[worker_idx][1], w)
           [] pc = "reduce reply" -> Count("red", reply[worker_idx][1], w)
           [] OTHER               -> 0
    ELSE 0

\* How often it is in what is to be read, in what was counted and not sent on,
\* and in what was combined.
Elsewhere(w) ==
    Count("text", From(text, at), w)
        + (Count("map", From(map_results, offset), w) + Count("red", reduce_results, w))

Overall(w) == Under(w) + Elsewhere(w)

\* The request can be taken for none with a header.
Unmarked ==
    request[worker_idx] # <<>> /\ pc # "rip reply" => ~ is_new_protocol(request[worker_idx][1].body)

\* So it is in all reduce requests, and in all requests of such a text.
Clean == Plain(text) \/ pc = "reduce reply" => Unmarked

Kept ==
    Fits(text) => /\ Aligned(text, at)
                  /\ Clean
                  /\ \A w : Overall(w) <= Count("text", text, w)
                  /\ Fine => \A w : Overall(w) = Count("text", text, w)

Counting == {"map reply", "reduce reply"}

LEMMA KindsAre == "text" \in Kinds /\ "map" \in Kinds /\ "red" \in Kinds
  BY DEF Kinds

LEMMA ElsewhereIs ==
    ASSUME Base
    PROVE  /\ text \in Seq(Byte) /\ map_results \in Seq(Byte) /\ reduce_results \in Seq(Byte)
           /\ From(text, at) \in Seq(Byte) /\ From(map_results, offset) \in Seq(Byte)
           /\ \A w : /\ Count("text", From(text, at), w) \in Nat
                     /\ Count("map", From(map_results, offset), w) \in Nat
                     /\ Count("red", reduce_results, w) \in Nat
<1>1. /\ text \in Seq(Byte) /\ at \in Nat /\ at <= Len(text)
      /\ map_results \in Seq(Byte) /\ offset \in Nat /\ offset <= Len(map_results)
      /\ reduce_results \in Seq(Byte)
  BY PortsAre DEF Base, Typed
<1>2. From(text, at) \in Seq(Byte)
  <2> DEFINE z == 0
  <2>1. z \in Nat /\ at + z <= Len(text)
    BY <1>1
  <2> HIDE DEF z
  <2> QED
    BY <1>1, <2>1, CutIs
<1>3. From(map_results, offset) \in Seq(Byte)
  <2> DEFINE z == 0
  <2>1. z \in Nat /\ offset + z <= Len(map_results)
    BY <1>1
  <2> HIDE DEF z
  <2> QED
    BY <1>1, <2>1, CutIs
<1> QED
  BY <1>1, <1>2, <1>3, KindsAre, AddsAre

LEMMA OverallIs ==
    ASSUME Base
    PROVE  /\ text \in Seq(Byte)
           /\ \A w : /\ Under(w) \in Nat /\ Elsewhere(w) \in Nat /\ Overall(w) \in Nat
                     /\ Count("text", text, w) \in Nat
<1>1. ASSUME NEW w PROVE Elsewhere(w) \in Nat
  <2> DEFINE x == Count("text", From(text, at), w)
             m == Count("map", From(map_results, offset), w)
             q == Count("red", reduce_results, w)
  <2>1. x \in Nat /\ m \in Nat /\ q \in Nat /\ Elsewhere(w) = x + (m + q)
    BY ElsewhereIs DEF Elsewhere
  <2> HIDE DEF x, m, q
  <2> QED
    BY <2>1
<1>2. /\ request[worker_idx] # <<>> => request[worker_idx][1].body \in Seq(Byte)
      /\ reply[worker_idx] # <<>> => reply[worker_idx][1] \in Seq(Byte)
  BY DEF Base, InTurn, Requests, Replies, Message
<1>3. ASSUME NEW w PROVE Under(w) \in Nat
  <2>1. \A s \in Seq(Byte) : /\ Count("text", s, w) \in Nat /\ Count("map", s, w) \in Nat
                             /\ Count("red", s, w) \in Nat
    BY AddsAre, KindsAre
  <2> QED
    BY <1>2, <2>1 DEF Under
<1>4. text \in Seq(Byte) /\ \A w : Count("text", text, w) \in Nat
  BY ElsewhereIs, AddsAre, KindsAre
<1>5. ASSUME NEW w PROVE Overall(w) \in Nat
  BY <1>1, <1>3 DEF Overall
<1> QED
  BY <1>1, <1>3, <1>4, <1>5

LEMMA KeptInit == Init => Kept
<1> SUFFICES ASSUME Init PROVE Kept
  OBVIOUS
<1>1. /\ text \in Seq(Byte) /\ at = 0 /\ pc = "map" /\ worker_idx \in Ports
      /\ map_results = <<>> /\ offset = 0 /\ reduce_results = <<>>
      /\ request = [p \in Ports |-> <<>>]
  BY PortsAre DEF Init
<1>2. request[worker_idx] = <<>>
  BY <1>1
<1>3. Aligned(text, at)
  BY <1>1 DEF Aligned
<1>4. From(text, at) = text /\ From(map_results, offset) = <<>>
  <2>1. <<>> \in Seq(Byte)
    OBVIOUS
  <2> QED
    BY <1>1, <2>1, CutEnds
<1>5. ASSUME NEW w PROVE Overall(w) = Count("text", text, w) /\ Overall(w) <= Count("text", text, w)
  <2>1. Under(w) = 0
    BY <1>1 DEF Under
  <2>2. Count("map", <<>>, w) = 0 /\ Count("red", <<>>, w) = 0
    BY KindsAre, EmptyReply
  <2>3. Count("text", text, w) \in Nat
    BY <1>1, KindsAre, AddsAre
  <2>4. Elsewhere(w) = Count("text", text, w) + (0 + 0)
    BY <1>1, <1>4, <2>2 DEF Elsewhere
  <2>5. Overall(w) = 0 + Elsewhere(w)
    BY <2>1 DEF Overall
  <2> QED
    BY <2>3, <2>4, <2>5
<1> QED
  BY <1>2, <1>3, <1>5 DEF Kept, Clean, Unmarked

\* Steps that add no word, and lose none if nothing went wrong.
LEMMA LessKept ==
    ASSUME Base, Kept, text' = text, failed \subseteq failed',
           Fits(text) => /\ Aligned(text, at')
                         /\ Clean'
                         /\ \A w : Overall(w)' \in Nat /\ Overall(w)' <= Overall(w)
                         /\ Fine' => \A w : Overall(w)' = Overall(w)
    PROVE  Kept'
<1>1. Fine' => Fine
  BY DEF Fine
<1> SUFFICES ASSUME Fits(text)
             PROVE  /\ Aligned(text, at')
                    /\ Clean'
                    /\ \A w : Overall(w)' <= Count("text", text, w)
                    /\ Fine' => \A w : Overall(w)' = Count("text", text, w)
  BY DEF Kept
<1>2. ASSUME NEW w PROVE Overall(w)' <= Count("text", text, w)
  <2> DEFINE x == Overall(w)
             y == Overall(w)'
             t == Count("text", text, w)
  <2>1. x \in Nat /\ t \in Nat
    BY OverallIs
  <2>2. y \in Nat /\ y <= x
    OBVIOUS
  <2>3. x <= t
    BY DEF Kept
  <2> HIDE DEF x, y, t
  <2>4. y <= t
    BY <2>1, <2>2, <2>3
  <2> QED
    BY <2>4 DEF y, t
<1>3. Fine' => \A w : Overall(w)' = Count("text", text, w)
  BY <1>1 DEF Kept
<1> QED
  BY <1>2, <1>3

\* Steps that move words, and add and lose none.
LEMMA SameKept ==
    ASSUME Base, Kept, text' = text, failed \subseteq failed',
           Fits(text) => /\ Aligned(text, at')
                         /\ Clean'
                         /\ \A w : Overall(w)' = Overall(w)
    PROVE  Kept'
<1>1. Fits(text) => \A w : Overall(w)' \in Nat /\ Overall(w)' <= Overall(w)
  <2> SUFFICES ASSUME Fits(text), NEW w PROVE Overall(w)' \in Nat /\ Overall(w)' <= Overall(w)
    OBVIOUS
  <2>1. Overall(w)' = Overall(w) /\ Overall(w) \in Nat
    BY OverallIs
  <2> QED
    BY <2>1
<1> QED
  BY <1>1, LessKept

\* Steps that move no words.
LEMMA NothingMoved ==
    ASSUME Base, Kept, UNCHANGED <<text, at, map_results, offset, reduce_results>>,
           failed \subseteq failed',
           \A w : Under(w)' = Under(w),
           request'[worker_idx'] # <<>> /\ pc' # "rip reply" =>
               /\ pc' = pc /\ request[worker_idx] # <<>>
               /\ request'[worker_idx'] = request[worker_idx]
    PROVE  Kept'
<1>1. ASSUME NEW w PROVE Overall(w)' = Overall(w)
  BY DEF Overall, Elsewhere
<1>2. Fits(text) => /\ Aligned(text, at')
                    /\ Clean'
  BY DEF Kept, Clean, Unmarked
<1> QED
  BY <1>1, <1>2, SameKept

LEMMA SendMapKept == ASSUME Base, Base', Kept, SendMap PROVE Kept'
<1> DEFINE n == ChunkLength(text, at)
           b == Truncated(Piece(text, at, n))
<1>1. /\ pc = "map" /\ at < Len(text) /\ Send("map", b) /\ at' = at + n /\ pc' = "map reply"
      /\ text' = text /\ worker_idx' = worker_idx /\ map_results' = map_results /\ offset' = offset
      /\ reduce_results' = reduce_results /\ failed' = failed
  BY DEF SendMap, Piece, hist
<1>2. CASE ~ Fits(text)
  BY <1>1, <1>2 DEF Kept
<1> SUFFICES ASSUME Fits(text) PROVE Kept'
  BY <1>2
<1>3. text \in Seq(Byte) /\ at \in Nat /\ worker_idx \in Ports /\ Aligned(text, at)
  BY PortsAre DEF Base, Typed, Kept
<1>4. /\ (Plain(text) => ~ is_new_protocol(b)) /\ Aligned(text, at + n)
      /\ \A w : Count("text", From(text, at), w) = Count("text", b, w) + Count("text", From(text, at + n), w)
  <2>1. /\ n = ChunkLength(text, at) /\ b = Truncated(Piece(text, at, n)) /\ at < Len(text)
        /\ text \in Seq(Byte) /\ at \in Nat /\ Aligned(text, at) /\ Fits(text)
    BY <1>1, <1>3
  <2> HIDE DEF n, b
  <2>2. Aligned(text, at + n)
    BY <2>1, ChunkEnds
  <2> QED
    BY <2>1, <2>2, ChunkCounts
<1>5. b \in Seq(Byte) /\ From(text, at + n) \in Seq(Byte)
  <2>1. n \in Nat /\ at + n <= Len(text)
    BY <1>1, <1>3, ChunkIs
  <2> HIDE DEF n
  <2>2. Piece(text, at, n) \in Seq(Byte) /\ From(text, at + n) \in Seq(Byte)
    BY <1>3, <2>1, CutIs
  <2> QED
    BY <2>2, TruncatedIs
<1> HIDE DEF n, b
<1>6. request'[worker_idx'] # <<>> /\ request'[worker_idx'][1].body = b
  <2>1. request \in [Ports -> Slots(Message)]
    BY DEF Base, InTurn
  <2>2. request'[worker_idx] = <<[type |-> "map", body |-> b]>>
    BY <1>1, <1>3, <2>1 DEF Send
  <2>3. <<[type |-> "map", body |-> b]>>[1].body = b /\ <<[type |-> "map", body |-> b]>> # <<>>
    OBVIOUS
  <2> QED
    BY <1>1, <2>2, <2>3
<1>7. ASSUME NEW w PROVE Overall(w)' = Overall(w)
  <2>1. Under(w) = 0
    BY <1>1 DEF Under
  <2>2. Under(w)' = Count("text", b, w)
    BY <1>1, <1>6 DEF Under
  <2>4. Count("text", b, w) \in Nat
    BY <1>5, KindsAre, AddsAre
  <2> DEFINE y == Count("text", From(text, at + n), w)
             m == Count("map", From(map_results, offset), w)
             r == Count("red", reduce_results, w)
  <2>5. m \in Nat /\ r \in Nat
    BY ElsewhereIs
  <2>6. y \in Nat
    BY <1>5, KindsAre, AddsAre
  <2>7. Elsewhere(w) = (Count("text", b, w) + y) + (m + r)
    BY <1>4 DEF Elsewhere
  <2>8. Elsewhere(w)' = y + (m + r)
    BY <1>1 DEF Elsewhere
  <2> DEFINE u == Under(w)
             v == Under(w)'
             e == Elsewhere(w)
             f == Elsewhere(w)'
             c == Count("text", b, w)
  <2> HIDE DEF y, m, r, u, v, e, f, c
  <2>10. v + f = u + e
    BY <2>1, <2>2, <2>4, <2>5, <2>6, <2>7, <2>8 DEF u, v, e, f, c
  <2> QED
    BY <2>10 DEF Overall, u, v, e, f
<1> QED
  BY <1>1, <1>4, <1>6, <1>7, SameKept DEF Clean, Unmarked

\* Steps that leave no message under way.
LEMMA QuietKept ==
    ASSUME Base, Base', Kept, pc' \notin Sending, text' = text, failed' = failed,
           Fits(text) => Aligned(text, at'),
           \A w : Elsewhere(w)' = Overall(w)
    PROVE  Kept'
<1>1. worker_idx' \in Ports /\ request'[worker_idx'] = <<>>
  BY DEF Base, Typed, InTurn
<1>2. ASSUME NEW w PROVE Overall(w)' = Overall(w)
  <2>1. Under(w)' = 0
    BY DEF Under, Sending
  <2>2. Overall(w)' = 0 + Overall(w) /\ Overall(w) \in Nat
    BY <2>1, OverallIs DEF Overall
  <2> QED
    BY <2>2
<1> QED
  BY <1>1, <1>2, SameKept DEF Clean, Unmarked

LEMMA ReceiveMapKept == ASSUME Base, Base', Kept, ReceiveMap PROVE Kept'
<1> DEFINE r == Head(reply[worker_idx])
           z == map_results \o r
<1>1. /\ pc = "map reply" /\ Receive /\ map_results' = z /\ pc' = "map"
      /\ text' = text /\ at' = at /\ offset' = offset /\ reduce_results' = reduce_results
      /\ failed' = failed /\ reply[worker_idx] # <<>>
  BY DEF ReceiveMap, Receive, hist
<1>2. /\ map_results \in Seq(Byte) /\ offset = 0 /\ MapForm(map_results)
  <2>1. map_results \in Seq(Byte) /\ offset = 0 /\ MapForm(From(map_results, offset))
    BY <1>1 DEF Base, Typed, Progress, Results
  <2> QED
    BY <2>1, CutEnds
<1>3. r = reply[worker_idx][1] /\ r \in Seq(Byte) /\ MapForm(r) /\ request[worker_idx] = <<>>
  <2>1. InTurn /\ worker_idx \in Ports
    BY DEF Base, Typed
  <2>2. reply[worker_idx] \in Slots(Seq(Byte)) /\ request[worker_idx] = <<>>
        /\ reply[worker_idx][1] \in Replies("map")
    BY <1>1, <2>1 DEF InTurn, TypeSent
  <2>3. Head(reply[worker_idx]) = reply[worker_idx][1]
    BY <1>1, <2>2, SlotIs
  <2> QED
    BY <2>2, <2>3 DEF Replies
<1> HIDE DEF r
<1>4. z \in Seq(Byte) /\ \A w : Count("map", z, w) = Count("map", map_results, w) + Count("map", r, w)
  <2>1. Separate("map", map_results, r)
    BY <1>2, <1>3, FormedJoin DEF MapForm
  <2> QED
    BY <1>2, <1>3, <2>1, JoinIs, CountJoin, KindsAre
<1> HIDE DEF z
<1>5. \A w : Under(w) = Count("map", r, w)
  BY <1>1, <1>3 DEF Under
<1>6. ASSUME NEW w PROVE Elsewhere(w)' = Overall(w)
  <2> DEFINE x == Count("text", From(text, at), w)
             m == Count("map", map_results, w)
             q == Count("red", reduce_results, w)
             u == Count("map", r, w)
             c == Count("map", z, w)
             e == Elsewhere(w)
             f == Elsewhere(w)'
  <2>1. Overall(w) = u + e
    BY <1>5 DEF Overall
  <2>2. x \in Nat /\ m \in Nat /\ q \in Nat /\ u \in Nat
    BY <1>2, <1>3, ElsewhereIs, AddsAre, KindsAre
  <2>3. e = x + (m + q)
    BY <1>2, CutEnds DEF Elsewhere
  <2>4. f = x + (c + q)
    BY <1>1, <1>2, <1>4, CutEnds DEF Elsewhere
  <2>5. c = m + u
    BY <1>4
  <2> HIDE DEF x, m, q, u, c, e, f
  <2>6. f = u + e
    BY <2>2, <2>3, <2>4, <2>5
  <2> QED
    BY <2>1, <2>6 DEF f
<1>7. Fits(text) => Aligned(text, at')
  BY <1>1 DEF Kept
<1> QED
  BY <1>1, <1>6, <1>7, QuietKept DEF Sending

LEMMA ReceiveReduceKept == ASSUME Base, Base', Kept, ReceiveReduce PROVE Kept'
<1> DEFINE r == Head(reply[worker_idx])
           z == reduce_results \o r
<1>1. /\ pc = "reduce reply" /\ Receive /\ reduce_results' = z /\ pc' = "reduce"
      /\ text' = text /\ at' = at /\ offset' = offset /\ map_results' = map_results
      /\ failed' = failed /\ reply[worker_idx] # <<>>
  BY DEF ReceiveReduce, Receive, hist
<1>2. reduce_results \in Seq(Byte) /\ Formed(reduce_results)
  BY DEF Base, Typed, Results
<1>3. r = reply[worker_idx][1] /\ r \in Seq(Byte) /\ Formed(r) /\ request[worker_idx] = <<>>
  <2>1. InTurn /\ worker_idx \in Ports
    BY DEF Base, Typed
  <2>2. reply[worker_idx] \in Slots(Seq(Byte)) /\ request[worker_idx] = <<>>
        /\ reply[worker_idx][1] \in Replies("red")
    BY <1>1, <2>1 DEF InTurn, TypeSent
  <2>3. Head(reply[worker_idx]) = reply[worker_idx][1]
    BY <1>1, <2>2, SlotIs
  <2> QED
    BY <2>2, <2>3 DEF Replies
<1> HIDE DEF r
<1>4. z \in Seq(Byte) /\ \A w : Count("red", z, w) = Count("red", reduce_results, w) + Count("red", r, w)
  <2>1. Separate("red", reduce_results, r)
    BY <1>2, <1>3, FormedJoin
  <2> QED
    BY <1>2, <1>3, <2>1, JoinIs, CountJoin, KindsAre
<1> HIDE DEF z
<1>5. \A w : Under(w) = Count("red", r, w)
  BY <1>1, <1>3 DEF Under
<1>6. ASSUME NEW w PROVE Elsewhere(w)' = Overall(w)
  <2> DEFINE x == Count("text", From(text, at), w)
             m == Count("map", From(map_results, offset), w)
             q == Count("red", reduce_results, w)
             u == Count("red", r, w)
             c == Count("red", z, w)
             e == Elsewhere(w)
             f == Elsewhere(w)'
  <2>1. Overall(w) = u + e
    BY <1>5 DEF Overall
  <2>2. x \in Nat /\ m \in Nat /\ q \in Nat /\ u \in Nat
    BY <1>2, <1>3, ElsewhereIs, AddsAre, KindsAre
  <2>3. e = x + (m + q)
    BY DEF Elsewhere
  <2>4. f = x + (m + c)
    BY <1>1 DEF Elsewhere
  <2>5. c = q + u
    BY <1>4
  <2> HIDE DEF x, m, q, u, c, e, f
  <2>6. f = u + e
    BY <2>2, <2>3, <2>4, <2>5
  <2> QED
    BY <2>1, <2>6 DEF f
<1>7. Fits(text) => Aligned(text, at')
  BY <1>1 DEF Kept
<1> QED
  BY <1>1, <1>6, <1>7, QuietKept DEF Sending

\* Steps between requests that leave the texts alone.
LEMMA BetweenKept ==
    ASSUME Base, Base', Kept, pc' \notin Sending, pc \notin Counting,
           UNCHANGED <<text, at, map_results, offset, reduce_results, failed>>
    PROVE  Kept'
<1>1. ASSUME NEW w PROVE Elsewhere(w)' = Overall(w)
  <2>1. Elsewhere(w)' = Elsewhere(w) /\ Elsewhere(w) \in Nat /\ Under(w) = 0
    BY OverallIs DEF Under, Elsewhere, Counting
  <2> DEFINE e == Elsewhere(w)
  <2>2. e \in Nat /\ Overall(w) = 0 + e
    BY <2>1 DEF Overall
  <2> HIDE DEF e
  <2>3. Overall(w) = e
    BY <2>2
  <2> QED
    BY <2>1, <2>3 DEF e
<1>2. Fits(text) => Aligned(text, at')
  BY DEF Kept
<1> QED
  BY <1>1, <1>2, QuietKept

LEMMA StartReduceKept == ASSUME Base, Base', Kept, StartReduce PROVE Kept'
  BY BetweenKept DEF StartReduce, hist, Sending, Counting

LEMMA CombineKept == ASSUME Base, Base', Kept, CombineAndPrint PROVE Kept'
  BY BetweenKept DEF CombineAndPrint, hist, Sending, Counting

LEMMA ReceiveRipKept == ASSUME Base, Base', Kept, ReceiveRip PROVE Kept'
  BY BetweenKept DEF ReceiveRip, hist, Sending, Counting

LEMMA SendRipKept == ASSUME Base, Kept, SendRip PROVE Kept'
<1>1. /\ pc = "rip" /\ pc' = "rip reply"
      /\ UNCHANGED <<text, at, map_results, offset, reduce_results>> /\ failed \subseteq failed'
  BY DEF SendRip, hist
<1>2. \A w : Under(w)' = Under(w)
  BY <1>1 DEF Under
<1> QED
  BY <1>1, <1>2, NothingMoved

\* Steps of a worker that answer nothing.
LEMMA IdleKept ==
    ASSUME Base, Kept, UNCHANGED <<dist, net>>, failed \subseteq failed'
    PROVE  Kept'
<1>1. /\ UNCHANGED <<text, at, map_results, offset, reduce_results>>
      /\ worker_idx' = worker_idx /\ pc' = pc /\ request' = request /\ reply' = reply
  BY DEF dist, net
<1>2. \A w : Under(w)' = Under(w)
  BY <1>1 DEF Under
<1> QED
  BY <1>1, <1>2, NothingMoved

LEMMA PollKept == ASSUME Base, Kept, NEW w \in Workers, Poll(w) PROVE Kept'
  BY IdleKept DEF Poll, hist

LEMMA InterruptKept == ASSUME Base, Kept, NEW w \in Workers, Interrupt(w) PROVE Kept'
  BY IdleKept DEF Interrupt

LEMMA ExitKept == ASSUME Base, Kept, NEW w \in Workers, Exit(w) PROVE Kept'
  BY IdleKept DEF Exit, hist

LEMMA SendReduceKept == ASSUME Base, Kept, SendReduce PROVE Kept'
<1> DEFINE n == ReduceLength(From(map_results, offset))
           b == Truncated(Piece(map_results, offset, n))
<1>1. /\ pc = "reduce" /\ offset < Len(map_results) /\ Send("red", b) /\ offset' = offset + n
      /\ pc' = "reduce reply" /\ at' = at
      /\ text' = text /\ worker_idx' = worker_idx /\ map_results' = map_results
      /\ reduce_results' = reduce_results /\ failed' = failed
  BY DEF SendReduce, Piece, From, hist
<1>3. map_results \in Seq(Byte) /\ offset \in Nat /\ worker_idx \in Ports /\ MapForm(From(map_results, offset))
  BY DEF Base, Typed, Results
<1>4. /\ ~ is_new_protocol(b)
      /\ \A w : Count("map", From(map_results, offset), w) =
                    Count("map", b, w) + Count("map", From(map_results, offset + n), w)
  <2>1. /\ n = ReduceLength(From(map_results, offset)) /\ b = Truncated(Piece(map_results, offset, n))
        /\ offset < Len(map_results)
    BY <1>1
  <2> HIDE DEF n, b
  <2> QED
    BY <1>3, <2>1, ReduceCounts
<1>5. b \in Seq(Byte) /\ From(map_results, offset + n) \in Seq(Byte)
  <2>1. n \in Nat /\ offset + n <= Len(map_results)
    BY <1>1, <1>3, ReduceCut
  <2> HIDE DEF n
  <2>2. Piece(map_results, offset, n) \in Seq(Byte) /\ From(map_results, offset + n) \in Seq(Byte)
    BY <1>3, <2>1, CutIs
  <2> QED
    BY <2>2, TruncatedIs
<1> HIDE DEF n, b
<1>6. request'[worker_idx'] # <<>> /\ request'[worker_idx'][1].body = b
  <2>1. request \in [Ports -> Slots(Message)]
    BY DEF Base, InTurn
  <2>2. request'[worker_idx] = <<[type |-> "red", body |-> b]>>
    BY <1>1, <1>3, <2>1 DEF Send
  <2>3. <<[type |-> "red", body |-> b]>>[1].body = b /\ <<[type |-> "red", body |-> b]>> # <<>>
    OBVIOUS
  <2> QED
    BY <1>1, <2>2, <2>3
<1>7. ASSUME NEW w PROVE Overall(w)' = Overall(w)
  <2> DEFINE x == Count("text", From(text, at), w)
             m == Count("map", From(map_results, offset + n), w)
             r == Count("red", reduce_results, w)
             s == Count("map", b, w)
             u == Under(w)
             v == Under(w)'
             e == Elsewhere(w)
             f == Elsewhere(w)'
  <2>1. u = 0
    BY <1>1 DEF Under
  <2>2. v = s
    BY <1>1, <1>6 DEF Under
  <2>4. s \in Nat /\ m \in Nat
    BY <1>5, KindsAre, AddsAre
  <2>5. x \in Nat /\ r \in Nat
    BY ElsewhereIs
  <2>6. e = x + ((s + m) + r)
    BY <1>4 DEF Elsewhere
  <2>7. f = x + (m + r)
    BY <1>1 DEF Elsewhere
  <2> HIDE DEF x, m, r, s, u, v, e, f
  <2>9. v + f = u + e
    BY <2>1, <2>2, <2>4, <2>5, <2>6, <2>7
  <2> QED
    BY <2>9 DEF Overall, u, v, e, f
<1>8. Fits(text) => Aligned(text, at')
  BY <1>1 DEF Kept
<1> QED
  BY <1>1, <1>4, <1>6, <1>7, <1>8, SameKept DEF Clean, Unmarked

\* The answer that is put in place of the request.
LEMMA Answered ==
    ASSUME Base, NEW w \in Workers, ready[w] # {}, NEW r, Respond(w, r), UNCHANGED dist
    PROVE  /\ NextPort(w) = worker_idx /\ request[worker_idx] # <<>> /\ pc \in Sending
           /\ Head(request[worker_idx]) = request[worker_idx][1]
           /\ request[worker_idx][1] \in Requests(TypeSent)
           /\ UNCHANGED <<text, at, pc, worker_idx, map_results, offset, reduce_results>>
           /\ request'[worker_idx'] = <<>> /\ reply'[worker_idx'] # <<>> /\ reply'[worker_idx'][1] = r
<1>1. UNCHANGED <<text, at, pc, worker_idx, map_results, offset, reduce_results>>
  BY DEF dist
<1>2. Typed /\ InTurn /\ worker_idx \in Ports
  BY DEF Base, Typed
<1>3. NextPort(w) = worker_idx /\ request[worker_idx] # <<>> /\ pc \in Sending
  BY ReadyIs
<1>4. Head(request[worker_idx]) = request[worker_idx][1] /\ request[worker_idx][1] \in Requests(TypeSent)
  <2>1. request[worker_idx] \in Slots(Message)
    BY <1>2 DEF InTurn
  <2>2. Head(request[worker_idx]) = request[worker_idx][1]
    BY <1>3, <2>1, SlotIs
  <2> QED
    BY <1>2, <1>3, <2>2 DEF InTurn
<1>5. request'[worker_idx'] = <<>> /\ reply'[worker_idx'] = <<r>>
  <2>1. request' = [request EXCEPT ![worker_idx] = <<>>] /\ reply' = [reply EXCEPT ![worker_idx] = <<r>>]
    BY <1>3 DEF Respond
  <2> QED
    BY <1>1, <1>2, <2>1 DEF InTurn
<1>6. <<r>>[1] = r /\ <<r>> # <<>>
  OBVIOUS
<1> QED
  BY <1>1, <1>3, <1>4, <1>5, <1>6

\* An answer that holds no more words than the request.
LEMMA AnswerKept ==
    ASSUME Base, Kept, UNCHANGED <<text, at, pc, worker_idx, map_results, offset, reduce_results>>,
           failed \subseteq failed', request'[worker_idx'] = <<>>,
           Fits(text) => /\ \A v : Under(v)' \in Nat /\ Under(v)' <= Under(v)
                         /\ Fine' => \A v : Under(v)' = Under(v)
    PROVE  Kept'
<1>1. ASSUME NEW v PROVE Elsewhere(v)' = Elsewhere(v) /\ Elsewhere(v) \in Nat /\ Under(v) \in Nat
  BY OverallIs DEF Elsewhere
<1>2. Fits(text) => \A v : Overall(v)' \in Nat /\ Overall(v)' <= Overall(v)
  <2> SUFFICES ASSUME Fits(text), NEW v PROVE Overall(v)' \in Nat /\ Overall(v)' <= Overall(v)
    OBVIOUS
  <2> DEFINE x == Under(v)
             y == Under(v)'
             e == Elsewhere(v)
  <2>1. x \in Nat /\ y \in Nat /\ y <= x /\ e \in Nat /\ Overall(v) = x + e /\ Overall(v)' = y + e
    BY <1>1 DEF Overall
  <2> HIDE DEF x, y, e
  <2> QED
    BY <2>1
<1>3. Fits(text) /\ Fine' => \A v : Overall(v)' = Overall(v)
  BY <1>1 DEF Overall
<1>4. Fits(text) => Aligned(text, at')
  BY DEF Kept
<1> QED
  BY <1>2, <1>3, <1>4, LessKept DEF Clean, Unmarked

LEMMA ServeKept == ASSUME Base, Kept, NEW w \in Workers, Serve(w) PROVE Kept'
<1> DEFINE m == Head(request[NextPort(w)])
<1>1. /\ ready[w] # {} /\ UNCHANGED dist /\ failed' = failed
  BY DEF Serve, hist
<1>2. PICK r \in Answers(m) : Respond(w, r)
  BY DEF Serve
<1>3. /\ NextPort(w) = worker_idx /\ request[worker_idx] # <<>> /\ pc \in Sending
      /\ Head(request[worker_idx]) = request[worker_idx][1]
      /\ request[worker_idx][1] \in Requests(TypeSent)
      /\ UNCHANGED <<text, at, pc, worker_idx, map_results, offset, reduce_results>>
      /\ request'[worker_idx'] = <<>> /\ reply'[worker_idx'] # <<>> /\ reply'[worker_idx'][1] = r
  BY <1>1, <1>2, Answered
<1>4. m = request[worker_idx][1] /\ m \in Requests(TypeSent)
  BY <1>3
<1> HIDE DEF m
<1>5. m \in Message /\ m.type = TypeSent /\ Len(m.body) <= MAX_MSG_LEN - 4 /\ m.body \in Seq(Byte)
  BY <1>4 DEF Requests, Message
<1>6. /\ r \in Replies(m.type)
      /\ m.type = "map" => \A v : Count("map", r, v) <= Count("text", m.body, v)
      /\ ~ is_new_protocol(m.body) =>
          /\ m.type = "map" => \A v : Count("map", r, v) = Count("text", m.body, v)
          /\ m.type = "red" => \A v : Count("red", r, v) = Count("map", m.body, v)
  BY <1>5, AnswersAre
<1>7. r \in Seq(Byte)
  BY <1>6 DEF Replies
<1>8. ASSUME Fits(text), NEW v
      PROVE  /\ Under(v)' \in Nat /\ Under(v)' <= Under(v)
             /\ Fine' => Under(v)' = Under(v)
  <2>1. CASE pc = "map reply"
    <3>1. m.type = "map" /\ (Plain(text) => ~ is_new_protocol(m.body))
      BY <1>3, <1>4, <1>5, <1>8, <2>1 DEF TypeSent, Kept, Clean, Unmarked
    <3>2. Under(v) = Count("text", m.body, v)
      BY <1>3, <1>4, <2>1 DEF Under
    <3>3. Under(v)' = Count("map", r, v)
      BY <1>3, <2>1 DEF Under
    <3>4. Count("map", r, v) \in Nat
      BY <1>7, AddsAre, KindsAre
    <3>5. Fine' => Plain(text)
      BY <1>3 DEF Fine
    <3> QED
      BY <1>6, <3>1, <3>2, <3>3, <3>4, <3>5
  <2>2. CASE pc = "reduce reply"
    <3>1. m.type = "red" /\ ~ is_new_protocol(m.body)
      BY <1>3, <1>4, <1>5, <1>8, <2>2 DEF TypeSent, Kept, Clean, Unmarked
    <3>2. Under(v) = Count("map", m.body, v)
      BY <1>3, <1>4, <2>2 DEF Under
    <3>3. Under(v)' = Count("red", r, v)
      BY <1>3, <2>2 DEF Under
    <3>4. Count("red", r, v) \in Nat /\ Count("red", r, v) = Count("map", m.body, v)
      BY <1>6, <1>7, <3>1, AddsAre, KindsAre
    <3> QED
      BY <3>2, <3>3, <3>4
  <2>3. CASE pc = "rip reply"
    <3>1. Under(v) = 0 /\ Under(v)' = 0
      BY <1>3, <2>3 DEF Under
    <3> QED
      BY <3>1
  <2> QED
    BY <1>3, <2>1, <2>2, <2>3 DEF Sending
<1> QED
  BY <1>1, <1>3, <1>8, AnswerKept

\* The empty answer holds none.
LEMMA ServeWithoutMemoryKept ==
    ASSUME Base, Kept, NEW w \in Workers, ServeWithoutMemory(w)
    PROVE  Kept'
<1>1. /\ ready[w] # {} /\ UNCHANGED dist /\ Respond(w, <<>>) /\ failed' = failed \cup {"memory"}
  BY DEF ServeWithoutMemory
<1>2. /\ UNCHANGED <<text, at, pc, worker_idx, map_results, offset, reduce_results>>
      /\ request'[worker_idx'] = <<>> /\ reply'[worker_idx'] # <<>> /\ reply'[worker_idx'][1] = <<>>
  BY <1>1, Answered
<1>3. ASSUME NEW v PROVE Under(v)' = 0 /\ Under(v) \in Nat
  <2>1. Count("map", <<>>, v) = 0 /\ Count("red", <<>>, v) = 0
    BY KindsAre, EmptyReply
  <2>2. Under(v)' = 0
    BY <1>2, <2>1 DEF Under
  <2> QED
    BY <2>2, OverallIs
<1>4. \A v : Under(v)' \in Nat /\ Under(v)' <= Under(v)
  BY <1>3
<1>5. ~ Fine'
  BY <1>1 DEF Fine
<1> QED
  BY <1>1, <1>2, <1>4, <1>5, AnswerKept

LEMMA KeptKept == ASSUME Base, Base', Kept, [Next]_vars PROVE Kept'
<1>1. CASE UNCHANGED vars
  BY <1>1, IdleKept DEF vars, hist
<1>2. CASE Distributor
  BY <1>2, SendMapKept, ReceiveMapKept, StartReduceKept, SendReduceKept, ReceiveReduceKept,
     CombineKept, SendRipKept, ReceiveRipKept DEF Distributor
<1>3. ASSUME NEW w \in Workers, Worker(w) \/ Interrupt(w) PROVE Kept'
  BY <1>3, PollKept, ServeKept, ServeWithoutMemoryKept, ExitKept, InterruptKept DEF Worker
<1> QED
  BY <1>1, <1>2, <1>3 DEF Next

LEMMA KeptAlways == Spec => []Kept
<1>1. Base /\ Base' /\ Kept /\ [Next]_vars => Kept'
  BY KeptKept
<1> QED
  BY BaseAlways, KeptInit, <1>1, PTL DEF Spec

\* What the invariant says of the words, where nothing went wrong.
LEMMA FineIs ==
    /\ WordsFitChunks = Fits(text)
    /\ NoHeaders = Plain(text)
  BY DEF WordsFitChunks, Fits, NoHeaders, Plain

----------------------------------------------------------------------------
(* The tables as bags.                                                      *)

IsTally(B)  == B = [w \in DOMAIN B |-> B[w]] /\ \A w \in DOMAIN B : B[w] \in Nat /\ B[w] >= 1
Tally(B, w) == IF w \in DOMAIN B THEN B[w] ELSE 0

LEMMA TalliesAdd ==
    ASSUME NEW A, NEW B, IsTally(A), IsTally(B)
    PROVE  IsTally(A (+) B) /\ \A w : Tally(A (+) B, w) = Tally(A, w) + Tally(B, w)
<1> DEFINE D == DOMAIN A \cup DOMAIN B
           C == [w \in D |-> Tally(A, w) + Tally(B, w)]
<1>1. A (+) B = C
  BY DEF (+), Tally
<1>2. \A w : /\ Tally(A, w) \in Nat /\ Tally(B, w) \in Nat
             /\ w \in DOMAIN A => Tally(A, w) >= 1
             /\ w \in DOMAIN B => Tally(B, w) >= 1
             /\ w \notin DOMAIN A => Tally(A, w) = 0
             /\ w \notin DOMAIN B => Tally(B, w) = 0
  BY DEF IsTally, Tally
<1>3. DOMAIN C = D /\ \A w \in D : C[w] = Tally(A, w) + Tally(B, w)
  OBVIOUS
<1>4. C = [w \in DOMAIN C |-> C[w]]
  BY <1>3
<1> HIDE DEF C
<1>5. \A w \in DOMAIN C : C[w] \in Nat /\ C[w] >= 1
  BY <1>2, <1>3
<1>6. \A w : Tally(C, w) = Tally(A, w) + Tally(B, w)
  BY <1>2, <1>3 DEF Tally
<1> QED
  BY <1>1, <1>4, <1>5, <1>6 DEF IsTally

LEMMA TalliesSame ==
    ASSUME NEW A, NEW B, IsTally(A), IsTally(B), \A w : Tally(A, w) = Tally(B, w)
    PROVE  A = B
<1>1. \A w : w \in DOMAIN A <=> Tally(A, w) # 0
  BY DEF IsTally, Tally
<1>2. \A w : w \in DOMAIN B <=> Tally(B, w) # 0
  BY DEF IsTally, Tally
<1>3. DOMAIN A = DOMAIN B
  BY <1>1, <1>2
<1>4. \A w \in DOMAIN A : A[w] = B[w]
  BY <1>3 DEF Tally
<1> QED
  BY <1>3, <1>4 DEF IsTally

LEMMA TableTally ==
    ASSUME NEW kind \in Kinds, NEW s \in Seq(Byte), Positive(kind, s)
    PROVE  IsTally(Table(kind, s)) /\ \A w : Tally(Table(kind, s), w) = Count(kind, s, w)
<1> DEFINE H == Holds(kind, s)
           T == Table(kind, s)
<1>1. \A w : Count(kind, s, w) \in Nat /\ (w \in H <=> Count(kind, s, w) >= 1)
  BY AddsAre, HoldsIs
<1>2. DOMAIN T = H /\ \A w \in H : T[w] = Count(kind, s, w)
  BY DEF Table
<1>3. T = [w \in DOMAIN T |-> T[w]]
  BY DEF Table
<1> HIDE DEF H, T
<1>4. IsTally(T)
  BY <1>1, <1>2, <1>3 DEF IsTally
<1>5. \A w : Tally(T, w) = Count(kind, s, w)
  BY <1>1, <1>2 DEF Tally
<1> QED
  BY <1>4, <1>5 DEF T

\* What the three ways to read a text give.
LEMMA ReadTally ==
    ASSUME NEW s \in Seq(Byte)
    PROVE  /\ IsTally(Words(s)) /\ \A w : Tally(Words(s), w) = Count("text", s, w)
           /\ IsTally(wc_from_map_format(s))
           /\ \A w : Tally(wc_from_map_format(s), w) = Count("map", s, w)
           /\ Positive("red", s) => /\ IsTally(combine(s))
                                    /\ \A w : Tally(combine(s), w) = Count("red", s, w)
<1>1. Words(s) = Table("text", s) /\ wc_from_map_format(s) = Table("map", s) /\ combine(s) = Table("red", s)
  BY TablesAre DEF Words
<1>2. Positive("text", s) /\ Positive("map", s)
  BY SourceIs DEF Sources
<1> QED
  BY <1>1, <1>2, TableTally, KindsAre

LEMMA UnderWayIs ==
    ASSUME Base
    PROVE  IsTally(UnderWay(worker_idx)) /\ \A w : Tally(UnderWay(worker_idx), w) = Under(w)
<1> DEFINE U == UnderWay(worker_idx)
           q == request[worker_idx]
           r == reply[worker_idx]
           m == q[1]
<1>1. IsTally(EmptyBag) /\ \A w : Tally(EmptyBag, w) = 0
  <2>1. EmptyBag = [w \in {} |-> 1]
    BY DEF EmptyBag, SetToBag
  <2> QED
    BY <2>1 DEF IsTally, Tally
<1>2. InTurn /\ worker_idx \in Ports /\ pc \in Pc
  BY DEF Base, Typed
<1>3. /\ q # <<>> => m \in Requests(TypeSent) /\ pc \in Sending
      /\ r # <<>> => r[1] \in Replies(TypeSent) /\ pc \in Sending
  BY <1>2 DEF InTurn
<1>4. /\ pc = "map reply" => TypeSent = "map"
      /\ pc = "reduce reply" => TypeSent = "red"
      /\ pc = "rip reply" => TypeSent = "rip"
  BY DEF TypeSent
<1>5. q # <<>> => m.type = TypeSent /\ m.body \in Seq(Byte)
  BY <1>3 DEF Requests, Message
<1>6. r # <<>> => r[1] \in Seq(Byte) /\ (TypeSent = "red" => Positive("red", r[1]))
  BY <1>3 DEF Replies
<1>7. U = IF q # <<>>
          THEN CASE m.type = "map" -> Words(m.body)
                 [] m.type = "red" -> wc_from_map_format(m.body)
                 [] m.type = "rip" -> EmptyBag
          ELSE IF r # <<>>
          THEN CASE pc = "map reply"    -> wc_from_map_format(r[1])
                 [] pc = "reduce reply" -> combine(r[1])
                 [] OTHER               -> EmptyBag
          ELSE EmptyBag
  BY DEF UnderWay
<1>8. \A w : Under(w) =
          IF q # <<>>
          THEN CASE pc = "map reply"    -> Count("text", m.body, w)
                 [] pc = "reduce reply" -> Count("map", m.body, w)
                 [] OTHER               -> 0
          ELSE IF r # <<>>
          THEN CASE pc = "map reply"    -> Count("map", r[1], w)
                 [] pc = "reduce reply" -> Count("red", r[1], w)
                 [] OTHER               -> 0
          ELSE 0
  BY DEF Under
<1> HIDE DEF U, q, r, m
<1>9. CASE q # <<>> /\ pc = "map reply"
  <2>1. U = Words(m.body) /\ \A w : Under(w) = Count("text", m.body, w)
    BY <1>4, <1>5, <1>7, <1>8, <1>9
  <2> QED
    BY <1>5, <1>9, <2>1, ReadTally DEF U
<1>10. CASE q # <<>> /\ pc = "reduce reply"
  <2>1. U = wc_from_map_format(m.body) /\ \A w : Under(w) = Count("map", m.body, w)
    BY <1>4, <1>5, <1>7, <1>8, <1>10
  <2> QED
    BY <1>5, <1>10, <2>1, ReadTally DEF U
<1>11. CASE q = <<>> /\ r # <<>> /\ pc = "map reply"
  <2>1. U = wc_from_map_format(r[1]) /\ \A w : Under(w) = Count("map", r[1], w)
    BY <1>7, <1>8, <1>11
  <2> QED
    BY <1>6, <1>11, <2>1, ReadTally DEF U
<1>12. CASE q = <<>> /\ r # <<>> /\ pc = "reduce reply"
  <2>1. U = combine(r[1]) /\ \A w : Under(w) = Count("red", r[1], w)
    BY <1>7, <1>8, <1>12
  <2> QED
    BY <1>4, <1>6, <1>12, <2>1, ReadTally DEF U
<1>13. CASE (q = <<>> /\ r = <<>>) \/ pc = "rip reply"
  <2>1. U = EmptyBag /\ \A w : Under(w) = 0
    BY <1>4, <1>5, <1>7, <1>8, <1>13
  <2> QED
    BY <1>1, <2>1 DEF U
<1> QED
  BY <1>3, <1>9, <1>10, <1>11, <1>12, <1>13 DEF Sending

\* At every moment, for every text, number of ports and sizes of the buffers,
\* the words to be read, under way, counted and combined are together the
\* words of the file, as long as no worker is out of memory, no word fills a
\* chunk and no chunk can be taken for a header (zmq_distributor.c:193-253).
THEOREM WordsAreConserved == Spec => []WordsConserved
<1>1. ASSUME Base, Kept PROVE WordsConserved
  <2> DEFINE R == Words(From(text, at))
             U == UnderWay(worker_idx)
             M == wc_from_map_format(From(map_results, offset))
             C == combine(reduce_results)
             T == Words(text)
  <2> SUFFICES ASSUME Fine PROVE T = ((R (+) U) (+) M) (+) C
    BY FineIs DEF WordsConserved, Fine, From
  <2>1. /\ text \in Seq(Byte) /\ From(text, at) \in Seq(Byte) /\ From(map_results, offset) \in Seq(Byte)
        /\ reduce_results \in Seq(Byte) /\ Positive("red", reduce_results)
    BY <1>1, ElsewhereIs DEF Base, Results
  <2>2. IsTally(T) /\ \A w : Tally(T, w) = Count("text", text, w)
    BY <2>1, ReadTally
  <2>3. IsTally(R) /\ \A w : Tally(R, w) = Count("text", From(text, at), w)
    BY <2>1, ReadTally
  <2>4. IsTally(M) /\ \A w : Tally(M, w) = Count("map", From(map_results, offset), w)
    BY <2>1, ReadTally
  <2>5. IsTally(C) /\ \A w : Tally(C, w) = Count("red", reduce_results, w)
    BY <2>1, ReadTally
  <2>6. IsTally(U) /\ \A w : Tally(U, w) = Under(w)
    BY <1>1, UnderWayIs
  <2> HIDE DEF R, U, M, C, T
  <2>7. IsTally(R (+) U) /\ \A w : Tally(R (+) U, w) = Tally(R, w) + Tally(U, w)
    BY <2>3, <2>6, TalliesAdd
  <2> DEFINE A == R (+) U
  <2> HIDE DEF A
  <2>8. IsTally(A) /\ \A w : Tally(A, w) = Tally(R, w) + Tally(U, w)
    BY <2>7 DEF A
  <2>9. IsTally(A (+) M) /\ \A w : Tally(A (+) M, w) = Tally(A, w) + Tally(M, w)
    BY <2>4, <2>8, TalliesAdd
  <2> DEFINE B == A (+) M
  <2> HIDE DEF B
  <2>10. IsTally(B) /\ \A w : Tally(B, w) = Tally(A, w) + Tally(M, w)
    BY <2>9 DEF B
  <2>11. IsTally(B (+) C) /\ \A w : Tally(B (+) C, w) = Tally(B, w) + Tally(C, w)
    BY <2>5, <2>10, TalliesAdd
  <2> DEFINE D == B (+) C
  <2> HIDE DEF D
  <2>12. IsTally(D) /\ \A w : Tally(D, w) = Tally(B, w) + Tally(C, w)
    BY <2>11 DEF D
  <2>13. ASSUME NEW w PROVE Tally(T, w) = Tally(D, w)
    <3>1. Tally(T, w) = Tally(U, w) + (Tally(R, w) + (Tally(M, w) + Tally(C, w)))
      <4>1. Count("text", text, w) = Under(w) + Elsewhere(w)
        BY <1>1 DEF Kept, Fine, Overall
      <4> QED
        BY <2>2, <2>3, <2>4, <2>5, <2>6, <4>1 DEF Elsewhere
    <3>2. Tally(D, w) = ((Tally(R, w) + Tally(U, w)) + Tally(M, w)) + Tally(C, w)
      BY <2>8, <2>10, <2>12
    <3>3. Tally(R, w) \in Nat /\ Tally(M, w) \in Nat /\ Tally(C, w) \in Nat /\ Tally(U, w) \in Nat
      BY <2>3, <2>4, <2>5, <2>6 DEF IsTally, Tally
    <3> DEFINE r == Tally(R, w)
               u == Tally(U, w)
               m == Tally(M, w)
               c == Tally(C, w)
               t == Tally(T, w)
               d == Tally(D, w)
    <3> HIDE DEF r, u, m, c, t, d
    <3>4. t = d
      BY <3>1, <3>2, <3>3 DEF r, u, m, c, t, d
    <3> QED
      BY <3>4 DEF t, d
  <2>14. T = D
    BY <2>2, <2>12, <2>13, TalliesSame
  <2> QED
    BY <2>14 DEF D, B, A
<1> QED
  BY BaseAlways, KeptAlways, <1>1, PTL

\* When the lines are printed, every text is used up.
LEMMA AllCombined ==
    ASSUME Base, Kept, Printed, Fits(text)
    PROVE  \A w : /\ Count("red", reduce_results, w) <= Count("text", text, w)
                  /\ Fine => Count("red", reduce_results, w) = Count("text", text, w)
<1>1. at = Len(text) /\ offset = Len(map_results) /\ pc \notin Counting
  BY DEF Base, Progress, Printed, Counting
<1>2. text \in Seq(Byte) /\ map_results \in Seq(Byte) /\ reduce_results \in Seq(Byte)
  BY ElsewhereIs
<1>3. From(text, at) = <<>> /\ From(map_results, offset) = <<>>
  BY <1>1, <1>2, CutEnds
<1>4. ASSUME NEW w PROVE Overall(w) = Count("red", reduce_results, w)
  <2> DEFINE c == Count("red", reduce_results, w)
  <2>1. c \in Nat
    BY <1>2, AddsAre, KindsAre
  <2>2. Count("text", <<>>, w) = 0 /\ Count("map", <<>>, w) = 0
    BY KindsAre, EmptyReply
  <2>3. Elsewhere(w) = 0 + (0 + c)
    BY <1>3, <2>2 DEF Elsewhere
  <2>4. Under(w) = 0
    BY <1>1 DEF Under, Counting
  <2>5. Overall(w) = 0 + (0 + (0 + c))
    BY <2>3, <2>4 DEF Overall
  <2> HIDE DEF c
  <2>6. 0 + (0 + (0 + c)) = c
    BY <2>1
  <2> QED
    BY <2>5, <2>6 DEF c
<1> QED
  BY <1>4 DEF Kept

\* Words that fit their buffer fit a chunk.
LEMMA BuffersFit == ASSUME Base, WordsFitBuffers PROVE Fits(text)
<1>1. ASSUME NEW i \in WordStarts(text) PROVE Len(LettersAt(text, i)) < CHUNK_MAX_SIZE
  <2>1. Len(LettersAt(text, i)) <= MAX_WORD /\ Len(LettersAt(text, i)) \in Nat
    <3>1. text \in Seq(Byte)
      BY ElsewhereIs
    <3>2. Len(LettersAt(text, i)) \in Nat
      BY <3>1, WordIs
    <3> QED
      BY <3>2 DEF WordsFitBuffers
  <2> QED
    BY <2>1, Sizes
<1> QED
  BY <1>1 DEF Fits

\* The printed lines are each word of the file once, with its number of
\* occurrences in any case, the most frequent first and equal counts in the
\* order of the words, for every text without long words and without three
\* digits in a row, whatever port served which part (combine.c:26-125).
THEOREM PrintsTheWordCount == Spec => []PrintedIsTheWordCount
<1>1. ASSUME Base, Kept PROVE PrintedIsTheWordCount
  <2> SUFFICES ASSUME Printed, "memory" \notin failed, WordsFitBuffers, NoHeaders PROVE PrintedExactly
    BY DEF PrintedIsTheWordCount
  <2> DEFINE L == Lines(Table("red", reduce_results))
  <2>1. /\ text \in Seq(Byte) /\ reduce_results \in Seq(Byte) /\ Positive("red", reduce_results)
        /\ printed = L
    <3>1. text \in Seq(Byte) /\ reduce_results \in Seq(Byte)
      BY <1>1, ElsewhereIs
    <3>2. Positive("red", reduce_results) /\ printed = Lines(combine(reduce_results))
      BY <1>1 DEF Base, Results, Progress
    <3> QED
      BY <3>1, <3>2, TablesAre
  <2>2. Fits(text) /\ Fine
    BY <1>1, BuffersFit, FineIs DEF Fine
  <2>3. \A w : Count("text", text, w) = Count("red", reduce_results, w)
    BY <1>1, <2>2, AllCombined
  <2>4. Holds("text", text) = Holds("red", reduce_results)
    <3>1. \A w : w \in Holds("text", text) <=> Count("text", text, w) >= 1
      BY <2>1, SourceIs DEF Sources
    <3>2. \A w : w \in Holds("red", reduce_results) <=> Count("red", reduce_results, w) >= 1
      BY <2>1, HoldsIs, KindsAre
    <3> QED
      BY <2>3, <3>1, <3>2
  <2>5. /\ {L[k] : k \in DOMAIN L} =
               {[word |-> w, count |-> Count("red", reduce_results, w)] : w \in Holds("red", reduce_results)}
        /\ \A k \in DOMAIN L : \A l \in 1 .. (k - 1) :
               \/ L[l].count > L[k].count
               \/ /\ L[l].count = L[k].count
                  /\ Precedes(L[l].word, L[k].word)
    BY <2>1, TableLines
  <2>6. ExpectedLines = {[word |-> w, count |-> Count("text", text, w)] : w \in Holds("text", text)}
    BY <2>1, ExpectedIs
  <2>7. ExpectedLines = {[word |-> w, count |-> Count("red", reduce_results, w)] :
                            w \in Holds("red", reduce_results)}
    BY <2>3, <2>4, <2>6
  <2> HIDE DEF L
  <2> QED
    BY <2>1, <2>5, <2>7 DEF PrintedExactly
<1> QED
  BY BaseAlways, KeptAlways, <1>1, PTL

\* Whatever fails and whatever the digits of the text are taken for, no line
\* names a word that the file does not have or counts it more often than the
\* file has it: an answer of a worker without memory (zmq_worker.c:145) and one
\* that is cut to the length of a header only leave words out.
THEOREM NothingIsInvented == Spec => []NothingInvented
<1>1. ASSUME Base, Kept PROVE NothingInvented
  <2> DEFINE L == Lines(Table("red", reduce_results))
             E == ExpectedLines
             Matched(k) == \E e \in E : e.word = L[k].word /\ L[k].count <= e.count
  <2> SUFFICES ASSUME Printed, WordsFitBuffers
               PROVE  \A k \in DOMAIN printed : \E e \in E :
                          e.word = printed[k].word /\ printed[k].count <= e.count
    BY DEF NothingInvented
  <2>1. /\ text \in Seq(Byte) /\ reduce_results \in Seq(Byte) /\ Positive("red", reduce_results)
        /\ printed = L
    <3>1. text \in Seq(Byte) /\ reduce_results \in Seq(Byte)
      BY <1>1, ElsewhereIs
    <3>2. Positive("red", reduce_results) /\ printed = Lines(combine(reduce_results))
      BY <1>1 DEF Base, Results, Progress
    <3> QED
      BY <3>1, <3>2, TablesAre
  <2>2. ASSUME NEW w
        PROVE  Count("red", reduce_results, w) <= Count("text", text, w)
    BY <1>1, BuffersFit, AllCombined
  <2>3. ASSUME NEW w \in Holds("red", reduce_results) PROVE w \in Holds("text", text)
    <3> DEFINE r == Count("red", reduce_results, w)
               t == Count("text", text, w)
    <3>1. r >= 1
      BY <2>1, HoldsIs, KindsAre
    <3>2. r <= t /\ r \in Nat /\ t \in Nat
      BY <2>1, <2>2, AddsAre, KindsAre
    <3> HIDE DEF r, t
    <3>3. t >= 1
      BY <3>1, <3>2
    <3>4. w \in Holds("text", text) <=> Count("text", text, w) >= 1
      BY <2>1, SourceIs DEF Sources
    <3> QED
      BY <3>3, <3>4 DEF t
  <2>4. {L[k] : k \in DOMAIN L} =
            {[word |-> w, count |-> Count("red", reduce_results, w)] : w \in Holds("red", reduce_results)}
    BY <2>1, TableLines
  <2>5. E = {[word |-> w, count |-> Count("text", text, w)] : w \in Holds("text", text)}
    BY <2>1, ExpectedIs
  <2> HIDE DEF L, E
  <2>6. ASSUME NEW k \in DOMAIN L PROVE Matched(k)
    <3>1. L[k] \in {L[j] : j \in DOMAIN L}
      OBVIOUS
    <3>2. PICK w \in Holds("red", reduce_results) :
              L[k] = [word |-> w, count |-> Count("red", reduce_results, w)]
      BY <2>4, <3>1
    <3> DEFINE e == [word |-> w, count |-> Count("text", text, w)]
    <3>3. e \in E
      BY <2>3, <2>5
    <3>4. e.word = L[k].word /\ L[k].count <= e.count
      BY <2>2, <3>2
    <3> QED
      BY <3>3, <3>4
  <2> QED
    BY <2>1, <2>6
<1> QED
  BY BaseAlways, KeptAlways, <1>1, PTL
=============================================================================
