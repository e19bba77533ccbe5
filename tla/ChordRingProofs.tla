-------------------------- MODULE ChordRingProofs --------------------------
(* Theorems about ChordRing and the identifier space it stands on, for      *)
(* every consistent ring, any number of clients, keys and requests, and any *)
(* losses and duplications.                                                 *)
EXTENDS ChordRing, Foundations, FiniteSetTheorems

----------------------------------------------------------------------------
(* The identifier space: what is_responsible() computes, for every size of  *)
(* the space.                                                               *)

\* Distances are the numbers below N, and only a point is at distance 0 from
\* itself (the arithmetic behind is_responsible()'s two cases).
LEMMA DistType ==
    ASSUME NEW a \in Ids, NEW b \in Ids
    PROVE  /\ Dist(a, b) \in Ids
           /\ Dist(a, b) = 0 <=> a = b
  BY RingAssumption DEF Ids, Dist

\* Two points at one distance from a are the same point.
LEMMA DistInjective ==
    ASSUME NEW a \in Ids, NEW b \in Ids, NEW c \in Ids, Dist(a, b) = Dist(a, c)
    PROVE  b = c
  BY RingAssumption DEF Ids, Dist

\* is_responsible() tests the circular interval (pred_id, self_id], which is
\* the whole circle when both ends are equal.
LEMMA ResponsibleInterval ==
    ASSUME NEW h \in Ids, NEW n \in Ids, NEW p \in Ids
    PROVE  is_responsible(h, n, p) <=> (p = n \/ Dist(h, n) < Dist(p, n))
  BY RingAssumption DEF Ids, Dist, is_responsible

\* The nodes and their neighbours are identifiers, neighbours of each other.
LEMMA RingFacts ==
    ASSUME NEW n \in Nodes
    PROVE  /\ n \in Ids
           /\ Pred[n] \in Nodes /\ Succ[n] \in Nodes
           /\ Pred[n] \in Ids /\ Succ[n] \in Ids
           /\ Succ[Pred[n]] = n /\ Pred[Succ[n]] = n
           /\ Pred[n] = n => Nodes = {n}
           /\ \A m \in Nodes \ {Pred[n]} : Dist(Pred[n], n) <= Dist(Pred[n], m)
  BY RingAssumption

\* The test every node makes on its own, knowing its predecessor only, agrees
\* with the global definition: the node responsible for a hash is the first
\* one clockwise from it (is_responsible(), webserver.c).
THEOREM ResponsibleIsOwner ==
    ASSUME NEW n \in Nodes, NEW h \in Ids
    PROVE  is_responsible(h, n, Pred[n]) <=> Owns(n, h)
<1> DEFINE p == Pred[n]
<1>1. /\ n \in Ids /\ p \in Ids /\ p \in Nodes /\ N \in Nat
      /\ \A m \in Nodes \ {p} : Dist(p, n) <= Dist(p, m)
      /\ \A m \in Nodes : m \in Ids
  BY RingFacts, RingAssumption
<1> HIDE DEF p
<1>2. CASE p = n
  <2>1. Nodes = {n}
    BY <1>2, RingFacts DEF p
  <2>2. Dist(h, n) <= Dist(h, n)
    BY <1>1, DistType DEF Ids
  <2> QED
    BY <1>1, <1>2, <2>1, <2>2, ResponsibleInterval DEF Owns, p
<1>3. CASE p # n
  <2>1. ASSUME Dist(h, n) < Dist(p, n), NEW m \in Nodes
        PROVE  Dist(h, n) <= Dist(h, m)
    <3>1. m = p \/ Dist(p, n) <= Dist(p, m)
      BY <1>1
    <3>2. m \in Ids
      BY <1>1
    <3> QED
      BY <1>1, <1>3, <2>1, <3>1, <3>2 DEF Ids, Dist
  <2>2. ASSUME Dist(h, n) <= Dist(h, p)
        PROVE  Dist(h, n) < Dist(p, n)
    BY <1>1, <1>3, <2>2 DEF Ids, Dist
  <2> QED
    BY <1>1, <1>3, <2>1, <2>2, ResponsibleInterval DEF Owns, p
<1> QED
  BY <1>2, <1>3

\* No hash has two owners, so no key can be served by two nodes.
THEOREM OwnerUnique ==
    ASSUME NEW m \in Nodes, NEW n \in Nodes, NEW h \in Ids,
           Owns(m, h), Owns(n, h)
    PROVE  m = n
<1>1. m \in Ids /\ n \in Ids
  BY RingFacts
<1>2. Dist(h, m) <= Dist(h, n) /\ Dist(h, n) <= Dist(h, m)
  BY DEF Owns
<1>3. Dist(h, m) \in Int /\ Dist(h, n) \in Int
  BY <1>1, DistType, RingAssumption DEF Ids
<1> QED
  BY <1>1, <1>2, <1>3, DistInjective

\* Every hash has an owner, so no request or lookup is without a destination.
THEOREM OwnerExists ==
    ASSUME NEW h \in Ids
    PROVE  Owner(h) \in Nodes /\ Owns(Owner(h), h)
<1>1. ASSUME NEW m \in Nodes PROVE Dist(h, m) \in Nat
  <2>1. m \in Ids
    BY RingFacts
  <2> QED
    BY <2>1, RingAssumption DEF Ids, Dist
<1> DEFINE S == {Dist(h, m) : m \in Nodes}
<1>2. S \in SUBSET Nat /\ S # {}
  BY <1>1, RingAssumption
<1>3. PICK d \in S : \A e \in S : d <= e
  BY <1>2, LeastNat
<1>4. PICK n \in Nodes : d = Dist(h, n)
  BY <1>3
<1>5. Owns(n, h)
  BY <1>3, <1>4 DEF Owns
<1> QED
  BY <1>5 DEF Owner

\* A node takes a request for its own only when it owns the hash, unless its
\* configuration is the one that cannot be told from a missing one
\* (process_packet(), single_node and responsible).
THEOREM ServesOwnKeysOnly ==
    ASSUME NoZeroPair, NEW n \in Nodes, NEW h \in Ids, responsible(n, h)
    PROVE  Owns(n, h)
<1>1. CASE is_responsible(h, n, Pred[n])
  BY <1>1, ResponsibleIsOwner
<1>2. CASE single_node(n)
  <2>1. Pred[n] = n
    BY <1>2 DEF single_node, NoZeroPair
  <2>2. Nodes = {n}
    BY <2>1, RingFacts
  <2>3. Dist(h, n) <= Dist(h, n)
    BY RingFacts, DistType, RingAssumption DEF Ids
  <2> QED
    BY <2>2, <2>3 DEF Owns
<1> QED
  BY <1>1, <1>2 DEF responsible

\* When neither m nor its successor is responsible for h, moving on to the
\* successor stays short of h (the test made before a lookup is sent or
\* forwarded).
LEMMA SuccessorShortOfHash ==
    ASSUME NEW m \in Nodes, NEW h \in Ids,
           ~is_responsible(h, m, Pred[m]), ~is_responsible(h, Succ[m], m)
    PROVE  Dist(m, Succ[m]) < Dist(m, h)
<1> DEFINE s == Succ[m]
<1>1. m \in Ids /\ s \in Ids /\ Pred[m] \in Ids
  BY RingFacts
<1>2. s # m /\ ~(Dist(h, s) < Dist(m, s))
  BY <1>1, ResponsibleInterval
<1>3. h # m
  <2>1. Pred[m] # m /\ ~(Dist(h, m) < Dist(Pred[m], m))
    BY <1>1, ResponsibleInterval
  <2> QED
    BY <1>1, <2>1, RingAssumption DEF Ids, Dist
<1> HIDE DEF s
<1>4. Dist(m, s) < Dist(m, h)
  BY <1>1, <1>2, <1>3, RingAssumption DEF Ids, Dist
<1> QED
  BY <1>4 DEF s

\* One more hop of a lookup that started at o and is at m, both short of h:
\* it is still short of h, so it has not come back to o (forwarding).
LEMMA HopStaysShort ==
    ASSUME NEW o \in Ids, NEW m \in Ids, NEW s \in Ids, NEW h \in Ids,
           Dist(o, m) < Dist(o, h), Dist(m, s) < Dist(m, h), s # m
    PROVE  s # o /\ Dist(o, s) < Dist(o, h)
  BY RingAssumption DEF Ids, Dist

----------------------------------------------------------------------------
(* Lookups.                                                                 *)

\* A node exists, so the place an idle client points to is a node.
LEMMA AnyNodeType == AnyNode \in Nodes
  BY RingAssumption DEF AnyNode

\* The answers given by process_packet() are well formed: a redirect names a
\* node (Respond, webserver.c's 303 answers).
LEMMA RespondType ==
    ASSUME TypeOK, NEW c \in Clients, request[c] # NoRequest,
           NEW s \in {200, 201, 204, 303, 404, 501, 503},
           NEW l \in Nodes \cup {NoPeer}, s = 303 => l \in Nodes,
           NEW b \in Values \cup {NoValue},
           Respond(c, s, l, b), UNCHANGED request
    PROVE  /\ answer' \in [Clients -> Answers]
           /\ \A x \in Clients : answer'[x].status = 303 => answer'[x].location \in Nodes
           /\ \A x \in Clients : answer'[x] # NoAnswer => request'[x] # NoRequest
<1>1. [status |-> s, location |-> l, body |-> b] \in Answers
  BY DEF Answers
<1>2. \A x \in Clients :
          answer'[x] = IF x = c THEN [status |-> s, location |-> l, body |-> b]
                                ELSE answer[x]
  BY DEF Respond, TypeOK
<1>3. answer' \in [Clients -> Answers]
  BY <1>1 DEF Respond, TypeOK
<1> QED
  BY <1>2, <1>3 DEF TypeOK

\* Handling one datagram of a known type keeps the network well typed.
LEMMA ReceiveType ==
    ASSUME TypeOK, NEW d \in udp, NEW out \in SUBSET Datagrams, Receive(d, out)
    PROVE  /\ udp' \subseteq Datagrams
           /\ udp' \subseteq udp \cup out
           /\ faults' \in 0 .. MaxFaults
  BY DataAssumption DEF Receive, TypeOK

\* The lookup is answered or passed on in one well-formed datagram.
LEMMA LookupResultType ==
    ASSUME NEW d \in Datagrams, d.flags = LOOKUP
    PROVE  LookupResult(d.to, d) \in Datagrams
<1>1. /\ d.to \in Nodes /\ d.peer \in Nodes /\ d.id \in Ids
      /\ d = [flags |-> d.flags, id |-> d.id, peer |-> d.peer, to |-> d.to]
  BY DEF Datagrams
<1>2. /\ Succ[d.to] \in Nodes
      /\ Pred[d.to] \in Ids /\ d.to \in Ids
  BY <1>1, RingFacts
<1>3. Reply(d, Pred[d.to], d.to) \in Datagrams
  BY <1>1, <1>2 DEF Reply, REPLY, Datagrams
<1>4. Reply(d, d.to, Succ[d.to]) \in Datagrams
  BY <1>1, <1>2 DEF Reply, REPLY, Datagrams
<1>5. [d EXCEPT !.to = Succ[d.to]] \in Datagrams
  BY <1>1, <1>2 DEF LOOKUP, Datagrams
<1> QED
  BY <1>3, <1>4, <1>5 DEF LookupResult

----------------------------------------------------------------------------
\* The variables keep their types, and an answer exists only for a request.
LEMMA TypeInit == Init => TypeOK
<1> SUFFICES ASSUME Init PROVE TypeOK
  OBVIOUS
<1>1. NoAnswer \in Answers /\ NoAnswer.status = 0
  BY DEF NoAnswer, Answers
<1>2. 0 \in Ids
  BY RingAssumption DEF Ids
<1> QED
  BY <1>1, <1>2, AnyNodeType, DataAssumption DEF Init, TypeOK

\* What one client may ask for is one of the requests of the clients.
LEMMA IssuedRequests == \A c \in Clients : RequestsOf[c] \subseteq Requests
  BY DEF Requests

\* What a client does (ask, retry after 503, follow a 303, finish) keeps the types.
LEMMA TypeClient ==
    ASSUME TypeOK, NEW c \in Clients, Client(c)
    PROVE  TypeOK'
<1>0. NoAnswer \in Answers /\ NoAnswer.status = 0
  BY DEF NoAnswer, Answers
<1>1. CASE Issue(c)
  <2>1. PICK r \in RequestsOf[c] : request' = [request EXCEPT ![c] = r]
    BY <1>1 DEF Issue
  <2>2. r \in Requests /\ r # NoRequest
    BY IssuedRequests, DataAssumption
  <2> QED
    BY <1>1, <2>1, <2>2, DataAssumption DEF Issue, TypeOK, cache
<1>2. ASSUME NEW n \in Nodes, Resend(c, n)
      PROVE  TypeOK'
  BY <1>0, <1>2 DEF Resend, TypeOK, cache
<1>3. CASE Retry(c)
  BY <1>2, <1>3 DEF Retry, TypeOK
<1>4. CASE Follow(c)
  BY <1>2, <1>4 DEF Follow, TypeOK
<1>5. CASE Finish(c)
  BY <1>0, <1>5, AnyNodeType DEF Finish, TypeOK, cache
<1> QED
  BY <1>1, <1>3, <1>4, <1>5 DEF Client

\* Serving a request from the node's own table, send_reply(), keeps the types.
LEMMA TypeServe ==
    ASSUME TypeOK, NEW c \in Clients, request[c] # NoRequest, send_reply(c),
           UNCHANGED <<request, at, issued, faults>>
    PROVE  TypeOK'
<1> DEFINE n == at[c]
           k == request[c].key
           AnswerTyped ==
               /\ answer' \in [Clients -> Answers]
               /\ \A x \in Clients : answer'[x].status = 303 => answer'[x].location \in Nodes
               /\ \A x \in Clients : answer'[x] # NoAnswer => request'[x] # NoRequest
           ResourcesTyped == resources' \in [Nodes -> [Keys -> Values \cup {NoValue}]]
<1>1. n \in Nodes /\ k \in Keys /\ request[c].value \in Values
  BY DataAssumption DEF TypeOK
<1>2. UNCHANGED <<have_reply, reply_peer, reply_prev_id, udp, request, at, issued, faults>>
  BY DEF send_reply, cache
<1>3. resources[n][k] \in Values \cup {NoValue}
  BY <1>1 DEF TypeOK
<1> HIDE DEF n, k, AnswerTyped, ResourcesTyped
<1>4. ASSUME NEW s \in {200, 201, 204, 404, 501}, NEW b \in Values \cup {NoValue},
             Respond(c, s, NoPeer, b)
      PROVE  AnswerTyped
  <2>1. s \in {200, 201, 204, 303, 404, 501, 503} /\ s # 303 /\ NoPeer \in Nodes \cup {NoPeer}
    OBVIOUS
  <2> QED
    BY <1>2, <1>4, <2>1, RespondType DEF AnswerTyped
<1>5. ASSUME get(c, n, k)
      PROVE  AnswerTyped /\ ResourcesTyped
  <2>1. Respond(c, 200, NoPeer, resources[n][k]) \/ Respond(c, 404, NoPeer, NoValue)
    BY <1>5 DEF get
  <2>2. AnswerTyped
    BY <1>3, <1>4, <2>1
  <2> QED
    BY <1>5, <2>2 DEF get, TypeOK, ResourcesTyped
<1>6. ASSUME set(c, n, k)
      PROVE  AnswerTyped /\ ResourcesTyped
  <2>1. Respond(c, 204, NoPeer, NoValue) \/ Respond(c, 201, NoPeer, NoValue)
    BY <1>6 DEF set
  <2>2. AnswerTyped
    BY <1>4, <2>1
  <2>3. ResourcesTyped
    <3>1. \/ resources' = [resources EXCEPT ![n][k] = request[c].value]
          \/ resources' = resources
      BY <1>6 DEF set
    <3>2. ASSUME NEW v \in Values, resources' = [resources EXCEPT ![n][k] = v]
          PROVE  ResourcesTyped
      BY <1>1, <3>2 DEF TypeOK, ResourcesTyped
    <3>3. CASE resources' = resources
      BY <3>3 DEF TypeOK, ResourcesTyped
    <3> QED
      BY <1>1, <3>1, <3>2, <3>3
  <2> QED
    BY <2>2, <2>3
<1>7. ASSUME delete(c, n, k)
      PROVE  AnswerTyped /\ ResourcesTyped
  <2>1. Respond(c, 204, NoPeer, NoValue) \/ Respond(c, 404, NoPeer, NoValue)
    BY <1>7 DEF delete
  <2>2. AnswerTyped
    BY <1>4, <2>1
  <2>3. ResourcesTyped
    BY <1>1, <1>7 DEF delete, TypeOK, ResourcesTyped
  <2> QED
    BY <2>2, <2>3
<1>8. ASSUME not_supported(c)
      PROVE  AnswerTyped /\ ResourcesTyped
  BY <1>4, <1>8 DEF not_supported, TypeOK, ResourcesTyped
<1>9. AnswerTyped /\ ResourcesTyped
  BY <1>5, <1>6, <1>7, <1>8 DEF send_reply, n, k
<1> QED
  BY <1>2, <1>9 DEF TypeOK, AnswerTyped, ResourcesTyped

\* Every branch of process_packet() keeps the types.
LEMMA TypePacket ==
    ASSUME TypeOK, NEW c \in Clients, process_packet(c)
    PROVE  TypeOK'
<1> DEFINE n == at[c]
           h == Hash[request[c].key]
           AnswerTyped ==
               /\ answer' \in [Clients -> Answers]
               /\ \A x \in Clients : answer'[x].status = 303 => answer'[x].location \in Nodes
               /\ \A x \in Clients : answer'[x] # NoAnswer => request'[x] # NoRequest
<1>1. request[c] # NoRequest /\ UNCHANGED <<request, at, issued, faults>>
  BY DEF process_packet
<1>2. /\ n \in Nodes /\ h \in Ids
      /\ Succ[n] \in Nodes /\ Succ[n] \in Ids /\ n \in Ids
  BY <1>1, DataAssumption, RingFacts DEF TypeOK
<1>3. \/ send_reply(c) \/ send_redirect(c) \/ redirect_from_cache(c)
      \/ store_local_reply(c, h) \/ send_lookup(c, h)
  BY DEF process_packet
<1> HIDE DEF n, h, AnswerTyped
<1>4. ASSUME Respond(c, 503, NoPeer, NoValue)
      PROVE  AnswerTyped
  BY <1>1, <1>4, RespondType DEF AnswerTyped
<1>5. ASSUME NEW l \in Nodes, Respond(c, 303, l, NoValue)
      PROVE  AnswerTyped
  BY <1>1, <1>5, RespondType DEF AnswerTyped
<1>6. CASE send_reply(c)
  BY <1>1, <1>6, TypeServe
<1>7. CASE send_redirect(c)
  BY <1>1, <1>2, <1>5, <1>7 DEF send_redirect, TypeOK, cache, AnswerTyped, n
<1>8. CASE redirect_from_cache(c)
  <2>1. AnswerTyped
    BY <1>2, <1>5, <1>8 DEF redirect_from_cache, TypeOK, n
  <2> QED
    BY <1>1, <1>8, <2>1 DEF redirect_from_cache, TypeOK, AnswerTyped
<1>9. CASE store_local_reply(c, h)
  <2>1. AnswerTyped
    BY <1>4, <1>9 DEF store_local_reply
  <2> QED
    BY <1>1, <1>2, <1>9, <2>1 DEF store_local_reply, TypeOK, AnswerTyped, n
<1>10. CASE send_lookup(c, h)
  <2>1. AnswerTyped
    BY <1>4, <1>10 DEF send_lookup
  <2>2. udp' \subseteq Datagrams
    BY <1>2, <1>10 DEF send_lookup, TypeOK, Datagrams, LOOKUP, n
  <2> QED
    BY <1>1, <1>10, <2>1, <2>2 DEF send_lookup, TypeOK, AnswerTyped, cache
<1> QED
  BY <1>3, <1>6, <1>7, <1>8, <1>9, <1>10

\* One datagram handled by handle_udp_socket() keeps the types.
LEMMA TypeUdp ==
    ASSUME TypeOK, NEW d \in udp, handle_udp_socket(d)
    PROVE  TypeOK'
<1>1. d \in Datagrams /\ d.to \in Nodes /\ d.peer \in Nodes /\ d.id \in Ids
  BY DEF TypeOK, Datagrams
<1>2. UNCHANGED <<resources, request, at, answer, issued>>
  BY DEF handle_udp_socket
<1>3. CASE HandleLookup(d)
  <2>1. LookupResult(d.to, d) \in Datagrams
    BY <1>1, <1>3, LookupResultType DEF HandleLookup
  <2>2. udp' \subseteq Datagrams /\ faults' \in 0 .. MaxFaults
    BY <1>3, <2>1, ReceiveType DEF HandleLookup
  <2> QED
    BY <1>2, <1>3, <2>2 DEF HandleLookup, TypeOK, cache
<1>4. CASE HandleReply(d)
  <2>1. udp' \subseteq Datagrams /\ faults' \in 0 .. MaxFaults
    BY <1>4, ReceiveType DEF HandleReply
  <2> QED
    BY <1>1, <1>2, <1>4, <2>1 DEF HandleReply, TypeOK
<1>5. CASE IgnoreUnknown(d)
  <2>1. udp' \subseteq Datagrams /\ faults' \in 0 .. MaxFaults
    BY <1>5, ReceiveType DEF IgnoreUnknown
  <2> QED
    BY <1>2, <1>5, <2>1 DEF IgnoreUnknown, TypeOK, cache
<1> QED
  BY <1>3, <1>4, <1>5 DEF handle_udp_socket

\* Every step of a node, a client or the network keeps the types.
LEMMA TypeStep == TypeOK /\ [Next]_vars => TypeOK'
<1> SUFFICES ASSUME TypeOK, [Next]_vars
             PROVE  TypeOK'
  OBVIOUS
<1>1. ASSUME NEW c \in Clients, Client(c)
      PROVE  TypeOK'
  BY <1>1, TypeClient
<1>2. ASSUME NEW c \in Clients, process_packet(c)
      PROVE  TypeOK'
  BY <1>2, TypePacket
<1>3. ASSUME NEW d \in udp, handle_udp_socket(d)
      PROVE  TypeOK'
  BY <1>3, TypeUdp
<1>4. ASSUME NEW d \in udp, Lose(d)
      PROVE  TypeOK'
  BY <1>4, DataAssumption DEF Lose, TypeOK, cache
<1>5. ASSUME NEW d \in ForeignMsgs, Inject(d)
      PROVE  TypeOK'
  BY <1>5, DataAssumption DEF Inject, TypeOK, cache
<1>6. CASE UNCHANGED vars
  BY <1>6 DEF vars, TypeOK
<1> QED
  BY <1>1, <1>2, <1>3, <1>4, <1>5, <1>6 DEF Next

\* Every reachable state is well typed; in particular a filled cache and a
\* 303 answer always name a node of the ring.
THEOREM TypeCorrect == Spec => []TypeOK
  BY TypeInit, TypeStep, PTL DEF Spec

----------------------------------------------------------------------------
(* Who serves and who stores.  Nothing is assumed of the datagrams: stale,  *)
(* duplicated and foreign replies send clients astray, but no further.      *)

\* A final answer is given by process_packet() in its `responsible` branch.
LEMMA FinalAnswerStep ==
    ASSUME NoZeroPair, TypeOK, NEW c \in Clients, process_packet(c),
           Final(answer'[c])
    PROVE  Owns(at[c], Hash[request[c].key])
<1>1. /\ at[c] \in Nodes
      /\ Hash[request[c].key] \in Ids
  BY DataAssumption DEF process_packet, TypeOK
<1>2. ~send_redirect(c) /\ ~redirect_from_cache(c)
  BY DEF send_redirect, redirect_from_cache, Respond, Final, TypeOK
<1>3. ASSUME NEW h PROVE ~store_local_reply(c, h) /\ ~send_lookup(c, h)
  BY DEF store_local_reply, send_lookup, Respond, Final, TypeOK
<1>4. responsible(at[c], Hash[request[c].key])
  BY <1>2, <1>3 DEF process_packet
<1> QED
  BY <1>1, <1>4, ServesOwnKeysOnly

\* Only the answer of client c changes in a step that concerns it.
LEMMA OtherAnswers ==
    ASSUME TypeOK, NEW c \in Clients, process_packet(c),
           NEW x \in Clients \ {c}
    PROVE  answer'[x] = answer[x]
  BY DEF process_packet, send_reply, get, set, delete, not_supported, send_redirect,
         redirect_from_cache, store_local_reply, send_lookup, Respond, TypeOK

\* No step lets another node than the owner have given a final answer.
LEMMA ServedByOwnerStep ==
    ASSUME NoZeroPair, TypeOK, ServedByOwner, [Next]_vars
    PROVE  ServedByOwner'
<1>1. ASSUME NEW c \in Clients, Client(c)
      PROVE  ServedByOwner'
  BY <1>1 DEF Client, Issue, Retry, Follow, Resend, Finish, ServedByOwner, TypeOK,
              Final, NoAnswer
<1>2. ASSUME NEW c \in Clients, process_packet(c)
      PROVE  ServedByOwner'
  <2>1. UNCHANGED <<at, request>>
    BY <1>2 DEF process_packet
  <2>2. SUFFICES ASSUME NEW x \in Clients, Final(answer'[x])
                 PROVE  Owns(at[x], Hash[request[x].key])
    BY <2>1 DEF ServedByOwner, Final
  <2>3. CASE x = c
    BY <1>2, <2>2, <2>3, FinalAnswerStep
  <2>4. CASE x # c
    BY <1>2, <2>2, <2>4, OtherAnswers DEF ServedByOwner, Final
  <2> QED
    BY <2>3, <2>4
<1>3. ASSUME NEW d \in udp, handle_udp_socket(d)
      PROVE  ServedByOwner'
  BY <1>3 DEF handle_udp_socket, ServedByOwner, Final
<1>4. ASSUME NEW d, Lose(d) \/ Inject(d)
      PROVE  ServedByOwner'
  BY <1>4 DEF Lose, Inject, ServedByOwner, Final
<1>5. CASE UNCHANGED vars
  BY <1>5 DEF vars, ServedByOwner, Final
<1> QED
  BY <1>1, <1>2, <1>3, <1>4, <1>5 DEF Next

\* In every ring whose configuration is not mistaken for a missing one, only
\* the owner of a key's hash ever gives a final answer about it.
THEOREM OwnerServes ==
    ASSUME NoZeroPair
    PROVE  Spec => []ServedByOwner
<1>1. Init => ServedByOwner
  BY DEF Init, ServedByOwner, Final, NoAnswer
<1>2. TypeOK /\ ServedByOwner /\ [Next]_vars => ServedByOwner'
  BY ServedByOwnerStep
<1> QED
  BY <1>1, <1>2, TypeCorrect, PTL DEF Spec

\* A table only changes at the node serving a PUT or DELETE, in one key.
LEMMA TableStep ==
    ASSUME NoZeroPair, TypeOK, NEW c \in Clients, process_packet(c),
           NEW n \in Nodes, NEW k \in Keys,
           resources'[n][k] # resources[n][k]
    PROVE  Owns(n, Hash[k])
<1>1. /\ at[c] \in Nodes
      /\ request[c].key \in Keys
      /\ Hash[request[c].key] \in Ids
  BY DataAssumption DEF process_packet, TypeOK
<1>2. ~send_redirect(c) /\ ~redirect_from_cache(c)
  BY DEF send_redirect, redirect_from_cache
<1>3. ASSUME NEW h PROVE ~store_local_reply(c, h) /\ ~send_lookup(c, h)
  BY DEF store_local_reply, send_lookup
<1>4. responsible(at[c], Hash[request[c].key]) /\ send_reply(c)
  BY <1>2, <1>3 DEF process_packet
<1>5. PICK v : resources' = [resources EXCEPT ![at[c]][request[c].key] = v]
  BY <1>4 DEF send_reply, get, set, delete, not_supported
<1>6. n = at[c] /\ k = request[c].key
  BY <1>1, <1>5 DEF TypeOK
<1> QED
  BY <1>1, <1>4, <1>6, ServesOwnKeysOnly

\* No step leaves a client's resource at another node than its owner: only
\* send_reply() at a responsible node writes a table.
LEMMA DataAtOwnerStep ==
    ASSUME NoZeroPair, TypeOK, DataAtOwner, [Next]_vars
    PROVE  DataAtOwner'
<1>1. CASE UNCHANGED resources
  BY <1>1 DEF DataAtOwner
<1>2. ASSUME NEW c \in Clients, process_packet(c)
      PROVE  DataAtOwner'
  BY <1>2, TableStep DEF DataAtOwner
<1> QED
  BY <1>1, <1>2 DEF Next, vars, Client, Issue, Retry, Follow, Resend, Finish,
                    handle_udp_socket, Lose, Inject

\* Under the same hypothesis what clients put is stored at the owner only.
THEOREM OwnerStores ==
    ASSUME NoZeroPair
    PROVE  Spec => []DataAtOwner
<1>1. Init => DataAtOwner
  BY DEF Init, DataAtOwner, StaticKeys
<1>2. TypeOK /\ DataAtOwner /\ [Next]_vars => DataAtOwner'
  BY DataAtOwnerStep
<1> QED
  BY <1>1, <1>2, TypeCorrect, PTL DEF Spec

----------------------------------------------------------------------------
(* How lookups travel, in a ring all of whose members run this program.     *)

\* What LookupBeforeOwner says of one lookup.
ShortOfOwner(d) ==
    /\ ~Owns(d.peer, d.id)
    /\ d.peer # d.to
    /\ Dist(d.peer, d.to) < Dist(d.peer, d.id)

\* A lookup leaves its origin for a node short of the owner (send_lookup).
LEMMA SentShort ==
    ASSUME NEW n \in Nodes, NEW h \in Ids, ~responsible(n, h),
           ~is_responsible(h, Succ[n], n)
    PROVE  ShortOfOwner([flags |-> LOOKUP, id |-> h, peer |-> n, to |-> Succ[n]])
<1>1. ~is_responsible(h, n, Pred[n]) /\ ~single_node(n)
  BY DEF responsible
<1>2. ~Owns(n, h)
  BY <1>1, ResponsibleIsOwner
<1>3. n # Succ[n]
  BY <1>1, RingFacts DEF single_node
<1>4. Dist(n, Succ[n]) < Dist(n, h)
  BY <1>1, SuccessorShortOfHash
<1> QED
  BY <1>2, <1>3, <1>4 DEF ShortOfOwner

\* A forwarded lookup is again short of the owner (the last branch of the
\* LOOKUP case of handle_udp_socket()).
LEMMA ForwardedShort ==
    ASSUME NEW d \in Datagrams, ShortOfOwner(d),
           ~is_responsible(d.id, d.to, Pred[d.to]),
           ~is_responsible(d.id, Succ[d.to], d.to)
    PROVE  ShortOfOwner([d EXCEPT !.to = Succ[d.to]])
<1> DEFINE m == d.to
           e == [d EXCEPT !.to = Succ[m]]
<1>1. /\ m \in Nodes /\ d.peer \in Nodes /\ d.id \in Ids
      /\ e.peer = d.peer /\ e.id = d.id /\ e.to = Succ[m]
  BY DEF Datagrams
<1>2. m \in Ids /\ d.peer \in Ids /\ Succ[m] \in Ids
  BY <1>1, RingFacts
<1>3. Dist(m, Succ[m]) < Dist(m, d.id)
  BY <1>1, SuccessorShortOfHash
<1>4. Succ[m] # m
  <2>1. is_responsible(d.id, m, m)
    BY <1>1, <1>2, ResponsibleInterval
  <2> QED
    BY <2>1
<1>5. Succ[m] # d.peer /\ Dist(d.peer, Succ[m]) < Dist(d.peer, d.id)
  BY <1>1, <1>2, <1>3, <1>4, HopStaysShort DEF ShortOfOwner
<1> QED
  BY <1>1, <1>5 DEF ShortOfOwner

\* Sending, forwarding, losing and keeping datagrams leaves every lookup short
\* of the owner of its hash.
LEMMA LookupStep ==
    ASSUME ForeignMsgs = {}, TypeOK, LookupBeforeOwner, [Next]_vars
    PROVE  LookupBeforeOwner'
<1>1. CASE udp' \subseteq udp
  BY <1>1 DEF LookupBeforeOwner
<1>2. ASSUME NEW c \in Clients, process_packet(c)
      PROVE  LookupBeforeOwner'
  <2> DEFINE n == at[c]
             h == Hash[request[c].key]
  <2>1. n \in Nodes /\ h \in Ids
    BY <1>2, DataAssumption DEF process_packet, TypeOK
  <2>2. \/ udp' = udp
        \/ ~responsible(n, h) /\ send_lookup(c, h)
    BY <1>2 DEF process_packet, send_reply, send_redirect, redirect_from_cache,
                store_local_reply
  <2> HIDE DEF h
  <2>3. CASE ~responsible(n, h) /\ send_lookup(c, h)
    BY <2>1, <2>3, SentShort DEF send_lookup, LookupBeforeOwner, ShortOfOwner
  <2> QED
    BY <1>1, <2>2, <2>3
<1>3. ASSUME NEW d \in udp, handle_udp_socket(d)
      PROVE  LookupBeforeOwner'
  <2>1. d \in Datagrams
    BY DEF TypeOK
  <2>2. CASE HandleLookup(d)
    <3>1. ShortOfOwner(d)
      BY <2>2 DEF HandleLookup, LookupBeforeOwner, ShortOfOwner
    <3>2. LET e == LookupResult(d.to, d)
          IN  e.flags = LOOKUP => ShortOfOwner(e)
      BY <2>1, <3>1, ForwardedShort DEF LookupResult, Reply, REPLY, LOOKUP
    <3>3. udp' \subseteq udp \cup {LookupResult(d.to, d)}
      BY <2>2 DEF HandleLookup, Receive
    <3> QED
      BY <3>2, <3>3 DEF LookupBeforeOwner, ShortOfOwner
  <2>3. CASE HandleReply(d) \/ IgnoreUnknown(d)
    BY <1>1, <2>3 DEF HandleReply, IgnoreUnknown, Receive
  <2> QED
    BY <1>3, <2>2, <2>3 DEF handle_udp_socket
<1>4. ASSUME NEW d, Lose(d)
      PROVE  LookupBeforeOwner'
  BY <1>1, <1>4 DEF Lose
<1>5. ASSUME NEW c \in Clients, Client(c)
      PROVE  LookupBeforeOwner'
  BY <1>1, <1>5 DEF Client, Issue, Retry, Follow, Resend, Finish
<1> QED
  BY <1>1, <1>2, <1>3, <1>4, <1>5 DEF Next, vars

\* In a ring of this program's nodes a lookup never reaches the owner of its
\* hash nor returns to its origin, however often it is duplicated.
THEOREM LookupsStopShort ==
    ASSUME ForeignMsgs = {}
    PROVE  Spec => []LookupBeforeOwner
<1>1. Init => LookupBeforeOwner
  BY DEF Init, LookupBeforeOwner
<1>2. TypeOK /\ LookupBeforeOwner /\ [Next]_vars => LookupBeforeOwner'
  BY LookupStep
<1> QED
  BY <1>1, <1>2, TypeCorrect, PTL DEF Spec

----------------------------------------------------------------------------
(* What replies say, in a ring all of whose members run this program.       *)

\* Replies made by either branch of handle_udp_socket(), and the cache filled
\* from them or by process_packet(), name a node and its predecessor.
LEMMA ReplyIntervalStep ==
    ASSUME ForeignMsgs = {}, TypeOK, ReplyNamesInterval, [Next]_vars
    PROVE  ReplyNamesInterval'
<1>1. CASE udp' \subseteq udp /\ UNCHANGED cache
  BY <1>1 DEF ReplyNamesInterval, cache
<1>2. ASSUME NEW c \in Clients, process_packet(c)
      PROVE  ReplyNamesInterval'
  <2> DEFINE n == at[c]
             h == Hash[request[c].key]
  <2>1. n \in Nodes /\ Pred[Succ[n]] = n
    BY <1>2, RingFacts DEF process_packet, TypeOK
  <2>2. \/ UNCHANGED <<udp, cache>>
        \/ redirect_from_cache(c) \/ store_local_reply(c, h) \/ send_lookup(c, h)
    BY <1>2 DEF process_packet, send_reply, send_redirect
  <2> HIDE DEF h
  <2>3. CASE redirect_from_cache(c)
    BY <2>3 DEF redirect_from_cache, ReplyNamesInterval, TypeOK
  <2>4. CASE store_local_reply(c, h)
    BY <2>1, <2>4 DEF store_local_reply, ReplyNamesInterval, TypeOK
  <2>5. CASE send_lookup(c, h)
    BY <2>5 DEF send_lookup, ReplyNamesInterval, cache, LOOKUP, REPLY
  <2> QED
    BY <1>1, <2>2, <2>3, <2>4, <2>5
<1>3. ASSUME NEW d \in udp, handle_udp_socket(d)
      PROVE  ReplyNamesInterval'
  <2>1. d \in Datagrams /\ d.to \in Nodes
    BY DEF TypeOK, Datagrams
  <2>2. CASE HandleLookup(d)
    <3>1. Pred[Succ[d.to]] = d.to
      BY <2>1, RingFacts
    <3>2. LET e == LookupResult(d.to, d)
          IN  e.flags = REPLY => e.id = Pred[e.peer]
      <4>1. CASE is_responsible(d.id, d.to, Pred[d.to])
        BY <4>1 DEF LookupResult, Reply
      <4>2. CASE ~is_responsible(d.id, d.to, Pred[d.to])
                 /\ is_responsible(d.id, Succ[d.to], d.to)
        BY <3>1, <4>2 DEF LookupResult, Reply
      <4>3. CASE ~is_responsible(d.id, d.to, Pred[d.to])
                 /\ ~is_responsible(d.id, Succ[d.to], d.to)
        BY <2>1, <2>2, <4>3 DEF HandleLookup, LookupResult, Datagrams, LOOKUP, REPLY
      <4> QED
        BY <4>1, <4>2, <4>3
    <3>3. udp' \subseteq udp \cup {LookupResult(d.to, d)} /\ UNCHANGED cache
      BY <2>2 DEF HandleLookup, Receive
    <3> QED
      BY <3>2, <3>3 DEF ReplyNamesInterval, cache
  <2>3. CASE HandleReply(d)
    <3>1. d.id = Pred[d.peer]
      BY <2>3 DEF HandleReply, ReplyNamesInterval
    <3>2. udp' \subseteq udp
      BY <2>3 DEF HandleReply, Receive
    <3> QED
      BY <2>1, <2>3, <3>1, <3>2 DEF HandleReply, ReplyNamesInterval, TypeOK
  <2>4. CASE IgnoreUnknown(d)
    BY <1>1, <2>4 DEF IgnoreUnknown, Receive
  <2> QED
    BY <1>3, <2>2, <2>3, <2>4 DEF handle_udp_socket
<1>4. ASSUME NEW d, Lose(d)
      PROVE  ReplyNamesInterval'
  BY <1>1, <1>4 DEF Lose
<1>5. ASSUME NEW c \in Clients, Client(c)
      PROVE  ReplyNamesInterval'
  BY <1>1, <1>5 DEF Client, Issue, Retry, Follow, Resend, Finish
<1> QED
  BY <1>1, <1>2, <1>3, <1>4, <1>5 DEF Next, vars, cache

\* Every reply, in flight or cached, names a node and its own predecessor, so
\* the interval it gives is the one the node is responsible for.
THEOREM RepliesNameIntervals ==
    ASSUME ForeignMsgs = {}
    PROVE  Spec => []ReplyNamesInterval
<1>1. Init => ReplyNamesInterval
  BY DEF Init, ReplyNamesInterval
<1>2. TypeOK /\ ReplyNamesInterval /\ [Next]_vars => ReplyNamesInterval'
  BY ReplyIntervalStep
<1> QED
  BY <1>1, <1>2, TypeCorrect, PTL DEF Spec

\* The reply to a lookup short of the owner names another node than its origin.
LEMMA ReplyNamesAnother ==
    ASSUME NEW d \in Datagrams, ShortOfOwner(d),
           LookupResult(d.to, d).flags = REPLY, d.flags = LOOKUP
    PROVE  LookupResult(d.to, d).peer # LookupResult(d.to, d).to
<1>1. d.to \in Nodes /\ d.peer \in Nodes /\ d.id \in Ids
  BY DEF Datagrams
<1>2. CASE is_responsible(d.id, d.to, Pred[d.to])
  BY <1>2 DEF LookupResult, Reply, ShortOfOwner
<1>3. CASE /\ ~is_responsible(d.id, d.to, Pred[d.to])
           /\ is_responsible(d.id, Succ[d.to], d.to)
  <2>1. ASSUME Succ[d.to] = d.peer
        PROVE  Owns(d.peer, d.id)
    BY <1>1, <1>3, <2>1, RingFacts, ResponsibleIsOwner
  <2> QED
    BY <1>3, <2>1 DEF LookupResult, Reply, ShortOfOwner
<1>4. CASE /\ ~is_responsible(d.id, d.to, Pred[d.to])
           /\ ~is_responsible(d.id, Succ[d.to], d.to)
  <2>1. LookupResult(d.to, d).flags = LOOKUP
    BY <1>4 DEF LookupResult, Datagrams
  <2> QED
    BY <2>1 DEF LOOKUP, REPLY
<1> QED
  BY <1>2, <1>3, <1>4

\* No step makes a node redirect a client to itself, cache itself or be sent a
\* reply naming itself.
LEMMA NoSelfRedirectStep ==
    ASSUME ForeignMsgs = {}, TypeOK, LookupBeforeOwner, NoSelfRedirect, [Next]_vars
    PROVE  NoSelfRedirect'
<1>1. CASE udp' \subseteq udp /\ UNCHANGED <<cache, at, answer>>
  BY <1>1 DEF NoSelfRedirect, cache
<1>2. ASSUME NEW c \in Clients, process_packet(c)
      PROVE  NoSelfRedirect'
  <2> DEFINE n == at[c]
             h == Hash[request[c].key]
  <2>1. n \in Nodes /\ UNCHANGED at
    BY <1>2 DEF process_packet, TypeOK
  <2>2. \/ send_reply(c)
        \/ ~responsible(n, h) /\ (\/ send_redirect(c) \/ redirect_from_cache(c)
                                  \/ store_local_reply(c, h) \/ send_lookup(c, h))
    BY <1>2 DEF process_packet
  <2>3. ~responsible(n, h) => Succ[n] # n
    BY <2>1, RingFacts DEF responsible, single_node
  <2> HIDE DEF h
  <2>4. ASSUME answer'[c].status = 303
        PROVE  answer'[c].location # at[c]
    <3>1. \/ ~responsible(n, h) /\ send_redirect(c)
          \/ redirect_from_cache(c)
      BY <2>2, <2>4 DEF send_reply, get, set, delete, not_supported, Respond,
                        store_local_reply, send_lookup, TypeOK
    <3> QED
      BY <2>1, <2>3, <3>1 DEF send_redirect, redirect_from_cache, Respond,
                              NoSelfRedirect, TypeOK
  <2>5. \A x \in Nodes : have_reply'[x] => reply_peer'[x] # x
    BY ZenonT(40), <2>1, <2>2, <2>3 DEF send_reply, send_redirect, redirect_from_cache,
          store_local_reply, send_lookup, NoSelfRedirect, TypeOK, cache
  <2>6. \A d \in udp' : d.flags = REPLY => d.peer # d.to
    BY <2>2 DEF send_reply, send_redirect, redirect_from_cache,
          store_local_reply, send_lookup, NoSelfRedirect, LOOKUP, REPLY
  <2>7. \A x \in Clients : answer'[x].status = 303 => answer'[x].location # at[x]
    BY <1>2, <2>4, OtherAnswers DEF NoSelfRedirect
  <2> QED
    BY <2>1, <2>5, <2>6, <2>7 DEF NoSelfRedirect
<1>3. ASSUME NEW d \in udp, handle_udp_socket(d)
      PROVE  NoSelfRedirect'
  <2>1. d \in Datagrams /\ d.to \in Nodes /\ UNCHANGED <<at, answer>>
    BY <1>3 DEF handle_udp_socket, TypeOK, Datagrams
  <2>2. CASE HandleLookup(d)
    <3>1. ShortOfOwner(d) /\ d.flags = LOOKUP
      BY <2>2 DEF HandleLookup, LookupBeforeOwner, ShortOfOwner
    <3>2. LET e == LookupResult(d.to, d)
          IN  e.flags = REPLY => e.peer # e.to
      BY <2>1, <3>1, ReplyNamesAnother
    <3>3. udp' \subseteq udp \cup {LookupResult(d.to, d)} /\ UNCHANGED cache
      BY <2>2 DEF HandleLookup, Receive
    <3> QED
      BY <2>1, <3>2, <3>3 DEF NoSelfRedirect, cache
  <2>3. CASE HandleReply(d)
    <3>1. d.peer # d.to
      BY <2>3 DEF HandleReply, NoSelfRedirect
    <3>2. udp' \subseteq udp
      BY <2>3 DEF HandleReply, Receive
    <3> QED
      BY <2>1, <2>3, <3>1, <3>2 DEF HandleReply, NoSelfRedirect, TypeOK
  <2>4. CASE IgnoreUnknown(d)
    BY <1>1, <2>1, <2>4 DEF IgnoreUnknown, Receive
  <2> QED
    BY <1>3, <2>2, <2>3, <2>4 DEF handle_udp_socket
<1>4. ASSUME NEW d, Lose(d)
      PROVE  NoSelfRedirect'
  BY <1>1, <1>4 DEF Lose
<1>5. ASSUME NEW c \in Clients, Client(c)
      PROVE  NoSelfRedirect'
  <2>1. UNCHANGED <<udp, cache>>
    BY <1>5 DEF Client, Issue, Retry, Follow, Resend, Finish
  <2>2. ASSUME NEW x \in Clients, answer'[x].status = 303
        PROVE  answer'[x].location # at'[x]
    BY <1>5, <2>2 DEF Client, Issue, Retry, Follow, Resend, Finish, NoAnswer,
                      NoSelfRedirect, TypeOK
  <2> QED
    BY <2>1, <2>2 DEF NoSelfRedirect, cache
<1> QED
  BY <1>1, <1>2, <1>3, <1>4, <1>5 DEF Next, vars, cache

\* No node redirects a client to itself, whatever stale reply it finds in its
\* cache: it never waits for a reply that names it.
THEOREM NeverRedirectsToSelf ==
    ASSUME ForeignMsgs = {}
    PROVE  Spec => []NoSelfRedirect
<1>1. Init => NoSelfRedirect
  BY DEF Init, NoSelfRedirect, NoAnswer
<1>2. TypeOK /\ LookupBeforeOwner /\ NoSelfRedirect /\ [Next]_vars => NoSelfRedirect'
  BY NoSelfRedirectStep
<1> QED
  BY <1>1, <1>2, TypeCorrect, LookupsStopShort, PTL DEF Spec

----------------------------------------------------------------------------
(* What clients may rely on: the ring is one dictionary, and rings of one   *)
(* or two nodes need neither lookups nor the reply cache.                   *)

\* Three different nodes are more than two.
LEMMA ThreeNodes ==
    ASSUME NEW a \in Nodes, NEW b \in Nodes, NEW c \in Nodes,
           a # b, a # c, b # c
    PROVE  ~(Cardinality(Nodes) <= 2)
<1> DEFINE Three == ({a} \cup {b}) \cup {c}
<1>1. IsFiniteSet(Nodes)
  <2>1. IsFiniteSet(0 .. N - 1)
    BY RingAssumption, FS_Interval
  <2>2. Nodes \subseteq 0 .. N - 1
    BY RingAssumption DEF Ids
  <2> QED
    BY <2>1, <2>2, FS_Subset
<1>2. IsFiniteSet({a}) /\ Cardinality({a}) = 1
  BY FS_Singleton
<1>3. IsFiniteSet({a} \cup {b}) /\ Cardinality({a} \cup {b}) = 2
  BY <1>2, FS_AddElement
<1>4. Cardinality(Three) = 3
  BY <1>3, FS_AddElement
<1>5. Cardinality(Three) <= Cardinality(Nodes) /\ Cardinality(Nodes) \in Nat
  BY <1>1, FS_Subset, FS_CardinalityType
<1> QED
  BY <1>4, <1>5

\* With at most two nodes every node passes the two-node test, and whoever does
\* not pass the single-node test has one neighbour and no other node.
LEMMA TwoNodes ==
    ASSUME Cardinality(Nodes) <= 2, NEW n \in Nodes
    PROVE  /\ two_node_ring(n)
           /\ ~single_node(n) => Nodes = {n, Succ[n]}
<1>1. Pred[n] \in Nodes /\ Succ[n] \in Nodes
  BY RingFacts
<1>2. Pred[n] = n <=> Succ[n] = n
  BY RingAssumption
<1>3. Succ[n] = Pred[n]
  BY <1>1, <1>2, ThreeNodes
<1>4. ASSUME ~single_node(n)
      PROVE  Nodes = {n, Succ[n]}
  <2>1. Succ[n] # n
    BY <1>2, <1>4 DEF single_node
  <2>2. \A m \in Nodes : m = n \/ m = Succ[n]
    BY <1>1, <2>1, ThreeNodes
  <2> QED
    BY <1>1, <2>2
<1> QED
  BY <1>3, <1>4 DEF two_node_ring

\* The neighbour of a node that is not responsible owns the hash.
LEMMA NeighbourOwns ==
    ASSUME Cardinality(Nodes) <= 2, NEW n \in Nodes, NEW h \in Ids,
           ~responsible(n, h)
    PROVE  Owns(Succ[n], h)
<1>1. ~Owns(n, h)
  BY ResponsibleIsOwner DEF responsible
<1>2. Owner(h) \in Nodes /\ Owns(Owner(h), h)
  BY OwnerExists
<1>3. Nodes = {n, Succ[n]}
  BY TwoNodes DEF responsible
<1> QED
  BY <1>1, <1>2, <1>3

\* No message, no answer to wait for, no reply in the cache.
Silent ==
    /\ udp = {}
    /\ \A c \in Clients : answer[c].status # 503
    /\ \A n \in Nodes : ~have_reply[n]

\* A request changes the answer of its client only, and neither the network nor
\* the cache: it is served, or redirected to the neighbour (process_packet()).
LEMMA SmallRingRequest ==
    ASSUME Cardinality(Nodes) <= 2, TypeOK, NEW c \in Clients, process_packet(c)
    PROVE  /\ UNCHANGED <<udp, cache, request>>
           /\ \A x \in Clients : x # c => answer'[x] = answer[x]
           /\ answer'[c].status # 503
           /\ answer'[c].status = 303 =>
                  Owns(answer'[c].location, Hash[request[c].key])
<1> DEFINE n == at[c]
           h == Hash[request[c].key]
<1>1. n \in Nodes /\ request[c] \in Requests /\ h \in Ids
  BY DataAssumption DEF TypeOK, process_packet
<1>2. two_node_ring(n)
  BY <1>1, TwoNodes
<1>3. \/ responsible(n, h) /\ send_reply(c)
      \/ ~responsible(n, h) /\ send_redirect(c)
  BY <1>2 DEF process_packet
<1>4. UNCHANGED request
  BY DEF process_packet
<1> HIDE DEF n, h
<1>5. CASE send_reply(c)
  <2>1. UNCHANGED <<udp, cache>>
    BY <1>5 DEF send_reply
  <2>2. PICK s \in {200, 201, 204, 404, 501} : \E b : Respond(c, s, NoPeer, b)
    BY <1>5 DEF send_reply, get, set, delete, not_supported
  <2>3. PICK b : Respond(c, s, NoPeer, b)
    BY <2>2
  <2>4. answer'[c].status = s /\ \A x \in Clients : x # c => answer'[x] = answer[x]
    BY <2>3 DEF Respond, TypeOK
  <2> QED
    BY <1>4, <2>1, <2>4
<1>6. CASE ~responsible(n, h) /\ send_redirect(c)
  <2>1. Owns(Succ[n], h)
    BY <1>1, <1>6, NeighbourOwns
  <2>2. UNCHANGED <<udp, cache>> /\ Respond(c, 303, Succ[n], NoValue)
    BY <1>6 DEF send_redirect, n
  <2>3. /\ answer'[c].status = 303 /\ answer'[c].location = Succ[n]
        /\ \A x \in Clients : x # c => answer'[x] = answer[x]
    BY <2>2 DEF Respond, TypeOK
  <2> QED
    BY <1>4, <2>1, <2>2, <2>3 DEF h
<1> QED
  BY <1>3, <1>5, <1>6

\* Clients do not touch the network or the caches, and an answer that a client
\* still has is the one it had.
LEMMA SmallRingClient ==
    ASSUME TypeOK, NEW c \in Clients, Client(c)
    PROVE  /\ UNCHANGED <<udp, cache>>
           /\ \A x \in Clients :
                  \/ answer'[x].status = 0
                  \/ answer'[x] = answer[x] /\ request'[x] = request[x]
<1>1. UNCHANGED <<udp, cache>>
  BY DEF Client, Issue, Retry, Follow, Resend, Finish
<1>2. CASE Issue(c)
  <2>1. answer[c] = NoAnswer /\ UNCHANGED answer
    BY <1>2 DEF Issue, TypeOK
  <2>2. \A x \in Clients : x # c => request'[x] = request[x]
    BY <1>2 DEF Issue, TypeOK
  <2> QED
    BY <1>1, <2>1, <2>2 DEF NoAnswer
<1>3. CASE Retry(c) \/ Follow(c) \/ Finish(c)
  <2>1. \A x \in Clients : answer'[x] = IF x = c THEN NoAnswer ELSE answer[x]
    BY <1>3 DEF Retry, Follow, Resend, Finish, TypeOK
  <2>2. \A x \in Clients : x # c => request'[x] = request[x]
    BY <1>3 DEF Retry, Follow, Resend, Finish, TypeOK
  <2> QED
    BY <1>1, <2>1, <2>2 DEF NoAnswer
<1> QED
  BY <1>2, <1>3 DEF Client

\* Every step leaves a ring of one or two nodes silent, and redirects right.
LEMMA SmallRingStep ==
    ASSUME ForeignMsgs = {}, Cardinality(Nodes) <= 2,
           TypeOK, Silent, RedirectNamesOwner, [Next]_vars
    PROVE  Silent' /\ RedirectNamesOwner'
<1>1. ASSUME NEW c \in Clients, process_packet(c)
      PROVE  Silent' /\ RedirectNamesOwner'
  <2>1. UNCHANGED <<udp, cache, request>>
    BY <1>1, SmallRingRequest
  <2>2. \A x \in Clients :
            /\ answer'[x].status # 503
            /\ answer'[x].status = 303 =>
                   Owns(answer'[x].location, Hash[request[x].key])
    BY <1>1, SmallRingRequest DEF Silent, RedirectNamesOwner
  <2> QED
    BY <2>1, <2>2 DEF Silent, RedirectNamesOwner, cache
<1>2. ASSUME NEW c \in Clients, Client(c)
      PROVE  Silent' /\ RedirectNamesOwner'
  <2>1. UNCHANGED <<udp, cache>>
    BY <1>2, SmallRingClient
  <2>2. ASSUME NEW x \in Clients
        PROVE  /\ answer'[x].status # 503
               /\ answer'[x].status = 303 =>
                      Owns(answer'[x].location, Hash[request'[x].key])
    BY <1>2, SmallRingClient DEF Silent, RedirectNamesOwner
  <2> QED
    BY <2>1, <2>2 DEF Silent, RedirectNamesOwner, cache
<1>3. CASE UNCHANGED vars
  BY <1>3 DEF vars, cache, Silent, RedirectNamesOwner
<1> QED
  BY <1>1, <1>2, <1>3 DEF Next, Silent

\* A ring of one or two nodes holds no message and no cached reply, and its
\* clients never have to wait (the tests of process_packet() at webserver.c:191-207
\* come before the cache).
THEOREM SmallRingsAreSilent ==
    ASSUME ForeignMsgs = {}
    PROVE  Spec => []SmallRingIsSilent
<1>1. CASE Cardinality(Nodes) <= 2
  <2>1. Init => Silent /\ RedirectNamesOwner
    BY DEF Init, Silent, RedirectNamesOwner, NoAnswer
  <2>2. TypeOK /\ (Silent /\ RedirectNamesOwner) /\ [Next]_vars
            => (Silent /\ RedirectNamesOwner)'
    BY <1>1, SmallRingStep
  <2>3. Silent => SmallRingIsSilent
    BY DEF Silent, SmallRingIsSilent
  <2> QED
    BY <2>1, <2>2, <2>3, TypeCorrect, PTL DEF Spec
<1>2. CASE ~(Cardinality(Nodes) <= 2)
  <2>1. SmallRingIsSilent
    BY <1>2 DEF SmallRingIsSilent
  <2> QED
    BY <2>1, PTL
<1> QED
  BY <1>1, <1>2

\* In a ring of one or two nodes what the README says of every ring is true: a
\* redirect names the responsible node.
THEOREM SmallRingRedirectsToOwner ==
    ASSUME ForeignMsgs = {}, Cardinality(Nodes) <= 2
    PROVE  Spec => []RedirectNamesOwner
<1>1. Init => Silent /\ RedirectNamesOwner
  BY DEF Init, Silent, RedirectNamesOwner, NoAnswer
<1>2. TypeOK /\ (Silent /\ RedirectNamesOwner) /\ [Next]_vars
          => (Silent /\ RedirectNamesOwner)'
  BY SmallRingStep
<1> QED
  BY <1>1, <1>2, TypeCorrect, PTL DEF Spec
----------------------------------------------------------------------------
(* The ring implements KeyValueService.                                     *)

\* The dictionary and the answers that the clients see.
Dict == [k \in Keys |-> resources[Owner(Hash[k])][k]]

FinalAnswers ==
    [c \in Clients |-> IF Final(answer[c])
                       THEN [status |-> answer[c].status, body |-> answer[c].body]
                       ELSE [status |-> 0, body |-> NoValue]]

\* A final answer to c is the answer that its client sees, and nobody else's
\* changes.
LEMMA FinalAnswerSeen ==
    ASSUME TypeOK, NEW c \in Clients, NEW s \in {200, 201, 204, 404, 501},
           NEW b, Respond(c, s, NoPeer, b)
    PROVE  FinalAnswers' = [FinalAnswers EXCEPT ![c] = [status |-> s, body |-> b]]
<1>1. /\ answer'[c].status = s /\ answer'[c].body = b
      /\ \A x \in Clients : x # c => answer'[x] = answer[x]
  BY DEF Respond, TypeOK
<1> DEFINE seen(a) == IF Final(a) THEN [status |-> a.status, body |-> a.body]
                                  ELSE [status |-> 0, body |-> NoValue]
<1>2. seen(answer'[c]) = [status |-> s, body |-> b]
  BY <1>1 DEF Final
<1>3. /\ FinalAnswers = [x \in Clients |-> seen(answer[x])]
      /\ FinalAnswers' = [x \in Clients |-> seen(answer'[x])]
  BY DEF FinalAnswers, Final
<1> HIDE DEF seen
<1> QED
  BY <1>1, <1>2, <1>3

\* An answer that is not final is no answer: the client's view stays.
LEMMA OtherAnswerUnseen ==
    ASSUME TypeOK, NEW c \in Clients, ~Final(answer[c]),
           NEW s \in {303, 503}, NEW l, NEW b, Respond(c, s, l, b)
    PROVE  UNCHANGED FinalAnswers
<1>1. /\ answer'[c].status = s
      /\ \A x \in Clients : x # c => answer'[x] = answer[x]
  BY DEF Respond, TypeOK
<1> QED
  BY <1>1 DEF FinalAnswers, Final

\* Writing a key at its owner writes it in the dictionary.
LEMMA WrittenAtOwner ==
    ASSUME TypeOK, NEW n \in Nodes, NEW k \in Keys, Owner(Hash[k]) = n, NEW v,
           resources' = [resources EXCEPT ![n][k] = v]
    PROVE  Dict' = [Dict EXCEPT ![k] = v]
<1>1. \A j \in Keys : Owner(Hash[j]) \in Nodes
  BY OwnerExists, DataAssumption
<1>2. \A m \in Nodes, j \in Keys :
          resources'[m][j] = IF m = n /\ j = k THEN v ELSE resources[m][j]
  BY DEF TypeOK
<1>3. /\ Dict \in [Keys -> {Dict[j] : j \in Keys}]
      /\ Dict' = [j \in Keys |-> resources'[Owner(Hash[j])][j]]
      /\ \A j \in Keys : Dict[j] = resources[Owner(Hash[j])][j]
  BY DEF Dict
<1>4. \A j \in Keys : Dict'[j] = IF j = k THEN v ELSE Dict[j]
  BY <1>1, <1>2, <1>3
<1> QED
  BY <1>3, <1>4

\* A table that is to take a new key has room if there is room for all keys.
LEMMA RoomForNewKey ==
    ASSUME TablesSuffice, NEW n \in Nodes, NEW k \in Keys \ Stored(n)
    PROVE  Cardinality(Stored(n)) < MAX_RESOURCES
<1>1. /\ IsFiniteSet(Keys \ {k}) /\ Cardinality(Keys \ {k}) = Cardinality(Keys) - 1
  BY FS_RemoveElement DEF TablesSuffice
<1>2. Stored(n) \subseteq Keys \ {k}
  BY DEF Stored
<1>3. IsFiniteSet(Stored(n)) /\ Cardinality(Stored(n)) <= Cardinality(Keys \ {k})
  BY <1>1, <1>2, FS_Subset
<1>4. Cardinality(Stored(n)) \in Nat /\ Cardinality(Keys) \in Nat
  BY <1>3, FS_CardinalityType DEF TablesSuffice
<1> QED
  BY <1>1, <1>3, <1>4, DataAssumption DEF TablesSuffice

\* send_reply() at the owner is the request taking effect.
LEMMA ServedIsCommitted ==
    ASSUME TypeOK, NEW c \in Clients, request[c] # NoRequest,
           answer[c] = NoAnswer, send_reply(c), UNCHANGED request,
           Owner(Hash[request[c].key]) = at[c]
    PROVE  KV!Commit(c)
<1> DEFINE n == at[c]
           k == request[c].key
           Answered(s, b) ==
               FinalAnswers' = [FinalAnswers EXCEPT ![c] = [status |-> s, body |-> b]]
<1>1. n \in Nodes /\ k \in Keys /\ request[c].value \in Values /\ Owner(Hash[k]) = n
  BY DataAssumption DEF TypeOK
<1>2. Dict[k] = resources[n][k] /\ (k \in Stored(n) <=> Dict[k] # NoValue)
  BY <1>1 DEF Dict, Stored
<1>3. FinalAnswers[c] = [status |-> 0, body |-> NoValue]
  BY DEF FinalAnswers, Final, NoAnswer
<1>4. UNCHANGED resources => UNCHANGED Dict
  BY DEF Dict
<1> HIDE DEF n, k, Answered
<1>5. ASSUME NEW s \in {200, 201, 204, 404, 501}, NEW b, Respond(c, s, NoPeer, b)
      PROVE  Answered(s, b)
  BY <1>5, FinalAnswerSeen DEF Answered
<1>6. CASE get(c, n, k)
  <2>1. /\ request[c].method = "GET" /\ UNCHANGED Dict
        /\ IF Dict[k] # NoValue THEN Answered(200, Dict[k]) ELSE Answered(404, NoValue)
    BY <1>2, <1>4, <1>5, <1>6 DEF get
  <2> QED
    BY <1>3, <2>1 DEF KV!Commit, KV!NoAnswer, Dict, FinalAnswers, Answered, k
<1>7. CASE set(c, n, k)
  <2>1. /\ request[c].method = "PUT"
        /\ Answered(IF Dict[k] # NoValue THEN 204 ELSE 201, NoValue)
    BY <1>2, <1>5, <1>7 DEF set
  <2>2. \/ Dict' = [Dict EXCEPT ![k] = request[c].value]
        \/ ~TablesSuffice /\ Dict[k] = NoValue /\ UNCHANGED Dict
    <3>1. CASE k \in Stored(n) \/ Cardinality(Stored(n)) < MAX_RESOURCES
      BY <1>1, <1>7, <3>1, WrittenAtOwner DEF set
    <3>2. CASE ~(k \in Stored(n) \/ Cardinality(Stored(n)) < MAX_RESOURCES)
      BY <1>1, <1>2, <1>4, <1>7, <3>2, RoomForNewKey DEF set
    <3> QED
      BY <3>1, <3>2
  <2> QED
    BY <1>3, <2>1, <2>2 DEF KV!Commit, KV!NoAnswer, Dict, FinalAnswers, Answered, k
<1>8. CASE delete(c, n, k)
  <2>1. /\ request[c].method = "DELETE"
        /\ Answered(IF Dict[k] # NoValue THEN 204 ELSE 404, NoValue)
    BY <1>2, <1>5, <1>8 DEF delete
  <2>2. Dict' = [Dict EXCEPT ![k] = NoValue]
    BY <1>1, <1>8, WrittenAtOwner DEF delete
  <2> QED
    BY <1>3, <2>1, <2>2 DEF KV!Commit, KV!NoAnswer, Dict, FinalAnswers, Answered, k
<1>9. CASE not_supported(c)
  <2>1. /\ request[c].method \notin {"GET", "PUT", "DELETE"} /\ UNCHANGED Dict
        /\ Answered(501, NoValue)
    BY <1>4, <1>5, <1>9 DEF not_supported
  <2> QED
    BY <1>3, <2>1 DEF KV!Commit, KV!NoAnswer, Dict, FinalAnswers, Answered, k
<1> QED
  BY <1>6, <1>7, <1>8, <1>9 DEF send_reply, n, k

\* process_packet() commits the request, or leaves everything the client sees.
LEMMA PacketRefines ==
    ASSUME NoZeroPair, TypeOK, NEW c \in Clients, process_packet(c)
    PROVE  KV!Commit(c) \/ UNCHANGED <<Dict, request, FinalAnswers>>
<1> DEFINE n == at[c]
           h == Hash[request[c].key]
<1>1. /\ request[c] # NoRequest /\ answer[c] = NoAnswer /\ UNCHANGED request
      /\ n \in Nodes /\ h \in Ids
  BY DataAssumption DEF process_packet, TypeOK
<1>2. CASE responsible(n, h) /\ send_reply(c)
  <2>1. Owner(h) = n
    BY <1>1, <1>2, ServesOwnKeysOnly, OwnerExists, OwnerUnique
  <2> QED
    BY <1>1, <1>2, <2>1, ServedIsCommitted
<1>3. CASE \/ send_redirect(c) \/ redirect_from_cache(c)
           \/ store_local_reply(c, h) \/ send_lookup(c, h)
  <2>1. UNCHANGED resources /\ \E s \in {303, 503} : \E l, b : Respond(c, s, l, b)
    BY <1>3 DEF send_redirect, redirect_from_cache, store_local_reply, send_lookup
  <2>2. ~Final(answer[c])
    BY <1>1 DEF Final, NoAnswer
  <2>3. UNCHANGED FinalAnswers
    BY <2>1, <2>2, OtherAnswerUnseen
  <2> QED
    BY <1>1, <2>1, <2>3 DEF Dict
<1> QED
  BY <1>2, <1>3 DEF process_packet

\* A client issues and finishes its request; retries and redirects are not seen.
LEMMA ClientRefines ==
    ASSUME TypeOK, NEW c \in Clients, Client(c)
    PROVE  \/ KV!Issue(c) \/ KV!Finish(c)
           \/ UNCHANGED <<Dict, request, FinalAnswers>>
<1>1. UNCHANGED resources /\ UNCHANGED Dict
  BY DEF Client, Issue, Retry, Follow, Resend, Finish, Dict
<1>2. CASE Issue(c)
  <2>1. UNCHANGED FinalAnswers
    BY <1>2 DEF Issue, FinalAnswers
  <2> QED
    BY <1>1, <1>2, <2>1, IssuedRequests DEF Issue, KV!Issue, Dict, FinalAnswers
<1>3. CASE Retry(c) \/ Follow(c)
  <2>1. /\ answer' = [answer EXCEPT ![c] = NoAnswer] /\ UNCHANGED request
        /\ ~Final(answer[c])
    BY <1>3 DEF Retry, Follow, Resend, Final
  <2>2. UNCHANGED FinalAnswers
    BY <2>1 DEF FinalAnswers, Final, NoAnswer, TypeOK
  <2> QED
    BY <1>1, <2>1, <2>2
<1>4. CASE Finish(c)
  <2>1. FinalAnswers' = [FinalAnswers EXCEPT ![c] = [status |-> 0, body |-> NoValue]]
    <3> DEFINE seen(a) == IF Final(a) THEN [status |-> a.status, body |-> a.body]
                                      ELSE [status |-> 0, body |-> NoValue]
    <3>1. seen(NoAnswer) = [status |-> 0, body |-> NoValue]
      BY DEF Final, NoAnswer
    <3>2. /\ FinalAnswers = [x \in Clients |-> seen(answer[x])]
          /\ FinalAnswers' = [x \in Clients |-> seen(answer'[x])]
      BY DEF FinalAnswers, Final
    <3>3. answer' = [answer EXCEPT ![c] = NoAnswer]
      BY <1>4 DEF Finish
    <3> HIDE DEF seen
    <3> QED
      BY <3>1, <3>2, <3>3 DEF TypeOK
  <2>2. FinalAnswers[c].status # 0
    BY <1>4 DEF Finish, FinalAnswers, Final
  <2> QED
    BY <1>1, <1>4, <2>1, <2>2 DEF Finish, KV!Finish, KV!NoAnswer, Dict, FinalAnswers
<1> QED
  BY <1>2, <1>3, <1>4 DEF Client

\* The ring starts as the dictionary of the resources compiled in.
LEMMA InitRefines == Init => KV!Init
<1> SUFFICES ASSUME Init PROVE KV!Init
  OBVIOUS
<1>1. \A k \in Keys : Owner(Hash[k]) \in Nodes
  BY OwnerExists, DataAssumption
<1>2. Dict = InitResources
  BY <1>1, DataAssumption DEF Init, Dict
<1>3. FinalAnswers = [c \in Clients |-> [status |-> 0, body |-> NoValue]]
  BY DEF Init, FinalAnswers, Final, NoAnswer
<1> QED
  BY <1>2, <1>3 DEF Init, KV!Init, KV!NoAnswer, Dict, FinalAnswers

\* Each step of the ring is one of the dictionary, or is not seen.
LEMMA StepRefines ==
    ASSUME NoZeroPair, TypeOK, [Next]_vars
    PROVE  [KV!Next]_(KV!vars)
<1>1. ASSUME UNCHANGED <<Dict, request, FinalAnswers>>
      PROVE  UNCHANGED KV!vars
  BY <1>1 DEF KV!vars, Dict, FinalAnswers
<1>2. ASSUME NEW c \in Clients, Client(c) \/ process_packet(c)
      PROVE  [KV!Next]_(KV!vars)
  BY <1>1, <1>2, ClientRefines, PacketRefines DEF KV!Next
<1>3. ASSUME UNCHANGED <<resources, request, answer>>
      PROVE  UNCHANGED <<Dict, request, FinalAnswers>>
  BY <1>3 DEF Dict, FinalAnswers
<1> QED
  BY <1>1, <1>2, <1>3 DEF Next, handle_udp_socket, Lose, Inject, vars

\* In a ring of any size, whatever its network and other ring members do to
\* datagrams, clients that may ask any node see one dictionary on which each of
\* their requests takes effect once and atomically (send_reply(), is_responsible());
\* only if a node's table can be full may a value be lost that was answered 201.
THEOREM RingIsOneDictionary ==
    ASSUME NoZeroPair
    PROVE  Spec => ImplementsKeyValueService
<1>1. TypeOK /\ [Next]_vars => [KV!Next]_(KV!vars)
  BY StepRefines
<1> QED
  BY <1>1, InitRefines, TypeCorrect, PTL DEF Spec, ImplementsKeyValueService, KV!Spec
=============================================================================
