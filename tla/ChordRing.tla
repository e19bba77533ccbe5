----------------------------- MODULE ChordRing -----------------------------
(***************************************************************************)
(* A ring of chord-node processes, their HTTP clients and the UDP network  *)
(* between them.  One process is one poll() loop, so process_packet() and  *)
(* the handling of one datagram are each one atomic step of their node;    *)
(* steps of different nodes, clients and datagrams interleave freely, and  *)
(* a datagram may be delayed, reordered, lost or duplicated.               *)
(***************************************************************************)
EXTENDS ChordKeyspace, FiniteSets

CONSTANTS
    Clients,
    Keys,           \* URIs
    Hash,           \* Hash[k] = pseudo_hash(k)
    Values,         \* payloads
    NoValue,        \* no resource under this key
    InitResources,  \* the resources compiled into every node ("/static/...")
    MAX_RESOURCES,  \* slots of a node's resource table
    RequestsOf,     \* RequestsOf[c]: the requests client c may issue
    NoRequest,      \* the client is idle
    ForeignMsgs,    \* datagrams from other implementations of a ring member
    MaxRequests,    \* bound: requests issued in a behaviour
    MaxFaults       \* bound: datagrams lost, duplicated or foreign

Methods    == {"GET", "PUT", "DELETE", "POST"} \* POST: any other method
StaticKeys == {k \in Keys : InitResources[k] # NoValue}
Requests   == UNION {RequestsOf[c] : c \in Clients}

\* flags of a datagram; any other value (2 stands for all) is not handled
LOOKUP == 0
REPLY  == 1

\* A DHT message: `id` is the hash looked up, or the predecessor of the
\* responsible node; `peer` the origin, or the responsible node.
Datagrams == [flags : 0 .. 2, id : Ids, peer : Nodes, to : Nodes]

\* reply_peer before the first reply: the zero-initialised struct.
NoPeer == -1

Answers  == [status   : {0, 200, 201, 204, 303, 404, 501, 503},
             location : Nodes \cup {NoPeer},
             body     : Values \cup {NoValue}]
NoAnswer == [status |-> 0, location |-> NoPeer, body |-> NoValue]

ASSUME DataAssumption ==
    /\ Hash \in [Keys -> Ids]
    /\ NoValue \notin Values
    /\ InitResources \in [Keys -> Values \cup {NoValue}]
    /\ MAX_RESOURCES \in Nat
    /\ Requests \subseteq [method : Methods, key : Keys, value : Values]
    /\ NoRequest \notin Requests
    /\ ForeignMsgs \subseteq Datagrams
    /\ MaxRequests \in Nat
    /\ MaxFaults \in Nat

\* PUT and DELETE of a compiled-in resource hand a string literal to free();
\* what the C library then does is not part of this module.
ASSUME StaticAssumption ==
    \A r \in Requests : r.key \in StaticKeys => r.method \notin {"PUT", "DELETE"}

VARIABLES
    resources,     \* resources[n][k]: value stored at node n, or NoValue
    have_reply,    \* have_reply[n]: the reply cache of n is filled
    reply_peer,    \* reply_peer[n]: the responsible node it names
    reply_prev_id, \* reply_prev_id[n]: the predecessor id it names
    udp,           \* datagrams in flight
    request,       \* request[c]: what client c asks for, or NoRequest
    at,            \* at[c]: the node it is asking
    answer,        \* answer[c]: the HTTP answer it has received, or NoAnswer
    issued,        \* requests issued so far
    faults         \* datagrams lost, duplicated or foreign so far

cache == <<have_reply, reply_peer, reply_prev_id>>
vars  == <<resources, have_reply, reply_peer, reply_prev_id, udp,
           request, at, answer, issued, faults>>

TypeOK ==
    /\ resources \in [Nodes -> [Keys -> Values \cup {NoValue}]]
    /\ have_reply \in [Nodes -> BOOLEAN]
    /\ reply_peer \in [Nodes -> Nodes \cup {NoPeer}]
    /\ reply_prev_id \in [Nodes -> Ids]
    /\ udp \subseteq Datagrams
    /\ request \in [Clients -> Requests \cup {NoRequest}]
    /\ at \in [Clients -> Nodes]
    /\ answer \in [Clients -> Answers]
    /\ issued \in 0 .. MaxRequests
    /\ faults \in 0 .. MaxFaults
    /\ \A n \in Nodes : have_reply[n] => reply_peer[n] \in Nodes
    /\ \A c \in Clients : answer[c].status = 303 => answer[c].location \in Nodes
    /\ \A c \in Clients : answer[c] # NoAnswer => request[c] # NoRequest

\* Where an idle client points; never read.
AnyNode == CHOOSE n \in Nodes : TRUE

Init ==
    /\ resources = [n \in Nodes |-> InitResources]
    /\ have_reply = [n \in Nodes |-> FALSE]
    /\ reply_peer = [n \in Nodes |-> NoPeer]
    /\ reply_prev_id = [n \in Nodes |-> 0]
    /\ udp = {}
    /\ request = [c \in Clients |-> NoRequest]
    /\ at = [c \in Clients |-> AnyNode]
    /\ answer = [c \in Clients |-> NoAnswer]
    /\ issued = 0
    /\ faults = 0

----------------------------------------------------------------------------
(* Clients: they ask some node, retry after a 503, follow a 303.           *)

\* Any node may be asked first.
Issue(c) ==
    /\ request[c] = NoRequest
    /\ issued < MaxRequests
    /\ \E r \in RequestsOf[c] : request' = [request EXCEPT ![c] = r]
    /\ \E n \in Nodes : at' = [at EXCEPT ![c] = n]
    /\ issued' = issued + 1
    /\ UNCHANGED <<resources, cache, udp, answer, faults>>

\* The client sends its request again, to node n.
Resend(c, n) ==
    /\ at' = [at EXCEPT ![c] = n]
    /\ answer' = [answer EXCEPT ![c] = NoAnswer]
    /\ UNCHANGED <<resources, cache, udp, request, issued, faults>>

Retry(c)  == answer[c].status = 503 /\ Resend(c, at[c])
Follow(c) == answer[c].status = 303 /\ Resend(c, answer[c].location)

Final(a) == a.status \notin {0, 303, 503}

Finish(c) ==
    /\ Final(answer[c])
    /\ request' = [request EXCEPT ![c] = NoRequest]
    /\ answer' = [answer EXCEPT ![c] = NoAnswer]
    /\ at' = [at EXCEPT ![c] = AnyNode]
    /\ UNCHANGED <<resources, cache, udp, issued, faults>>

----------------------------------------------------------------------------
(* send_reply(): the request is served from this node's resource table.    *)

Respond(c, status, location, body) ==
    answer' = [answer EXCEPT ![c] = [status   |-> status,
                                     location |-> location,
                                     body     |-> body]]

Stored(n) == {k \in Keys : resources[n][k] # NoValue}

get(c, n, k) ==
    /\ request[c].method = "GET"
    /\ IF k \in Stored(n) THEN Respond(c, 200, NoPeer, resources[n][k])
                          ELSE Respond(c, 404, NoPeer, NoValue)
    /\ UNCHANGED resources

\* set() gives up silently when the table is full, and the client is told
\* 201 Created all the same.
set(c, n, k) ==
    /\ request[c].method = "PUT"
    /\ Respond(c, IF k \in Stored(n) THEN 204 ELSE 201, NoPeer, NoValue)
    /\ IF k \in Stored(n) \/ Cardinality(Stored(n)) < MAX_RESOURCES
       THEN resources' = [resources EXCEPT ![n][k] = request[c].value]
       ELSE UNCHANGED resources

\* The slot is left in use.
delete_without_clearing(c, n, k) ==
    /\ request[c].method = "DELETE"
    /\ Respond(c, IF k \in Stored(n) THEN 204 ELSE 404, NoPeer, NoValue)
    /\ UNCHANGED resources

delete(c, n, k) ==
    /\ request[c].method = "DELETE"
    /\ Respond(c, IF k \in Stored(n) THEN 204 ELSE 404, NoPeer, NoValue)
    /\ resources' = [resources EXCEPT ![n][k] = NoValue]

not_supported(c) ==
    /\ request[c].method \notin {"GET", "PUT", "DELETE"}
    /\ Respond(c, 501, NoPeer, NoValue)
    /\ UNCHANGED resources

send_reply(c) ==
    LET n == at[c]
        k == request[c].key
    IN  /\ get(c, n, k) \/ set(c, n, k) \/ delete(c, n, k) \/ not_supported(c)
        /\ UNCHANGED <<cache, udp>>

----------------------------------------------------------------------------
(* process_packet(): a complete request at the node the client contacted.  *)

send_redirect(c) ==
    /\ Respond(c, 303, Succ[at[c]], NoValue)
    /\ UNCHANGED <<resources, cache, udp>>

\* The cached reply answers whichever request comes next: the cache does not
\* remember the hash it was looked up for.
redirect_from_cache(c) ==
    LET n == at[c] IN
    /\ have_reply[n]
    /\ Respond(c, 303, reply_peer[n], NoValue)
    /\ have_reply' = [have_reply EXCEPT ![n] = FALSE]
    /\ UNCHANGED <<resources, reply_peer, reply_prev_id, udp>>

\* The node names itself, not its successor, as the responsible peer.
store_local_reply_self(c, h) ==
    LET n == at[c] IN
    /\ ~have_reply[n]
    /\ is_responsible(h, Succ[n], n)
    /\ have_reply' = [have_reply EXCEPT ![n] = TRUE]
    /\ reply_prev_id' = [reply_prev_id EXCEPT ![n] = n]
    /\ reply_peer' = [reply_peer EXCEPT ![n] = n]
    /\ Respond(c, 503, NoPeer, NoValue)
    /\ UNCHANGED <<resources, udp>>

\* The successor is responsible: the node answers its own lookup.
store_local_reply(c, h) ==
    LET n == at[c] IN
    /\ ~have_reply[n]
    /\ is_responsible(h, Succ[n], n)
    /\ have_reply' = [have_reply EXCEPT ![n] = TRUE]
    /\ reply_prev_id' = [reply_prev_id EXCEPT ![n] = n]
    /\ reply_peer' = [reply_peer EXCEPT ![n] = Succ[n]]
    /\ Respond(c, 503, NoPeer, NoValue)
    /\ UNCHANGED <<resources, udp>>

\* The successor is asked even when it is known to be responsible.
send_lookup_unconditionally(c, h) ==
    LET n == at[c] IN
    /\ ~have_reply[n]
    /\ udp' = udp \cup {[flags |-> LOOKUP, id |-> h, peer |-> n, to |-> Succ[n]]}
    /\ Respond(c, 503, NoPeer, NoValue)
    /\ UNCHANGED <<resources, cache>>

send_lookup(c, h) ==
    LET n == at[c] IN
    /\ ~have_reply[n]
    /\ ~is_responsible(h, Succ[n], n)
    /\ udp' = udp \cup {[flags |-> LOOKUP, id |-> h, peer |-> n, to |-> Succ[n]]}
    /\ Respond(c, 503, NoPeer, NoValue)
    /\ UNCHANGED <<resources, cache>>

process_packet(c) ==
    LET n == at[c]
        h == Hash[request[c].key]
    IN
    /\ request[c] # NoRequest
    /\ answer[c] = NoAnswer
    /\ \/ responsible(n, h) /\ send_reply(c)
       \/ ~responsible(n, h) /\ two_node_ring(n) /\ send_redirect(c)
       \/ /\ ~responsible(n, h) /\ ~two_node_ring(n)
          /\ \/ redirect_from_cache(c)
             \/ store_local_reply(c, h)
             \/ send_lookup(c, h)
    /\ UNCHANGED <<request, at, issued, faults>>

----------------------------------------------------------------------------
(* handle_udp_socket(): one datagram of the batch it drains.               *)

\* d is consumed, or duplicated by the network; `out` is sent in response.
Receive(d, out) ==
    \/ udp' = (udp \ {d}) \cup out /\ UNCHANGED faults
    \/ faults < MaxFaults /\ udp' = udp \cup out /\ faults' = faults + 1

\* The reply to the origin of lookup d.
Reply(d, prev_id, peer) ==
    [flags |-> REPLY, id |-> prev_id, peer |-> peer, to |-> d.peer]

\* The reply names the successor but not the node that precedes it.
LookupResultWrongPrev(n, d) ==
    IF is_responsible(d.id, n, Pred[n]) THEN Reply(d, Pred[n], n)
    ELSE IF is_responsible(d.id, Succ[n], n) THEN Reply(d, Pred[n], Succ[n])
    ELSE [d EXCEPT !.to = Succ[n]]

\* What node n sends on lookup d: a reply naming itself, or its successor, or
\* the lookup unchanged to its successor.
LookupResult(n, d) ==
    IF is_responsible(d.id, n, Pred[n]) THEN Reply(d, Pred[n], n)
    ELSE IF is_responsible(d.id, Succ[n], n) THEN Reply(d, n, Succ[n])
    ELSE [d EXCEPT !.to = Succ[n]]

HandleLookup(d) ==
    /\ d.flags = LOOKUP
    /\ Receive(d, {LookupResult(d.to, d)})
    /\ UNCHANGED cache

\* The reply is noted but the cache is not marked filled.
HandleReplyUnmarked(d) ==
    /\ d.flags = REPLY
    /\ Receive(d, {})
    /\ UNCHANGED have_reply
    /\ reply_prev_id' = [reply_prev_id EXCEPT ![d.to] = d.id]
    /\ reply_peer' = [reply_peer EXCEPT ![d.to] = d.peer]

\* The peer of the reply is not copied.
HandleReplyNoPeer(d) ==
    /\ d.flags = REPLY
    /\ Receive(d, {})
    /\ have_reply' = [have_reply EXCEPT ![d.to] = TRUE]
    /\ reply_prev_id' = [reply_prev_id EXCEPT ![d.to] = d.id]
    /\ UNCHANGED reply_peer

HandleReply(d) ==
    /\ d.flags = REPLY
    /\ Receive(d, {})
    /\ have_reply' = [have_reply EXCEPT ![d.to] = TRUE]
    /\ reply_prev_id' = [reply_prev_id EXCEPT ![d.to] = d.id]
    /\ reply_peer' = [reply_peer EXCEPT ![d.to] = d.peer]

IgnoreUnknown(d) ==
    /\ d.flags \notin {LOOKUP, REPLY}
    /\ Receive(d, {})
    /\ UNCHANGED cache

handle_udp_socket(d) ==
    /\ d \in udp
    /\ HandleLookup(d) \/ HandleReply(d) \/ IgnoreUnknown(d)
    /\ UNCHANGED <<resources, request, at, answer, issued>>

----------------------------------------------------------------------------
(* The network.                                                            *)

Lose(d) ==
    /\ faults < MaxFaults
    /\ udp' = udp \ {d}
    /\ faults' = faults + 1
    /\ UNCHANGED <<resources, cache, request, at, answer, issued>>

\* A ring member running another implementation sends d.
Inject(d) ==
    /\ faults < MaxFaults
    /\ udp' = udp \cup {d}
    /\ faults' = faults + 1
    /\ UNCHANGED <<resources, cache, request, at, answer, issued>>

----------------------------------------------------------------------------
Client(c) == Issue(c) \/ Retry(c) \/ Follow(c) \/ Finish(c)

Next ==
    \/ \E c \in Clients : Client(c) \/ process_packet(c)
    \/ \E d \in udp : handle_udp_socket(d) \/ Lose(d)
    \/ \E d \in ForeignMsgs : Inject(d)

Spec == Init /\ [][Next]_vars

(***************************************************************************)
(* Clients go on with a request they have issued, a node's poll loop       *)
(* serves the request that has arrived and its drain of the UDP socket     *)
(* reaches every datagram the network has not lost (the socket is a queue).*)
(* New requests are not promised.                                          *)
(***************************************************************************)
Fairness ==
    /\ \A c \in Clients :
          /\ WF_vars(Retry(c) \/ Follow(c) \/ Finish(c))
          /\ WF_vars(process_packet(c))
    /\ \A d \in Datagrams : WF_vars(handle_udp_socket(d))

FairSpec == Spec /\ Fairness

----------------------------------------------------------------------------
(* Properties.                                                             *)

\* Only the owner of a hash gives a final answer: whatever stale or foreign
\* replies sent the client astray, no other node serves its key from its own
\* table (process_packet(), is_responsible()).
ServedByOwner ==
    \A c \in Clients :
        Final(answer[c]) => Owns(at[c], Hash[request[c].key])

\* A resource put by a client is stored at the owner of its hash and nowhere
\* else, so there is never a second copy to go stale.
DataAtOwner ==
    \A n \in Nodes, k \in Keys \ StaticKeys :
        resources[n][k] # NoValue => Owns(n, Hash[k])

\* A lookup is for another node's hash, travels from its origin towards the
\* owner and never gets there, since the node before the owner answers: it
\* cannot return to its origin nor circle the ring (handle_udp_socket()).
LookupBeforeOwner ==
    \A d \in udp : d.flags = LOOKUP =>
        /\ ~Owns(d.peer, d.id)
        /\ d.peer # d.to
        /\ Dist(d.peer, d.to) < Dist(d.peer, d.id)

\* A reply names one interval of the ring: `id` is the predecessor of `peer`,
\* in flight and in the cache alike (struct of the REPLY message).
ReplyNamesInterval ==
    /\ \A d \in udp : d.flags = REPLY => d.id = Pred[d.peer]
    /\ \A n \in Nodes : have_reply[n] => reply_prev_id[n] = Pred[reply_peer[n]]

\* A node never redirects a client to itself, and never awaits a reply that
\* would make it do so: a lookup is only sent for another node's hash.
NoSelfRedirect ==
    /\ \A c \in Clients : answer[c].status = 303 => answer[c].location # at[c]
    /\ \A n \in Nodes : have_reply[n] => reply_peer[n] # n
    /\ \A d \in udp : d.flags = REPLY => d.peer # d.to

\* A redirect names the node responsible for the key.  So it is in a ring of two,
\* whose nodes redirect to their neighbour at once (send_redirect()); in a
\* larger one the cache may name another key's node (redirect_from_cache).
RedirectNamesOwner ==
    \A c \in Clients :
        answer[c].status = 303 =>
            Owns(answer[c].location, Hash[request[c].key])

\* In a ring of one or two nodes no lookup is ever sent and the cache stays
\* empty: every request is served or redirected at once.
SmallRingIsSilent ==
    Cardinality(Nodes) <= 2 =>
        /\ udp = {}
        /\ \A c \in Clients : answer[c].status # 503
        /\ \A n \in Nodes : ~have_reply[n]

\* What the README's account amounts to: a request for a foreign key gets, after
\* some 503, to the responsible node and is answered there.  With several
\* clients it does not hold: three that want three nodes' keys can take each
\* other's replies from the cache in turn (process_packet(), have_reply).
EveryRequestServed ==
    \A c \in Clients : request[c] # NoRequest ~> Final(answer[c])

\* A client that is alone with the ring is served: the late, lost and duplicated
\* replies to its own lookups, for this key or the one before, send it astray
\* finitely often (process_packet(), handle_udp_socket()).
LoneClientServed == Cardinality(Clients) = 1 => EveryRequestServed

\* Lookups die out: no datagram circles the ring for ever once the clients
\* have stopped.
NetworkDrains == <>[](udp = {})

\* No table can fill up: only a full one drops a value.
TablesSuffice == IsFiniteSet(Keys) /\ Cardinality(Keys) <= MAX_RESOURCES

\* The ring is one dictionary: the value of a key is the one its owner holds,
\* and 303 and 503 are no answers.
KV == INSTANCE KeyValueService WITH
    kv     <- [k \in Keys |-> resources[Owner(Hash[k])][k]],
    answer <- [c \in Clients |->
                  IF Final(answer[c])
                  THEN [status |-> answer[c].status, body |-> answer[c].body]
                  ELSE [status |-> 0, body |-> NoValue]],
    MayDrop <- ~TablesSuffice,
    InitialContents <- InitResources

\* Every request takes effect once, atomically, on that dictionary.
ImplementsKeyValueService == KV!Spec
=============================================================================
