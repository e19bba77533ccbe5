--------------------------- MODULE ChordKeyspace ---------------------------
(***************************************************************************)
(* The identifier space of the Chord ring and the functions by which a     *)
(* node of chord-node decides who answers for a hash.                      *)
(*                                                                         *)
(* A node is identified with its id: the struct chord_peer {id, ip, port}  *)
(* names one process, and the ring is configured once, from argv and the   *)
(* PRED_ and SUCC_ environment variables, and never changes (the program   *)
(* has no join, stabilize or failure handling).                            *)
(***************************************************************************)
EXTENDS Integers

CONSTANTS
    N,      \* size of the identifier space, 2^16 in the code (uint16_t)
    Nodes,  \* ids of the nodes of the ring (self.id of each process)
    Pred,   \* Pred[n]: PRED_ID of node n
    Succ    \* Succ[n]: SUCC_ID of node n

Ids == 0 .. N - 1

\* Steps clockwise from a to b in the identifier circle.
Dist(a, b) == IF b >= a THEN b - a ELSE b - a + N

(***************************************************************************)
(* The configuration of one consistent ring: every successor is the first  *)
(* node met clockwise, predecessors are the inverse of successors, and a   *)
(* node is its own successor only when it is alone.                        *)
(***************************************************************************)
ASSUME RingAssumption ==
    /\ N \in Nat \ {0}
    /\ Nodes \subseteq Ids
    /\ Nodes # {}
    /\ Pred \in [Nodes -> Nodes]
    /\ Succ \in [Nodes -> Nodes]
    /\ \A n \in Nodes : Pred[Succ[n]] = n /\ Succ[Pred[n]] = n
    /\ \A n \in Nodes : Succ[n] = n => Nodes = {n}
    /\ \A n, m \in Nodes : m # n => Dist(n, Succ[n]) <= Dist(n, m)

----------------------------------------------------------------------------
(***************************************************************************)
(* What the ring is meant to compute, independently of the code: a hash    *)
(* belongs to the first node met clockwise from it.                        *)
(***************************************************************************)
Owns(n, h) == \A m \in Nodes : Dist(h, n) <= Dist(h, m)

Owner(h) == CHOOSE n \in Nodes : Owns(n, h)

----------------------------------------------------------------------------
\* The wrap-around interval taken for the plain one as well.
is_responsible_without_wrap_case(hash, self_id, pred_id) ==
    hash > pred_id \/ hash <= self_id

\* The lower end of the interval included.
is_responsible_lower_inclusive(hash, self_id, pred_id) ==
    IF pred_id < self_id THEN hash >= pred_id /\ hash <= self_id
                         ELSE hash >= pred_id \/ hash <= self_id

\* The upper end of the interval excluded.
is_responsible_upper_exclusive(hash, self_id, pred_id) ==
    IF pred_id < self_id THEN hash > pred_id /\ hash < self_id
                         ELSE hash > pred_id \/ hash < self_id

\* is_responsible(): (pred_id, self_id], wrapping around 0.
is_responsible(hash, self_id, pred_id) ==
    IF pred_id < self_id THEN hash > pred_id /\ hash <= self_id
                         ELSE hash > pred_id \/ hash <= self_id

\* process_packet()'s test for a ring of one node.
single_node(n) == \/ Pred[n] = n /\ Succ[n] = n
                  \/ Pred[n] = 0 /\ Succ[n] = 0

\* A neighbour mistaken for the node itself.
two_node_ring_self(n) == Succ[n] = n

\* process_packet()'s test for a ring of two nodes.
two_node_ring(n) == Succ[n] = Pred[n]

\* The request is handled here (process_packet(), `responsible`).
responsible(n, hash) == single_node(n) \/ is_responsible(hash, n, Pred[n])

\* No node but an isolated one has the id 0 for both of its neighbours, the
\* configuration single_node cannot tell from a missing one.
NoZeroPair == \A n \in Nodes : Pred[n] = 0 /\ Succ[n] = 0 => n = 0
=============================================================================
