---------------------------- MODULE MCChordRing ----------------------------
(* Instances of ChordRing for TLC: rings of one to four nodes.             *)
EXTENDS ChordRing, TLC

CONSTANTS c1, c2, c3, kA, kB, kS, v1, v2

\* The first node met clockwise after n; n itself when it is alone.
MCSucc == [n \in Nodes |->
    IF Nodes = {n} THEN n
    ELSE CHOOSE m \in Nodes \ {n} : \A x \in Nodes \ {n} : Dist(n, m) <= Dist(n, x)]
MCPred == [n \in Nodes |-> CHOOSE m \in Nodes : MCSucc[m] = n]

\* Two keys and a resource compiled into every node.
MCHash == (kA :> 0) @@ (kB :> 5 % N) @@ (kS :> 2)
MCInitResources == [k \in Keys |-> IF k = kS THEN v1 ELSE NoValue]

Get(k)     == [method |-> "GET", key |-> k, value |-> v1]
Anyone(rs) == [c \in Clients |-> rs]

\* Every operation on kA, a second key elsewhere, the static resource.
MCRequests == Anyone(
    {[method |-> "PUT", key |-> kA, value |-> v] : v \in Values}
        \cup {[method |-> m, key |-> kB, value |-> v1] : m \in {"PUT", "POST"}}
        \cup {[method |-> "DELETE", key |-> kA, value |-> v1]}
        \cup {Get(k) : k \in Keys})

\* What routing depends on: two keys with different owners.
MCRoutingRequests == Anyone({Get(kA), Get(kB)})

\* What the dictionary depends on: operations that disturb each other on kA.
MCDataRequests == Anyone(
    {[method |-> m, key |-> kA, value |-> v1] : m \in {"PUT", "DELETE"}}
        \cup {Get(kA), Get(kS)})

\* Three clients, each with a key of another node.
MCOneKeyEach == (c1 :> {Get(kA)}) @@ (c2 :> {Get(kB)}) @@ (c3 :> {Get(kS)})

\* Right and wrong replies, lookups for own and foreign hashes, an unknown
\* message type.
MCForeignMsgs ==
    LET m == Succ[AnyNode] IN
    {[flags |-> LOOKUP, id |-> 0, peer |-> m, to |-> n] : n \in Nodes}
    \cup {[flags |-> REPLY, id |-> 0, peer |-> n, to |-> m] : n \in Nodes}
    \cup {[flags |-> 2, id |-> 0, peer |-> m, to |-> m]}

MCSymmetry == Permutations(Clients)
=============================================================================
