------------------------------- MODULE Tally -------------------------------
(***************************************************************************)
(* What hashmap.h promises: tables of counts that are created and freed,   *)
(* and calls that read and change the count of one key.  HashMap           *)
(* implements it with buckets of linked lists.                             *)
(***************************************************************************)
EXTENDS Integers, FiniteSets

CONSTANTS Maps, Keys, Counts, NoCount, NoKey

VARIABLES
    open,    \* the tables created and not freed
    counts,  \* counts[m][k]: the count of k in m, or NoCount
    result   \* the last call and what it returned

vars == <<open, counts, result>>

Returned(op, m, k, r) == [op |-> op, map |-> m, key |-> k, ret |-> r]

Held(m) == {k \in Keys : counts[m][k] # NoCount}

Init ==
    /\ open = {}
    /\ counts = [m \in Maps |-> [k \in Keys |-> NoCount]]
    /\ \E m \in Maps : result = Returned("none", m, NoKey, 0)

Emptied(m) == counts' = [counts EXCEPT ![m] = [k \in Keys |-> NoCount]]

Create(m) ==
    /\ result' = Returned("create", m, NoKey, 1)
    /\ m \notin open
    /\ open' = open \cup {m}
    /\ UNCHANGED counts

Free(m) ==
    /\ result' = Returned("free", m, NoKey, 0)
    /\ open' = open \ {m}
    /\ Emptied(m)

Clear(m) ==
    /\ result' = Returned("clear", m, NoKey, 0)
    /\ Emptied(m)
    /\ UNCHANGED open

Add(m, k, delta) ==
    /\ result' = Returned("put_inc", m, k, 0)
    /\ m \in open
    /\ counts' = [counts EXCEPT ![m][k] = IF k \in Held(m) THEN @ + delta ELSE delta]
    /\ UNCHANGED open

Set(m, k, n) ==
    /\ result' = Returned("set", m, k, 0)
    /\ m \in open
    /\ counts' = [counts EXCEPT ![m][k] = n]
    /\ UNCHANGED open

Remove(m, k) ==
    /\ result' = Returned("remove", m, k, IF k \in Held(m) THEN 1 ELSE 0)
    /\ counts' = [counts EXCEPT ![m][k] = NoCount]
    /\ UNCHANGED open

Get(m, k) ==
    /\ result' = Returned("get", m, k, counts[m][k])
    /\ UNCHANGED <<open, counts>>

EntryCount(m) ==
    /\ result' = Returned("entry_count", m, NoKey, Cardinality(Held(m)))
    /\ UNCHANGED <<open, counts>>

\* The additions of a merge are done.
Merged(m) ==
    /\ result' = Returned("merge", m, NoKey, 0)
    /\ m \in open
    /\ UNCHANGED <<open, counts>>

\* A call on a table that does not exist.
Refuse(m) ==
    /\ m \notin open
    /\ \E op \in {"put_inc", "set", "merge"}, k \in Keys \cup {NoKey} :
           result' = Returned(op, m, k, -1)
    /\ UNCHANGED <<open, counts>>

Next == \E m \in Maps :
    \/ Create(m) \/ Free(m) \/ Clear(m) \/ EntryCount(m) \/ Merged(m) \/ Refuse(m)
    \/ \E k \in Keys : \/ Remove(m, k) \/ Get(m, k)
                       \/ \E n \in Counts : Add(m, k, n) \/ Set(m, k, n)

\* No memory: the call reports that it failed, or that there is no such key,
\* and has no effect.
Fail ==
    /\ \E m \in Maps, k \in Keys \cup {NoKey} :
           \/ \E op \in {"put_inc", "set", "merge"} : result' = Returned(op, m, k, -1)
           \/ \E op \in {"create", "remove"} : result' = Returned(op, m, k, 0)
           \/ result' = Returned("get", m, k, NoCount)
    /\ UNCHANGED <<open, counts>>

Spec == Init /\ [][Next]_vars
=============================================================================
