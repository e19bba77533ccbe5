------------------------------ MODULE HashMap ------------------------------
(***************************************************************************)
(* The table of counts of a word-count worker: an array of buckets, each a *)
(* singly linked list of nodes (hashmap.c, linked_list.c).  Calls come one *)
(* after the other from one thread; any allocation may find no memory.     *)
(***************************************************************************)
EXTENDS Integers, SequencesExt

CONSTANTS
    Maps,      \* the tables of the program
    Counting,  \* those used as wordcount.c uses them: never set, never removed from
    Words,     \* strings that callers pass, in any case
    Lower,     \* Lower[w]: w in lower case, ll_strdup_lower()
    Hash,      \* Hash[k] = djb2_hash(k), the same for any case
    Sizes,     \* Sizes[m]: arguments of hm_create() for table m
    DEFAULT_N_BUCKETS,
    NULL,      \* the null pointer, an absent count or key
    MaxCount,  \* bound: sum of the counts of a word
    MaxFaults  \* bound: allocations that find no memory

Keys  == {Lower[w] : w \in Words}
Nodes == [key : Keys, count : Nat]

\* How many buckets hm_create(n) makes.
Buckets(n) == IF n = 0 THEN DEFAULT_N_BUCKETS ELSE n

ASSUME HashMapAssumption ==
    /\ Counting \subseteq Maps
    /\ Lower \in [Words -> Words] /\ \A w \in Words : Lower[Lower[w]] = Lower[w]
    /\ Hash \in [Words -> Nat] /\ \A w \in Words : Hash[w] = Hash[Lower[w]]
    /\ Sizes \in [Maps -> SUBSET Nat]
    /\ DEFAULT_N_BUCKETS \in Nat \ {0}
    /\ MaxCount \in Nat /\ MaxFaults \in Nat
    /\ NULL \notin Nat
    /\ \A m \in Maps : \A n \in Sizes[m] : NULL \notin [0 .. Buckets(n) - 1 -> Seq(Nodes)]
    /\ NULL \notin [dst : Maps, todo : Seq(Nodes), goal : [Keys -> Nat]]

VARIABLES
    hm,       \* hm[m]: the buckets 0 .. n_buckets - 1 of table m, or NULL
    merging,  \* the merge under way: [dst, todo, goal], or NULL
    result,   \* the last call and what it returned
    faults,   \* allocations that found no memory
    added     \* history: what the calls of hm_put_inc() that returned 0 added up to

vars == <<hm, merging, result, faults, added>>

Node(k, n) == [key |-> k, count |-> n]

Returned(op, m, k, r) == [op |-> op, map |-> m, key |-> k, ret |-> r]

Nothing == [k \in Keys |-> 0]

Init ==
    /\ hm = [m \in Maps |-> NULL]
    /\ merging = NULL
    /\ \E m \in Maps : result = Returned("none", m, NULL, 0)
    /\ faults = 0
    /\ added = [m \in Maps |-> Nothing]

Exists(m) == hm[m] # NULL

n_buckets(m) == Cardinality(DOMAIN hm[m])

bucket_index(m, w) == Hash[w] % n_buckets(m)

\* The nodes in the order in which they are visited.
hm_foreach(m) ==
    IF Exists(m) THEN FlattenSeq([i \in 1 .. n_buckets(m) |-> hm[m][i - 1]]) ELSE <<>>

\* Position of the first node whose key is w in lower case; 0 if there is none.
ll_find(list, w) == SelectInSeq(list, LAMBDA node : node.key = Lower[w])

Bucket(m, w) == hm[m][bucket_index(m, w)]
Position(m, w) == ll_find(Bucket(m, w), w)

\* The list without its j-th node.
unlink_and_drop_front(list, j) == SubSeq(list, j + 1, Len(list))
unlink(list, j) == RemoveAt(list, j)

SumIn(nodes, w) ==
    LET upto[i \in 0 .. Len(nodes)] ==
            IF i = 0 THEN 0
            ELSE upto[i - 1] + (IF nodes[i].key = Lower[w] THEN nodes[i].count ELSE 0)
    IN  upto[Len(nodes)]

\* What the nodes of word w in table m add up to.
Sum(m, w) == IF Exists(m) THEN SumIn(Bucket(m, w), w) ELSE 0

\* n more allocations find no memory.
NoMemory(n) ==
    /\ faults + n <= MaxFaults
    /\ faults' = faults + n

Idle == merging = NULL

----------------------------------------------------------------------------
(* Tables.                                                                 *)

hm_create(m, n) ==
    /\ Idle /\ ~Exists(m)
    /\ \/ /\ hm' = [hm EXCEPT ![m] = [i \in 0 .. Buckets(n) - 1 |-> <<>>]]
          /\ result' = Returned("create", m, NULL, 1)
          /\ UNCHANGED faults
       \/ /\ NoMemory(1)
          /\ result' = Returned("create", m, NULL, 0)
          /\ UNCHANGED hm
    /\ UNCHANGED <<merging, added>>

hm_free(m) ==
    /\ Idle
    /\ hm' = [hm EXCEPT ![m] = NULL]
    /\ result' = Returned("free", m, NULL, 0)
    /\ added' = [added EXCEPT ![m] = Nothing]
    /\ UNCHANGED <<merging, faults>>

hm_clear(m) ==
    /\ Idle
    /\ hm' = IF Exists(m) THEN [hm EXCEPT ![m] = [i \in DOMAIN @ |-> <<>>]] ELSE hm
    /\ result' = Returned("clear", m, NULL, 0)
    /\ added' = [added EXCEPT ![m] = Nothing]
    /\ UNCHANGED <<merging, faults>>

hm_entry_count(m) ==
    /\ Idle
    /\ result' = Returned("entry_count", m, NULL, Len(hm_foreach(m)))
    /\ UNCHANGED <<hm, merging, faults, added>>

\* hm_put_inc(), hm_set() and hm_merge() without a table.
call_without_table(m) ==
    /\ Idle /\ ~Exists(m)
    /\ \/ result' = Returned("merge", m, NULL, -1)
       \/ \E op \in {"put_inc", "set"}, k \in Keys : result' = Returned(op, m, k, -1)
    /\ UNCHANGED <<hm, merging, faults, added>>

----------------------------------------------------------------------------
(* Counts.                                                                 *)

\* The key is found.
ll_increment(m, w, delta) ==
    /\ Position(m, w) # 0
    /\ hm' = [hm EXCEPT ![m][bucket_index(m, w)][Position(m, w)].count = @ + delta]
    /\ UNCHANGED faults

ll_update(m, w, count) ==
    /\ Position(m, w) # 0
    /\ hm' = [hm EXCEPT ![m][bucket_index(m, w)][Position(m, w)].count = count]
    /\ UNCHANGED faults

\* The new node has the key as it was passed.
ll_insert_as_passed(m, w, n) ==
    /\ hm' = [hm EXCEPT ![m][bucket_index(m, w)] = <<Node(w, n)>> \o @]
    /\ IF Position(m, w) = 0 THEN UNCHANGED faults ELSE NoMemory(1)

\* The new node replaces the list.
ll_insert_alone(m, w, n) ==
    /\ hm' = [hm EXCEPT ![m][bucket_index(m, w)] = <<Node(Lower[w], n)>>]
    /\ IF Position(m, w) = 0 THEN UNCHANGED faults ELSE NoMemory(1)

\* A new node at the head: the key is not found, or ll_find() had no memory
\* for the copy it compares with and says so of a key that is there.
ll_insert(m, w, n) ==
    /\ hm' = [hm EXCEPT ![m][bucket_index(m, w)] = <<Node(Lower[w], n)>> \o @]
    /\ IF Position(m, w) = 0 THEN UNCHANGED faults ELSE NoMemory(1)

\* No memory for the new node or its key, and before, if the key is there, for
\* the copy to compare with.
ll_insert_fails(m, w) ==
    /\ NoMemory(IF Position(m, w) = 0 THEN 1 ELSE 2)
    /\ UNCHANGED hm

\* ret is what it returns.
ll_put_inc(m, w, delta, ret) ==
    \/ /\ ret = 0
       /\ ll_increment(m, w, delta) \/ ll_insert(m, w, delta)
       /\ added' = IF m \in Counting
                   THEN [added EXCEPT ![m][Lower[w]] = @ + delta] ELSE added
    \/ /\ ret = -1
       /\ ll_insert_fails(m, w)
       /\ UNCHANGED added

hm_put_inc(m, w, delta) ==
    /\ Idle /\ Exists(m)
    /\ Sum(m, w) + delta <= MaxCount
    /\ \E ret \in {0, -1} :
          /\ ll_put_inc(m, w, delta, ret)
          /\ result' = Returned("put_inc", m, Lower[w], ret)
    /\ UNCHANGED merging

hm_set(m, w, count) ==
    /\ Idle /\ Exists(m) /\ m \notin Counting
    /\ Sum(m, w) + count <= MaxCount
    /\ \/ /\ ll_update(m, w, count) \/ ll_insert(m, w, count)
          /\ result' = Returned("set", m, Lower[w], 0)
       \/ /\ ll_insert_fails(m, w)
          /\ result' = Returned("set", m, Lower[w], -1)
    /\ UNCHANGED <<merging, added>>

hm_get(m, w) ==
    LET held == Exists(m) /\ Position(m, w) # 0
        found == IF held THEN Bucket(m, w)[Position(m, w)].count ELSE NULL
    IN
    /\ Idle
    /\ \/ result' = Returned("get", m, Lower[w], found) /\ UNCHANGED faults
       \/ result' = Returned("get", m, Lower[w], NULL) /\ held /\ NoMemory(1)
    /\ UNCHANGED <<hm, merging, added>>

\* ll_remove() on the list of w: no function of hashmap.c calls it.
ll_remove(m, w) ==
    /\ Idle /\ Exists(m) /\ m \notin Counting
    /\ \/ /\ Position(m, w) # 0
          /\ hm' = [hm EXCEPT ![m][bucket_index(m, w)] = unlink(@, Position(m, w))]
          /\ result' = Returned("remove", m, Lower[w], 1)
          /\ UNCHANGED faults
       \/ /\ IF Position(m, w) = 0 THEN UNCHANGED faults ELSE NoMemory(1)
          /\ result' = Returned("remove", m, Lower[w], 0)
          /\ UNCHANGED hm
    /\ UNCHANGED <<merging, added>>

----------------------------------------------------------------------------
(* hm_merge(): one call of hm_put_inc() after the other.                   *)

\* Only the first node of each bucket is visited.
NodesToMerge_heads(m) ==
    SelectSeq(hm_foreach(m), LAMBDA node : node = Head(Bucket(m, node.key)))

\* The nodes that the two loops visit.  That they are fixed here, for a table
\* merged into itself too, changes nothing: a node's count is only added to at
\* or after the visit of the first node with its key.
NodesToMerge(m) == hm_foreach(m)

hm_merge(dst, src) ==
    /\ Idle /\ Exists(dst)
    /\ \A k \in Keys : Sum(dst, k) + Sum(src, k) <= MaxCount
    /\ merging' = [dst |-> dst, todo |-> NodesToMerge(src),
                   goal |-> [k \in Keys |-> Sum(dst, k) + Sum(src, k)]]
    /\ UNCHANGED <<hm, result, faults, added>>

merge_node ==
    /\ ~Idle /\ merging.todo # <<>>
    /\ LET dst == merging.dst
           node == Head(merging.todo)
       IN  \/ /\ ll_put_inc(dst, node.key, node.count, 0)
              /\ merging' = [merging EXCEPT !.todo = Tail(@)]
              /\ result' = Returned("put_inc", dst, node.key, 0)
           \/ /\ ll_put_inc(dst, node.key, node.count, -1)
              /\ merging' = NULL
              /\ result' = Returned("merge", dst, NULL, -1)

merge_done ==
    /\ ~Idle /\ merging.todo = <<>>
    /\ merging' = NULL
    /\ result' = Returned("merge", merging.dst, NULL, 0)
    /\ UNCHANGED <<hm, faults, added>>

----------------------------------------------------------------------------
Next ==
    \/ \E m \in Maps :
          \/ \E n \in Sizes[m] : hm_create(m, n)
          \/ hm_free(m) \/ hm_clear(m) \/ hm_entry_count(m) \/ call_without_table(m)
          \/ \E w \in Words :
                \/ hm_get(m, w) \/ ll_remove(m, w)
                \/ \E n \in 1 .. MaxCount : hm_put_inc(m, w, n) \/ hm_set(m, w, n)
          \/ \E src \in Maps : hm_merge(m, src)
    \/ merge_node \/ merge_done

Spec == Init /\ [][Next]_vars

----------------------------------------------------------------------------
(* Properties.                                                             *)

\* A node is in the bucket where its key is looked for, and its key is in
\* lower case.
TypeOK ==
    /\ \A m \in Maps : Exists(m) =>
          /\ DOMAIN hm[m] = 0 .. n_buckets(m) - 1 /\ n_buckets(m) > 0
          /\ \A i \in DOMAIN hm[m] : \A j \in DOMAIN hm[m][i] :
                LET node == hm[m][i][j] IN
                /\ node.key \in Keys /\ node.count \in 1 .. MaxCount
                /\ bucket_index(m, node.key) = i
    /\ merging # NULL => Exists(merging.dst)
    /\ faults \in 0 .. MaxFaults
    /\ added \in [Maps -> [Keys -> 0 .. MaxCount]]

\* In a table that is only counted in, every increment that was acknowledged
\* is in the table and no other, also after calls that found no memory, and
\* although a key may then be in its list twice: the nodes of a key add up.
AcknowledgedIsCounted ==
    \A m \in Counting, k \in Keys : Sum(m, k) = added[m][k]

\* At every point of a merge the destination and the nodes still to be merged
\* add up to what the two tables held, whatever their numbers of buckets, also
\* if a table is merged into itself: hm_merge() returns 0 only when everything
\* has been added once.
MergeConserves ==
    ~Idle => \A k \in Keys :
        Sum(merging.dst, k) + SumIn(merging.todo, k) = merging.goal[k]

NoDuplicates ==
    \A m \in Maps : Exists(m) => \A b \in DOMAIN hm[m] :
        \A i, j \in DOMAIN hm[m][b] : hm[m][b][i].key = hm[m][b][j].key => i = j

\* The tables there are, and what they hold of each key.
Open == {m \in Maps : Exists(m)}
Contents == [m \in Maps |-> [k \in Keys |->
                IF Exists(m) /\ Position(m, k) # 0 THEN Sum(m, k) ELSE NULL]]

T == INSTANCE Tally WITH
    open <- Open,
    counts <- Contents,
    Counts <- 1 .. MaxCount,
    NoCount <- NULL,
    NoKey <- NULL

\* The calls change and answer as those of a table of counts, for words in any
\* case, and a call that finds no memory has no effect.  That holds until
\* ll_find(), out of memory, lets a key be stored a second time, and again once
\* no key is ("If key exists: increments its count", hashmap.h:75).
ImplementsTally ==
    T!Init /\ [][NoDuplicates /\ NoDuplicates' =>
                    \/ T!Next \/ UNCHANGED T!vars
                    \/ faults' > faults /\ T!Fail]_vars
=============================================================================
