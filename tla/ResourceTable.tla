--------------------------- MODULE ResourceTable ---------------------------
(***************************************************************************)
(* The resource table of a node: an array of slots searched linearly,      *)
(* the first of which hold the resources compiled in.  The calls come from *)
(* send_reply(), one after the other.                                      *)
(***************************************************************************)
EXTENDS Integers

CONSTANTS
    Keys, Values,
    NULL,           \* the null pointer: no key, no value
    MAX_RESOURCES,  \* number of slots (100)
    Literals,       \* sequence of the keys compiled in
    LiteralValue,   \* LiteralValue[k]: the value compiled in for k
    Written         \* keys clients PUT and DELETE

Slots == 1 .. MAX_RESOURCES

ASSUME TableAssumption ==
    /\ MAX_RESOURCES \in Nat
    /\ NULL \notin Keys \cup Values
    /\ \E n \in 0 .. MAX_RESOURCES : Literals \in [1 .. n -> Keys]
    /\ \A i, j \in DOMAIN Literals : Literals[i] = Literals[j] => i = j
    /\ LiteralValue \in [Keys -> Values]
    /\ Written \subseteq Keys

VARIABLES
    resources, \* resources[i]: slot i, [key, value, literal]
    result,    \* the last call and what it returned
    aborted    \* free() was handed a string literal and ended the process

vars == <<resources, result, aborted>>

Empty == [key |-> NULL, value |-> NULL, literal |-> FALSE]

Returned(op, k, r) == [op |-> op, key |-> k, ret |-> r]

\* A used slot has a key and a value, a free one neither.
SlotType == [key : Keys, value : Values, literal : BOOLEAN] \cup {Empty}

TypeOK ==
    /\ resources \in [Slots -> SlotType]
    /\ aborted \in BOOLEAN

Init ==
    /\ resources = [i \in Slots |->
           IF i \in DOMAIN Literals
           THEN [key |-> Literals[i], value |-> LiteralValue[Literals[i]], literal |-> TRUE]
           ELSE Empty]
    /\ result = Returned("none", NULL, NULL)
    /\ aborted = FALSE

----------------------------------------------------------------------------
First(S) == CHOOSE i \in S : \A j \in S : i <= j

Holding(k) == {i \in Slots : resources[i].key = k}
Free       == {i \in Slots : resources[i].key = NULL}

get(k) ==
    /\ result' = Returned("get", k,
           IF Holding(k) # {} THEN resources[First(Holding(k))].value ELSE NULL)
    /\ UNCHANGED <<resources, aborted>>

Literal(k) == resources[First(Holding(k))].literal

\* set() and delete() free what they find; a string literal was never
\* allocated, and free() ends the process.
free_literal(k) ==
    /\ Holding(k) # {}
    /\ Literal(k)
    /\ aborted' = TRUE
    /\ UNCHANGED <<resources, result>>

overwrite(k, v) ==
    /\ Holding(k) # {}
    /\ ~Literal(k)
    /\ resources' = [resources EXCEPT ![First(Holding(k))].value = v]
    /\ result' = Returned("set", k, TRUE)
    /\ UNCHANGED aborted

\* A new slot is taken without looking for the key first.
add_without_find(k, v) ==
    /\ Free # {}
    /\ resources' = [resources EXCEPT
           ![First(Free)] = [key |-> k, value |-> v, literal |-> FALSE]]
    /\ result' = Returned("set", k, FALSE)
    /\ UNCHANGED aborted

add(k, v) ==
    /\ Holding(k) = {}
    /\ Free # {}
    /\ resources' = [resources EXCEPT
           ![First(Free)] = [key |-> k, value |-> v, literal |-> FALSE]]
    /\ result' = Returned("set", k, FALSE)
    /\ UNCHANGED aborted

\* "fail silently if no space for a new tuple is available"
fail_silently(k) ==
    /\ Holding(k) = {}
    /\ Free = {}
    /\ result' = Returned("set", k, FALSE)
    /\ UNCHANGED <<resources, aborted>>

set(k, v) == free_literal(k) \/ overwrite(k, v) \/ add(k, v) \/ fail_silently(k)

\* The value is not reset to NULL with the key.
delete_key_only(k) ==
    /\ Holding(k) # {}
    /\ ~Literal(k)
    /\ resources' = [resources EXCEPT ![First(Holding(k))].key = NULL]
    /\ result' = Returned("delete", k, TRUE)
    /\ UNCHANGED aborted

\* The slots that follow the deleted one are given up as well.
delete_truncating(k) ==
    /\ Holding(k) # {}
    /\ ~Literal(k)
    /\ resources' = [i \in Slots |->
           IF i >= First(Holding(k)) THEN Empty ELSE resources[i]]
    /\ result' = Returned("delete", k, TRUE)
    /\ UNCHANGED aborted

delete_found(k) ==
    /\ Holding(k) # {}
    /\ ~Literal(k)
    /\ resources' = [resources EXCEPT ![First(Holding(k))] = Empty]
    /\ result' = Returned("delete", k, TRUE)
    /\ UNCHANGED aborted

delete_missing(k) ==
    /\ Holding(k) = {}
    /\ result' = Returned("delete", k, FALSE)
    /\ UNCHANGED <<resources, aborted>>

delete(k) == free_literal(k) \/ delete_found(k) \/ delete_missing(k)

Next ==
    /\ ~aborted
    /\ \/ \E k \in Keys : get(k)
       \/ \E k \in Written : delete(k) \/ \E v \in Values : set(k, v)

Spec == Init /\ [][Next]_vars

----------------------------------------------------------------------------
\* No key is stored twice, although slots are freed and reused in any order:
\* otherwise find() would bring an old value back after a DELETE.
UniqueKeys ==
    \A i, j \in Slots :
        resources[i].key = resources[j].key /\ resources[i].key # NULL => i = j

\* The table as a dictionary.
Contents == [k \in Keys |->
    IF Holding(k) # {} THEN resources[First(Holding(k))].value ELSE NULL]

D == INSTANCE Dictionary WITH
    dict <- Contents,
    NoValue <- NULL,
    Capacity <- MAX_RESOURCES,
    InitialContents <- [k \in Keys |->
        IF \E i \in DOMAIN Literals : Literals[i] = k THEN LiteralValue[k] ELSE NULL]

\* Whatever holes the array has, its calls answer and change it as those of a
\* dictionary that can hold MAX_RESOURCES keys, up to the call that aborts.
ImplementsDictionary == D!Spec
=============================================================================
