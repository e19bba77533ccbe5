----------------------------- MODULE Dictionary -----------------------------
(***************************************************************************)
(* What data.h promises its caller: a dictionary.  get() returns the value *)
(* or NULL, set() whether a value was overwritten, delete() whether the    *)
(* key existed.  A new key for which there is no room is refused silently. *)
(* ChordRing uses the resource table of a node as this.                    *)
(***************************************************************************)
EXTENDS Integers, FiniteSets

CONSTANTS Keys, Values, NoValue, InitialContents, Capacity

VARIABLES
    dict,   \* dict[k]: the value of k, or NoValue
    result  \* what the last call was and what it returned

vars == <<dict, result>>

Returned(op, k, r) == [op |-> op, key |-> k, ret |-> r]

Held == {k \in Keys : dict[k] # NoValue}

Init ==
    /\ dict = InitialContents
    /\ result = Returned("none", NoValue, NoValue)

Get(k) ==
    /\ result' = Returned("get", k, dict[k])
    /\ UNCHANGED dict

Set(k, v) ==
    /\ k \in Held \/ Cardinality(Held) < Capacity
    /\ result' = Returned("set", k, k \in Held)
    /\ dict' = [dict EXCEPT ![k] = v]

Refuse(k) ==
    /\ k \notin Held
    /\ Cardinality(Held) = Capacity
    /\ result' = Returned("set", k, FALSE)
    /\ UNCHANGED dict

Delete(k) ==
    /\ result' = Returned("delete", k, k \in Held)
    /\ dict' = [dict EXCEPT ![k] = NoValue]

Next == \E k \in Keys : Get(k) \/ Delete(k) \/ Refuse(k) \/ \E v \in Values : Set(k, v)

Spec == Init /\ [][Next]_vars
=============================================================================
