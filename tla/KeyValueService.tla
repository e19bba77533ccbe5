-------------------------- MODULE KeyValueService --------------------------
(***************************************************************************)
(* What a client of the ring is promised, whichever node it asks: one      *)
(* dictionary, on which every request takes effect once, atomically, some  *)
(* time between being issued and being answered.  ChordRing implements it. *)
(***************************************************************************)
CONSTANTS
    Clients,
    Keys,
    Values,
    NoValue,        \* the key is absent
    Requests,       \* records [method, key, value] a client may issue
    NoRequest,      \* the client is idle
    MayDrop,        \* a new key may be answered 201 and not be stored
    InitialContents \* in [Keys -> Values \cup {NoValue}]

VARIABLES
    kv,       \* the dictionary
    request,  \* request[c]: what client c is waiting for, or NoRequest
    answer    \* answer[c]: the final answer it got, or NoAnswer

vars == <<kv, request, answer>>

NoAnswer == [status |-> 0, body |-> NoValue]

Init ==
    /\ kv = InitialContents
    /\ request = [c \in Clients |-> NoRequest]
    /\ answer = [c \in Clients |-> NoAnswer]

Issue(c) ==
    /\ request[c] = NoRequest
    /\ \E r \in Requests : request' = [request EXCEPT ![c] = r]
    /\ UNCHANGED <<kv, answer>>

\* The request of c takes effect on the dictionary and is answered.
Commit(c) ==
    LET k == request[c].key
        Answer(status, body) ==
            answer' = [answer EXCEPT ![c] = [status |-> status, body |-> body]]
    IN
    /\ request[c] # NoRequest
    /\ answer[c] = NoAnswer
    /\ \/ /\ request[c].method = "GET"
          /\ IF kv[k] # NoValue THEN Answer(200, kv[k]) ELSE Answer(404, NoValue)
          /\ UNCHANGED kv
       \/ /\ request[c].method = "PUT"
          /\ \/ kv' = [kv EXCEPT ![k] = request[c].value]
             \/ MayDrop /\ kv[k] = NoValue /\ UNCHANGED kv
          /\ Answer(IF kv[k] # NoValue THEN 204 ELSE 201, NoValue)
       \/ /\ request[c].method = "DELETE"
          /\ kv' = [kv EXCEPT ![k] = NoValue]
          /\ Answer(IF kv[k] # NoValue THEN 204 ELSE 404, NoValue)
       \/ /\ request[c].method \notin {"GET", "PUT", "DELETE"}
          /\ Answer(501, NoValue)
          /\ UNCHANGED kv
    /\ UNCHANGED request

Finish(c) ==
    /\ answer[c] # NoAnswer
    /\ request' = [request EXCEPT ![c] = NoRequest]
    /\ answer' = [answer EXCEPT ![c] = NoAnswer]
    /\ UNCHANGED kv

Next == \E c \in Clients : Issue(c) \/ Commit(c) \/ Finish(c)

Spec == Init /\ [][Next]_vars
=============================================================================
