--------------------------- MODULE TcpHttpServer ---------------------------
(***************************************************************************)
(* The plain TCP server: main() accepts one connection after the other and *)
(* get_messages_and_send() answers the messages in the buffer from a list  *)
(* of resources that lives as long as the process.  Clients send messages  *)
(* that arrive in arbitrary segments.                                      *)
(***************************************************************************)
EXTENDS TcpFraming, SequencesExt

CONSTANTS
    Clients,
    NoClient,     \* no connection
    Scripts,      \* what clients may send: script[c], the messages of client c
    Resetting,    \* clients that may reset their connection
    Names,        \* names of dynamic resources, other than ""
    StaticNames,  \* names of the resources compiled in
    NULL,         \* the null pointer
    SIZE,         \* sizeof(buff) (8192), in symbols
    MaxFaults,    \* bound: allocations and send() calls that fail
    MaxSegments   \* bound: MaxSegments[c], in how many segments c's messages arrive

Sendable == UNION {UNION {Range(s[c]) : c \in Clients} : s \in Scripts}
Symbols == UNION {Range(m) : m \in Sendable}

ASSUME TcpAssumption ==
    /\ NoClient \notin Clients /\ Resetting \subseteq Clients
    /\ \A s \in Scripts : s \in [Clients -> Seq(Seq(Symbols))]
    /\ "" \notin Names /\ NULL \notin Names /\ IsFiniteSet(Names)
    /\ \A l \in DOMAIN Request :
           \/ Request[l].method = "other"
           \/ /\ Request[l].method \in {"GET", "PUT", "DELETE"}
              /\ Request[l].dir \in {"static", "dynamic", "other"}
              /\ Request[l].dir = "dynamic" => Request[l].name \in Names \cup {""}
    /\ \A l \in DOMAIN Length : Length[l] \in Nat
    /\ SIZE \in Nat \ {0} /\ HEADER_BLOCK \in Nat
    /\ MaxFaults \in Nat /\ MaxSegments \in [Clients -> Nat]

VARIABLES
    \* the process
    pc,            \* "accept", "recv", "messages" or "crashed"
    new_fd,        \* the client connected, or NoClient
    buff,          \* buff up to buf_len
    resource_list, \* the nodes, [filename, content], from the head
    faults,        \* failures so far
    \* history
    result,        \* the last call on the list and what it returned
    consumed,      \* symbols of the client's stream answered and discarded
    answers,       \* answers[c]: the answers sent to c
    closed,        \* clients whose connection the server has closed
    \* the kernel and the clients
    backlog,       \* connections not yet accepted, in order
    received,      \* received[c]: bytes of c that arrived and are unread
    script,        \* script[c]: the messages c sends, one after the other
    sent,          \* sent[c]: symbols of c's stream sent
    segments,      \* segments[c]: segments in which they arrived
    mode           \* mode[c]: "new", "open", "done" (closed its side) or "reset"

store  == <<resource_list, faults, result>>
talk   == <<consumed, answers>>
peers  == <<backlog, received, script, sent, segments, mode>>
vars   == <<pc, new_fd, buff, store, talk, closed, peers>>

Stream(c) == FlattenSeq(script[c])

Returned(op, k, r) == [op |-> op, key |-> k, ret |-> r]

Init ==
    /\ pc = "accept"
    /\ new_fd = NoClient
    /\ buff = <<>>
    /\ resource_list = <<>>
    /\ faults = 0
    /\ result = Returned("none", NULL, NULL)
    /\ consumed = 0
    /\ answers = [c \in Clients |-> <<>>]
    /\ closed = {}
    /\ backlog = <<>>
    /\ received = [c \in Clients |-> <<>>]
    /\ script \in Scripts
    /\ segments = [c \in Clients |-> 0]
    /\ sent = [c \in Clients |-> 0]
    /\ mode = [c \in Clients |-> "new"]

----------------------------------------------------------------------------
(* Clients and network.                                                    *)

Connect(c) ==
    /\ mode[c] = "new"
    /\ mode' = [mode EXCEPT ![c] = "open"]
    /\ backlog' = Append(backlog, c)
    /\ UNCHANGED <<pc, new_fd, buff, store, talk, closed, received, script, sent, segments>>

\* The next segment of the stream of c, of any length, arrives.
Segment(c) ==
    /\ mode[c] = "open"
    /\ segments[c] < MaxSegments[c]
    /\ segments' = [segments EXCEPT ![c] = @ + 1]
    /\ \E n \in sent[c] + 1 .. Len(Stream(c)) :
          /\ sent' = [sent EXCEPT ![c] = n]
          /\ received' = [received EXCEPT
                 ![c] = IF c \in closed THEN @ ELSE @ \o SubSeq(Stream(c), sent[c] + 1, n)]
    /\ UNCHANGED <<pc, new_fd, buff, store, talk, closed, backlog, script, mode>>

\* c has nothing more to send, and still reads what it is sent.
Hangup(c) ==
    /\ mode[c] = "open"
    /\ mode' = [mode EXCEPT ![c] = "done"]
    /\ UNCHANGED <<pc, new_fd, buff, store, talk, closed, backlog, received, script, sent, segments>>

\* What c sent before it and the server has not read is lost.
Reset(c) ==
    /\ c \in Resetting /\ mode[c] = "open" /\ c \notin closed
    /\ mode' = [mode EXCEPT ![c] = "reset"]
    /\ UNCHANGED <<pc, new_fd, buff, store, talk, closed, backlog, received, script, sent, segments>>

----------------------------------------------------------------------------
(* main(): accept() and recv().                                            *)

\* What the last client left in the buffer stays there.
accept_keeping_buffer ==
    /\ pc = "accept" /\ backlog # <<>>
    /\ pc' = "recv"
    /\ new_fd' = Head(backlog)
    /\ consumed' = 0
    /\ backlog' = Tail(backlog)
    /\ UNCHANGED <<buff, store, answers, closed, received, script, sent, segments, mode>>

accept ==
    /\ pc = "accept" /\ backlog # <<>>
    /\ pc' = "recv"
    /\ new_fd' = Head(backlog)
    /\ buff' = <<>>
    /\ consumed' = 0
    /\ backlog' = Tail(backlog)
    /\ UNCHANGED <<store, answers, closed, received, script, sent, segments, mode>>

\* recv() may store the size of the whole buffer.
room_unreduced == SIZE

room == SIZE - Len(buff)

recv ==
    /\ pc = "recv" /\ mode[new_fd] # "reset"
    /\ LET n == Min({room, Len(received[new_fd])}) IN
          /\ n > 0
          /\ buff' = buff \o SubSeq(received[new_fd], 1, n)
          /\ received' = [received EXCEPT ![new_fd] = SubSeq(@, n + 1, Len(@))]
    /\ pc' = "messages"
    /\ UNCHANGED <<new_fd, store, talk, closed, backlog, script, sent, segments, mode>>

\* An error of recv() ends the outer loop.
Leave_on_error == IF mode[new_fd] = "reset" THEN "crashed" ELSE "accept"

\* Either way close() and back to accept().
Leave == "accept"

\* recv() returned 0, at the end of the stream or without room for a byte, or
\* -1: the connection is closed.
recv_ends ==
    /\ pc = "recv"
    /\ \/ mode[new_fd] = "reset"
       \/ mode[new_fd] = "done" /\ received[new_fd] = <<>>
       \/ room = 0
    /\ pc' = Leave
    /\ new_fd' = NoClient
    /\ closed' = closed \cup {new_fd}
    /\ UNCHANGED <<buff, store, talk, peers>>

----------------------------------------------------------------------------
(* get_code(): what a message does to the list of resources.               *)

\* What a message comes to: the code, the list, the failed allocations used up
\* and the call on the list.
Outcome(code, list, failures, call) ==
    [code |-> code, list |-> list, failures |-> failures, call |-> call]

Just(code) == {Outcome(code, resource_list, 0, result)}

\* The node that a search for name n stops at: strcmp() does not survive a node
\* that has no name.
Found(n) == SelectInSeq(resource_list, LAMBDA node : node.filename \in {n, NULL})

Faulty(n) ==
    Found(n) # 0 /\ resource_list[Found(n)].filename = NULL

\* my_strdup(), whose result nobody looks at.
Copies(s) == {[string |-> s, failures |-> 0], [string |-> NULL, failures |-> 1]}

get_dynamic_ressource(n) ==
    IF n = "" THEN Just(404)
    ELSE IF Found(n) = 0
    THEN {Outcome(404, resource_list, 0, Returned("get", n, NULL))}
    ELSE {Outcome(200, resource_list, 0,
                  Returned("get", n, resource_list[Found(n)].content))}

overwrite(n, body) ==
    {Outcome(204, [resource_list EXCEPT ![Found(n)].content = copy.string],
             copy.failures, Returned("set", n, TRUE)) : copy \in Copies(body)}

\* A new node becomes the head.
new_head(filename, content) == <<[filename |-> filename, content |-> content]>> \o resource_list

create(n, body) ==
    {Outcome(201, new_head(name.string, copy.string), name.failures + copy.failures,
             Returned("set", n, FALSE)) :
         name \in Copies(n), copy \in Copies(body)}
    \cup {Outcome(500, resource_list, 1, result)}

put(n, body) == IF Found(n) # 0 THEN overwrite(n, body) ELSE create(n, body)

\* The head is unlinked, whichever node was found.
unlink_head(i) == Tail(resource_list)
unlink(i) == RemoveAt(resource_list, i)

delete(n) ==
    IF Found(n) = 0
    THEN {Outcome(404, resource_list, 0, Returned("delete", n, FALSE))}
    ELSE {Outcome(204, unlink(Found(n)), 0, Returned("delete", n, TRUE))}

check_dynamic_resource(r, body) ==
    CASE r.dir # "dynamic" -> Just(403)
      [] r.dir = "dynamic" /\ r.name = "" -> Just(404)
      [] r.dir = "dynamic" /\ r.name # "" /\ r.method = "PUT" -> put(r.name, body)
      [] r.dir = "dynamic" /\ r.name # "" /\ r.method = "DELETE" -> delete(r.name)

check_static_resource(n) == Just(IF n \in StaticNames THEN 200 ELSE 404)

get_code(m) ==
    LET r == check_first_line(m) IN
    CASE r.method = "malformed" -> Just(400)
      [] r.method = "GET" /\ r.dir = "static" -> check_static_resource(r.name)
      [] r.method = "GET" /\ r.dir = "dynamic" -> get_dynamic_ressource(r.name)
      [] r.method = "GET" /\ r.dir = "other" -> Just(404)
      [] r.method \in {"PUT", "DELETE"} -> check_dynamic_resource(r, get_body(m))
      [] r.method = "other" -> Just(501)

\* The search meets a node without a name, or the content to send is missing.
Crashes(m) ==
    LET r == check_first_line(m) IN
    /\ r.method \in {"GET", "PUT", "DELETE"} /\ r.dir = "dynamic" /\ r.name # ""
    /\ \/ Faulty(r.name)
       \/ /\ r.method = "GET" /\ Found(r.name) # 0
          /\ resource_list[Found(r.name)].content = NULL

----------------------------------------------------------------------------
(* get_messages_and_send(): one turn of its loop.                          *)

\* "HTTP/1.1 501 Not Implemented" is sent for every other code.
Status(code) == IF code \in {200, 201, 204, 400, 403, 404} THEN code ELSE 501

\* The message has been answered and leaves the buffer.
Replied(m, code) ==
    /\ mode[new_fd] # "reset"
    /\ answers' = [answers EXCEPT ![new_fd] =
           Append(@, [upto |-> consumed + Len(m), status |-> Status(code)])]
    /\ consumed' = consumed + Len(m)
    /\ buff' = SubSeq(buff, Len(m) + 1, Len(buff))
    /\ UNCHANGED pc

\* send() failed: the message has been carried out, and stays in the buffer.
Unreplied ==
    /\ pc' = "recv"
    /\ UNCHANGED <<buff, talk>>

message ==
    /\ pc = "messages" /\ Complete(buff)
    /\ \E m \in {SubSeq(buff, 1, total_len(buff))} :
          /\ ~Crashes(m)
          /\ \E o \in get_code(m), send_failures \in {0, 1} :
                /\ faults' = faults + o.failures + send_failures
                /\ faults' <= MaxFaults
                /\ resource_list' = o.list
                /\ result' = o.call
                /\ \/ send_failures = 0 /\ Replied(m, o.code)
                   \/ mode[new_fd] = "reset" /\ send_failures = 0 /\ Unreplied
                   \/ send_failures = 1 /\ Unreplied
    /\ UNCHANGED <<new_fd, closed, peers>>

\* No complete message is left.
no_message ==
    /\ pc = "messages" /\ ~Complete(buff)
    /\ pc' = "recv"
    /\ UNCHANGED <<new_fd, buff, store, talk, closed, peers>>

crash ==
    /\ pc = "messages" /\ Complete(buff)
    /\ Crashes(SubSeq(buff, 1, total_len(buff)))
    /\ pc' = "crashed"
    /\ UNCHANGED <<new_fd, buff, store, talk, closed, peers>>

----------------------------------------------------------------------------
Environment == \E c \in Clients : Connect(c) \/ Segment(c) \/ Hangup(c) \/ Reset(c)

Server == accept \/ recv \/ recv_ends \/ message \/ no_message \/ crash

Next == Environment \/ Server

Spec == Init /\ [][Next]_vars

\* The process is not waiting for a connection or for data, ...
Runnable ==
    \/ pc = "accept" /\ backlog # <<>>
    \/ pc = "recv" /\ (received[new_fd] # <<>> \/ mode[new_fd] \in {"done", "reset"} \/ room = 0)
    \/ pc = "messages"

\* ... and takes a step, told from those of its environment by what it changes.
Turn ==
    /\ Runnable
    /\ pc' \in {"accept", "recv", "messages", "crashed"}
    /\ consumed' \in 0 .. consumed + Len(buff)

\* The operating system runs the process; a client may stay connected and
\* silent for ever.
FairSpec == Spec /\ WF_<<pc, consumed>>(Turn)

----------------------------------------------------------------------------
(* Properties.                                                             *)

Bodies == {get_body(m) : m \in Sendable}

Nodes == [filename : Names \cup {NULL}, content : Bodies \cup {NULL}]

TypeOK ==
    /\ pc \in {"accept", "recv", "messages", "crashed"}
    /\ new_fd \in Clients \cup {NoClient}
    /\ pc = "accept" <=> new_fd = NoClient
    /\ Len(buff) <= SIZE
    /\ \A i \in DOMAIN resource_list : resource_list[i] \in Nodes
    /\ faults \in 0 .. MaxFaults
    /\ closed \subseteq Clients
    /\ \A c \in Clients : sent[c] \in 0 .. Len(Stream(c)) /\ segments[c] \in 0 .. MaxSegments[c]
    /\ mode \in [Clients -> {"new", "open", "done", "reset"}]

\* The buffer and the unread data continue the stream where the last answered
\* message ended: nothing is lost, repeated or left over from another client,
\* also when send() failed and the message is tried again (webserver.c:51-66,
\* message_handler.c:586-591).
BufferContinuesStream ==
    new_fd # NoClient =>
        buff \o received[new_fd] = SubSeq(Stream(new_fd), consumed + 1, sent[new_fd])

\* Every message is as long as its header says.
FramedMessages == \A m \in Sendable : Complete(m) /\ total_len(m) = Len(m)

\* Where the n-th message of c ends in its stream.
EndOf(c, n) == Len(FlattenSeq(SubSeq(script[c], 1, n)))

\* However the stream is cut into segments, and also after a malformed message,
\* every message is answered once and in order, none is cut and no payload is
\* taken for a message.
AnswersFollowMessages ==
    \A c \in Clients : /\ Len(answers[c]) <= Len(script[c])
                       /\ \A n \in DOMAIN answers[c] : answers[c][n].upto = EndOf(c, n)

Content(n) ==
    IF \E i \in DOMAIN resource_list : resource_list[i].filename = n
    THEN resource_list[SelectInSeq(resource_list, LAMBDA node : node.filename = n)].content
    ELSE NULL

Contents == [n \in Names |-> Content(n)]

D == INSTANCE Dictionary WITH
    Keys <- Names, Values <- Bodies, NoValue <- NULL,
    Capacity <- Cardinality(Names) + 1,
    InitialContents <- [n \in Names |-> NULL],
    dict <- Contents

\* No copy made by my_strdup() is missing.
Intact == \A i \in DOMAIN resource_list :
    resource_list[i].filename # NULL /\ resource_list[i].content # NULL

\* As long as every string could be copied, the list is a dictionary that
\* all clients share, whatever nodes come and go, and whichever requests are
\* carried out again because their answer could not be sent.
DictionaryWhileIntact ==
    D!Init /\ [][Intact /\ Intact' => D!Next \/ UNCHANGED D!vars]_vars

ClientsHangUp == \A c \in Clients : []<>(mode[c] # "open")

\* The messages of c before the first that is longer than the buffer.
Answerable(c) ==
    Max({n \in 0 .. Len(script[c]) : \A i \in 1 .. n : Len(script[c][i]) <= SIZE})

\* If no client keeps its connection for ever and nothing fails, whoever has
\* sent everything gets all its answers, although only one connection is
\* served at a time and others may be reset or fill the buffer.
AllServed ==
    ClientsHangUp /\ [](faults = 0) =>
        \A c \in Clients :
            mode[c] = "open" /\ sent[c] = Len(Stream(c)) ~>
                mode[c] = "reset" \/ Len(answers[c]) = Answerable(c)
=============================================================================
