----------------------------- MODULE NodeServer -----------------------------
(***************************************************************************)
(* One chord-node process: the poll() loop of main() over the listening    *)
(* socket, the UDP socket and the single TCP connection it keeps, and the  *)
(* buffering of handle_connection().  Clients send byte streams that       *)
(* arrive in arbitrary segments.                                           *)
(***************************************************************************)
EXTENDS HttpFraming, FiniteSets

CONSTANTS
    Clients,
    NoClient,      \* file descriptor -1
    Streams,       \* Streams[c]: what client c may send, see HttpFraming
    HTTP_MAX_SIZE, \* size of the connection's buffer (8192), in symbols
    Splitting,     \* clients whose segments may end between '\r' and '\n'
    Resetting,     \* clients that may reset their connection
    MaxUdp,        \* bound: datagrams pending at once
    MaxSent        \* bound: datagrams sent in a behaviour

ASSUME ServerAssumption ==
    /\ NoClient \notin Clients
    /\ \A c \in Clients : Streams[c] \subseteq Seq(Symbols)
    /\ HTTP_MAX_SIZE \in Nat \ {0}
    /\ Splitting \subseteq Clients /\ Resetting \subseteq Clients
    /\ MaxUdp \in Nat /\ MaxSent \in Nat

VARIABLES
    \* the process
    accepting,  \* sockets[0].events: new connections are polled for
    connection, \* sockets[2].fd: the client connected, or NoClient
    state_sock, \* state.sock
    buffer,     \* state.buffer up to state.end
    consumed,   \* symbols of the client's stream answered and discarded
    revents,    \* slots still to be handled of the last poll()
    process,    \* "running", "stuck" in memstr(), or "exited"
    answers,    \* answers[c]: the answers sent to c
    served,     \* clients whose connection the node has closed
    \* the kernel
    backlog,    \* connections not yet accepted, in order
    received,   \* received[c]: bytes of c that arrived and are unread
    udp,        \* datagrams pending
    \* the clients
    stream,     \* stream[c]: what client c sends in this behaviour
    sent,       \* sent[c]: symbols of it sent
    mode,       \* mode[c]: "new", "open", "done" (closed its side) or "reset"
    datagrams   \* datagrams sent so far

node  == <<accepting, connection, state_sock, buffer, consumed, process, answers, served>>
peers == <<stream, sent, mode, datagrams>>
vars  == <<node, revents, backlog, received, udp, peers>>

AllStreams == UNION {Streams[c] : c \in Clients}

Init ==
    /\ accepting = TRUE
    /\ connection = NoClient
    /\ state_sock = NoClient
    /\ buffer = <<>>
    /\ consumed = 0
    /\ revents = {}
    /\ process = "running"
    /\ answers = [c \in Clients |-> <<>>]
    /\ served = {}
    /\ backlog = <<>>
    /\ received = [c \in Clients |-> <<>>]
    /\ udp = 0
    /\ stream \in [Clients -> AllStreams] /\ \A c \in Clients : stream[c] \in Streams[c]
    /\ sent = [c \in Clients |-> 0]
    /\ mode = [c \in Clients |-> "new"]
    /\ datagrams = 0

----------------------------------------------------------------------------
(* Clients and network.                                                    *)

Connect(c) ==
    /\ mode[c] = "new"
    /\ mode' = [mode EXCEPT ![c] = "open"]
    /\ backlog' = Append(backlog, c)
    /\ UNCHANGED <<node, revents, received, udp, stream, sent, datagrams>>

\* The next segment of the stream of c, of any length, arrives.
Segment(c) ==
    /\ mode[c] = "open"
    /\ \E n \in sent[c] + 1 .. Len(stream[c]) :
          /\ c \in Splitting \/ stream[c][n] # CR
          /\ sent' = [sent EXCEPT ![c] = n]
          /\ received' = [received EXCEPT
                 ![c] = IF c \in served THEN @ ELSE @ \o SubSeq(stream[c], sent[c] + 1, n)]
    /\ UNCHANGED <<node, revents, backlog, udp, stream, mode, datagrams>>

\* c has nothing more to send, and still reads what it is sent.
Hangup(c) ==
    /\ mode[c] = "open"
    /\ mode' = [mode EXCEPT ![c] = "done"]
    /\ UNCHANGED <<node, revents, backlog, received, udp, stream, sent, datagrams>>

Reset(c) ==
    /\ c \in Resetting
    /\ mode[c] = "open"
    /\ c \notin served
    /\ mode' = [mode EXCEPT ![c] = "reset"]
    /\ UNCHANGED <<node, revents, backlog, received, udp, stream, sent, datagrams>>

Datagram ==
    /\ udp < MaxUdp
    /\ datagrams < MaxSent
    /\ udp' = udp + 1
    /\ datagrams' = datagrams + 1
    /\ UNCHANGED <<node, revents, backlog, received, stream, sent, mode>>

----------------------------------------------------------------------------
(* The process.                                                            *)

Readable(c) == received[c] # <<>> \/ mode[c] \in {"done", "reset"}

Ready == {i \in 0 .. 2 :
    \/ i = 0 /\ accepting /\ backlog # <<>>
    \/ i = 1 /\ udp > 0
    \/ i = 2 /\ connection # NoClient /\ Readable(connection)}

poll ==
    /\ process = "running"
    /\ revents = {}
    /\ Ready # {}
    /\ revents' = Ready
    /\ UNCHANGED <<node, backlog, received, udp, peers>>

\* The loop over the sockets array: slot i is next.
Slot(i) ==
    /\ process = "running"
    /\ i \in revents
    /\ \A j \in revents : i <= j
    /\ revents' = revents \ {i}

\* The end of the last connection's data is kept.
accept_without_setup ==
    /\ Slot(0)
    /\ backlog # <<>>
    /\ backlog' = Tail(backlog)
    /\ connection' = Head(backlog)
    /\ state_sock' = Head(backlog)
    /\ accepting' = FALSE
    /\ consumed' = 0
    /\ UNCHANGED <<buffer, process, answers, served, received, udp, peers>>

\* Accepting goes on while a connection is active.
accept_many ==
    /\ Slot(0)
    /\ backlog # <<>>
    /\ backlog' = Tail(backlog)
    /\ connection' = Head(backlog)
    /\ state_sock' = Head(backlog)
    /\ buffer' = <<>>
    /\ consumed' = 0
    /\ UNCHANGED <<accepting, process, answers, served, received, udp, peers>>

\* accept() and connection_setup()
accept ==
    /\ Slot(0)
    /\ backlog # <<>>
    /\ backlog' = Tail(backlog)
    /\ connection' = Head(backlog)
    /\ state_sock' = Head(backlog)
    /\ accepting' = FALSE
    /\ buffer' = <<>>
    /\ consumed' = 0
    /\ UNCHANGED <<process, answers, served, received, udp, peers>>

\* The UDP socket is only drained between connections.
handle_udp_socket_when_idle ==
    /\ Slot(1)
    /\ udp' = IF connection = NoClient THEN 0 ELSE udp
    /\ UNCHANGED <<node, backlog, received, peers>>

\* Everything that is pending is read.
handle_udp_socket ==
    /\ Slot(1)
    /\ udp' = 0
    /\ UNCHANGED <<node, backlog, received, peers>>

\* The listening socket is not polled again.
CloseConnection_deaf ==
    /\ connection' = NoClient
    /\ served' = served \cup {connection}
    /\ UNCHANGED <<accepting, state_sock>>

\* The connection is closed and the next one may be accepted.
CloseConnection ==
    /\ accepting' = TRUE
    /\ connection' = NoClient
    /\ served' = served \cup {connection}
    /\ UNCHANGED state_sock

\* What was answered is not discarded from the buffer.
Buffered_without_discard(w, left) == w
Buffered(w, left) == SubSeq(w, left, Len(w))

\* recv() returned -1: the process ends.
recv_error ==
    /\ mode[connection] = "reset"
    /\ process' = "exited"
    /\ UNCHANGED <<accepting, connection, state_sock, buffer, consumed, answers, served,
                   received>>

\* recv() returned 0: end of stream, or no room left in the buffer.
recv_nothing(n) ==
    /\ mode[connection] # "reset"
    /\ n = 0
    /\ CloseConnection
    /\ UNCHANGED <<buffer, consumed, process, answers, received>>

\* Requests are answered from the window of buffered and new data.  (\E x \in
\* {e} has TLC evaluate e once.)
recv_some(n) ==
    LET c == connection IN
    \E w \in {buffer \o SubSeq(received[c], 1, n)} :
    \E p \in {AnswerWindow(w, consumed)} :
        /\ mode[c] # "reset"
        /\ n > 0
        /\ received' = [received EXCEPT ![c] = SubSeq(@, n + 1, Len(@))]
        /\ answers' = [answers EXCEPT ![c] = @ \o p.answers]
        /\ \/ /\ p.state = "open"
              /\ buffer' = Buffered(w, p.left)
              /\ consumed' = consumed + p.left - 1
              /\ UNCHANGED <<accepting, connection, state_sock, process, served>>
           \/ /\ p.state = "closed"
              /\ CloseConnection
              /\ UNCHANGED <<buffer, consumed, process>>
           \/ /\ p.state = "loops"
              /\ process' = "stuck"
              /\ UNCHANGED <<accepting, connection, state_sock, buffer, consumed, served>>

\* recv() is allowed the size of the whole buffer each time.
room_unreduced == HTTP_MAX_SIZE

\* What recv() may add to the buffer: buffer + HTTP_MAX_SIZE - end.
room == HTTP_MAX_SIZE - Len(buffer)

handle_connection ==
    LET unread == Len(received[connection])
        n == IF unread <= room THEN unread ELSE room
    IN
    /\ Slot(2)
    /\ connection # NoClient
    /\ recv_error \/ recv_nothing(n) \/ recv_some(n)
    /\ UNCHANGED <<backlog, udp, peers>>

----------------------------------------------------------------------------
Environment ==
    \/ Datagram
    \/ \E c \in Clients : Connect(c) \/ Segment(c) \/ Hangup(c) \/ Reset(c)

NodeStep == poll \/ accept \/ handle_udp_socket \/ handle_connection

Next == Environment \/ NodeStep

Spec == Init /\ [][Next]_vars

\* A step of the process, told from those of its environment by `revents': ENABLED
\* Turn is that the process has something to do.
Turn ==
    /\ process = "running"
    /\ revents # {} \/ Ready # {}
    /\ revents' \in SUBSET (0 .. 2) \ {revents}

\* The operating system runs the process; clients may stay connected and
\* silent for ever.
FairSpec == Spec /\ WF_revents(Turn)

----------------------------------------------------------------------------
(* Properties.                                                             *)

TypeOK ==
    /\ accepting \in BOOLEAN
    /\ {connection, state_sock} \subseteq Clients \cup {NoClient}
    /\ Len(buffer) <= HTTP_MAX_SIZE
    /\ consumed \in Nat
    /\ revents \subseteq 0 .. 2
    /\ process \in {"running", "stuck", "exited"}
    /\ served \subseteq Clients
    /\ udp \in 0 .. MaxUdp
    /\ \A c \in Clients : sent[c] \in 0 .. Len(stream[c])
    /\ mode \in [Clients -> {"new", "open", "done", "reset"}]

\* One connection at a time: the listening socket is polled exactly when there
\* is none, and an event on slot 2 is always for the connection whose buffer
\* this is (the assert in main()).
OneConnection ==
    /\ accepting <=> connection = NoClient
    /\ 2 \in revents => connection # NoClient
    /\ connection # NoClient => state_sock = connection

\* No byte of the client is lost, repeated or taken from another connection:
\* the buffer and the unread data continue the stream where the last answered
\* request ended (buffer_discard(), connection_setup()).
StreamPreserved ==
    connection # NoClient /\ process = "running" =>
        buffer \o received[connection] =
            SubSeq(stream[connection], consumed + 1, sent[connection])

\* The answers to stream s when it arrives in one piece, into a buffer of its size.
WholeAnswers == [s \in AllStreams |-> AnswerWindow(s, 0).answers]

\* However the stream is cut into segments, the client gets the answers it
\* would get if everything arrived at once, in order, up to some point.
SegmentationIndependent ==
    \A c \in Clients :
        /\ Len(answers[c]) <= Len(WholeAnswers[stream[c]])
        /\ answers[c] = SubSeq(WholeAnswers[stream[c]], 1, Len(answers[c]))

\* Those before the first request that is longer than the buffer.
FittingAnswers == [s \in AllStreams |->
    LET whole == WholeAnswers[s]
        size(i) == whole[i].upto - (IF i = 1 THEN 0 ELSE whole[i - 1].upto)
    IN  CHOOSE fitting \in {SubSeq(whole, 1, n) : n \in 0 .. Len(whole)} :
            /\ \A i \in DOMAIN fitting : size(i) <= HTTP_MAX_SIZE
            /\ fitting # whole => size(Len(fitting) + 1) > HTTP_MAX_SIZE]

\* No client keeps a connection open for ever.
ClientsHangUp == \A c \in Clients : []<>(mode[c] # "open")

\* Without a client that blocks all others, and as long as neither a reset nor a
\* line end cut in two stops the process, a client that has sent its whole
\* stream gets every answer up to a request that does not fit into the buffer,
\* although others hold the only connection for a while.
AllAnswered ==
    ClientsHangUp =>
        \A c \in Clients :
            mode[c] = "open" /\ sent[c] = Len(stream[c]) /\ c \notin served
                ~> answers[c] = FittingAnswers[stream[c]] \/ process # "running"

\* Datagrams are handled even while a client keeps its connection open and
\* says nothing ("udp_socket ... always active").
UdpServed == udp > 0 ~> udp = 0 \/ process # "running"

\* parse_request() returns on every input: "Otherwise, `buffer` remains
\* unchanged, and zero is returned."
NeverStuck == process # "stuck"
=============================================================================
