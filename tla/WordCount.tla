----------------------------- MODULE WordCount -----------------------------
(***************************************************************************)
(* The distributed word count: one distributor (zmq_distributor.c) that    *)
(* sends map, reduce and rip requests to its ports in turn and waits for   *)
(* each reply, and worker processes (zmq_worker.c) that each serve some of *)
(* the ports in a poll loop.                                               *)
(*                                                                         *)
(* ZeroMQ is external: a REQ socket has at most one request under way, a   *)
(* request for a port nobody serves waits, and a reply is delivered even   *)
(* if the REP socket is closed right after it was sent.  A message is its  *)
(* type, the first three bytes, and its body, the rest without the NUL.    *)
(***************************************************************************)
EXTENDS WordCountText

CONSTANTS Workers,        \* worker processes
          PortCount,      \* ports on the distributor's command line
          Host,           \* [1..PortCount -> Workers]: who is to serve a port
          Texts,          \* the input files
          MaxFaults       \* bound on failures: of bind(), of malloc(), SIGINT

Ports == 1..PortCount
Byte  == 1..255 \* no NUL: it would hide the rest of its chunk from snprintf()

ASSUME PortAssumption ==
    /\ PortCount \in Nat \ {0}
    /\ Host \in [Ports -> Workers]
    /\ Texts \subseteq Seq(Byte)
    /\ MaxFaults \in Nat

VARIABLES
    \* the distributor
    text, at,             \* the input file and the position in it
    pc,                   \* where main() is
    worker_idx,           \* the port in turn
    map_results, offset,  \* replies to map requests, and how much was sent on
    reduce_results,       \* replies to reduce requests
    printed,              \* the lines printed
    \* ZeroMQ
    request, reply,       \* for each port, the message under way: <<>> or <<m>>
    \* the workers
    open,                 \* ports with a REP socket (reps[i] # NULL)
    ready,                \* for each worker, the readable ports still to serve
    process,              \* "running", "stopping" (running = 0) or "exited"
    \* history
    faults,               \* number of failures so far
    failed                \* their kinds: "bind", "memory", "SIGINT"

dist == <<text, at, pc, worker_idx, map_results, offset, reduce_results, printed>>
net  == <<request, reply>>
work == <<open, ready, process>>
hist == <<faults, failed>>
vars == <<dist, net, work, hist>>

Message == [type : {"map", "red", "rip"}, body : Seq(Byte)]

\* The ports that worker w serves, and those with a request to read.
Served(w)   == {p \in open : Host[p] = w}
Readable(w) == {p \in Served(w) : request[p] # <<>>}

Init ==
    /\ text \in Texts
    /\ at = 0
    /\ pc = "map"
    /\ worker_idx = 1
    /\ map_results = <<>> /\ offset = 0
    /\ reduce_results = <<>>
    /\ printed = <<>>
    /\ request = [p \in Ports |-> <<>>]
    /\ reply = [p \in Ports |-> <<>>]
    /\ open \in {o \in SUBSET Ports : Cardinality(Ports \ o) <= MaxFaults}
    /\ ready = [w \in Workers |-> {}]
    /\ process = [w \in Workers |-> "running"]
    /\ faults = Cardinality(Ports \ open)
    /\ failed = IF open = Ports THEN {} ELSE {"bind"}

-----------------------------------------------------------------------------
(* The distributor *)

Send(type, body) ==
    /\ request' = [request EXCEPT ![worker_idx] = <<[type |-> type, body |-> body]>>]
    /\ UNCHANGED reply

\* zmq_recv() has no timeout: it returns when there is a reply.
Receive ==
    /\ reply[worker_idx] # <<>>
    /\ reply' = [reply EXCEPT ![worker_idx] = <<>>]
    /\ UNCHANGED request

\* The turn does not come back to the first port.
next_worker_no_wrap == worker_idx + 1

next_worker == (worker_idx % PortCount) + 1

SendMap ==
    /\ pc = "map" /\ at < Len(text)
    /\ LET n == ChunkLength(text, at)
       IN  /\ Send("map", Truncated(SubSeq(text, at + 1, at + n)))
           /\ at' = at + n
    /\ pc' = "map reply"
    /\ UNCHANGED <<text, worker_idx, map_results, offset, reduce_results, printed,
                   work, hist>>

ReceiveMap ==
    /\ pc = "map reply"
    /\ Receive
    /\ map_results' = map_results \o Head(reply[worker_idx])
    /\ worker_idx' = next_worker
    /\ pc' = "map"
    /\ UNCHANGED <<text, at, offset, reduce_results, printed, work, hist>>

\* chunker_next() finds the end of the file.
StartReduce ==
    /\ pc = "map" /\ at = Len(text)
    /\ pc' = "reduce"
    /\ worker_idx' = 1
    /\ UNCHANGED <<text, at, map_results, offset, reduce_results, printed,
                   net, work, hist>>

SendReduce ==
    /\ pc = "reduce" /\ offset < Len(map_results)
    /\ LET n == ReduceLength(SubSeq(map_results, offset + 1, Len(map_results)))
       IN  /\ Send("red", Truncated(SubSeq(map_results, offset + 1, offset + n)))
           /\ offset' = offset + n
    /\ pc' = "reduce reply"
    /\ UNCHANGED <<text, at, worker_idx, map_results, reduce_results, printed,
                   work, hist>>

ReceiveReduce ==
    /\ pc = "reduce reply"
    /\ Receive
    /\ reduce_results' = reduce_results \o Head(reply[worker_idx])
    /\ worker_idx' = next_worker
    /\ pc' = "reduce"
    /\ UNCHANGED <<text, at, map_results, offset, printed, work, hist>>

CombineAndPrint ==
    /\ pc = "reduce" /\ offset = Len(map_results)
    /\ printed' \in {Lines(counts) : counts \in {combine(reduce_results)}}
    /\ pc' = "rip"
    /\ worker_idx' = 1
    /\ UNCHANGED <<text, at, map_results, offset, reduce_results, net, work, hist>>

\* distributor_send_rip(): one port after the other.
SendRip ==
    /\ pc = "rip"
    /\ Send("rip", <<>>)
    /\ pc' = "rip reply"
    /\ UNCHANGED <<text, at, worker_idx, map_results, offset, reduce_results,
                   printed, work, hist>>

ReceiveRip ==
    /\ pc = "rip reply"
    /\ Receive
    /\ IF worker_idx < PortCount
       THEN pc' = "rip" /\ worker_idx' = worker_idx + 1
       ELSE pc' = "done" /\ UNCHANGED worker_idx
    /\ UNCHANGED <<text, at, map_results, offset, reduce_results, printed,
                   work, hist>>

Distributor == \/ SendMap \/ ReceiveMap \/ StartReduce
               \/ SendReduce \/ ReceiveReduce \/ CombineAndPrint
               \/ SendRip \/ ReceiveRip

-----------------------------------------------------------------------------
(* The workers *)

\* Three digits after the type mean the protocol with a header: they are the
\* length the reply may have, and the payload begins after them.
is_new_protocol(body) == Len(body) >= 3 /\ \A k \in 1..3 : body[k] \in Digits

parse_msg_len(body) ==
    LET val == Number(SubSeq(body, 1, 3))
    IN  IF val = 0 \/ val > MAX_MSG_LEN THEN MAX_MSG_LEN ELSE val

msg_len(body) == IF is_new_protocol(body) THEN parse_msg_len(body) ELSE MAX_MSG_LEN
payload(body) == IF is_new_protocol(body) THEN SubSeq(body, 4, Len(body)) ELSE body

\* The replies a worker may give to a message.  (hm and s range over one value
\* each: TLC evaluates a bound value once.)
Answers(m) ==
    CASE m.type = "map" ->
            UNION {wc_to_map_format(hm, msg_len(m.body)) :
                hm \in {wc_tokenize_and_count(s) : s \in {payload(m.body)}}}
      [] m.type = "red" ->
            UNION {wc_to_reduce_format(hm, msg_len(m.body)) :
                hm \in {wc_from_map_format(s) : s \in {payload(m.body)}}}
      [] m.type = "rip" ->
            {IF is_new_protocol(m.body) THEN <<>> ELSE <<114, 105, 112>>}

\* zmq_poll(): a time-out, when no port is readable, changes nothing.
Poll(w) ==
    /\ process[w] = "running" /\ ready[w] = {}
    /\ Readable(w) # {}
    /\ ready' = [ready EXCEPT ![w] = Readable(w)]
    /\ UNCHANGED <<dist, net, open, process, hist>>

\* The ports found readable are served in the order of the command line.
NextPort(w) == Min(ready[w])

Respond(w, r) ==
    LET p == NextPort(w)
    IN  /\ request' = [request EXCEPT ![p] = <<>>]
        /\ reply' = [reply EXCEPT ![p] = <<r>>]
        /\ ready' = [ready EXCEPT ![w] = @ \ {p}]

\* The port is not closed after "rip".
Serve_keep_port(w) ==
    /\ ready[w] # {}
    /\ \E m \in {Head(request[NextPort(w)])} :
           \E r \in Answers(m) : Respond(w, r)
    /\ UNCHANGED <<dist, open, process, hist>>

Serve(w) ==
    /\ ready[w] # {}
    /\ \E m \in {Head(request[NextPort(w)])} :
           /\ \E r \in Answers(m) : Respond(w, r)
           /\ open' = IF m.type = "rip" THEN open \ {NextPort(w)} ELSE open
    /\ UNCHANGED <<dist, process, hist>>

\* hm_create() or the formatting finds no memory: the answer is "".
ServeWithoutMemory(w) ==
    /\ ready[w] # {}
    /\ Head(request[NextPort(w)]).type \in {"map", "red"}
    /\ faults < MaxFaults
    /\ Respond(w, <<>>)
    /\ faults' = faults + 1
    /\ failed' = failed \cup {"memory"}
    /\ UNCHANGED <<dist, open, process>>

\* SIGINT clears running; the loop ends when the ports found readable have
\* been served.
Interrupt(w) ==
    /\ process[w] = "running"
    /\ faults < MaxFaults
    /\ process' = [process EXCEPT ![w] = "stopping"]
    /\ faults' = faults + 1
    /\ failed' = failed \cup {"SIGINT"}
    /\ UNCHANGED <<dist, net, open, ready>>

\* The loop ends on SIGINT or when no port is left (active = 0), and all ports
\* are closed.
Exit(w) ==
    /\ process[w] # "exited" /\ ready[w] = {}
    /\ process[w] = "stopping" \/ Served(w) = {}
    /\ process' = [process EXCEPT ![w] = "exited"]
    /\ open' = open \ Served(w)
    /\ UNCHANGED <<dist, net, ready, hist>>

Worker(w) == Poll(w) \/ Serve(w) \/ ServeWithoutMemory(w) \/ Exit(w)

Next == Distributor \/ \E w \in Workers : Worker(w) \/ Interrupt(w)

Spec == Init /\ [][Next]_vars

\* The scheduler lets every process run.
FairSpec == /\ Spec
            /\ WF_vars(Distributor)
            /\ \A w \in Workers : WF_vars(Worker(w))

-----------------------------------------------------------------------------
(* Properties *)

Pc == {"map", "map reply", "reduce", "reduce reply", "rip", "rip reply", "done"}

\* Type invariant of the distributor, its ports and the workers.
TypeOK ==
    /\ text \in Texts /\ at \in 0..Len(text)
    /\ pc \in Pc /\ worker_idx \in Ports
    /\ map_results \in Seq(Byte) /\ offset \in 0..Len(map_results)
    /\ reduce_results \in Seq(Byte)
    /\ \A k \in DOMAIN printed :
           printed[k].word \in Seq(Letters) /\ printed[k].count \in Nat \ {0}
    /\ \A p \in Ports : /\ request[p] = <<>> \/ request[p][1] \in Message
                        /\ reply[p] = <<>> \/ reply[p][1] \in Seq(Byte)
    /\ open \subseteq Ports
    /\ ready \in [Workers -> SUBSET open]
    /\ process \in [Workers -> {"running", "stopping", "exited"}]
    /\ faults \in 0..MaxFaults /\ failed \subseteq {"bind", "memory", "SIGINT"}

\* What a text holds: its words, in lower case and cut to MAX_WORD letters.
Words(s) == wc_tokenize_and_count(s)

\* Words shorter than a chunk, so that every chunk ends at a separator.
WordsFitChunks == \A i \in WordStarts(text) : Len(LettersAt(text, i)) < CHUNK_MAX_SIZE

\* No three digits in a row, that a worker could take for a header.
NoHeaders == \A i \in 1..(Len(text) - 2) : \E k \in 0..2 : text[i+k] \notin Digits

\* The words of the message under way on port p.
UnderWay(p) ==
    IF request[p] # <<>>
    THEN LET m == request[p][1]
         IN  CASE m.type = "map" -> Words(m.body)
               [] m.type = "red" -> wc_from_map_format(m.body)
               [] m.type = "rip" -> EmptyBag
    ELSE IF reply[p] # <<>>
    THEN CASE pc = "map reply"    -> wc_from_map_format(reply[p][1])
           [] pc = "reduce reply" -> combine(reply[p][1])
           [] OTHER               -> EmptyBag
    ELSE EmptyBag

\* At every moment the words not read yet, those in the message under way,
\* those in map results not sent on and those in reduce results are together
\* the words of the file: no cut, format, truncation or reply buffer on the
\* way through distributor and workers loses or invents a word
\* (zmq_distributor.c:193-253).  Needed: no worker out of memory, words that
\* fit a chunk, and no chunk that can be taken for a header.
WordsConserved ==
    ("memory" \notin failed /\ WordsFitChunks /\ NoHeaders) =>
        LET Rest(s, n) == SubSeq(s, n + 1, Len(s))
        IN  Words(text) = Words(Rest(text, at)) (+) UnderWay(worker_idx)
                          (+) wc_from_map_format(Rest(map_results, offset))
                          (+) combine(reduce_results)

\* Word by word, the lines that should be printed for the file: what
\* wordcount.h:12-14 and count_words() of the tests (test/util.py:308) say.
WordAtPositions(i, j) ==
    /\ \A k \in i..j : text[k] \in Letters
    /\ i > 1 => text[i-1] \notin Letters
    /\ j < Len(text) => text[j+1] \notin Letters

ExpectedLines ==
    LET spans == {s \in (1..Len(text)) \X (1..Len(text)) :
                      s[1] <= s[2] /\ WordAtPositions(s[1], s[2])}
        lower == [k \in 1..Len(text) |-> tolower_ascii(text[k])]
        word(s) == SubSeq(lower, s[1], s[2])
    IN  {[word |-> word(s), count |-> Cardinality({t \in spans : word(t) = word(s)})] :
            s \in spans}

PrintedExactly ==
    /\ {printed[k] : k \in DOMAIN printed} = ExpectedLines
    /\ \A k \in DOMAIN printed : \A l \in 1..(k-1) :
           \/ printed[l].count > printed[k].count
           \/ /\ printed[l].count = printed[k].count
              /\ Precedes(printed[l].word, printed[k].word)

Printed == pc \in {"rip", "rip reply", "done"}
WordsFitBuffers == \A i \in WordStarts(text) : Len(LettersAt(text, i)) <= MAX_WORD

\* When the lines are printed they are each word of the file once, with its
\* number of occurrences in any case, most frequent first and equal counts in
\* the order of the words (combine.c:26-125), whatever port served which part,
\* also if a worker was interrupted before.
PrintedIsTheWordCount ==
    (Printed /\ "memory" \notin failed /\ WordsFitBuffers /\ NoHeaders) =>
        PrintedExactly

\* Whatever fails, words may be lost and none is invented: no line names a word
\* the file does not have or counts it too often.  So it is when a worker finds
\* no memory, whose empty answer the distributor takes for one of a chunk
\* without words (zmq_worker.c:145), and when a worker takes digits of the text
\* for a header and keeps to the length they say.
NothingInvented ==
    (Printed /\ WordsFitBuffers) =>
        LET expected == ExpectedLines
        IN  \A k \in DOMAIN printed : \E e \in expected :
                e.word = printed[k].word /\ printed[k].count <= e.count

\* The same of every text: digits only separate words, "Non-letter characters
\* (spaces, punctuation, digits, hyphen, etc.) split words" (wordcount.h:14).
DigitsSeparate ==
    (Printed /\ "memory" \notin failed /\ WordsFitBuffers) => PrintedExactly

\* A reply and its NUL fit the size - 1 bytes the distributor gives zmq_recv()
\* (zmq_distributor.c:201, 246): it writes a NUL behind the length it is told,
\* which for a longer reply is past the end of the buffer.
RepliesFit ==
    \A p \in Ports : reply[p] # <<>> => Len(reply[p][1]) + 1 <= MAX_MSG_LEN - 1

Undisturbed == failed \cap {"bind", "SIGINT"} = {}

\* The distributor prints its result and releases all ports, unless a port
\* could not be bound or a worker was interrupted: no cut makes it send an
\* empty piece for ever, and no port closes before its last request.
JobEnds == <>(pc = "done" \/ ~Undisturbed)

\* A worker process ends when it is interrupted, and, when nothing else goes
\* wrong, when the distributor is done (zmq_worker.c:94, 184-187).
WorkersRetire ==
    \A w \in Workers :
        (process[w] = "stopping" \/ (pc = "done" /\ Undisturbed)) ~> process[w] = "exited"
=============================================================================
