# A TLA+ model of chord-dht-server

The repository holds three programs in C: `chord-node`, an HTTP key-value server
that is a member of a static Chord ring; `tcp-http-server`, an earlier
single-process HTTP server; and `mapreduce-wordcount`, a distributor and workers
over ZeroMQ. This directory models all three in TLA+, checks the models with TLC
and proves their safety properties, those of all three programs, with TLAPS.

## 1. Inventory

| part | state | operations | interacts with |
|---|---|---|---|
| **responsibility** `chord-node/webserver.c` 110-132, 189-206 | `self_id`, `predecessor`, `successor`, read once in `main()` | `is_responsible()`, the one-node and two-node tests | called by both handlers below |
| **ring routing** `webserver.c` 54-327, 371-498 | `resources`, `have_reply`, `reply_peer`, `reply_prev_id` | `process_packet()`, `send_reply()`, `send_redirect()`, `handle_udp_socket()` | HTTP clients (requests, 303, 503); other nodes (LOOKUP and REPLY datagrams) |
| **resource table** `data.c` | array of 100 tuples, the first three compiled in | `get()`, `set()`, `delete()` | called by `send_reply()` |
| **request parsing** `http.c`, `util.c` | none | `memstr()`, `parse_request()`, `get_header()` | called by `process_packet()` |
| **poll loop** `webserver.c` 334-363, 509-539, 711-786 | three poll slots, one `connection_state` with a buffer of 8192 bytes | accept, `handle_connection()`, drain of the UDP socket | kernel, clients; calls the two handlers |
| **tcp-http-server** `message_handler.c`, `webserver.c` | buffer of 8192 bytes of the one connection, linked list of resources | `main()` (accept, recv), `get_messages_and_send()`, `get_code()` with GET, PUT, DELETE | HTTP clients |
| **distributor** `zmq_distributor.c`, `chunker.c`, `combine.c` | file position, two result buffers, worker index | map phase, reduce phase, combine, rip | one REQ socket per worker |
| **worker** `zmq_worker.c`, `wordcount.c` | one REP socket per port, number of active ports | map, red, rip, unknown | distributors |
| **hash map, list** `hashmap.c`, `linked_list.c` | array of buckets, each a linked list of nodes | create, free, put_inc, set, get, foreach, merge, clear, entry_count; of the list also remove | called by `wordcount.c` in the worker |

What is hard, and the properties that answer it:

* *Routing by a cache without a key.* A node keeps one reply, not the hash it
  answers. Another client's reply, a late one or a stale one redirects the next
  request for any foreign key. The ring is correct because a node serves only
  what it owns (`ServedByOwner`). A client that is alone is served although its own late replies may
  send it astray (`LoneClientServed`); three clients can take each other's replies for ever, so that
  none gets to the node responsible for its key (`EveryRequestServed`).
* *Intervals on a circle*: a half-open interval that wraps at one node, neighbours that are the
  same node, an id 0 that also means "not configured" (`DataAtOwner`,
  `LookupBeforeOwner`, `NetworkDrains`).
* *A network that loses, duplicates, delays and reorders*, and ring members that
  are other programs (`DataAtOwner`, `ReplyNamesInterval`, `NoSelfRedirect`).
* *Several clients at several nodes* must see one dictionary
  (`ImplementsKeyValueService`).
* *TCP segmentation* with pipelining and a small buffer, and one connection state reused
  for all clients (`SegmentationIndependent`, `StreamPreserved`,
  `OneConnection`, `AllAnswered`).
* *A fixed table with holes* (`UniqueKeys`, `ImplementsDictionary`).
* *A text that is cut, formatted, cut again and summed up* by processes that take turns: what
  is lost at one byte of a boundary is lost without notice (`WordsConserved`,
  `PrintedIsTheWordCount`, `RepliesFit`), what a worker without memory leaves out must not turn into
  other words (`NothingInvented`), and nobody waits with a timeout (`JobEnds`, `WorkersRetire`).

* *Requests carried out and not answered*: in `tcp-http-server` a failed `send()` leaves
  the message in the buffer, and the next data has it carried out again; in between the
  buffer must still be in step with the stream (`BufferContinuesStream`, `AnswersFollowMessages`)
  and the list of resources a dictionary (`DictionaryWhileIntact`). Whichever way a
  connection ends, the next one is accepted (`AllServed`).
* *Allocations that fail in the middle*: a lookup in a bucket allocates, and says "not found"
  when it cannot, so a key may be stored twice; a merge may stop halfway
  (`AcknowledgedIsCounted`, `MergeConserves`, `ImplementsTally`).

`PROJECT.json` lists every hazard with its line, the ones that no property covers
yet included.

## 2. Modules

```
ChordKeyspace ------> ChordRing ------------> ChordRingProofs
KeyValueService <-refines- ChordRing
HttpFraming --------> NodeServer -----------> NodeServerProofs
Dictionary <-refines- ResourceTable --------> ResourceTableProofs
TcpFraming ---------> TcpHttpServer --------> TcpHttpServerProofs
Dictionary <-refines, while intact- TcpHttpServer
WordCountText ------> WordCount ------------> WordCountTextProofs --> WordCountProofs
Tally <-refines, without duplicates- HashMap -> HashMapProofs
Foundations: used by every module of proofs
MCChordRing, MCNodeServer, MCResourceTable, MCTcpHttpServer, MCWordCount, MCHashMap:
                      instances for TLC
```

**ChordKeyspace.** A node *is* its id: ip and port of `struct chord_peer` only
name the process. `Pred` and `Succ` are the configuration of `main()`, and
`RingAssumption` says that it is the one of a consistent ring (every successor is the
first node clockwise, predecessors are inverse). Nothing checks this in the
program, which has no join or stabilisation either. `Owns` and `Owner` define
ownership without the code's interval; `is_responsible`, `single_node`,
`two_node_ring` and `responsible` are the code's. A node started without
neighbours takes the same branch as one that is its own neighbour (`Pred[n] = Succ[n] = n`).
`Hash` is any function: the proofs use no property of `pseudo_hash()`.

**ChordRing.** All nodes, their clients and the network. `process_packet(c)` is the
whole handling of client c's complete request at the node it contacted, with one
disjunct per branch: own table (`send_reply`), two-node redirect, redirect from
the cache (which empties it), the local reply when the successor is responsible,
and 503 with a LOOKUP. `handle_udp_socket(d)` is one datagram: reply for itself,
reply for the successor, forward unchanged, store a REPLY, or ignore an unknown
flag. Each is one atomic step since a process is single-threaded and handles one
event at a time; steps of different nodes interleave. In the code the drain of the UDP socket takes
several datagrams in a row; allowing other steps of the same node between them
only adds behaviours. Datagrams are a set: sending one that is already in flight
adds nothing, and keeping a handled one is a duplicate; loss and duplication
count against `MaxFaults`. `Inject` is a ring member running another program. The client's side (`Issue`,
`Retry` after 503, `Follow` after 303, `Finish`) is external and modelled from how the
server's answers are meant to be used. The table of a node is the dictionary
that `ResourceTable` implements, with the capacity and its silent failure kept. PUT and
DELETE of a compiled-in resource are excluded here (`StaticAssumption`):
`ResourceTable` shows what they do.

**KeyValueService.** The promise: one dictionary for the whole ring on which every request
takes effect once, atomically, between its issue and its answer. 303 and 503 are
not answers. With `MayDrop` a new key may be answered 201 and not be stored, as the code
does with a full table; `ChordRing` allows it only where the keys outnumber the slots of a table
(`TablesSuffice`), so for the others the promise is the plain dictionary.

**ResourceTable, Dictionary.** The slot array with linear search and first-fit
insertion; one action per branch of `set()` and `delete()`. `free(i)` of a slot
that holds string literals ends the process (`aborted`): glibc's `free()` reports an
invalid pointer. `Dictionary` is data.h, with the capacity that data.c adds.

**HttpFraming.** `parse_request()` and the loop of `handle_connection()` as functions of the
window of received symbols. A symbol is a byte where bytes matter (CR, LF,
payload) and a line's text where only its class does. `memstr()` is modelled by
what it does, not returning included. Lengths of lines other than one symbol
cannot matter to where a line ends; `strncmp` with the header's own length,
the 40-header limit and percent-encoding are left out.

**NodeServer.** One process: `poll` fills `revents`; the slots are handled in order
(`accept`, `handle_udp_socket`, `handle_connection`), each the whole branch of the loop
in `main()`. `handle_connection` has the three outcomes of `recv()`; in the third it answers
every complete request of the window and discards the answered bytes. Each client sends one of
`Streams[c]` (chosen in Init, `stream`) in arbitrary segments, hangs up, or resets if it is in `Resetting`; a
segment ends between CR and LF only for clients in `Splitting`. Failures of `poll()`, `accept()` and `send()` are
left out, and so is what the kernel does with data a closed connection had not read.

**TcpFraming.** How `tcp-http-server` finds the end of a message (`strstr` for the empty line,
`Content-Length:` in the first 4095 bytes of the header), what its checks say of it and what
`get_body()` stores, on the same kind of symbols. A payload is kept as a C string: what follows a
NUL is lost (`CString`). That lines are limited (256 bytes, 511 for the URI), that a
number may overflow, and that the word Content-Length may be in another line than a header are not in the instance; a line
that is too long is a malformed one.

**TcpHttpServer.** `main()` with its two loops (`accept`, `recv`, `recv_ends`) and one turn of
`get_messages_and_send()` (`message`, `no_message`, `crash`). `get_code` maps a message to the
code, the new list, the allocations that failed and the call made on the list; the operators under it are
the functions of `message_handler.c`. PUT puts a node at the head or replaces a content, each with
`my_strdup()`, whose failure the code does not notice: the node then has no name or no content (`NULL`),
and the search that reaches such a node, or the GET that sends such a content, ends the
process (`Crashes`). A node that cannot be allocated is the code 500, which is answered as 501
(`Status`). `Unreplied` is `send()` returning -1, from a failure or because the peer has reset the
connection: the list has been changed, the message stays. `recv()` returns 0 also when the buffer is full. Reset
loses what the server has not read. Not modelled: the body of a static GET, SIGPIPE (no client closes
the side it reads from), debug output. `check_after_first_line()` returns after the first line it looks at, so the rest of it is
unreachable and not in the model.

**HashMap, Tally.** `HashMap` has the tables of a program (`Maps`) as arrays of buckets of nodes, one
action per function of `hashmap.h` and `ll_remove()`, with the functions of `linked_list.c` as the
operators that change a bucket. `hm_merge` is several steps (`merge_node`), one call of
`hm_put_inc()` each, so that it can fail in the middle. Every allocation may find no memory; where one that
fails cannot be told from a key that is not there (`ll_find()`), the action has both outcomes.
`added` is history: what acknowledged increments add up to. `wordcount.c` uses a table only by
create, put_inc, foreach and free: such tables are in `Counting`; nobody calls `hm_set()`, `hm_get()`,
`hm_merge()`, `hm_clear()`, `hm_entry_count()` and `ll_remove()` yet. `Tally` is what `hashmap.h` says: tables that
are created and freed and calls that read and change one count.
`WordCount` takes a table as a bag: what `AcknowledgedIsCounted` says of a `Counting` table
is what this needs, and the order of `hm_foreach()` is left open there.

**WordCountText.** What `mapreduce-wordcount` does with bytes, as operators: chunks of the file
(`ChunkLength`), tokenising, the map and reduce formats with their limit, the cut of reduce
payloads, the sum and the order of the lines. Bytes are kept since every
property is about cuts between them. The three state machines that read
letters followed by ones or digits are one idea, the maximal runs of letters (`WordStarts`) and
what follows them (`SuffixAt`). A hash map is a bag of words, visited by
`hm_foreach()` in any order: the real order depends on hashes and insertions, and the formats must not.

**WordCount.** One distributor and its worker processes. `pc` is the place in the distributor's
`main()`, `request` and `reply` the message under way on each REQ/REP pair. A worker is
its poll loop: `Poll` notes the readable ports, `Serve` answers the next of them
(map, red and rip, in either message format), `Exit` is the end of the loop.
`ServeWithoutMemory` is the empty answer after a failed allocation, `Interrupt` is
SIGINT, and Init has ports that could not be bound. Workers are not restarted, ZeroMQ loses nothing, and
the messages of other programs than the distributor (the worker's answer to an unknown type) are left out.
`UnderWay` counts the words in the message under way, so that
`WordsConserved` can say of every moment where the words of the file are.

## 3. What the runs check

| run | instance | shows |
|---|---|---|
| `ring4_lookup` | 4 of 8 ids, 2 clients, one fault | types; only the owner answers; lookups stay between origin and owner; replies name an interval; no redirect to self |
| `ring3_foreign` | 3 nodes, foreign datagrams | data only at the owner; refinement of `KeyValueService` |
| `ring2_silent` | 2 nodes, one slot each | no lookup, no cache, redirects are right; set() on a full table |
| `ring4_liveness` | 4 of 4 ids, one client, a datagram lost or duplicated | a client that is alone is served; the network drains |
| `table_slots` | 3 slots, 4 keys, one compiled in | types; no key twice; refinement of `Dictionary` |
| `server` | 2 clients, buffer of 9, one datagram, one client that splits line ends and resets | types; one connection; no byte lost or mixed; answers independent of segmentation; every complete request answered if clients hang up; datagrams handled although a client stays connected and silent |
| `tcp_server` | 2 clients, 3 scripts, buffer of 10, one failed `malloc()` or `send()`, resets | types; the buffer continues the stream; each message answered once and in order; the list is a dictionary; everyone served |
| `hash_map` | 2 tables of 2 and 1 buckets, 2 keys in 3 spellings, 2 failed allocations | types; acknowledged increments are counted once; merges conserve; refinement of `Tally` |
| `word_count` | 125 composed texts and 89 of one letter, 2 workers with 3 ports, one failure | types; no word lost or counted twice on the way; the lines printed are the word count; after a failure words are missing and none is invented; replies fit the receive buffer; the job ends, and so do the workers |

Three runs show where the program and its own text disagree; each is a finding in
`PROJECT.json` with the quoted line:

* `starvation`: the cached reply for one key redirects a request for another, and with three nodes and three clients this
  goes on for ever, without any fault of the network. Two clients wait for replies, each at the node that owns
  the other's key. The request of the third comes between a reply and the retry of the client it is for: it takes the reply and
  is sent from one of these nodes to the other and back, the others get a 503 again, and nobody is answered. (Which
  client has which part depends on the order in which TLC explores.)
* `split_crlf`: a segment that ends between CR and LF makes `memstr()` loop for ever.
* `header_in_text`: a chunk of text that begins with three digits is taken for a message with
  a header, and the reply is limited to the number they spell.

More divergences are modelled as the code has them, without a run of their own:

* A node whose only neighbour has id 0 takes itself for alone (webserver.c:192, where 0 also
  means "not configured") and serves everything; the comment at line 112 says otherwise. The theorems
  exclude this with `NoZeroPair`.
* PUT or DELETE of `/static/foo` passes a string literal to `free()` (data.c:32, 57): `free_literal` ends the process.
* `set()` returns false when it created a value, as data.h:32 says, and also when
  the table is full; the client is told 201 Created (`fail_silently`, `Refuse`).
* The comment at http.c:127 says that Content-Length is not optional for PUT; the
  check reads `request->method` before line 142 sets it and never fires, so such a
  PUT has an empty payload (`parse_request`; client b of `server`).
* `process_packet()` line 311 has `strcmp` the wrong way round: every value of
  Connection but the exact text `close` ends the connection. Values keep the
  space behind the colon, so the usual `Connection: close` does end it, and
  so does `Connection: keep-alive` (symbols `conn` and `close` of `HttpFraming`).
* hashmap.h:75 says that `hm_put_inc()` increments the count if the key exists. With no memory for the copy
  `ll_find()` compares with (linked_list.c:44-47) the key counts as absent and is stored a second time, and the call returns 0
  (`ll_insert`). `hm_get()` then finds the newer count only; the sum of the nodes stays right
  (`AcknowledgedIsCounted`), and `wordcount.c` prints one line per node.
* wordcount.c:43 and 52 ignore that `hm_put_inc()` returned -1: the word is not counted.
* `tcp-http-server` tries a PUT or DELETE again whose answer it could not send: the client
  may be told 204 for what the first attempt created, 404 for what it deleted.

### Bounds, and why they are enough

* **Nodes.** With three nodes the successor of the node asked is the owner or the
  asker's predecessor answers; a LOOKUP is forwarded only with four, so the
  routing runs use four. The interval that wraps is in every ring, and ids 0 and
  N - 1 are hashes or nodes of some run. The proofs cover all sizes.
* **Clients.** Two suffice for one to consume, empty or refill the cache under the
  other. Symmetry is used for clients only, and in no liveness run.
* **Requests** (`MaxRequests` 2 or 3): after the last one the model still runs
  retries, duplicates and late replies. **Faults** (`MaxFaults` 1): one datagram lost, kept or injected.
  The liveness run has one client with two keys, and what it says of requests it says of such a client: a reply
  meant for the first key may come when it asks for the second. What other clients do to it is the matter of `starvation`, whose
  three clients are the least that can show it: a client sent astray arrives at the owner of another
  client's key, and only a third one's lookups can send it on from there again and again. Each has a request of its own
  (`RequestsOf`), which keeps the run small.
* **Table.** Three slots, four keys, one compiled in: full, freed in the middle, refilled.
* **Streams.** At most 19 symbols in a buffer of 9 or 16. With 9 the first PUT of a just fits and
  the request behind it fills the buffer before it is complete, which ends the connection; b's
  streams hold a request that ends the connection in front of a malformed line, and a payload that no
  header announces and that makes the next line malformed. Every cut of every stream is tried.
  The answers expected of a stream are those of `AnswerWindow` to the whole of it, so the run shows that cuts
  change nothing, and not that the rule by which a request ends the connection is the right one.
* **Messages of tcp-http-server** (`SIZE` 10, `Scripts`): one script has a PUT that fills the buffer to the last
  byte and whose payload looks like the end of a header, one a PUT one byte too long,
  one a malformed message in front of a good one; b writes and deletes what a does. `MaxSegments`
  is 2 for a, all cuts included, and 1 for b: two connections are never served at once, so b's cuts do what a's do.
  `MaxFaults` 1: an allocation or a `send()`; what a node without a name does is reached with one.
* **Tables of counts**: one of 1 bucket, in which all keys meet, and one of 2 (`Sizes` 0 stands for the default, 2 here
  instead of 1024); `MaxCount` 2 lets a key be stored twice; `MaxFaults` 2 is what
  `ll_insert_fails` needs for a key that is there.

* **Messages of the word count.** 12 bytes instead of 1500, chunks of 9 and reduce payloads of 5: the
  smallest sizes with which `SizeAssumption` holds, and it holds with
  equality, so that a pair one byte longer would be cut. (With 1500 there is much to spare.)
  The texts have up to 18 bytes: `OneLetterTexts` put a cut between any two words of any length,
  `ComposedTexts` mix words, cases, digits and words longer than the word buffer (4 instead of 255).

`CHECK_DEADLOCK FALSE` stands where the system may stop: the clients have issued all
their requests, or the process has ended, or the distributor is done or waits for a
worker that is gone.

### Fairness

*ChordRing*: weak fairness of each client's next step, of `process_packet(c)` (the poll loop
reaches a connection that is ready) and of each datagram (the socket is a queue that
`handle_udp_socket()` drains). Not assumed: that new requests come, or that lost datagrams come back.
*NodeServer*, *TcpHttpServer*: weak fairness of the process (the operating system runs it). `Turn`
says that the process has something to do and does it, told from steps of clients by a
variable that only the process changes; this is the same as fairness of the process's
next-state relation, and much cheaper for TLC to evaluate. `AllAnswered` and `AllServed`
have the premise `ClientsHangUp`, since neither program has a timeout: one silent client
blocks all others. `UdpServed` does without it. `AllAnswered` is about processes that run: a reset
(`recv_error`) or a line end cut in two (memstr) stops chord-node, as the code has it. `AllServed` also
assumes that nothing fails, since a message whose answer was not sent waits for more data; a reset does not stop this server.
*HashMap* is sequential and needs none.
*WordCount*: weak fairness of the distributor and of each worker process (the operating system runs them),
none of interrupts. `JobEnds` excludes unbound ports and SIGINT, after which the distributor
waits for ever (its `zmq_recv()` has no timeout), and not failed allocations.

## 4. What is proved

Every proof below is checked by `tlapm` to the last leaf. Assumed is only what the `ASSUME` of a model
says of its constants, which TLC evaluates in each run of that model, and the hypotheses named here.

### Lookups and the ring

`ChordRingProofs` first connects the code's interval test to the definition of
ownership: `DistType`, `DistInjective` (distances on the circle),
`ResponsibleInterval` (the test is a distance comparison), then **ResponsibleIsOwner**
(in a consistent ring `is_responsible(h, n, Pred[n])` holds exactly when n is the first
node from h), **OwnerUnique** and **OwnerExists** (by the least-number principle `LeastNat`),
**ServesOwnKeysOnly** (with the single-node test, provided `NoZeroPair`), and what a hop does to the distance.

Then, for any number of nodes, clients, keys, requests and faults:

| theorem | hypotheses | argument |
|---|---|---|
| `TypeCorrect` | none | inductive as it stands |
| `OwnerServes` (`ServedByOwner`) | `NoZeroPair` | inductive with `TypeOK`: a final answer comes only from the `responsible` branch |
| `OwnerStores` (`DataAtOwner`) | `NoZeroPair` | likewise; nothing is assumed of the datagrams |
| `RingIsOneDictionary` (`ImplementsKeyValueService`) | `NoZeroPair` | step by step, with `TypeOK` |
| `LookupsStopShort` (`LookupBeforeOwner`) | `ForeignMsgs = {}` | a forwarding node is short of the owner and so is its successor |
| `RepliesNameIntervals` | `ForeignMsgs = {}` | inductive with `TypeOK`, on datagrams and cache together |
| `NeverRedirectsToSelf` | `ForeignMsgs = {}` | needs `LookupBeforeOwner`: an answered lookup was for a hash its origin does not own, so the reply names another node |
| `SmallRingsAreSilent` (`SmallRingIsSilent`) | `ForeignMsgs = {}` | with at most two nodes whoever does not serve passes the two-node test, before any lookup; from this no datagram, no cached reply and no 503 |
| `SmallRingRedirectsToOwner` (`RedirectNamesOwner`) | `ForeignMsgs = {}`, at most two nodes | the neighbour of a node that is not responsible is the owner |

`NoZeroPair` excludes a ring of two in which one id
is 0, where the other node serves everything, and `ForeignMsgs = {}` says that all ring
members run this program; where it is not listed, the theorem holds whatever datagrams arrive.
`starvation`, where requests are redirected to nodes that own another key, shows that the last theorem fails with three nodes.

**RingIsOneDictionary** maps the value of a key to the one at its owner, and answers 303 and 503 to none.
A GET, PUT or DELETE that a node carries out is then one step of the dictionary, since that node is the owner
(`ServesOwnKeysOnly`) and `send_reply()` changes no other key; everything else, redirects, retries and all
datagrams, is a stutter. With `TablesSuffice` a table always has room, because the keys it holds and the new
one are among `Keys` (`RoomForNewKey`, by cardinalities).

### The resource table

`ResourceTableProofs`: **KeysUnique**, from the inductive invariant `TypeOK /\ UniqueKeys`
(`UniqueKeys` alone is not inductive: that a free slot is found as such needs the type of the slots), and
**SlotsTyped** from the same invariant, and
**TableIsDictionary**: the array implements `Dictionary` for every number of slots. Its lemmas: what
the linear search finds is what the dictionary holds (`TableFinds`); the used slots
and the held keys are in bijection, so there is a free slot exactly when the capacity is not
reached (`RoomIsFreeSlot`); each branch of `set()` and `delete()` is the abstract call, or
the stutter of a call that aborts (`StepSet`, `StepDelete`).

### Receiving and parsing in chord-node

`NodeServerProofs` begins with the parser alone, for every window: `parse_request()` and the loop around it
are recursive functions on the positions of the window, and the induction runs from its end. The lemmas:
what they compute is defined and typed (`HeadersDefined`, `AnsweringDefined`); a request that is complete
in a window is the same one, of the same length, in any longer stream that begins with it
(`LineInStream`, `HeadersInStream`, `RequestInStream`); hence **`AnswersInStream`**: the answers to a window
and those due to what it leaves over, joined, are the answers to the whole. This is where the proof would break if an answer
could depend on bytes that have not arrived.

With this, for any number of clients, any streams and any size of the buffer:

| theorem | inductive invariant |
|---|---|
| `OnlyOneConnection` (`OneConnection`) | `Inv`: the queue of connections holds clients only, so that an accepted one is never taken for none |
| `BufferFits` (`TypeOK`) | `Typed`: with the types of the sequences that `TypeOK` only bounds, and `Inv` |
| `BufferContinuesItsStream` (`StreamPreserved`) | `StreamInv` with `Typed` and `Inv` |
| `AnswersAreThoseToTheWhole` (`SegmentationIndependent`) | the same |

`StreamInv` has four parts, each needed by another one. `Kept`: buffer and unread data are the part of the stream from the last
answered request on, and the answers given, followed by those due from there on, are the answers to the
whole stream. It must hold again after the next accept, so `Unread` says that a connection
not yet accepted has lost nothing and has no answers. For that a client must not be in the queue twice, nor be there when it is
connected or served: `Queue`. When a connection ends, what `Kept` said of it is gone; `Begun` remembers that its answers
begin the right ones. Neither property is inductive alone. No fairness, and no assumption on how clients behave, is used.

### tcp-http-server

`TcpHttpServerProofs`, for any number of clients, any names, messages, sizes of the buffer and failures:

| theorem | hypotheses | inductive invariant |
|---|---|---|
| `BufferContinuesTheStream` (`BufferContinuesStream`) | none | `Typed /\ StreamInv` (`Queue`, `Unread`, `Kept` as above, without the answers) |
| `AnswersFollow` (`AnswersFollowMessages`) | `FramedMessages` | with `Followed`: the position in the stream is the end of the messages answered |
| `ServerTypes` (`TypeOK`) | `FramedMessages` | with `Listed`: the types of the nodes, and no name in two nodes |
| `ListIsDictionary` (`DictionaryWhileIntact`) | `FramedMessages` | the same; step by step |

`FramedMessages` says that every message clients send is as long as its header says. It is a condition on clients (the
code cannot tell a message that is too short from one whose rest is the next one's beginning); `MCTcpHttpServer` has it as an `ASSUME`, so that TLC
finds it true of the messages of the run. `BufferContinuesTheStream` does without.
Where the first message in the buffer ends is independent of what follows it, in the empty line
(`FirstEmptyLine`) and in the announced length (`SameLength`), so it is the message the client sent next
(`FrontIsNext`, `NextMessage`): a payload that looks like the end of a header is not one. That the list holds
names and payloads that were sent needs this: cut elsewhere, a "message" could be anything.
For `ListIsDictionary` the list without a name twice is read as the function from names to contents
(`ListFinds`); putting a head, replacing a content and unlinking a node each change that function at one name
(`OneCallOfList`), and a message repeated after a failed `send()` is one more call, with its own return value.
The abstract dictionary has room for all names here, as a list has no limit.

### Hash map and linked list

`HashMapProofs`, for any words, spellings, hash, sizes of tables and failed allocations:

| theorem | inductive invariant |
|---|---|
| `TypeCorrect` (`TypeOK`) | `Typed` |
| `AcknowledgedCounted` (`AcknowledgedIsCounted`) | `IInv == Typed /\ Summed` |
| `MergesConserve` (`MergeConserves`) | the same |
| `TablesAreTallies` (`ImplementsTally`) | the same; step by step |

`Typed` has every node in the bucket of its key and every count between 1 and `MaxCount`; it is what keeps a
key's nodes together, so that the sum over one bucket is the sum over the table. `Summed` says that the sums are within
`MaxCount`, that in a table that is only counted in they are what was acknowledged, and that during a
merge the destination and the nodes still to come are together the goal. The lemmas say what one call
of `ll_insert()`, `ll_find()` and `ll_remove()` does to the sum of a bucket, also where a failed copy makes a present key
look absent. `ImplementsTally` is about tables without a key twice: there the contents are determined by the sums
(`ContentsAre`, `OnlyNode`, `SecondNode`), and the nodes that `hm_foreach()` visits are as many as the keys
(`ForeachDistinct`). `HashMapAssumption` says that `NULL` is not a table, a number or the record of a merge.

### Word count

`WordCountProofs`, for any texts, number of ports and workers, sizes of the buffers (within `SizeAssumption`), choice of the
ports a worker serves, order of `hm_foreach()` and failures:

| theorem | inductive invariant |
|---|---|
| `TypesKept` (`TypeOK`) | `Base` |
| `RepliesFitAlways` (`RepliesFit`) | `Base` |
| `WordsAreConserved` (`WordsConserved`) | `Base /\ Kept` |
| `PrintsTheWordCount` (`PrintedIsTheWordCount`) | `Base /\ Kept` |
| `NothingIsInvented` (`NothingInvented`) | `Base /\ Kept` |

`PrintsTheWordCount` is the correctness of the whole computation: what the distributor prints is, line by line and in order, what a direct
count of the file gives.

`Base` has four parts. `Typed`: the types. `InTurn`: one port at a time has a message, the request or its reply, and a
worker serves only the port in turn; a request fits its buffer; a reply fits too and is in the format of its type.
`Results`: what is not yet sent on of the map results is in the map format with no pair longer than a reduce payload,
the reduce results in the reduce format. `Progress`: how far the distributor is in its three texts, and what it has printed. `RepliesFit` and
the types of the printed lines need all of it: that a reply is no longer than its request (one byte less
than a word and its separator for each pair, `TakenFits`, `WrittenFits`) is a fact about texts of at most
`MAX_MSG_LEN - 4` bytes, and the second cut finds a place only because each pair fits (`PairEnds`).

`Kept` says of every text without a word of a chunk's length that the position in the file is not inside a word,
that a reduce request cannot be taken for one with a header, and that no word occurs more often in the message
under way, in what is to be read, in what is to be sent on and in what is to be combined, together, than
in the file. If besides no worker was out of memory and the text has no three digits in a row, no map request
can be taken for one with a header either, and every word occurs exactly as often. A worker without memory and one
that takes three digits of a chunk for a header keep the first bound and break the second: `NothingIsInvented` needs only the first.
The position and the headers do not follow from the sums, and without them the next chunk would lose or invent words.

`WordCountTextProofs` has what these steps need of the texts. How often a word is in a text, `Count(kind, s, w)`, is
a running total over the places where words begin (`Adds`), for a text, a map result and a reduce result alike; the
tables of the code are these counts (`TablesOfCalls`, `TableIs`, through the fold of `MapThenSumSet` in
`SumSetIsTotal`). Counts add up when texts are joined where no word goes on (`CountJoin`); a pair that is written and read again is itself (`PairRead`,
with `DecimalNumber` for the decimal digits), so a reply holds what its table holds, whatever the
order (`WrittenIs`, `AnswerIs`). A chunk that fills its buffer ends with a separator, which is the byte that `snprintf()` drops
(`ChunkCounts`), a reduce payload ends between two pairs (`ReduceCounts`). The lines are the words
ranked by an order (`PrecedesOrders`, `RankIs`, `LinesAre`), and the reference count over all
spans of letters in the file is the same count again (`ExpectedIs`).

### Foundations, and what is out of reach

`Foundations`: induction, least numbers and recursion from the end of a window, stated with sets and functions in
place of operators, which the provers could not instantiate; what cutting and joining does to the parts of a sequence (`Part`,
`PartJoin`, `PartSplit`, `PartOfPart`, `FlattenJoins`); and running totals, as loops compute them (`TotalStep`, `TotalChange`,
`TotalParts`, `TotalPacked`).

Some assumptions on constants came with these proofs. `ServerAssumption` and `TcpAssumption` say that
streams are sequences of `Symbols`, and `TcpAssumption` also that an announced length is a natural number, which is
what the code makes of a negative one (message_handler.c:513). `PortAssumption` says that the texts are sequences of bytes other than NUL.

Only model-checked is all liveness (`LoneClientServed`, `NetworkDrains`, `AllAnswered`, `UdpServed`, `AllServed`, `JobEnds`,
`WorkersRetire`): the proof system has no rule for fairness and ENABLED that its provers support. The inductions over
data (what a fold, a decimal number or a sequence of entries is for every input) are done by hand in `Foundations` and
the modules that use it, since the library's theorems for them take operators.

## 5. Not modelled

* `pseudo_hash()`'s arithmetic and argument parsing (`Hash`, `Pred`, `Succ` are constants), formatting of answers and of the
  11-byte messages (their fields are kept), lengths of values and of lines, the header limit of http.c:99.
* Failures of system calls other than `recv()` in chord-node, and other than `send()`, `recv()` and
  `malloc()` in tcp-http-server.
* The side of a chord-node client that reads: 404 to a DELETE and 501 have neither Content-Length nor
  a closed connection (webserver.c:98), and a client that waits for the end of the body and the node wait for each other.
* A node that has exited is one that takes no step any more. `Spec` of ChordRing allows that at
  any time, so its safety properties hold of the nodes that are left. Requests for the keys of such a node
  cannot be answered: nobody notices that it is gone, and nothing is stored twice or on disk.
* The worker's answer to a message of unknown type, which changes no state and which no distributor asks for; a NUL byte
  in the input file, which would hide the rest of its chunk; counts beyond an `int`; the header line of the output
  (for a file without words the distributor prints nothing, not even that).
* Tests, scripts, build and deployment files hold no state of the system.

## 6. Plan

1. Client side of a connection in `NodeServer`, with answers whose end cannot be seen.
2. Restarted workers, and a distributor that gives up: the code has neither.
