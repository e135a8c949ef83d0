# TLA+ models of the computer network homework programs

This directory holds TLA+ specifications of the programs in this repository,
configurations that check them with TLC, and proofs about them for TLAPS.
The repository is an archive of homework; it holds four independent programs:

| program | language | where | concurrency |
|---|---|---|---|
| stop-and-wait tunnel | Python | `src/hw4-py` | 2 processes, 3 threads on the client and 2 on the server, UDP between them |
| STUN rendezvous and chat | Python | `src/UDP-Hole-Punching` | a server, any number of clients with 3 threads each, UDP |
| HTTP proxy | C, OpenMP | `src/hw3/tcp` | 12 OpenMP threads, 6 of which handle connections; tasks |
| DNS server | C, OpenMP | `src/hw2/UDP` | one thread, or (`PARALLEL_MODE`) one per processor, on one UDP socket |

`src/hw4` is an empty program, `src/hw1` holds packet captures and answers.

To check a run: `tlc -config <run>.cfg <MC module>`; to check the proofs:
`tlapm AckWaitProofs.tla`, and the same for `HolePunchingProofs`,
`ProxyProofs`, `RequestLineProofs`, `DnsParserProofs`, `DnsServerProofs`,
`DatagramsProofs` and `Minimum`. `PROJECT.json` lists runs, mutants, hazards,
findings and the source lines behind every definition.


## 1. Inventory

### Stop-and-wait tunnel (`src/hw4-py`)

*State.* On the client a `Queue` filled by `ReliableChannelReceiver.rcv_data`
and emptied by `AckWaitUdtSender`; the sender's `counter` and a
`threading.Event`, shared by its two threads without a lock; on the server
`AckWaitUdtReceiver.counter` and a `Queue` emptied by
`ReliableChannelSender.snd_data`.

*Operations.* Put a datagram of the application on the queue; stamp the next
one with the counter, send it, repeat it every 0.2 s until the event is set;
count every datagram that comes back and set the event; accept the datagram
with the next number and acknowledge every datagram; forward what was accepted.

*Hard.* An acknowledgement is counted whatever it acknowledges, so that the
sender's counter can run ahead of the datagrams; the 0.2 s timer races the
acknowledgement; `event.clear()` races `counter += 1; event.set()`; an exception
ends one thread and not the others; UDP loses, copies and reorders.

*Correct if* what the remote application gets is, in order and once each, what
the local one sent; and, with a timer longer than a round trip, all of it.

### STUN server, client and chat (`src/UDP-Hole-Punching`)

*State.* Server: the match table (`info_id_dict`, `id_info_dict`) and
`pending_requests`. Client: `connection_state`, `dp_ip`/`dp_port`,
`transactions`, `send_buffer`, shared by three threads without a lock.

*Operations.* The client sends an indication with its id and a request with the
id of its peer, each once. The server registers, postpones a request until the
peer's one is there, and answers both with the other's address. The client takes
the answer, and from then on sends typed lines to the peer and prints whatever
it receives.

*Hard.* Indication and request travel apart, with faults and without retry; an
id may be registered again by a client that was restarted; a third client may
ask for somebody else's peer; the two answers do not arrive together; the
exceptions of `dict.pop` and `decode` end threads; destination and state are
written one after the other with other threads looking.

*Correct if* a client is connected only to the peer it named, which named it
too, hears only that one, never uses a destination it does not have; if the
server survives well-formed requests; and if two clients that want each other
get connected and hear each other.

### HTTP proxy (`src/hw3/tcp`)

*State.* The process's descriptor table, which all threads share; the locals of
`handle_connection` and `execute_bridge`; `strtok`'s static pointer.

*Operations.* `handle_connection`: accept, read the request once, parse it,
connect, forward the request (or answer 200 to CONNECT), spawn one bridge task
(two for CONNECT), wait for them. `execute_bridge`: while both numbers are open,
recv from one and send to the other; then close both.

*Hard.* Both tasks of a tunnel close both numbers and numbers are reused at
once, lowest first; `recv` returning 0; timeouts set on both kinds of socket;
errors half-way through opening a connection, and sockets of failed attempts; no descriptor left; six threads in
one `strtok`.

*Correct if* each end gets the traffic of its own connection; if a descriptor
number is used only for the connection it was opened for; if nothing stays open
after success; if a handler comes back once its connection is over; and if the
destination is the one of the request.

### DNS server (`src/hw2/UDP`)

*State.* The table of names, loaded once and then only read. Per thread: the
two buffers, `client_addr`, and the variables of `parse_dns_message`. Shared:
the socket.

*Operations.* Load the table, line by line, making room as it grows. Each
thread, for ever: receive, parse (header, questions, three sections of records),
resolve (the header's checks, then the table), answer the sender. A message that
cannot be parsed is dropped; every other one is answered, with a code.

*Hard.* Several threads take turns at one socket, and each must answer the
client whose message it has; the parser is given the full 512 bytes, of which
most may be left from an earlier message, and goes by offsets through them; the
room for labels is counted in 8 bits; `strlen` on names; compressed names;
messages without a question; a line of the file without an end.

*Correct if* every message that can be parsed gets exactly one response, at its
sender, which is the one the table gives; if the parser reads only what was
written where it was written, and refuses nothing that fits in 512 bytes; and if
nothing is written behind a buffer.


## 2. Modules

```
Datagrams ── AckWait ───────── MCAckWait          OrderedStream
   │            │  └─ AckWaitProofs                    ▲
   │            └──── Stream == INSTANCE ──────────────┘
   └── StunMessages ── StunServer ─┐
                   └── StunClient ─┴─ HolePunching ── MCHolePunching
                                             └─ HolePunchingProofs
   └── DnsServer ── MCDnsServer      DnsParser, DnsTable: extended by DnsServer
          │  └─ DnsServerProofs ── DnsParserProofs ── DnsParser
          └──── Service == INSTANCE DnsService WITH records <- Entries(file)

Proxy ── MCProxy        RequestLine ── MCRequestLine
  └─ ProxyProofs             └─ RequestLineProofs
DatagramsProofs: extended by the proofs about datagrams
Minimum: extended by ProxyProofs, RequestLineProofs, DnsParserProofs
```

**Datagrams** is one direction of UDP: a sequence of at most `MaxInFlight`
datagrams, on which `sendto` drops what does not fit, and the operators for
loss, copies and reordering. `Faults` names the faults a run assumes. External:
taken from how the Python programs use `socket`.

**AckWait** is the tunnel. Actions and code:

| action | code |
|---|---|
| `ClientReceives` | `ReliableChannelReceiver.rcv_data` |
| `Poll`, `SendNext`, `SendNextRaises`, `WaitReturns`, `Retransmit` | `AckWaitUdtSender.__send_if_ack`, one action per access to shared state |
| `RecvAck`, `SetEvent` | `AckWaitUdtSender.__wait_for_ack`, counter and event apart |
| `ServerReceives` | a round of `AckWaitUdtReceiver.rcv_data` (only this thread uses what it touches) |
| `ServerForwards` | `ReliableChannelSender.snd_data` |
| `Network` | loss and copies |

`input`, `output`, `delivered` and `stamp` are histories: a queue is what is in
`input` after the first `taken`, and in `output` after `delivered`. Payloads
are model values; those outside `Text` are the ones `data.decode()` raises on.
`sendto` may raise (`BlockingIOError`: the sockets do not block) under
`"send_raises"`, which ends the thread: `spc = "dead"`, `~forwarding`.

**OrderedStream** is what the tunnel promises, with `input` and `delivered`
mapped to the variables of the same name.

**StunMessages, StunServer, StunClient, HolePunching** are the rendezvous.
A member of `Clients` is one process at one public address, so a restarted
client is another member with the same `SourceId`. Ids follow the code: without
`-si` both ids are fresh, even when `-di` is given. A server round is one
action, by outcome: `Register`, `DropUnregistered`, `Postpone`, `Conclude`,
`PopRaises`. In the client `TakeAnswer` (destination) and `Establish` (state)
are two actions, as are the two messages of `Start` and `SendRequest`;
`IgnoreStun`, `LineTooEarly`, `Hear`, `StunTooLate` are the other outcomes of a
receive. A STUN message is the record `decode` reads back; that chat text is
never a STUN message and never the reverse is argued in the module's head.

**Proxy** has the descriptor table `file`, the handler threads with their
locals, the tasks, and both ends of each connection. A call looks its number up
when it is made: `CallRecv`/`BridgeCallRecv` keep the socket in `ref` while the
thread is blocked, `Sends` looks at `file` at that moment. The kernel's part
(lowest free number, accepted sockets inheriting `SO_SNDTIMEO`, data readable
before a reset is reported, an error reported once) is that of Linux. A message
that one `recv` returns is a piece; a `send` may succeed, fail, or, to a client
that stalls for `SND_TIMEOUT`, send a part. `Slow` names the connections whose
ends may outlast a timeout, `Brief` (a bound) those whose ends send one piece at
most. The two `fcntl` calls of a task's loop are two steps (`Check`, `CheckDst`);
`LookupFails`, `ConnectFails` and `TimeoutFails` are the ways in which
`init_tcp_client_socket` fails, each with what it leaves open.

**RequestLine** is `http_parse_request`. A request is a row of words and
characters (`SP`, `SLASH`, `COLON`, `NUL`, `CRLF`, which are no words:
`HostsAssumption`); a part that is missing is `None`, and of one that is not
`whole` the buffer holds a beginning without the end of the line. `Enter` is
`get_line`, which looks for that end and copies the line; without one the parser
returns -1. (The buffer is fresh from `calloc`, so behind what was received
there is no other end of a line.) Then come the seven calls of `strtok`, one by
one, and what is done between them: `Behind` resolves and stores the method, or
returns 1, `Resolve` stores host and port. `hr` is `httpRequest`, of which
`init_bridge` reads method, host and port whatever the parser returned: it
ignores both -1 and 1, and goes on with what `http_request_init` set. `strtok`
loads its static pointer in one step (`Call`) and
stores it in another (`Return`), which is as far as the C library lets two
threads interleave in it without going into its loops. `Overlap = FALSE` gives
the parser to one thread at a time.

**DnsTable** is the loader; **DnsParser** is `parse_dns_message`, one action per
check and per item, because what it reads next hangs on where the last item
ended; **DnsServer** composes both with the threads and the socket.

| action | code |
|---|---|
| `SkipBlank`, `LoadLine`, `LoadNoName`, `Loaded` | a round, and the end, of `load_dns_server_data` with `extract_IPV4` |
| `Receive`, `Drop` | `thread_serve`: `recvfrom`; the first `continue` after it that matters |
| `CheckSection`, `NextSection` | the size checks of `parse_dns_message` |
| `StartName`, `ReadLabel`, `ReadQuestion` | its loop over questions, and `extract_labels` |
| `ReadRecord` | `extract_answers`, `extract_authorities`, `extract_additional`, which are alike |
| `Respond` | `resolve_query`, `stringify_dns_message` and `sendto`: nothing shared is written between them |
| `Killed` | a read behind the buffer or through a pointer that was never set |

A message is not a row of 512 bytes. A client has a letter (`Letters`): questions,
which are rows of labels, and records. `Message` is what is sent for it: the
pieces (labels, the end of a name, type and class, records), each at its place
(`Laid`). A read at an offset where a piece of the right kind starts finds that
piece; any other read finds bytes that may be anything, `Junk`, whose lengths
come from `Leftover`. `LabelAt`, `QuestionAt` and `RecordAt` compute the places
from the lengths of the pieces before them, the parser its offset from what it
reads, so the two agree only if the parser counts right. A record with a
compressed name is `Packed`, which gives what `strlen` and the fields behind it
make of such a record. `IsLetter` is what may be sent: a name has at most 255
bytes and a message at most 512, and the counts say how many items there are. A
label's text is the row of its parts between dots; the part `"cut"` stands for
the last character of a name that the loader cut off, and no label has it.

**DnsService** is what a name server promises, with `records`, `waiting` and
`replies`: at most one reply per message and client, and it is `ReplyTo` of the
message. It knows nothing of threads, offsets or sizes. `records` is mapped to
the lines of the file that are terminated as the loader expects.


## 3. Runs

Expected outcomes are in brackets; the passing runs have up to 1.8 million
distinct states and take up to two and a half minutes.

| run | shows | bounds and why they are enough |
|---|---|---|
| `ackwait_faults` [pass] | `InOrder`, `CounterCovers`, `NothingPastGap`, refinement of `OrderedStream!Spec`, under every fault | 3 payloads, counter to 5, 2 in flight each way: room for a counter that jumps over a number, an old copy behind a new datagram, and a datagram that shares its number with another |
| `ackwait_patient` [pass] | `AckMeansAccepted`, refinement of `OrderedStream!FairSpec` | loss only, timer longer than a round trip; the counter then never passes 4, so `MaxCounter = 5` never bites |
| `holepunch_crowd` [pass] | `TypeOK`, `DestinationKnown`, `PairingByName`, `HearsOnlyPeer` | a third client asks for one of a pair, which is restarted and then wants the third; loss and reordering, one line each. Four clients are the fewest with a restart and a rival. Copies make this instance too large; the theorems cover them |
| `holepunch_example` [pass] | `BothConnect`, `LinesHeard` under fairness | the example of the README: one after the other, no faults, and a third client that names only its peer |
| `holepunch_keyerror` [violation] | the server does not survive | two clients started together, no faults |
| `proxy_plain` [pass] | `FaithfulRelay`, `NumbersStayOwn`, `OnlyFailuresLeak` | two handlers, two plain requests, four numbers: exactly as many as two connections use, so numbers are reused. `SYMMETRY` over handlers and connections, which are alike here; no liveness is checked under it. One piece from each end: what this run is about is whose numbers they are; rows of pieces are in the next run, and in `RelayIsFaithful` for any number |
| `proxy_one_handler` [pass] | `TypeOK`, `FaithfulRelay`, `OnlyFailuresLeak` with tunnels | one handler, a tunnel and a plain request in either order, two numbers: every number is reused and accept fails when they are leaked. Each end of the tunnel sends up to two pieces, so the task from the client copies what follows the CONNECT, and the client of the tunnel may stall, so that a part is followed by another piece |
| `proxy_reuse` [violation] | `FaithfulRelay` fails for two handlers and tunnels | as above |
| `proxy_never_returns` [violation] | `HandlerReturns` fails | one handler and one connection, under fairness |
| `parser_in_turn` [pass] | `TypeOK`, `DestinationIsRequested`, `NoCrash` for all requests, one thread at a time | two threads and every combination of method (one of them unknown), scheme, port and path, with and without an end of the line: the second starts with whatever the first left in `strtok` |
| `parser_race` [violation] | `DestinationIsRequested` fails with two threads in the parser | requests as curl makes them |
| `dns_server` [pass] | `TypeOK`, `RepliesToAsker`, `ReadsOnlyWritten`, `RoomForLabels`, `WholeIsParsed`, `BuffersFit`, `TableFits`, refinement of `DnsService!Spec`, `Answered` under fairness | two threads, two clients, each of which sends one of 12 kinds of messages: a thread begins with what another message left behind, both threads are busy with different clients in every order, replies overtake each other. Of the two files, one makes a table of 2 grow (`runner.c` starts with 10, the step is the same) and ends without a newline, the other has a word too many and then one too few |

Every property of a passing run has a mutant: a small change to one action,
kept beside it in its module under the comment "Mutant", that breaks it. A few
show what the properties depend on: `PollKeepsEvent` (no `event.clear()`),
`IsNextOrLater` (a receiver that accepts later numbers), `AcknowledgeNew`
(duplicates not acknowledged: one loss stops the tunnel), `StateFirst`,
`OneSided`, `AnySuccess`, `NoTaskwait`, `BothWays` (two tasks for a plain
request), `PortOfRest`, `SharedAddress` (what `firstprivate` prevents),
`NameRoom253` (the longest name needs more than 253 bytes with its NUL),
`Room7`, `LeastPacked` (a size check that asks for 12 bytes per record refuses
the last record of a full datagram).

The 12 messages of `MCDnsServer`: a name of two labels; one label with a dot in
it and an EDNS record; a name of 255 bytes, the most there are, in 85 labels,
for which the room doubles four times, as for the 127 that are possible
(`RoomKept` is proved for those); exactly 512 bytes, with a record of 11 bytes
at the end; an unknown name; type AAAA; an inverse query; two questions; none; a
response with compressed answers; a request for a zone transfer with a
compressed authority; opcode 2. One label of the long name has the text and the
others none, so that TLC does not handle 85 texts; their lengths are what
matters. Nothing is lost
or copied: a query that is lost is one that was never sent, a copy is the same
message sent by another client.

### What the violations show

1. **`holepunch_keyerror`**: `pending_requests.pop(pid2)` (`server.py:98`) raises
   when the peer is registered but has not asked yet. Two clients started
   together can end the server.
2. **`proxy_reuse`**: the two tasks of a CONNECT close both numbers
   (`connection_handler.c:152`). Between the first and the second close, the
   numbers may have been given to another handler's connection, whose bytes then
   go to the wrong end or whose socket is closed under it. The passing runs
   delimit this: one handler (`taskwait` before the next `accept`), or one task
   per connection, is safe.
3. **`proxy_never_returns`**: `recv` returns 0 at the end of a connection;
   `connection_handler.c:147` ends only for `< 0`, sends 0 bytes and goes on.
4. **`parser_race`**: `strtok` in six threads (`http_parser.c:51`).

### Known behaviour without a run of its own

The models contain each of these; the properties are stated so that they do not
depend on them.

- A chat line that arrives before the client's own answer raises in `decode` and
  ends its receiver thread (`client/client.py:129`, action `LineTooEarly`): such
  a client never prints anything. `LinesHeard` is checked without `"type"` in
  `Haste`, when nobody types before both are connected.
- A third client's request pops the pending request of the peer it names
  (`server/server.py:97`, `Conclude` without a match); nobody sends it again.
  `BothConnect` is checked with a third client whose peer id is fresh.
- `-di` without `-si` is ignored (`client/client.py:45`; the option's help text,
  `runner.py:12`, does not say so): `DestPeerId`.
- Of a host with several addresses each attempt that failed leaves its socket
  open (`tcp_socket.c:104`, `NextAddress`), even when a later one succeeds.
  `OnlyFailuresLeak` speaks of connected sockets.
- A short `send` is not noticed (`connection_handler.c:148`, `SendsPart`): when a
  client stalls and then reads on, the rest of that piece is lost, and the next
  piece follows. `FaithfulRelay` allows a part of a piece in the piece's place,
  to such a client only; `proxy_one_handler` has one that gets more after it.
- What a failed `init_bridge` opened stays open (`connection_handler.c:62`,
  `Fails`, `ConnectFails`, `TimeoutFails`): `OnlyFailuresLeak` excuses those.
- Of a request that is not CONNECT only what one `recv` of 1024 bytes returned is
  forwarded (`connection_handler.c:75`, `:105`): `Sources` has no task that
  reads from the client.
- `https://` further on in the uri cuts the first 8 characters of the host
  (`http_parser.c:62`); the lines of `RequestLine` have the scheme in front only.
- An unknown method makes `parse_request_line` return 1, which
  `http_parse_request` passes on as an offset (`http_parser.c:54`, the comment on
  line 23 says -1): `Behind`. A line without an end makes it return -1: `Enter`.
  `init_bridge` looks at neither (`connection_handler.c:95`) and asks for a
  connection to host `NULL`, port 0: in `Proxy`, `ConnectFails`.
- A DNS message that is a response is parsed and answered like a query, although
  the comment on `dns_parser.c:45` says it is not parsed on: message `response`.
- `strlen` reads over the pointer of a compressed name (`dns_parser.c:181`), so
  every field behind it is read one byte late and the next record is looked for
  far away. The message is dropped by the next size check, or the parser reads
  behind the buffer: `Packed`, `BehindBuffer`, `Killed`. `ReadsOnlyWritten` (of
  records), `WholeIsParsed` and `Answered` speak of messages without compressed
  names (`whole`).
- A message without a question is answered with code 1, and with a question made
  of whatever `malloc(0)` returned (`dns_parser.c:58`); the labels in it may lead
  anywhere: `Copied`, `Killed`. `Answered` therefore excepts a killed process, and
  `BuffersFit` is about messages with a question.
- The loader overwrites the last character of a name, which is the newline only
  if there is one (`dns_loader.c:95`): a name at the end of the file, or before
  a space, is never found (`Cut`, `Entries`). A line of one word kills the
  loader (`LoadNoName`).
- The labels of a question are joined by dots whatever they contain: one label
  `a.b` and two labels `a`, `b` are the same name (`Text`).


## 4. Fairness

*AckWait.* Every thread is an endless loop: weak fairness for each step the
sender thread can take, `SetEvent` and `ServerForwards`. The two receiving ends
(`RecvAck`, `ServerReceives`) have strong fairness: the network that may lose a
datagram does not lose all of an endless row of repetitions. No fairness for the
application, for faults, or for `Network`. That a timer does not fire early is
the absence of `"early_timeout"`, not fairness.

*HolePunching.* Weak fairness for each thread and, per source address, for the
receiving ones: the socket's queue is first in, first out. `Start` and
`TypeLine` are users and have none. No strong fairness: the liveness run has no
faults, because the programs repeat nothing, so with any loss liveness fails.

*Proxy.* Weak fairness for each handler and each task, i.e. the operating system
runs every thread and OpenMP runs every task. None for the ends.

*DnsServer.* Weak fairness for the loader and for each thread, which is an
endless loop that blocks only in `recvfrom`. None for the clients, and none for
`Killed`. That is enough for `Answered` since no thread has to wait for another:
the socket's queue is emptied by whichever is free, and the instance has no more
messages than the queue has room for.

`RequestLine` and the other runs check safety only.


## 5. Proofs

Every invariant that a passing run checks, and every refinement but for its
liveness, is a theorem, under the hypotheses that the sections below name. All are for any values
of the constants that satisfy the named assumptions, which TLC evaluates in the runs
of the module that declares them:

| assumption | says |
|---|---|
| `AckWaitAssumption`, `DatagramsAssumption`, `ProxyAssumption` | types of constants, a non-empty channel |
| `StunAssumption`, `ClientAssumption` | the same, and that `Server` and `NoPeer` are not clients |
| `RequestLineAssumption`, `RequestsAssumption` | types of constants |
| `HostsAssumption` | a host name is none of the characters a line is cut at |
| `DnsParserAssumption` | letters are letters (`IsLetter`, section 2), left-over lengths are bytes |
| `DnsTableAssumption` | files are rows of lines, and `runner.c` makes room for at least one record |

None is about the order of events, and none bounds how many threads, clients,
letters or lines there are.

**AckWaitProofs.** `InOrder` is not inductive. `IInv` adds the chain it hangs on:
what the receiver queued is the beginning of the input (`ReceiverInStep`), since
what it reads is something the sender stamped (`ChannelSound`), with a number
not smaller than its position (`StampsAhead`), since the counter covers
everything stamped, counted or signalled (`CounterCovers`). The step that closes
the argument is `NextIsNext`: a datagram with number `n + 1` was stamped at a
position of at most `n + 1`; what stands at the first `n` positions was accepted
with its own position as its number, so it is the one at position `n + 1`. From `[]IInv` follow `TypeCorrect`,
`CounterNeverBehind`, `GapIsFinal`, `DeliveredInOrder`, and `RefinesStream`, that
`Spec` implements `OrderedStream!Spec`: only `ClientReceives` and
`ServerForwards` are visible, all else stutters.

`AckedIsAccepted` is that `AckMeansAccepted` holds for `Patient` faults: any but
a timer that fires early and a network that makes copies. Under either of those
TLC finds it violated: a second copy is acknowledged too, that acknowledgement
moves the counter once more, and the next datagram is stamped with a number that
the receiver never accepts. The invariant, `InStep`, is that one thing of an
exchange is under way: the datagram (`Sending`), its acknowledgement
(`Acknowledging`) or the signal to the sender thread (`Acknowledged`), with the
sender's counter and the receiver's agreeing in each. The delicate step is
`Retransmit`: a patient timer finds all three gone.

**HolePunchingProofs.** `PairingByName` speaks of a client's destination; that
comes out of an answer, the answer out of two pending requests and the match
table, and those out of messages. `IInv` says what each may hold: the datagrams
per pair of addresses (`LinksOK`; lines only where the writer was told its peer
is), what the server knows (`ServerSound`), what
clients know (`DestinationsSound`). The proof has one lemma per server outcome
and one per client thread. `TypeCorrect`, `PairedByName`,
`OnlyPeersHeard` and `DestinationBeforeUse` follow, for any number of clients and command lines and
for all faults. `ServerStep` is where a proof is needed most: both sides of the
match are compared, or `Paired` does not hold of the answer.

**DnsParserProofs.** What the parser reads next hangs on where the last item
ended, so `ReadsOnlyWritten` is not inductive. `ParserInv` adds `Progress`: from
the section and the number of pieces left follows which piece of the letter is
next, and `loc` is its place in `Laid`; in a name, `labels` and `text` are those
of the labels before it; `first` is the first question once it was read. Two
things make that enough. No two pieces of one kind begin at the same place
(`LabelsApart`, `QuestionsApart`, `RecordsApart`), so what is found there is the
one piece (`LabelFound`, `FixedFound`, `RecordFound`); this is where the sums
must grow at every step, that is, where no label is empty and no record without
its fixed fields. And a name of at most 255 bytes has at most 127 labels
(`NamedBound`): the room is then 10, 20, 40, 80 or 160, and never gets to the
next doubling, which would leave 64 in 8 bits (`RoomGrows`). With records whose
names are compressed the offsets are lost behind the first one; there only the
questions are kept (`Progress` says nothing of `loc` then), which is why
`ReadsOnlyWritten` asks for `whole` messages in its second half alone.
The places are sums and the text is a concatenation of rows, functions that call
themselves. Induction is out of this prover's reach; what is needed of them
(`TotalsType`, `TotalsGrow`, `JoinedType`) is proved by the least index at which
it would fail (`LeastOfNat`), and that there is such a function at all
(`TotalsExist`, `JoinedExist`), which the definition alone does not say, the
same way.

**DnsServerProofs** has the rest of the server.

- `EachAnswersItsOwn` is `RepliesToAsker` for any number of threads and clients.
  It is not inductive: a thread answers the one it received from only if no
  other thread has the same message. `ServeInv` adds that what waits in the
  socket waits for a reply too, that no message is twice in the socket, none both
  there and with a thread, none with two threads, and that who has sent nothing
  has nothing underway. The delicate step is `Receive`, which takes one element
  out of the socket's queue and has to keep it free of repetition
  (`WithoutElements`).
- `TableHasRoom` is `TableFits` for a file of any length and any first size, from
  `TableInv`: while it is loaded the table is no larger than its room, and that
  room is positive, so doubling always makes some.
- `ReadsWritten`, `RoomKept`, `WholeParsed` and `AnswersFit` are
  `ReadsOnlyWritten`, `RoomForLabels`, `WholeIsParsed` and `BuffersFit`, from
  `ParserInv` (`ParserAlways`); `ServeInv` says that a thread that parses has a
  message.
- `TypeCorrect` needs besides both that the flags of a reply, put together from
  single fields, are 16 bits (`ReplyWord`), and that whoever a thread answers is
  a client it received from.
- `ServiceImplemented` is that `Spec` implements `DnsService!Spec`. `Loaded` and
  all of the parser stutter, `Ask` is `Ask`, `Respond` is a reply. The service
  looks into the file, the server into its table: `TableMatches` keeps, line by
  line and for every name that can be asked for, that its first record in the
  table is the first of its entries among the lines read so far (`ServiceLookup`;
  records that lost a character have names that no label spells, `CutNever`).
  With `Progress`, which says that `first` is the question the letter asks, the
  reply is `ReplyTo` (`ServiceReply`); with `RepliesToAsker` it answers someone
  who waits (`ServiceStep`).

**ProxyProofs.** `TypeCorrect` is for any mix of requests. The rest is for `Plain`
ones, since with tunnels it is false of the code (`proxy_reuse`). `NumbersKept`
is `NumbersStayOwn`, `NothingLeaks` is `OnlyFailuresLeak`. Neither is inductive:
a number that a thread was given stays its own only if nobody else is about to
close it. `OwnInv` follows a number from its opening to its close: an end of a
connection has at most one number (`OneNumberEach`), a connection one thread
(`OneThreadEach`), a thread before its task has its client's number and no task
(`HandlerOwns`), a task both numbers until it closes them and none of what it
closed (`TaskOwns`), a connection that was not accepted nothing (`Fresh`). The
delicate step is `CloseDst`: between it and `CloseSrc` any thread may be given
the number, and this task has no further use for it. In a tunnel the other task
has. `RelayIsFaithful` is `FaithfulRelay`. Its invariant, `RelayInv`, is that what
was read from the destination reached the client but for the piece in hand, as
long as the connection to the client lives: each piece in its place, whole or, if
the client may stall, cut. That the lowest free number is a free number is
`MinOfNat` of `Minimum`, from the library's well-foundedness of `<`.

**RequestLineProofs.** `TypeCorrect` is `TypeOK` for any number of threads that
cut up each other's lines as they like. It says of every pointer, the host that
`init_bridge` reads included, that it is null or a place in a line of the length
that line has. That needs `TypeInv`, that the last symbol of every line stays a
NUL, for then `strtok` finds an end of whatever it is given (`StrtokWithin`); and
that a line, once it is copied (`GetLineIs`), is cut but keeps its length. `DestinationInTurn` and
`NoCrashInTurn` are `DestinationIsRequested` and `NoCrash` for `Overlap = FALSE`,
one thread in the parser at a time; otherwise `parser_race` refutes the first.
The first also says what is stored of a request that is refused (nothing), and
that only those are which have no end of the line or no known method.
`TurnInv` says how far each thread has come: `LinesCut`, which symbols of its
line the calls so far have turned into NULs (of a thread that has not begun, none);
`TokensFound`, what they returned; and, of the thread inside, who is alone
(`Alone`), where `strtok` will go on (`GoesOn`). Everything is said in terms of
the request: where its host (`Front`), path (`Slash`) and version (`Blank`) are
follows from which parts it has (`WrittenIs`). The delicate step is `Return`:
for each of the seven calls the place where the token starts and the one where
it ends are the least of a set of positions (`StrtokIs`, with `Minimum`), and
before the call for the host the scheme, whose slashes would end it, has been
skipped (`WithoutSchemeIs`).

**DatagramsProofs** holds the lemmas about channels, **Minimum** those about least
elements, which the others use.

*Only model-checked.* Liveness, which is beyond this prover: `ImplementsFairStream`
(of which `RefinesStream` is the safety part), `BothConnect`, `LinesHeard`,
`Answered`. What the violation runs refute is no theorem. Two invariants are
checked on instances for which no theorem speaks: `FaithfulRelay` and
`OnlyFailuresLeak` with tunnels and one handler (`proxy_one_handler`), where both
tasks close both numbers and only `taskwait` keeps that from the next connection.


## 6. What the models leave out

- `hw4-py`: the number and the payload share one datagram, of which
  `recvfrom(4096)` may cut the end; payloads are atoms here. The GBN classes have
  no method bodies. A busy loop is a thread that waits.
- STUN: header bits, `message_len` (16 bits, not checked), helpers for binary
  strings. A datagram that is no STUN message and no chat line is not sent by
  any of these programs, nor does any program but the clients talk to the
  server. Random ids are taken to be distinct.
- Proxy: which OpenMP thread runs a task; `SIGPIPE`; setting up the listening
  socket; the resolver (any outcome); the logger. `close` and `fcntl` do not fail
  on open numbers. TCP delivers in order; ends do not close one direction only.
- Request line: path and version, which are stored and never read (`atof` with
  them); the names of the other seven methods; headers (which are not parsed).
  Of `atoi` that a word which begins with no digit is 0: host names are taken to
  begin with none. Requests without a host, and those with a scheme further on in
  the uri.
- DNS: messages whose counts or lengths contradict what they contain, names of
  more than 255 bytes, datagrams shorter than a header: nothing that resolvers
  send. `recvfrom` does not fail; a `sendto` that fails is a response that is
  lost. Time to live, and the fields of records, which nobody reads. Memory is
  never freed and never runs out. That `init_udp_socket` succeeds is not checked
  by `runner.c`; here it does. A file that cannot be opened ends the program.


## 7. Plan

Done: sections 2 to 5. What is left, by what it would add:

1. **Tasks**: OpenMP's assignment of tasks to threads in `Proxy`: whether both
   directions of every tunnel get a thread while others are in `taskwait`.
2. **Request**: a request that reaches the proxy in several pieces
   (`connection_handler.c:75`), which needs `Proxy` and `RequestLine` composed.
3. **Framing**: number, payload and the 4096 bytes between them, for `AckWait`.
4. Proofs: `FaithfulRelay` and `OnlyFailuresLeak` of `Proxy` for one handler with
   tunnels, from an invariant that knows which of the two tasks has closed what.

### Not modelled

The proxy's logger (output only), `src/hw4` (an empty program) and `src/hw1`
(captures and texts).
