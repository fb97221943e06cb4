# Verification of simpleUDP

simpleUDP is a pair of daemons, `compA` and `compB`, that keep an inventory each
and move items between them.  A daemon waits in `select` for a datagram or for a
line of its user.  A datagram opens a DTLS 1.2 session that the daemon serves; a
line (`SEND n`, `REQUEST n`, `CHECK`, `REFILL`, `help`, `exit`), or an inventory
that has become 0, makes it open a session to the other daemon as a client.  Every
session carries one encrypted command and at most one answer.  `src/src/compA` and
`src/src/compB` are the same program up to names and addresses; the line numbers
below are compA's, and the one difference that matters (compA leaves
`send_reply_buffer` uninitialised, `udp_A.c:54`) is the constant `WildReply`.

Contents: the inventory, the plan, the modules and how they correspond to the code,
the runs, the fairness, the proofs, the findings, and what is left out.

## 1. The parts of the system

| part | state | operations | interacts with |
|---|---|---|---|
| main loop, `udp_A.c` | `INVENTORY`, `cleanup`, the listen socket, `send_buf`, `send_reply_buffer`, `readWriteErr` | open the socket, refill at 0, `select`, peek and `connect`, read, react, reply, drain, run the shell, stop | everything below |
| handshake drivers, `nonBlocking_dtls.c`, `wolfssl_util.c` | the session, the timer of wolfSSL | `nonBlock_connect` (accept), `send_nonBlock_connect` (connect) | wolfSSL; both read `cleanup`, and the accept writes it |
| client session, `dtls_send.c`, `cleanup_util.c` | one socket, context and session | connect, write, wait for the answer, shut down | the message semantics on the answer |
| message semantics, `io_handler.c` | `INVENTORY` | `encrypt_send`, `encrypt_react`, `decrypt_react` on either side | the cipher, the session |
| SIGINT, `interrupt_handler.c` | `cleanup` | set the flag, interrupt a blocking `select` | every loop that tests the flag |
| shell, `cli/*.c` | one line | read, split, execute a command | `encrypt_send`, `encrypt_react`, `dtls_send` |
| message cipher, `hmac.c`, `aes_encrypt.c`, `generate_key_util.c`, `string_util.c` | - | pad, encrypt, mark with an HMAC; the inverse | the message semantics |
| sockets, `create_socket.c` | descriptors | create and bind | main, `dtls_send` |
| wolfSSL 3.12.2 (vendored) | the handshake, the record layer, the message pool and its timer | `wolfSSL_accept/connect/read/write/shutdown`, `wolfSSL_dtls_got_timeout` | the two sockets |

**What is hard.**  Each daemon is one thread, but it is server and client in turn, and
while it is one it is deaf as the other: the listen socket is closed while the shell
runs a command and stays open, unread, while the automatic refill runs.  So the hard
behaviours are of two threads and a network:

* two daemons that open sessions to each other at the same moment, each depending on
  the other's retransmission timer running out (or on its socket being reopened);
* a datagram that reaches a socket which by then serves another session: left from an
  earlier session, copied, delayed, or repeated by a flight's retransmission;
* a session that ends half way (lost `close_notify`, lost answer, a client that gave
  up), which leaves the server in a wait that tests a flag, or tests nothing;
* SIGINT, which overwrites and is overwritten by the handshake's own use of
  `cleanup`, and which the loops test at some places and not at others;
* the order *debit, then try to send* on both sides, so that every failure after the
  debit loses items, and the wish that none ever creates them.

Inside one daemon there is more that a test hardly reaches: characters pass three
buffers of which `select` sees one; the listen socket is closed twice, three times at the
end, by a number that may belong to another socket by then; every failure has its own
`continue`, `break` or neither; and the two sides must agree on a number that one of
them has typed, cut to an int, padded to a block and marked by a random byte.

PROJECT.json lists these as hazards with the line where each one bites.  Some are modelled
but watched by no property, because the code does exactly that and says nothing against it:
a failed handshake stops the daemon (`nonBlocking_dtls.c:73`), half a line is executed as a
command of its own (`cli/input.c:20`), compA selects on standard output after a failed
`bind` (`create_socket.c:31`), and the two undefined ones (`aes_encrypt.c:91`,
`dtls_send.c:71`).

**What makes each part correct.**  Items are never created, whatever is lost, repeated
or interrupted (`NothingCreated`).  An answer is applied only by the session that asked
for it (`ReplyMatches`), and no record of another session is ever read (`KeysAgree`).
The stock tests hold (`OnlyRefillOverdraws`).  No message makes the program dereference
a null pointer (`NoCrash`).  A client session ends (`ClientReturns`), a served one too
(`ServerReturns`), and SIGINT is honoured (`InterruptedServerStops`, `FlagSticks`).
All of a session's effect on the two inventories is one debit, followed by one credit of
the same amount or by none (`ImplementsLedger`).  In the process: every write is inside
its buffer (`IndicesInBounds`), nothing typed is lost (`NothingTypedIsLost`) or left
unexecuted (`TypedLinesRun`), commands are run with the words of their line
(`TokensAreWords`), the other side decrypts what this side acted on (`MessageMeansPair`),
no socket leaks (`NoSocketLeft`), standard input survives (`StdioKept`), and wolfSSL is
initialised when a session uses it (`ClientInitialised`).

## 2. The modules

* `Payload.tla` - `io_handler.c` as operators: what each command does to the inventory
  of the side that serves it and of the side that gets the answer.  A message is a pair
  of command and number, each of which the program encrypts on its own; `Blank` is a
  buffer that does not decrypt (`validate_HMAC` finds no command in it).
* `SimpleUDP.tla` - the two peers, the network and SIGINT: the state, `Init`, one action
  per step of the code that something else can come between, `Next`, the fairness and
  the properties.
* `MCSimpleUDP.tla` and the `.cfg` files - instances for TLC: the scripts say what the
  users may type, in any order and any number of times.
* `SimpleUDP_proofs.tla` - theorems of `SimpleUDP` for every value of its constants.
* `SimpleUDP_calm.tla` - the theorem about crashes, and its stronger invariant.
* `SimpleUDP_sessions.tla` - the theorems about keys and answers: the invariant that ties
  every record to the accept that drew its keys and to the command that was asked.
* `SimpleUDP_items.tla` - the theorem that items are never created.
* `Ledger.tla` - what the program promises about items, without a network: each client
  session of a peer is an exchange that takes items from one stock at most once, after
  which they are due to the other one, until they are added there or lost.
* `SimpleUDP_ledger.tla` - the refinement mapping from `SimpleUDP`, and the property
  `ImplementsLedger`.
* `SimpleUDP_refines.tla` - the proof that the mapping is a refinement.
* `Shell.tla` - `cli/input.c`, `cli/tokenize.c` and the frame of `cli/shell_loop.c`,
  character by character: the kernel's buffer, stdio's, the line and the tokens.
* `Codec.tla` - `string_util.c`, `aes_encrypt.c`, `hmac.c` and `generate_key_util.c` as
  operators: how a command and its number become a message, and the way back.
* `Process.tla` - one daemon as a process: `main`'s loop with its descriptors, the `Shell`
  it calls, the commands of `cli/shell.c`, `dtls_send` around a session that may do
  whatever `SimpleUDP` allows, the messages of `Codec`, the effects of `Payload`, and
  wolfSSL's count of its users.
* `MCProcess.tla`, `OneDaemon.cfg` - its instance.
* `Shell_proofs.tla`, `Codec_proofs.tla`, `Process_proofs.tla` - theorems of `Shell` (bounds,
  text, words), of `Codec` (what is decrypted is what was encrypted), and of `Process`
  (types, sockets, wolfSSL's count, standard input, messages), which has those of `Shell`
  too because it implements it.

Two compositions, at two grains: `SimpleUDP` has both daemons, the network and a session
step by step, and takes a command as one step of the user; `Process` has one daemon, with
everything between the user's keyboard and the session, and takes a session as one step.
The joints are `Payload`, which both use, and the outcomes of a session: `Process`'s
`Answer` and `Talk` allow every message of `Requests` and every answer of `Replies`, in
any order and any number, and a failure at any time, which is more than the peer of
`SimpleUDP` does.

### State and code

| variable | code |
|---|---|
| `inv[p]` | `INVENTORY` |
| `cleanup[p]` | the global `cleanup` |
| `pc[p]` | where the thread is: `loop` (`udp_A.c:73`), `select` (100), `accept` and `acceptWait` (`nonBlocking_dtls.c:14-60`), `read` (`udp_A.c:149`), `check` (152-171), `reply` (185), `drain` (204), `shell` (`shell_loop.c`), `connect`, `write`, `await`, `bye` (`dtls_send.c`), `stopped`, `crashed` |
| `srv[p]` | the session served: the port the listen socket is connected to (0: none), the keys (`sid`), the stage of the handshake, what the read gave (`got`, `req`), `send_reply_buffer` (`ptr`: null, heap, wild), `send_buf` (`buf`), and whether `select` also reported stdin |
| `cl[p]` | the session p runs as a client: its port, keys, stage, retransmissions, command, and whether it is the automatic refill |
| `queue[p]`, `answers[p]` | the receive buffers of the listen socket and of the client socket |
| `wire[p]`, `late[p]` | datagrams p has sent: in order, and out of order |

In `Process` and `Shell`:

| variable | code |
|---|---|
| `source`, `typed`, `closed` | standard input: a terminal, which hands out a line at a time, or a pipe; what the kernel holds of it; whether the writer is gone |
| `stdio` | what `getchar` has read ahead |
| `phase`, `line`, `room` | `shell_read_line`: `buffer[0..position)` and `bufsize` |
| `scan`, `tokens`, `slots` | `shell_split_line`: strtok's place, `tokens[0..position)` and `bufsize` |
| `input`, `ran` | history: what was typed, what was executed |
| `pc` | `loop` (`udp_A.c:73`), `select` (101), `spin` (recvfrom on something that is no socket, 108-114), `serve` (143-216), `shell` (`shell_loop.c`), `context`, `socket`, `talk`, `end` (`dtls_send.c:26`, `wolfssl_util.c:80`, `dtls_send.c:39-68`, 70-82), `stopped`, `undefined` |
| `fds` | the descriptor table: standard, listening, a client's, or free |
| `listenfd`, `sockfd` | the variables of `main` and `dtls_send`; -1 when socket() failed |
| `count` | wolfSSL's `initRefCount` |
| `stdin` | `FD_ISSET(STDIN_FILENO, &readfds)` when a datagram was reported too |
| `refill` | `dtls_send` was called for an empty inventory, not by the shell |
| `sent` | history: the last message made, and what it should say |
| `side`, `certs` | compA or compB; whether the certificates are where the code looks |

A step ends where something else can matter: at a read of a socket, at a test of the
flag, at a send.  Everything between two such points is one action; for instance `Serve`
is `decrypt_react(_, 0)`, the debit and the copy into `send_buf` together, because no
other thread sees them apart, and `CheckInterrupted` stands between the read and the
test of `cleanup` because SIGINT does.

### Decisions

* **The handshake** is two flights each way: `hello`/`offer` and `finish`/`finished`.
  The HelloVerify round is collapsed into the first: it changes nothing either peer
  keeps.  Each accept draws a fresh `sid`, which stands for the keys.  What a record is
  taken for follows wolfSSL: records of a later epoch are dropped during the handshake
  (`internal.c:11785-11804`), a repeated flight makes the other side repeat its own while
  its message pool is not empty (5492-5590, 12099), a Finished made with other keys is
  fatal.
* **`FirstRead` does not compare keys.**  A record of another session would fail its MAC.
  `KeysAgree` shows that such a record never gets to a read; were it to, the run fails.
* **A socket that is connected** only takes datagrams of its peer's port, and sending to
  a client port that is closed may be answered by an ICMP error, which makes the send
  fail (`Refused`): the code then sets `cleanup`, and the daemon stops.  The error may
  also come too late, so both outcomes are possible.
* **Ports** of client sessions are never reused, as the kernel's ephemeral ports are not
  within the few sessions of a run.
* **Undefined behaviour** is a choice: an uninitialised `send_reply_buffer` starts null or
  wild, and freeing a wild one crashes or not.  A message zeroed up to its first zero byte
  either decrypts still or gives the null command that `decrypt_react` dereferences.
* **The users** type any command of their script whenever the shell runs.  A line that
  does nothing (`help`, an empty line, a refused SEND) is `ShellIdle`.
* **A ledger's exchange** is read off the state: a command that may still be applied keeps
  it open (or, a SEND being already deducted, due), an answer with items that may still be
  applied makes it due, and otherwise it is over.  `Commanded` and `Answered` name the
  datagrams and the places of the threads that count.
* **A message** of `Codec` is the tuple of what went into it: decrypting with another key
  gives `Garbage`, which is no number, and of the eight bytes of a salt the first is kept,
  the one the program looks at.
* **Undefined behaviour in `Process`**: a number longer than a block overruns
  `concat_output` (`aes_encrypt.c:91`), and with descriptor 0 closed nothing is known of
  the shell; both lead to `undefined`, of which only the parts that do not depend on what
  happens there are claimed.  The `sockfd` that `dtls_send` never assigned is any
  descriptor.  The `'\0'` that `AesDecrypt` writes behind a full block
  (`aes_encrypt.c:164`) goes into the slack of a 16-byte allocation, and is taken as such.
* **A bind that fails** returns EXIT_FAILURE in compA (`create_socket.c:31`), which is
  descriptor 1: `select` watches standard output, and recvfrom on it fails until SIGINT
  (`spin`).  compB returns -1, and with it select watches nothing.
* **SIGINT** sets the flag at any point, and may or may not interrupt a blocking select:
  the code tests the flag just before the call, so a signal in between is not noticed.

## 3. The runs

All instances of `SimpleUDP` have two peers with two items each (the code: 1000) and a REFILL of one
(the code: 500).  What matters is kept by the small numbers: a SEND of part and of all
the stock (the latter starts the automatic refill), a REQUEST that can and one that
cannot be served, a REFILL of more than is left.  `MaxSessions` bounds the sessions one
peer opens, `MaxAccepts` those it serves, `MaxRetries` the retransmissions of a flight
(6 in wolfSSL: 1, 2, 4, ... 64 seconds), `MaxSignals` and `MaxFaults` the environment.

| run | shows | bounds |
|---|---|---|
| `lossy_exchange` | `TypeOK`, `NothingCreated`, `ReplyMatches`, `KeysAgree`, `NoCrash`, `OnlyRefillOverdraws` when A runs any two commands while two datagrams are lost, copied or delayed | two sessions, so that the second one meets what is left of the first; a third accept for a late hello; two faults, so that a copy of one datagram meets the loss of another |
| `both_initiate` | `NothingCreated`, `ReplyMatches`, `KeysAgree` and `ImplementsLedger` when A sends all it has (and refills itself) while B requests and refills | two sessions each way, one retransmission, one loss, copy or delay; a shorter script |
| `early_timers` | `NothingCreated`, `ReplyMatches` and `KeysAgree` when timers run out although the answer is on its way, so that a flight is repeated while it is answered | `Prompt = FALSE`, one session each way, one delay (for safety a datagram delayed for ever is a lost one) |
| `interrupts` | `NothingCreated` and `ImplementsLedger` with SIGINT anywhere, `exit` of A, and B serving with a wild pointer; `InterruptedServerStops` | B is the side that serves, so a session of it without a request, lost or interrupted, tests the wild pointer (`udp_A.c:185`), and its end frees it; one SIGINT per peer: the flag is set once and for all, or overwritten once |
| `two_clients` | `ClientReturns` when both peers run commands against each other | no faults: a lost answer leaves the client waiting for ever (section 6) |
| `lone_initiator` | `ServerReturns` when one peer alone opens sessions | four sessions; no SIGINT |
| `one_daemon` | the properties of `Shell` and `Process`: `ProcessTypeOK`, `IndicesInBounds`, `NothingTypedIsLost`, `TokensAreWords`, `MessageMeansPair`, `ClientInitialised`, `NoSocketLeft`, `StdioKept`, `TypedLinesRun` | see below |
| `sended_not_sent`, `refill_overdraft`, `interrupted_read`, `stuck_accept`, `interrupt_forgotten` | violations: see the findings | the smallest that show them |

Two sessions are enough for the safety properties about stale records: a record can be
stale with respect to the next session only through the receive buffer of the listen
socket, which is closed after every session, or through the network, and the keys of any
two sessions differ.  `CHECK_DEADLOCK FALSE` stands in every configuration because the
program really stops (`exit`, SIGINT, a fatal handshake), may wait for ever (section 6),
and because a bound may end a behaviour; the liveness properties say what must not stop.

`one_daemon` scales the constants of the code down so that every boundary is crossed by
what can be typed in seven characters (`MaxTyped`).  A line's buffer holds 3 (the code:
1024) and the token array 2 (64), so that ` R<tab><\v>1` makes the first grow and any command
with a number the second.  In that line `\v`, which is no delimiter, begins a number and is
skipped by `strtol`; `C<\0>1` is a CHECK, because `strtok` sees the string end.  stdio's buffer holds 4, so that one read may end in the middle
of a line.  Numbers have base 4, an int 3 bits and a long 6, and a block is 3 digits: `021`
fills a block, has no padding, and becomes 1 as an int; `0001` is longer than a block; `1`
is padded.  The salt's first byte is 0 or not.  `Lines` (a terminal) and `Chunks` (a pipe,
which may deliver half a line, or two lines and a half) are typed in any order.  The
inventory starts with 1 and stays in -1..2 (`Stocks`), so a SEND or a served REQUEST
empties it and the automatic refill runs, and a REFILL overdraws it.  `MaxFd = 4` leaves
room for the listen socket and one client.  One bind may fail, one SIGINT comes, and the
certificates may be missing; the sessions are not bounded.

### Fairness

`FairSpec` assumes, for each peer, weak fairness of the steps of its thread (the
scheduler runs it; a line that the shell has read is executed), strong fairness of its
timer (it keeps running whatever the other peer does meanwhile), and weak fairness of
the delivery of what the network keeps.  Nobody owes a command, a SIGINT, a delayed
datagram or a fault.  `Prompt` says that a timer, a second at the least, does not run out
while the exchange it waits for is under way; the liveness runs without faults assume it,
`interrupts` and `early_timers` do not.

`Process`'s `FairSpec` assumes weak fairness of what the daemon does by itself - the steps
of `main`, of the shell and of `dtls_send` outside the session - and nothing of its peer,
its user or SIGINT.  `TypedLinesRun` therefore says what it needs: standard input is a
terminal, the certificates are there, and the daemon is not for ever in one session
(`[]<>~Waiting`, which `ClientReturns` and `ServerReturns` are about).


## 4. What is proved

The five modules `SimpleUDP_*` with proofs hold theorems for every script, inventory,
refill amount, bound and choice of faults, from the assumptions that `Payload` and
`SimpleUDP` state of their constants (two different peers; bounds and the refill are
natural numbers; the shell sends natural numbers, as its test of the number admits, and
none with CHECK and REFILL).

* `TypeCorrect`: `Spec => []TypeOK`.  `TypeOK` alone is not inductive: a flight is sent
  to `srv[p].port` or from `cl[p].port`, which is 0 where there is no session, and a
  datagram has a port.  The inductive invariant is `IInv == TypeOK /\ Connected`, where
  `Connected` says that a thread past `select` has a port on the side it plays.  The
  proof goes action by action: the `Type...` lemmas, which use the `...Types` lemmas
  about sequences and records, then the `Connected...` lemmas, then `NextIInv`.
* `OverdraftOnlyByRefill`: `Spec => OnlyRefillOverdraws`, an action property.  Only three
  steps change an inventory: `ShellSend` tests the stock, `Await` only adds
  (`AnsweredGrows`), and `Serve` falls below zero on a REFILL alone (`ServedOverdraft`);
  `IInv` gives the types of what they add and subtract.
* `CalmNeverCrashes`: with `MaxSignals = 0` and `WildReply = {}`, `Spec => []NoCrash`.
  Both hypotheses are needed: the run `interrupted_read` crashes with a SIGINT, and `Halt`
  with a wild pointer.  The invariant adds three parts to `IInv`.  `Channels`: no request
  or answer on its way is a buffer that does not decrypt.  `Buffers`: neither is what a
  peer has read, is about to answer - also when it answers again from the session before -
  or has asked.  `Calm`: the flag is clear from the end of the handshake to the test that
  follows the read, because the accept clears it (`nonBlocking_dtls.c:76`) and nothing but
  SIGINT sets it in between.

* `SessionsKeepApart`: `Spec => []KeysAgree`, and `AnswersFitQuestions`:
  `Spec => []ReplyMatches`, whatever is lost, copied, delayed or interrupted.  Neither is
  inductive: that a record which is read has the right keys depends on which accept sent the
  offer that its client took, several steps and one thread away.  `SInv` says so, for each
  peer `p` as a client and `q == Other(p)` as its server.
  * Of the records: ports and sids only grow (`Numbered`); a sid belongs to one port
    (`OnePort`); all a client makes in a session has one key (`OneKey`), the server's once
    its handshake is done (`Agreed`), and so has what it is told (`Told`).
  * Of the sockets: from the `finish` that ends a handshake on, the listen socket holds only
    datagrams of the connected port (`Queued`).
  * Of the dialogue: a client that still connects knows only the accept that is running, or
    its server is about to stop (`Greeted`); requests, closes and replies with its port are
    about its current command (`Asking`, `Matched`, `Fits`); and `got`, `ptr` and `buf` mean
    at each place of the server what `main` takes them for (`Buffered`).

  `Asks(p)` and `Tells(p)` are what p has sent as a client, and what it has been sent, that
  can still be read, on the network or in a socket: most steps only take from them, which
  is what `ServerStep`, `ClientStep` and `FetchedSInv` exploit; the `...Pair` lemmas treat
  the steps that add a datagram.
* `ItemsNeverCreated`: `Spec => []NothingCreated`, from `SInv`.  With `SInv` the bound is
  inductive by a covering argument (`CoversStep`): if every parcel and refund after a step is
  one before it, or was the command, request or answer that the step has turned into it, the
  sum does not grow.  The `...Covers` lemmas say so, action by action; `SInv` is needed
  where a message that is applied must not count a second time, as a copy (`Await`,
  `React`), and where an answer is about to be repeated from the session before (`Reply`).

* `LedgerImplemented`: `Spec => ImplementsLedger`: every step of `SimpleUDP` is, through
  the mapping, one action of `Ledger` or a stutter.  The mapping reads an exchange off
  what may still be applied, so a step that repeats a message must not revive an exchange,
  and one that applies a message must end it.  `SInv` does not say that, and `LInv` adds,
  for each peer: its command is one it may have (`Typed`); the requests with one port are
  copies of one (`OneRequest`); no reply of a session is on its way before its server has
  written it (`Unanswered`); and as long as a REQUEST, CHECK or REFILL may still be read, its
  client waits for the answer (`Waiting`).  `NextLInv` shows that it is inductive with
  `IInv` and `SInv`.
  * `Command` and `Answer` say in one formula each which commands and answers count
    for a session.  Under the invariant there is at most one of either (`OneHeard`,
    `OneGrant`), and no answer on its way while there is a command (`Apart`), so that the
    `CHOOSE` of the mapping is determined (`OutcomesHold`).
  * Five lemmas say when a change of the outcomes and of the stocks is a step of `Ledger`:
    nothing changes (`LedgerRests`), an amount that was due is paid (`LedgerPays`), an
    exchange comes to nothing (`LedgerFades`), a stock gives what it has (`LedgerMoves`), or
    what a refill asks, whatever it has (`LedgerRefills`).
  * A step of one peer concerns one exchange: `StillHolds`, `AskerHolds` and `UnservedHolds`
    show that the other one rests.  Then there is one lemma for each actor: `SignalLedger`,
    `NetworkLedger`, `ClientLedger`, `ServerLedger`, `MainLedger`.

The attempt to prove `KeysAgree` and `NothingCreated` found that two definitions said more than the program
does, beyond the bounds TLC had run: with three faults the offer of a second accept, made for
a copied hello, reaches a client that already awaits its reply (`KeysAgree` claimed it could
not; `ClientDrop` drops it), and `Refunds` counted the answer of the session before while
the flag had stopped the read of this one.  Both are as stated now.

TLC checks the same properties in `lossy_exchange`, `both_initiate` and `interrupts`.

`Shell_proofs`, `Codec_proofs` and `Process_proofs` hold theorems for every buffer size,
input, script of the peer, number of descriptors, SIGINTs and failing binds, and for every
width of `int` and `long`, from `ShellAssumption`, `CodecAssumption`, `BlockAssumption` and
`ProcessAssumption`.  `BlockAssumption` says that the text of every `int` fits in one AES
block, and that a padding byte is less than `'0'`; both hold of 32 bits and 16 bytes.

* `ShellBounds`, `ShellKeepsText`: `ShellSpec` implies `[]IndicesInBounds` and
  `[]NothingTypedIsLost`.  The first is not inductive without the facts that the sizes are
  numbers, the buffers sequences, and that a line still fits while it is split (`Fits`).
  The second needs the types of the buffers too, and is grouped so that each step moves
  characters over one border of the concatenation (`Kept`).  `LeastIndex` says
  what `SelectInSeq` returns.
* `ProcessRunsShell`: `Spec => ShellSpec`.  Each action of `Process` is one of `Shell` or
  leaves its variables alone; with it `ProcessBounds` and `ProcessKeepsText` are
  corollaries, and so is `ProcessSplitsLines`: `Spec => []TokensAreWords`.
* `ShellSplitsLines`: `ShellSpec => []TokensAreWords`, from `Split`: the tokens are the words
  that begin before strtok's place, in order, and that place is not inside a word.  A word is
  described by where it begins and the least place at which it stops (`Least`, `Spans`), and
  its rank by the number of words that begin before it, so that no induction over the line
  is needed.  A typed `'\0'` ends the string for `strtok` (`Visible`), and with it the words:
  `InWord` says so of the line itself, and `InWordIs` that the two agree.
* `ClientsInitialised`: `Spec => []ClientInitialised`, from `Counting`: the count is a
  natural number, and positive between `Context` and `End`.
* `SocketsClosed`: `Spec => []NoSocketLeft`, from `Tidy`, which says by `pc` which
  descriptors may be open for a socket: the listen socket from `Open` until the first
  close, `sockfd` from `Socket` to `End`, both while the inventory is refilled, and none
  else.

* `StandardStaysOpen`: `Spec => []StdioKept`, from `Standard`: in a compB with certificates
  0, 1 and 2 are open, so that no socket gets their numbers, and neither `listenfd` past the
  first socket nor `sockfd` is one of them when it is closed.

* `MessagesDecrypt`: for every text of at most one block, salt and password,
  `Decrypt(Encrypt(command, text, salt), end)` is the command and the number that
  `Str2Num(text)` is.  The padding is taken off only when the first byte of the salt
  decrypts to something else than 0, so that the bytes of the block may reach `strtol`
  (`DecryptedText`).  A padding byte is no digit, so `strtol` stops before them (`StemStops`);
  some of them (9 to 13) are blanks to it, which changes nothing, be they skipped after a
  text that is all blank or left behind one that is not (`TrimBefore`, `NoDigits`,
  `PaddingIsNotRead`).
* `IntsArrive`: with `Num2Str` on one side every `int` is the same `int` on the other.
  `Str2NumOfInt` says that `str2num` undoes `num2str`, the least `int` included.
* `ProcessTypes`: `Spec => []ProcessTypeOK`.  That a stock stays in `Stocks` depends on
  `SEND`'s number, which is read from whatever was typed: it is an `int` for any text
  (`Str2NumIsInt`), natural after the test in `shell.c`, and not more than the stock
  (`ExecuteStock`).
* `MessagesMeanPairs`: `Spec => []MessageMeansPair`, from `Words` (the line and its tokens are
  sequences of characters) and `Said`: a session that runs or ran has a message
  that decrypts to the pair the daemon acted on.

Three inductions over data are needed in `Codec_proofs`: over the digits of a number, over
the characters of a text, over the bits of a word.  The library's induction theorems take
an operator and cannot be used, so they are done over sets, by a least
counterexample (`LeastNumber`).  That a recursive function exists at all is shown
the same way (`WritesExist`, `SumsExist`), from which `DigitsWrite` and `ValueOfMore` give the equations
of `Digits` and of the fold in `Strtol`.  A power of two is what the number of subsets
of a set is (`PowerCounts`, `PowerDoubles`), as the provers know nothing of `^` but that.

TLC checks the properties among these in `one_daemon`.

Every invariant and every action property that a passing run checks, and the refinement of
`Ledger`, is a theorem.  Only model-checked: the liveness properties `ClientReturns`,
`ServerReturns`, `InterruptedServerStops` and `TypedLinesRun`, whose proofs need fairness
and ENABLED, which are beyond the prover.

## 5. Findings

* `sended_not_sent`: "SEND: %d sended" (`io_handler.c:49`) is printed, and the items are
  deducted, before the session is opened; if the handshake is given up `dtls_send`
  returns success, and the items are in neither inventory.
* `refill_overdraft`: a served REFILL takes its amount with no stock test, unlike SEND and
  REQUEST; the inventory becomes negative.
* `interrupted_read`: SIGINT between the read of a request and the test of the flag makes
  the program zero the message and then decrypt it.
* `stuck_accept`: a ClientHello left on the listen socket by a client that has given up
  (its server was refilling meanwhile) starts an accept whose select has no timeout.
* `interrupt_forgotten`: a SIGINT during a handshake is overwritten when the handshake
  succeeds.

## 6. What the model leaves out, and known limits

* Memory: leaks, allocation failures (the program exits, or dereferences null); failing
  `setsockopt` and `connect`.  The width of `INVENTORY`: its sums are integers.  Millions of
  REFILLs, or requests near 2^31, would be needed to pass it.
* wolfSSL beyond what the program sees of it: cryptography, certificates, record format,
  fragmentation.  It is nearly all of the repository's C, vendored twice, and none of its
  logic is the program's.
* After the first `dtls_send` the server runs with wolfSSL's count at 0, the mutex of its
  session cache destroyed.  No session is ever resumed, so the program does not see it;
  `ClientInitialised` is about the client side.
* Without certificates every ClientHello leaks the listen socket (`udp_A.c:146`), and
  `dtls_send` closes an uninitialised descriptor: the model does both, and `NoSocketLeft`
  and `StdioKept` are stated for a daemon that has its certificates.
* Standard input from a pipe: a chunk without a newline makes `shell_read_line` wait, and
  the daemon is deaf to its peer until the rest comes; lines that stdio read ahead wait for
  more input; and after the writer has closed it, `select` reports it for ever and an empty
  line is executed each time.  The model has all three, and `TypedLinesRun` is therefore
  about terminals.
* A client whose answer is lost waits for ever, whatever the user does: the loop at
  `dtls_send.c:52` tests neither the flag nor a timer.  This is why `ClientReturns` is
  checked on a network without faults, and `InterruptedServerStops` speaks of servers.
  Likewise a server in an accept whose client has gone waits for ever, which is why
  `ServerReturns` is checked with one initiator (`lone_initiator`) and fails with two
  (`stuck_accept`).
* `Vagrantfile`, `playbook.yml`, certificates, Makefiles: configuration.

## 7. The plan

Order of the work, the most important behaviour first.

1. *(done)* `Payload`, `SimpleUDP`, their runs, the first three theorems.
2. *(done)* `Ledger` and `SimpleUDP_ledger`: what a command promises, and `SimpleUDP` shown
   to implement it by TLC.
3. *(done)* `Shell`, `Codec`, `Process`: the reader, the tokenizer, the number conversion,
   the padding, the descriptors, the failing `bind` and `socket`, the count of wolfSSL's
   users; the theorems about bounds, text, sockets and the count.
4. *(done)* Proofs: `KeysAgree`, `ReplyMatches` and `NothingCreated` with their inductive
   invariants, `TokensAreWords`, `StdioKept`.
5. *(done)* `SimpleUDP_refines`: the step simulation of `Ledger`.
6. *(done)* `Codec_proofs`: a message decrypts to what was meant; with it
   `MessageMeansPair` and `ProcessTypeOK`.

The liveness properties stay with TLC.
