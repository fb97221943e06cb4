------------------------------ MODULE Process ------------------------------
(***************************************************************************)
(* One daemon of simpleUDP as a process: main's loop with its descriptors, *)
(* the shell it calls when standard input is ready, dtls_send, which the   *)
(* shell calls in turn, the bytes they make of commands, and wolfSSL's     *)
(* count of its users.  The other peer is whatever may come over the       *)
(* network; SimpleUDP has the two of them, and a session step by step.     *)
(***************************************************************************)
EXTENDS Shell, Codec, Payload

CONSTANTS InitialInventory,
          Builtins,          \* the command words typed, each with the builtin it names
          Requests,          \* what the other peer may send
          Stocks,            \* bound: the inventories that are explored
          MaxFd,             \* the largest descriptor (RLIMIT_NOFILE - 1)
          MaxBindFailures,   \* bound on the binds that fail
          MaxSignals         \* bound on the SIGINTs

ASSUME ProcessAssumption ==
  /\ InitialInventory \in Stocks /\ Stocks \subseteq Ints
  /\ \A stock \in Stocks : 0..stock \subseteq Stocks     \* what a SEND may leave
  /\ RefillAmount \in Ints /\ Requests \subseteq [op : Commands, n : Nat \cap Ints]
  /\ MaxFd \in Nat /\ MaxFd >= 3
  /\ {MaxBindFailures, MaxSignals} \subseteq Nat
  /\ \A w \in DOMAIN Builtins : Builtins[w] \in Commands \cup {"help", "exit"}

VARIABLES
  pc,          \* where main is, or what it has called
  cleanup,     \* the flag
  inventory,   \* INVENTORY
  fds,         \* fds[n]   what descriptor n is open for
  listenfd,    \* main's
  sockfd,      \* dtls_send's
  count,       \* initRefCount of wolfSSL
  stdin,       \* select reported standard input together with a datagram
  refill,      \* dtls_send runs for an empty inventory, not for the shell
  sent,        \* the message just made, the side it is for, and what it should say
  side,        \* "A" (compA) or "B" (compB)
  certs,       \* the certificates and the key are where the code looks for them
  failures,    \* binds that failed
  signals      \* SIGINTs received

mainVars == <<pc, cleanup, inventory, stdin, refill, sent>>
fdVars == <<fds, listenfd, sockfd, failures>>
setup == <<side, certs>>
vars == <<shellVars, mainVars, fdVars, count, setup, signals>>

Fds == 0..MaxFd
Close(fd) == IF fd \in Fds THEN [fds EXCEPT ![fd] = "free"] ELSE fds

\* socket() takes the lowest descriptor that is free, or fails with -1.
LowestFree ==
  LET free == {fd \in Fds : fds[fd] = "free"}
  IN  IF free = {} THEN -1 ELSE CHOOSE fd \in free : \A other \in free : fd <= other

\* wolfSSL_CTX_new initialises the library when it has no user; wolfSSL_Cleanup lets one go.
AcquiredAlready == count      \* mutant: wolfSSL_CTX_new relies on main's wolfSSL_Init
Acquired == IF count = 0 THEN 1 ELSE count
ReleasedUnchecked == count - 1     \* mutant: wolfSSL_Cleanup does not look
Released == IF count > 0 THEN count - 1 ELSE 0

Nothing == [message |-> <<>>, end |-> 0, meant |-> Blank]
Say(pair, text, end) ==
  \E salt \in Salts :
    sent' = [message |-> Encrypt(pair.op, text, salt), end |-> end, meant |-> pair]

Init ==
  /\ ShellInit
  /\ pc = "loop" /\ cleanup = FALSE /\ inventory = InitialInventory
  /\ stdin = FALSE /\ refill = FALSE /\ sent = Nothing
  /\ fds = [fd \in Fds |-> IF fd <= 2 THEN "std" ELSE "free"]
  /\ listenfd = 0 /\ sockfd = -1 /\ failures = 0
  /\ count = 1                                    \* main's wolfSSL_Init
  /\ side \in {"A", "B"} /\ certs \in BOOLEAN
  /\ signals = 0

-----------------------------------------------------------------------------
(* main: the listen socket.                                                *)

\* end_clean_ctx closes the listen socket that a `continue' or a `break' left open.
Halt ==
  /\ pc = "loop" /\ cleanup
  /\ pc' = "stopped"
  /\ fds' = Close(listenfd)
  /\ count' = Released
  /\ UNCHANGED <<shellVars, cleanup, inventory, stdin, refill, sent,
                 listenfd, sockfd, failures, setup, signals>>

BindFailureSame == 1     \* mutant: compB as compA

\* What create_udp_sock returns when bind fails, the socket closed: EXIT_FAILURE in compA.
BindFailure == IF side = "A" THEN 1 ELSE -1

\* fcntl refuses a descriptor that is not open; the rest of the round runs all the same.
\* An empty inventory asks for a refill first: encrypt_react gives it the number too.
Open ==
  /\ pc = "loop" /\ ~cleanup
  /\ LET fd == LowestFree IN
     \/ /\ listenfd' = fd
        /\ fds' = IF fd = -1 THEN fds ELSE [fds EXCEPT ![fd] = "listen"]
        /\ UNCHANGED failures
     \/ /\ fd # -1 /\ failures < MaxBindFailures
        /\ listenfd' = BindFailure
        /\ failures' = failures + 1
        /\ UNCHANGED fds
  /\ cleanup' = ~(listenfd' \in Fds /\ fds'[listenfd'] # "free")
  /\ IF inventory = 0
       THEN /\ pc' = "context" /\ refill' = TRUE
            /\ Say([op |-> "REFILL", n |-> 0], Num2Str(RefillAmount), 0)
       ELSE pc' = "select" /\ UNCHANGED refill /\ sent' = Nothing
  /\ stdin' = FALSE
  /\ UNCHANGED <<shellVars, inventory, sockfd, count, setup, signals>>

-----------------------------------------------------------------------------
(* main: select.  With the descriptor -1 nothing is watched at all.        *)

Selecting(kind) == pc = "select" /\ listenfd \in Fds /\ fds[listenfd] = kind

SelectDatagram ==
  /\ Selecting("listen")
  /\ pc' = IF cleanup THEN "loop" ELSE "serve"
  /\ stdin' = Readable
  /\ UNCHANGED <<shellVars, cleanup, inventory, refill, sent, fdVars, count, setup, signals>>

SelectStdin ==
  /\ pc = "select" /\ listenfd \in Fds /\ fds[listenfd] # "free" /\ Readable
  /\ fds' = Close(listenfd)
  /\ pc' = "shell"
  /\ Call
  /\ UNCHANGED <<cleanup, inventory, stdin, refill, sent, listenfd, sockfd, failures,
                 count, setup, signals>>

\* The descriptor select reports is no socket, or none any more: recvfrom fails until
\* SIGINT comes, or select itself fails and the round begins again.
SelectOther ==
  /\ \/ Selecting("std") /\ pc' = "spin"
     \/ Selecting("free") /\ pc' = "loop"
     \/ pc = "spin" /\ cleanup /\ pc' = "loop"
  /\ UNCHANGED <<shellVars, cleanup, inventory, stdin, refill, sent, fdVars, count,
                 setup, signals>>

-----------------------------------------------------------------------------
(* main: serving.                                                          *)

\* The accept, or a later step, fails: no close, and the shell is not called.
ServeFails ==
  /\ pc = "serve"
  /\ cleanup' = (certs \/ cleanup)       \* without a context wolfSSL_new fails at once
  /\ pc' = "loop"
  /\ UNCHANGED <<shellVars, inventory, stdin, refill, sent, fdVars, count, setup, signals>>

\* What is read and answered; a session may also end without a command.
Answer ==
  \/ \E req \in Requests :
       /\ inventory' = ServedInventory(inventory, req)
       /\ inventory' \in Stocks
       /\ IF req.op = "SEND" THEN UNCHANGED sent
          ELSE LET reply == ServedReply(inventory, req) IN Say(reply, Num2Str(reply.n), 1)
  \/ UNCHANGED <<inventory, sent>>

ServeForgetsStdin ==     \* mutant: standard input is looked at in an `else'
  /\ pc = "serve" /\ certs
  /\ Answer
  /\ cleanup' \in BOOLEAN
  /\ fds' = Close(listenfd)
  /\ pc' = "loop" /\ UNCHANGED shellVars
  /\ UNCHANGED <<stdin, refill, listenfd, sockfd, failures, count, setup, signals>>

\* A session; then the shell, if select reported standard input too.
Serve ==
  /\ pc = "serve" /\ certs
  /\ Answer
  /\ cleanup' \in BOOLEAN         \* cleared by the accept, set if the read or the reply fails
  /\ fds' = Close(listenfd)
  /\ IF stdin THEN pc' = "shell" /\ Call ELSE pc' = "loop" /\ UNCHANGED shellVars
  /\ UNCHANGED <<stdin, refill, listenfd, sockfd, failures, count, setup, signals>>

-----------------------------------------------------------------------------
(* The shell.                                                              *)

Shelling ==
  /\ pc = "shell" /\ (ShellSteps \/ (closed /\ CutLine))
  /\ UNCHANGED <<mainVars, fdVars, count, setup, signals>>

Builtin == IF tokens # <<>> /\ tokens[1] \in DOMAIN Builtins
             THEN Builtins[tokens[1]] ELSE "help"
Counted == Builtin \in {"SEND", "REQUEST"}
Number == Str2Num(tokens[2])
Accepted ==
  /\ Builtin \in Commands
  /\ Counted => Len(tokens) >= 2 /\ Number >= 0
  /\ Builtin = "SEND" => Number <= inventory

\* main's second close of the listen socket, after the shell has returned.
BackToLoop(fd) ==
  /\ Return
  /\ pc' = "loop"
  /\ fds' = [Close(fd) EXCEPT ![listenfd] = "free"]

\* An empty or unknown line, help, or a number that is missing or refused.
ExecuteNothing ==
  /\ pc = "shell" /\ phase = "execute" /\ Builtin # "exit" /\ ~Accepted
  /\ BackToLoop(listenfd)
  /\ UNCHANGED <<cleanup, inventory, stdin, refill, sent, listenfd, sockfd, failures,
                 count, setup, signals>>

ExecuteExit ==
  /\ pc = "shell" /\ phase = "execute" /\ Builtin = "exit"
  /\ Return
  /\ cleanup' = TRUE
  /\ pc' = "loop"
  /\ UNCHANGED <<inventory, stdin, refill, sent, fdVars, count, setup, signals>>

\* encrypt_send: what is encrypted is the word that was typed, not its value.
Execute ==
  /\ pc = "shell" /\ phase = "execute" /\ Accepted
  /\ Counted => OneBlock(tokens[2])
  /\ Say([op |-> Builtin, n |-> IF Counted THEN Number ELSE 0],
         IF Counted THEN tokens[2] ELSE <<>>, 0)
  /\ inventory' = IF Builtin = "SEND" THEN inventory - Number ELSE inventory
  /\ refill' = FALSE
  /\ pc' = "context"
  /\ UNCHANGED <<shellVars, cleanup, stdin, fdVars, count, setup, signals>>

\* AesEncrypt writes more blocks than its output has: what follows is undefined.
ExecuteOverrun ==
  /\ pc = "shell" /\ phase = "execute" /\ Accepted
  /\ Counted /\ ~OneBlock(tokens[2])
  /\ pc' = "undefined"
  /\ UNCHANGED <<shellVars, cleanup, inventory, stdin, refill, sent, fdVars, count,
                 setup, signals>>

-----------------------------------------------------------------------------
(* dtls_send.                                                              *)

\* get_send_ctx.  When the certificates cannot be loaded there is no session, no socket,
\* and sockfd is never assigned.
Context ==
  /\ pc = "context"
  /\ count' = Acquired
  /\ \/ certs /\ pc' = "socket" /\ UNCHANGED sockfd
     \/ ~certs /\ pc' = "end" /\ sockfd' \in Fds \cup {-1}
  /\ UNCHANGED <<shellVars, cleanup, inventory, stdin, refill, sent, fds, listenfd,
                 failures, setup, signals>>

Socket ==
  /\ pc = "socket"
  /\ sockfd' = LowestFree
  /\ fds' = IF sockfd' = -1 THEN fds ELSE [fds EXCEPT ![sockfd'] = "client"]
  /\ pc' = IF sockfd' = -1 THEN "end" ELSE "talk"
  /\ UNCHANGED <<shellVars, cleanup, inventory, stdin, refill, sent, listenfd, failures,
                 count, setup, signals>>

\* What the other peer may answer to the command that was sent.
Replies(command) ==
  CASE command.op = "REQUEST" -> {command, Insufficient}
    [] command.op = "REFILL"  -> {[op |-> "REFILL", n |-> RefillAmount]}
    [] OTHER                  -> {}

\* The session fails, a SEND has gone out, or an answer comes.
Talk ==
  /\ pc = "talk"
  /\ pc' = "end"
  /\ \/ UNCHANGED inventory
     \/ \E reply \in Replies(sent.meant) :
          inventory' = AnsweredInventory(inventory, reply) /\ inventory' \in Stocks
  /\ UNCHANGED <<shellVars, cleanup, stdin, refill, sent, fdVars, count, setup, signals>>

EndLeavesSocket ==       \* mutant: close(sockfd) is missing
  /\ pc = "end"
  /\ count' = Released
  /\ IF refill
       THEN pc' = "select" /\ UNCHANGED <<fds, shellVars>>
       ELSE BackToLoop(listenfd)
  /\ sockfd' = -1 /\ refill' = FALSE /\ sent' = Nothing
  /\ UNCHANGED <<cleanup, inventory, stdin, listenfd, failures, setup, signals>>

\* close(sockfd), wolfSSL_CTX_free, wolfSSL_Cleanup.  A refill goes on to select, a
\* command returns through the shell.  Without standard input nothing is defined.
End ==
  /\ pc = "end"
  /\ count' = Released
  /\ \/ /\ sockfd = 0 /\ pc' = "undefined"
        /\ fds' = Close(sockfd) /\ UNCHANGED shellVars
     \/ /\ sockfd # 0 /\ refill /\ pc' = "select"
        /\ fds' = Close(sockfd) /\ UNCHANGED shellVars
     \/ /\ sockfd # 0 /\ ~refill
        /\ BackToLoop(sockfd)
  /\ sockfd' = -1 /\ refill' = FALSE /\ sent' = Nothing
  /\ UNCHANGED <<cleanup, inventory, stdin, listenfd, failures, setup, signals>>

-----------------------------------------------------------------------------
(* SIGINT: the handler sets the flag, and a call that blocks is interrupted. *)

Signal ==
  /\ pc \notin {"stopped", "undefined"} /\ signals < MaxSignals
  /\ signals' = signals + 1
  /\ cleanup' = TRUE
  /\ \/ UNCHANGED <<pc, shellVars>>
     \/ pc = "select" /\ pc' = "loop" /\ UNCHANGED shellVars
     \/ pc = "talk" /\ pc' = "end" /\ UNCHANGED shellVars
     \/ pc = "shell" /\ CutLine /\ UNCHANGED pc
  /\ UNCHANGED <<inventory, stdin, refill, sent, fdVars, count, setup>>

\* The user, or the program at the other end of the pipe.
Typist == (Type \/ Hangup) /\ UNCHANGED <<mainVars, fdVars, count, setup, signals>>

Main == Halt \/ Open \/ SelectStdin
Command == Shelling \/ ExecuteNothing \/ ExecuteExit \/ Execute \/ ExecuteOverrun
Client == Context \/ Socket \/ End
Peer == SelectDatagram \/ SelectOther \/ ServeFails \/ Serve \/ Talk

Next == Main \/ Command \/ Client \/ Peer \/ Signal \/ Typist

Spec == Init /\ [][Next]_vars

\* The process is scheduled; neither its peer, nor its user, nor SIGINT has to act.
FairSpec == Spec /\ WF_vars(Main \/ Command \/ Client)

-----------------------------------------------------------------------------
(* Properties.                                                             *)

\* Every variable keeps its type.
ProcessTypeOK ==
  /\ pc \in {"loop", "select", "spin", "serve", "shell", "context", "socket", "talk",
             "end", "stopped", "undefined"}
  /\ {cleanup, stdin, refill, certs} \subseteq BOOLEAN
  /\ inventory \in Stocks /\ count \in Nat
  /\ fds \in [Fds -> {"std", "free", "listen", "client"}]
  /\ {listenfd, sockfd} \subseteq Fds \cup {-1}
  /\ side \in {"A", "B"} /\ failures \in 0..MaxBindFailures /\ signals \in 0..MaxSignals

\* The other side decrypts the command and the number that this side acted on: a number
\* with or without padding, whatever the salt, one that str2num cut to an int, and the
\* negative answer to a CHECK (aes_encrypt.c:43, 161, generate_key_util.c:12,
\* io_handler.c:46).
MessageMeansPair == sent # Nothing => Decrypt(sent.message, sent.end) = sent.meant

\* A client session uses wolfSSL after it was initialised and before it is cleaned up,
\* whatever number of earlier sessions have called wolfSSL_Cleanup (dtls_send.c:73).
ClientInitialised == pc \in {"socket", "talk", "end"} => count > 0

\* No round of the loop leaves a socket open behind it, and none is open when the daemon
\* has stopped, whichever `continue' or `break' it came by (udp_A.c:103, 128, 146, 225).
NoSocketLeft ==
  certs /\ (pc = "stopped" \/ (pc = "loop" /\ ~cleanup)) =>
    \A fd \in Fds : fds[fd] \notin {"listen", "client"}

\* compB never closes standard input, output or error, though its second close of the
\* listen socket, and the one that ends it, name descriptors that may be someone else's by
\* then (udp_B.c:233, create_socket.c:32).
StdioKept == certs /\ side = "B" /\ pc # "stopped" => \A fd \in 0..2 : fds[fd] = "std"

\* The lines typed on a terminal are all executed once the user pauses, however many
\* datagrams keep coming, unless the daemon has ended, waits for ever for its peer, or for
\* SIGINT after a failed bind (udp_A.c:101, 106, 220).
Behind == Len(ran) < Len(input)
Waiting == pc \in {"serve", "talk"}
Ended == pc \in {"stopped", "undefined", "spin"} \/ (pc = "select" /\ listenfd \notin Fds)
TypedLinesRun ==
  certs /\ source = "tty" /\ []<>~Waiting => (Behind ~> ~Behind \/ Ended)
=============================================================================
