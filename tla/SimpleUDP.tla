----------------------------- MODULE SimpleUDP -----------------------------
(***************************************************************************)
(* The two peers of simpleUDP (compA and compB are one program).  Each is  *)
(* a single thread that waits in main's select, serves one DTLS session at *)
(* a time on its listen socket, and itself acts as a DTLS client whenever  *)
(* the shell or an empty inventory asks for it (dtls_send).  pc[p] is the  *)
(* place where that thread can be overtaken by the other peer, by the      *)
(* network or by SIGINT.                                                   *)
(*                                                                         *)
(* The DTLS handshake is two flights each way: hello / offer (ClientHello, *)
(* the HelloVerify round included, up to ServerHelloDone) and finish /     *)
(* finished.  sid is the server's session, drawn fresh for every accept:   *)
(* it stands for the keys, so a record of another session never decrypts.  *)
(***************************************************************************)
EXTENDS Payload, Sequences, Functions

CONSTANTS A, B,                \* the peers
          InitialInventory,    \* 1000 in the code
          Script,              \* what the user of each peer may type
          Quitters,            \* the peers whose user may type `exit`
          WildReply,           \* the peers that leave send_reply_buffer uninitialised
          Prompt,              \* TRUE: timers outlast an exchange that is under way
          Faults,              \* what the network may do: "lose", "dup", "delay"
          MaxSessions,         \* bound on the client sessions of one peer
          MaxAccepts,          \* bound on the accepts of one peer
          MaxRetries,          \* retransmissions of a flight before giving up (6 in wolfSSL)
          MaxSignals,          \* bound on the SIGINTs one peer receives
          MaxFaults            \* bound on the faults of a behaviour

Peers == {A, B}
Other(p) == IF p = A THEN B ELSE A

ASSUME PeersAssumption == A # B
ASSUME BoundsAssumption ==
  /\ InitialInventory \in Nat
  /\ {MaxSessions, MaxAccepts, MaxRetries, MaxSignals, MaxFaults} \subseteq Nat
  /\ Prompt \in BOOLEAN
  /\ Quitters \subseteq Peers /\ WildReply \subseteq Peers
ASSUME ScriptAssumption ==
  /\ DOMAIN Script = Peers
  /\ \A p \in Peers : \A c \in Script[p] :
       /\ c \in [op : Commands, n : Nat]
       /\ c.op \in {"CHECK", "REFILL"} => c.n = 0

VARIABLES
  inv,        \* inv[p]      INVENTORY
  cleanup,    \* cleanup[p]  the flag SIGINT sets
  pc,         \* pc[p]       where the thread is
  srv,        \* srv[p]      the session p serves, and main's reply buffers
  cl,         \* cl[p]       the session p runs as a client
  queue,      \* queue[p]    datagrams waiting on p's listen socket
  answers,    \* answers[p]  datagrams waiting on p's client socket
  wire,       \* wire[p]     datagrams p has sent and the network still holds, in order
  late,       \* late[p]     datagrams of p the network delayed, or copied, out of order
  signals,    \* signals[p]  SIGINTs received so far
  faults      \* faults of the network so far

procVars == <<inv, cleanup, pc, srv, cl, queue, answers>>
env == <<late, signals, faults>>
vars == <<procVars, wire, env>>

Ports == 1..MaxSessions              \* the port of a client session is its number
Sids == 1..MaxAccepts

ServerPcs == {"select", "accept", "acceptWait", "read", "check", "reply", "drain"}
ClientPcs == {"connect", "write", "await", "bye"}
FinalPcs  == {"stopped", "crashed"}

ToListener == {"hello", "finish", "request", "close"}
ToClient   == {"offer", "finished", "reply"}
Datagrams(kinds) == [kind : kinds, port : Ports, sid : Sids \cup {0}, body : Payloads]

Dgram(kind, port, sid, body) ==
  [kind |-> kind, port |-> port, sid |-> sid, body |-> body]
Flight(kind, port, sid) == Dgram(kind, port, sid, Blank)

\* The listen socket is closed while the shell runs a command, and stays open
\* (unconnected) while the automatic refill runs.
ListenOpen(p) == pc[p] \in ServerPcs \/ (pc[p] \in ClientPcs /\ cl[p].refill)
ClientOpen(p, port) == pc[p] \in ClientPcs /\ cl[p].port = port

Goto(p, label) == pc' = [pc EXCEPT ![p] = label]
Send(p, d) == wire' = [wire EXCEPT ![p] = Append(@, d)]
Pop(p) == queue' = [queue EXCEPT ![p] = Tail(@)]
PopAnswer(p) == answers' = [answers EXCEPT ![p] = Tail(@)]
StdinReady(p) == Script[p] # {} \/ p \in Quitters

Init ==
  /\ inv = [p \in Peers |-> InitialInventory]
  /\ cleanup = [p \in Peers |-> FALSE]
  /\ pc = [p \in Peers |-> "loop"]
  /\ \E wild \in SUBSET WildReply :
       srv = [p \in Peers |-> [port |-> 0, sid |-> 0, stage |-> 0, got |-> "none",
                               req |-> Blank, ptr |-> IF p \in wild THEN "wild" ELSE "null",
                               buf |-> Blank, stdin |-> FALSE]]
  /\ cl = [p \in Peers |-> [port |-> 0, sid |-> 0, stage |-> 0, retries |-> 0,
                            cmd |-> Blank, refill |-> FALSE]]
  /\ queue = [p \in Peers |-> <<>>]
  /\ answers = [p \in Peers |-> <<>>]
  /\ wire = [p \in Peers |-> <<>>]
  /\ late = [p \in Peers |-> {}]
  /\ signals = [p \in Peers |-> 0]
  /\ faults = 0

-----------------------------------------------------------------------------
(* dtls_send, up to the first flight.                                      *)

BeginSession(p, cmd, refill) ==
  /\ cl[p].port < MaxSessions
  /\ LET port == cl[p].port + 1 IN
       /\ cl' = [cl EXCEPT ![p] = [port |-> port, sid |-> 0, stage |-> 1,
                                   retries |-> 0, cmd |-> cmd, refill |-> refill]]
       /\ Send(p, Flight("hello", port, 0))
  /\ Goto(p, "connect")

\* dtls_send returns EXIT_SUCCESS whatever happened, and its socket is closed.
\* After a shell command main goes round its loop; after a refill it selects.
EndSession(p) ==
  /\ answers' = [answers EXCEPT ![p] = <<>>]
  /\ Goto(p, IF cl[p].refill THEN "select" ELSE "loop")

-----------------------------------------------------------------------------
(* main's loop (udp_A.c).                                                  *)

\* `while (cleanup != 1)` ends: the final cleanup frees send_reply_buffer, which
\* is undefined when it never was assigned.
Halt(p) ==
  /\ pc[p] = "loop" /\ cleanup[p]
  /\ \/ Goto(p, "stopped")
     \/ srv[p].ptr = "wild" /\ Goto(p, "crashed")
  /\ UNCHANGED <<inv, cleanup, srv, cl, queue, answers, wire, env>>

FreshSocket(p) ==
  /\ queue' = [queue EXCEPT ![p] = <<>>]
  /\ srv' = [srv EXCEPT ![p] = [@ EXCEPT !.port = 0, !.stage = 0, !.stdin = FALSE]]

OpenAndSelect(p) ==
  /\ pc[p] = "loop" /\ ~cleanup[p] /\ inv[p] # 0
  /\ FreshSocket(p)
  /\ Goto(p, "select")
  /\ UNCHANGED <<inv, cleanup, cl, answers, wire, env>>

OpenAndRefill(p) ==
  /\ pc[p] = "loop" /\ ~cleanup[p] /\ inv[p] = 0
  /\ FreshSocket(p)
  /\ BeginSession(p, [op |-> "REFILL", n |-> 0], TRUE)
  /\ UNCHANGED <<inv, cleanup, answers, env>>

\* select reports the listen socket, and perhaps stdin too.
Peek(p) ==
  /\ pc[p] = "select" /\ queue[p] # <<>>
  /\ IF cleanup[p]
       THEN Goto(p, "loop") /\ UNCHANGED srv       \* "Recvfrom failed.", and the accept fails
       ELSE /\ srv[p].sid < MaxAccepts
            /\ \E ready \in BOOLEAN :
                 /\ ready => StdinReady(p)
                 /\ srv' = [srv EXCEPT ![p] =
                        [@ EXCEPT !.port = Head(queue[p]).port, !.sid = srv[p].sid + 1,
                                  !.stage = 0, !.stdin = ready]]
            /\ Goto(p, "accept")
  /\ UNCHANGED <<inv, cleanup, cl, queue, answers, wire, env>>

CloseListener(p) == queue' = [queue EXCEPT ![p] = <<>>]

\* select reports stdin alone.
ReadStdin(p) ==
  /\ pc[p] = "select" /\ StdinReady(p)
  /\ CloseListener(p)
  /\ Goto(p, "shell")
  /\ UNCHANGED <<inv, cleanup, srv, cl, answers, wire, env>>

-----------------------------------------------------------------------------
(* The shell: one line is read and executed.                               *)

\* help, an empty or unknown line, a missing number, a refused SEND.
ShellIdle(p) ==
  /\ pc[p] = "shell"
  /\ Goto(p, "loop")
  /\ UNCHANGED <<inv, cleanup, srv, cl, queue, answers, wire, env>>

ShellExit(p) ==
  /\ pc[p] = "shell" /\ p \in Quitters
  /\ cleanup' = [cleanup EXCEPT ![p] = TRUE]
  /\ Goto(p, "loop")
  /\ UNCHANGED <<inv, srv, cl, queue, answers, wire, env>>

\* encrypt_send: a SEND leaves the inventory before the session is opened.
ShellSend(p) ==
  /\ pc[p] = "shell"
  /\ \E c \in Script[p] :
       /\ c.op = "SEND" /\ c.n <= inv[p]
       /\ inv' = [inv EXCEPT ![p] = @ - c.n]
       /\ BeginSession(p, c, FALSE)
  /\ UNCHANGED <<cleanup, srv, queue, answers, env>>

ShellAsk(p) ==
  /\ pc[p] = "shell"
  /\ \E c \in Script[p] : c.op # "SEND" /\ BeginSession(p, c, FALSE)
  /\ UNCHANGED <<inv, cleanup, srv, queue, answers, env>>

-----------------------------------------------------------------------------
(* Serving: wolfSSL_accept inside nonBlock_connect.                        *)

\* The listen socket is connected, so a closed client port answers with an ICMP
\* error, which makes a later send fail.
Refused(p) == ~ClientOpen(Other(p), srv[p].port)

AcceptFails(p) ==
  /\ cleanup' = [cleanup EXCEPT ![p] = TRUE]
  /\ Goto(p, "loop")

\* A ClientHello is taken from whichever port sent it; the answer goes to the
\* connected port.
AcceptHello(p) ==
  /\ pc[p] = "accept" /\ queue[p] # <<>>
  /\ Head(queue[p]).kind = "hello" /\ srv[p].stage = 0
  /\ srv' = [srv EXCEPT ![p] = [@ EXCEPT !.stage = 1]]
  /\ Send(p, Flight("offer", srv[p].port, srv[p].sid))
  /\ Pop(p)
  /\ UNCHANGED <<inv, cleanup, pc, cl, answers, env>>

AcceptAnew(p) ==                 \* mutant: a ClientHello seen again starts a new handshake
  /\ pc[p] = "accept" /\ queue[p] # <<>>
  /\ Head(queue[p]).kind = "hello" /\ srv[p].stage = 1
  /\ srv' = [srv EXCEPT ![p].sid = @ + 1]
  /\ Send(p, Flight("offer", srv[p].port, srv[p].sid + 1))
  /\ Pop(p)
  /\ UNCHANGED <<inv, cleanup, pc, cl, answers, env>>

\* A retransmitted ClientHello makes wolfSSL repeat its flight.
AcceptRepeat(p) ==
  /\ pc[p] = "accept" /\ queue[p] # <<>>
  /\ Head(queue[p]).kind = "hello" /\ srv[p].stage = 1
  /\ Send(p, Flight("offer", srv[p].port, srv[p].sid))
  /\ Pop(p)
  /\ UNCHANGED <<inv, cleanup, pc, srv, cl, answers, env>>

\* The handshake succeeds, and the code clears the flag whoever has set it.
AcceptFinish(p) ==
  /\ pc[p] = "accept" /\ queue[p] # <<>>
  /\ Head(queue[p]).kind = "finish" /\ srv[p].stage = 1
  /\ Head(queue[p]).sid = srv[p].sid
  /\ Send(p, Flight("finished", srv[p].port, srv[p].sid))
  /\ cleanup' = [cleanup EXCEPT ![p] = FALSE]
  /\ Goto(p, "read")
  /\ Pop(p)
  /\ UNCHANGED <<inv, srv, cl, answers, env>>

\* A flight that cannot be sent, or one made with another session's keys, is fatal.
AcceptFatal(p) ==
  /\ pc[p] = "accept" /\ queue[p] # <<>> /\ srv[p].stage = 1
  /\ \/ Head(queue[p]).kind \in {"hello", "finish"} /\ Refused(p)
     \/ Head(queue[p]).kind = "finish" /\ Head(queue[p]).sid # srv[p].sid
  /\ AcceptFails(p)
  /\ Pop(p)
  /\ UNCHANGED <<inv, srv, cl, answers, wire, env>>

\* Records of a later epoch, a Finished before its ClientHello, and a ClientHello
\* whose record number has been seen (a copy, or another client's) are dropped.
AcceptDrop(p) ==
  /\ pc[p] = "accept" /\ queue[p] # <<>>
  /\ \/ Head(queue[p]).kind \in {"request", "close"}
     \/ /\ Head(queue[p]).kind = "hello" /\ srv[p].stage = 1
        /\ "dup" \in Faults \/ Head(queue[p]).port # srv[p].port
     \/ Head(queue[p]).kind = "finish" /\ srv[p].stage = 0
  /\ Pop(p)
  /\ UNCHANGED <<inv, cleanup, pc, srv, cl, answers, wire, env>>

\* WANT_READ: the loop tests the flag, then waits in a select without a timeout.
AcceptWouldBlock(p) ==
  /\ pc[p] = "accept" /\ queue[p] = <<>>
  /\ IF cleanup[p] THEN AcceptFails(p) ELSE Goto(p, "acceptWait") /\ UNCHANGED cleanup
  /\ UNCHANGED <<inv, srv, cl, queue, answers, wire, env>>

AcceptWake(p) ==
  /\ pc[p] = "acceptWait" /\ queue[p] # <<>>
  /\ Goto(p, "accept")
  /\ UNCHANGED <<inv, cleanup, srv, cl, queue, answers, wire, env>>

-----------------------------------------------------------------------------
(* Serving: the read, the reply, the drain (udp_A.c).  pc "read" is the    *)
(* first wolfssl_recv, "check" the flag test of the loop that follows it.  *)

ServeWithoutCopy(p, req) ==      \* mutant: the memcpy into send_buf is missing
  /\ inv' = [inv EXCEPT ![p] = ServedInventory(@, req)]
  /\ srv' = [srv EXCEPT ![p] =
       [@ EXCEPT !.got = "data",
                 !.req = req,
                 !.ptr = IF req.op = "SEND" THEN "null" ELSE "heap"]]
  /\ Goto(p, "reply")

\* decrypt_react(_, 0) on the request, and main's copy of its result.
Serve(p, req) ==
  /\ inv' = [inv EXCEPT ![p] = ServedInventory(@, req)]
  /\ srv' = [srv EXCEPT ![p] =
       [@ EXCEPT !.got = "data",
                 !.req = req,
                 !.ptr = IF req.op = "SEND" THEN "null" ELSE "heap",
                 !.buf = IF req.op = "SEND" THEN srv[p].buf ELSE ServedReply(inv[p], req)]]
  /\ Goto(p, "reply")

\* A read is pending: the first one, or one of the busy loop's.
Reading(p) == pc[p] = "read" \/ (pc[p] = "check" /\ srv[p].got = "none" /\ ~cleanup[p])

FirstRead(p) ==
  /\ pc[p] = "read"
  /\ \/ /\ queue[p] = <<>>
        /\ srv' = [srv EXCEPT ![p] = [@ EXCEPT !.got = "none"]]
        /\ UNCHANGED queue
     \/ /\ queue[p] # <<>> /\ Head(queue[p]).kind = "request"
        /\ srv' = [srv EXCEPT ![p] = [@ EXCEPT !.got = "data", !.req = Head(queue[p]).body]]
        /\ Pop(p)
  /\ Goto(p, "check")
  /\ UNCHANGED <<inv, cleanup, cl, answers, wire, env>>

\* wolfSSL_read returns 0 on close_notify: "Connection Timed Out.", and
\* send_reply_buffer keeps what the session before left in it.
ReadClose(p) ==
  /\ Reading(p) /\ queue[p] # <<>> /\ Head(queue[p]).kind = "close"
  /\ srv' = [srv EXCEPT ![p] = [@ EXCEPT !.got = "closed"]]
  /\ Pop(p)
  /\ Goto(p, "reply")
  /\ UNCHANGED <<inv, cleanup, cl, answers, wire, env>>

\* Until application data arrives a handshake record makes wolfSSL repeat its
\* last flight; if that cannot be sent the read fails, and the daemon stops.
ReadRepeat(p) ==
  /\ Reading(p) /\ queue[p] # <<>> /\ Head(queue[p]).kind \in {"hello", "finish"}
  /\ Pop(p)
  /\ \/ /\ Send(p, Flight("finished", srv[p].port, srv[p].sid))
        /\ UNCHANGED <<cleanup, pc>>
     \/ /\ Refused(p)
        /\ cleanup' = [cleanup EXCEPT ![p] = TRUE]
        /\ Goto(p, "reply")
        /\ UNCHANGED wire
  /\ UNCHANGED <<inv, srv, cl, answers, env>>

React(p) ==
  /\ pc[p] = "check" /\ srv[p].got = "data" /\ ~cleanup[p]
  /\ Serve(p, srv[p].req)
  /\ UNCHANGED <<cleanup, cl, queue, answers, wire, env>>

ReadAndReact(p) ==
  /\ pc[p] = "check" /\ srv[p].got = "none" /\ ~cleanup[p]
  /\ queue[p] # <<>> /\ Head(queue[p]).kind = "request"
  /\ Serve(p, Head(queue[p]).body)
  /\ Pop(p)
  /\ UNCHANGED <<cleanup, cl, answers, wire, env>>

\* The flag was set before the test.  A message already read is zeroed up to its
\* first zero byte, and decrypted all the same: unless that is its very first
\* byte, hmac returns NULL and decrypt_react dereferences it.
CheckInterrupted(p) ==
  /\ pc[p] = "check" /\ cleanup[p]
  /\ \/ srv[p].got = "none" /\ Goto(p, "reply") /\ UNCHANGED <<inv, srv>>
     \/ srv[p].got = "data" /\ Goto(p, "crashed") /\ UNCHANGED <<inv, srv>>
     \/ srv[p].got = "data" /\ Serve(p, srv[p].req)
  /\ UNCHANGED <<cleanup, cl, queue, answers, wire, env>>

\* send_buf goes out when send_reply_buffer is not null, this session's or not.
Reply(p) ==
  /\ pc[p] = "reply"
  /\ \/ /\ srv[p].ptr # "null" /\ ~cleanup[p]
        /\ Send(p, Dgram("reply", srv[p].port, srv[p].sid, srv[p].buf))
        /\ UNCHANGED cleanup
     \/ /\ srv[p].ptr # "null" /\ ~cleanup[p] /\ Refused(p)
        /\ cleanup' = [cleanup EXCEPT ![p] = TRUE]
        /\ UNCHANGED wire
     \/ /\ srv[p].ptr = "null" \/ cleanup[p]
        /\ UNCHANGED <<cleanup, wire>>
  /\ Goto(p, "drain")
  /\ UNCHANGED <<inv, srv, cl, queue, answers, env>>

DrainDeaf(p) ==                  \* mutant: the drain does not test the flag
  /\ pc[p] = "drain" /\ queue[p] # <<>>
  /\ srv' = [srv EXCEPT ![p] = [@ EXCEPT !.got = "none", !.req = Blank]]
  /\ CloseListener(p)
  /\ Goto(p, IF srv[p].stdin THEN "shell" ELSE "loop")
  /\ UNCHANGED <<inv, cleanup, cl, answers, wire, env>>

\* recvfrom until one more datagram, whatever it is, has come; then the socket is
\* closed, and if select had reported stdin as well the shell runs.
Drain(p) ==
  /\ pc[p] = "drain" /\ (queue[p] # <<>> \/ cleanup[p])
  /\ srv' = [srv EXCEPT ![p] = [@ EXCEPT !.got = "none", !.req = Blank]]
  /\ CloseListener(p)
  /\ Goto(p, IF srv[p].stdin THEN "shell" ELSE "loop")
  /\ UNCHANGED <<inv, cleanup, cl, answers, wire, env>>

-----------------------------------------------------------------------------
(* Asking: send_nonBlock_connect and the rest of dtls_send.                *)

ConnectOffer(p) ==
  /\ pc[p] = "connect" /\ answers[p] # <<>>
  /\ Head(answers[p]).kind = "offer" /\ cl[p].stage = 1
  /\ cl' = [cl EXCEPT ![p] =
                [@ EXCEPT !.sid = Head(answers[p]).sid, !.stage = 2, !.retries = 0]]
  /\ Send(p, Flight("finish", cl[p].port, Head(answers[p]).sid))
  /\ PopAnswer(p)
  /\ UNCHANGED <<inv, cleanup, pc, srv, queue, env>>

ConnectFinished(p) ==
  /\ pc[p] = "connect" /\ answers[p] # <<>>
  /\ Head(answers[p]).kind = "finished" /\ cl[p].stage = 2
  /\ Goto(p, "write")
  /\ PopAnswer(p)
  /\ UNCHANGED <<inv, cleanup, srv, cl, queue, wire, env>>

\* The server's first flight seen again makes wolfSSL repeat the finish, and leaves
\* the timer alone.
ClientRepeat(p) ==
  /\ pc[p] = "connect" /\ answers[p] # <<>>
  /\ Head(answers[p]).kind = "offer" /\ cl[p].stage = 2
  /\ Send(p, Flight("finish", cl[p].port, cl[p].sid))
  /\ PopAnswer(p)
  /\ UNCHANGED <<inv, cleanup, pc, srv, cl, queue, env>>

\* A copy is dropped, and after the handshake every flight is: there is nothing left
\* to repeat.
ClientDrop(p) ==
  /\ answers[p] # <<>>
  /\ \/ /\ pc[p] = "connect" /\ cl[p].stage = 2
        /\ Head(answers[p]).kind = "offer" /\ "dup" \in Faults
     \/ pc[p] = "await" /\ Head(answers[p]).kind \in {"offer", "finished"}
  /\ PopAnswer(p)
  /\ UNCHANGED <<inv, cleanup, pc, srv, cl, queue, wire, env>>

\* q has nothing to do until a datagram, its user or a timer calls it; Parked is the
\* same at a bound of the model.
Parked(q) ==
  \/ pc[q] = "loop" /\ ~cleanup[q] /\ inv[q] = 0 /\ cl[q].port = MaxSessions
  \/ pc[q] = "select" /\ ~cleanup[q] /\ srv[q].sid = MaxAccepts
Idle(q) ==
  \/ pc[q] \in FinalPcs \/ Parked(q)
  \/ pc[q] \in {"select", "acceptWait"} /\ queue[q] = <<>>
  \/ pc[q] = "check" /\ srv[q].got = "none" /\ ~cleanup[q] /\ queue[q] = <<>>
  \/ pc[q] = "drain" /\ ~cleanup[q] /\ queue[q] = <<>>
  \/ pc[q] \in {"connect", "await"} /\ answers[q] = <<>>

\* An exchange takes milliseconds and the shortest timer a second: with Prompt it runs
\* out only when nothing is on the network and the other peer just waits.
Quiet == \A p \in Peers : wire[p] = <<>>
TimerFires(p) == pc[p] = "connect" /\ answers[p] = <<>> /\ (Prompt => Quiet /\ Idle(Other(p)))

RetryForever(p) ==               \* mutant: the count of retransmissions is not tested
  /\ TimerFires(p)
  /\ cl' = [cl EXCEPT ![p] = [@ EXCEPT !.retries = cl[p].retries + 1]]
  /\ Send(p, Flight(IF cl[p].stage = 1 THEN "hello" ELSE "finish", cl[p].port, cl[p].sid))
  /\ UNCHANGED <<inv, cleanup, pc, srv, queue, answers, env>>

\* wolfSSL_dtls_got_timeout doubles the timer and repeats the flight ...
ConnectRetry(p) ==
  /\ TimerFires(p) /\ cl[p].retries < MaxRetries
  /\ cl' = [cl EXCEPT ![p] = [@ EXCEPT !.retries = cl[p].retries + 1]]
  /\ Send(p, Flight(IF cl[p].stage = 1 THEN "hello" ELSE "finish", cl[p].port, cl[p].sid))
  /\ UNCHANGED <<inv, cleanup, pc, srv, queue, answers, env>>

NeverGiveUp(p) ==                \* mutant: the longest timer starts again
  /\ TimerFires(p) /\ cl[p].retries = MaxRetries
  /\ Send(p, Flight(IF cl[p].stage = 1 THEN "hello" ELSE "finish", cl[p].port, cl[p].sid))
  /\ UNCHANGED <<inv, cleanup, pc, srv, cl, queue, answers, env>>

\* ... until the longest one has passed.
ConnectGiveUp(p) ==
  /\ TimerFires(p) /\ cl[p].retries = MaxRetries
  /\ EndSession(p)
  /\ UNCHANGED <<inv, cleanup, srv, cl, queue, wire, env>>

Write(p) ==
  /\ pc[p] = "write"
  /\ Send(p, Dgram("request", cl[p].port, cl[p].sid, cl[p].cmd))
  /\ Goto(p, IF cl[p].cmd.op = "SEND" THEN "bye" ELSE "await")
  /\ UNCHANGED <<inv, cleanup, srv, cl, queue, answers, env>>

\* The busy loop ends with the reply, and only with it.
Await(p) ==
  /\ pc[p] = "await" /\ answers[p] # <<>> /\ Head(answers[p]).kind = "reply"
  /\ LET reply == Head(answers[p]).body IN
       IF reply.op = "BLANK"
         THEN Goto(p, "crashed") /\ UNCHANGED inv
         ELSE /\ inv' = [inv EXCEPT ![p] = AnsweredInventory(@, reply)]
              /\ Goto(p, "bye")
  /\ PopAnswer(p)
  /\ UNCHANGED <<cleanup, srv, cl, queue, wire, env>>

ByeWithoutShutdown(p) ==         \* mutant: wolfSSL_shutdown is not called
  /\ pc[p] = "bye"
  /\ EndSession(p)
  /\ UNCHANGED <<inv, cleanup, srv, cl, queue, wire, env>>

\* close_notify is sent and the socket closed.
Bye(p) ==
  /\ pc[p] = "bye"
  /\ Send(p, Flight("close", cl[p].port, cl[p].sid))
  /\ EndSession(p)
  /\ UNCHANGED <<inv, cleanup, srv, cl, queue, env>>

-----------------------------------------------------------------------------
(* The environment: SIGINT and the network.                                *)

\* The handler sets the flag.  A blocking select is interrupted too, unless the
\* signal came between the last test of the flag and the call.
Signal(p) ==
  /\ pc[p] \notin FinalPcs /\ signals[p] < MaxSignals
  /\ signals' = [signals EXCEPT ![p] = @ + 1]
  /\ cleanup' = [cleanup EXCEPT ![p] = TRUE]
  /\ \/ UNCHANGED <<pc, answers>>
     \/ pc[p] \in {"select", "acceptWait"} /\ Goto(p, "loop") /\ UNCHANGED answers
     \/ pc[p] = "connect" /\ EndSession(p)
  /\ UNCHANGED <<inv, srv, cl, queue, wire, late, faults>>

ReachesUnconnected(p, d) ==      \* mutant: the listen socket is never connected
  IF d.kind \in ToListener THEN ListenOpen(p) ELSE ClientOpen(p, d.port)

\* The socket d is addressed to is open, and connected to no other port.
Reaches(p, d) ==
  IF d.kind \in ToListener
    THEN ListenOpen(p) /\ (srv[p].port = 0 \/ srv[p].port = d.port)
    ELSE ClientOpen(p, d.port)

\* d, sent by p, arrives; a socket that is closed or connected elsewhere does not get it.
Arrive(p, d) ==
  LET q == Other(p) IN
  /\ queue' = IF Reaches(q, d) /\ d.kind \in ToListener
                THEN [queue EXCEPT ![q] = Append(@, d)] ELSE queue
  /\ answers' = IF Reaches(q, d) /\ d.kind \in ToClient
                  THEN [answers EXCEPT ![q] = Append(@, d)] ELSE answers
  /\ UNCHANGED <<inv, cleanup, pc, srv, cl, signals, faults>>

Deliver(p) ==
  /\ wire[p] # <<>>
  /\ Arrive(p, Head(wire[p]))
  /\ wire' = [wire EXCEPT ![p] = Tail(@)]
  /\ UNCHANGED late

DeliverLate(p) ==
  \E d \in late[p] :
    /\ Arrive(p, d)
    /\ late' = [late EXCEPT ![p] = @ \ {d}]
    /\ UNCHANGED wire

Fault(kind) ==
  /\ kind \in Faults /\ faults < MaxFaults
  /\ faults' = faults + 1
  /\ UNCHANGED <<procVars, signals>>

Lose(p) ==
  /\ Fault("lose") /\ wire[p] # <<>>
  /\ wire' = [wire EXCEPT ![p] = Tail(@)]
  /\ UNCHANGED late

Duplicate(p) ==
  /\ Fault("dup") /\ wire[p] # <<>>
  /\ late' = [late EXCEPT ![p] = @ \cup {Head(wire[p])}]
  /\ UNCHANGED wire

Delay(p) ==
  /\ Fault("delay") /\ wire[p] # <<>>
  /\ wire' = [wire EXCEPT ![p] = Tail(@)]
  /\ late' = [late EXCEPT ![p] = @ \cup {Head(wire[p])}]

-----------------------------------------------------------------------------
Main(p)  == Halt(p) \/ OpenAndSelect(p) \/ OpenAndRefill(p) \/ Peek(p)
User(p)  == ReadStdin(p) \/ ShellIdle(p) \/ ShellExit(p) \/ ShellSend(p) \/ ShellAsk(p)
Accept(p) == \/ AcceptHello(p) \/ AcceptRepeat(p) \/ AcceptFinish(p) \/ AcceptFatal(p)
             \/ AcceptDrop(p) \/ AcceptWouldBlock(p) \/ AcceptWake(p)
Respond(p) == \/ FirstRead(p) \/ ReadClose(p) \/ ReadRepeat(p) \/ React(p)
              \/ ReadAndReact(p) \/ CheckInterrupted(p) \/ Reply(p) \/ Drain(p)
Client(p) == \/ ConnectOffer(p) \/ ConnectFinished(p) \/ ClientRepeat(p) \/ ClientDrop(p)
             \/ ConnectRetry(p) \/ ConnectGiveUp(p) \/ Write(p) \/ Await(p) \/ Bye(p)
Network(p) == Deliver(p) \/ DeliverLate(p) \/ Lose(p) \/ Duplicate(p) \/ Delay(p)

Next ==
  \E p \in Peers :
    Main(p) \/ User(p) \/ Accept(p) \/ Respond(p) \/ Client(p) \/ Signal(p) \/ Network(p)

Spec == Init /\ [][Next]_vars

\* The scheduler runs both threads, a line that was typed is executed, and a datagram
\* the network keeps is delivered.  The timers run on whatever the other peer does
\* meanwhile, hence strong fairness.  Nobody owes a command, a SIGINT or a fault.
Steps(p) == Main(p) \/ Accept(p) \/ Respond(p) \/ Client(p) \/ ShellIdle(p)
Timer(p) == ConnectRetry(p) \/ ConnectGiveUp(p)
Fairness ==
  \A p \in Peers :
    /\ WF_vars(Steps(p))
    /\ SF_vars(Timer(p))
    /\ WF_vars(Deliver(p))

FairSpec == Spec /\ Fairness

-----------------------------------------------------------------------------
(* Properties.                                                             *)

ServerStates ==
  [port : Ports \cup {0}, sid : Sids \cup {0}, stage : {0, 1},
   got : {"none", "data", "closed"}, req : Payloads,
   ptr : {"null", "heap", "wild"}, buf : Payloads, stdin : BOOLEAN]

ClientStates ==
  [port : Ports \cup {0}, sid : Sids \cup {0}, stage : {0, 1, 2},
   retries : 0..MaxRetries, cmd : Payloads, refill : BOOLEAN]

\* Every variable keeps its type: only datagrams meant for a socket wait on it.
TypeOK ==
  /\ inv \in [Peers -> Int]
  /\ cleanup \in [Peers -> BOOLEAN]
  /\ pc \in [Peers -> {"loop", "shell"} \cup ServerPcs \cup ClientPcs \cup FinalPcs]
  /\ srv \in [Peers -> ServerStates]
  /\ cl \in [Peers -> ClientStates]
  /\ queue \in [Peers -> Seq(Datagrams(ToListener))]
  /\ answers \in [Peers -> Seq(Datagrams(ToClient))]
  /\ wire \in [Peers -> Seq(Datagrams(ToListener \cup ToClient))]
  /\ late \in [Peers -> SUBSET Datagrams(ToListener \cup ToClient)]
  /\ signals \in [Peers -> 0..MaxSignals]
  /\ faults \in 0..MaxFaults

(***************************************************************************)
(* Items that may still be added to an inventory.                          *)
(***************************************************************************)

\* Taken out by p's SEND, and not yet handed to the network.
Unsent(p) ==
  IF pc[p] \in {"connect", "write"} /\ cl[p].cmd.op = "SEND" THEN cl[p].cmd.n ELSE 0

InTransit(p) == Range(wire[p]) \cup late[p]

\* The SENDs p's session may still apply.
Incoming(p) ==
  {d \in Range(queue[p]) \cup InTransit(Other(p)) :
     /\ pc[p] \in {"accept", "acceptWait", "read", "check"} /\ srv[p].got # "data"
     /\ d.kind = "request" /\ d.sid = srv[p].sid /\ d.body.op = "SEND"}
Parcels(p) ==
  {0} \cup {d.body.n : d \in Incoming(p)}
      \cup {n \in {srv[p].req.n} : pc[p] = "check" /\ srv[p].got = "data" /\ srv[p].req.op = "SEND"}

\* The answers p waits for that carry items, on their way or about to be sent.
Goods == {"REQUEST", "REFILL"}
Refunds(p) ==
  LET q == Other(p) IN
  {0} \cup {d.body.n : d \in {e \in Range(answers[p]) \cup InTransit(q) :
              /\ pc[p] = "await" /\ e.kind = "reply" /\ e.port = cl[p].port
              /\ e.body.op \in Goods}}
      \cup {n \in {srv[q].buf.n} :
              /\ pc[p] = "await" /\ pc[q] = "reply" /\ srv[q].port = cl[p].port
              /\ srv[q].got = "data" /\ srv[q].ptr = "heap" /\ srv[q].buf.op \in Goods}

\* Items are never created: the two inventories, and what messages lost, repeated or
\* reordered can still bring them, never exceed what the peers started with.  It
\* fails if a SEND is applied twice, or a reply credited that was not debited.
NothingCreated ==
  \A a \in Parcels(A), b \in Parcels(B), x \in Refunds(A), y \in Refunds(B) :
    inv[A] + inv[B] + Unsent(A) + Unsent(B) + a + b + x + y <= 2 * InitialInventory

\* The reply a client is about to apply answers the command it sent: main resends
\* whatever send_buf holds, so an earlier session's answer must never get through.
ReplyMatches ==
  \A p \in Peers :
    pc[p] = "await" /\ answers[p] # <<>> /\ Head(answers[p]).kind = "reply" =>
      LET cmd == cl[p].cmd
          body == Head(answers[p]).body
      IN  \/ cmd.op = "CHECK" /\ body.op = "CHECK"
          \/ cmd.op = "REFILL" /\ body = [op |-> "REFILL", n |-> RefillAmount]
          \/ cmd.op = "REQUEST" /\ (body = cmd \/ body.op = "INSUFFICIENT")

\* Both ends of an established session hold the same keys: no record that either
\* reads was made in another session, whatever the network kept from earlier ones.
\* Only the offer of a second accept, made for an old hello, may reach a client that
\* already waits for its reply: it is a handshake flight, which ClientDrop drops.
KeysAgree ==
  \A p \in Peers :
    /\ Reading(p) /\ queue[p] # <<>> /\ Head(queue[p]).kind \in {"request", "close"}
         => Head(queue[p]).sid = srv[p].sid
    /\ answers[p] # <<>> /\ cl[p].stage = 2
       /\ (pc[p] = "connect" \/ (pc[p] = "await" /\ Head(answers[p]).kind # "offer"))
         => Head(answers[p]).sid = cl[p].sid

\* Without SIGINT no message makes decrypt_react dereference a null command.
NoCrash == \A p \in Peers : pc[p] # "crashed"

\* The stock tests of shell_SEND and of a served REQUEST hold: only a REFILL that p
\* serves takes its inventory below zero.
OnlyRefillOverdraws ==
  [][\A p \in Peers : inv'[p] < inv[p] /\ inv'[p] < 0 =>
        pc[p] = "check" /\ srv'[p].req.op = "REFILL"]_vars

\* A client session ends, and the thread goes on, whatever the other peer is doing:
\* refilling at the same time, in its shell, or stuck in an accept.
ClientReturns == \A p \in Peers : pc[p] \in ClientPcs ~> pc[p] \notin ClientPcs

\* A peer that starts to serve a session gets out of it.
Serving == ServerPcs \ {"select"}
ServerReturns == \A p \in Peers : pc[p] \in Serving ~> pc[p] \notin Serving

\* Once its handshake is done a server honours SIGINT, whatever messages are lost: it
\* stops, after the line its user has typed, if any.
Established == {"read", "check", "reply", "drain"}
InterruptedServerStops ==
  \A p \in Peers : cleanup[p] /\ pc[p] \in Established ~> pc[p] \in FinalPcs \cup {"shell"}

\* The flag SIGINT sets stays set (udp_A.c:20, "flag to indicate cleanup").
FlagSticks == [][\A p \in Peers : cleanup[p] => cleanup'[p]]_vars

\* No inventory is negative (shell.c:52, "Not enough! Current INVENTORY is %d").
NoOverdraft == \A p \in Peers : inv[p] >= 0

\* "SEND: %d sended" (io_handler.c:49) is printed of a message that went out.
SendedMeansSent ==
  [][\A p \in Peers : pc[p] \in ClientPcs /\ cl[p].cmd.op = "SEND" /\ pc'[p] = "loop"
        => pc[p] = "bye"]_vars
=============================================================================
