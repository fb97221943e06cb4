-------------------------- MODULE SimpleUDP_proofs --------------------------
(* Theorems of SimpleUDP for every script, inventory and bound.            *)
EXTENDS SimpleUDP, TLAPS

-----------------------------------------------------------------------------
(* What decrypt_react does to an inventory.                                *)

\* The message semantics keeps the types of inventories and messages.
LEMMA ServedTypes ==
  ASSUME NEW stock \in Int, NEW req \in Payloads
  PROVE  /\ ServedInventory(stock, req) \in Int
         /\ ServedReply(stock, req) \in Payloads
BY RefillAssumption
   DEF ServedInventory, ServedReply, Payloads, Insufficient, Blank

\* Only a REFILL is served without a look at the stock.
LEMMA ServedOverdraft ==
  ASSUME NEW stock \in Int, NEW req \in Payloads,
         ServedInventory(stock, req) < stock, ServedInventory(stock, req) < 0
  PROVE  req.op = "REFILL"
BY RefillAssumption DEF ServedInventory, Payloads, Insufficient, Blank

\* An answer never takes items from the peer that asked.
LEMMA AnsweredGrows ==
  ASSUME NEW stock \in Int, NEW reply \in Payloads
  PROVE  /\ AnsweredInventory(stock, reply) \in Int
         /\ AnsweredInventory(stock, reply) >= stock
BY DEF AnsweredInventory, Payloads, Insufficient, Blank

LEMMA OtherIsPeer == ASSUME NEW p \in Peers PROVE Other(p) \in Peers
BY DEF Other, Peers

LEMMA ScriptTypes == ASSUME NEW p \in Peers PROVE Script[p] \subseteq Payloads
BY ScriptAssumption DEF Payloads, Commands

LEMMA BlankIsPayload == Blank \in Payloads
BY DEF Payloads

LEMMA RefillIsPayload == [op |-> "REFILL", n |-> 0] \in Payloads
BY DEF Payloads

\* Every flight and message the code sends is a datagram of its kind.
LEMMA DatagramTypes ==
  ASSUME NEW kinds, NEW kind \in kinds, NEW port \in Ports, NEW sid \in Sids \cup {0},
         NEW body \in Payloads
  PROVE  /\ Dgram(kind, port, sid, body) \in Datagrams(kinds)
         /\ Flight(kind, port, sid) \in Datagrams(kinds)
BY BlankIsPayload DEF Dgram, Flight, Datagrams

-----------------------------------------------------------------------------
(* Type correctness.                                                       *)

\* A session that has begun has a port, on either side.
Connected ==
  \A p \in Peers :
    /\ pc[p] \in Serving => srv[p].port # 0
    /\ pc[p] \in ClientPcs => cl[p].port # 0

LEMMA TypeInit == Init => TypeOK
<1> SUFFICES ASSUME Init PROVE TypeOK
  OBVIOUS
<1> USE BoundsAssumption, BlankIsPayload DEF Init
<1>1. inv \in [Peers -> Int] /\ cleanup \in [Peers -> BOOLEAN]
  OBVIOUS
<1>2. pc \in [Peers -> {"loop", "shell"} \cup ServerPcs \cup ClientPcs \cup FinalPcs]
  OBVIOUS
<1>3. srv \in [Peers -> ServerStates]
  BY DEF ServerStates
<1>4. cl \in [Peers -> ClientStates]
  BY DEF ClientStates
<1>5. /\ queue \in [Peers -> Seq(Datagrams(ToListener))]
      /\ answers \in [Peers -> Seq(Datagrams(ToClient))]
      /\ wire \in [Peers -> Seq(Datagrams(ToListener \cup ToClient))]
      /\ late \in [Peers -> SUBSET Datagrams(ToListener \cup ToClient)]
  OBVIOUS
<1>6. signals \in [Peers -> 0..MaxSignals] /\ faults \in 0..MaxFaults
  OBVIOUS
<1> QED
  BY <1>1, <1>2, <1>3, <1>4, <1>5, <1>6 DEF TypeOK

\* The sockets and the wire are queues: they shrink at the head and grow at the tail.
LEMMA AppendTypes ==
  ASSUME NEW S, NEW f \in [Peers -> Seq(S)], NEW p \in Peers, NEW d \in S
  PROVE  [f EXCEPT ![p] = Append(@, d)] \in [Peers -> Seq(S)]
OBVIOUS

LEMMA QueueTypes ==
  ASSUME TypeOK, NEW p \in Peers, queue[p] # <<>>
  PROVE  /\ Head(queue[p]) \in Datagrams(ToListener)
         /\ Pop(p) => queue' \in [Peers -> Seq(Datagrams(ToListener))]
<1>1. queue \in [Peers -> Seq(Datagrams(ToListener))]
  BY DEF TypeOK
<1>2. queue[p] \in Seq(Datagrams(ToListener))
  BY <1>1
<1>3. Head(queue[p]) \in Datagrams(ToListener) /\ Tail(queue[p]) \in Seq(Datagrams(ToListener))
  BY <1>2
<1> QED
  BY <1>1, <1>3 DEF Pop

LEMMA AnswerTypes ==
  ASSUME TypeOK, NEW p \in Peers, answers[p] # <<>>
  PROVE  /\ Head(answers[p]) \in Datagrams(ToClient)
         /\ PopAnswer(p) => answers' \in [Peers -> Seq(Datagrams(ToClient))]
<1>1. answers \in [Peers -> Seq(Datagrams(ToClient))]
  BY DEF TypeOK
<1>2. answers[p] \in Seq(Datagrams(ToClient))
  BY <1>1
<1>3. Head(answers[p]) \in Datagrams(ToClient) /\ Tail(answers[p]) \in Seq(Datagrams(ToClient))
  BY <1>2
<1> QED
  BY <1>1, <1>3 DEF PopAnswer

LEMMA SendTypes ==
  ASSUME TypeOK, NEW p \in Peers, NEW d \in Datagrams(ToListener \cup ToClient), Send(p, d)
  PROVE  wire' \in [Peers -> Seq(Datagrams(ToListener \cup ToClient))]
BY AppendTypes DEF Send, TypeOK

\* A step that replaces p's session by another one of the type keeps the type.
LEMMA SessionTypes ==
  ASSUME TypeOK, NEW p \in Peers
  PROVE  /\ \A s \in ServerStates : [srv EXCEPT ![p] = s] \in [Peers -> ServerStates]
         /\ \A c \in ClientStates : [cl EXCEPT ![p] = c] \in [Peers -> ClientStates]
BY DEF TypeOK

LEMMA CloseListenerTypes ==
  ASSUME TypeOK, NEW p \in Peers, CloseListener(p)
  PROVE  queue' \in [Peers -> Seq(Datagrams(ToListener))]
<1>1. <<>> \in Seq(Datagrams(ToListener))
  OBVIOUS
<1> QED
  BY <1>1 DEF CloseListener, TypeOK

LEMMA FreshSocketTypes ==
  ASSUME TypeOK, NEW p \in Peers, FreshSocket(p)
  PROVE  /\ srv' \in [Peers -> ServerStates]
         /\ queue' \in [Peers -> Seq(Datagrams(ToListener))]
<1>1. srv[p] \in ServerStates
  BY DEF TypeOK
<1>2. [srv[p] EXCEPT !.port = 0, !.stage = 0, !.stdin = FALSE] \in ServerStates
  BY <1>1 DEF ServerStates
<1>3. srv' \in [Peers -> ServerStates]
  BY <1>2, SessionTypes DEF FreshSocket
<1> QED
  BY <1>3 DEF FreshSocket, TypeOK

LEMMA BeginSessionTypes ==
  ASSUME TypeOK, NEW p \in Peers, NEW cmd \in Payloads, NEW refill \in BOOLEAN,
         BeginSession(p, cmd, refill)
  PROVE  /\ cl' \in [Peers -> ClientStates]
         /\ wire' \in [Peers -> Seq(Datagrams(ToListener \cup ToClient))]
         /\ pc' = [pc EXCEPT ![p] = "connect"]
<1> DEFINE port == cl[p].port + 1
<1>1. cl[p] \in ClientStates
  BY DEF TypeOK
<1>2. port \in Ports
  BY <1>1, BoundsAssumption DEF BeginSession, ClientStates, Ports
<1>3. [port |-> port, sid |-> 0, stage |-> 1, retries |-> 0, cmd |-> cmd, refill |-> refill]
        \in ClientStates
  BY <1>2, BoundsAssumption DEF ClientStates
<1>4. Flight("hello", port, 0) \in Datagrams(ToListener \cup ToClient)
  BY <1>2, DatagramTypes, BlankIsPayload DEF ToListener
<1> QED
  BY <1>3, <1>4, SendTypes, SessionTypes DEF BeginSession, Goto

LEMMA TypeMain ==
  ASSUME TypeOK, NEW p \in Peers, Main(p)
  PROVE  TypeOK'
<1> USE DEF Goto, env
<1>1. CASE Halt(p)
  BY <1>1 DEF Halt, FinalPcs, TypeOK
<1>2. CASE OpenAndSelect(p)
  BY <1>2, FreshSocketTypes DEF OpenAndSelect, ServerPcs, TypeOK
<1>3. CASE OpenAndRefill(p)
  BY <1>3, FreshSocketTypes, BeginSessionTypes, RefillIsPayload
     DEF OpenAndRefill, ClientPcs, TypeOK
<1>4. CASE Peek(p)
  <2>1. srv' \in [Peers -> ServerStates]
    <3>1. CASE cleanup[p]
      BY <1>4, <3>1 DEF Peek, TypeOK
    <3>2. CASE ~cleanup[p]
      <4>1. PICK ready \in BOOLEAN :
              srv' = [srv EXCEPT ![p] = [@ EXCEPT !.port = Head(queue[p]).port, !.sid = srv[p].sid + 1,
                                                  !.stage = 0, !.stdin = ready]]
        BY <1>4, <3>2 DEF Peek
      <4>2. srv[p] \in ServerStates /\ srv[p].sid < MaxAccepts
        BY <1>4, <3>2 DEF Peek, TypeOK
      <4>3. srv[p].sid + 1 \in Sids
        BY <4>2, BoundsAssumption DEF ServerStates, Sids
      <4>4. Head(queue[p]).port \in Ports
        BY <1>4, QueueTypes DEF Peek, Datagrams
      <4>5. [srv[p] EXCEPT !.port = Head(queue[p]).port, !.sid = srv[p].sid + 1, !.stage = 0,
                           !.stdin = ready] \in ServerStates
        BY <4>2, <4>3, <4>4 DEF ServerStates
      <4> QED
        BY <4>1, <4>5 DEF TypeOK
    <3> QED
      BY <3>1, <3>2
  <2> QED
    BY <1>4, <2>1 DEF Peek, ServerPcs, TypeOK
<1> QED
  BY <1>1, <1>2, <1>3, <1>4 DEF Main

LEMMA TypeUser ==
  ASSUME TypeOK, NEW p \in Peers, User(p)
  PROVE  TypeOK'
<1> USE DEF env
<1>1. CASE ReadStdin(p)
  BY <1>1, CloseListenerTypes DEF ReadStdin, Goto, TypeOK
<1>2. CASE ShellIdle(p)
  BY <1>2 DEF ShellIdle, Goto, TypeOK
<1>3. CASE ShellExit(p)
  BY <1>3 DEF ShellExit, Goto, TypeOK
<1>4. CASE ShellSend(p)
  <2>1. PICK c \in Script[p] :
          inv' = [inv EXCEPT ![p] = @ - c.n] /\ BeginSession(p, c, FALSE)
    BY <1>4 DEF ShellSend
  <2>2. c \in Payloads /\ c.n \in Nat
    BY ScriptTypes, ScriptAssumption
  <2>3. inv' \in [Peers -> Int]
    BY <2>1, <2>2 DEF TypeOK
  <2> QED
    BY <1>4, <2>1, <2>2, <2>3, BeginSessionTypes DEF ShellSend, ClientPcs, TypeOK
<1>5. CASE ShellAsk(p)
  <2>1. PICK c \in Script[p] : BeginSession(p, c, FALSE)
    BY <1>5 DEF ShellAsk
  <2> QED
    BY <1>5, <2>1, ScriptTypes, BeginSessionTypes DEF ShellAsk, ClientPcs, TypeOK
<1> QED
  BY <1>1, <1>2, <1>3, <1>4, <1>5 DEF User

\* The flights of either side carry the port and the number of its session.
LEMMA ServerSends ==
  ASSUME TypeOK, Connected, NEW p \in Peers, pc[p] \in Serving,
         NEW kind \in ToClient, NEW body \in Payloads
  PROVE  /\ Send(p, Flight(kind, srv[p].port, srv[p].sid)) =>
              wire' \in [Peers -> Seq(Datagrams(ToListener \cup ToClient))]
         /\ Send(p, Dgram(kind, srv[p].port, srv[p].sid, body)) =>
              wire' \in [Peers -> Seq(Datagrams(ToListener \cup ToClient))]
<1>0. srv[p] \in ServerStates /\ srv[p].port # 0
  BY DEF TypeOK, Connected
<1>1. srv[p].port \in Ports /\ srv[p].sid \in Sids \cup {0}
  BY <1>0 DEF ServerStates
<1>2. /\ Flight(kind, srv[p].port, srv[p].sid) \in Datagrams(ToListener \cup ToClient)
      /\ Dgram(kind, srv[p].port, srv[p].sid, body) \in Datagrams(ToListener \cup ToClient)
  BY <1>1, DatagramTypes
<1> QED
  BY <1>2, SendTypes

LEMMA ClientSends ==
  ASSUME TypeOK, Connected, NEW p \in Peers, pc[p] \in ClientPcs,
         NEW kind \in ToListener, NEW sid \in Sids \cup {0}, NEW body \in Payloads
  PROVE  /\ Send(p, Flight(kind, cl[p].port, sid)) =>
              wire' \in [Peers -> Seq(Datagrams(ToListener \cup ToClient))]
         /\ Send(p, Dgram(kind, cl[p].port, sid, body)) =>
              wire' \in [Peers -> Seq(Datagrams(ToListener \cup ToClient))]
<1>0. cl[p] \in ClientStates /\ cl[p].port # 0
  BY DEF TypeOK, Connected
<1>1. cl[p].port \in Ports
  BY <1>0 DEF ClientStates
<1>2. /\ Flight(kind, cl[p].port, sid) \in Datagrams(ToListener \cup ToClient)
      /\ Dgram(kind, cl[p].port, sid, body) \in Datagrams(ToListener \cup ToClient)
  BY <1>1, DatagramTypes
<1> QED
  BY <1>2, SendTypes

LEMMA TypeAccept ==
  ASSUME TypeOK, Connected, NEW p \in Peers, Accept(p)
  PROVE  TypeOK'
<1> USE DEF env
<1>1. srv[p] \in ServerStates
  BY DEF TypeOK
<1>2. "offer" \in ToClient /\ "finished" \in ToClient
  BY DEF ToClient
<1>3. "accept" \in Serving
  BY DEF Serving, ServerPcs
<1>4. CASE AcceptHello(p)
  <2>1. [srv[p] EXCEPT !.stage = 1] \in ServerStates
    BY <1>1 DEF ServerStates
  <2>2. wire' \in [Peers -> Seq(Datagrams(ToListener \cup ToClient))]
    BY <1>2, <1>3, <1>4, ServerSends, BlankIsPayload DEF AcceptHello
  <2> QED
    BY <1>4, <2>1, <2>2, QueueTypes DEF AcceptHello, TypeOK
<1>5. CASE AcceptRepeat(p)
  <2>1. wire' \in [Peers -> Seq(Datagrams(ToListener \cup ToClient))]
    BY <1>2, <1>3, <1>5, ServerSends, BlankIsPayload DEF AcceptRepeat
  <2> QED
    BY <1>5, <2>1, QueueTypes DEF AcceptRepeat, TypeOK
<1>6. CASE AcceptFinish(p)
  <2>1. wire' \in [Peers -> Seq(Datagrams(ToListener \cup ToClient))]
    BY <1>2, <1>3, <1>6, ServerSends, BlankIsPayload DEF AcceptFinish
  <2> QED
    BY <1>6, <2>1, QueueTypes DEF AcceptFinish, ServerPcs, Goto, TypeOK
<1>7. CASE AcceptFatal(p)
  BY <1>7, QueueTypes DEF AcceptFatal, AcceptFails, Goto, TypeOK
<1>8. CASE AcceptDrop(p)
  BY <1>8, QueueTypes DEF AcceptDrop, TypeOK
<1>9. CASE AcceptWouldBlock(p)
  BY <1>9 DEF AcceptWouldBlock, AcceptFails, Goto, ServerPcs, TypeOK
<1>10. CASE AcceptWake(p)
  BY <1>10 DEF AcceptWake, Goto, ServerPcs, TypeOK
<1> QED
  BY <1>4, <1>5, <1>6, <1>7, <1>8, <1>9, <1>10 DEF Accept

LEMMA ServeTypes ==
  ASSUME TypeOK, NEW p \in Peers, NEW req \in Payloads, Serve(p, req)
  PROVE  /\ inv' \in [Peers -> Int]
         /\ srv' \in [Peers -> ServerStates]
         /\ pc' = [pc EXCEPT ![p] = "reply"]
<1> DEFINE ptr == IF req.op = "SEND" THEN "null" ELSE "heap"
           buf == IF req.op = "SEND" THEN srv[p].buf ELSE ServedReply(inv[p], req)
<1>1. srv[p] \in ServerStates /\ inv[p] \in Int
  BY DEF TypeOK
<1>2. ServedInventory(inv[p], req) \in Int /\ buf \in Payloads
  BY <1>1, ServedTypes DEF ServerStates
<1>3. [srv[p] EXCEPT !.got = "data", !.req = req, !.ptr = ptr, !.buf = buf] \in ServerStates
  BY <1>1, <1>2 DEF ServerStates
<1> QED
  BY <1>2, <1>3, SessionTypes DEF Serve, Goto, TypeOK

LEMMA TypeRespond ==
  ASSUME TypeOK, Connected, NEW p \in Peers, Respond(p)
  PROVE  TypeOK'
<1> USE DEF env
<1>1. srv[p] \in ServerStates
  BY DEF TypeOK
<1>2. "reply" \in ToClient /\ "finished" \in ToClient
  BY DEF ToClient
<1>3. {"read", "check", "reply"} \subseteq Serving
  BY DEF Serving, ServerPcs
<1>4. CASE FirstRead(p)
  <2>1. srv' \in [Peers -> ServerStates] /\ queue' \in [Peers -> Seq(Datagrams(ToListener))]
    <3>1. CASE queue[p] = <<>>
      <4>1. [srv[p] EXCEPT !.got = "none"] \in ServerStates
        BY <1>1 DEF ServerStates
      <4> QED
        BY <1>4, <3>1, <4>1 DEF FirstRead, TypeOK
    <3>2. CASE queue[p] # <<>>
      <4>1. Head(queue[p]).body \in Payloads
        BY <3>2, QueueTypes DEF Datagrams
      <4>2. [srv[p] EXCEPT !.got = "data", !.req = Head(queue[p]).body] \in ServerStates
        BY <1>1, <4>1 DEF ServerStates
      <4> QED
        BY <1>4, <3>2, <4>2, QueueTypes, SessionTypes DEF FirstRead
    <3> QED
      BY <3>1, <3>2
  <2> QED
    BY <1>4, <2>1 DEF FirstRead, Goto, ServerPcs, TypeOK
<1>5. CASE ReadClose(p)
  <2>1. [srv[p] EXCEPT !.got = "closed"] \in ServerStates
    BY <1>1 DEF ServerStates
  <2> QED
    BY <1>5, <2>1, QueueTypes DEF ReadClose, Goto, ServerPcs, TypeOK
<1>6. CASE ReadRepeat(p)
  <2>1. pc[p] \in Serving
    BY <1>3, <1>6 DEF ReadRepeat, Reading
  <2>2. wire' \in [Peers -> Seq(Datagrams(ToListener \cup ToClient))]
    BY <1>2, <1>6, <2>1, ServerSends, BlankIsPayload DEF ReadRepeat, TypeOK
  <2> QED
    BY <1>6, <2>2, QueueTypes DEF ReadRepeat, Goto, ServerPcs, TypeOK
<1>7. CASE React(p)
  <2>1. srv[p].req \in Payloads
    BY <1>1 DEF ServerStates
  <2> QED
    BY <1>7, <2>1, ServeTypes DEF React, ServerPcs, TypeOK
<1>8. CASE ReadAndReact(p)
  <2>1. Head(queue[p]).body \in Payloads
    BY <1>8, QueueTypes DEF ReadAndReact, Datagrams
  <2> QED
    BY <1>8, <2>1, ServeTypes, QueueTypes DEF ReadAndReact, ServerPcs, TypeOK
<1>9. CASE CheckInterrupted(p)
  <2>1. srv[p].req \in Payloads
    BY <1>1 DEF ServerStates
  <2>2. CASE Serve(p, srv[p].req)
    BY <1>9, <2>1, <2>2, ServeTypes DEF CheckInterrupted, ServerPcs, TypeOK
  <2>3. CASE ~Serve(p, srv[p].req)
    BY <1>9, <2>3 DEF CheckInterrupted, Goto, ServerPcs, FinalPcs, TypeOK
  <2> QED
    BY <2>2, <2>3
<1>10. CASE Reply(p)
  <2>1. srv[p].buf \in Payloads /\ pc[p] \in Serving
    BY <1>1, <1>3, <1>10 DEF Reply, ServerStates
  <2>2. wire' \in [Peers -> Seq(Datagrams(ToListener \cup ToClient))]
    BY <1>2, <1>10, <2>1, ServerSends DEF Reply, TypeOK
  <2> QED
    BY <1>10, <2>2 DEF Reply, Goto, ServerPcs, TypeOK
<1>11. CASE Drain(p)
  <2>1. [srv[p] EXCEPT !.got = "none", !.req = Blank] \in ServerStates
    BY <1>1, BlankIsPayload DEF ServerStates
  <2> QED
    BY <1>11, <2>1, CloseListenerTypes DEF Drain, Goto, TypeOK
<1> QED
  BY <1>4, <1>5, <1>6, <1>7, <1>8, <1>9, <1>10, <1>11 DEF Respond

LEMMA EndSessionTypes ==
  ASSUME TypeOK, NEW p \in Peers, EndSession(p)
  PROVE  /\ answers' \in [Peers -> Seq(Datagrams(ToClient))]
         /\ pc' \in [Peers -> {"loop", "shell"} \cup ServerPcs \cup ClientPcs \cup FinalPcs]
<1>1. <<>> \in Seq(Datagrams(ToClient))
  OBVIOUS
<1> QED
  BY <1>1 DEF EndSession, Goto, ServerPcs, TypeOK

LEMMA TypeClient ==
  ASSUME TypeOK, Connected, NEW p \in Peers, Client(p)
  PROVE  TypeOK'
<1> USE DEF env
<1>1. cl[p] \in ClientStates
  BY DEF TypeOK
<1>2. {"hello", "finish", "request", "close"} \subseteq ToListener
  BY DEF ToListener
<1>3. {"connect", "write", "await", "bye"} \subseteq ClientPcs
  BY DEF ClientPcs
<1>4. cl[p].sid \in Sids \cup {0} /\ cl[p].cmd \in Payloads
  BY <1>1 DEF ClientStates
<1>5. CASE ConnectOffer(p)
  <2>1. Head(answers[p]).sid \in Sids \cup {0}
    BY <1>5, AnswerTypes DEF ConnectOffer, Datagrams
  <2>2. [cl[p] EXCEPT !.sid = Head(answers[p]).sid, !.stage = 2, !.retries = 0] \in ClientStates
    <3>1. 0 \in 0..MaxRetries
      BY BoundsAssumption
    <3>2. ASSUME NEW sid \in Sids \cup {0}
          PROVE  [cl[p] EXCEPT !.sid = sid, !.stage = 2, !.retries = 0] \in ClientStates
      BY <1>1, <3>1 DEF ClientStates
    <3> QED
      BY <2>1, <3>2
  <2>3. wire' \in [Peers -> Seq(Datagrams(ToListener \cup ToClient))]
    BY <1>2, <1>3, <1>5, <2>1, ClientSends, BlankIsPayload DEF ConnectOffer
  <2> QED
    BY <1>5, <2>2, <2>3, AnswerTypes DEF ConnectOffer, TypeOK
<1>6. CASE ConnectFinished(p)
  BY <1>6, AnswerTypes DEF ConnectFinished, Goto, ClientPcs, TypeOK
<1>7. CASE ClientRepeat(p)
  <2>1. wire' \in [Peers -> Seq(Datagrams(ToListener \cup ToClient))]
    BY <1>2, <1>3, <1>4, <1>7, ClientSends, BlankIsPayload DEF ClientRepeat
  <2> QED
    BY <1>7, <2>1, AnswerTypes DEF ClientRepeat, TypeOK
<1>8. CASE ClientDrop(p)
  BY <1>8, AnswerTypes DEF ClientDrop, TypeOK
<1>9. CASE ConnectRetry(p)
  <2> DEFINE kind == IF cl[p].stage = 1 THEN "hello" ELSE "finish"
  <2>1. [cl[p] EXCEPT !.retries = cl[p].retries + 1] \in ClientStates
    BY <1>1, <1>9, BoundsAssumption DEF ConnectRetry, ClientStates
  <2>2. kind \in ToListener
    BY <1>2
  <2>3. Send(p, Flight(kind, cl[p].port, cl[p].sid)) /\ pc[p] = "connect"
    BY <1>9 DEF ConnectRetry, TimerFires
  <2>4. wire' \in [Peers -> Seq(Datagrams(ToListener \cup ToClient))]
    BY <1>3, <1>4, <2>2, <2>3, ClientSends, BlankIsPayload
  <2> QED
    BY <1>9, <2>1, <2>4 DEF ConnectRetry, TypeOK
<1>10. CASE ConnectGiveUp(p)
  BY <1>10, EndSessionTypes DEF ConnectGiveUp, TypeOK
<1>11. CASE Write(p)
  <2>1. wire' \in [Peers -> Seq(Datagrams(ToListener \cup ToClient))]
    BY <1>2, <1>3, <1>4, <1>11, ClientSends DEF Write
  <2> QED
    BY <1>11, <2>1 DEF Write, Goto, ClientPcs, TypeOK
<1>12. CASE Await(p)
  <2>1. inv[p] \in Int /\ Head(answers[p]).body \in Payloads
    BY <1>12, AnswerTypes DEF Await, Datagrams, TypeOK
  <2>2. AnsweredInventory(inv[p], Head(answers[p]).body) \in Int
    BY <2>1, AnsweredGrows
  <2> QED
    BY <1>12, <2>2, AnswerTypes DEF Await, Goto, ClientPcs, FinalPcs, TypeOK
<1>13. CASE Bye(p)
  <2>1. wire' \in [Peers -> Seq(Datagrams(ToListener \cup ToClient))]
    BY <1>2, <1>3, <1>4, <1>13, ClientSends, BlankIsPayload DEF Bye
  <2> QED
    BY <1>13, <2>1, EndSessionTypes DEF Bye, TypeOK
<1> QED
  BY <1>5, <1>6, <1>7, <1>8, <1>9, <1>10, <1>11, <1>12, <1>13 DEF Client

LEMMA TypeSignal ==
  ASSUME TypeOK, NEW p \in Peers, Signal(p)
  PROVE  TypeOK'
<1>1. signals' \in [Peers -> 0..MaxSignals]
  BY BoundsAssumption DEF Signal, TypeOK
<1>2. CASE UNCHANGED <<pc, answers>>
  BY <1>1, <1>2 DEF Signal, TypeOK
<1>3. CASE Goto(p, "loop") /\ UNCHANGED answers
  BY <1>1, <1>3 DEF Signal, Goto, TypeOK
<1>4. CASE EndSession(p)
  BY <1>1, <1>4, EndSessionTypes DEF Signal, TypeOK
<1> QED
  BY <1>2, <1>3, <1>4 DEF Signal

LEMMA TypeArrive ==
  ASSUME TypeOK, NEW p \in Peers, NEW d \in Datagrams(ToListener \cup ToClient), Arrive(p, d)
  PROVE  /\ queue' \in [Peers -> Seq(Datagrams(ToListener))]
         /\ answers' \in [Peers -> Seq(Datagrams(ToClient))]
<1> DEFINE q == Other(p)
<1>1. q \in Peers
  BY OtherIsPeer
<1>2. d.kind \in ToListener => d \in Datagrams(ToListener)
  BY DEF Datagrams
<1>3. d.kind \in ToClient => d \in Datagrams(ToClient)
  BY DEF Datagrams
<1> QED
  BY <1>1, <1>2, <1>3, AppendTypes DEF Arrive, TypeOK

LEMMA TypeNetwork ==
  ASSUME TypeOK, NEW p \in Peers, Network(p)
  PROVE  TypeOK'
<1> DEFINE D == Datagrams(ToListener \cup ToClient)
<1>1. wire[p] # <<>> => Head(wire[p]) \in D /\ Tail(wire[p]) \in Seq(D)
  <2>1. wire[p] \in Seq(D)
    BY DEF TypeOK
  <2> QED
    BY <2>1
<1>2. ASSUME wire[p] # <<>>, wire' = [wire EXCEPT ![p] = Tail(@)]
      PROVE  wire' \in [Peers -> Seq(D)]
  BY <1>1, <1>2 DEF TypeOK
<1>3. CASE Deliver(p)
  BY <1>1, <1>2, <1>3, TypeArrive DEF Deliver, Arrive, TypeOK
<1>4. CASE DeliverLate(p)
  <2>1. PICK d \in late[p] : Arrive(p, d) /\ late' = [late EXCEPT ![p] = @ \ {d}]
    BY <1>4 DEF DeliverLate
  <2>2. d \in D
    BY DEF TypeOK
  <2> QED
    BY <1>4, <2>1, <2>2, TypeArrive DEF DeliverLate, Arrive, TypeOK
<1>5. ASSUME NEW kind, Fault(kind)
      PROVE  faults' \in 0..MaxFaults /\ UNCHANGED <<procVars, signals>>
  BY <1>5, BoundsAssumption DEF Fault, TypeOK
<1>6. CASE Lose(p)
  BY <1>2, <1>5, <1>6 DEF Lose, procVars, TypeOK
<1>7. CASE Duplicate(p)
  BY <1>1, <1>5, <1>7 DEF Duplicate, procVars, TypeOK
<1>8. CASE Delay(p)
  BY <1>1, <1>2, <1>5, <1>8 DEF Delay, procVars, TypeOK
<1> QED
  BY <1>3, <1>4, <1>6, <1>7, <1>8 DEF Network

-----------------------------------------------------------------------------
(* Connected is inductive: a session that goes on keeps its port.          *)

\* An update of the session p serves, other than main's, keeps the port.
LEMMA SamePort ==
  ASSUME TypeOK, NEW p \in Peers, NEW r, r.port = srv[p].port, srv' = [srv EXCEPT ![p] = r]
  PROVE  \A q \in Peers : srv'[q].port = srv[q].port
BY DEF TypeOK

\* A step of p that keeps the ports, and starts no session, keeps Connected.
LEMMA ConnectedStep ==
  ASSUME TypeOK, Connected, NEW p \in Peers, NEW label, pc' = [pc EXCEPT ![p] = label],
         \A q \in Peers : srv'[q].port = srv[q].port,
         \A q \in Peers : cl'[q].port = cl[q].port,
         label \in Serving => pc[p] \in Serving,
         label \in ClientPcs => pc[p] \in ClientPcs
  PROVE  Connected'
BY DEF Connected, TypeOK

\* The same for a step that does not move pc.
LEMMA ConnectedStay ==
  ASSUME Connected, UNCHANGED pc,
         \A q \in Peers : srv'[q].port = srv[q].port,
         \A q \in Peers : cl'[q].port = cl[q].port
  PROVE  Connected'
BY DEF Connected

LEMMA ConnectedMain ==
  ASSUME TypeOK, Connected, NEW p \in Peers, Main(p) \/ User(p)
  PROVE  Connected'
<1> USE DEF Serving, ServerPcs, ClientPcs, FinalPcs, Goto, TypeOK
<1>1. ASSUME NEW cmd, NEW refill, BeginSession(p, cmd, refill), UNCHANGED srv \/ FreshSocket(p)
      PROVE  Connected'
  <2>1. cl[p] \in ClientStates
    OBVIOUS
  <2>2. cl[p].port + 1 # 0
    BY <2>1 DEF ClientStates, Ports
  <2> QED
    BY <1>1, <2>2 DEF BeginSession, FreshSocket, Connected
<1>2. CASE Halt(p) \/ OpenAndSelect(p)
  BY <1>2 DEF Halt, OpenAndSelect, FreshSocket, Connected
<1>3. CASE OpenAndRefill(p)
  BY <1>1, <1>3 DEF OpenAndRefill
<1>4. CASE Peek(p)
  <2>1. CASE cleanup[p]
    BY <1>4, <2>1 DEF Peek, Connected
  <2>2. CASE ~cleanup[p]
    <3>1. Head(queue[p]) \in Datagrams(ToListener)
      BY <1>4, QueueTypes DEF Peek
    <3>2. Head(queue[p]).port # 0
      BY <3>1 DEF Datagrams, Ports
    <3>3. srv[p] \in ServerStates
      OBVIOUS
    <3>4. PICK ready : srv' = [srv EXCEPT ![p] =
                        [@ EXCEPT !.port = Head(queue[p]).port, !.sid = srv[p].sid + 1,
                                  !.stage = 0, !.stdin = ready]]
      BY <1>4, <2>2 DEF Peek
    <3>5. srv'[p].port = Head(queue[p]).port
      BY <3>3, <3>4 DEF ServerStates
    <3>6. \A q \in Peers \ {p} : srv'[q] = srv[q]
      BY <3>4
    <3>7. pc' = [pc EXCEPT ![p] = "accept"] /\ UNCHANGED cl
      BY <1>4, <2>2 DEF Peek
    <3> QED
      BY <3>2, <3>5, <3>6, <3>7 DEF Connected
  <2> QED
    BY <2>1, <2>2
<1>5. CASE ReadStdin(p) \/ ShellIdle(p) \/ ShellExit(p)
  BY <1>5 DEF ReadStdin, ShellIdle, ShellExit, Connected
<1>6. CASE ShellSend(p) \/ ShellAsk(p)
  BY <1>1, <1>6 DEF ShellSend, ShellAsk
<1> QED
  BY <1>2, <1>3, <1>4, <1>5, <1>6 DEF Main, User

LEMMA ConnectedAccept ==
  ASSUME TypeOK, Connected, NEW p \in Peers, Accept(p)
  PROVE  Connected'
<1> USE DEF Serving, ServerPcs, ClientPcs
<1>1. CASE AcceptHello(p)
  <2>1. srv[p] \in ServerStates
    BY DEF TypeOK
  <2>2. \A q \in Peers : srv'[q].port = srv[q].port
    BY <1>1, <2>1, SamePort DEF AcceptHello, ServerStates
  <2> QED
    BY <1>1, <2>2, ConnectedStay DEF AcceptHello
<1>2. CASE AcceptRepeat(p) \/ AcceptDrop(p)
  BY <1>2, ConnectedStay DEF AcceptRepeat, AcceptDrop
<1>3. CASE AcceptFinish(p)
  BY <1>3, ConnectedStep DEF AcceptFinish, Goto
<1>4. CASE AcceptFatal(p)
  BY <1>4, ConnectedStep DEF AcceptFatal, AcceptFails, Goto
<1>5. CASE AcceptWouldBlock(p)
  BY <1>5, ConnectedStep DEF AcceptWouldBlock, AcceptFails, Goto
<1>6. CASE AcceptWake(p)
  BY <1>6, ConnectedStep DEF AcceptWake, Goto
<1> QED
  BY <1>1, <1>2, <1>3, <1>4, <1>5, <1>6 DEF Accept

LEMMA ConnectedRespond ==
  ASSUME TypeOK, Connected, NEW p \in Peers, Respond(p)
  PROVE  Connected'
<1> USE DEF Serving, ServerPcs, ClientPcs
<1>1. srv[p] \in ServerStates
  BY DEF TypeOK
<1>2. CASE FirstRead(p)
  <2>1. \A q \in Peers : srv'[q].port = srv[q].port
    BY <1>1, <1>2, SamePort DEF FirstRead, ServerStates
  <2> QED
    BY <1>2, <2>1, ConnectedStep DEF FirstRead, Goto
<1>3. CASE ReadClose(p)
  <2>1. \A q \in Peers : srv'[q].port = srv[q].port
    BY <1>1, <1>3, SamePort DEF ReadClose, ServerStates
  <2> QED
    BY <1>3, <2>1, ConnectedStep DEF ReadClose, Reading, Goto
<1>4. CASE ReadRepeat(p)
  BY <1>4, ConnectedStay, ConnectedStep DEF ReadRepeat, Reading, Goto
<1>5. ASSUME NEW req, Serve(p, req), pc[p] \in Serving, UNCHANGED cl
      PROVE  Connected'
  <2>1. \A q \in Peers : srv'[q].port = srv[q].port
    BY <1>1, <1>5, SamePort DEF Serve, ServerStates
  <2> QED
    BY <1>5, <2>1, ConnectedStep DEF Serve, Goto
<1>6. CASE React(p) \/ ReadAndReact(p)
  BY <1>5, <1>6 DEF React, ReadAndReact
<1>7. CASE CheckInterrupted(p)
  <2>1. CASE UNCHANGED srv
    BY <1>7, <2>1, <1>5, ConnectedStep DEF CheckInterrupted, Goto
  <2>2. CASE Serve(p, srv[p].req)
    BY <1>7, <2>2, <1>5 DEF CheckInterrupted
  <2> QED
    BY <1>7, <2>1, <2>2 DEF CheckInterrupted
<1>8. CASE Reply(p)
  BY <1>8, ConnectedStep DEF Reply, Goto
<1>9. CASE Drain(p)
  <2>1. \A q \in Peers : srv'[q].port = srv[q].port
    BY <1>1, <1>9, SamePort DEF Drain, ServerStates
  <2> QED
    BY <1>9, <2>1, ConnectedStep DEF Drain, Goto
<1> QED
  BY <1>2, <1>3, <1>4, <1>6, <1>7, <1>8, <1>9 DEF Respond

LEMMA ConnectedClient ==
  ASSUME TypeOK, Connected, NEW p \in Peers, Client(p)
  PROVE  Connected'
<1> USE DEF Serving, ServerPcs, ClientPcs
<1>1. cl[p] \in ClientStates
  BY DEF TypeOK
<1>2. ASSUME NEW r, r.port = cl[p].port, cl' = [cl EXCEPT ![p] = r]
      PROVE  \A q \in Peers : cl'[q].port = cl[q].port
  BY <1>2 DEF TypeOK
<1>3. CASE ConnectOffer(p)
  <2>1. \A q \in Peers : cl'[q].port = cl[q].port
    BY <1>1, <1>2, <1>3 DEF ConnectOffer, ClientStates
  <2> QED
    BY <1>3, <2>1, ConnectedStay DEF ConnectOffer
<1>4. CASE ConnectRetry(p)
  <2>1. \A q \in Peers : cl'[q].port = cl[q].port
    BY <1>1, <1>2, <1>4 DEF ConnectRetry, ClientStates
  <2> QED
    BY <1>4, <2>1, ConnectedStay DEF ConnectRetry
<1>5. CASE ClientRepeat(p) \/ ClientDrop(p)
  BY <1>5, ConnectedStay DEF ClientRepeat, ClientDrop
<1>6. CASE ConnectFinished(p)
  BY <1>6, ConnectedStep DEF ConnectFinished, Goto
<1>7. CASE ConnectGiveUp(p) \/ Bye(p)
  BY <1>7, ConnectedStep DEF ConnectGiveUp, Bye, EndSession, Goto
<1>8. CASE Write(p)
  BY <1>8, ConnectedStep DEF Write, Goto
<1>9. CASE Await(p)
  BY <1>9, ConnectedStep DEF Await, Goto
<1> QED
  BY <1>3, <1>4, <1>5, <1>6, <1>7, <1>8, <1>9 DEF Client

LEMMA ConnectedEnvironment ==
  ASSUME TypeOK, Connected, NEW p \in Peers, Signal(p) \/ Network(p)
  PROVE  Connected'
<1> USE DEF Serving, ServerPcs, ClientPcs, Goto, TypeOK, Connected
<1>1. CASE Signal(p)
  BY <1>1 DEF Signal, EndSession
<1>2. CASE Network(p)
  <2>1. UNCHANGED <<pc, srv, cl>>
    BY <1>2 DEF Network, Deliver, DeliverLate, Arrive, Lose, Duplicate, Delay, Fault, procVars
  <2> QED
    BY <2>1
<1> QED
  BY <1>1, <1>2

-----------------------------------------------------------------------------
(* What every step may assume, and the first theorem.                      *)

IInv == TypeOK /\ Connected

LEMMA InitIInv == Init => IInv
BY TypeInit DEF Init, IInv, Connected, Serving, ServerPcs, ClientPcs

LEMMA NextIInv == IInv /\ [Next]_vars => IInv'
<1> SUFFICES ASSUME IInv, [Next]_vars PROVE IInv'
  OBVIOUS
<1>1. CASE UNCHANGED vars
  BY <1>1 DEF IInv, TypeOK, Connected, vars, procVars, env
<1>2. ASSUME NEW p \in Peers, Main(p) \/ User(p)
      PROVE  IInv'
  BY <1>2, TypeMain, TypeUser, ConnectedMain DEF IInv
<1>3. ASSUME NEW p \in Peers, Accept(p) \/ Respond(p)
      PROVE  IInv'
  BY <1>3, TypeAccept, TypeRespond, ConnectedAccept, ConnectedRespond DEF IInv
<1>4. ASSUME NEW p \in Peers, Client(p)
      PROVE  IInv'
  BY <1>4, TypeClient, ConnectedClient DEF IInv
<1>5. ASSUME NEW p \in Peers, Signal(p) \/ Network(p)
      PROVE  IInv'
  BY <1>5, TypeSignal, TypeNetwork, ConnectedEnvironment DEF IInv
<1> QED
  BY <1>1, <1>2, <1>3, <1>4, <1>5 DEF Next

\* Whatever the users type, the network does and SIGINT interrupts, every variable
\* keeps its type: no negative number of items is ever sent, no session outlives
\* its retransmissions, and a socket only holds datagrams meant for it.
THEOREM TypeCorrect == Spec => []TypeOK
<1>1. IInv => TypeOK
  BY DEF IInv
<1> QED
  BY <1>1, InitIInv, NextIInv, PTL DEF Spec

-----------------------------------------------------------------------------
(* The stock tests.                                                        *)

\* One step overdraws an inventory only by serving a REFILL.
Overdraws(p) == inv'[p] < inv[p] /\ inv'[p] < 0
OverdrawnByRefill(p) == pc[p] = "check" /\ srv'[p].req.op = "REFILL"

\* A step that changes no inventory overdraws none.
LEMMA StockKept ==
  ASSUME TypeOK, UNCHANGED inv, NEW q \in Peers
  PROVE  ~Overdraws(q)
<1>1. inv[q] \in Int
  BY DEF TypeOK
<1> QED
  BY <1>1 DEF Overdraws

\* Serving a request overdraws the inventory of the server only, and by a REFILL.
LEMMA StockServed ==
  ASSUME TypeOK, NEW p \in Peers, NEW req \in Payloads, Serve(p, req), pc[p] = "check",
         NEW q \in Peers, Overdraws(q)
  PROVE  OverdrawnByRefill(q)
<1>1. inv[p] \in Int /\ inv[q] \in Int /\ srv[p] \in ServerStates
  BY DEF TypeOK
<1>2. inv' = [inv EXCEPT ![p] = ServedInventory(inv[p], req)]
  BY DEF Serve
<1>3. q = p
  BY <1>1, <1>2 DEF Overdraws, TypeOK
<1>4. inv'[p] = ServedInventory(inv[p], req)
  BY <1>2 DEF TypeOK
<1>5. req.op = "REFILL"
  BY <1>1, <1>3, <1>4, ServedOverdraft DEF Overdraws
<1>6. srv'[p].req = req
  BY <1>1 DEF Serve, ServerStates, TypeOK
<1> QED
  BY <1>3, <1>5, <1>6 DEF OverdrawnByRefill

LEMMA StockStep ==
  ASSUME TypeOK, Next, NEW q \in Peers, Overdraws(q)
  PROVE  OverdrawnByRefill(q)
<1>1. PICK p \in Peers : Main(p) \/ User(p) \/ Accept(p) \/ Respond(p) \/ Client(p)
                         \/ Signal(p) \/ Network(p)
  BY DEF Next
<1>2. CASE Main(p) \/ Accept(p) \/ Signal(p)
  <2>1. UNCHANGED inv
    BY <1>2 DEF Main, Halt, OpenAndSelect, OpenAndRefill, Peek, Accept, AcceptHello,
       AcceptRepeat, AcceptFinish, AcceptFatal, AcceptDrop, AcceptWouldBlock, AcceptWake,
       Signal
  <2> QED
    BY <2>1, StockKept
<1>3. CASE Network(p)
  <2>1. UNCHANGED inv
    BY <1>3 DEF Network, Deliver, DeliverLate, Arrive, Lose, Duplicate, Delay, Fault, procVars
  <2> QED
    BY <2>1, StockKept
<1>4. CASE ShellSend(p)
  <2>1. PICK c \in Script[p] : c.n <= inv[p] /\ inv' = [inv EXCEPT ![p] = @ - c.n]
    BY <1>4 DEF ShellSend
  <2>2. c.n \in Nat
    BY ScriptAssumption
  <2>3. inv[p] \in Int /\ inv[q] \in Int
    BY DEF TypeOK
  <2>4. CASE q = p
    BY <2>1, <2>2, <2>3, <2>4 DEF Overdraws, TypeOK
  <2>5. CASE q # p
    BY <2>1, <2>3, <2>5 DEF Overdraws, TypeOK
  <2> QED
    BY <2>4, <2>5
<1>5. CASE User(p) /\ ~ShellSend(p)
  <2>1. UNCHANGED inv
    BY <1>5 DEF User, ReadStdin, ShellIdle, ShellExit, ShellAsk
  <2> QED
    BY <2>1, StockKept
<1>6. CASE Respond(p)
  <2>1. srv[p].req \in Payloads
    <3>1. srv[p] \in ServerStates
      BY DEF TypeOK
    <3> QED
      BY <3>1 DEF ServerStates
  <2>2. CASE UNCHANGED inv
    BY <2>2, StockKept
  <2>3. CASE React(p)
    BY <2>1, <2>3, StockServed DEF React
  <2>4. CASE ReadAndReact(p)
    <3>1. Head(queue[p]) \in Datagrams(ToListener)
      BY <2>4, QueueTypes DEF ReadAndReact
    <3>2. Head(queue[p]).body \in Payloads
      BY <3>1 DEF Datagrams
    <3> QED
      BY <2>4, <3>2, StockServed DEF ReadAndReact
  <2>5. CASE CheckInterrupted(p) /\ ~UNCHANGED inv
    BY <2>1, <2>5, StockServed DEF CheckInterrupted
  <2> QED
    BY <1>6, <2>2, <2>3, <2>4, <2>5 DEF Respond, FirstRead, ReadClose, ReadRepeat, Reply, Drain
<1>7. CASE Client(p) /\ ~Await(p)
  <2>1. UNCHANGED inv
    BY <1>7 DEF Client, ConnectOffer, ConnectFinished, ClientRepeat, ClientDrop, ConnectRetry,
       ConnectGiveUp, Write, Bye
  <2> QED
    BY <2>1, StockKept
<1>8. CASE Await(p)
  <2>1. CASE UNCHANGED inv
    BY <2>1, StockKept
  <2>2. CASE inv' = [inv EXCEPT ![p] = AnsweredInventory(@, Head(answers[p]).body)]
    <3>1. Head(answers[p]) \in Datagrams(ToClient)
      BY <1>8, AnswerTypes DEF Await
    <3>2. Head(answers[p]).body \in Payloads
      BY <3>1 DEF Datagrams
    <3>3. inv[p] \in Int /\ inv[q] \in Int
      BY DEF TypeOK
    <3>4. AnsweredInventory(inv[p], Head(answers[p]).body) \in Int
          /\ AnsweredInventory(inv[p], Head(answers[p]).body) >= inv[p]
      BY <3>2, <3>3, AnsweredGrows
    <3>5. ~Overdraws(q)
      BY <2>2, <3>3, <3>4 DEF Overdraws, TypeOK
    <3> QED
      BY <3>5
  <2> QED
    BY <1>8, <2>1, <2>2 DEF Await
<1> QED
  BY <1>1, <1>2, <1>3, <1>4, <1>5, <1>6, <1>7, <1>8

\* The tests of shell_SEND and of a served REQUEST hold whatever the messages, the
\* users and the network do: an inventory falls below zero only where decrypt_react
\* serves a REFILL, which it does without a look at the stock.
THEOREM OverdraftOnlyByRefill == Spec => OnlyRefillOverdraws
<1>1. IInv /\ [Next]_vars =>
        [\A p \in Peers : inv'[p] < inv[p] /\ inv'[p] < 0 =>
            pc[p] = "check" /\ srv'[p].req.op = "REFILL"]_vars
  BY StockStep DEF IInv, Overdraws, OverdrawnByRefill
<1> QED
  BY <1>1, InitIInv, NextIInv, PTL DEF Spec, OnlyRefillOverdraws
=============================================================================
