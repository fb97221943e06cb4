--------------------------- MODULE SimpleUDP_calm ---------------------------
(* Without SIGINT, and with send_reply_buffer initialised, no daemon dies: *)
(* no message that does not decrypt is ever sent, and no message is zeroed *)
(* between its read and its decryption.                                    *)
EXTENDS SimpleUDP_proofs

\* A request or an answer carries a command.
Speaks(d) == d.kind \in {"request", "reply"} => d.body.op # "BLANK"
Said(s) == \A i \in 1..Len(s) : Speaks(s[i])

\* Every message on its way carries a command.
Channels ==
  \A p \in Peers :
    /\ Said(wire[p]) /\ Said(queue[p]) /\ Said(answers[p])
    /\ \A d \in late[p] : Speaks(d)

\* So does what p is about to decrypt, to answer and to ask.
Buffers ==
  \A p \in Peers :
    /\ pc[p] = "check" /\ srv[p].got = "data" => srv[p].req.op # "BLANK"
    /\ srv[p].ptr # "wild"
    /\ srv[p].ptr = "heap" => srv[p].buf.op # "BLANK"
    /\ pc[p] \in ClientPcs => cl[p].cmd.op # "BLANK"

\* The flag is clear from the end of the handshake to the test that follows the read.
Calm ==
  \A p \in Peers :
    /\ pc[p] \in {"read", "check"} => ~cleanup[p]
    /\ pc[p] # "crashed"

CInv == IInv /\ Channels /\ Buffers /\ Calm

-----------------------------------------------------------------------------
(* Sequences of datagrams.                                                 *)

LEMMA SaidAppend ==
  ASSUME NEW S, NEW s \in Seq(S), Said(s), NEW d, Speaks(d)
  PROVE  Said(Append(s, d))
BY DEF Said

LEMMA SaidTail ==
  ASSUME NEW S, NEW s \in Seq(S), Said(s), s # <<>>
  PROVE  Speaks(Head(s)) /\ Said(Tail(s))
BY DEF Said

LEMMA SaidEmpty == Said(<<>>)
BY DEF Said

LEMMA FlightSpeaks ==
  ASSUME NEW kind, kind \notin {"request", "reply"}, NEW port, NEW sid
  PROVE  Speaks(Flight(kind, port, sid))
BY DEF Speaks, Flight, Dgram

LEMMA MessageSpeaks ==
  ASSUME NEW kind, NEW port, NEW sid, NEW body, body.op # "BLANK"
  PROVE  Speaks(Dgram(kind, port, sid, body))
BY DEF Speaks, Dgram

LEMMA SaidSend ==
  ASSUME TypeOK, Channels, NEW p \in Peers, NEW d, Speaks(d), Send(p, d)
  PROVE  \A q \in Peers : Said(wire'[q])
<1>1. wire[p] \in Seq(Datagrams(ToListener \cup ToClient))
  BY DEF TypeOK
<1>2. Said(Append(wire[p], d))
  BY <1>1, SaidAppend DEF Channels
<1> QED
  BY <1>2 DEF Send, Channels, TypeOK

LEMMA SaidPop ==
  ASSUME TypeOK, Channels, NEW p \in Peers, queue[p] # <<>>
  PROVE  /\ Speaks(Head(queue[p]))
         /\ Pop(p) => \A q \in Peers : Said(queue'[q])
<1>1. queue[p] \in Seq(Datagrams(ToListener))
  BY DEF TypeOK
<1>2. Speaks(Head(queue[p])) /\ Said(Tail(queue[p]))
  BY <1>1, SaidTail DEF Channels
<1> QED
  BY <1>2 DEF Pop, Channels, TypeOK

LEMMA SaidPopAnswer ==
  ASSUME TypeOK, Channels, NEW p \in Peers, answers[p] # <<>>
  PROVE  /\ Speaks(Head(answers[p]))
         /\ PopAnswer(p) => \A q \in Peers : Said(answers'[q])
<1>1. answers[p] \in Seq(Datagrams(ToClient))
  BY DEF TypeOK
<1>2. Speaks(Head(answers[p])) /\ Said(Tail(answers[p]))
  BY <1>1, SaidTail DEF Channels
<1> QED
  BY <1>2 DEF PopAnswer, Channels, TypeOK

\* A socket that is closed forgets what it held.
LEMMA SaidClosed ==
  ASSUME TypeOK, Channels, NEW p \in Peers
  PROVE  /\ CloseListener(p) => \A q \in Peers : Said(queue'[q])
         /\ EndSession(p) => \A q \in Peers : Said(answers'[q])
BY SaidEmpty DEF CloseListener, EndSession, Channels, TypeOK

-----------------------------------------------------------------------------
(* Channels.                                                               *)

LEMMA ChannelsMain ==
  ASSUME CInv, NEW p \in Peers, Main(p) \/ User(p)
  PROVE  Channels'
<1> USE DEF CInv, IInv, env
<1>1. ASSUME NEW cmd, NEW refill, BeginSession(p, cmd, refill)
      PROVE  \A q \in Peers : Said(wire'[q])
  BY <1>1, FlightSpeaks, SaidSend DEF BeginSession
<1>2. FreshSocket(p) => \A q \in Peers : Said(queue'[q])
  BY SaidClosed DEF FreshSocket, CloseListener
<1>3. CASE Halt(p) \/ Peek(p) \/ ShellIdle(p) \/ ShellExit(p)
  BY <1>3 DEF Halt, Peek, ShellIdle, ShellExit, Channels
<1>4. CASE OpenAndSelect(p)
  BY <1>2, <1>4 DEF OpenAndSelect, Channels
<1>5. CASE OpenAndRefill(p)
  BY <1>1, <1>2, <1>5 DEF OpenAndRefill, Channels
<1>6. CASE ReadStdin(p)
  BY <1>6, SaidClosed DEF ReadStdin, Channels
<1>7. CASE ShellSend(p) \/ ShellAsk(p)
  <2>1. \A q \in Peers : Said(wire'[q])
    BY <1>1, <1>7 DEF ShellSend, ShellAsk
  <2> QED
    BY <1>7, <2>1 DEF ShellSend, ShellAsk, Channels
<1> QED
  BY <1>3, <1>4, <1>5, <1>6, <1>7 DEF Main, User

LEMMA ChannelsServer ==
  ASSUME CInv, NEW p \in Peers, Accept(p) \/ Respond(p)
  PROVE  Channels'
<1> USE DEF CInv, IInv, env
<1>1. \A kind \in {"offer", "finished"} : \A port, sid :
         Send(p, Flight(kind, port, sid)) => \A q \in Peers : Said(wire'[q])
  BY FlightSpeaks, SaidSend
<1>2. CASE AcceptHello(p)
  BY <1>1, <1>2, SaidPop DEF AcceptHello, Channels
<1>3. CASE AcceptRepeat(p)
  BY <1>1, <1>3, SaidPop DEF AcceptRepeat, Channels
<1>4. CASE AcceptFinish(p)
  BY <1>1, <1>4, SaidPop DEF AcceptFinish, Channels
<1>5. CASE AcceptFatal(p) \/ AcceptDrop(p)
  BY <1>5, SaidPop DEF AcceptFatal, AcceptDrop, Channels
<1>6. CASE AcceptWouldBlock(p) \/ AcceptWake(p)
  BY <1>6 DEF AcceptWouldBlock, AcceptWake, Channels
<1>7. CASE FirstRead(p)
  BY <1>7, SaidPop DEF FirstRead, Channels
<1>8. CASE ReadClose(p) \/ ReadAndReact(p)
  BY <1>8, SaidPop DEF ReadClose, ReadAndReact, Channels
<1>9. CASE ReadRepeat(p)
  BY <1>1, <1>9, SaidPop DEF ReadRepeat, Channels
<1>10. CASE React(p) \/ CheckInterrupted(p)
  BY <1>10 DEF React, CheckInterrupted, Channels
<1>11. CASE Reply(p)
  <2>1. CASE UNCHANGED wire
    BY <1>11, <2>1 DEF Reply, Channels
  <2>2. CASE srv[p].ptr # "null" /\ Send(p, Dgram("reply", srv[p].port, srv[p].sid, srv[p].buf))
    <3>1. srv[p] \in ServerStates
      BY DEF TypeOK
    <3>2. srv[p].buf.op # "BLANK"
      BY <2>2, <3>1 DEF Buffers, ServerStates
    <3>3. \A q \in Peers : Said(wire'[q])
      BY <2>2, <3>2, MessageSpeaks, SaidSend
    <3> QED
      BY <1>11, <3>3 DEF Reply, Channels
  <2> QED
    BY <1>11, <2>1, <2>2 DEF Reply
<1>12. CASE Drain(p)
  BY <1>12, SaidClosed DEF Drain, Channels
<1> QED
  BY <1>2, <1>3, <1>4, <1>5, <1>6, <1>7, <1>8, <1>9, <1>10, <1>11, <1>12 DEF Accept, Respond

LEMMA ChannelsClient ==
  ASSUME CInv, NEW p \in Peers, Client(p)
  PROVE  Channels'
<1> USE DEF CInv, IInv, env
<1>1. \A kind \in {"hello", "finish", "close"} : \A port, sid :
         Send(p, Flight(kind, port, sid)) => \A q \in Peers : Said(wire'[q])
  BY FlightSpeaks, SaidSend
<1>2. CASE ConnectOffer(p)
  BY <1>1, <1>2, SaidPopAnswer DEF ConnectOffer, Channels
<1>3. CASE ConnectFinished(p) \/ ClientDrop(p)
  BY <1>3, SaidPopAnswer DEF ConnectFinished, ClientDrop, Channels
<1>4. CASE ClientRepeat(p)
  BY <1>1, <1>4, SaidPopAnswer DEF ClientRepeat, Channels
<1>5. CASE ConnectRetry(p)
  BY <1>1, <1>5 DEF ConnectRetry, Channels
<1>6. CASE ConnectGiveUp(p)
  BY <1>6, SaidClosed DEF ConnectGiveUp, Channels
<1>7. CASE Write(p)
  <2>1. cl[p].cmd.op # "BLANK"
    BY <1>7 DEF Write, Buffers, ClientPcs
  <2>2. \A q \in Peers : Said(wire'[q])
    BY <1>7, <2>1, MessageSpeaks, SaidSend DEF Write
  <2> QED
    BY <1>7, <2>2 DEF Write, Channels
<1>8. CASE Await(p)
  BY <1>8, SaidPopAnswer DEF Await, Channels
<1>9. CASE Bye(p)
  BY <1>1, <1>9, SaidClosed DEF Bye, Channels
<1> QED
  BY <1>2, <1>3, <1>4, <1>5, <1>6, <1>7, <1>8, <1>9 DEF Client

LEMMA ChannelsNetwork ==
  ASSUME CInv, NEW p \in Peers, Network(p)
  PROVE  Channels'
<1> USE DEF CInv, IInv
<1>1. wire[p] # <<>> => Speaks(Head(wire[p])) /\ Said(Tail(wire[p]))
  <2>1. wire[p] \in Seq(Datagrams(ToListener \cup ToClient))
    BY DEF TypeOK
  <2> QED
    BY <2>1, SaidTail DEF Channels
<1>2. ASSUME wire[p] # <<>>, wire' = [wire EXCEPT ![p] = Tail(@)]
      PROVE  \A q \in Peers : Said(wire'[q])
  BY <1>1, <1>2 DEF Channels, TypeOK
<1>3. ASSUME NEW d, Speaks(d), Arrive(p, d)
      PROVE  \A q \in Peers : Said(queue'[q]) /\ Said(answers'[q])
  <2> DEFINE r == Other(p)
  <2>1. r \in Peers
    BY OtherIsPeer
  <2>2. queue[r] \in Seq(Datagrams(ToListener)) /\ answers[r] \in Seq(Datagrams(ToClient))
    BY <2>1 DEF TypeOK
  <2>3. Said(Append(queue[r], d)) /\ Said(Append(answers[r], d))
    BY <1>3, <2>1, <2>2, SaidAppend DEF Channels
  <2>4. \A q \in Peers : Said(queue'[q])
    BY <1>3, <2>3 DEF Arrive, Channels, TypeOK
  <2>5. \A q \in Peers : Said(answers'[q])
    BY <1>3, <2>3 DEF Arrive, Channels, TypeOK
  <2> QED
    BY <2>4, <2>5
<1>4. CASE Deliver(p)
  BY <1>1, <1>2, <1>3, <1>4 DEF Deliver, Channels
<1>5. CASE DeliverLate(p)
  <2>1. PICK d \in late[p] : Arrive(p, d) /\ late' = [late EXCEPT ![p] = @ \ {d}]
    BY <1>5 DEF DeliverLate
  <2>2. \A q \in Peers : \A e \in late'[q] : Speaks(e)
    BY <2>1 DEF Channels, TypeOK
  <2>3. \A q \in Peers : Said(queue'[q]) /\ Said(answers'[q])
    BY <1>3, <2>1 DEF Channels
  <2> QED
    BY <1>5, <2>2, <2>3 DEF DeliverLate, Channels
<1>6. CASE Lose(p)
  BY <1>2, <1>6 DEF Lose, Fault, procVars, Channels
<1>7. ASSUME wire[p] # <<>>, late' = [late EXCEPT ![p] = @ \cup {Head(wire[p])}]
      PROVE  \A q \in Peers : \A e \in late'[q] : Speaks(e)
  BY <1>1, <1>7 DEF Channels, TypeOK
<1>8. CASE Duplicate(p)
  BY <1>7, <1>8 DEF Duplicate, Fault, procVars, Channels
<1>9. CASE Delay(p)
  BY <1>2, <1>7, <1>9 DEF Delay, Fault, procVars, Channels
<1> QED
  BY <1>4, <1>5, <1>6, <1>8, <1>9 DEF Network

-----------------------------------------------------------------------------
(* Buffers.                                                                *)

\* A step of p that keeps the reply buffers, and the request and command in use.
LEMMA BuffersStep ==
  ASSUME TypeOK, Buffers, NEW p \in Peers, NEW label, pc' = [pc EXCEPT ![p] = label],
         UNCHANGED <<srv, cl>>,
         label # "check", label \in ClientPcs => pc[p] \in ClientPcs
  PROVE  Buffers'
BY DEF Buffers, TypeOK

\* The same for a step that also replaces the session served, or the client's.
LEMMA BuffersSession ==
  ASSUME TypeOK, Buffers, NEW p \in Peers, NEW label, pc' = [pc EXCEPT ![p] = label],
         \A q \in Peers \ {p} : srv'[q] = srv[q] /\ cl'[q] = cl[q],
         label = "check" /\ srv'[p].got = "data" => srv'[p].req.op # "BLANK",
         srv'[p].ptr # "wild",
         srv'[p].ptr = "heap" => srv'[p].buf.op # "BLANK",
         label \in ClientPcs => cl'[p].cmd.op # "BLANK"
  PROVE  Buffers'
BY DEF Buffers, TypeOK

\* A step that keeps p's place and everything Buffers speaks of.
LEMMA BuffersStay ==
  ASSUME TypeOK, Buffers, NEW p \in Peers, UNCHANGED pc,
         \A q \in Peers \ {p} : srv'[q] = srv[q] /\ cl'[q] = cl[q],
         srv'[p].got = srv[p].got, srv'[p].req = srv[p].req, srv'[p].ptr = srv[p].ptr,
         srv'[p].buf = srv[p].buf, cl'[p].cmd = cl[p].cmd
  PROVE  Buffers'
BY DEF Buffers, TypeOK

\* A user or the refill only ever asks with a command.
LEMMA CommandsSpeak ==
  ASSUME NEW p \in Peers, NEW c \in Script[p]
  PROVE  c.op # "BLANK"
BY ScriptAssumption DEF Commands

LEMMA BuffersMain ==
  ASSUME CInv, NEW p \in Peers, Main(p) \/ User(p)
  PROVE  Buffers'
<1> USE DEF CInv, IInv, Goto
<1>1. srv[p] \in ServerStates /\ cl[p] \in ClientStates
  BY DEF TypeOK
<1>2. srv[p].ptr # "wild" /\ (srv[p].ptr = "heap" => srv[p].buf.op # "BLANK")
  BY DEF Buffers
<1>3. FreshSocket(p) => /\ srv'[p].ptr = srv[p].ptr /\ srv'[p].buf = srv[p].buf
                        /\ \A q \in Peers \ {p} : srv'[q] = srv[q]
  BY <1>1 DEF FreshSocket, ServerStates, TypeOK
<1>4. ASSUME NEW cmd, NEW refill, cmd.op # "BLANK", BeginSession(p, cmd, refill),
             UNCHANGED srv \/ FreshSocket(p)
      PROVE  Buffers'
  <2>1. cl'[p].cmd = cmd /\ \A q \in Peers \ {p} : cl'[q] = cl[q]
    BY <1>4 DEF BeginSession, TypeOK
  <2> QED
    BY <1>2, <1>3, <1>4, <2>1, BuffersSession DEF BeginSession
<1>5. CASE Halt(p)
  BY <1>5, BuffersStep DEF Halt, ClientPcs
<1>6. CASE OpenAndSelect(p)
  BY <1>2, <1>3, <1>6, BuffersSession DEF OpenAndSelect, ClientPcs
<1>7. CASE OpenAndRefill(p)
  BY <1>4, <1>7 DEF OpenAndRefill
<1>8. CASE Peek(p)
  <2>1. CASE cleanup[p]
    BY <1>8, <2>1, BuffersStep DEF Peek, ClientPcs
  <2>2. CASE ~cleanup[p]
    <3>1. PICK ready : srv' = [srv EXCEPT ![p] =
                        [@ EXCEPT !.port = Head(queue[p]).port, !.sid = srv[p].sid + 1,
                                  !.stage = 0, !.stdin = ready]]
      BY <1>8, <2>2 DEF Peek
    <3>2. srv'[p].ptr = srv[p].ptr /\ srv'[p].buf = srv[p].buf
      BY <1>1, <3>1 DEF ServerStates, TypeOK
    <3>3. \A q \in Peers \ {p} : srv'[q] = srv[q]
      BY <3>1 DEF TypeOK
    <3>4. pc' = [pc EXCEPT ![p] = "accept"] /\ UNCHANGED cl
      BY <1>8, <2>2 DEF Peek
    <3> QED
      BY <1>2, <3>2, <3>3, <3>4, BuffersSession DEF ClientPcs
  <2> QED
    BY <2>1, <2>2
<1>9. CASE ReadStdin(p) \/ ShellIdle(p) \/ ShellExit(p)
  BY <1>9, BuffersStep DEF ReadStdin, ShellIdle, ShellExit, ClientPcs
<1>10. CASE ShellSend(p) \/ ShellAsk(p)
  BY <1>4, <1>10, CommandsSpeak DEF ShellSend, ShellAsk
<1> QED
  BY <1>5, <1>6, <1>7, <1>8, <1>9, <1>10 DEF Main, User

LEMMA BuffersAccept ==
  ASSUME CInv, NEW p \in Peers, Accept(p)
  PROVE  Buffers'
<1> USE DEF CInv, IInv, Goto, ClientPcs
<1>1. srv[p] \in ServerStates
  BY DEF TypeOK
<1>2. CASE AcceptHello(p)
  <2>1. /\ srv'[p].got = srv[p].got /\ srv'[p].req = srv[p].req
        /\ srv'[p].ptr = srv[p].ptr /\ srv'[p].buf = srv[p].buf
    BY <1>1, <1>2 DEF AcceptHello, ServerStates, TypeOK
  <2>2. \A q \in Peers \ {p} : srv'[q] = srv[q]
    BY <1>2 DEF AcceptHello, TypeOK
  <2> QED
    BY <1>2, <2>1, <2>2, BuffersStay DEF AcceptHello
<1>3. CASE AcceptRepeat(p) \/ AcceptDrop(p)
  BY <1>3, BuffersStay DEF AcceptRepeat, AcceptDrop
<1>4. CASE AcceptFinish(p)
  BY <1>4, BuffersStep DEF AcceptFinish
<1>5. CASE AcceptFatal(p)
  BY <1>5, BuffersStep DEF AcceptFatal, AcceptFails
<1>6. CASE AcceptWouldBlock(p)
  BY <1>6, BuffersStep DEF AcceptWouldBlock, AcceptFails
<1>7. CASE AcceptWake(p)
  BY <1>7, BuffersStep DEF AcceptWake
<1> QED
  BY <1>2, <1>3, <1>4, <1>5, <1>6, <1>7 DEF Accept

\* An answer carries a command if the request did.
LEMMA ServedReplySpeaks ==
  ASSUME NEW stock \in Int, NEW req \in Payloads, req.op # "BLANK"
  PROVE  ServedReply(stock, req).op # "BLANK"
BY DEF ServedReply, Payloads, Insufficient, Blank

LEMMA BuffersServe ==
  ASSUME CInv, NEW p \in Peers, NEW req \in Payloads, req.op # "BLANK", Serve(p, req),
         UNCHANGED cl
  PROVE  Buffers'
<1> USE DEF CInv, IInv
<1> DEFINE ptr == IF req.op = "SEND" THEN "null" ELSE "heap"
           buf == IF req.op = "SEND" THEN srv[p].buf ELSE ServedReply(inv[p], req)
<1>1. srv[p] \in ServerStates /\ inv[p] \in Int
  BY DEF TypeOK
<1>2. srv' = [srv EXCEPT ![p] =
                [srv[p] EXCEPT !.got = "data", !.req = req, !.ptr = ptr, !.buf = buf]]
  BY DEF Serve
<1>3. srv'[p].ptr = ptr /\ srv'[p].buf = buf
  BY <1>1, <1>2 DEF ServerStates, TypeOK
<1>4. ptr # "wild" /\ (ptr = "heap" => buf.op # "BLANK")
  BY <1>1, ServedReplySpeaks
<1>5. \A q \in Peers \ {p} : srv'[q] = srv[q]
  BY <1>2 DEF TypeOK
<1>6. pc' = [pc EXCEPT ![p] = "reply"]
  BY DEF Serve, Goto
<1> HIDE DEF ptr, buf
<1> QED
  BY <1>3, <1>4, <1>5, <1>6, BuffersSession DEF ClientPcs

LEMMA BuffersRespond ==
  ASSUME CInv, NEW p \in Peers, Respond(p)
  PROVE  Buffers'
<1> USE DEF CInv, IInv, Goto, ClientPcs
<1>1. srv[p] \in ServerStates
  BY DEF TypeOK
<1>2. srv[p].ptr # "wild" /\ (srv[p].ptr = "heap" => srv[p].buf.op # "BLANK")
  BY DEF Buffers
<1>3. queue[p] # <<>> /\ Head(queue[p]).kind = "request" =>
         Head(queue[p]).body \in Payloads /\ Head(queue[p]).body.op # "BLANK"
  BY QueueTypes, SaidPop DEF Datagrams, Speaks
<1>4. CASE FirstRead(p)
  <2>1. CASE srv' = [srv EXCEPT ![p] = [@ EXCEPT !.got = "none"]]
    <3>1. srv'[p].got = "none" /\ srv'[p].ptr = srv[p].ptr /\ srv'[p].buf = srv[p].buf
      BY <1>1, <2>1 DEF ServerStates, TypeOK
    <3>2. \A q \in Peers \ {p} : srv'[q] = srv[q]
      BY <2>1 DEF TypeOK
    <3>3. pc' = [pc EXCEPT ![p] = "check"] /\ UNCHANGED cl
      BY <1>4 DEF FirstRead
    <3> QED
      BY <1>2, <3>1, <3>2, <3>3, BuffersSession
  <2>2. CASE /\ queue[p] # <<>> /\ Head(queue[p]).kind = "request"
             /\ srv' = [srv EXCEPT ![p] =
                          [@ EXCEPT !.got = "data", !.req = Head(queue[p]).body]]
    <3>1. /\ srv'[p].req = Head(queue[p]).body
          /\ srv'[p].ptr = srv[p].ptr /\ srv'[p].buf = srv[p].buf
      BY <1>1, <2>2 DEF ServerStates, TypeOK
    <3>2. \A q \in Peers \ {p} : srv'[q] = srv[q]
      BY <2>2 DEF TypeOK
    <3>3. pc' = [pc EXCEPT ![p] = "check"] /\ UNCHANGED cl
      BY <1>4 DEF FirstRead
    <3> QED
      BY <1>2, <1>3, <2>2, <3>1, <3>2, <3>3, BuffersSession
  <2> QED
    BY <1>4, <2>1, <2>2 DEF FirstRead
<1>5. CASE ReadClose(p)
  <2>1. srv'[p].ptr = srv[p].ptr /\ srv'[p].buf = srv[p].buf
    BY <1>1, <1>5 DEF ReadClose, ServerStates, TypeOK
  <2>2. \A q \in Peers \ {p} : srv'[q] = srv[q]
    BY <1>5 DEF ReadClose, TypeOK
  <2> QED
    BY <1>2, <1>5, <2>1, <2>2, BuffersSession DEF ReadClose
<1>6. CASE ReadRepeat(p)
  BY <1>6, BuffersStep, BuffersStay DEF ReadRepeat
<1>7. CASE React(p)
  <2>1. srv[p].req \in Payloads
    BY <1>1 DEF ServerStates
  <2> QED
    BY <1>7, <2>1, BuffersServe DEF React, Buffers
<1>8. CASE ReadAndReact(p)
  BY <1>3, <1>8, BuffersServe DEF ReadAndReact
<1>9. CASE CheckInterrupted(p)
  BY <1>9 DEF CheckInterrupted, Calm
<1>10. CASE Reply(p)
  BY <1>10, BuffersStep DEF Reply
<1>11. CASE Drain(p)
  <2>1. srv'[p].ptr = srv[p].ptr /\ srv'[p].buf = srv[p].buf
    BY <1>1, <1>11 DEF Drain, ServerStates, TypeOK
  <2>2. \A q \in Peers \ {p} : srv'[q] = srv[q]
    BY <1>11 DEF Drain, TypeOK
  <2> QED
    BY <1>2, <1>11, <2>1, <2>2, BuffersSession DEF Drain
<1> QED
  BY <1>4, <1>5, <1>6, <1>7, <1>8, <1>9, <1>10, <1>11 DEF Respond

LEMMA BuffersClient ==
  ASSUME CInv, NEW p \in Peers, Client(p)
  PROVE  Buffers'
<1> USE DEF CInv, IInv, Goto
<1>1. cl[p] \in ClientStates
  BY DEF TypeOK
<1>2. CASE ConnectOffer(p)
  <2>1. cl'[p].cmd = cl[p].cmd
    BY <1>1, <1>2 DEF ConnectOffer, ClientStates, TypeOK
  <2>2. \A q \in Peers \ {p} : cl'[q] = cl[q]
    BY <1>2 DEF ConnectOffer, TypeOK
  <2> QED
    BY <1>2, <2>1, <2>2, BuffersStay DEF ConnectOffer
<1>3. CASE ConnectRetry(p)
  <2>1. cl'[p].cmd = cl[p].cmd
    BY <1>1, <1>3 DEF ConnectRetry, ClientStates, TypeOK
  <2>2. \A q \in Peers \ {p} : cl'[q] = cl[q]
    BY <1>3 DEF ConnectRetry, TypeOK
  <2> QED
    BY <1>3, <2>1, <2>2, BuffersStay DEF ConnectRetry
<1>4. CASE ClientRepeat(p) \/ ClientDrop(p)
  BY <1>4, BuffersStay DEF ClientRepeat, ClientDrop
<1>5. CASE ConnectFinished(p) \/ Write(p)
  BY <1>5, BuffersStep DEF ConnectFinished, Write, ClientPcs
<1>6. CASE ConnectGiveUp(p) \/ Bye(p)
  BY <1>6, BuffersStep DEF ConnectGiveUp, Bye, EndSession, ClientPcs
<1>7. CASE Await(p)
  BY <1>7, BuffersStep DEF Await, ClientPcs
<1> QED
  BY <1>2, <1>3, <1>4, <1>5, <1>6, <1>7 DEF Client

-----------------------------------------------------------------------------
(* Calm.                                                                   *)

\* A step that leaves the places of the other peer, and its flag, and takes p to a
\* place where the flag does not matter.
LEMMA CalmStep ==
  ASSUME TypeOK, Calm, NEW p \in Peers, NEW label, pc' = [pc EXCEPT ![p] = label],
         label \notin {"read", "check", "crashed"},
         \A q \in Peers \ {p} : cleanup'[q] = cleanup[q]
  PROVE  Calm'
BY DEF Calm, TypeOK

LEMMA CalmMain ==
  ASSUME CInv, NEW p \in Peers, Main(p) \/ User(p)
  PROVE  Calm'
<1> USE DEF CInv, IInv, Goto
<1>1. CASE Halt(p)
  BY <1>1, CalmStep DEF Halt, Buffers
<1>2. CASE OpenAndSelect(p) \/ OpenAndRefill(p)
  BY <1>2, CalmStep DEF OpenAndSelect, OpenAndRefill, BeginSession
<1>3. CASE Peek(p)
  BY <1>3, CalmStep DEF Peek
<1>4. CASE ReadStdin(p) \/ ShellIdle(p)
  BY <1>4, CalmStep DEF ReadStdin, ShellIdle
<1>5. CASE ShellExit(p)
  BY <1>5, CalmStep DEF ShellExit, TypeOK
<1>6. CASE ShellSend(p) \/ ShellAsk(p)
  BY <1>6, CalmStep DEF ShellSend, ShellAsk, BeginSession
<1> QED
  BY <1>1, <1>2, <1>3, <1>4, <1>5, <1>6 DEF Main, User

LEMMA CalmServer ==
  ASSUME CInv, NEW p \in Peers, Accept(p) \/ Respond(p)
  PROVE  Calm'
<1> USE DEF CInv, IInv, Goto
<1>1. CASE AcceptHello(p) \/ AcceptRepeat(p) \/ AcceptDrop(p)
  BY <1>1 DEF AcceptHello, AcceptRepeat, AcceptDrop, Calm
<1>2. CASE AcceptFinish(p)
  BY <1>2 DEF AcceptFinish, Calm, TypeOK
<1>3. CASE AcceptFatal(p)
  BY <1>3, CalmStep DEF AcceptFatal, AcceptFails, TypeOK
<1>4. CASE AcceptWouldBlock(p)
  BY <1>4, CalmStep DEF AcceptWouldBlock, AcceptFails, TypeOK
<1>5. CASE AcceptWake(p)
  BY <1>5, CalmStep DEF AcceptWake
<1>6. CASE FirstRead(p)
  BY <1>6 DEF FirstRead, Calm, TypeOK
<1>7. CASE ReadClose(p) \/ React(p) \/ ReadAndReact(p)
  BY <1>7, CalmStep DEF ReadClose, React, ReadAndReact, Serve
<1>8. CASE ReadRepeat(p)
  <2>1. CASE UNCHANGED <<cleanup, pc>>
    BY <2>1 DEF Calm
  <2>2. CASE cleanup' = [cleanup EXCEPT ![p] = TRUE] /\ pc' = [pc EXCEPT ![p] = "reply"]
    BY <2>2, CalmStep DEF TypeOK
  <2> QED
    BY <1>8, <2>1, <2>2 DEF ReadRepeat
<1>9. CASE CheckInterrupted(p)
  BY <1>9 DEF CheckInterrupted, Calm
<1>10. CASE Reply(p)
  BY <1>10, CalmStep DEF Reply, TypeOK
<1>11. CASE Drain(p)
  BY <1>11, CalmStep DEF Drain
<1> QED
  BY <1>1, <1>2, <1>3, <1>4, <1>5, <1>6, <1>7, <1>8, <1>9, <1>10, <1>11 DEF Accept, Respond

LEMMA CalmClient ==
  ASSUME CInv, NEW p \in Peers, Client(p)
  PROVE  Calm'
<1> USE DEF CInv, IInv, Goto
<1>1. CASE ConnectOffer(p) \/ ConnectRetry(p) \/ ClientRepeat(p) \/ ClientDrop(p)
  BY <1>1 DEF ConnectOffer, ConnectRetry, ClientRepeat, ClientDrop, Calm
<1>2. CASE ConnectFinished(p) \/ Write(p)
  BY <1>2, CalmStep DEF ConnectFinished, Write
<1>3. CASE ConnectGiveUp(p) \/ Bye(p)
  BY <1>3, CalmStep DEF ConnectGiveUp, Bye, EndSession
<1>4. CASE Await(p)
  <2>1. Head(answers[p]).body.op # "BLANK"
    BY <1>4, SaidPopAnswer DEF Await, Speaks
  <2> QED
    BY <1>4, <2>1, CalmStep DEF Await
<1> QED
  BY <1>1, <1>2, <1>3, <1>4 DEF Client

-----------------------------------------------------------------------------
(* The theorem.                                                            *)

LEMMA InitCInv ==
  ASSUME WildReply = {}, Init
  PROVE  CInv
<1>1. IInv
  BY InitIInv
<1>2. Channels
  BY SaidEmpty DEF Init, Channels
<1>3. Buffers
  BY DEF Init, Buffers, ClientPcs
<1>4. Calm
  BY DEF Init, Calm
<1> QED
  BY <1>1, <1>2, <1>3, <1>4 DEF CInv

LEMMA NextCInv ==
  ASSUME MaxSignals = 0, CInv, [Next]_vars
  PROVE  CInv'
<1>1. IInv'
  BY NextIInv DEF CInv
<1>2. CASE UNCHANGED vars
  BY <1>1, <1>2 DEF CInv, Channels, Buffers, Calm, vars, procVars, env
<1>3. ASSUME NEW p \in Peers, Main(p) \/ User(p)
      PROVE  CInv'
  BY <1>1, <1>3, ChannelsMain, BuffersMain, CalmMain DEF CInv
<1>4. ASSUME NEW p \in Peers, Accept(p) \/ Respond(p)
      PROVE  CInv'
  BY <1>1, <1>4, ChannelsServer, BuffersAccept, BuffersRespond, CalmServer DEF CInv
<1>5. ASSUME NEW p \in Peers, Client(p)
      PROVE  CInv'
  BY <1>1, <1>5, ChannelsClient, BuffersClient, CalmClient DEF CInv
<1>6. ASSUME NEW p \in Peers, Network(p)
      PROVE  CInv'
  <2>1. UNCHANGED <<pc, srv, cl, cleanup>>
    BY <1>6 DEF Network, Deliver, DeliverLate, Arrive, Lose, Duplicate, Delay, Fault, procVars
  <2>2. Buffers' /\ Calm'
    BY <2>1 DEF CInv, Buffers, Calm
  <2> QED
    BY <1>1, <1>6, <2>2, ChannelsNetwork DEF CInv
<1>7. ASSUME NEW p \in Peers PROVE ~Signal(p)
  BY BoundsAssumption DEF Signal, CInv, IInv, TypeOK
<1> QED
  BY <1>2, <1>3, <1>4, <1>5, <1>6, <1>7 DEF Next

\* Without SIGINT, and with send_reply_buffer initialised (udp_A.c:54), no daemon
\* dereferences a null command or frees a wild pointer, whatever the users type and
\* the network loses, copies or delays: the answer that main sends again from an
\* earlier session is still an answer.
THEOREM CalmNeverCrashes ==
  ASSUME MaxSignals = 0, WildReply = {}
  PROVE  Spec => []NoCrash
<1>1. CInv => NoCrash
  BY DEF CInv, Calm, NoCrash
<1>2. Init => CInv
  BY InitCInv
<1>3. CInv /\ [Next]_vars => CInv'
  BY NextCInv
<1> QED
  BY <1>1, <1>2, <1>3, PTL DEF Spec
=============================================================================
