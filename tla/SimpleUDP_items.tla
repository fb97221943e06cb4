---------------------------- MODULE SimpleUDP_items ----------------------------
(* Items are never created: the theorem behind NothingCreated.  A step that *)
(* credits an inventory takes what it credits from a message that was still *)
(* to come, and a step that sends a message takes its items from a stock.   *)
EXTENDS SimpleUDP_sessions

\* q may still apply a request of the session it is in ...
Catching(q) == pc[q] \in {"accept", "acceptWait", "read", "check"} /\ srv[q].got # "data"
Carries(q, d) ==
  Catching(q) /\ d.kind = "request" /\ d.sid = srv[q].sid /\ d.body.op = "SEND"
\* ... or is about to apply the one it has read.
Held(q) == pc[q] = "check" /\ srv[q].got = "data" /\ srv[q].req.op = "SEND"

Parcel(q, n) ==
  \/ n = 0
  \/ \E d \in Asks(Other(q)) : Carries(q, d) /\ n = d.body.n
  \/ Held(q) /\ n = srv[q].req.n

\* p waits for an answer with items, on its way or about to be sent.
Credits(p, d) ==
  pc[p] = "await" /\ d.kind = "reply" /\ d.port = cl[p].port /\ d.body.op \in Goods
Debited(p) ==
  LET q == Other(p) IN
  /\ pc[p] = "await" /\ pc[q] = "reply" /\ srv[q].port = cl[p].port
  /\ srv[q].got = "data" /\ srv[q].ptr = "heap" /\ srv[q].buf.op \in Goods

Refund(p, n) ==
  \/ n = 0
  \/ \E d \in Tells(p) : Credits(p, d) /\ n = d.body.n
  \/ Debited(p) /\ n = srv[Other(p)].buf.n

LEMMA ParcelForm ==
  ASSUME TypeOK, NEW q \in Peers, NEW n
  PROVE  n \in Parcels(q) <=> Parcel(q, n)
<1>1. \A d : d \in Incoming(q) <=> d \in Asks(Other(q)) /\ Carries(q, d)
  BY OtherOther DEF Incoming, Asks, Carries, Catching, ToListener
<1>2. (\E d \in Incoming(q) : n = d.body.n)
        <=> \E d \in Asks(Other(q)) : Carries(q, d) /\ n = d.body.n
  BY <1>1
<1>3. n \in {m \in {srv[q].req.n} : pc[q] = "check" /\ srv[q].got = "data" /\ srv[q].req.op = "SEND"}
        <=> Held(q) /\ n = srv[q].req.n
  BY DEF Held
<1> QED
  BY <1>2, <1>3 DEF Parcels, Parcel

LEMMA RefundForm ==
  ASSUME TypeOK, NEW p \in Peers, NEW n
  PROVE  n \in Refunds(p) <=> Refund(p, n)
<1> DEFINE Coming == {e \in Range(answers[p]) \cup InTransit(Other(p)) :
              /\ pc[p] = "await" /\ e.kind = "reply" /\ e.port = cl[p].port
              /\ e.body.op \in Goods}
<1>1. \A d : d \in Coming <=> d \in Tells(p) /\ Credits(p, d)
  BY DEF Tells, Credits, ToClient
<1>2. (\E d \in Coming : n = d.body.n) <=> \E d \in Tells(p) : Credits(p, d) /\ n = d.body.n
  BY <1>1
<1>3. n \in {m \in {srv[Other(p)].buf.n} :
              /\ pc[p] = "await" /\ pc[Other(p)] = "reply" /\ srv[Other(p)].port = cl[p].port
              /\ srv[Other(p)].got = "data" /\ srv[Other(p)].ptr = "heap"
              /\ srv[Other(p)].buf.op \in Goods}
        <=> Debited(p) /\ n = srv[Other(p)].buf.n
  BY DEF Debited
<1> QED
  BY <1>2, <1>3 DEF Refunds, Refund

\* Messages that move items carry no negative number.
LEMMA PayloadItems ==
  ASSUME NEW body \in Payloads, body.op \in Goods \cup {"SEND"}
  PROVE  body.n \in Nat
BY DEF Payloads, Goods, Insufficient, Blank

LEMMA BodyTypes ==
  ASSUME TypeOK, NEW p \in Peers, NEW d \in Asks(p) \cup Tells(p)
  PROVE  d.body \in Payloads
<1> DEFINE D == Datagrams(ToListener \cup ToClient)
           q == Other(p)
<1>1. \A r \in Peers : /\ wire[r] \in Seq(D) /\ late[r] \subseteq D
                       /\ queue[r] \in Seq(Datagrams(ToListener))
                       /\ answers[r] \in Seq(Datagrams(ToClient))
  BY DEF TypeOK
<1> HIDE DEF D
<1>2. \A r \in Peers : /\ Range(wire[r]) \subseteq D
                       /\ Range(queue[r]) \subseteq Datagrams(ToListener)
                       /\ Range(answers[r]) \subseteq Datagrams(ToClient)
  BY <1>1 DEF Range
<1>3. d \in D \cup Datagrams(ToListener) \cup Datagrams(ToClient)
  BY <1>1, <1>2, OtherIsPeer DEF Asks, Tells, InTransit
<1> QED
  BY <1>3 DEF D, Datagrams

ItemTyping ==
  \A p \in Peers : /\ \A n : Parcel(p, n) => n \in Nat
                   /\ \A n : Refund(p, n) => n \in Nat
                   /\ Unsent(p) \in Nat /\ inv[p] \in Int

LEMMA ItemTypes == TypeOK => ItemTyping
<1> SUFFICES ASSUME TypeOK, NEW p \in Peers
             PROVE  /\ \A n : Parcel(p, n) => n \in Nat
                    /\ \A n : Refund(p, n) => n \in Nat
                    /\ Unsent(p) \in Nat /\ inv[p] \in Int
  BY DEF ItemTyping
<1>1. \A r \in Peers : /\ srv[r].req \in Payloads /\ srv[r].buf \in Payloads
                       /\ cl[r].cmd \in Payloads
  BY DEF TypeOK, ServerStates, ClientStates
<1>2. ASSUME NEW n, Parcel(p, n) PROVE n \in Nat
  BY <1>1, <1>2, OtherIsPeer, BodyTypes, PayloadItems DEF Parcel, Carries, Held
<1>3. ASSUME NEW n, Refund(p, n) PROVE n \in Nat
  BY <1>1, <1>3, OtherIsPeer, BodyTypes, PayloadItems DEF Refund, Credits, Debited
<1>4. Unsent(p) \in Nat
  BY <1>1, PayloadItems DEF Unsent
<1> QED
  BY <1>2, <1>3, <1>4 DEF TypeOK

\* The same bound, from the point of view of either peer.
Bounded(p) ==
  LET q == Other(p) IN
  \A a, b, x, y :
    Parcel(p, a) /\ Parcel(q, b) /\ Refund(p, x) /\ Refund(q, y) =>
      inv[p] + inv[q] + Unsent(p) + Unsent(q) + a + b + x + y <= 2 * InitialInventory

LEMMA BoundedForm ==
  ASSUME TypeOK, NEW p \in Peers
  PROVE  NothingCreated <=> Bounded(p)
<1>0. A \in Peers /\ B \in Peers /\ Other(A) = B /\ Other(B) = A
  BY PeersAssumption DEF Peers, Other
<1>1. NothingCreated <=> Bounded(A)
  BY <1>0, ParcelForm, RefundForm DEF NothingCreated, Bounded
<1>2. Bounded(A) <=> Bounded(B)
  <2>1. ASSUME NEW a, NEW b, NEW x, NEW y,
               Parcel(A, a), Parcel(B, b), Refund(A, x), Refund(B, y)
        PROVE  inv[A] + inv[B] + Unsent(A) + Unsent(B) + a + b + x + y
                 = inv[B] + inv[A] + Unsent(B) + Unsent(A) + b + a + y + x
    <3>1. /\ inv[A] \in Int /\ inv[B] \in Int /\ Unsent(A) \in Nat /\ Unsent(B) \in Nat
          /\ a \in Nat /\ b \in Nat /\ x \in Nat /\ y \in Nat
      BY <1>0, <2>1, ItemTypes DEF ItemTyping
    <3> QED
      BY <3>1
  <2> QED
    BY <1>0, <2>1 DEF Bounded
<1> QED
  BY <1>1, <1>2 DEF Peers

-----------------------------------------------------------------------------
(* What a step may leave of the items that are still to come.              *)

LEMMA ParcelStep ==
  ASSUME NEW q \in Peers, NEW p, p = Other(q),
         \A d \in Records(p) : d.kind # "request" \/ d.body.op # "SEND",
         Catching(q)' => Catching(q) /\ srv'[q].sid = srv[q].sid,
         Held(q)' => Held(q) /\ srv'[q].req = srv[q].req
  PROVE  \A n : Parcel(q, n)' => Parcel(q, n)
BY DEF Parcel, Carries, Records

LEMMA RefundStep ==
  ASSUME NEW p \in Peers, NEW q, q = Other(p),
         \A d \in News(p) : d.kind # "reply",
         pc'[p] = "await" => pc[p] = "await" /\ cl'[p].port = cl[p].port,
         Debited(p)' => Debited(p) /\ srv'[q].buf = srv[q].buf
  PROVE  \A n : Refund(p, n)' => Refund(p, n)
BY DEF Refund, Credits, News

\* A step after which every claim is covered by a claim from before it.
Covers(p) ==
  LET q == Other(p) IN
  \A a, b, x, y :
    Parcel(p, a)' /\ Parcel(q, b)' /\ Refund(p, x)' /\ Refund(q, y)' =>
      \E a0, b0, x0, y0 :
        /\ Parcel(p, a0) /\ Parcel(q, b0) /\ Refund(p, x0) /\ Refund(q, y0)
        /\ inv'[p] + inv'[q] + Unsent(p)' + Unsent(q)' + a + b + x + y
             <= inv[p] + inv[q] + Unsent(p) + Unsent(q) + a0 + b0 + x0 + y0

LEMMA CoversStep ==
  ASSUME TypeOK, TypeOK', NEW p \in Peers, Bounded(p), Covers(p)
  PROVE  Bounded(p)'
<1> DEFINE q == Other(p)
<1>0. q \in Peers
  BY OtherIsPeer
<1> SUFFICES ASSUME NEW a, NEW b, NEW x, NEW y,
                    Parcel(p, a)', Parcel(q, b)', Refund(p, x)', Refund(q, y)'
             PROVE  inv'[p] + inv'[q] + Unsent(p)' + Unsent(q)' + a + b + x + y
                      <= 2 * InitialInventory
  BY DEF Bounded
<1>1. PICK a0, b0, x0, y0 :
        /\ Parcel(p, a0) /\ Parcel(q, b0) /\ Refund(p, x0) /\ Refund(q, y0)
        /\ inv'[p] + inv'[q] + Unsent(p)' + Unsent(q)' + a + b + x + y
             <= inv[p] + inv[q] + Unsent(p) + Unsent(q) + a0 + b0 + x0 + y0
  BY DEF Covers
<1>2. inv[p] + inv[q] + Unsent(p) + Unsent(q) + a0 + b0 + x0 + y0 <= 2 * InitialInventory
  BY <1>1 DEF Bounded
<1>3. /\ inv[p] \in Int /\ inv[q] \in Int /\ Unsent(p) \in Nat /\ Unsent(q) \in Nat
      /\ a0 \in Nat /\ b0 \in Nat /\ x0 \in Nat /\ y0 \in Nat
  BY <1>0, <1>1, ItemTypes DEF ItemTyping
<1>4. /\ inv'[p] \in Int /\ inv'[q] \in Int /\ Unsent(p)' \in Nat /\ Unsent(q)' \in Nat
      /\ a \in Nat /\ b \in Nat /\ x \in Nat /\ y \in Nat
  <2>1. ItemTyping'
    BY ItemTypes, PTL
  <2> QED
    BY <1>0, <2>1 DEF ItemTyping
<1>5. InitialInventory \in Nat
  BY BoundsAssumption
<1> QED
  BY <1>1, <1>2, <1>3, <1>4, <1>5

\* Nothing is credited or debited, and no claim is new.
LEMMA QuietCovers ==
  ASSUME TypeOK, TypeOK', NEW p \in Peers, NEW q, q = Other(p),
         inv'[p] = inv[p], inv'[q] = inv[q],
         Unsent(p)' <= Unsent(p), Unsent(q)' <= Unsent(q),
         \A n : Parcel(p, n)' => Parcel(p, n), \A n : Parcel(q, n)' => Parcel(q, n),
         \A n : Refund(p, n)' => Refund(p, n), \A n : Refund(q, n)' => Refund(q, n)
  PROVE  Covers(p)
<1>0. q \in Peers /\ ItemTyping /\ ItemTyping'
  <2>1. ItemTyping /\ ItemTyping'
    BY ItemTypes, PTL
  <2> QED
    BY <2>1, OtherIsPeer
<1> SUFFICES ASSUME NEW a, NEW b, NEW x, NEW y,
                    Parcel(p, a)', Parcel(q, b)', Refund(p, x)', Refund(q, y)'
             PROVE  inv'[p] + inv'[q] + Unsent(p)' + Unsent(q)' + a + b + x + y
                      <= inv[p] + inv[q] + Unsent(p) + Unsent(q) + a + b + x + y
  BY DEF Covers
<1>1. /\ inv[p] \in Int /\ inv[q] \in Int /\ Unsent(p) \in Nat /\ Unsent(q) \in Nat
      /\ Unsent(p)' \in Nat /\ Unsent(q)' \in Nat
      /\ a \in Nat /\ b \in Nat /\ x \in Nat /\ y \in Nat
  BY <1>0 DEF ItemTyping
<1> QED
  BY <1>1

-----------------------------------------------------------------------------
(* The server's side.                                                      *)

\* The only message a server sends is its reply.
LEMMA ServerSpeaks ==
  ASSUME IInv, NEW q \in Peers, NEW p, p = Other(q), Accept(q) \/ Respond(q)
  PROVE  /\ Asks(p)' \subseteq Asks(p)
         /\ \A d \in News(p) : d.kind = "reply" =>
              /\ Reply(q) /\ ~cleanup[q] /\ srv[q].ptr # "null"
              /\ d.port = srv[q].port /\ d.sid = srv[q].sid /\ d.body = srv[q].buf
<1> USE DEF IInv
<1> DEFINE Sends(kind) == Send(q, Flight(kind, srv[q].port, srv[q].sid))
           Answers == Send(q, Dgram("reply", srv[q].port, srv[q].sid, srv[q].buf))
           Reads == (queue[q] # <<>> /\ Pop(q)) \/ CloseListener(q) \/ UNCHANGED queue
           Goal == /\ Asks(p)' \subseteq Asks(p)
                   /\ \A d \in News(p) : d.kind = "reply" =>
                        /\ Reply(q) /\ ~cleanup[q] /\ srv[q].ptr # "null"
                        /\ d.port = srv[q].port /\ d.sid = srv[q].sid /\ d.body = srv[q].buf
<1>0. p \in Peers /\ p # q /\ q = Other(p)
  BY OtherOther
<1>1. UNCHANGED <<answers, late>>
  BY DEF Accept, AcceptHello, AcceptRepeat, AcceptFinish, AcceptFatal, AcceptDrop,
     AcceptWouldBlock, AcceptWake, Respond, FirstRead, ReadClose, ReadRepeat, React,
     ReadAndReact, CheckInterrupted, Reply, Drain, env
<1>2. pc[q] \in Serving
  BY DEF Accept, AcceptHello, AcceptRepeat, AcceptFinish, AcceptFatal, AcceptDrop,
     AcceptWouldBlock, AcceptWake, Respond, FirstRead, ReadClose, ReadRepeat, React,
     ReadAndReact, CheckInterrupted, Reply, Drain, Reading, Serving, ServerPcs
<1>3. Reads
  BY DEF Accept, AcceptHello, AcceptRepeat, AcceptFinish, AcceptFatal, AcceptDrop,
     AcceptWouldBlock, AcceptWake, Respond, FirstRead, ReadClose, ReadRepeat, React,
     ReadAndReact, CheckInterrupted, Reply, Drain
<1>4. Shrinks(queue, queue') /\ Shrinks(answers, answers')
  BY <1>1, <1>3, QueueShrinks, AnswersShrink
<1>5. CASE UNCHANGED wire
  <2>1. Silent
    BY <1>1, <1>4, <1>5, SilentStep
  <2> QED
    BY <1>0, <2>1 DEF Silent, News
<1>6. ASSUME NEW kind \in {"offer", "finished"}, Sends(kind) PROVE Goal
  <2>1. PICK d : TellsGrow(q, d) /\ d.kind = kind
    BY <1>1, <1>2, <1>4, <1>6, FlightTells
  <2> QED
    BY <1>0, <2>1 DEF TellsGrow, News
<1>7. ASSUME Answers, Reply(q), ~cleanup[q], srv[q].ptr # "null" PROVE Goal
  <2>1. "reply" \in ToClient /\ srv[q] \in ServerStates
    BY DEF ToClient, TypeOK
  <2>2. srv[q].buf \in Payloads
    BY <2>1 DEF ServerStates
  <2>3. PICK d : /\ TellsGrow(q, d) /\ d.body = srv[q].buf
                 /\ d.port = srv[q].port /\ d.sid = srv[q].sid
    BY <1>1, <1>2, <1>4, <1>7, <2>1, <2>2, ServerTells
  <2> QED
    BY <1>0, <1>7, <2>3 DEF TellsGrow, News
<1>8. \/ UNCHANGED wire \/ Sends("offer") \/ Sends("finished")
      \/ Answers /\ Reply(q) /\ ~cleanup[q] /\ srv[q].ptr # "null"
  BY DEF Accept, AcceptHello, AcceptRepeat, AcceptFinish, AcceptFatal, AcceptDrop,
     AcceptWouldBlock, AcceptWake, Respond, FirstRead, ReadClose, ReadRepeat, React,
     ReadAndReact, CheckInterrupted, Reply, Drain
<1> QED
  BY <1>5, <1>6, <1>7, <1>8

\* Whatever the server q does, the items on the way between its own session as a client
\* and the other peer stay what they are.
LEMMA ServerItems ==
  ASSUME IInv, NEW q \in Peers, NEW p, p = Other(q), Accept(q) \/ Respond(q)
  PROVE  /\ \A n : Parcel(p, n)' => Parcel(p, n)
         /\ \A n : Refund(q, n)' => Refund(q, n)
         /\ Unsent(p)' = Unsent(p) /\ Unsent(q)' = Unsent(q)
         /\ pc'[p] = pc[p] /\ cl'[p] = cl[p]
<1>0. p \in Peers /\ p # q /\ q = Other(p)
  BY OtherOther
<1>1. /\ Asks(q)' \subseteq Asks(q) /\ Tells(q)' \subseteq Tells(q) /\ KeepsServer(p)
      /\ pc[q] \in ServerPcs /\ pc'[q] \notin ClientPcs /\ UNCHANGED <<cl, answers>>
  BY ServerFrame
<1>2. \A n : Parcel(p, n)' => Parcel(p, n)
  <2>1. Records(q) = {}
    BY <1>1 DEF Records
  <2> QED
    BY <1>0, <1>1, <2>1, ParcelStep DEF Catching, Held, KeepsServer
<1>3. \A n : Refund(q, n)' => Refund(q, n)
  <2>1. News(q) = {} /\ pc'[q] # "await"
    BY <1>1 DEF News, ClientPcs
  <2> QED
    BY <1>0, <2>1, RefundStep DEF Debited
<1>4. Unsent(p)' = Unsent(p) /\ Unsent(q)' = Unsent(q)
  BY <1>1 DEF Unsent, KeepsServer, ClientPcs, ServerPcs
<1> QED
  BY <1>1, <1>2, <1>3, <1>4 DEF KeepsServer

\* What decrypt_react puts into an answer it takes from the stock, and no more.
LEMMA ServedGoods ==
  ASSUME NEW stock \in Int, NEW req \in Payloads
  PROVE  /\ req.op = "SEND" => ServedInventory(stock, req) = stock + req.n
         /\ req.op # "SEND" => ServedInventory(stock, req) <= stock
         /\ req.op # "SEND" /\ ServedReply(stock, req).op \in Goods =>
              ServedInventory(stock, req) + ServedReply(stock, req).n = stock
<1>1. CASE req.op = "SEND"
  BY <1>1 DEF ServedInventory
<1>2. CASE req.op = "REFILL"
  BY <1>2, RefillAssumption DEF ServedInventory, ServedReply, Payloads, Insufficient, Blank
<1>3. CASE req.op = "REQUEST" /\ req.n <= stock
  BY <1>3 DEF ServedInventory, ServedReply, Payloads, Insufficient, Blank
<1>4. CASE req.op = "REQUEST" /\ ~(req.n <= stock)
  BY <1>4 DEF ServedInventory, ServedReply, Goods, Payloads, Insufficient, Blank
<1>5. CASE req.op \in {"CHECK", "BLANK", "INSUFFICIENT"}
  BY <1>5 DEF ServedInventory, ServedReply, Goods, Payloads, Insufficient, Blank
<1> QED
  BY <1>1, <1>2, <1>3, <1>4, <1>5 DEF Payloads, Insufficient, Blank

\* The request a server applies was one it could still apply.
LEMMA ServeCovers ==
  ASSUME IInv, IInv', NEW q \in Peers, NEW p, p = Other(q), Respond(q), pc[q] = "check",
         NEW req \in Payloads, Serve(q, req), UNCHANGED wire,
         req.op = "SEND" => Parcel(q, req.n)
  PROVE  Covers(q)
<1> DEFINE reply == ServedReply(inv[q], req)
<1>0. /\ p \in Peers /\ p # q /\ q = Other(p) /\ TypeOK /\ TypeOK'
      /\ inv[q] \in Int /\ inv[p] \in Int
  BY OtherOther DEF IInv, TypeOK
<1>1. /\ pc'[q] = "reply" /\ inv'[p] = inv[p] /\ inv'[q] = ServedInventory(inv[q], req)
      /\ srv'[q].port = srv[q].port /\ srv'[q].got = "data"
      /\ req.op = "SEND" => srv'[q].ptr = "null"
      /\ req.op # "SEND" => srv'[q].buf = reply
  <2>1. /\ pc' = [pc EXCEPT ![q] = "reply"] /\ inv' = [inv EXCEPT ![q] = ServedInventory(inv[q], req)]
        /\ srv'[q].port = srv[q].port /\ srv'[q].got = "data"
        /\ req.op = "SEND" => srv'[q].ptr = "null"
        /\ req.op # "SEND" => srv'[q].buf = reply
    BY <1>0, ServeFacts
  <2> QED
    BY <1>0, <2>1 DEF TypeOK
<1>2. /\ \A n : Parcel(p, n)' => Parcel(p, n)
      /\ \A n : Refund(q, n)' => Refund(q, n)
      /\ Unsent(p)' = Unsent(p) /\ Unsent(q)' = Unsent(q)
      /\ pc'[p] = pc[p] /\ cl'[p] = cl[p]
  BY ServerItems DEF Respond
<1>3. \A n : Parcel(q, n)' => n = 0
  BY <1>1 DEF Parcel, Carries, Catching, Held
<1>4. ASSUME NEW n, Refund(p, n)'
      PROVE  Refund(p, n) \/ (req.op # "SEND" /\ reply.op \in Goods /\ n = reply.n)
  <2>1. \A d \in News(p) : d.kind # "reply"
    BY <1>1, ServerSpeaks DEF Respond, Reply
  <2>2. CASE n = 0
    BY <2>2 DEF Refund
  <2>3. CASE \E d \in Tells(p)' : Credits(p, d)' /\ n = d.body.n
    BY <1>2, <2>1, <2>3 DEF Refund, Credits, News
  <2>4. CASE Debited(p)' /\ n = srv'[q].buf.n
    BY <1>0, <1>1, <2>4 DEF Debited
  <2> QED
    BY <1>0, <1>4, <2>2, <2>3, <2>4 DEF Refund
<1>5. ItemTyping /\ ItemTyping'
  BY <1>0, ItemTypes, PTL
<1> SUFFICES ASSUME NEW b, NEW a, NEW y, NEW x,
                    Parcel(q, b)', Parcel(p, a)', Refund(q, y)', Refund(p, x)'
             PROVE  \E b0, a0, y0, x0 :
                      /\ Parcel(q, b0) /\ Parcel(p, a0) /\ Refund(q, y0) /\ Refund(p, x0)
                      /\ inv'[q] + inv'[p] + Unsent(q)' + Unsent(p)' + b + a + y + x
                           <= inv[q] + inv[p] + Unsent(q) + Unsent(p) + b0 + a0 + y0 + x0
  BY <1>0 DEF Covers
<1>6. /\ Unsent(p) \in Nat /\ Unsent(q) \in Nat /\ a \in Nat /\ x \in Nat /\ y \in Nat /\ b = 0
      /\ Parcel(p, a) /\ Refund(q, y) /\ Parcel(q, 0) /\ Refund(p, 0)
      /\ ServedInventory(inv[q], req) \in Int
  BY <1>0, <1>2, <1>3, <1>5, ServedTypes DEF ItemTyping, Parcel, Refund
<1>7. CASE req.op = "SEND"
  <2>1. inv'[q] = inv[q] + req.n /\ Refund(p, x) /\ req.n \in Nat
    BY <1>0, <1>1, <1>4, <1>7, ServedGoods, PayloadItems
  <2>2. inv'[q] + inv'[p] + Unsent(q)' + Unsent(p)' + b + a + y + x
          <= inv[q] + inv[p] + Unsent(q) + Unsent(p) + req.n + a + y + x
    BY <1>0, <1>1, <1>2, <1>6, <2>1
  <2> QED
    BY <1>6, <1>7, <2>1, <2>2
<1>8. CASE req.op # "SEND" /\ Refund(p, x)
  <2>1. inv'[q] <= inv[q] /\ inv'[q] \in Int
    BY <1>0, <1>1, <1>6, <1>8, ServedGoods
  <2>2. inv'[q] + inv'[p] + Unsent(q)' + Unsent(p)' + b + a + y + x
          <= inv[q] + inv[p] + Unsent(q) + Unsent(p) + 0 + a + y + x
    BY <1>0, <1>1, <1>2, <1>6, <2>1
  <2> QED
    BY <1>6, <1>8, <2>2
<1>9. CASE req.op # "SEND" /\ reply.op \in Goods /\ x = reply.n
  <2>1. inv'[q] + x = inv[q] /\ inv'[q] \in Int
    BY <1>0, <1>1, <1>6, <1>9, ServedGoods
  <2>2. inv'[q] + inv'[p] + Unsent(q)' + Unsent(p)' + b + a + y + x
          <= inv[q] + inv[p] + Unsent(q) + Unsent(p) + 0 + a + y + 0
    BY <1>0, <1>1, <1>2, <1>6, <2>1
  <2> QED
    BY <1>6, <2>2
<1> QED
  BY <1>4, <1>7, <1>8, <1>9

LEMMA ReactCovers ==
  ASSUME IInv, IInv', SInv, NEW q \in Peers, React(q) \/ ReadAndReact(q)
  PROVE  Covers(q)
<1>0. /\ Other(q) \in Peers /\ Other(Other(q)) = q /\ srv[q].req \in Payloads
  BY OtherOther DEF IInv, TypeOK, ServerStates
<1>1. CASE React(q)
  <2>1. /\ pc[q] = "check" /\ Serve(q, srv[q].req) /\ UNCHANGED wire
        /\ srv[q].req.op = "SEND" => Parcel(q, srv[q].req.n)
    BY <1>1 DEF React, Parcel, Held
  <2> QED
    BY <1>0, <1>1, <2>1, ServeCovers DEF Respond
<1>2. CASE ReadAndReact(q)
  <2> DEFINE h == Head(queue[q])
  <2>1. /\ pc[q] = "check" /\ Serve(q, h.body) /\ UNCHANGED wire /\ queue[q] # <<>>
        /\ h.kind = "request" /\ srv[q].got = "none"
    BY <1>2 DEF ReadAndReact
  <2>2. h.body \in Payloads
    <3>1. h \in Datagrams(ToListener)
      BY <2>1, QueueTypes DEF IInv
    <3> QED
      BY <3>1 DEF Datagrams
  <2>3. h \in Asks(Other(q)) /\ h.sid = srv[q].sid
    BY <1>0, <2>1, ReadOwn DEF Keyed
  <2>4. h.body.op = "SEND" => Parcel(q, h.body.n)
    BY <2>1, <2>3 DEF Parcel, Carries, Catching
  <2> QED
    BY <1>0, <1>2, <2>1, <2>2, <2>4, ServeCovers DEF Respond
<1> QED
  BY <1>1, <1>2

\* A step of a server that neither applies a request nor takes a claim to a new one.
LEMMA ServerQuiet ==
  ASSUME IInv, IInv', NEW q \in Peers, NEW p, p = Other(q), Accept(q) \/ Respond(q),
         UNCHANGED inv,
         \A n : Parcel(q, n)' => Parcel(q, n), \A n : Refund(p, n)' => Refund(p, n)
  PROVE  Covers(q)
<1>1. /\ \A n : Parcel(p, n)' => Parcel(p, n)
      /\ \A n : Refund(q, n)' => Refund(q, n)
      /\ Unsent(p)' = Unsent(p) /\ Unsent(q)' = Unsent(q)
  BY ServerItems
<1>2. Unsent(p)' <= Unsent(p) /\ Unsent(q)' <= Unsent(q)
  <2>1. ItemTyping
    BY ItemTypes DEF IInv
  <2> QED
    BY <1>1, <2>1, OtherIsPeer DEF ItemTyping
<1> QED
  BY <1>1, <1>2, QuietCovers DEF IInv

LEMMA AcceptCovers ==
  ASSUME IInv, IInv', NEW q \in Peers, Accept(q)
  PROVE  Covers(q)
<1> USE DEF IInv
<1> DEFINE p == Other(q)
<1>0. p \in Peers /\ p # q /\ q = Other(p)
  BY OtherOther
<1>1. /\ pc[q] \in {"accept", "acceptWait"} /\ UNCHANGED inv
      /\ srv'[q].sid = srv[q].sid /\ srv'[q].got = srv[q].got
  <2>1. CASE AcceptHello(q)
    <3> DEFINE new == [srv[q] EXCEPT !.stage = 1]
    <3>1. srv[q] \in ServerStates /\ srv'[q] = new
      BY <2>1 DEF AcceptHello, TypeOK
    <3>2. new.sid = srv[q].sid /\ new.got = srv[q].got
      BY <3>1 DEF ServerStates
    <3> QED
      BY <2>1, <3>1, <3>2 DEF AcceptHello
  <2> QED
    BY <2>1 DEF Accept, AcceptRepeat, AcceptFinish, AcceptFatal, AcceptDrop,
       AcceptWouldBlock, AcceptWake
<1>2. pc'[q] \in {"accept", "acceptWait", "read", "loop"}
  BY DEF Accept, AcceptHello, AcceptRepeat, AcceptFinish, AcceptFatal, AcceptDrop,
     AcceptWouldBlock, AcceptWake, AcceptFails, Goto, TypeOK
<1>3. pc'[p] = pc[p] /\ cl'[p] = cl[p]
  BY <1>0, ServerItems
<1>4. /\ Records(p) = {} /\ \A d \in News(p) : d.kind # "reply"
  <2>1. pc[q] # "reply"
    BY <1>1
  <2> QED
    BY <2>1, ServerSpeaks DEF Records, Reply
<1>5. \A n : Parcel(q, n)' => Parcel(q, n)
  BY <1>1, <1>2, <1>4, ParcelStep DEF Catching, Held
<1>6. \A n : Refund(p, n)' => Refund(p, n)
  BY <1>0, <1>2, <1>3, <1>4, RefundStep DEF Debited
<1> QED
  BY <1>1, <1>5, <1>6, ServerQuiet

LEMMA ReadCovers ==
  ASSUME IInv, IInv', SInv, NEW q \in Peers, FirstRead(q) \/ ReadClose(q) \/ ReadRepeat(q)
  PROVE  Covers(q)
<1> USE DEF IInv
<1> DEFINE p == Other(q)
           h == Head(queue[q])
<1>0. /\ p \in Peers /\ p # q /\ q = Other(p) /\ srv[q] \in ServerStates /\ Buffered(q)
      /\ Respond(q)
  BY OtherOther DEF TypeOK, SInv, Server, Respond
<1>1. pc[q] \in {"read", "check"} /\ UNCHANGED inv /\ srv[q].got = "none" /\ Catching(q) /\ ~Held(q)
  BY <1>0 DEF FirstRead, ReadClose, ReadRepeat, Reading, Buffered, Catching, Held
<1>2. pc'[p] = pc[p] /\ cl'[p] = cl[p]
  BY <1>0, ServerItems
<1>3. /\ Records(p) = {} /\ \A d \in News(p) : d.kind # "reply"
  <2>1. pc[q] # "reply"
    BY <1>1
  <2> QED
    BY <1>0, <2>1, ServerSpeaks DEF Records, Reply
<1>4. CASE FirstRead(q) /\ queue[q] # <<>>
  <2>1. /\ pc'[q] = "check" /\ h.kind = "request"
        /\ srv' = [srv EXCEPT ![q] = [@ EXCEPT !.got = "data", !.req = h.body]]
    BY <1>4 DEF FirstRead, Goto, TypeOK
  <2>2. srv'[q].got = "data" /\ srv'[q].req = h.body
    BY <1>0, <2>1 DEF ServerStates, TypeOK
  <2>3. h \in Asks(p) /\ h.sid = srv[q].sid
    BY <1>0, <1>1, <1>4, <2>1, ReadOwn DEF Keyed
  <2>4. \A n : Parcel(q, n)' => Parcel(q, n)
    BY <1>1, <2>1, <2>2, <2>3 DEF Parcel, Carries, Catching, Held
  <2>5. \A n : Refund(p, n)' => Refund(p, n)
    BY <1>0, <1>2, <1>3, <2>1, RefundStep DEF Debited
  <2> QED
    BY <1>0, <1>1, <2>4, <2>5, ServerQuiet
<1>5. CASE (FirstRead(q) /\ queue[q] = <<>>) \/ ReadClose(q) \/ ReadRepeat(q)
  <2>1. srv'[q].sid = srv[q].sid /\ srv'[q].got # "data"
    <3>1. CASE FirstRead(q) /\ queue[q] = <<>>
      <4>1. srv' = [srv EXCEPT ![q] = [@ EXCEPT !.got = "none"]]
        BY <3>1 DEF FirstRead
      <4> QED
        BY <1>0, <4>1 DEF ServerStates, TypeOK
    <3>2. CASE ReadClose(q)
      <4>1. srv' = [srv EXCEPT ![q] = [@ EXCEPT !.got = "closed"]]
        BY <3>2 DEF ReadClose
      <4> QED
        BY <1>0, <4>1 DEF ServerStates, TypeOK
    <3>3. CASE ReadRepeat(q)
      BY <1>1, <3>3 DEF ReadRepeat
    <3> QED
      BY <1>5, <3>1, <3>2, <3>3
  <2>2. \A n : Parcel(q, n)' => Parcel(q, n)
    BY <1>1, <1>3, <2>1, ParcelStep DEF Catching, Held
  <2>3. \A n : Refund(p, n)' => Refund(p, n)
    BY <1>0, <1>2, <1>3, <2>1, RefundStep DEF Debited
  <2> QED
    BY <1>0, <1>1, <2>2, <2>3, ServerQuiet
<1> QED
  BY <1>4, <1>5

LEMMA ReplyCovers ==
  ASSUME IInv, IInv', SInv, NEW q \in Peers, Reply(q)
  PROVE  Covers(q)
<1> USE DEF IInv
<1> DEFINE p == Other(q)
<1>0. /\ p \in Peers /\ p # q /\ q = Other(p) /\ srv[q] \in ServerStates /\ Buffered(q)
      /\ Matched(p) /\ Asking(p) /\ Respond(q)
  BY OtherOther DEF TypeOK, SInv, Server, Pair, Dialogue, Respond
<1>1. pc[q] = "reply" /\ pc'[q] = "drain" /\ UNCHANGED <<inv, srv>>
  BY DEF Reply, Goto, TypeOK
<1>2. pc'[p] = pc[p] /\ cl'[p] = cl[p]
  BY <1>0, ServerItems
<1>3. \A n : Parcel(q, n)' => Parcel(q, n)
  BY <1>1 DEF Parcel, Carries, Catching, Held
<1>4. ASSUME NEW d \in News(p), Credits(p, d)' PROVE Debited(p) /\ d.body = srv[q].buf
  <2>1. /\ ~cleanup[q] /\ d.port = srv[q].port /\ d.body = srv[q].buf
        /\ pc[p] = "await" /\ srv[q].port = cl[p].port /\ srv[q].buf.op \in Goods
    BY <1>0, <1>2, <1>4, ServerSpeaks DEF Credits
  <2>2. srv[q].got = "data"
    BY <1>0, <1>1, <2>1 DEF Buffered, Matched, ServerStates, ClientPcs
  <2>3. srv[q].req = cl[p].cmd /\ cl[p].cmd.op \in Commands \ {"SEND"}
    BY <1>0, <1>1, <2>1, <2>2 DEF Matched, Asking, ClientPcs
  <2>4. srv[q].ptr = "heap"
    BY <1>0, <1>1, <2>2, <2>3 DEF Buffered, Commands
  <2> QED
    BY <1>0, <1>1, <2>1, <2>2, <2>4 DEF Debited
<1>5. \A n : Refund(p, n)' => Refund(p, n)
  <2> SUFFICES ASSUME NEW n, Refund(p, n)' PROVE Refund(p, n)
    OBVIOUS
  <2>1. ~Debited(p)'
    BY <1>0, <1>1 DEF Debited
  <2>2. CASE \E d \in Tells(p)' : Credits(p, d)' /\ n = d.body.n
    <3>1. PICK d \in Tells(p)' : Credits(p, d)' /\ n = d.body.n
      BY <2>2
    <3>2. CASE d \in Tells(p)
      BY <1>2, <3>1, <3>2 DEF Refund, Credits
    <3>3. CASE d \in News(p)
      BY <1>0, <1>4, <3>1, <3>3 DEF Refund
    <3> QED
      BY <3>2, <3>3 DEF News
  <2> QED
    BY <2>1, <2>2 DEF Refund
<1> QED
  BY <1>0, <1>1, <1>3, <1>5, ServerQuiet

LEMMA ServerCovers ==
  ASSUME IInv, IInv', SInv, NEW q \in Peers, Accept(q) \/ Respond(q)
  PROVE  Covers(q)
<1> USE DEF IInv
<1> DEFINE p == Other(q)
<1>0. p \in Peers /\ p # q /\ q = Other(p) /\ srv[q].req \in Payloads /\ srv[q] \in ServerStates
  BY OtherOther DEF TypeOK, ServerStates
<1>1. CASE CheckInterrupted(q)
  <2>1. pc[q] = "check" /\ UNCHANGED wire /\ Respond(q)
    BY <1>1 DEF CheckInterrupted, Respond
  <2>2. CASE srv[q].got = "data" /\ Serve(q, srv[q].req)
    <3>1. srv[q].req.op = "SEND" => Parcel(q, srv[q].req.n)
      BY <2>1, <2>2 DEF Parcel, Held
    <3> QED
      BY <1>0, <2>1, <2>2, <3>1, ServeCovers
  <2>3. CASE UNCHANGED <<inv, srv>> /\ pc'[q] \in {"reply", "crashed"}
             /\ (pc'[q] = "reply" => srv[q].got = "none")
    <3>1. pc'[p] = pc[p] /\ cl'[p] = cl[p]
      BY <1>0, <2>1, ServerItems
    <3>2. \A d \in News(p) : d.kind # "reply"
      BY <2>1, ServerSpeaks DEF Reply
    <3>3. \A n : Parcel(q, n)' => Parcel(q, n)
      BY <2>3 DEF Parcel, Carries, Catching, Held
    <3>4. \A n : Refund(p, n)' => Refund(p, n)
      BY <1>0, <2>3, <3>1, <3>2, RefundStep DEF Debited
    <3> QED
      BY <2>1, <2>3, <3>3, <3>4, ServerQuiet
  <2> QED
    BY <1>1, <2>2, <2>3 DEF CheckInterrupted, Goto, TypeOK
<1>2. CASE Drain(q)
  <2>1. pc[q] = "drain" /\ UNCHANGED inv /\ Respond(q) /\ pc'[q] \in {"loop", "shell"}
    BY <1>2 DEF Drain, Respond, Goto, TypeOK
  <2>2. pc'[p] = pc[p] /\ cl'[p] = cl[p]
    BY <1>0, <2>1, ServerItems
  <2>3. \A d \in News(p) : d.kind # "reply"
    BY <2>1, ServerSpeaks DEF Reply
  <2>4. \A n : Parcel(q, n)' => Parcel(q, n)
    BY <2>1 DEF Parcel, Carries, Catching, Held
  <2>5. \A n : Refund(p, n)' => Refund(p, n)
    BY <1>0, <2>1, <2>2, <2>3, RefundStep DEF Debited
  <2> QED
    BY <2>1, <2>4, <2>5, ServerQuiet
<1> QED
  BY <1>1, <1>2, AcceptCovers, ReadCovers, ReactCovers, ReplyCovers DEF Respond

-----------------------------------------------------------------------------
(* The client's side.                                                      *)

\* The only message a client sends is its command.
LEMMA ClientSpeaks ==
  ASSUME IInv, NEW p \in Peers, Client(p)
  PROVE  /\ Tells(p)' \subseteq Tells(p)
         /\ \A d \in Records(p) : d.kind = "request" =>
              /\ Write(p) /\ d.body = cl[p].cmd
              /\ d.port = cl[p].port /\ d.sid = cl[p].sid
<1> USE DEF IInv
<1> DEFINE Sends(kind, sid) == Send(p, Flight(kind, cl[p].port, sid))
           Asks1 == Send(p, Dgram("request", cl[p].port, cl[p].sid, cl[p].cmd))
           Reads == (answers[p] # <<>> /\ PopAnswer(p)) \/ EndSession(p) \/ UNCHANGED answers
           Goal == /\ Tells(p)' \subseteq Tells(p)
                   /\ \A d \in Records(p) : d.kind = "request" =>
                        /\ Write(p) /\ d.body = cl[p].cmd
                        /\ d.port = cl[p].port /\ d.sid = cl[p].sid
<1>0. cl[p] \in ClientStates
  BY DEF TypeOK
<1>1. UNCHANGED <<srv, queue, cleanup, late>>
  BY DEF Client, ConnectOffer, ConnectFinished, ClientRepeat, ClientDrop, ConnectRetry,
     ConnectGiveUp, Write, Await, Bye, env
<1>2. pc[p] \in ClientPcs
  BY DEF Client, ConnectOffer, ConnectFinished, ClientRepeat, ClientDrop, ConnectRetry,
     ConnectGiveUp, TimerFires, Write, Await, Bye, ClientPcs
<1>3. Reads
  BY DEF Client, ConnectOffer, ConnectFinished, ClientRepeat, ClientDrop, ConnectRetry,
     ConnectGiveUp, Write, Await, Bye
<1>4. Shrinks(queue, queue') /\ Shrinks(answers, answers')
  BY <1>1, <1>3, QueueShrinks, AnswersShrink
<1>5. CASE UNCHANGED wire
  <2>1. Silent
    BY <1>1, <1>4, <1>5, SilentStep
  <2> QED
    BY <2>1 DEF Silent, Records
<1>6. ASSUME NEW kind \in {"hello", "finish", "close"}, NEW sid \in Sids \cup {0}, Sends(kind, sid)
      PROVE  Goal
  <2>1. PICK d : AsksGrow(p, d) /\ d.kind = kind
    BY <1>1, <1>2, <1>4, <1>6, FlightAsks
  <2> QED
    BY <2>1 DEF AsksGrow, Records
<1>7. ASSUME Write(p), Asks1 PROVE Goal
  <2>1. cl[p].sid \in Sids \cup {0} /\ cl[p].cmd \in Payloads /\ "request" \in ToListener
    BY <1>0 DEF ClientStates, ToListener
  <2>2. PICK d : /\ AsksGrow(p, d) /\ d.body = cl[p].cmd
                 /\ d.port = cl[p].port /\ d.sid = cl[p].sid
    BY <1>1, <1>2, <1>4, <1>7, <2>1, ClientAsks
  <2> QED
    BY <1>7, <2>2 DEF AsksGrow, Records
<1>8. \/ UNCHANGED wire \/ (Write(p) /\ Asks1)
      \/ \E kind \in {"hello", "finish", "close"}, sid \in Sids \cup {0} : Sends(kind, sid)
  <2>1. cl[p].sid \in Sids \cup {0}
    BY <1>0 DEF ClientStates
  <2>2. ASSUME ConnectOffer(p)
        PROVE  Sends("finish", Head(answers[p]).sid) /\ Head(answers[p]).sid \in Sids \cup {0}
    BY <2>2, AnswerTypes DEF ConnectOffer, Datagrams
  <2>3. ClientRepeat(p) => Sends("finish", cl[p].sid)
    BY DEF ClientRepeat
  <2>4. ConnectRetry(p) => Sends("hello", cl[p].sid) \/ Sends("finish", cl[p].sid)
    BY DEF ConnectRetry
  <2>5. Write(p) => Asks1
    BY DEF Write
  <2>6. Bye(p) => Sends("close", cl[p].sid)
    BY DEF Bye
  <2>7. ConnectFinished(p) \/ ClientDrop(p) \/ ConnectGiveUp(p) \/ Await(p) => UNCHANGED wire
    BY DEF ConnectFinished, ClientDrop, ConnectGiveUp, Await
  <2> QED
    BY <2>1, <2>2, <2>3, <2>4, <2>5, <2>6, <2>7 DEF Client
<1> QED
  BY <1>5, <1>6, <1>7, <1>8

\* Whatever the client p does, it serves nobody: what the other peer may still claim of it
\* as a client stays what it is.
LEMMA ClientItems ==
  ASSUME IInv, SInv, NEW p \in Peers, NEW q, q = Other(p), Client(p)
  PROVE  /\ \A n : Parcel(p, n)' => Parcel(p, n)
         /\ \A n : Refund(q, n)' => Refund(q, n)
         /\ Unsent(q)' = Unsent(q) /\ inv'[q] = inv[q]
         /\ pc'[q] = pc[q] /\ srv'[q] = srv[q]
<1>0. q \in Peers /\ p # q /\ p = Other(q)
  BY OtherOther
<1>1. /\ Asks(q)' \subseteq Asks(q) /\ Tells(q)' \subseteq Tells(q) /\ KeepsClient(q)
      /\ pc[p] \in ClientPcs /\ pc'[p] \in ClientPcs \cup {"select", "loop", "crashed"}
      /\ UNCHANGED <<srv, queue, cleanup>>
  BY ClientFrame
<1>2. \A n : Parcel(p, n)' => Parcel(p, n)
  BY <1>1 DEF Parcel, Carries, Catching, Held, ClientPcs
<1>3. \A n : Refund(q, n)' => Refund(q, n)
  <2>1. News(q) = {} /\ pc'[p] # "reply"
    BY <1>1 DEF News, ClientPcs
  <2> QED
    BY <1>0, <1>1, <2>1, RefundStep DEF Debited, KeepsClient
<1>4. inv'[q] = inv[q]
  BY <1>0 DEF Client, ConnectOffer, ConnectFinished, ClientRepeat, ClientDrop, ConnectRetry,
     ConnectGiveUp, Write, Await, Bye, IInv, TypeOK
<1> QED
  BY <1>1, <1>2, <1>3, <1>4 DEF KeepsClient, Unsent

\* The handshake, and the end of a session, credit nothing.
LEMMA FlightCovers ==
  ASSUME IInv, IInv', SInv, NEW p \in Peers,
         \/ ConnectOffer(p) \/ ConnectFinished(p) \/ ClientRepeat(p) \/ ClientDrop(p)
         \/ ConnectRetry(p) \/ ConnectGiveUp(p) \/ Bye(p)
  PROVE  Covers(p)
<1> USE DEF IInv
<1> DEFINE q == Other(p)
<1>0. q \in Peers /\ p # q /\ p = Other(q) /\ Client(p) /\ cl[p] \in ClientStates
  BY OtherOther DEF Client, TypeOK
<1>1. /\ \A n : Parcel(p, n)' => Parcel(p, n)
      /\ \A n : Refund(q, n)' => Refund(q, n)
      /\ Unsent(q)' = Unsent(q) /\ inv'[q] = inv[q] /\ pc'[q] = pc[q] /\ srv'[q] = srv[q]
  BY <1>0, ClientItems
<1>2. pc[p] \in {"connect", "await", "bye"} /\ UNCHANGED <<inv, srv>>
  BY DEF ConnectOffer, ConnectFinished, ClientRepeat, ClientDrop, ConnectRetry,
     ConnectGiveUp, TimerFires, Bye
<1>3. cl'[p].port = cl[p].port /\ cl'[p].cmd = cl[p].cmd
  <2>1. CASE UNCHANGED cl
    BY <2>1
  <2>2. CASE ConnectOffer(p)
    <3>1. cl' = [cl EXCEPT ![p] =
                   [@ EXCEPT !.sid = Head(answers[p]).sid, !.stage = 2, !.retries = 0]]
      BY <2>2 DEF ConnectOffer
    <3> QED
      BY <1>0, <3>1 DEF ClientStates, TypeOK
  <2>3. CASE ConnectRetry(p)
    <3>1. cl' = [cl EXCEPT ![p] = [@ EXCEPT !.retries = cl[p].retries + 1]]
      BY <2>3 DEF ConnectRetry
    <3> QED
      BY <1>0, <3>1 DEF ClientStates, TypeOK
  <2> QED
    BY <2>1, <2>2, <2>3 DEF ConnectFinished, ClientRepeat, ClientDrop, ConnectGiveUp, Bye
<1>4. pc'[p] = pc[p] \/ (pc[p] = "connect" /\ pc'[p] = "write") \/ pc'[p] \in {"select", "loop"}
  BY DEF ConnectOffer, ConnectFinished, ClientRepeat, ClientDrop, ConnectRetry,
     ConnectGiveUp, TimerFires, Bye, EndSession, Goto, TypeOK
<1>5. Unsent(p)' <= Unsent(p) /\ Unsent(q)' <= Unsent(q)
  <2>1. Unsent(p) \in Nat /\ Unsent(q) \in Nat
    BY <1>0, ItemTypes DEF ItemTyping
  <2>2. Unsent(p)' = Unsent(p) \/ Unsent(p)' = 0
    BY <1>2, <1>3, <1>4 DEF Unsent
  <2> QED
    BY <1>1, <2>1, <2>2
<1>6. /\ \A d \in Records(p) : d.kind # "request"
      /\ News(p) = {}
  <2>1. pc[p] # "write"
    BY <1>2
  <2> QED
    BY <1>0, <2>1, ClientSpeaks DEF News, Write
<1>7. \A n : Parcel(q, n)' => Parcel(q, n)
  BY <1>0, <1>1, <1>6, ParcelStep DEF Catching, Held
<1>8. \A n : Refund(p, n)' => Refund(p, n)
  BY <1>1, <1>3, <1>4, <1>6, RefundStep DEF Debited
<1> QED
  BY <1>0, <1>1, <1>2, <1>5, <1>7, <1>8, QuietCovers

\* A SEND leaves the client for the network; a client that begins to wait can claim nothing yet.
LEMMA WriteCovers ==
  ASSUME IInv, IInv', SInv, NEW p \in Peers, Write(p)
  PROVE  Covers(p)
<1> USE DEF IInv
<1> DEFINE q == Other(p)
           n0 == cl[p].cmd.n
<1>0. /\ q \in Peers /\ p # q /\ p = Other(q) /\ Client(p) /\ Matched(p)
      /\ cl[p].cmd \in Payloads
  BY OtherOther DEF Client, TypeOK, SInv, Pair, Dialogue, ClientStates
<1>1. /\ \A n : Parcel(p, n)' => Parcel(p, n)
      /\ \A n : Refund(q, n)' => Refund(q, n)
      /\ Unsent(q)' = Unsent(q) /\ pc'[q] = pc[q] /\ srv'[q] = srv[q]
  BY <1>0, ClientItems
<1>2. pc[p] = "write" /\ pc'[p] \in {"await", "bye"} /\ UNCHANGED <<inv, srv, cl>>
  BY DEF Write, Goto, TypeOK
<1>3. Unsent(p)' = 0 /\ Unsent(p) = IF cl[p].cmd.op = "SEND" THEN n0 ELSE 0
  BY <1>2 DEF Unsent
<1>4. Tells(p)' \subseteq Tells(p)
  BY <1>0, ClientSpeaks
<1>5. ASSUME NEW n, Refund(p, n)' PROVE n = 0
  <2>1. ~Written(p) /\ pc[p] \in ClientPcs
    BY <1>2 DEF Written, ClientPcs
  <2>2. \A d \in Tells(p)' : ~Credits(p, d)'
    BY <1>0, <1>2, <1>4, <2>1 DEF Credits, Matched
  <2>3. ~Debited(p)'
    BY <1>0, <1>1, <1>2, <2>1 DEF Debited, Matched
  <2> QED
    BY <1>5, <2>2, <2>3 DEF Refund
<1>6. ASSUME NEW n, Parcel(q, n)' PROVE Parcel(q, n) \/ (cl[p].cmd.op = "SEND" /\ n = n0)
  <2>1. CASE n = 0
    BY <2>1 DEF Parcel
  <2>2. CASE Held(q)' /\ n = srv'[q].req.n
    BY <1>1, <2>2 DEF Parcel, Held
  <2>3. CASE \E d \in Asks(p)' : Carries(q, d)' /\ n = d.body.n
    <3>1. PICK d \in Asks(p)' : Carries(q, d)' /\ n = d.body.n
      BY <2>3
    <3>2. CASE d \in Asks(p)
      BY <1>0, <1>1, <3>1, <3>2 DEF Parcel, Carries, Catching
    <3>3. CASE d \in Records(p)
      BY <1>0, <3>1, <3>3, ClientSpeaks DEF Carries
    <3> QED
      BY <3>2, <3>3 DEF Records
  <2> QED
    BY <1>0, <1>6, <2>1, <2>2, <2>3 DEF Parcel
<1>7. ItemTyping /\ ItemTyping'
  BY ItemTypes, PTL
<1> SUFFICES ASSUME NEW a, NEW b, NEW x, NEW y,
                    Parcel(p, a)', Parcel(q, b)', Refund(p, x)', Refund(q, y)'
             PROVE  \E a0, b0, x0, y0 :
                      /\ Parcel(p, a0) /\ Parcel(q, b0) /\ Refund(p, x0) /\ Refund(q, y0)
                      /\ inv'[p] + inv'[q] + Unsent(p)' + Unsent(q)' + a + b + x + y
                           <= inv[p] + inv[q] + Unsent(p) + Unsent(q) + a0 + b0 + x0 + y0
  BY DEF Covers
<1>8. /\ Unsent(p) \in Nat /\ Unsent(q) \in Nat /\ a \in Nat /\ b \in Nat /\ x = 0 /\ y \in Nat
      /\ Parcel(p, a) /\ Refund(q, y) /\ Parcel(q, 0) /\ Refund(p, 0)
      /\ inv[p] \in Int /\ inv[q] \in Int /\ inv'[p] = inv[p] /\ inv'[q] = inv[q]
  BY <1>0, <1>1, <1>2, <1>5, <1>7 DEF ItemTyping, Parcel, Refund
<1>9. CASE Parcel(q, b)
  <2>1. inv'[p] + inv'[q] + Unsent(p)' + Unsent(q)' + a + b + x + y
          <= inv[p] + inv[q] + Unsent(p) + Unsent(q) + a + b + 0 + y
    BY <1>1, <1>3, <1>8
  <2> QED
    BY <1>8, <1>9, <2>1
<1>10. CASE cl[p].cmd.op = "SEND" /\ b = n0
  <2>1. inv'[p] + inv'[q] + Unsent(p)' + Unsent(q)' + a + b + x + y
          <= inv[p] + inv[q] + Unsent(p) + Unsent(q) + a + 0 + 0 + y
    BY <1>1, <1>3, <1>8, <1>10
  <2> QED
    BY <1>8, <2>1
<1> QED
  BY <1>6, <1>9, <1>10

\* What a client credits was taken from the other stock for it, and it waits no more.
LEMMA AwaitCovers ==
  ASSUME IInv, IInv', SInv, NEW p \in Peers, Await(p)
  PROVE  Covers(p)
<1> USE DEF IInv
<1> DEFINE q == Other(p)
           h == Head(answers[p])
<1>0. /\ q \in Peers /\ p # q /\ p = Other(q) /\ Client(p) /\ Pair(p) /\ TypeOK
  BY OtherOther DEF Client, SInv
<1>1. /\ \A n : Parcel(p, n)' => Parcel(p, n)
      /\ \A n : Refund(q, n)' => Refund(q, n)
      /\ Unsent(q)' = Unsent(q) /\ inv'[q] = inv[q] /\ pc'[q] = pc[q] /\ srv'[q] = srv[q]
  BY <1>0, ClientItems
<1>2. /\ pc[p] = "await" /\ pc[p] \in ClientPcs /\ pc'[p] \in {"bye", "crashed"}
      /\ answers[p] # <<>> /\ h.kind = "reply" /\ UNCHANGED <<srv, cl>>
  BY DEF Await, Goto, TypeOK, ClientPcs
<1>3. Unsent(p)' = 0 /\ Unsent(p) = 0
  BY <1>2 DEF Unsent
<1>4. h \in Tells(p) /\ h.port = cl[p].port
  BY <1>0, <1>2, HeadTold DEF Pair
<1>5. h.body.op \in Goods \cup {"CHECK", "INSUFFICIENT"}
  BY <1>0, <1>2, <1>4
     DEF Pair, Dialogue, Matched, Asking, Fits, Goods, Commands
<1>6. \E x0 : Refund(p, x0) /\ x0 \in Nat /\ inv'[p] = inv[p] + x0
  <2>1. inv' = [inv EXCEPT ![p] = AnsweredInventory(@, h.body)]
    BY <1>5 DEF Await, Goods
  <2>2. inv'[p] = AnsweredInventory(inv[p], h.body) /\ inv[p] \in Int
    BY <2>1 DEF TypeOK
  <2>3. CASE h.body.op \in Goods
    <3>1. inv'[p] = inv[p] + h.body.n
      BY <2>2, <2>3 DEF AnsweredInventory, Goods
    <3>2. Refund(p, h.body.n)
      BY <1>2, <1>4, <2>3 DEF Refund, Credits
    <3> QED
      BY <1>0, <3>1, <3>2, ItemTypes DEF ItemTyping
  <2>4. CASE h.body.op \notin Goods
    <3>1. inv'[p] = inv[p] + 0
      BY <1>5, <2>2, <2>4 DEF AnsweredInventory, Goods
    <3> QED
      BY <3>1 DEF Refund
  <2> QED
    BY <2>3, <2>4
<1>7. \A n : Parcel(q, n)' => Parcel(q, n)
  <2>1. \A d \in Records(p) : d.kind # "request"
    BY <1>0, <1>2, ClientSpeaks DEF Write
  <2> QED
    BY <1>0, <1>1, <2>1, ParcelStep DEF Catching, Held
<1>8. \A n : Refund(p, n)' => n = 0
  BY <1>2 DEF Refund, Credits, Debited
<1>9. ItemTyping /\ ItemTyping'
  BY ItemTypes, PTL
<1> SUFFICES ASSUME NEW a, NEW b, NEW x, NEW y,
                    Parcel(p, a)', Parcel(q, b)', Refund(p, x)', Refund(q, y)'
             PROVE  \E a0, b0, x0, y0 :
                      /\ Parcel(p, a0) /\ Parcel(q, b0) /\ Refund(p, x0) /\ Refund(q, y0)
                      /\ inv'[p] + inv'[q] + Unsent(p)' + Unsent(q)' + a + b + x + y
                           <= inv[p] + inv[q] + Unsent(p) + Unsent(q) + a0 + b0 + x0 + y0
  BY DEF Covers
<1>10. PICK x0 : Refund(p, x0) /\ x0 \in Nat /\ inv'[p] = inv[p] + x0
  BY <1>6
<1>11. /\ Unsent(q) \in Nat /\ a \in Nat /\ b \in Nat /\ x = 0 /\ y \in Nat
       /\ Parcel(p, a) /\ Parcel(q, b) /\ Refund(q, y)
       /\ inv[p] \in Int /\ inv[q] \in Int
  BY <1>0, <1>1, <1>7, <1>8, <1>9 DEF ItemTyping
<1>12. inv'[p] + inv'[q] + Unsent(p)' + Unsent(q)' + a + b + x + y
         <= inv[p] + inv[q] + Unsent(p) + Unsent(q) + a + b + x0 + y
  BY <1>1, <1>3, <1>10, <1>11
<1> QED
  BY <1>10, <1>11, <1>12

-----------------------------------------------------------------------------
(* The main loop, the shell, and the environment.                          *)

\* p is in no session after the step, and sends no request.
LEMMA RestCovers ==
  ASSUME IInv, IInv', NEW p \in Peers, NEW q, q = Other(p),
         pc'[p] \notin {"accept", "acceptWait", "read", "check", "reply", "await"},
         pc'[q] = pc[q], srv'[q] = srv[q], cl'[q] = cl[q], inv'[q] = inv[q],
         \A d \in Records(p) : d.kind # "request", Tells(q)' \subseteq Tells(q),
         inv'[p] + Unsent(p)' <= inv[p] + Unsent(p)
  PROVE  Covers(p)
<1> USE DEF IInv
<1>0. q \in Peers /\ p # q /\ p = Other(q)
  BY OtherOther
<1>1. \A n : Parcel(p, n)' => n = 0
  BY DEF Parcel, Carries, Catching, Held
<1>2. \A n : Refund(p, n)' => n = 0
  BY DEF Refund, Credits, Debited
<1>3. \A n : Parcel(q, n)' => Parcel(q, n)
  BY <1>0, ParcelStep DEF Catching, Held
<1>4. \A n : Refund(q, n)' => Refund(q, n)
  <2>1. News(q) = {}
    BY DEF News
  <2> QED
    BY <1>0, <2>1, RefundStep DEF Debited
<1>5. Unsent(q)' = Unsent(q)
  BY DEF Unsent
<1>6. ItemTyping /\ ItemTyping'
  BY ItemTypes, PTL
<1> SUFFICES ASSUME NEW a, NEW b, NEW x, NEW y,
                    Parcel(p, a)', Parcel(q, b)', Refund(p, x)', Refund(q, y)'
             PROVE  \E a0, b0, x0, y0 :
                      /\ Parcel(p, a0) /\ Parcel(q, b0) /\ Refund(p, x0) /\ Refund(q, y0)
                      /\ inv'[p] + inv'[q] + Unsent(p)' + Unsent(q)' + a + b + x + y
                           <= inv[p] + inv[q] + Unsent(p) + Unsent(q) + a0 + b0 + x0 + y0
  BY DEF Covers
<1>7. /\ Unsent(p) \in Nat /\ Unsent(q) \in Nat /\ a = 0 /\ b \in Nat /\ x = 0 /\ y \in Nat
      /\ Parcel(p, a) /\ Parcel(q, b) /\ Refund(p, x) /\ Refund(q, y)
      /\ inv[p] \in Int /\ inv[q] \in Int /\ inv'[p] \in Int /\ Unsent(p)' \in Nat
  BY <1>0, <1>1, <1>2, <1>3, <1>4, <1>6 DEF ItemTyping, Parcel, Refund
<1>8. inv'[p] + inv'[q] + Unsent(p)' + Unsent(q)' + a + b + x + y
        <= inv[p] + inv[q] + Unsent(p) + Unsent(q) + a + b + x + y
  BY <1>5, <1>7
<1> QED
  BY <1>7, <1>8

\* Every inventory, server and place stays, and nothing is new on its way.
LEMMA SilentCovers ==
  ASSUME IInv, IInv', NEW p \in Peers, UNCHANGED <<inv, pc, srv, cl>>, Silent
  PROVE  Covers(p)
<1> USE DEF IInv
<1> DEFINE q == Other(p)
<1>0. q \in Peers /\ Other(q) = p
  BY OtherOther
<1>1. Records(p) = {} /\ Records(q) = {} /\ News(p) = {} /\ News(q) = {}
  BY <1>0 DEF Silent, Records, News
<1>2. /\ \A n : Parcel(p, n)' => Parcel(p, n)
      /\ \A n : Parcel(q, n)' => Parcel(q, n)
  BY <1>0, <1>1, ParcelStep DEF Catching, Held
<1>3. /\ \A n : Refund(p, n)' => Refund(p, n)
      /\ \A n : Refund(q, n)' => Refund(q, n)
  BY <1>0, <1>1, RefundStep DEF Debited
<1>4. Unsent(p)' <= Unsent(p) /\ Unsent(q)' <= Unsent(q)
  <2>1. Unsent(p) \in Nat /\ Unsent(q) \in Nat
    BY <1>0, ItemTypes DEF ItemTyping
  <2>2. Unsent(p)' = Unsent(p) /\ Unsent(q)' = Unsent(q)
    BY DEF Unsent
  <2> QED
    BY <2>1, <2>2
<1> QED
  BY <1>0, <1>2, <1>3, <1>4, QuietCovers

\* A SEND takes its items from the stock when it is typed.
LEMMA BeginCovers ==
  ASSUME IInv, IInv', SInv, NEW p \in Peers, OpenAndRefill(p) \/ ShellSend(p) \/ ShellAsk(p)
  PROVE  Covers(p)
<1> USE DEF IInv
<1> DEFINE q == Other(p)
<1>0. q \in Peers /\ p = Other(q) /\ p # q /\ inv[p] \in Int
  BY OtherOther DEF TypeOK
<1>1. /\ pc[p] \in {"loop", "shell"} /\ UNCHANGED <<cleanup, answers, late>>
      /\ CloseListener(p) \/ UNCHANGED queue
      /\ FreshSocket(p) \/ UNCHANGED srv
  BY DEF OpenAndRefill, FreshSocket, CloseListener, ShellSend, ShellAsk, env
<1>2. PICK cmd \in Payloads, refill \in BOOLEAN :
        /\ cmd.op \in Commands /\ BeginSession(p, cmd, refill)
        /\ cmd.op = "SEND" => inv' = [inv EXCEPT ![p] = @ - cmd.n]
        /\ cmd.op # "SEND" => UNCHANGED inv
  <2>1. CASE OpenAndRefill(p)
    <3>1. BeginSession(p, [op |-> "REFILL", n |-> 0], TRUE) /\ UNCHANGED inv
      BY <2>1 DEF OpenAndRefill
    <3> QED
      BY <3>1, RefillIsPayload DEF Commands
  <2>2. CASE ShellSend(p) \/ ShellAsk(p)
    <3>1. PICK c \in Script[p] : /\ BeginSession(p, c, FALSE)
                                 /\ c.op = "SEND" => inv' = [inv EXCEPT ![p] = @ - c.n]
                                 /\ c.op # "SEND" => UNCHANGED inv
      BY <2>2 DEF ShellSend, ShellAsk
    <3>2. c \in Payloads /\ c.op \in Commands
      BY ScriptTypes, ScriptAssumption
    <3> QED
      BY <3>1, <3>2
  <2> QED
    BY <2>1, <2>2
<1>3. queue'[q] = queue[q] /\ srv'[q] = srv[q] /\ pc'[q] = pc[q] /\ Shrinks(queue, queue')
  BY <1>0, <1>1, <1>2, FreshServer, QueueShrinks DEF CloseListener, BeginSession, Goto, TypeOK
<1>4. KeepsServer(q)
  BY <1>1, <1>3 DEF KeepsServer
<1>5. /\ pc'[p] = "connect" /\ cl'[q] = cl[q] /\ cl'[p].cmd = cmd
      /\ Tells(q)' \subseteq Tells(q) /\ \A d \in Records(p) : d.kind = "hello"
  BY <1>1, <1>2, <1>3, <1>4, BeginPair
<1>6. inv'[q] = inv[q] /\ inv'[p] + Unsent(p)' <= inv[p] + Unsent(p)
  <2>1. Unsent(p) = 0
    BY <1>1 DEF Unsent
  <2>2. Unsent(p)' = IF cmd.op = "SEND" THEN cmd.n ELSE 0
    BY <1>5 DEF Unsent
  <2>3. CASE cmd.op = "SEND"
    <3>1. cmd.n \in Nat
      BY <2>3, PayloadItems
    <3>2. inv'[p] = inv[p] - cmd.n /\ inv'[q] = inv[q]
      BY <1>0, <1>2, <2>3 DEF TypeOK
    <3> QED
      BY <1>0, <2>1, <2>2, <2>3, <3>1, <3>2
  <2>4. CASE cmd.op # "SEND"
    BY <1>0, <1>2, <2>1, <2>2, <2>4
  <2> QED
    BY <2>3, <2>4
<1> QED
  BY <1>0, <1>3, <1>5, <1>6, RestCovers

LEMMA MainCovers ==
  ASSUME IInv, IInv', SInv, NEW p \in Peers, Main(p) \/ User(p)
  PROVE  Covers(p)
<1> USE DEF IInv
<1> DEFINE q == Other(p)
           Rests == \/ Halt(p) \/ OpenAndSelect(p) \/ (Peek(p) /\ cleanup[p])
                    \/ ReadStdin(p) \/ ShellIdle(p) \/ ShellExit(p)
<1>0. /\ q \in Peers /\ p = Other(q) /\ p # q /\ (\A r \in Peers : r = p \/ r = q)
      /\ Pair(q) /\ srv[p] \in ServerStates /\ inv[p] \in Int
  BY OtherOther DEF SInv, TypeOK
<1>1. CASE Rests
  <2>1. /\ pc[p] \in {"loop", "shell", "select"}
        /\ pc'[p] \in {"loop", "shell", "select", "stopped", "crashed"}
        /\ pc'[q] = pc[q] /\ UNCHANGED <<inv, cl, answers, wire, late>>
    BY <1>0, <1>1 DEF Halt, OpenAndSelect, Peek, ReadStdin, ShellIdle, ShellExit, Goto, env, TypeOK
  <2>2. /\ FreshSocket(p) \/ UNCHANGED srv
        /\ CloseListener(p) \/ UNCHANGED queue
    BY <1>1 DEF Halt, OpenAndSelect, FreshSocket, CloseListener, Peek, ReadStdin, ShellIdle, ShellExit
  <2>3. srv'[q] = srv[q]
    BY <1>0, <2>2, FreshServer
  <2>4. Silent
    BY <2>1, <2>2, QueueShrinks, AnswersShrink, SilentStep
  <2>5. Records(p) = {} /\ Tells(q)' \subseteq Tells(q)
    BY <1>0, <2>4 DEF Silent, Records
  <2>6. Unsent(p)' = 0 /\ Unsent(p) = 0
    BY <2>1 DEF Unsent
  <2> QED
    BY <1>0, <2>1, <2>3, <2>5, <2>6, RestCovers
<1>2. CASE Peek(p) /\ ~cleanup[p]
  <2>1. /\ pc[p] = "select" /\ pc'[p] = "accept" /\ pc'[q] = pc[q]
        /\ UNCHANGED <<inv, cl, queue, answers, wire, late>> /\ srv'[q] = srv[q]
    BY <1>0, <1>2 DEF Peek, Goto, env, TypeOK
  <2>2. srv'[p].sid = srv[p].sid + 1
    <3>1. PICK ready \in BOOLEAN :
            srv' = [srv EXCEPT ![p] = [@ EXCEPT !.port = Head(queue[p]).port,
                       !.sid = srv[p].sid + 1, !.stage = 0, !.stdin = ready]]
      BY <1>2 DEF Peek
    <3> DEFINE new == [srv[p] EXCEPT !.port = Head(queue[p]).port,
                       !.sid = srv[p].sid + 1, !.stage = 0, !.stdin = ready]
    <3>2. srv'[p] = new
      BY <3>1 DEF TypeOK
    <3>3. new.sid = srv[p].sid + 1
      BY <1>0 DEF ServerStates
    <3> QED
      BY <3>2, <3>3
  <2>3. Silent
    BY <2>1, QueueShrinks, AnswersShrink, SilentStep
  <2>4. Records(p) = {} /\ Records(q) = {} /\ News(q) = {}
    BY <1>0, <2>3 DEF Silent, Records, News
  <2>5. \A n : Parcel(p, n)' => Parcel(p, n)
    <3>1. \A d \in Asks(q) : d.sid # srv'[p].sid
      <4>1. \A d \in Asks(q) : d.sid \in Nat /\ d.sid <= srv[p].sid
        BY <1>0, Measures DEF Measured, Pair, Session, Numbered
      <4>2. srv[p].sid \in Nat
        BY <1>0, Measures DEF Measured
      <4> QED
        BY <2>2, <4>1, <4>2
    <3>2. \A n : Parcel(p, n)' => n = 0
      BY <2>1, <2>4, <3>1 DEF Parcel, Carries, Held, Records
    <3> QED
      BY <3>2 DEF Parcel
  <2>6. \A n : Parcel(q, n)' => Parcel(q, n)
    BY <1>0, <2>1, <2>4, ParcelStep DEF Catching, Held
  <2>7. \A n : Refund(p, n)' => Refund(p, n)
    BY <2>1 DEF Refund, Credits, Debited
  <2>8. \A n : Refund(q, n)' => Refund(q, n)
    BY <1>0, <2>1, <2>4, RefundStep DEF Debited
  <2>9. Unsent(p)' <= Unsent(p) /\ Unsent(q)' <= Unsent(q)
    <3>1. Unsent(p)' = Unsent(p) /\ Unsent(q)' = Unsent(q)
      BY <2>1 DEF Unsent
    <3>2. Unsent(p) \in Nat /\ Unsent(q) \in Nat
      BY <1>0, ItemTypes DEF ItemTyping
    <3> QED
      BY <3>1, <3>2
  <2> QED
    BY <1>0, <2>1, <2>5, <2>6, <2>7, <2>8, <2>9, QuietCovers
<1> QED
  BY <1>1, <1>2, BeginCovers DEF Main, User

LEMMA EnvironmentCovers ==
  ASSUME IInv, IInv', SInv, NEW p \in Peers, Signal(p) \/ Network(p)
  PROVE  Covers(p)
<1> USE DEF IInv
<1> DEFINE q == Other(p)
<1>0. q \in Peers /\ p = Other(q) /\ p # q /\ inv[p] \in Int /\ Unsent(p) \in Nat
  BY OtherOther, ItemTypes DEF TypeOK, ItemTyping
<1>1. CASE Network(p)
  <2>1. UNCHANGED inv
    BY <1>1 DEF Network, Deliver, DeliverLate, Arrive, Lose, Duplicate, Delay, Fault, procVars
  <2> QED
    BY <1>1, <2>1, NetworkFetches, SilentCovers DEF Fetches
<1>2. CASE Signal(p)
  <2>1. /\ UNCHANGED <<inv, srv, cl, queue, wire, late>>
        /\ UNCHANGED answers \/ EndSession(p)
    BY <1>2 DEF Signal
  <2>2. Silent
    BY <2>1, QueueShrinks, AnswersShrink, SilentStep
  <2>3. CASE UNCHANGED pc
    BY <2>1, <2>2, <2>3, SilentCovers
  <2>4. CASE pc'[p] \in {"loop", "select"} /\ pc'[q] = pc[q]
    <3>1. Records(p) = {} /\ Tells(q)' \subseteq Tells(q) /\ Unsent(p)' = 0
      BY <1>0, <2>2, <2>4 DEF Silent, Records, Unsent
    <3> QED
      BY <1>0, <2>1, <2>4, <3>1, RestCovers
  <2> QED
    BY <1>0, <1>2, <2>3, <2>4 DEF Signal, EndSession, Goto, TypeOK
<1> QED
  BY <1>1, <1>2

-----------------------------------------------------------------------------
LEMMA InitItems == Init => NothingCreated
<1> SUFFICES ASSUME Init PROVE Bounded(A)
  BY TypeInit, BoundedForm DEF Peers
<1>0. A \in Peers /\ Other(A) = B /\ B \in Peers /\ Other(B) = A
  BY PeersAssumption DEF Peers, Other
<1>1. \A p \in Peers : /\ pc[p] = "loop" /\ inv[p] = InitialInventory
  BY DEF Init
<1>2. \A p \in Peers : Unsent(p) = 0
  BY <1>1 DEF Unsent
<1>3. \A p \in Peers : \A n : (Parcel(p, n) => n = 0) /\ (Refund(p, n) => n = 0)
  BY <1>1 DEF Parcel, Carries, Catching, Held, Refund, Credits, Debited
<1>4. InitialInventory \in Nat
  BY BoundsAssumption
<1> QED
  BY <1>0, <1>1, <1>2, <1>3, <1>4 DEF Bounded

\* BoundedForm as an implication of TypeOK, so that it can be primed.
BoundSuffices == \A p \in Peers : Bounded(p) => NothingCreated

LEMMA BoundedAlike == TypeOK => BoundSuffices
<1> QED
  BY BoundedForm DEF BoundSuffices

LEMMA NextItems == IInv /\ SInv /\ NothingCreated /\ [Next]_vars => NothingCreated'
<1> SUFFICES ASSUME IInv, IInv', SInv, NothingCreated, [Next]_vars PROVE NothingCreated'
  BY NextIInv
<1>1. ASSUME NEW p \in Peers, Covers(p) PROVE NothingCreated'
  <2>1. Bounded(p)
    BY BoundedForm DEF IInv
  <2>2. Bounded(p)'
    BY <1>1, <2>1, CoversStep DEF IInv
  <2>3. TypeOK'
    BY DEF IInv
  <2>4. BoundSuffices'
    BY <2>3, BoundedAlike, PTL
  <2> QED
    BY <2>2, <2>4 DEF BoundSuffices
<1>2. CASE UNCHANGED vars
  <2>1. UNCHANGED <<inv, pc, srv, cl, queue, answers, wire, late>>
    BY <1>2 DEF vars, procVars, env
  <2>2. Silent
    BY <2>1, OtherIsPeer DEF Silent, Asks, Tells, InTransit
  <2> QED
    BY <1>1, <2>1, <2>2, SilentCovers DEF Peers
<1> QED
  BY <1>1, <1>2, MainCovers, ServerCovers, FlightCovers, WriteCovers, AwaitCovers,
     EnvironmentCovers DEF Next, Client

\* Items are never created, whatever is lost, repeated, delayed or interrupted and
\* whatever the users type: what the two inventories hold, and everything any message
\* still on its way, or any thread about to act, can add to them, never exceeds what the
\* peers started with.
THEOREM ItemsNeverCreated == Spec => []NothingCreated
<1> QED
  BY InitIInv, NextIInv, InitSInv, NextSInv, InitItems, NextItems, PTL DEF Spec
=============================================================================
