-------------------------- MODULE SimpleUDP_sessions --------------------------
(* The records two peers exchange never get into another session: what the *)
(* server q reads and what the client p reads was made with the keys of the *)
(* session each of them is in, and answers what p asked.  The invariant is  *)
(* stated once for a client p and its server Other(p).                      *)
EXTENDS SimpleUDP_proofs

\* What p has sent as a client, and what the other peer has sent it, that may still be
\* read.
Asks(p)  == {d \in InTransit(p) \cup Range(queue[Other(p)]) : d.kind \in ToListener}
Tells(p) == {d \in InTransit(Other(p)) \cup Range(answers[p]) : d.kind \in ToClient}

\* Records that only the client of a session can have made.
Keyed == {"finish", "request", "close"}

\* Ports and sessions are numbered upwards, and nothing on its way is from the future.
Numbered(p) ==
  LET q == Other(p) IN
  /\ \A d \in Asks(p) \cup Tells(p) : d.port <= cl[p].port /\ d.sid <= srv[q].sid
  /\ \A d \in Tells(p) : d.sid > 0
  /\ \A d \in Asks(p) : d.kind \in Keyed => d.sid > 0
  /\ cl[p].sid <= srv[q].sid /\ srv[q].port <= cl[p].port
  /\ pc[q] \in Serving => srv[q].sid > 0
  /\ cl[p].stage = 2 <=> cl[p].sid > 0
  /\ pc[p] = "connect" => cl[p].stage # 0
  /\ pc[p] \in {"write", "await", "bye"} => cl[p].stage = 2

\* The session a server is in belongs to the port it is connected to.
OnePort(p) ==
  LET q == Other(p) IN
  pc[q] \in Serving =>
    /\ \A d \in Asks(p) \cup Tells(p) : d.sid = srv[q].sid => d.port = srv[q].port
    /\ cl[p].sid = srv[q].sid => cl[p].port = srv[q].port

\* Everything a client makes in one session is made with the same keys.
OneKey(p) ==
  \A d \in Asks(p) : d.kind \in Keyed =>
    /\ d.port = cl[p].port => d.sid = cl[p].sid
    /\ \A e \in Asks(p) : e.kind \in Keyed /\ e.port = d.port => e.sid = d.sid

\* While q accepts, only the port it is connected to can be behind its client's finish;
\* when the handshake is done only that port is left.
Queued(q) ==
  /\ pc[q] \in {"accept", "acceptWait"} =>
       \A i, j \in 1..Len(queue[q]) :
         i < j /\ queue[q][i].kind = "finish" /\ queue[q][i].sid = srv[q].sid
           => queue[q][j].port = srv[q].port
  /\ pc[q] \in {"read", "check"} =>
       \A i \in 1..Len(queue[q]) : queue[q][i].port = srv[q].port

\* After the handshake the client's records, and the client itself if it is still in
\* that session, agree with the server on the keys.
Agreed(p) ==
  LET q == Other(p) IN
  pc[q] \in {"read", "check", "reply"} =>
    /\ \A d \in Asks(p) : d.kind \in Keyed /\ d.port = srv[q].port => d.sid = srv[q].sid
    /\ cl[p].port = srv[q].port => cl[p].sid = srv[q].sid

\* A client socket holds what was sent to its port, with the keys of the session.
Told(p) ==
  /\ pc[p] \in {"loop", "shell", "stopped"} \cup ServerPcs => answers[p] = <<>>
  /\ pc[p] \in ClientPcs => \A d \in Range(answers[p]) : d.port = cl[p].port
  /\ \A d \in Tells(p) : d.kind \in {"finished", "reply"} /\ d.port = cl[p].port
       => d.sid = cl[p].sid

-----------------------------------------------------------------------------
(* One accept at a time answers a client that still connects.              *)

\* q is in the middle of a session whose request it has not seen.
Engaged(q) ==
  \/ pc[q] \in {"accept", "acceptWait", "read"}
  \/ pc[q] = "check" /\ srv[q].got = "none"

\* q stops: it never selects a session again.
Doomed(q) == cleanup[q] /\ pc[q] \notin {"accept", "acceptWait"}

Greeted(p) ==
  LET q == Other(p)
      offers == {d \in Tells(p) : d.port = cl[p].port}
  IN pc[p] = "connect" =>
       /\ \A d \in offers : d.sid = srv[q].sid
       /\ cl[p].stage = 2 => cl[p].sid = srv[q].sid
       /\ cl[p].stage = 2 \/ offers # {} =>
            (Engaged(q) /\ srv[q].port = cl[p].port) \/ Doomed(q)

-----------------------------------------------------------------------------
(* A request is answered once, to the client that made it.                 *)

\* body answers cmd (decrypt_react on either side).
Fits(body, cmd) ==
  \/ cmd.op = "CHECK" /\ body.op = "CHECK"
  \/ cmd.op = "REFILL" /\ body = [op |-> "REFILL", n |-> RefillAmount]
  \/ cmd.op = "REQUEST" /\ (body = cmd \/ body.op = "INSUFFICIENT")

\* What the server's variables mean at each place.
Buffered(q) ==
  /\ pc[q] \notin {"check", "reply", "drain", "crashed"} => srv[q].got = "none"
  /\ pc[q] = "check" => srv[q].got # "closed"
  /\ pc[q] = "reply" /\ srv[q].got = "none" => cleanup[q]
  /\ pc[q] = "reply" /\ srv[q].got = "data" =>
       /\ srv[q].req.op = "SEND" => srv[q].ptr = "null"
       /\ srv[q].req.op \in {"CHECK", "REFILL", "REQUEST"} =>
            srv[q].ptr = "heap" /\ Fits(srv[q].buf, srv[q].req)

\* The commands a client asks with.
Asking(p) ==
  /\ pc[p] \in ClientPcs => cl[p].cmd.op \in Commands
  /\ pc[p] = "await" => cl[p].cmd.op # "SEND"

\* The client has written its request.
Written(p) == pc[p] \notin {"connect", "write"}

\* Requests, closes and replies with p's port are about its current command.
Matched(p) ==
  LET q == Other(p)
      ours == srv[q].port = cl[p].port
  IN
  /\ \A d \in Asks(p) : d.port = cl[p].port =>
       /\ d.kind = "request" => Written(p) /\ d.body = cl[p].cmd
       /\ d.kind = "close" => pc[p] \notin ClientPcs
  /\ pc[q] \in {"check", "reply"} /\ srv[q].got = "data" /\ ours
       => Written(p) /\ srv[q].req = cl[p].cmd
  /\ pc[q] = "reply" /\ srv[q].got = "closed" /\ ours => pc[p] \notin ClientPcs
  /\ pc[p] \in ClientPcs =>
       \A d \in Tells(p) : d.kind = "reply" /\ d.port = cl[p].port =>
         Written(p) /\ (cl[p].cmd.op # "SEND" => Fits(d.body, cl[p].cmd))

Session(p) == Numbered(p) /\ OnePort(p) /\ OneKey(p) /\ Agreed(p) /\ Told(p)
Dialogue(p) == Greeted(p) /\ Asking(p) /\ Matched(p)

Pair(p) == Session(p) /\ Dialogue(p)
Server(q) == Queued(q) /\ Buffered(q)

SInv == \A p \in Peers : Pair(p) /\ Server(p)
-----------------------------------------------------------------------------
(* What a step adds to Asks and Tells: at most the datagram it sends.      *)

LEMMA OtherOther ==
  ASSUME NEW p \in Peers
  PROVE  /\ Other(p) \in Peers /\ Other(p) # p /\ Other(Other(p)) = p
         /\ \A r \in Peers : r = p \/ r = Other(p)
BY PeersAssumption DEF Peers, Other

LEMMA RangeAppend ==
  ASSUME NEW S, NEW s \in Seq(S), NEW d \in S
  PROVE  Range(Append(s, d)) = Range(s) \cup {d}
<1>1. ASSUME NEW i \in DOMAIN s PROVE i \in DOMAIN Append(s, d) /\ Append(s, d)[i] = s[i]
  OBVIOUS
<1>2. Len(s) + 1 \in DOMAIN Append(s, d) /\ Append(s, d)[Len(s) + 1] = d
  OBVIOUS
<1>3. ASSUME NEW i \in DOMAIN Append(s, d)
      PROVE  Append(s, d)[i] = d \/ (i \in DOMAIN s /\ Append(s, d)[i] = s[i])
  OBVIOUS
<1> QED
  BY <1>1, <1>2, <1>3 DEF Range

LEMMA RangeTail ==
  ASSUME NEW S, NEW s \in Seq(S), s # <<>>
  PROVE  Head(s) \in Range(s) /\ Range(Tail(s)) \subseteq Range(s)
<1>1. 1 \in DOMAIN s /\ Head(s) = s[1]
  OBVIOUS
<1>2. ASSUME NEW i \in DOMAIN Tail(s) PROVE i + 1 \in DOMAIN s /\ Tail(s)[i] = s[i + 1]
  OBVIOUS
<1> QED
  BY <1>1, <1>2 DEF Range

LEMMA RangeEmpty == Range(<<>>) = {}
BY DEF Range

\* What waits in a queue is one of its places.
LEMMA RangeIndex ==
  ASSUME NEW S, NEW s \in Seq(S)
  PROVE  /\ \A i \in 1..Len(s) : s[i] \in Range(s)
         /\ \A d \in Range(s) : \E i \in 1..Len(s) : d = s[i]
BY DEF Range

\* No socket of f holds more than before.
Shrinks(f, g) == \A r \in Peers : Range(g[r]) \subseteq Range(f[r])

LEMMA QueueShrinks ==
  ASSUME TypeOK, NEW p \in Peers
  PROVE  /\ Pop(p) /\ queue[p] # <<>> => Shrinks(queue, queue')
         /\ CloseListener(p) => Shrinks(queue, queue')
         /\ UNCHANGED queue => Shrinks(queue, queue')
<1>1. queue[p] \in Seq(Datagrams(ToListener)) /\ queue \in [Peers -> Seq(Datagrams(ToListener))]
  BY DEF TypeOK
<1>2. queue[p] # <<>> => Range(Tail(queue[p])) \subseteq Range(queue[p])
  BY <1>1, RangeTail
<1> QED
  BY <1>1, <1>2, RangeEmpty DEF Shrinks, Pop, CloseListener

LEMMA AnswersShrink ==
  ASSUME TypeOK, NEW p \in Peers
  PROVE  /\ PopAnswer(p) /\ answers[p] # <<>> => Shrinks(answers, answers')
         /\ EndSession(p) => Shrinks(answers, answers')
         /\ UNCHANGED answers => Shrinks(answers, answers')
<1>1. answers[p] \in Seq(Datagrams(ToClient)) /\ answers \in [Peers -> Seq(Datagrams(ToClient))]
  BY DEF TypeOK
<1>2. answers[p] # <<>> => Range(Tail(answers[p])) \subseteq Range(answers[p])
  BY <1>1, RangeTail
<1> QED
  BY <1>1, <1>2, RangeEmpty DEF Shrinks, PopAnswer, EndSession

\* Nothing new is on its way.
Silent == \A r \in Peers : Asks(r)' \subseteq Asks(r) /\ Tells(r)' \subseteq Tells(r)

LEMMA SilentStep ==
  ASSUME UNCHANGED <<wire, late>>, Shrinks(queue, queue'), Shrinks(answers, answers')
  PROVE  Silent
BY OtherIsPeer DEF Silent, Asks, Tells, InTransit, Shrinks

\* p sends d as a client ...
AsksGrow(p, d) ==
  /\ Asks(p)' \subseteq Asks(p) \cup {d} /\ Asks(Other(p))' \subseteq Asks(Other(p))
  /\ \A r \in Peers : Tells(r)' \subseteq Tells(r)

\* ... or as a server.
TellsGrow(p, d) ==
  /\ Tells(Other(p))' \subseteq Tells(Other(p)) \cup {d} /\ Tells(p)' \subseteq Tells(p)
  /\ \A r \in Peers : Asks(r)' \subseteq Asks(r)

LEMMA SendStep ==
  ASSUME TypeOK, NEW p \in Peers, NEW d \in Datagrams(ToListener \cup ToClient), Send(p, d),
         UNCHANGED late, Shrinks(queue, queue'), Shrinks(answers, answers')
  PROVE  /\ d.kind \in ToListener => AsksGrow(p, d)
         /\ d.kind \in ToClient => TellsGrow(p, d)
<1>1. wire \in [Peers -> Seq(Datagrams(ToListener \cup ToClient))]
  BY DEF TypeOK
<1>2. Range(wire'[p]) = Range(wire[p]) \cup {d}
  <2>1. wire[p] \in Seq(Datagrams(ToListener \cup ToClient)) /\ wire'[p] = Append(wire[p], d)
    BY <1>1 DEF Send
  <2>2. Range(Append(wire[p], d)) = Range(wire[p]) \cup {d}
    BY <2>1, RangeAppend
  <2> QED
    BY <2>1, <2>2
<1>3. wire'[Other(p)] = wire[Other(p)]
  BY <1>1, OtherOther DEF Send
<1>4. ToListener \cap ToClient = {}
  BY DEF ToListener, ToClient
<1>5. /\ InTransit(p)' = InTransit(p) \cup {d}
      /\ InTransit(Other(p))' = InTransit(Other(p))
  BY <1>2, <1>3 DEF InTransit
<1> DEFINE q == Other(p)
<1>6. q \in Peers /\ Other(q) = p /\ \A r \in Peers : r = p \/ r = q
  BY OtherOther
<1>7. /\ Range(queue'[p]) \subseteq Range(queue[p]) /\ Range(queue'[q]) \subseteq Range(queue[q])
      /\ Range(answers'[p]) \subseteq Range(answers[p])
      /\ Range(answers'[q]) \subseteq Range(answers[q])
  BY <1>6 DEF Shrinks
<1>8. CASE d.kind \in ToListener
  BY <1>4, <1>5, <1>6, <1>7, <1>8 DEF AsksGrow, Asks, Tells
<1>9. CASE d.kind \in ToClient
  BY <1>4, <1>5, <1>6, <1>7, <1>9 DEF TellsGrow, Asks, Tells
<1> QED
  BY <1>4, <1>8, <1>9

-----------------------------------------------------------------------------
(* The side of a session that does not act.                                *)

\* The step leaves q, seen as a server, where it is.
KeepsServer(q) ==
  /\ srv'[q] = srv[q] /\ pc'[q] = pc[q] /\ queue'[q] = queue[q] /\ cleanup'[q] = cleanup[q]

\* ... and p as a client.
KeepsClient(p) == cl'[p] = cl[p] /\ pc'[p] = pc[p] /\ answers'[p] = answers[p]

\* The types the inequalities between numbers need.
Measured(p) ==
  /\ cl[p].sid \in Nat /\ cl[p].port \in Nat /\ srv[p].sid \in Nat /\ srv[p].port \in Nat
  /\ \A d \in Asks(p) \cup Tells(p) : d.sid \in Nat /\ d.port \in Nat

LEMMA Measures ==
  ASSUME TypeOK, NEW p \in Peers
  PROVE  Measured(p)
<1>1. cl[p] \in ClientStates /\ srv[p] \in ServerStates
  BY DEF TypeOK
<1>2. Ports \cup {0} \subseteq Nat /\ Sids \cup {0} \subseteq Nat
  BY DEF Ports, Sids
<1>3. cl[p].sid \in Nat /\ cl[p].port \in Nat /\ srv[p].sid \in Nat /\ srv[p].port \in Nat
  <2>1. cl[p].sid \in Sids \cup {0} /\ cl[p].port \in Ports \cup {0}
    BY <1>1 DEF ClientStates
  <2>2. srv[p].sid \in Sids \cup {0} /\ srv[p].port \in Ports \cup {0}
    BY <1>1 DEF ServerStates
  <2> QED
    BY <1>2, <2>1, <2>2
<1>4. ASSUME NEW r \in Peers, NEW d \in InTransit(r) \cup Range(queue[r]) \cup Range(answers[r])
      PROVE  d.sid \in Nat /\ d.port \in Nat
  <2>1. /\ wire[r] \in Seq(Datagrams(ToListener \cup ToClient))
        /\ late[r] \subseteq Datagrams(ToListener \cup ToClient)
        /\ queue[r] \in Seq(Datagrams(ToListener)) /\ answers[r] \in Seq(Datagrams(ToClient))
    BY DEF TypeOK
  <2>2. /\ Range(wire[r]) \subseteq Datagrams(ToListener \cup ToClient)
        /\ Range(queue[r]) \subseteq Datagrams(ToListener)
        /\ Range(answers[r]) \subseteq Datagrams(ToClient)
    BY <2>1 DEF Range
  <2>3. d \in Datagrams(ToListener \cup ToClient) \cup Datagrams(ToListener) \cup Datagrams(ToClient)
    BY <2>1, <2>2 DEF InTransit
  <2>4. d.port \in Ports /\ d.sid \in Sids \cup {0}
    BY <2>3 DEF Datagrams
  <2> QED
    BY <1>2, <2>4
<1>5. \A d \in Asks(p) \cup Tells(p) : d.sid \in Nat /\ d.port \in Nat
  BY <1>4, OtherIsPeer DEF Asks, Tells
<1> QED
  BY <1>3, <1>5 DEF Measured

\* While q acts as a client, or is about to, p's own sessions as a client are as before.
LEMMA ServerIdle ==
  ASSUME NEW p \in Peers, NEW q, q = Other(p), Session(p), Greeted(p), Matched(p), Asking(p),
         Asks(p)' \subseteq Asks(p), Tells(p)' \subseteq Tells(p), KeepsClient(p),
         pc[q] \notin Serving, pc'[q] \notin Serving,
         srv'[q].sid = srv[q].sid, srv'[q].port <= cl[p].port,
         cleanup[q] => cleanup'[q]
  PROVE  Session(p)' /\ Greeted(p)' /\ Matched(p)' /\ Asking(p)'
<1>1. {"accept", "acceptWait", "read", "check", "reply"} \subseteq Serving
  BY DEF Serving, ServerPcs
<1>2. Numbered(p)'
  BY DEF Session, Numbered, KeepsClient
<1>3. OnePort(p)'
  BY DEF OnePort
<1>4. OneKey(p)'
  BY DEF Session, OneKey, KeepsClient
<1>5. Agreed(p)'
  BY <1>1 DEF Agreed
<1>6. Told(p)'
  BY DEF Session, Told, KeepsClient
<1>7. Greeted(p)'
  BY <1>1 DEF Greeted, Engaged, Doomed, KeepsClient
<1>8. Matched(p)'
  BY <1>1 DEF Matched, Written, KeepsClient
<1>9. Asking(p)'
  BY DEF Asking, KeepsClient
<1> QED
  BY <1>2, <1>3, <1>4, <1>5, <1>6, <1>7, <1>8, <1>9 DEF Session

\* While p acts as a server, or is about to, its last session as a client is as before.
LEMMA ClientIdle ==
  ASSUME NEW p \in Peers, NEW q, q = Other(p), Session(p), Matched(p),
         Asks(p)' \subseteq Asks(p), Tells(p)' \subseteq Tells(p), KeepsServer(q),
         pc[p] \in {"loop", "shell"} \cup ServerPcs, pc'[p] \notin ClientPcs,
         cl'[p] = cl[p], answers'[p] = answers[p]
  PROVE  Session(p)' /\ Greeted(p)' /\ Matched(p)' /\ Asking(p)'
<1>1. {"connect", "write", "await", "bye"} = ClientPcs
  BY DEF ClientPcs
<1>2. Numbered(p)'
  BY <1>1 DEF Session, Numbered, KeepsServer
<1>3. OnePort(p)'
  BY DEF Session, OnePort, KeepsServer
<1>4. OneKey(p)'
  BY DEF Session, OneKey
<1>5. Agreed(p)'
  BY DEF Session, Agreed, KeepsServer
<1>6. Told(p)'
  BY <1>1 DEF Session, Told
<1>7. Greeted(p)' /\ Asking(p)'
  BY <1>1 DEF Greeted, Asking
<1>8. Matched(p)'
  BY <1>1 DEF Matched, Written, KeepsServer, ClientPcs, ServerPcs
<1> QED
  BY <1>2, <1>3, <1>4, <1>5, <1>6, <1>7, <1>8 DEF Session

-----------------------------------------------------------------------------
(* The server's side.                                                      *)

\* Both types at once, for a client p and its server.
LEMMA PairMeasures ==
  ASSUME TypeOK, NEW p \in Peers
  PROVE  Measured(p) /\ Measured(Other(p))
BY Measures, OtherIsPeer

\* What a step sends to the client p.
News(p) == Tells(p)' \ Tells(p)

\* What the server q makes in a session, and what a step in it leaves of Session.
LEMMA ServerStep ==
  ASSUME TypeOK, NEW p \in Peers, NEW q, q = Other(p), Session(p), KeepsClient(p),
         Asks(p)' \subseteq Asks(p),
         \A d \in News(p) : /\ d.port = srv[q].port /\ d.sid = srv[q].sid
                            /\ d.kind \in {"finished", "reply"} /\ srv[q].port = cl[p].port
                                 => cl[p].sid = srv[q].sid,
         srv'[q].port = srv[q].port, srv'[q].sid = srv[q].sid,
         pc[q] \in Serving, Agreed(p)'
  PROVE  Session(p)'
<1>1. Measured(p) /\ Measured(q)
  BY PairMeasures
<1>2. Numbered(p)'
  BY <1>1 DEF Session, Numbered, KeepsClient, News, Measured
<1>3. OnePort(p)'
  BY DEF Session, OnePort, KeepsClient, News
<1>4. OneKey(p)'
  BY DEF Session, OneKey, KeepsClient
<1>5. Told(p)'
  BY DEF Session, Told, KeepsClient, News
<1> QED
  BY <1>2, <1>3, <1>4, <1>5 DEF Session

\* After the handshake q and p keep agreeing; before it, and once q has left, there is
\* nothing to agree on.
LEMMA AgreedStep ==
  ASSUME NEW p \in Peers, NEW q, q = Other(p), Session(p), KeepsClient(p),
         Asks(p)' \subseteq Asks(p),
         srv'[q].port = srv[q].port, srv'[q].sid = srv[q].sid,
         pc'[q] \in {"read", "check", "reply"} => pc[q] \in {"read", "check", "reply"}
  PROVE  Agreed(p)'
BY DEF Session, Agreed, KeepsClient

\* A step of q after which Matched asks for nothing new.
LEMMA MatchedStep ==
  ASSUME NEW p \in Peers, NEW q, q = Other(p), Matched(p), Asking(p), KeepsClient(p),
         Asks(p)' \subseteq Asks(p),
         \A d \in News(p) : d.kind # "reply",
         srv'[q].port = srv[q].port,
         pc'[q] \in {"check", "reply"} /\ srv'[q].got = "data" /\ srv[q].port = cl[p].port
           => Written(p) /\ srv'[q].req = cl[p].cmd,
         pc'[q] = "reply" /\ srv'[q].got = "closed" /\ srv[q].port = cl[p].port
           => pc[p] \notin ClientPcs
  PROVE  Matched(p)' /\ Asking(p)'
BY DEF Matched, Asking, Written, KeepsClient, News

\* A step of q that answers p's hello, or fails, in the session q is in.
LEMMA GreetedStep ==
  ASSUME NEW p \in Peers, NEW q, q = Other(p), Greeted(p), KeepsClient(p),
         \A d \in News(p) : d.port = srv[q].port /\ d.sid = srv[q].sid /\ Engaged(q),
         srv'[q].port = srv[q].port, srv'[q].sid = srv[q].sid,
         Doomed(q) => Doomed(q)',
         Engaged(q) /\ srv[q].port = cl[p].port /\ pc[p] = "connect" => Engaged(q)' \/ Doomed(q)'
  PROVE  Greeted(p)'
BY DEF Greeted, KeepsClient, News

\* The queue of q: read from the front, in the same session.
LEMMA QueuedStep ==
  ASSUME TypeOK, NEW q \in Peers, Queued(q),
         srv'[q].port = srv[q].port, srv'[q].sid = srv[q].sid,
         \/ queue'[q] = queue[q]
         \/ queue[q] # <<>> /\ queue'[q] = Tail(queue[q]),
         pc'[q] \in {"accept", "acceptWait"} => pc[q] \in {"accept", "acceptWait"},
         pc'[q] \in {"read", "check"} => pc[q] \in {"read", "check"}
  PROVE  Queued(q)'
<1>1. queue[q] \in Seq(Datagrams(ToListener))
  BY DEF TypeOK
<1>2. CASE queue'[q] = queue[q]
  BY <1>2 DEF Queued
<1>3. CASE queue[q] # <<>> /\ queue'[q] = Tail(queue[q])
  <2>1. /\ Len(queue'[q]) = Len(queue[q]) - 1 /\ Len(queue[q]) \in Nat
        /\ \A i \in 1..Len(queue'[q]) : queue'[q][i] = queue[q][i + 1]
    BY <1>1, <1>3
  <2>2. \A i \in 1..Len(queue'[q]) : i + 1 \in 1..Len(queue[q])
    BY <2>1
  <2>3. \A i, j \in 1..Len(queue'[q]) : i < j => i + 1 < j + 1
    BY <2>1
  <2> QED
    BY <2>1, <2>2, <2>3 DEF Queued
<1> QED
  BY <1>2, <1>3

\* What a server sends carries the port and the number of its session.
LEMMA ServerTells ==
  ASSUME TypeOK, Connected, NEW q \in Peers, pc[q] \in Serving, UNCHANGED <<late, answers>>,
         Shrinks(queue, queue'), NEW kind \in ToClient, NEW body \in Payloads,
         Send(q, Dgram(kind, srv[q].port, srv[q].sid, body))
  PROVE  \E d : /\ TellsGrow(q, d) /\ d.kind = kind /\ d.body = body
                /\ d.port = srv[q].port /\ d.sid = srv[q].sid
<1> DEFINE d == Dgram(kind, srv[q].port, srv[q].sid, body)
<1>1. srv[q] \in ServerStates /\ srv[q].port # 0
  BY DEF TypeOK, Connected
<1>2. srv[q].port \in Ports /\ srv[q].sid \in Sids \cup {0}
  BY <1>1 DEF ServerStates
<1>3. d \in Datagrams(ToClient) /\ d \in Datagrams(ToListener \cup ToClient)
  BY <1>2, DatagramTypes
<1>4. d.kind = kind /\ d.port = srv[q].port /\ d.sid = srv[q].sid /\ d.body = body
  BY DEF Dgram
<1>5. Shrinks(answers, answers')
  BY AnswersShrink
<1>6. TellsGrow(q, d)
  BY <1>3, <1>4, <1>5, SendStep
<1> QED
  BY <1>4, <1>6

LEMMA FlightTells ==
  ASSUME TypeOK, Connected, NEW q \in Peers, pc[q] \in Serving, UNCHANGED <<late, answers>>,
         Shrinks(queue, queue'), NEW kind \in {"offer", "finished"},
         Send(q, Flight(kind, srv[q].port, srv[q].sid))
  PROVE  \E d : TellsGrow(q, d) /\ d.kind = kind /\ d.port = srv[q].port /\ d.sid = srv[q].sid
<1>1. kind \in ToClient
  BY DEF ToClient
<1> QED
  BY <1>1, ServerTells, BlankIsPayload DEF Flight

\* The datagram q reads is among what its client has sent.
LEMMA HeadAsked ==
  ASSUME TypeOK, NEW p \in Peers, NEW q, q = Other(p), queue[q] # <<>>
  PROVE  Head(queue[q]) \in Asks(p) /\ Head(queue[q]) = queue[q][1] /\ 1 \in 1..Len(queue[q])
<1>1. queue[q] \in Seq(Datagrams(ToListener))
  BY OtherIsPeer DEF TypeOK
<1>2. Head(queue[q]) \in Datagrams(ToListener)
  BY <1>1
<1> QED
  BY <1>1, <1>2, RangeTail DEF Asks, Datagrams

-----------------------------------------------------------------------------
(* Accept.                                                                 *)

LEMMA AcceptHelloPair ==
  ASSUME IInv, SInv, NEW p \in Peers, NEW q \in Peers, q = Other(p),
         AcceptHello(q) \/ AcceptRepeat(q)
  PROVE  Pair(p)' /\ Server(q)'
<1> USE DEF IInv
<1>0. p # q /\ p = Other(q) /\ Pair(p) /\ Server(q) /\ srv[q] \in ServerStates
  BY OtherOther DEF SInv, TypeOK
<1>1. /\ pc[q] = "accept" /\ queue[q] # <<>> /\ Pop(q)
      /\ Send(q, Flight("offer", srv[q].port, srv[q].sid))
      /\ UNCHANGED <<pc, cl, answers, cleanup, late>>
  BY DEF AcceptHello, AcceptRepeat, env
<1>2. /\ srv'[q].port = srv[q].port /\ srv'[q].sid = srv[q].sid /\ srv'[q].got = srv[q].got
  BY <1>0 DEF AcceptHello, AcceptRepeat, ServerStates, TypeOK
<1>3. pc[q] \in Serving
  BY <1>1 DEF Serving, ServerPcs
<1>4. PICK d : TellsGrow(q, d) /\ d.kind = "offer" /\ d.port = srv[q].port /\ d.sid = srv[q].sid
  BY <1>1, <1>3, FlightTells, QueueShrinks
<1>5. Asks(p)' \subseteq Asks(p) /\ News(p) \subseteq {d} /\ KeepsClient(p)
  BY <1>0, <1>1, <1>4 DEF TellsGrow, KeepsClient, News
<1>6. Agreed(p)'
  BY <1>0, <1>1, <1>2, <1>5, AgreedStep DEF Pair
<1>7. Session(p)'
  BY <1>0, <1>2, <1>3, <1>4, <1>5, <1>6, ServerStep DEF Pair
<1>8. Greeted(p)'
  <2>1. Engaged(q) /\ Engaged(q)' /\ ~Doomed(q)
    BY <1>1 DEF Engaged, Doomed
  <2> QED
    BY <1>0, <1>2, <1>4, <1>5, <2>1, GreetedStep DEF Pair, Dialogue
<1>9. Matched(p)' /\ Asking(p)'
  BY <1>0, <1>1, <1>2, <1>4, <1>5, MatchedStep DEF Pair, Dialogue
<1>10. Queued(q)'
  <2>1. queue'[q] = Tail(queue[q])
    BY <1>1 DEF Pop, TypeOK
  <2> QED
    BY <1>0, <1>1, <1>2, <2>1, QueuedStep DEF Server
<1>11. Buffered(q)'
  BY <1>0, <1>1, <1>2 DEF Server, Buffered
<1> QED
  BY <1>7, <1>8, <1>9, <1>10, <1>11 DEF Pair, Dialogue, Server

LEMMA AcceptFinishPair ==
  ASSUME IInv, SInv, NEW p \in Peers, NEW q \in Peers, q = Other(p), AcceptFinish(q)
  PROVE  Pair(p)' /\ Server(q)'
<1> USE DEF IInv
<1>0. p # q /\ p = Other(q) /\ Pair(p) /\ Server(q) /\ srv[q] \in ServerStates
  BY OtherOther DEF SInv, TypeOK
<1> DEFINE h == Head(queue[q])
<1>1. /\ pc[q] = "accept" /\ queue[q] # <<>> /\ Pop(q)
      /\ h.kind = "finish" /\ h.sid = srv[q].sid
      /\ Send(q, Flight("finished", srv[q].port, srv[q].sid))
      /\ pc' = [pc EXCEPT ![q] = "read"]
      /\ UNCHANGED <<srv, cl, answers, late>>
  BY DEF AcceptFinish, env, Goto
<1>2. pc[q] \in Serving /\ pc'[q] = "read" /\ UNCHANGED srv[q]
  BY <1>1 DEF Serving, ServerPcs, TypeOK
<1>3. h \in Asks(p) /\ h = queue[q][1] /\ 1 \in 1..Len(queue[q])
  BY <1>1, HeadAsked
<1>4. PICK d : TellsGrow(q, d) /\ d.kind = "finished" /\ d.port = srv[q].port /\ d.sid = srv[q].sid
  BY <1>1, <1>2, FlightTells, QueueShrinks
<1>5. Asks(p)' \subseteq Asks(p) /\ News(p) \subseteq {d} /\ KeepsClient(p)
  BY <1>0, <1>1, <1>4 DEF TellsGrow, KeepsClient, News, TypeOK
<1>6. h.kind \in Keyed /\ h.port = srv[q].port
  BY <1>0, <1>1, <1>2, <1>3 DEF Pair, Session, OnePort, Keyed
<1>7. srv[q].port = cl[p].port => cl[p].sid = srv[q].sid
  BY <1>0, <1>1, <1>3, <1>6 DEF Pair, Session, OneKey
<1>8. Agreed(p)'
  BY <1>0, <1>1, <1>2, <1>3, <1>5, <1>6, <1>7 DEF Pair, Session, OneKey, Agreed, KeepsClient
<1>9. Session(p)'
  BY <1>0, <1>2, <1>4, <1>5, <1>7, <1>8, ServerStep DEF Pair
<1>10. Greeted(p)'
  <2>1. Engaged(q) /\ Engaged(q)' /\ ~Doomed(q)
    BY <1>1, <1>2 DEF Engaged, Doomed
  <2> QED
    BY <1>0, <1>2, <1>4, <1>5, <2>1, GreetedStep DEF Pair, Dialogue
<1>11. Matched(p)' /\ Asking(p)'
  BY <1>0, <1>2, <1>4, <1>5, MatchedStep DEF Pair, Dialogue
<1>12. Queued(q)'
  <2>1. queue[q] \in Seq(Datagrams(ToListener)) /\ queue'[q] = Tail(queue[q])
    BY <1>1 DEF Pop, TypeOK
  <2>2. \A i \in 1..Len(queue'[q]) :
          i + 1 \in 1..Len(queue[q]) /\ 1 < i + 1 /\ queue'[q][i] = queue[q][i + 1]
    BY <1>1, <2>1
  <2>3. \A j \in 1..Len(queue[q]) : 1 < j => queue[q][j].port = srv[q].port
    BY <1>0, <1>1, <1>3 DEF Server, Queued
  <2>4. \A i \in 1..Len(queue'[q]) : queue'[q][i].port = srv[q].port
    BY <2>2, <2>3
  <2> QED
    BY <1>2, <2>4 DEF Queued
<1>13. Buffered(q)'
  BY <1>0, <1>1, <1>2 DEF Server, Buffered
<1> QED
  BY <1>9, <1>10, <1>11, <1>12, <1>13 DEF Pair, Dialogue, Server

\* The handshake goes on, or fails for good, and nothing is sent.
LEMMA AcceptSilentPair ==
  ASSUME IInv, SInv, NEW p \in Peers, NEW q \in Peers, q = Other(p),
         AcceptFatal(q) \/ AcceptDrop(q) \/ AcceptWouldBlock(q) \/ AcceptWake(q)
  PROVE  Pair(p)' /\ Server(q)'
<1> USE DEF IInv
<1>0. p # q /\ p = Other(q) /\ Pair(p) /\ Server(q)
  BY OtherOther DEF SInv
<1>1. /\ pc[q] \in {"accept", "acceptWait"}
      /\ (queue[q] # <<>> /\ Pop(q)) \/ UNCHANGED queue
      /\ UNCHANGED <<srv, cl, answers, late, wire>>
  BY DEF AcceptFatal, AcceptDrop, AcceptWouldBlock, AcceptWake, env
<1>2. /\ pc'[q] \in {"accept", "acceptWait"} \/ (pc'[q] = "loop" /\ cleanup'[q])
      /\ pc'[p] = pc[p]
  BY <1>0 DEF AcceptFatal, AcceptDrop, AcceptWouldBlock, AcceptWake, AcceptFails, Goto, TypeOK
<1>3. pc[q] \in Serving
  BY <1>1 DEF Serving, ServerPcs
<1>4. Silent
  BY <1>1, QueueShrinks, AnswersShrink, SilentStep
<1>5. Asks(p)' \subseteq Asks(p) /\ News(p) = {} /\ KeepsClient(p)
  BY <1>1, <1>2, <1>4 DEF Silent, KeepsClient, News
<1>6. Agreed(p)'
  BY <1>0, <1>1, <1>2, <1>5, AgreedStep DEF Pair
<1>7. Session(p)'
  BY <1>0, <1>1, <1>3, <1>5, <1>6, ServerStep DEF Pair
<1>8. Greeted(p)'
  <2>1. ~Doomed(q) /\ (Engaged(q)' \/ Doomed(q)')
    BY <1>1, <1>2 DEF Engaged, Doomed
  <2> QED
    BY <1>0, <1>1, <1>5, <2>1, GreetedStep DEF Pair, Dialogue
<1>9. Matched(p)' /\ Asking(p)'
  BY <1>0, <1>1, <1>2, <1>5, MatchedStep DEF Pair, Dialogue
<1>10. Queued(q)'
  <2>1. queue'[q] = queue[q] \/ (queue[q] # <<>> /\ queue'[q] = Tail(queue[q]))
    BY <1>1 DEF Pop, TypeOK
  <2> QED
    BY <1>0, <1>1, <1>2, <2>1, QueuedStep DEF Server
<1>11. Buffered(q)'
  BY <1>0, <1>1, <1>2 DEF Server, Buffered
<1> QED
  BY <1>7, <1>8, <1>9, <1>10, <1>11 DEF Pair, Dialogue, Server

-----------------------------------------------------------------------------
(* Respond.                                                                *)

\* What q reads after the handshake comes from its client, in this session.
LEMMA ReadOwn ==
  ASSUME IInv, SInv, NEW p \in Peers, NEW q \in Peers, q = Other(p), queue[q] # <<>>,
         pc[q] \in {"read", "check"}
  PROVE  LET h == Head(queue[q]) IN
         /\ h \in Asks(p) /\ h.port = srv[q].port
         /\ h.kind \in Keyed => h.sid = srv[q].sid
<1>1. Head(queue[q]) \in Asks(p) /\ Head(queue[q]) = queue[q][1] /\ 1 \in 1..Len(queue[q])
  BY HeadAsked DEF IInv
<1>2. Head(queue[q]).port = srv[q].port
  BY <1>1 DEF SInv, Server, Queued
<1> QED
  BY <1>1, <1>2 DEF SInv, Pair, Session, Agreed

\* A step of q in an established session that sends nothing.
LEMMA RespondSilent ==
  ASSUME IInv, SInv, NEW p \in Peers, NEW q \in Peers, q = Other(p),
         pc[q] \in {"read", "check", "reply", "drain"}, UNCHANGED <<cl, answers, late, wire>>,
         (queue[q] # <<>> /\ Pop(q)) \/ UNCHANGED queue,
         NEW label \in {"read", "check", "reply", "drain", "crashed"},
         pc' = [pc EXCEPT ![q] = label],
         label \in {"read", "check", "reply"} => pc[q] \in {"read", "check", "reply"},
         label \in {"read", "check"} => pc[q] \in {"read", "check"},
         srv'[q].port = srv[q].port, srv'[q].sid = srv[q].sid,
         Buffered(q)',
         cleanup[q] => cleanup'[q],
         Engaged(q) /\ srv[q].port = cl[p].port /\ pc[p] = "connect" => Engaged(q)' \/ Doomed(q)',
         label \in {"check", "reply"} /\ srv'[q].got = "data" /\ srv[q].port = cl[p].port
           => Written(p) /\ srv'[q].req = cl[p].cmd,
         label = "reply" /\ srv'[q].got = "closed" /\ srv[q].port = cl[p].port
           => pc[p] \notin ClientPcs
  PROVE  Pair(p)' /\ Server(q)'
<1> USE DEF IInv
<1>0. p # q /\ p = Other(q) /\ Pair(p) /\ Server(q)
  BY OtherOther DEF SInv
<1>1. pc[q] \in Serving /\ pc'[q] = label /\ pc'[p] = pc[p]
  BY <1>0 DEF Serving, ServerPcs, TypeOK
<1>2. Silent
  BY QueueShrinks, AnswersShrink, SilentStep
<1>3. Asks(p)' \subseteq Asks(p) /\ News(p) = {} /\ KeepsClient(p)
  BY <1>1, <1>2 DEF Silent, KeepsClient, News
<1>4. Agreed(p)'
  BY <1>0, <1>1, <1>3, AgreedStep DEF Pair
<1>5. Session(p)'
  BY <1>0, <1>1, <1>3, <1>4, ServerStep DEF Pair
<1>6. Greeted(p)'
  <2>1. Doomed(q) => Doomed(q)'
    BY <1>1 DEF Doomed
  <2> QED
    BY <1>0, <1>3, <2>1, GreetedStep DEF Pair, Dialogue
<1>7. Matched(p)' /\ Asking(p)'
  BY <1>0, <1>1, <1>3, MatchedStep DEF Pair, Dialogue
<1>8. Queued(q)'
  <2>1. queue'[q] = queue[q] \/ (queue[q] # <<>> /\ queue'[q] = Tail(queue[q]))
    BY DEF Pop, TypeOK
  <2> QED
    BY <1>0, <1>1, <2>1, QueuedStep DEF Server
<1> QED
  BY <1>5, <1>6, <1>7, <1>8 DEF Pair, Dialogue, Server

\* decrypt_react answers the request it was given.
LEMMA ReplyFits ==
  ASSUME NEW stock \in Int, NEW req \in Payloads, req.op \in {"CHECK", "REFILL", "REQUEST"}
  PROVE  Fits(ServedReply(stock, req), req)
<1>1. CASE req.op = "CHECK"
  BY <1>1 DEF Fits, ServedReply, Payloads, Insufficient, Blank
<1>2. CASE req.op = "REFILL"
  BY <1>2 DEF Fits, ServedReply, Payloads, Insufficient, Blank
<1>3. CASE req.op = "REQUEST"
  BY <1>3 DEF Fits, ServedReply, Payloads, Insufficient, Blank
<1> QED
  BY <1>1, <1>2, <1>3

LEMMA ServeFacts ==
  ASSUME TypeOK, NEW q \in Peers, NEW req \in Payloads, Serve(q, req)
  PROVE  /\ pc' = [pc EXCEPT ![q] = "reply"] /\ \A r \in Peers \ {q} : srv'[r] = srv[r]
         /\ srv'[q].port = srv[q].port /\ srv'[q].sid = srv[q].sid
         /\ srv'[q].got = "data" /\ srv'[q].req = req
         /\ req.op = "SEND" => srv'[q].ptr = "null" /\ srv'[q].buf = srv[q].buf
         /\ req.op # "SEND" => srv'[q].ptr = "heap" /\ srv'[q].buf = ServedReply(inv[q], req)
         /\ inv' = [inv EXCEPT ![q] = ServedInventory(inv[q], req)]
         /\ Buffered(q)'
<1> DEFINE ptr == IF req.op = "SEND" THEN "null" ELSE "heap"
           buf == IF req.op = "SEND" THEN srv[q].buf ELSE ServedReply(inv[q], req)
           new == [srv[q] EXCEPT !.got = "data", !.req = req, !.ptr = ptr, !.buf = buf]
<1>1. srv[q] \in ServerStates /\ inv[q] \in Int
  BY DEF TypeOK
<1>2. srv' = [srv EXCEPT ![q] = new]
  BY DEF Serve
<1>3. srv'[q] = new /\ \A r \in Peers \ {q} : srv'[r] = srv[r]
  BY <1>2 DEF TypeOK
<1>4. /\ new.port = srv[q].port /\ new.sid = srv[q].sid /\ new.got = "data" /\ new.req = req
      /\ new.ptr = ptr /\ new.buf = buf
  BY <1>1 DEF ServerStates
<1>5. pc' = [pc EXCEPT ![q] = "reply"] /\ inv' = [inv EXCEPT ![q] = ServedInventory(inv[q], req)]
  BY DEF Serve, Goto
<1>6. req.op \in {"CHECK", "REFILL", "REQUEST"} => Fits(buf, req)
  BY <1>1, ReplyFits
<1>7. pc'[q] = "reply"
  BY <1>5 DEF TypeOK
<1>8. Buffered(q)'
  BY <1>3, <1>4, <1>6, <1>7 DEF Buffered
<1> QED
  BY <1>3, <1>4, <1>5, <1>8

\* Serving a request of q's session.
LEMMA ServePair ==
  ASSUME IInv, SInv, NEW p \in Peers, NEW q \in Peers, q = Other(p), pc[q] = "check",
         NEW req \in Payloads, Serve(q, req), UNCHANGED <<cleanup, cl, answers, late, wire>>,
         (queue[q] # <<>> /\ Pop(q)) \/ UNCHANGED queue,
         srv[q].port = cl[p].port => Written(p) /\ req = cl[p].cmd
  PROVE  Pair(p)' /\ Server(q)'
<1>1. /\ pc' = [pc EXCEPT ![q] = "reply"]
      /\ srv'[q].port = srv[q].port /\ srv'[q].sid = srv[q].sid
      /\ srv'[q].got = "data" /\ srv'[q].req = req /\ Buffered(q)'
  BY ServeFacts DEF IInv
<1>2. srv[q].port = cl[p].port => pc[p] # "connect"
  BY DEF Written
<1> QED
  BY <1>1, <1>2, RespondSilent

LEMMA ReadPair ==
  ASSUME IInv, SInv, NEW p \in Peers, NEW q \in Peers, q = Other(p),
         FirstRead(q) \/ ReadClose(q)
  PROVE  Pair(p)' /\ Server(q)'
<1> DEFINE h == Head(queue[q])
<1>0. srv[q] \in ServerStates /\ pc \in [Peers -> {"loop", "shell"} \cup ServerPcs \cup ClientPcs \cup FinalPcs]
      /\ Matched(p) /\ Buffered(q) /\ srv \in [Peers -> ServerStates]
  BY DEF IInv, TypeOK, SInv, Pair, Dialogue, Server
<1>1. /\ pc[q] \in {"read", "check"} /\ UNCHANGED <<cleanup, cl, answers, late, wire>>
      /\ (queue[q] # <<>> /\ Pop(q)) \/ UNCHANGED queue
  BY DEF FirstRead, ReadClose, Reading, env
<1>2. queue[q] # <<>> => h \in Asks(p) /\ h.port = srv[q].port
  BY <1>1, ReadOwn
<1>3. CASE FirstRead(q) /\ queue[q] = <<>>
  <2>1. pc[q] = "read" /\ pc' = [pc EXCEPT ![q] = "check"]
        /\ srv' = [srv EXCEPT ![q] = [@ EXCEPT !.got = "none"]]
    BY <1>3 DEF FirstRead, Goto
  <2>2. /\ srv'[q].port = srv[q].port /\ srv'[q].sid = srv[q].sid /\ srv'[q].got = "none"
        /\ pc'[q] = "check"
    BY <1>0, <2>1 DEF ServerStates
  <2>3. Buffered(q)' /\ Engaged(q)'
    BY <2>2 DEF Buffered, Engaged
  <2> QED
    BY <1>1, <2>1, <2>2, <2>3, RespondSilent
<1>4. CASE FirstRead(q) /\ queue[q] # <<>>
  <2>1. /\ pc[q] = "read" /\ pc' = [pc EXCEPT ![q] = "check"] /\ h.kind = "request"
        /\ srv' = [srv EXCEPT ![q] = [@ EXCEPT !.got = "data", !.req = h.body]]
    BY <1>4 DEF FirstRead, Goto
  <2>2. /\ srv'[q].port = srv[q].port /\ srv'[q].sid = srv[q].sid /\ srv'[q].got = "data"
        /\ srv'[q].req = h.body /\ pc'[q] = "check"
    BY <1>0, <2>1 DEF ServerStates
  <2>3. Buffered(q)'
    BY <2>2 DEF Buffered
  <2>4. srv[q].port = cl[p].port => Written(p) /\ h.body = cl[p].cmd
    BY <1>0, <1>2, <1>4, <2>1 DEF Matched
  <2>5. srv[q].port = cl[p].port => pc[p] # "connect"
    BY <2>4 DEF Written
  <2> QED
    BY <1>1, <2>1, <2>2, <2>3, <2>4, <2>5, RespondSilent
<1>5. CASE ReadClose(q)
  <2>1. /\ queue[q] # <<>> /\ h.kind = "close" /\ pc' = [pc EXCEPT ![q] = "reply"]
        /\ srv' = [srv EXCEPT ![q] = [@ EXCEPT !.got = "closed"]]
    BY <1>5 DEF ReadClose, Goto
  <2>2. /\ srv'[q].port = srv[q].port /\ srv'[q].sid = srv[q].sid /\ srv'[q].got = "closed"
        /\ pc'[q] = "reply"
    BY <1>0, <2>1 DEF ServerStates
  <2>3. Buffered(q)'
    BY <2>2 DEF Buffered
  <2>4. srv[q].port = cl[p].port => pc[p] \notin ClientPcs
    BY <1>0, <1>2, <2>1 DEF Matched
  <2>5. srv[q].port = cl[p].port => pc[p] # "connect"
    BY <2>4 DEF ClientPcs
  <2> QED
    BY <1>1, <2>1, <2>2, <2>3, <2>4, <2>5, RespondSilent
<1> QED
  BY <1>3, <1>4, <1>5

LEMMA ReactPair ==
  ASSUME IInv, SInv, NEW p \in Peers, NEW q \in Peers, q = Other(p),
         React(q) \/ ReadAndReact(q) \/ CheckInterrupted(q)
  PROVE  Pair(p)' /\ Server(q)'
<1> DEFINE h == Head(queue[q])
<1>0. srv[q] \in ServerStates /\ Matched(p) /\ Buffered(q) /\ srv[q].req \in Payloads
      /\ pc \in [Peers -> {"loop", "shell"} \cup ServerPcs \cup ClientPcs \cup FinalPcs]
  BY DEF IInv, TypeOK, SInv, Pair, Dialogue, Server, ServerStates
<1>1. pc[q] = "check" /\ UNCHANGED <<cleanup, cl, answers, late, wire>>
  BY DEF React, ReadAndReact, CheckInterrupted, env
<1>2. srv[q].got = "data" /\ srv[q].port = cl[p].port => Written(p) /\ srv[q].req = cl[p].cmd
  BY <1>0, <1>1 DEF Matched
<1>3. CASE ReadAndReact(q)
  <2>1. /\ queue[q] # <<>> /\ h.kind = "request" /\ Serve(q, h.body) /\ Pop(q)
    BY <1>3 DEF ReadAndReact
  <2>2. h \in Asks(p) /\ h.port = srv[q].port
    BY <1>1, <2>1, ReadOwn
  <2>3. srv[q].port = cl[p].port => Written(p) /\ h.body = cl[p].cmd
    BY <1>0, <2>1, <2>2 DEF Matched
  <2>4. h.body \in Payloads
    <3>1. h \in Datagrams(ToListener)
      BY <2>1, QueueTypes DEF IInv
    <3> QED
      BY <3>1 DEF Datagrams
  <2> QED
    BY <1>1, <2>1, <2>3, <2>4, ServePair
<1>4. CASE Serve(q, srv[q].req) /\ srv[q].got = "data" /\ UNCHANGED queue
  BY <1>0, <1>1, <1>2, <1>4, ServePair
<1>5. CASE React(q)
  BY <1>4, <1>5 DEF React
<1>6. CASE CheckInterrupted(q) /\ srv[q].got = "none"
  <2>1. /\ pc' = [pc EXCEPT ![q] = "reply"] /\ UNCHANGED srv /\ UNCHANGED queue /\ cleanup[q]
    BY <1>6 DEF CheckInterrupted, Goto
  <2>2. Buffered(q)' /\ Doomed(q)'
    BY <1>0, <1>1, <1>6, <2>1 DEF Buffered, Doomed
  <2> QED
    BY <1>1, <1>6, <2>1, <2>2, RespondSilent
<1>7. CASE CheckInterrupted(q) /\ pc' = [pc EXCEPT ![q] = "crashed"] /\ UNCHANGED srv
  <2>1. UNCHANGED queue /\ cleanup[q] /\ pc'[q] = "crashed"
    BY <1>0, <1>7 DEF CheckInterrupted
  <2>2. Buffered(q)' /\ Doomed(q)'
    BY <1>1, <2>1 DEF Buffered, Doomed
  <2> QED
    BY <1>1, <1>7, <2>1, <2>2, RespondSilent
<1> QED
  BY <1>3, <1>4, <1>5, <1>6, <1>7 DEF React, ReadAndReact, CheckInterrupted, Goto

LEMMA ReadRepeatPair ==
  ASSUME IInv, SInv, NEW p \in Peers, NEW q \in Peers, q = Other(p), ReadRepeat(q)
  PROVE  Pair(p)' /\ Server(q)'
<1> USE DEF IInv
<1>0. p # q /\ p = Other(q) /\ Pair(p) /\ Server(q)
  BY OtherOther DEF SInv
<1>1. /\ Reading(q) /\ queue[q] # <<>> /\ Pop(q)
      /\ UNCHANGED <<srv, cl, answers, late>>
  BY DEF ReadRepeat, env
<1>2. pc[q] \in {"read", "check"} /\ pc[q] \in Serving
  BY <1>1 DEF Reading, Serving, ServerPcs
<1>3. CASE Send(q, Flight("finished", srv[q].port, srv[q].sid)) /\ UNCHANGED <<cleanup, pc>>
  <2>1. PICK d : TellsGrow(q, d) /\ d.kind = "finished" /\ d.port = srv[q].port /\ d.sid = srv[q].sid
    BY <1>1, <1>2, <1>3, FlightTells, QueueShrinks
  <2>2. Asks(p)' \subseteq Asks(p) /\ News(p) \subseteq {d} /\ KeepsClient(p)
    BY <1>0, <1>1, <1>3, <2>1 DEF TellsGrow, KeepsClient, News
  <2>3. Agreed(p)'
    BY <1>0, <1>1, <1>2, <1>3, <2>2, AgreedStep DEF Pair
  <2>4. srv[q].port = cl[p].port => cl[p].sid = srv[q].sid
    BY <1>0, <1>2 DEF Pair, Session, Agreed
  <2>5. Session(p)'
    BY <1>0, <1>1, <1>2, <2>1, <2>2, <2>3, <2>4, ServerStep DEF Pair
  <2>6. Greeted(p)'
    <3>1. Engaged(q) /\ Engaged(q)' /\ (Doomed(q) => Doomed(q)')
      BY <1>1, <1>2, <1>3, <1>0 DEF Engaged, Doomed, Reading
    <3> QED
      BY <1>0, <1>1, <2>1, <2>2, <3>1, GreetedStep DEF Pair, Dialogue
  <2>7. Matched(p)' /\ Asking(p)'
    <3>1. pc'[q] \in {"check", "reply"} /\ srv'[q].got = "data" /\ srv[q].port = cl[p].port
            => Written(p) /\ srv'[q].req = cl[p].cmd
      BY <1>0, <1>1, <1>3 DEF Pair, Dialogue, Matched
    <3>2. pc'[q] # "reply"
      BY <1>2, <1>3
    <3> QED
      BY <1>0, <1>1, <2>1, <2>2, <3>1, <3>2, MatchedStep DEF Pair, Dialogue
  <2>8. Queued(q)'
    <3>1. queue'[q] = Tail(queue[q])
      BY <1>1 DEF Pop, TypeOK
    <3> QED
      BY <1>0, <1>1, <1>2, <1>3, <3>1, QueuedStep DEF Server
  <2>9. Buffered(q)'
    BY <1>0, <1>1, <1>3 DEF Server, Buffered
  <2> QED
    BY <2>5, <2>6, <2>7, <2>8, <2>9 DEF Pair, Dialogue, Server
<1>4. CASE /\ cleanup' = [cleanup EXCEPT ![q] = TRUE]
           /\ pc' = [pc EXCEPT ![q] = "reply"] /\ UNCHANGED wire
  <2>1. cleanup'[q] /\ pc'[q] = "reply" /\ srv[q].got = "none"
    <3>1. Buffered(q) /\ (pc[q] = "check" => srv[q].got = "none")
      BY <1>0, <1>1 DEF Server, Reading
    <3>2. srv[q].got = "none"
      BY <1>2, <3>1 DEF Buffered
    <3> QED
      BY <1>4, <3>2 DEF TypeOK
  <2>2. Buffered(q)' /\ Doomed(q)'
    BY <1>1, <2>1 DEF Buffered, Doomed
  <2> QED
    BY <1>1, <1>2, <1>4, <2>1, <2>2, RespondSilent
<1> QED
  BY <1>3, <1>4 DEF ReadRepeat, Goto

LEMMA ReplyPair ==
  ASSUME IInv, SInv, NEW p \in Peers, NEW q \in Peers, q = Other(p), Reply(q)
  PROVE  Pair(p)' /\ Server(q)'
<1> USE DEF IInv
<1>0. p # q /\ p = Other(q) /\ Pair(p) /\ Server(q) /\ srv[q] \in ServerStates
  BY OtherOther DEF SInv, TypeOK
<1>1. /\ pc[q] = "reply" /\ pc' = [pc EXCEPT ![q] = "drain"]
      /\ UNCHANGED <<srv, cl, queue, answers, late>>
  BY DEF Reply, Goto, env
<1>2. pc'[q] = "drain" /\ pc'[p] = pc[p] /\ pc[q] \in Serving /\ ~Engaged(q)
  BY <1>0, <1>1 DEF Serving, ServerPcs, Engaged, TypeOK
<1>3. Buffered(q)'
  BY <1>2 DEF Buffered
<1>4. CASE UNCHANGED wire /\ (cleanup[q] => cleanup'[q])
  BY <1>1, <1>2, <1>3, <1>4, RespondSilent
<1>5. CASE /\ Send(q, Dgram("reply", srv[q].port, srv[q].sid, srv[q].buf))
           /\ srv[q].ptr # "null" /\ ~cleanup[q] /\ UNCHANGED cleanup
  <2>1. PICK d : /\ TellsGrow(q, d) /\ d.kind = "reply" /\ d.body = srv[q].buf
                 /\ d.port = srv[q].port /\ d.sid = srv[q].sid
    <3>1. "reply" \in ToClient /\ srv[q].buf \in Payloads
      BY <1>0 DEF ToClient, ServerStates
    <3> QED
      BY <1>1, <1>2, <1>5, <3>1, ServerTells, QueueShrinks
  <2>2. Asks(p)' \subseteq Asks(p) /\ News(p) \subseteq {d} /\ KeepsClient(p)
    BY <1>0, <1>1, <1>2, <2>1 DEF TellsGrow, KeepsClient, News
  <2>3. Agreed(p)'
    BY <1>2 DEF Agreed
  <2>4. srv[q].port = cl[p].port => cl[p].sid = srv[q].sid
    BY <1>0, <1>1 DEF Pair, Session, Agreed
  <2>5. Session(p)'
    BY <1>0, <1>1, <1>2, <2>1, <2>2, <2>3, <2>4, ServerStep DEF Pair
  <2>6. /\ srv[q].got # "none"
        /\ srv[q].got = "data" => srv[q].req.op # "SEND"
        /\ srv[q].got = "data" /\ srv[q].req.op \in {"CHECK", "REFILL", "REQUEST"}
             => Fits(srv[q].buf, srv[q].req)
    BY <1>0, <1>1, <1>5 DEF Server, Buffered
  <2>7. srv[q].got = "data" \/ srv[q].got = "closed"
    BY <1>0, <2>6 DEF ServerStates
  <2>8. ASSUME srv[q].port = cl[p].port, pc[p] \in ClientPcs
        PROVE  Written(p) /\ Fits(srv[q].buf, cl[p].cmd)
    <3>1. srv[q].got = "data"
      BY <1>0, <1>1, <2>7, <2>8 DEF Pair, Dialogue, Matched
    <3>2. Written(p) /\ srv[q].req = cl[p].cmd
      BY <1>0, <1>1, <2>8, <3>1 DEF Pair, Dialogue, Matched
    <3>3. srv[q].req.op \in {"CHECK", "REFILL", "REQUEST"}
      BY <1>0, <2>6, <2>8, <3>1, <3>2 DEF Pair, Dialogue, Asking, Commands
    <3> QED
      BY <2>6, <3>1, <3>2, <3>3
  <2>9. Greeted(p)'
    <3>1. pc[p] = "connect" => srv[q].port # cl[p].port
      BY <2>8 DEF Written, ClientPcs
    <3>2. ~Doomed(q)
      BY <1>5 DEF Doomed
    <3> QED
      BY <1>0, <1>1, <1>2, <2>1, <2>2, <3>1, <3>2 DEF Pair, Dialogue, Greeted, KeepsClient, News
  <2>10. Matched(p)' /\ Asking(p)'
    BY <1>0, <1>1, <1>2, <2>1, <2>2, <2>8 DEF Pair, Dialogue, Matched, Asking, Written, KeepsClient, News
  <2>11. Queued(q)'
    BY <1>2 DEF Queued
  <2> QED
    BY <1>3, <2>5, <2>9, <2>10, <2>11 DEF Pair, Dialogue, Server
<1> QED
  BY <1>4, <1>5 DEF Reply, TypeOK

LEMMA DrainPair ==
  ASSUME IInv, SInv, NEW p \in Peers, NEW q \in Peers, q = Other(p), Drain(q)
  PROVE  Pair(p)' /\ Server(q)'
<1> USE DEF IInv
<1>0. p # q /\ p = Other(q) /\ Pair(p) /\ Server(q) /\ srv[q] \in ServerStates
  BY OtherOther DEF SInv, TypeOK
<1>1. /\ pc[q] = "drain" /\ CloseListener(q)
      /\ srv' = [srv EXCEPT ![q] = [@ EXCEPT !.got = "none", !.req = Blank]]
      /\ UNCHANGED <<cleanup, cl, answers, late, wire>>
  BY DEF Drain, env
<1>2. /\ pc'[q] \in {"loop", "shell"} /\ pc'[p] = pc[p] /\ pc[q] \in Serving
      /\ ~Engaged(q) /\ (Doomed(q) => Doomed(q)')
  BY <1>0, <1>1 DEF Drain, Goto, Serving, ServerPcs, Engaged, Doomed, TypeOK
<1>3. srv'[q].port = srv[q].port /\ srv'[q].sid = srv[q].sid /\ srv'[q].got = "none"
  BY <1>0, <1>1 DEF ServerStates, TypeOK
<1>4. Silent
  BY <1>1, QueueShrinks, AnswersShrink, SilentStep
<1>5. Asks(p)' \subseteq Asks(p) /\ News(p) = {} /\ KeepsClient(p)
  BY <1>1, <1>2, <1>4 DEF Silent, KeepsClient, News
<1>6. Agreed(p)'
  BY <1>2 DEF Agreed
<1>7. Session(p)'
  BY <1>0, <1>2, <1>3, <1>5, <1>6, ServerStep DEF Pair
<1>8. Greeted(p)'
  BY <1>0, <1>2, <1>3, <1>5, GreetedStep DEF Pair, Dialogue
<1>9. Matched(p)' /\ Asking(p)'
  BY <1>0, <1>2, <1>3, <1>5, MatchedStep DEF Pair, Dialogue
<1>10. Queued(q)' /\ Buffered(q)'
  BY <1>2, <1>3 DEF Queued, Buffered
<1> QED
  BY <1>7, <1>8, <1>9, <1>10 DEF Pair, Dialogue, Server

\* Whatever a server does, its own session as a client is over and stays so.
LEMMA ServerFrame ==
  ASSUME IInv, NEW q \in Peers, Accept(q) \/ Respond(q)
  PROVE  /\ Asks(q)' \subseteq Asks(q) /\ Tells(q)' \subseteq Tells(q)
         /\ KeepsServer(Other(q))
         /\ pc[q] \in ServerPcs /\ pc'[q] \notin ClientPcs
         /\ UNCHANGED <<cl, answers>>
<1> USE DEF IInv
<1> DEFINE p == Other(q)
           Sends(kind) == Send(q, Flight(kind, srv[q].port, srv[q].sid))
           Reads == (queue[q] # <<>> /\ Pop(q)) \/ CloseListener(q) \/ UNCHANGED queue
<1>0. p \in Peers /\ p # q
  BY OtherOther
<1>1. UNCHANGED <<cl, answers, late>>
  BY DEF Accept, AcceptHello, AcceptRepeat, AcceptFinish, AcceptFatal, AcceptDrop,
     AcceptWouldBlock, AcceptWake, Respond, FirstRead, ReadClose, ReadRepeat, React,
     ReadAndReact, CheckInterrupted, Reply, Drain, env
<1>2. pc[q] \in {"accept", "acceptWait", "read", "check", "reply", "drain"}
  BY DEF Accept, AcceptHello, AcceptRepeat, AcceptFinish, AcceptFatal, AcceptDrop,
     AcceptWouldBlock, AcceptWake, Respond, FirstRead, ReadClose, ReadRepeat, React,
     ReadAndReact, CheckInterrupted, Reply, Drain, Reading
<1>3. pc[q] \in ServerPcs /\ pc[q] \in Serving
  BY <1>2 DEF Serving, ServerPcs
<1>4. Reads
  BY DEF Accept, AcceptHello, AcceptRepeat, AcceptFinish, AcceptFatal, AcceptDrop,
     AcceptWouldBlock, AcceptWake, Respond, FirstRead, ReadClose, ReadRepeat, React,
     ReadAndReact, CheckInterrupted, Reply, Drain
<1>5. /\ srv'[p] = srv[p] /\ pc'[p] = pc[p] /\ cleanup'[p] = cleanup[p]
      /\ pc'[q] \notin ClientPcs
  <2>1. CASE Accept(q)
    BY <1>0, <1>2, <2>1 DEF Accept, AcceptHello, AcceptRepeat, AcceptFinish, AcceptFatal, AcceptDrop,
       AcceptWouldBlock, AcceptWake, AcceptFails, Goto, ClientPcs, TypeOK
  <2>2. ASSUME NEW req, Serve(q, req), UNCHANGED cleanup
        PROVE  /\ srv'[p] = srv[p] /\ pc'[p] = pc[p] /\ cleanup'[p] = cleanup[p]
               /\ pc'[q] \notin ClientPcs
    BY <1>0, <2>2 DEF Serve, Goto, ClientPcs, TypeOK
  <2>3. CASE React(q) \/ ReadAndReact(q) \/ CheckInterrupted(q)
    BY <1>0, <2>2, <2>3 DEF React, ReadAndReact, CheckInterrupted, Goto, ClientPcs, TypeOK
  <2>4. CASE FirstRead(q) \/ ReadClose(q) \/ ReadRepeat(q) \/ Reply(q) \/ Drain(q)
    BY <1>0, <1>2, <2>4 DEF FirstRead, ReadClose, ReadRepeat, Reply, Drain, Goto, ClientPcs, TypeOK
  <2> QED
    BY <2>1, <2>3, <2>4 DEF Respond
<1>6. queue'[p] = queue[p]
  BY <1>0, <1>4 DEF Pop, CloseListener, TypeOK
<1>7. Shrinks(queue, queue') /\ Shrinks(answers, answers')
  BY <1>1, <1>4, QueueShrinks, AnswersShrink
<1>8. ASSUME UNCHANGED wire
      PROVE  Asks(q)' \subseteq Asks(q) /\ Tells(q)' \subseteq Tells(q)
  BY <1>1, <1>7, <1>8, SilentStep DEF Silent
<1>9. ASSUME NEW kind \in {"offer", "finished"}, Sends(kind)
      PROVE  Asks(q)' \subseteq Asks(q) /\ Tells(q)' \subseteq Tells(q)
  BY <1>1, <1>3, <1>7, <1>9, FlightTells DEF TellsGrow
<1>10. ASSUME Send(q, Dgram("reply", srv[q].port, srv[q].sid, srv[q].buf))
       PROVE  Asks(q)' \subseteq Asks(q) /\ Tells(q)' \subseteq Tells(q)
  <2>1. "reply" \in ToClient /\ srv[q] \in ServerStates
    BY DEF ToClient, TypeOK
  <2>2. srv[q].buf \in Payloads
    BY <2>1 DEF ServerStates
  <2> QED
    BY <1>1, <1>3, <1>7, <1>10, <2>1, <2>2, ServerTells DEF TellsGrow
<1>11. \/ UNCHANGED wire \/ Sends("offer") \/ Sends("finished")
       \/ Send(q, Dgram("reply", srv[q].port, srv[q].sid, srv[q].buf))
  BY DEF Accept, AcceptHello, AcceptRepeat, AcceptFinish, AcceptFatal, AcceptDrop,
     AcceptWouldBlock, AcceptWake, Respond, FirstRead, ReadClose, ReadRepeat, React,
     ReadAndReact, CheckInterrupted, Reply, Drain
<1> QED
  BY <1>1, <1>3, <1>5, <1>6, <1>8, <1>9, <1>10, <1>11 DEF KeepsServer

LEMMA ServerSInv ==
  ASSUME IInv, SInv, NEW q \in Peers, Accept(q) \/ Respond(q)
  PROVE  SInv'
<1> DEFINE p == Other(q)
<1>0. p \in Peers /\ q = Other(p) /\ \A r \in Peers : r = p \/ r = q
  BY OtherOther
<1>1. Pair(p)' /\ Server(q)'
  BY <1>0, AcceptHelloPair, AcceptFinishPair, AcceptSilentPair, ReadPair, ReadRepeatPair,
     ReactPair, ReplyPair, DrainPair DEF Accept, Respond
<1>2. /\ Asks(q)' \subseteq Asks(q) /\ Tells(q)' \subseteq Tells(q) /\ KeepsServer(p)
      /\ pc[q] \in ServerPcs /\ pc'[q] \notin ClientPcs /\ UNCHANGED <<cl, answers>>
  BY ServerFrame
<1>3. Pair(q)'
  BY <1>0, <1>2, ClientIdle DEF SInv, Pair, Dialogue
<1>4. Server(p)'
  BY <1>0, <1>2 DEF SInv, Server, Queued, Buffered, KeepsServer
<1> QED
  BY <1>0, <1>1, <1>3, <1>4 DEF SInv

-----------------------------------------------------------------------------
(* The client's side.                                                      *)

\* What a step of the client p sends.
Records(p) == Asks(p)' \ Asks(p)

LEMMA ClientStep ==
  ASSUME TypeOK, NEW p \in Peers, NEW q, q = Other(p), Session(p), KeepsServer(q),
         Tells(p)' \subseteq Tells(p),
         \A d \in Records(p) : /\ d.port = cl[p].port /\ d.sid = cl[p].sid
                               /\ d.kind \in Keyed => cl[p].stage = 2,
         cl'[p].port = cl[p].port, cl'[p].sid = cl[p].sid, cl'[p].stage = cl[p].stage,
         pc'[p] \in {"write", "await", "bye"} => cl[p].stage = 2,
         pc'[p] = "connect" => pc[p] = "connect",
         \/ answers'[p] = <<>>
         \/ /\ Range(answers'[p]) \subseteq Range(answers[p])
            /\ pc[p] \in ClientPcs /\ pc'[p] \in ClientPcs \cup {"crashed"}
  PROVE  Session(p)'
<1>1. Measured(p) /\ Measured(q)
  BY PairMeasures
<1>2. Numbered(p)'
  BY <1>1 DEF Session, Numbered, KeepsServer, Measured, Records
<1>3. OnePort(p)'
  BY DEF Session, OnePort, KeepsServer, Records
<1>4. OneKey(p)'
  BY DEF Session, OneKey, Records
<1>5. Agreed(p)'
  BY DEF Session, Agreed, KeepsServer, Records
<1>6. Told(p)'
  BY RangeEmpty DEF Session, Told, ClientPcs, ServerPcs
<1> QED
  BY <1>2, <1>3, <1>4, <1>5, <1>6 DEF Session

\* What a client sends carries the port of its session.
LEMMA ClientAsks ==
  ASSUME TypeOK, Connected, NEW p \in Peers, pc[p] \in ClientPcs, UNCHANGED <<late, queue>>,
         Shrinks(answers, answers'), NEW kind \in ToListener, NEW sid \in Sids \cup {0},
         NEW body \in Payloads, Send(p, Dgram(kind, cl[p].port, sid, body))
  PROVE  \E d : /\ AsksGrow(p, d) /\ d.kind = kind /\ d.body = body
                /\ d.port = cl[p].port /\ d.sid = sid
<1> DEFINE d == Dgram(kind, cl[p].port, sid, body)
<1>1. cl[p] \in ClientStates /\ cl[p].port # 0
  BY DEF TypeOK, Connected
<1>2. cl[p].port \in Ports
  BY <1>1 DEF ClientStates
<1>3. d \in Datagrams(ToListener) /\ d \in Datagrams(ToListener \cup ToClient)
  BY <1>2, DatagramTypes
<1>4. d.kind = kind /\ d.port = cl[p].port /\ d.sid = sid /\ d.body = body
  BY DEF Dgram
<1>5. Shrinks(queue, queue')
  BY QueueShrinks
<1>6. AsksGrow(p, d)
  BY <1>3, <1>4, <1>5, SendStep
<1> QED
  BY <1>4, <1>6

LEMMA FlightAsks ==
  ASSUME TypeOK, Connected, NEW p \in Peers, pc[p] \in ClientPcs, UNCHANGED <<late, queue>>,
         Shrinks(answers, answers'), NEW kind \in {"hello", "finish", "close"},
         NEW sid \in Sids \cup {0}, Send(p, Flight(kind, cl[p].port, sid))
  PROVE  \E d : AsksGrow(p, d) /\ d.kind = kind /\ d.port = cl[p].port /\ d.sid = sid
<1>1. kind \in ToListener
  BY DEF ToListener
<1> QED
  BY <1>1, ClientAsks, BlankIsPayload DEF Flight

\* The datagram p reads is among what its server has sent, and meant for its socket.
LEMMA HeadTold ==
  ASSUME TypeOK, NEW p \in Peers, Session(p), pc[p] \in ClientPcs, answers[p] # <<>>
  PROVE  /\ Head(answers[p]) \in Tells(p) /\ Head(answers[p]).port = cl[p].port
         /\ PopAnswer(p) => Range(answers'[p]) \subseteq Range(answers[p])
<1>1. answers[p] \in Seq(Datagrams(ToClient)) /\ answers \in [Peers -> Seq(Datagrams(ToClient))]
  BY DEF TypeOK
<1>2. Head(answers[p]) \in Datagrams(ToClient)
  BY <1>1
<1>3. Head(answers[p]) \in Range(answers[p]) /\ Range(Tail(answers[p])) \subseteq Range(answers[p])
  BY <1>1, RangeTail
<1>4. Head(answers[p]) \in Tells(p) /\ Head(answers[p]).port = cl[p].port
  BY <1>2, <1>3 DEF Tells, Datagrams, Session, Told
<1> QED
  BY <1>1, <1>3, <1>4 DEF PopAnswer

LEMMA ConnectOfferPair ==
  ASSUME IInv, SInv, NEW p \in Peers, ConnectOffer(p)
  PROVE  Pair(p)'
<1> USE DEF IInv
<1> DEFINE q == Other(p)
           h == Head(answers[p])
<1>0. q \in Peers /\ p # q /\ Pair(p) /\ cl[p] \in ClientStates /\ Measured(p) /\ Measured(q)
  BY OtherOther, PairMeasures DEF SInv, TypeOK
<1>1. /\ pc[p] = "connect" /\ answers[p] # <<>> /\ h.kind = "offer" /\ cl[p].stage = 1
      /\ cl' = [cl EXCEPT ![p] = [@ EXCEPT !.sid = h.sid, !.stage = 2, !.retries = 0]]
      /\ Send(p, Flight("finish", cl[p].port, h.sid)) /\ PopAnswer(p)
      /\ UNCHANGED <<cleanup, pc, srv, queue, late>>
  BY DEF ConnectOffer, env
<1>2. /\ cl'[p].sid = h.sid /\ cl'[p].stage = 2 /\ cl'[p].port = cl[p].port /\ cl'[p].cmd = cl[p].cmd
  BY <1>0, <1>1 DEF ClientStates, TypeOK
<1>3. pc[p] \in ClientPcs /\ KeepsServer(q)
  BY <1>1 DEF ClientPcs, KeepsServer
<1>4. h \in Tells(p) /\ h.port = cl[p].port /\ Range(answers'[p]) \subseteq Range(answers[p])
  BY <1>0, <1>1, <1>3, HeadTold DEF Pair
<1>5. PICK d : AsksGrow(p, d) /\ d.kind = "finish" /\ d.port = cl[p].port /\ d.sid = h.sid
  <2>1. h \in Datagrams(ToClient)
    BY <1>1, AnswerTypes
  <2>2. h.sid \in Sids \cup {0}
    BY <2>1 DEF Datagrams
  <2> QED
    BY <1>1, <1>3, <2>2, FlightAsks, AnswersShrink
<1>6. Asks(p)' \subseteq Asks(p) \cup {d} /\ Tells(p)' \subseteq Tells(p)
  BY <1>5 DEF AsksGrow
<1>7. h.sid > 0 /\ h.sid <= srv[q].sid /\ ~(cl[p].sid > 0)
  BY <1>0, <1>1, <1>4 DEF Pair, Session, Numbered
<1>8. \A e \in Asks(p) : e.kind \in Keyed => e.port # cl[p].port
  BY <1>0, <1>7 DEF Pair, Session, Numbered, OneKey
<1>9. Numbered(p)'
  BY <1>0, <1>1, <1>2, <1>3, <1>5, <1>6, <1>7 DEF Pair, Session, Numbered, KeepsServer, Measured
<1>10. OnePort(p)'
  BY <1>0, <1>2, <1>3, <1>4, <1>5, <1>6 DEF Pair, Session, OnePort, KeepsServer
<1>11. OneKey(p)'
  BY <1>0, <1>2, <1>5, <1>6, <1>8 DEF Pair, Session, OneKey
<1>12. Agreed(p)'
  <2>1. pc[q] \in {"read", "check", "reply"} => srv[q].port # cl[p].port
    BY <1>0, <1>7 DEF Pair, Session, Agreed, Numbered, Serving, ServerPcs
  <2> QED
    BY <1>0, <1>2, <1>3, <1>5, <1>6, <2>1 DEF Pair, Session, Agreed, KeepsServer
<1>13. Told(p)'
  <2>1. \A e \in Tells(p) : e.kind \in {"finished", "reply"} => e.port # cl[p].port
    BY <1>0, <1>7 DEF Pair, Session, Numbered, Told
  <2> QED
    BY <1>0, <1>1, <1>2, <1>3, <1>4, <1>6, <2>1 DEF Pair, Session, Told, ClientPcs, ServerPcs
<1>14. Greeted(p)'
  BY <1>0, <1>1, <1>2, <1>3, <1>4, <1>6 DEF Pair, Dialogue, Greeted, KeepsServer, Engaged, Doomed
<1>15. Matched(p)' /\ Asking(p)'
  BY <1>0, <1>1, <1>2, <1>3, <1>5, <1>6 DEF Pair, Dialogue, Matched, Asking, Written, KeepsServer
<1> QED
  BY <1>9, <1>10, <1>11, <1>12, <1>13, <1>14, <1>15 DEF Pair, Session, Dialogue

\* A step of p that repeats a flight, drops one, or ends the handshake.
LEMMA ClientFlightPair ==
  ASSUME IInv, SInv, NEW p \in Peers,
         \/ ClientRepeat(p) \/ ConnectRetry(p)
         \/ ConnectFinished(p) \/ ClientDrop(p)
  PROVE  Pair(p)'
<1> USE DEF IInv
<1> DEFINE q == Other(p)
<1>0. q \in Peers /\ p # q /\ Pair(p) /\ cl[p] \in ClientStates
  BY OtherOther DEF SInv, TypeOK
<1>1. /\ pc[p] \in {"connect", "await"} /\ pc[p] \in ClientPcs
      /\ UNCHANGED <<cleanup, srv, queue, late>>
      /\ (answers[p] # <<>> /\ PopAnswer(p)) \/ UNCHANGED answers
  BY DEF ClientRepeat, ConnectRetry, TimerFires, ConnectFinished, ClientDrop, env, ClientPcs
<1>2. /\ cl'[p].sid = cl[p].sid /\ cl'[p].stage = cl[p].stage /\ cl'[p].port = cl[p].port
      /\ cl'[p].cmd = cl[p].cmd
  <2>1. CASE UNCHANGED cl
    BY <2>1
  <2>2. CASE cl' = [cl EXCEPT ![p] = [@ EXCEPT !.retries = cl[p].retries + 1]]
    BY <1>0, <2>2 DEF ClientStates, TypeOK
  <2> QED
    BY <2>1, <2>2 DEF ClientRepeat, ConnectRetry, ConnectFinished, ClientDrop
<1>3. \/ pc'[p] = pc[p] /\ pc'[q] = pc[q]
      \/ pc[p] = "connect" /\ pc'[p] = "write" /\ cl[p].stage = 2 /\ pc'[q] = pc[q]
  BY <1>0 DEF ClientRepeat, ConnectRetry, ConnectFinished, ClientDrop, Goto, TypeOK
<1>4. KeepsServer(q)
  BY <1>1, <1>3 DEF KeepsServer
<1>5. Range(answers'[p]) \subseteq Range(answers[p]) /\ Shrinks(answers, answers')
      /\ Shrinks(queue, queue')
  BY <1>0, <1>1, HeadTold, AnswersShrink, QueueShrinks DEF Pair
<1> DEFINE Flights == \A d \in Records(p) : /\ d.port = cl[p].port /\ d.sid = cl[p].sid
                                            /\ d.kind \in {"hello", "finish"}
                                            /\ d.kind \in Keyed => cl[p].stage = 2
<1>6. Tells(p)' \subseteq Tells(p) /\ Flights
  <2>1. CASE UNCHANGED wire
    <3>1. Silent
      BY <1>1, <1>5, <2>1, SilentStep
    <3> QED
      BY <3>1 DEF Silent, Records
  <2>2. ASSUME NEW kind \in {"hello", "finish"}, Send(p, Flight(kind, cl[p].port, cl[p].sid)),
               kind = "finish" => cl[p].stage = 2
        PROVE  Tells(p)' \subseteq Tells(p) /\ Flights
    <3>1. cl[p].sid \in Sids \cup {0}
      BY <1>0 DEF ClientStates
    <3>2. PICK d : AsksGrow(p, d) /\ d.kind = kind /\ d.port = cl[p].port /\ d.sid = cl[p].sid
      BY <1>1, <1>5, <2>2, <3>1, FlightAsks
    <3> QED
      BY <2>2, <3>2 DEF AsksGrow, Records, Keyed
  <2>3. ConnectRetry(p) => cl[p].stage \in {1, 2}
    BY <1>0 DEF ConnectRetry, TimerFires, Pair, Session, Numbered, ClientStates
  <2> QED
    BY <2>1, <2>2, <2>3 DEF ClientRepeat, ConnectRetry, ConnectFinished, ClientDrop
<1>7. Session(p)'
  <2>1. pc'[p] \in {"write", "await", "bye"} => cl[p].stage = 2
    BY <1>0, <1>3 DEF Pair, Session, Numbered
  <2>2. pc'[p] \in ClientPcs /\ (pc'[p] = "connect" => pc[p] = "connect")
    BY <1>1, <1>3 DEF ClientPcs
  <2> QED
    BY <1>0, <1>1, <1>2, <1>4, <1>5, <1>6, <2>1, <2>2, ClientStep DEF Pair
<1>8. Greeted(p)'
  BY <1>0, <1>2, <1>3, <1>4, <1>6 DEF Pair, Dialogue, Greeted, KeepsServer, Engaged, Doomed
<1>9. Matched(p)' /\ Asking(p)'
  BY <1>0, <1>1, <1>2, <1>3, <1>4, <1>6
     DEF Pair, Dialogue, Matched, Asking, Written, KeepsServer, Records, ClientPcs
<1> QED
  BY <1>7, <1>8, <1>9 DEF Pair, Dialogue

LEMMA WritePair ==
  ASSUME IInv, SInv, NEW p \in Peers, Write(p)
  PROVE  Pair(p)'
<1> USE DEF IInv
<1> DEFINE q == Other(p)
<1>0. q \in Peers /\ p # q /\ Pair(p) /\ cl[p] \in ClientStates
  BY OtherOther DEF SInv, TypeOK
<1>1. /\ pc[p] = "write" /\ Send(p, Dgram("request", cl[p].port, cl[p].sid, cl[p].cmd))
      /\ UNCHANGED <<cleanup, srv, cl, queue, answers, late>>
  BY DEF Write, env
<1>2. /\ pc[p] \in ClientPcs /\ pc'[q] = pc[q] /\ KeepsServer(q)
      /\ pc'[p] = IF cl[p].cmd.op = "SEND" THEN "bye" ELSE "await"
  BY <1>0, <1>1 DEF Write, Goto, ClientPcs, KeepsServer, TypeOK
<1>3. PICK d : /\ AsksGrow(p, d) /\ d.kind = "request" /\ d.body = cl[p].cmd
               /\ d.port = cl[p].port /\ d.sid = cl[p].sid
  <2>1. cl[p].sid \in Sids \cup {0} /\ cl[p].cmd \in Payloads
    BY <1>0 DEF ClientStates
  <2>2. "request" \in ToListener
    BY DEF ToListener
  <2>3. Shrinks(answers, answers') /\ UNCHANGED <<late, queue>>
    BY <1>1, AnswersShrink
  <2> QED
    BY <1>1, <1>2, <2>1, <2>2, <2>3, ClientAsks
<1>4. Tells(p)' \subseteq Tells(p) /\ Records(p) \subseteq {d}
  BY <1>3 DEF AsksGrow, Records
<1>5. Session(p)'
  <2>1. cl[p].stage = 2 /\ pc'[p] # "connect" /\ pc'[p] \in ClientPcs
    BY <1>0, <1>1, <1>2 DEF Pair, Session, Numbered, ClientPcs
  <2> QED
    BY <1>0, <1>1, <1>2, <1>3, <1>4, <2>1, ClientStep DEF Pair
<1>6. Greeted(p)'
  BY <1>2 DEF Greeted
<1>7. Asking(p)'
  BY <1>0, <1>1, <1>2 DEF Pair, Dialogue, Asking
<1>8. ~Written(p) /\ Written(p)'
  BY <1>1, <1>2 DEF Written
<1>9. Matched(p)'
  BY <1>0, <1>1, <1>2, <1>3, <1>4, <1>8 DEF Pair, Dialogue, Matched, KeepsServer, Records
<1> QED
  BY <1>5, <1>6, <1>7, <1>9 DEF Pair, Dialogue

LEMMA AwaitPair ==
  ASSUME IInv, SInv, NEW p \in Peers, Await(p)
  PROVE  Pair(p)'
<1> USE DEF IInv
<1> DEFINE q == Other(p)
<1>0. q \in Peers /\ p # q /\ Pair(p)
  BY OtherOther DEF SInv
<1>1. /\ pc[p] = "await" /\ answers[p] # <<>> /\ PopAnswer(p) /\ pc[p] \in ClientPcs
      /\ UNCHANGED <<cleanup, srv, cl, queue, wire, late>>
  BY DEF Await, env, ClientPcs
<1>2. pc'[p] \in {"bye", "crashed"} /\ pc'[q] = pc[q] /\ KeepsServer(q)
  BY <1>0, <1>1 DEF Await, Goto, KeepsServer, TypeOK
<1>3. Range(answers'[p]) \subseteq Range(answers[p])
  BY <1>0, <1>1, HeadTold DEF Pair
<1>4. Silent
  BY <1>1, QueueShrinks, AnswersShrink, SilentStep
<1>5. Asks(p)' \subseteq Asks(p) /\ Tells(p)' \subseteq Tells(p) /\ Records(p) = {}
  BY <1>4 DEF Silent, Records
<1>6. Session(p)'
  <2>1. cl[p].stage = 2
    BY <1>0, <1>1 DEF Pair, Session, Numbered
  <2>2. pc'[p] \in ClientPcs \cup {"crashed"} /\ pc'[p] # "connect"
    BY <1>2 DEF ClientPcs
  <2> QED
    BY <1>0, <1>1, <1>2, <1>3, <1>5, <2>1, <2>2, ClientStep DEF Pair
<1>7. Greeted(p)'
  BY <1>2 DEF Greeted
<1>8. Asking(p)' /\ Matched(p)'
  BY <1>0, <1>1, <1>2, <1>5 DEF Pair, Dialogue, Matched, Asking, Written, KeepsServer, ClientPcs
<1> QED
  BY <1>6, <1>7, <1>8 DEF Pair, Dialogue

\* The session ends: with a close, or because the handshake was given up.
LEMMA EndPair ==
  ASSUME IInv, SInv, NEW p \in Peers, EndSession(p), UNCHANGED <<srv, cl, queue, late>>,
         cleanup'[Other(p)] = cleanup[Other(p)],
         \/ pc[p] = "connect" /\ UNCHANGED wire
         \/ pc[p] = "bye" /\ Send(p, Flight("close", cl[p].port, cl[p].sid))
  PROVE  Pair(p)'
<1> USE DEF IInv
<1> DEFINE q == Other(p)
<1>0. q \in Peers /\ p # q /\ Pair(p) /\ cl[p] \in ClientStates
  BY OtherOther DEF SInv, TypeOK
<1>1. /\ pc'[p] \in {"select", "loop"} /\ pc'[q] = pc[q] /\ KeepsServer(q) /\ pc[p] \in ClientPcs
      /\ answers'[p] = <<>>
  BY <1>0 DEF EndSession, Goto, KeepsServer, ClientPcs, TypeOK
<1>2. Shrinks(answers, answers') /\ Shrinks(queue, queue')
  BY AnswersShrink, QueueShrinks
<1>3. /\ Tells(p)' \subseteq Tells(p)
      /\ \A d \in Records(p) : /\ d.port = cl[p].port /\ d.sid = cl[p].sid
                               /\ d.kind = "close" /\ cl[p].stage = 2
  <2>1. CASE UNCHANGED wire
    <3>1. Silent
      BY <1>2, <2>1, SilentStep
    <3> QED
      BY <3>1 DEF Silent, Records
  <2>2. CASE pc[p] = "bye" /\ Send(p, Flight("close", cl[p].port, cl[p].sid))
    <3>1. cl[p].sid \in Sids \cup {0}
      BY <1>0 DEF ClientStates
    <3>2. PICK d : AsksGrow(p, d) /\ d.kind = "close" /\ d.port = cl[p].port /\ d.sid = cl[p].sid
      BY <1>1, <1>2, <2>2, <3>1, FlightAsks
    <3>3. cl[p].stage = 2
      BY <1>0, <2>2 DEF Pair, Session, Numbered
    <3> QED
      BY <3>2, <3>3 DEF AsksGrow, Records
  <2> QED
    BY <2>1, <2>2
<1>4. Session(p)'
  <2>1. pc'[p] \notin {"write", "await", "bye"} /\ pc'[p] # "connect"
    BY <1>1
  <2> QED
    BY <1>0, <1>1, <1>3, <2>1, ClientStep DEF Pair
<1>5. Greeted(p)'
  BY <1>1 DEF Greeted
<1>6. Asking(p)' /\ Matched(p)'
  <2>1. pc'[p] \notin ClientPcs /\ Written(p)'
    BY <1>1 DEF Written, ClientPcs
  <2> QED
    BY <1>0, <1>1, <1>3, <2>1 DEF Pair, Dialogue, Matched, Asking, KeepsServer, Records, ClientPcs
<1> QED
  BY <1>4, <1>5, <1>6 DEF Pair, Dialogue

\* Whatever a client does, it serves nobody meanwhile.
LEMMA ClientFrame ==
  ASSUME IInv, SInv, NEW p \in Peers, Client(p)
  PROVE  /\ Asks(Other(p))' \subseteq Asks(Other(p)) /\ Tells(Other(p))' \subseteq Tells(Other(p))
         /\ KeepsClient(Other(p))
         /\ pc[p] \in ClientPcs
         /\ pc'[p] \in ClientPcs \cup {"select", "loop", "crashed"}
         /\ UNCHANGED <<srv, queue, cleanup>>
<1> USE DEF IInv
<1> DEFINE q == Other(p)
           Sends(kind, sid, body) == Send(p, Dgram(kind, cl[p].port, sid, body))
           Reads == (answers[p] # <<>> /\ PopAnswer(p)) \/ EndSession(p) \/ UNCHANGED answers
<1>0. q \in Peers /\ p # q /\ cl[p] \in ClientStates
  BY OtherOther DEF TypeOK
<1>1. UNCHANGED <<srv, queue, cleanup, late>>
  BY DEF Client, ConnectOffer, ConnectFinished, ClientRepeat, ClientDrop, ConnectRetry,
     ConnectGiveUp, Write, Await, Bye, env
<1>2. pc[p] \in {"connect", "write", "await", "bye"} /\ pc[p] \in ClientPcs
  BY DEF Client, ConnectOffer, ConnectFinished, ClientRepeat, ClientDrop, ConnectRetry,
     ConnectGiveUp, TimerFires, Write, Await, Bye, ClientPcs
<1>3. Reads
  BY DEF Client, ConnectOffer, ConnectFinished, ClientRepeat, ClientDrop, ConnectRetry,
     ConnectGiveUp, Write, Await, Bye
<1>4. Shrinks(queue, queue') /\ Shrinks(answers, answers')
  BY <1>1, <1>3, QueueShrinks, AnswersShrink
<1>5. answers'[q] = answers[q]
  BY <1>0, <1>3 DEF PopAnswer, EndSession, TypeOK
<1>6. pc'[q] = pc[q] /\ pc'[p] \in ClientPcs \cup {"select", "loop", "crashed"}
  <2>1. CASE EndSession(p)
    BY <1>0, <2>1 DEF EndSession, Goto, TypeOK
  <2>2. CASE ConnectFinished(p) \/ Write(p) \/ Await(p)
    BY <1>0, <2>2 DEF ConnectFinished, Write, Await, Goto, ClientPcs, TypeOK
  <2>3. CASE UNCHANGED pc
    BY <1>2, <2>3
  <2> QED
    BY <2>1, <2>2, <2>3 DEF Client, ConnectOffer, ClientRepeat, ClientDrop, ConnectRetry,
       ConnectGiveUp, Bye
<1>7. cl'[q] = cl[q]
  BY <1>0 DEF Client, ConnectOffer, ConnectFinished, ClientRepeat, ClientDrop, ConnectRetry,
     ConnectGiveUp, Write, Await, Bye, TypeOK
<1>8. ASSUME UNCHANGED wire
      PROVE  Asks(q)' \subseteq Asks(q) /\ Tells(q)' \subseteq Tells(q)
  BY <1>0, <1>1, <1>4, <1>8, SilentStep DEF Silent
<1>9. ASSUME NEW kind \in {"hello", "finish", "request", "close"}, NEW sid \in Sids \cup {0},
             NEW body \in Payloads, Sends(kind, sid, body)
      PROVE  Asks(q)' \subseteq Asks(q) /\ Tells(q)' \subseteq Tells(q)
  <2>1. kind \in ToListener
    BY DEF ToListener
  <2>2. PICK d : AsksGrow(p, d)
    BY <1>1, <1>2, <1>4, <1>9, <2>1, ClientAsks
  <2> QED
    BY <1>0, <2>2 DEF AsksGrow
<1>10. \/ UNCHANGED wire
       \/ \E kind \in {"hello", "finish", "request", "close"}, sid \in Sids \cup {0},
             body \in Payloads : Sends(kind, sid, body)
  <2>1. cl[p].sid \in Sids \cup {0} /\ cl[p].cmd \in Payloads
    BY <1>0 DEF ClientStates
  <2>2. ASSUME ConnectOffer(p) PROVE Sends("finish", Head(answers[p]).sid, Blank)
                                     /\ Head(answers[p]).sid \in Sids \cup {0}
    BY <2>2, AnswerTypes DEF ConnectOffer, Flight, Datagrams
  <2>3. ClientRepeat(p) => Sends("finish", cl[p].sid, Blank)
    BY DEF ClientRepeat, Flight
  <2>4. ConnectRetry(p) => Sends("hello", cl[p].sid, Blank) \/ Sends("finish", cl[p].sid, Blank)
    BY DEF ConnectRetry, Flight
  <2>5. Write(p) => Sends("request", cl[p].sid, cl[p].cmd)
    BY DEF Write
  <2>6. Bye(p) => Sends("close", cl[p].sid, Blank)
    BY DEF Bye, Flight
  <2>7. ConnectFinished(p) \/ ClientDrop(p) \/ ConnectGiveUp(p) \/ Await(p) => UNCHANGED wire
    BY DEF ConnectFinished, ClientDrop, ConnectGiveUp, Await
  <2> QED
    BY <2>1, <2>2, <2>3, <2>4, <2>5, <2>6, <2>7, BlankIsPayload DEF Client
<1> QED
  BY <1>1, <1>2, <1>5, <1>6, <1>7, <1>8, <1>9, <1>10 DEF KeepsClient

\* Server(q) does not look at anything a client changes.
LEMMA ServerKept ==
  ASSUME NEW q \in Peers, Server(q), KeepsServer(q)
  PROVE  Server(q)'
BY DEF Server, Queued, Buffered, KeepsServer

\* Outside a session the server's variables are at rest.
LEMMA ServerAtRest ==
  ASSUME NEW p \in Peers, Buffered(p),
         pc[p] \in {"loop", "shell", "select"} \cup ClientPcs,
         pc'[p] \in {"loop", "shell", "select", "crashed", "stopped"} \cup ClientPcs,
         srv'[p].got = srv[p].got
  PROVE  Server(p)'
BY DEF Server, Queued, Buffered, ClientPcs

LEMMA ClientSInv ==
  ASSUME IInv, SInv, NEW p \in Peers, Client(p)
  PROVE  SInv'
<1> DEFINE q == Other(p)
<1>0. q \in Peers /\ p = Other(q) /\ p # q /\ \A r \in Peers : r = p \/ r = q
  BY OtherOther
<1>1. /\ Asks(q)' \subseteq Asks(q) /\ Tells(q)' \subseteq Tells(q) /\ KeepsClient(q)
      /\ pc[p] \in ClientPcs /\ pc'[p] \in ClientPcs \cup {"select", "loop", "crashed"}
      /\ UNCHANGED <<srv, queue, cleanup>>
  BY ClientFrame
<1>2. Pair(p)'
  <2>1. CASE ConnectGiveUp(p) \/ Bye(p)
    <3>1. /\ EndSession(p) /\ UNCHANGED <<srv, cl, queue, late>> /\ cleanup'[q] = cleanup[q]
          /\ \/ pc[p] = "connect" /\ UNCHANGED wire
             \/ pc[p] = "bye" /\ Send(p, Flight("close", cl[p].port, cl[p].sid))
      BY <2>1 DEF ConnectGiveUp, TimerFires, Bye, env
    <3> QED
      BY <3>1, EndPair
  <2> QED
    BY <2>1, ConnectOfferPair, ClientFlightPair, WritePair, AwaitPair DEF Client
<1>3. Pair(q)'
  <2>1. pc[p] \notin Serving /\ pc'[p] \notin Serving
    BY <1>1 DEF ClientPcs, Serving, ServerPcs
  <2>2. Pair(q) /\ srv[p].port <= cl[q].port
    BY <1>0 DEF SInv, Pair, Session, Numbered
  <2> QED
    BY <1>0, <1>1, <2>1, <2>2, ServerIdle DEF Pair, Dialogue
<1>4. Server(p)'
  BY <1>1, ServerAtRest DEF SInv, Server
<1>5. Server(q)'
  BY <1>0, <1>1, ServerKept DEF SInv, KeepsClient, KeepsServer
<1> QED
  BY <1>0, <1>2, <1>3, <1>4, <1>5 DEF SInv

-----------------------------------------------------------------------------
(* Between sessions: main's loop, the shell, and the beginning of both     *)
(* kinds of session.                                                       *)

\* The fresh port of a new session occurs nowhere yet.
LEMMA BeginPair ==
  ASSUME IInv, SInv, NEW p \in Peers, NEW cmd \in Payloads, cmd.op \in Commands,
         NEW refill, BeginSession(p, cmd, refill), pc[p] \in {"loop", "shell"},
         UNCHANGED <<answers, late>>, Shrinks(queue, queue'), KeepsServer(Other(p))
  PROVE  /\ Pair(p)' /\ pc'[p] = "connect" /\ pc'[Other(p)] = pc[Other(p)]
         /\ cl'[Other(p)] = cl[Other(p)] /\ cl'[p].cmd = cmd
         /\ \A e \in Records(p) : e.kind = "hello"
         /\ Asks(Other(p))' \subseteq Asks(Other(p)) /\ Tells(Other(p))' \subseteq Tells(Other(p))
<1> USE DEF IInv
<1> DEFINE q == Other(p)
           port == cl[p].port + 1
           d == Flight("hello", port, 0)
<1>0. q \in Peers /\ p # q /\ Pair(p) /\ Measured(p) /\ Measured(q) /\ cl[p] \in ClientStates
  BY OtherOther, PairMeasures DEF SInv, TypeOK
<1>1. /\ cl'[p].port = port /\ cl'[p].sid = 0 /\ cl'[p].stage = 1 /\ cl'[p].cmd = cmd
      /\ cl'[q] = cl[q] /\ pc'[p] = "connect" /\ pc'[q] = pc[q] /\ Send(p, d)
  BY <1>0 DEF BeginSession, Goto, TypeOK
<1>2. d \in Datagrams(ToListener) /\ d \in Datagrams(ToListener \cup ToClient)
  <2>1. port \in Ports
    BY <1>0, BoundsAssumption DEF BeginSession, Ports, Measured
  <2> QED
    BY <2>1, DatagramTypes DEF ToListener
<1>3. d.kind = "hello" /\ d.port = port /\ d.sid = 0
  BY DEF Flight, Dgram
<1>4. AsksGrow(p, d)
  <2>1. d.kind \in ToListener
    BY <1>3 DEF ToListener
  <2> QED
    BY <1>1, <1>2, <2>1, SendStep, AnswersShrink
<1>5. /\ Asks(p)' \subseteq Asks(p) \cup {d} /\ Tells(p)' \subseteq Tells(p)
      /\ Asks(q)' \subseteq Asks(q) /\ Tells(q)' \subseteq Tells(q)
  BY <1>0, <1>4 DEF AsksGrow
<1>6. /\ \A e \in Asks(p) \cup Tells(p) : e.port \in Nat /\ e.port <= cl[p].port
      /\ srv[q].port \in Nat /\ srv[q].port <= cl[p].port /\ cl[p].port \in Nat
      /\ srv[q].sid \in Nat
  BY <1>0 DEF Pair, Session, Numbered, Measured
<1>7. Numbered(p)'
  BY <1>0, <1>1, <1>3, <1>5, <1>6 DEF Pair, Session, Numbered, KeepsServer, Keyed
<1>8. OnePort(p)'
  <2>1. pc[q] \in Serving => srv[q].sid > 0
    BY <1>0 DEF Pair, Session, Numbered
  <2> QED
    BY <1>0, <1>1, <1>3, <1>5, <1>6, <2>1 DEF Pair, Session, OnePort, KeepsServer
<1>9. \A e \in Asks(p) \cup Tells(p) : e.port # port
  BY <1>6
<1>10. OneKey(p)'
  BY <1>0, <1>1, <1>3, <1>5, <1>9 DEF Pair, Session, OneKey, Keyed
<1>11. srv[q].port # port
  BY <1>6
<1>12. Agreed(p)'
  BY <1>0, <1>1, <1>3, <1>5, <1>11 DEF Pair, Session, Agreed, KeepsServer, Keyed
<1>13. Told(p)'
  <2>1. answers'[p] = <<>>
    BY <1>0 DEF Pair, Session, Told
  <2> QED
    BY <1>1, <1>5, <1>9, <2>1, RangeEmpty DEF Told, ServerPcs
<1>14. Greeted(p)'
  BY <1>1, <1>5, <1>9 DEF Greeted
<1>15. Asking(p)'
  BY <1>1 DEF Asking
<1>16. Matched(p)'
  BY <1>1, <1>3, <1>5, <1>9, <1>11 DEF Matched, KeepsServer
<1>17. \A e \in Records(p) : e.kind = "hello"
  BY <1>3, <1>5 DEF Records
<1> QED
  BY <1>1, <1>5, <1>17, <1>7, <1>8, <1>10, <1>12, <1>13, <1>14, <1>15, <1>16 DEF Pair, Session, Dialogue

\* A new listen socket is connected to nobody; the session before keeps its number.
LEMMA FreshServer ==
  ASSUME TypeOK, NEW p \in Peers, FreshSocket(p)
  PROVE  /\ srv'[p].port = 0 /\ srv'[p].sid = srv[p].sid /\ srv'[p].got = srv[p].got
         /\ \A r \in Peers \ {p} : srv'[r] = srv[r]
<1> DEFINE new == [srv[p] EXCEPT !.port = 0, !.stage = 0, !.stdin = FALSE]
<1>1. srv[p] \in ServerStates
  BY DEF TypeOK
<1>2. srv'[p] = new /\ \A r \in Peers \ {p} : srv'[r] = srv[r]
  BY DEF FreshSocket, TypeOK
<1>3. new.port = 0 /\ new.sid = srv[p].sid /\ new.got = srv[p].got
  BY <1>1 DEF ServerStates
<1> QED
  BY <1>2, <1>3

LEMMA BeginSInv ==
  ASSUME IInv, SInv, NEW p \in Peers, OpenAndRefill(p) \/ ShellSend(p) \/ ShellAsk(p)
  PROVE  SInv'
<1> USE DEF IInv
<1> DEFINE q == Other(p)
<1>0. q \in Peers /\ p = Other(q) /\ p # q /\ \A r \in Peers : r = p \/ r = q
  BY OtherOther
<1>1. /\ pc[p] \in {"loop", "shell"} /\ UNCHANGED <<cleanup, answers, late>>
      /\ CloseListener(p) \/ UNCHANGED queue
  BY DEF OpenAndRefill, FreshSocket, CloseListener, ShellSend, ShellAsk, env
<1>2. PICK cmd \in Payloads, refill \in BOOLEAN :
        cmd.op \in Commands /\ BeginSession(p, cmd, refill)
  <2>1. CASE OpenAndRefill(p)
    <3>1. BeginSession(p, [op |-> "REFILL", n |-> 0], TRUE)
      BY <2>1 DEF OpenAndRefill
    <3> QED
      BY <3>1, RefillIsPayload DEF Commands
  <2>2. CASE ShellSend(p) \/ ShellAsk(p)
    <3>1. PICK c \in Script[p] : BeginSession(p, c, FALSE)
      BY <2>2 DEF ShellSend, ShellAsk
    <3>2. c \in Payloads /\ c.op \in Commands
      BY ScriptTypes, ScriptAssumption
    <3> QED
      BY <3>1, <3>2
  <2> QED
    BY <2>1, <2>2
<1>3. /\ srv'[q] = srv[q] /\ srv'[p].sid = srv[p].sid /\ srv'[p].got = srv[p].got
      /\ srv'[p].port \in {0, srv[p].port}
  <2>1. FreshSocket(p) \/ UNCHANGED srv
    BY DEF OpenAndRefill, ShellSend, ShellAsk
  <2> QED
    BY <1>0, <2>1, FreshServer
<1>4. queue'[q] = queue[q] /\ Shrinks(queue, queue')
  BY <1>0, <1>1, QueueShrinks DEF CloseListener, TypeOK
<1>5. pc'[q] = pc[q] /\ KeepsServer(q)
  BY <1>0, <1>1, <1>2, <1>3, <1>4 DEF BeginSession, Goto, KeepsServer, TypeOK
<1>6. /\ Pair(p)' /\ pc'[p] = "connect" /\ cl'[q] = cl[q]
      /\ Asks(q)' \subseteq Asks(q) /\ Tells(q)' \subseteq Tells(q)
  BY <1>1, <1>2, <1>4, <1>5, BeginPair
<1>7. Pair(q)'
  <2>1. pc[p] \notin Serving /\ pc'[p] \notin Serving
    BY <1>1, <1>6 DEF Serving, ServerPcs
  <2>2. Pair(q) /\ srv'[p].port <= cl[q].port
    <3>1. Pair(q) /\ cl[q].port \in Nat /\ srv[p].port <= cl[q].port
      BY <1>0, Measures DEF SInv, Pair, Session, Numbered, Measured
    <3> QED
      BY <1>3, <3>1
  <2>3. KeepsClient(q)
    BY <1>1, <1>5, <1>6 DEF KeepsClient
  <2> QED
    BY <1>0, <1>1, <1>3, <1>6, <2>1, <2>2, <2>3, ServerIdle DEF Pair, Dialogue
<1>8. Server(p)'
  BY <1>1, <1>3, <1>6, ServerAtRest DEF SInv, Server, ClientPcs
<1>9. Server(q)'
  BY <1>0, <1>5, ServerKept DEF SInv
<1> QED
  BY <1>0, <1>6, <1>7, <1>8, <1>9 DEF SInv

\* p moves between its loop, its select and its shell, or stops.
LEMMA RestSInv ==
  ASSUME IInv, SInv, NEW p \in Peers,
         pc[p] \in {"loop", "shell", "select"},
         NEW label \in {"loop", "shell", "select", "stopped", "crashed"},
         pc' = [pc EXCEPT ![p] = label],
         UNCHANGED <<cl, answers, wire, late>>, CloseListener(p) \/ UNCHANGED queue,
         cleanup'[Other(p)] = cleanup[Other(p)], cleanup[p] => cleanup'[p],
         FreshSocket(p) \/ UNCHANGED srv
  PROVE  SInv'
<1> USE DEF IInv
<1> DEFINE q == Other(p)
<1>0. q \in Peers /\ p = Other(q) /\ p # q /\ \A r \in Peers : r = p \/ r = q
  BY OtherOther
<1>1. pc'[p] = label /\ pc'[q] = pc[q]
  BY <1>0 DEF TypeOK
<1>2. Silent
  BY QueueShrinks, AnswersShrink, SilentStep
<1>3. queue'[q] = queue[q]
  BY <1>0 DEF CloseListener, TypeOK
<1>4. /\ srv'[q] = srv[q] /\ srv'[p].sid = srv[p].sid /\ srv'[p].got = srv[p].got
      /\ srv'[p].port \in {0, srv[p].port}
  BY <1>0, FreshServer
<1>5. KeepsServer(q) /\ KeepsClient(q)
  BY <1>1, <1>3, <1>4 DEF KeepsServer, KeepsClient
<1>6. Pair(p)'
  <2>1. pc[p] \in {"loop", "shell"} \cup ServerPcs /\ pc'[p] \notin ClientPcs
    BY <1>1 DEF ServerPcs, ClientPcs
  <2> QED
    BY <1>0, <1>2, <1>5, <2>1, ClientIdle DEF SInv, Pair, Dialogue, Silent
<1>7. Pair(q)'
  <2>1. pc[p] \notin Serving /\ pc'[p] \notin Serving
    BY <1>1 DEF Serving, ServerPcs
  <2>2. Pair(q) /\ srv'[p].port <= cl[q].port
    <3>1. Pair(q) /\ cl[q].port \in Nat /\ srv[p].port <= cl[q].port
      BY <1>0, Measures DEF SInv, Pair, Session, Numbered, Measured
    <3> QED
      BY <1>4, <3>1
  <2> QED
    BY <1>0, <1>2, <1>4, <1>5, <2>1, <2>2, ServerIdle DEF Pair, Dialogue, Silent
<1>8. Server(p)'
  BY <1>1, <1>4, ServerAtRest DEF SInv, Server
<1>9. Server(q)'
  BY <1>0, <1>5, ServerKept DEF SInv
<1> QED
  BY <1>0, <1>6, <1>7, <1>8, <1>9 DEF SInv

\* A new session of p as a server: its number is fresh, and whoever connects has not
\* been answered yet.
LEMMA PeekSInv ==
  ASSUME IInv, SInv, NEW p \in Peers, Peek(p), ~cleanup[p]
  PROVE  SInv'
<1> USE DEF IInv
<1> DEFINE q == Other(p)
           h == Head(queue[p])
<1>0. /\ q \in Peers /\ p = Other(q) /\ p # q /\ \A r \in Peers : r = p \/ r = q
      /\ Pair(q) /\ Measured(p) /\ Measured(q) /\ srv[p] \in ServerStates
  BY OtherOther, PairMeasures DEF SInv, TypeOK
<1>1. /\ pc[p] = "select" /\ queue[p] # <<>> /\ pc' = [pc EXCEPT ![p] = "accept"]
      /\ UNCHANGED <<cleanup, cl, queue, answers, wire, late>>
  BY DEF Peek, Goto, env
<1>2. PICK ready \in BOOLEAN :
        srv' = [srv EXCEPT ![p] =
                 [@ EXCEPT !.port = h.port, !.sid = srv[p].sid + 1, !.stage = 0, !.stdin = ready]]
  BY DEF Peek
<1>3. /\ srv'[p].port = h.port /\ srv'[p].sid = srv[p].sid + 1 /\ srv'[p].got = srv[p].got
      /\ srv'[q] = srv[q]
  <2> DEFINE new == [srv[p] EXCEPT !.port = h.port, !.sid = srv[p].sid + 1, !.stage = 0,
                                   !.stdin = ready]
  <2>1. srv'[p] = new /\ srv'[q] = srv[q]
    BY <1>0, <1>2 DEF TypeOK
  <2>2. new.port = h.port /\ new.sid = srv[p].sid + 1 /\ new.got = srv[p].got
    BY <1>0 DEF ServerStates
  <2> QED
    BY <2>1, <2>2
<1>4. pc'[p] = "accept" /\ pc'[q] = pc[q] /\ KeepsServer(q) /\ KeepsClient(q)
  BY <1>0, <1>1, <1>3 DEF KeepsServer, KeepsClient, TypeOK
<1>5. Silent
  BY <1>1, QueueShrinks, AnswersShrink, SilentStep
<1>6. /\ Asks(p)' \subseteq Asks(p) /\ Tells(p)' \subseteq Tells(p)
      /\ Asks(q)' \subseteq Asks(q) /\ Tells(q)' \subseteq Tells(q)
  BY <1>0, <1>5 DEF Silent
<1>7. /\ \A d \in Asks(q) \cup Tells(q) : d.sid \in Nat /\ d.sid < srv'[p].sid
      /\ cl[q].sid < srv'[p].sid /\ srv'[p].sid > 0 /\ srv'[p].port <= cl[q].port
  <2>1. srv[p].sid \in Nat /\ cl[q].sid \in Nat /\ cl[q].sid <= srv[p].sid
    BY <1>0 DEF Measured, Pair, Session, Numbered
  <2>2. \A d \in Asks(q) \cup Tells(q) : d.sid \in Nat /\ d.sid <= srv[p].sid
    BY <1>0 DEF Measured, Pair, Session, Numbered
  <2>3. h.port <= cl[q].port
    BY <1>0, <1>1, HeadAsked DEF Pair, Session, Numbered
  <2> QED
    BY <1>3, <2>1, <2>2, <2>3
<1>8. Session(q)'
  <2>1. Numbered(q)'
    <3>1. \A d \in Asks(q) \cup Tells(q) : d.sid <= srv'[p].sid
      BY <1>0, <1>3, <1>7 DEF Measured
    <3>2. cl[q].sid <= srv'[p].sid
      BY <1>0, <1>3, <1>7 DEF Measured
    <3> QED
      BY <1>0, <1>4, <1>6, <1>7, <3>1, <3>2 DEF Pair, Session, Numbered, KeepsClient
  <2>2. OnePort(q)'
    <3>1. \A d \in Asks(q) \cup Tells(q) : d.sid # srv'[p].sid
      BY <1>7
    <3>2. cl[q].sid # srv'[p].sid
      BY <1>0, <1>7 DEF Measured
    <3> QED
      BY <1>0, <1>4, <1>6, <3>1, <3>2 DEF OnePort, KeepsClient
  <2>3. OneKey(q)' /\ Told(q)'
    BY <1>0, <1>4, <1>6 DEF Pair, Session, OneKey, Told, KeepsClient
  <2>4. Agreed(q)'
    BY <1>0, <1>4 DEF Agreed
  <2> QED
    BY <2>1, <2>2, <2>3, <2>4 DEF Session
<1>9. Greeted(q)'
  <2>1. ~Engaged(p) /\ ~Doomed(p)
    BY <1>1 DEF Engaged, Doomed
  <2> QED
    BY <1>0, <1>4, <1>6, <2>1 DEF Pair, Dialogue, Greeted, KeepsClient
<1>10. Matched(q)' /\ Asking(q)'
  BY <1>0, <1>4, <1>6 DEF Pair, Dialogue, Matched, Asking, Written, KeepsClient
<1>11. Pair(p)'
  <2>1. pc[p] \in {"loop", "shell"} \cup ServerPcs /\ pc'[p] \notin ClientPcs
    BY <1>1, <1>4 DEF ServerPcs, ClientPcs
  <2> QED
    BY <1>0, <1>1, <1>4, <1>6, <2>1, ClientIdle DEF SInv, Pair, Dialogue
<1>12. Server(p)'
  <2>1. queue[p] \in Seq(Datagrams(ToListener))
    BY DEF TypeOK
  <2>2. \A i \in 1..Len(queue[p]) : queue[p][i] \in Range(queue[p])
                                     /\ queue[p][i] \in Datagrams(ToListener)
    BY <2>1, RangeIndex
  <2>3. \A i \in 1..Len(queue[p]) : queue[p][i] \in Asks(q)
    BY <1>0, <2>2 DEF Asks, Datagrams
  <2>4. \A i \in 1..Len(queue[p]) : queue[p][i].sid # srv'[p].sid
    BY <1>7, <2>3
  <2>5. Queued(p)'
    BY <1>1, <1>4, <2>4 DEF Queued
  <2>6. Buffered(p)'
    BY <1>1, <1>3, <1>4 DEF SInv, Server, Buffered
  <2> QED
    BY <2>5, <2>6 DEF Server
<1>13. Server(q)'
  BY <1>0, <1>4, ServerKept DEF SInv
<1>14. Pair(q)'
  BY <1>8, <1>9, <1>10 DEF Pair, Dialogue
<1> QED
  BY <1>0, <1>11, <1>12, <1>13, <1>14 DEF SInv

LEMMA MainSInv ==
  ASSUME IInv, SInv, NEW p \in Peers, Main(p) \/ User(p)
  PROVE  SInv'
<1> DEFINE Rests(label) ==
      /\ pc[p] \in {"loop", "shell", "select"} /\ pc' = [pc EXCEPT ![p] = label]
      /\ UNCHANGED <<cl, answers, wire, late>>
      /\ CloseListener(p) \/ UNCHANGED queue
      /\ cleanup'[Other(p)] = cleanup[Other(p)] /\ (cleanup[p] => cleanup'[p])
      /\ FreshSocket(p) \/ UNCHANGED srv
<1>1. ASSUME NEW label \in {"loop", "shell", "select", "stopped", "crashed"}, Rests(label)
      PROVE  SInv'
  BY <1>1, RestSInv
<1>2. Halt(p) => Rests("stopped") \/ Rests("crashed")
  BY DEF Halt, Goto, env
<1>3. OpenAndSelect(p) => Rests("select")
  BY DEF OpenAndSelect, FreshSocket, CloseListener, Goto, env
<1>4. Peek(p) /\ cleanup[p] => Rests("loop")
  BY DEF Peek, Goto, env
<1>5. ReadStdin(p) => Rests("shell")
  BY DEF ReadStdin, Goto, env
<1>6. ShellIdle(p) => Rests("loop")
  BY DEF ShellIdle, Goto, env
<1>7. ShellExit(p) => Rests("loop")
  <2>1. ShellExit(p) => cleanup'[p] /\ cleanup'[Other(p)] = cleanup[Other(p)]
    BY OtherOther DEF ShellExit, IInv, TypeOK
  <2> QED
    BY <2>1 DEF ShellExit, Goto, env
<1> QED
  BY <1>1, <1>2, <1>3, <1>4, <1>5, <1>6, <1>7, PeekSInv, BeginSInv DEF Main, User

-----------------------------------------------------------------------------
(* The environment.                                                        *)

\* SIGINT ends a select, an accept that waits or a handshake; elsewhere it is only noted.
LEMMA SignalSInv ==
  ASSUME IInv, SInv, NEW p \in Peers, Signal(p)
  PROVE  SInv'
<1> USE DEF IInv
<1> DEFINE q == Other(p)
<1>0. /\ q \in Peers /\ p = Other(q) /\ p # q /\ (\A r \in Peers : r = p \/ r = q)
      /\ Pair(p) /\ Pair(q) /\ Server(p) /\ Server(q)
  BY OtherOther DEF SInv
<1>1. /\ UNCHANGED <<srv, cl, queue, wire, late>> /\ cleanup'[p] /\ cleanup'[q] = cleanup[q]
  BY <1>0 DEF Signal, TypeOK
<1>2. CASE UNCHANGED <<pc, answers>>
  <2>1. \A r \in Peers : /\ Asks(r)' = Asks(r) /\ Tells(r)' = Tells(r)
                         /\ pc'[r] = pc[r] /\ (cleanup[r] => cleanup'[r])
    BY <1>0, <1>1, <1>2 DEF Asks, Tells, InTransit
  <2>2. \A r \in Peers : Session(r)' /\ Matched(r)' /\ Asking(r)'
    BY <1>1, <1>2, <2>1
       DEF SInv, Pair, Dialogue, Session, Numbered, OnePort, OneKey, Agreed, Told, Matched,
           Asking, Written
  <2>3. \A r \in Peers : Greeted(r)'
    BY <1>1, <1>2, <2>1, OtherIsPeer DEF SInv, Pair, Dialogue, Greeted, Engaged, Doomed
  <2>4. \A r \in Peers : Server(r)'
    BY <1>1, <2>1 DEF SInv, Server, Queued, Buffered
  <2> QED
    BY <2>2, <2>3, <2>4 DEF SInv, Pair, Dialogue
<1>3. CASE pc[p] = "select" /\ Goto(p, "loop") /\ UNCHANGED answers
  BY <1>1, <1>3, RestSInv DEF Goto
<1>4. CASE pc[p] = "acceptWait" /\ Goto(p, "loop") /\ UNCHANGED answers
  <2>1. /\ pc'[p] = "loop" /\ pc'[q] = pc[q] /\ pc[p] \in Serving /\ pc[p] \in ServerPcs
        /\ pc'[p] \notin ClientPcs
    BY <1>0, <1>4 DEF Goto, Serving, ServerPcs, ClientPcs, TypeOK
  <2>2. Silent
    BY <1>1, <1>4, QueueShrinks, AnswersShrink, SilentStep
  <2>3. /\ Asks(q)' \subseteq Asks(q) /\ News(q) = {} /\ KeepsClient(q) /\ KeepsServer(q)
        /\ Asks(p)' \subseteq Asks(p) /\ Tells(p)' \subseteq Tells(p)
    BY <1>0, <1>1, <1>4, <2>1, <2>2 DEF Silent, KeepsClient, KeepsServer, News
  <2>4. Agreed(q)'
    BY <1>0, <2>1 DEF Agreed
  <2>5. Session(q)'
    BY <1>0, <1>1, <2>1, <2>3, <2>4, ServerStep DEF Pair
  <2>6. Greeted(q)'
    <3>1. ~Doomed(p) /\ Doomed(p)'
      BY <1>1, <1>4, <2>1 DEF Doomed
    <3> QED
      BY <1>0, <1>1, <2>3, <3>1, GreetedStep DEF Pair, Dialogue
  <2>7. Matched(q)' /\ Asking(q)'
    BY <1>0, <1>1, <2>1, <2>3, MatchedStep DEF Pair, Dialogue
  <2>8. Pair(p)'
    BY <1>0, <1>1, <1>4, <2>1, <2>3, ClientIdle DEF Pair, Dialogue
  <2>9. Server(p)'
    BY <1>0, <1>1, <1>4, <2>1 DEF Server, Queued, Buffered
  <2>10. Server(q)'
    BY <1>0, <2>3, ServerKept
  <2>11. Pair(q)'
    BY <2>5, <2>6, <2>7 DEF Pair, Dialogue
  <2> QED
    BY <1>0, <2>8, <2>9, <2>10, <2>11 DEF SInv
<1>5. CASE pc[p] = "connect" /\ EndSession(p)
  <2>1. Pair(p)'
    BY <1>1, <1>5, EndPair
  <2>2. /\ pc'[p] \in {"loop", "select"} /\ pc'[q] = pc[q] /\ answers'[q] = answers[q]
        /\ pc[p] \notin Serving /\ pc'[p] \notin Serving /\ pc[p] \in ClientPcs
    BY <1>0, <1>5 DEF EndSession, Goto, Serving, ServerPcs, ClientPcs, TypeOK
  <2>3. Silent
    BY <1>1, <1>5, QueueShrinks, AnswersShrink, SilentStep
  <2>4. KeepsClient(q) /\ KeepsServer(q)
    BY <1>1, <2>2 DEF KeepsClient, KeepsServer
  <2>5. Pair(q)'
    <3>1. srv[p].port <= cl[q].port
      BY <1>0 DEF Pair, Session, Numbered
    <3> QED
      BY <1>0, <1>1, <2>2, <2>3, <2>4, <3>1, ServerIdle DEF Pair, Dialogue, Silent
  <2>6. Server(p)'
    BY <1>0, <1>1, <2>2, ServerAtRest DEF Server
  <2>7. Server(q)'
    BY <1>0, <2>4, ServerKept
  <2> QED
    BY <1>0, <2>1, <2>5, <2>6, <2>7 DEF SInv
<1> QED
  BY <1>2, <1>3, <1>4, <1>5 DEF Signal

\* The network adds at most one datagram to a socket, and only one its owner would take.
Fetched(r, d) ==
  \/ queue'[r] = queue[r] /\ answers'[r] = answers[r]
  \/ /\ queue'[r] = Append(queue[r], d) /\ d \in Datagrams(ToListener)
     /\ srv[r].port # 0 => d.port = srv[r].port
     /\ answers'[r] = answers[r]
  \/ /\ answers'[r] = Append(answers[r], d) /\ d \in Datagrams(ToClient)
     /\ pc[r] \in ClientPcs /\ d.port = cl[r].port
     /\ queue'[r] = queue[r]

Fetches ==
  UNCHANGED <<cleanup, pc, srv, cl>> /\ Silent /\ \A r \in Peers : \E d : Fetched(r, d)

LEMMA FetchedSInv ==
  ASSUME IInv, SInv, UNCHANGED <<cleanup, pc, srv, cl>>, Silent,
         \A r \in Peers : \E d : Fetched(r, d)
  PROVE  SInv'
<1> USE DEF IInv
<1> SUFFICES ASSUME NEW p \in Peers PROVE Pair(p)' /\ Server(p)'
  BY DEF SInv
<1>0. Pair(p) /\ Server(p) /\ Asks(p)' \subseteq Asks(p) /\ Tells(p)' \subseteq Tells(p)
  BY DEF SInv, Silent
<1>1. PICK d : Fetched(p, d)
  OBVIOUS
<1>2. Numbered(p)' /\ OnePort(p)' /\ OneKey(p)' /\ Agreed(p)'
  BY <1>0 DEF Pair, Session, Numbered, OnePort, OneKey, Agreed
<1>3. Told(p)'
  <2>1. CASE answers'[p] = answers[p]
    BY <1>0, <2>1 DEF Pair, Session, Told
  <2>2. CASE /\ answers'[p] = Append(answers[p], d) /\ d \in Datagrams(ToClient)
             /\ pc[p] \in ClientPcs /\ d.port = cl[p].port
    <3>1. answers[p] \in Seq(Datagrams(ToClient))
      BY DEF TypeOK
    <3>2. Range(answers'[p]) = Range(answers[p]) \cup {d}
      BY <2>2, <3>1, RangeAppend
    <3>3. pc[p] \notin {"loop", "shell", "stopped"} \cup ServerPcs
      BY <2>2 DEF ClientPcs, ServerPcs
    <3> QED
      BY <1>0, <2>2, <3>2, <3>3 DEF Pair, Session, Told
  <2> QED
    BY <1>1, <2>1, <2>2 DEF Fetched
<1>4. Greeted(p)' /\ Asking(p)' /\ Matched(p)'
  BY <1>0 DEF Pair, Dialogue, Greeted, Engaged, Doomed, Asking, Matched, Written
<1>5. Queued(p)'
  <2>1. CASE queue'[p] = queue[p]
    BY <1>0, <2>1 DEF Server, Queued
  <2>2. CASE /\ queue'[p] = Append(queue[p], d) /\ d \in Datagrams(ToListener)
             /\ srv[p].port # 0 => d.port = srv[p].port
    <3>1. queue[p] \in Seq(Datagrams(ToListener))
      BY DEF TypeOK
    <3>2. /\ Len(queue'[p]) = Len(queue[p]) + 1 /\ Len(queue[p]) \in Nat
          /\ \A i \in 1..Len(queue[p]) : queue'[p][i] = queue[p][i]
          /\ queue'[p][Len(queue[p]) + 1] = d
      BY <2>2, <3>1
    <3>3. \A i \in 1..Len(queue'[p]) : i \in 1..Len(queue[p]) \/ i = Len(queue[p]) + 1
      BY <3>2
    <3>4. \A i, j \in 1..Len(queue'[p]) : i < j => i \in 1..Len(queue[p])
      BY <3>2
    <3>5. pc[p] \in {"accept", "acceptWait", "read", "check"} => d.port = srv[p].port
      BY <2>2 DEF Connected, Serving, ServerPcs
    <3> QED
      BY <1>0, <3>2, <3>3, <3>4, <3>5 DEF Server, Queued
  <2> QED
    BY <1>1, <2>1, <2>2 DEF Fetched
<1>6. Buffered(p)'
  BY <1>0 DEF Server, Buffered
<1> QED
  BY <1>2, <1>3, <1>4, <1>5, <1>6 DEF Pair, Session, Dialogue, Server

\* A datagram arrives at a socket, or nowhere.
LEMMA ArriveFetches ==
  ASSUME IInv, NEW p \in Peers, NEW d \in InTransit(p), Arrive(p, d),
         InTransit(p)' \subseteq InTransit(p), InTransit(Other(p))' \subseteq InTransit(Other(p))
  PROVE  Fetches
<1> USE DEF IInv
<1> DEFINE q == Other(p)
           D == Datagrams(ToListener \cup ToClient)
<1>0. q \in Peers /\ p = Other(q) /\ p # q /\ \A r \in Peers : r = p \/ r = q
  BY OtherOther
<1>1. d \in D
  <2>1. wire[p] \in Seq(D) /\ late[p] \subseteq D
    BY DEF TypeOK
  <2>2. Range(wire[p]) \subseteq D
    <3> HIDE DEF D
    <3> QED
      BY <2>1 DEF Range
  <2>3. d \in Range(wire[p]) \cup late[p]
    BY DEF InTransit
  <2> QED
    BY <2>1, <2>2, <2>3
<1>2. /\ d.kind \in ToListener => d \in Datagrams(ToListener)
      /\ d.kind \in ToClient => d \in Datagrams(ToClient)
  BY <1>1 DEF Datagrams
<1>3. UNCHANGED <<cleanup, pc, srv, cl>>
  BY DEF Arrive
<1>4. queue'[p] = queue[p] /\ answers'[p] = answers[p]
  BY <1>0 DEF Arrive, TypeOK
<1>5. Fetched(q, d)
  <2>1. CASE ~Reaches(q, d)
    BY <2>1 DEF Arrive, Fetched
  <2>2. CASE Reaches(q, d) /\ d.kind \in ToListener
    <3>1. /\ queue'[q] = Append(queue[q], d) /\ answers'[q] = answers[q]
          /\ srv[q].port # 0 => d.port = srv[q].port
      BY <1>0, <2>2 DEF Arrive, Reaches, TypeOK, ToListener, ToClient
    <3> QED
      BY <1>2, <2>2, <3>1 DEF Fetched
  <2>3. CASE Reaches(q, d) /\ d.kind \notin ToListener
    <3>1. d.kind \in ToClient
      BY <1>1, <2>3 DEF Datagrams
    <3>2. /\ answers'[q] = Append(answers[q], d) /\ queue'[q] = queue[q]
          /\ pc[q] \in ClientPcs /\ d.port = cl[q].port
      BY <1>0, <2>3, <3>1 DEF Arrive, Reaches, ClientOpen, TypeOK
    <3> QED
      BY <1>2, <3>1, <3>2 DEF Fetched
  <2> QED
    BY <2>1, <2>2, <2>3
<1>6. /\ Range(queue'[q]) \subseteq Range(queue[q]) \cup {d}
      /\ Range(answers'[q]) \subseteq Range(answers[q]) \cup {d}
  <2>1. queue[q] \in Seq(Datagrams(ToListener)) /\ answers[q] \in Seq(Datagrams(ToClient))
    BY <1>0 DEF TypeOK
  <2>2. d \in Datagrams(ToListener) => Range(Append(queue[q], d)) = Range(queue[q]) \cup {d}
    BY <2>1, RangeAppend
  <2>3. d \in Datagrams(ToClient) => Range(Append(answers[q], d)) = Range(answers[q]) \cup {d}
    BY <2>1, RangeAppend
  <2> QED
    BY <1>5, <2>2, <2>3 DEF Fetched
<1>7. Silent
  <2>1. Asks(p)' \subseteq Asks(p) /\ Tells(q)' \subseteq Tells(q)
    BY <1>0, <1>6 DEF Asks, Tells
  <2>2. Asks(q)' \subseteq Asks(q) /\ Tells(p)' \subseteq Tells(p)
    BY <1>0, <1>4 DEF Asks, Tells
  <2> QED
    BY <1>0, <2>1, <2>2 DEF Silent
<1>8. \A r \in Peers : \E e : Fetched(r, e)
  <2>1. Fetched(p, d)
    BY <1>4 DEF Fetched
  <2> QED
    BY <1>0, <1>5, <2>1
<1> QED
  BY <1>3, <1>7, <1>8 DEF Fetches

LEMMA NetworkFetches ==
  ASSUME IInv, NEW p \in Peers, Network(p)
  PROVE  Fetches
<1> USE DEF IInv
<1> DEFINE q == Other(p)
           D == Datagrams(ToListener \cup ToClient)
<1>0. q \in Peers /\ p = Other(q) /\ p # q /\ \A r \in Peers : r = p \/ r = q
  BY OtherOther
<1>1. /\ wire \in [Peers -> Seq(D)] /\ late \in [Peers -> SUBSET D]
  BY DEF TypeOK
<1>2. wire[p] # <<>> => /\ Head(wire[p]) \in InTransit(p)
                        /\ Range(Tail(wire[p])) \subseteq Range(wire[p])
  <2>1. wire[p] \in Seq(D)
    BY <1>1
  <2> QED
    BY <2>1, RangeTail DEF InTransit
<1>3. /\ UNCHANGED wire \/ (wire[p] # <<>> /\ wire' = [wire EXCEPT ![p] = Tail(@)])
      /\ \/ UNCHANGED late
         \/ wire[p] # <<>> /\ late' = [late EXCEPT ![p] = @ \cup {Head(wire[p])}]
         \/ \E d \in late[p] : late' = [late EXCEPT ![p] = @ \ {d}]
  BY DEF Network, Deliver, DeliverLate, Lose, Duplicate, Delay
<1>4. /\ Range(wire'[p]) \subseteq Range(wire[p]) /\ wire'[q] = wire[q] /\ late'[q] = late[q]
      /\ late'[p] \subseteq InTransit(p)
  BY <1>0, <1>1, <1>2, <1>3 DEF InTransit
<1>5. InTransit(p)' \subseteq InTransit(p) /\ InTransit(q)' \subseteq InTransit(q)
  BY <1>4 DEF InTransit
<1>6. CASE Deliver(p)
  BY <1>2, <1>5, <1>6, ArriveFetches DEF Deliver
<1>7. CASE DeliverLate(p)
  <2>1. PICK d \in late[p] : Arrive(p, d)
    BY <1>7 DEF DeliverLate
  <2> QED
    BY <1>5, <2>1, ArriveFetches DEF InTransit
<1>8. CASE UNCHANGED procVars
  <2>1. UNCHANGED <<cleanup, pc, srv, cl, queue, answers>>
    BY <1>8 DEF procVars
  <2>2. \A r \in Peers : InTransit(r)' \subseteq InTransit(r)
    BY <1>0, <1>5
  <2>3. Silent
    BY <2>1, <2>2, OtherIsPeer DEF Silent, Asks, Tells
  <2>4. \A r \in Peers : Fetched(r, Blank)
    BY <2>1 DEF Fetched
  <2> QED
    BY <2>1, <2>3, <2>4 DEF Fetches
<1> QED
  BY <1>6, <1>7, <1>8 DEF Network, Lose, Duplicate, Delay, Fault

LEMMA NetworkSInv ==
  ASSUME IInv, SInv, NEW p \in Peers, Network(p)
  PROVE  SInv'
BY NetworkFetches, FetchedSInv DEF Fetches

-----------------------------------------------------------------------------
LEMMA InitSInv == Init => SInv
<1> SUFFICES ASSUME Init, NEW p \in Peers PROVE Pair(p) /\ Server(p)
  BY DEF SInv
<1> DEFINE q == Other(p)
<1>1. q \in Peers
  BY OtherIsPeer
<1>2. \A r \in Peers : /\ srv[r].port = 0 /\ srv[r].sid = 0 /\ srv[r].got = "none"
                       /\ cl[r].port = 0 /\ cl[r].sid = 0 /\ cl[r].stage = 0
                       /\ pc[r] = "loop" /\ queue[r] = <<>> /\ answers[r] = <<>>
                       /\ wire[r] = <<>> /\ late[r] = {}
  BY DEF Init
<1>3. Asks(p) = {} /\ Tells(p) = {}
  BY <1>1, <1>2, RangeEmpty DEF Asks, Tells, InTransit
<1>4. Session(p)
  BY <1>1, <1>2, <1>3, RangeEmpty
     DEF Session, Numbered, OnePort, OneKey, Agreed, Told, Serving, ServerPcs, ClientPcs
<1>5. Dialogue(p)
  BY <1>1, <1>2, <1>3 DEF Dialogue, Greeted, Asking, Matched, ClientPcs
<1>6. Server(p)
  BY <1>2 DEF Server, Queued, Buffered
<1> QED
  BY <1>4, <1>5, <1>6 DEF Pair

LEMMA NextSInv == IInv /\ SInv /\ [Next]_vars => SInv'
<1> SUFFICES ASSUME IInv, SInv, [Next]_vars PROVE SInv'
  OBVIOUS
<1>1. CASE UNCHANGED vars
  <2>1. UNCHANGED <<cleanup, pc, srv, cl, queue, answers, wire, late>>
    BY <1>1 DEF vars, procVars, env
  <2>2. Silent
    BY <2>1, OtherIsPeer DEF Silent, Asks, Tells, InTransit
  <2>3. \A r \in Peers : Fetched(r, Blank)
    BY <2>1 DEF Fetched
  <2> QED
    BY <2>1, <2>2, <2>3, FetchedSInv
<1> QED
  BY <1>1, MainSInv, ServerSInv, ClientSInv, SignalSInv, NetworkSInv DEF Next

-----------------------------------------------------------------------------
LEMMA SInvKeys == IInv /\ SInv => KeysAgree
<1> SUFFICES ASSUME IInv, SInv, NEW p \in Peers
             PROVE  /\ Reading(p) /\ queue[p] # <<>> /\ Head(queue[p]).kind \in {"request", "close"}
                         => Head(queue[p]).sid = srv[p].sid
                    /\ answers[p] # <<>> /\ cl[p].stage = 2
                       /\ (pc[p] = "connect" \/ (pc[p] = "await" /\ Head(answers[p]).kind # "offer"))
                         => Head(answers[p]).sid = cl[p].sid
  BY DEF KeysAgree
<1>1. ASSUME Reading(p), queue[p] # <<>>, Head(queue[p]).kind \in {"request", "close"}
      PROVE  Head(queue[p]).sid = srv[p].sid
  <2>1. pc[p] \in {"read", "check"}
    BY <1>1 DEF Reading
  <2> QED
    BY <1>1, <2>1, OtherOther, ReadOwn DEF Keyed
<1>2. ASSUME answers[p] # <<>>, pc[p] \in {"connect", "await"}, cl[p].stage = 2,
             pc[p] = "connect" \/ Head(answers[p]).kind # "offer"
      PROVE  Head(answers[p]).sid = cl[p].sid
  <2>1. Session(p) /\ Greeted(p) /\ pc[p] \in ClientPcs
    BY <1>2 DEF SInv, Pair, Dialogue, ClientPcs
  <2>2. Head(answers[p]) \in Tells(p) /\ Head(answers[p]).port = cl[p].port
    BY <1>2, <2>1, HeadTold DEF IInv
  <2>3. CASE pc[p] = "connect"
    BY <1>2, <2>1, <2>2, <2>3 DEF Greeted
  <2>4. CASE pc[p] = "await"
    <3>1. Head(answers[p]).kind \in {"finished", "reply"}
      BY <1>2, <2>2, <2>4 DEF Tells, ToClient
    <3> QED
      BY <2>1, <2>2, <3>1 DEF Session, Told
  <2> QED
    BY <1>2, <2>3, <2>4
<1> QED
  BY <1>1, <1>2

\* Whatever the network loses, repeats or delays and whenever SIGINT comes, no record of
\* one session is read in another: the request and the close_notify a server takes were
\* made with the keys of the session it serves, and the flights and the reply a client
\* takes with the keys of its own.
THEOREM SessionsKeepApart == Spec => []KeysAgree
<1>1. IInv /\ SInv => KeysAgree
  BY SInvKeys
<1> QED
  BY <1>1, InitIInv, NextIInv, InitSInv, NextSInv, PTL DEF Spec

\* The reply a client applies to its inventory answers the command it sent, although main
\* sends whatever send_buf holds and never looks at whom it is talking to.
THEOREM AnswersFitQuestions == Spec => []ReplyMatches
<1>1. ASSUME IInv, SInv PROVE ReplyMatches
  <2> SUFFICES ASSUME NEW p \in Peers, pc[p] = "await", answers[p] # <<>>,
                      Head(answers[p]).kind = "reply"
               PROVE  Fits(Head(answers[p]).body, cl[p].cmd)
    BY DEF ReplyMatches, Fits
  <2>1. Session(p) /\ Matched(p) /\ Asking(p) /\ pc[p] \in ClientPcs
    BY <1>1 DEF SInv, Pair, Dialogue, ClientPcs
  <2>2. Head(answers[p]) \in Tells(p) /\ Head(answers[p]).port = cl[p].port
    BY <1>1, <2>1, HeadTold DEF IInv
  <2> QED
    BY <2>1, <2>2 DEF Matched, Asking
<1>2. IInv /\ SInv => ReplyMatches
  BY <1>1
<1> QED
  BY <1>2, InitIInv, NextIInv, InitSInv, NextSInv, PTL DEF Spec
=============================================================================
