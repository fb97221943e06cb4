--------------------------- MODULE SimpleUDP_refines ---------------------------
(* SimpleUDP implements Ledger: every step of the program changes what one *)
(* exchange has come to as one action of Ledger does, or none.             *)
EXTENDS SimpleUDP_items, SimpleUDP_ledger

\* The places of a server that may still apply a request of its session.
Early == {"accept", "acceptWait", "read", "check"}

\* p has opened a session and not said yet what for.
Unsaid(p) == pc[p] \in {"connect", "write"}

\* p's server has read the request c of its session, or may still read it.
Hears(p, c) ==
  LET q == Other(p) IN
  /\ pc[q] \in Early
  /\ \/ srv[q].got = "data" /\ c = srv[q].req
     \/ /\ srv[q].got # "data"
        /\ \E d \in Asks(p) : d.kind = "request" /\ d.sid = srv[q].sid /\ c = d.body

\* p waits for an answer with items that its server is about to write ...
Offers(p, b) ==
  LET q == Other(p) IN
  /\ pc[q] = "reply" /\ srv[q].port = cl[p].port /\ srv[q].got = "data"
  /\ srv[q].ptr = "heap" /\ b = srv[q].buf

\* ... or that is on its way.
Grants(p, b) ==
  /\ pc[p] = "await" /\ b.op \in Goods
  /\ Offers(p, b) \/ \E d \in Tells(p) : d.kind = "reply" /\ d.port = cl[p].port /\ b = d.body

\* The commands, and the answers with items, that count for p's session k.
Command(p, k, c) ==
  \/ Unsaid(p) /\ cl[p].port = k /\ c = cl[p].cmd
  \/ srv[Other(p)].port = k /\ Hears(p, c)
Answer(p, k, b) == cl[p].port = k /\ Grants(p, b)

-----------------------------------------------------------------------------
(* What the mapping needs to know beyond SInv.                             *)

\* A client asks what its user typed, or for a refill.
Typed(p) ==
  pc[p] \in ClientPcs => cl[p].cmd \in Script[p] \cup {[op |-> "REFILL", n |-> 0]}

\* A session makes one request; what else has its port is a copy.
OneRequest(p) ==
  \A d, e \in Asks(p) :
    d.kind = "request" /\ e.kind = "request" /\ d.port = e.port => d.body = e.body

\* No reply is on its way in a session whose reply q has not sent yet.
Unanswered(p) ==
  LET q == Other(p) IN
  pc[q] \in Early \cup {"reply"} =>
    \A d \in Tells(p) : d.kind = "reply" => d.sid # srv[q].sid

\* While its request may still be answered a client waits.
Waiting(p) ==
  \A c : Hears(p, c) /\ c.op # "SEND" => pc[p] = "await" /\ cl[p].port = srv[Other(p)].port

LInv == \A p \in Peers : Typed(p) /\ OneRequest(p) /\ Unanswered(p) /\ Waiting(p)

-----------------------------------------------------------------------------
(* One session has one command, and an answer only when that is gone.      *)

\* A request that may still be read has the port of the session, and is the only one.
LEMMA HeardOwn ==
  ASSUME SInv, NEW p \in Peers, NEW c, Hears(p, c), srv[Other(p)].port = cl[p].port
  PROVE  /\ cl[p].sid = srv[Other(p)].sid /\ ~Unsaid(p) /\ c = cl[p].cmd
<1> DEFINE q == Other(p)
<1>0. /\ q \in Peers /\ Matched(p) /\ OneKey(p) /\ Agreed(p) /\ OnePort(p) /\ Buffered(q)
      /\ pc[q] \in Serving
  BY OtherIsPeer DEF SInv, Pair, Session, Dialogue, Server, Hears, Early, Serving, ServerPcs
<1>1. CASE srv[q].got = "data"
  <2>1. pc[q] = "check" /\ c = srv[q].req
    BY <1>0, <1>1 DEF Hears, Early, Buffered
  <2> QED
    BY <1>0, <1>1, <2>1 DEF Matched, Agreed, Written, Unsaid
<1>2. CASE srv[q].got # "data"
  <2>1. PICK d \in Asks(p) : d.kind = "request" /\ d.sid = srv[q].sid /\ c = d.body
    BY <1>2 DEF Hears
  <2>2. d.port = cl[p].port
    BY <1>0, <2>1 DEF OnePort
  <2> QED
    BY <1>0, <2>1, <2>2 DEF Matched, OneKey, Keyed, Written, Unsaid
<1> QED
  BY <1>1, <1>2

LEMMA OneHeard ==
  ASSUME SInv, LInv, NEW p \in Peers, NEW c, NEW e, Hears(p, c), Hears(p, e)
  PROVE  c = e
<1> DEFINE q == Other(p)
<1>0. q \in Peers /\ OnePort(p) /\ OneRequest(p) /\ pc[q] \in Serving
  BY OtherIsPeer DEF SInv, LInv, Pair, Session, Hears, Early, Serving, ServerPcs
<1>1. CASE srv[q].got = "data"
  BY <1>1 DEF Hears
<1>2. CASE srv[q].got # "data"
  BY <1>0, <1>2 DEF Hears, OnePort, OneRequest
<1> QED
  BY <1>1, <1>2

\* A session whose request may still be applied has no reply.
LEMMA Apart ==
  ASSUME SInv, LInv, NEW p \in Peers, NEW c, Hears(p, c), srv[Other(p)].port = cl[p].port,
         NEW d \in Tells(p), d.kind = "reply"
  PROVE  d.port # cl[p].port
<1>1. cl[p].sid = srv[Other(p)].sid /\ pc[Other(p)] \in Early
  BY HeardOwn DEF Hears
<1>2. Told(p) /\ Unanswered(p)
  BY DEF SInv, LInv, Pair, Session
<1> QED
  BY <1>1, <1>2 DEF Told, Unanswered

\* The answers with items that a client may get all carry the same number.
LEMMA OneGrant ==
  ASSUME SInv, NEW p \in Peers, NEW b, Grants(p, b)
  PROVE  /\ b.n = IF cl[p].cmd.op = "REFILL" THEN RefillAmount ELSE cl[p].cmd.n
         /\ cl[p].cmd.op \in {"REFILL", "REQUEST"}
<1> DEFINE q == Other(p)
<1>0. /\ q \in Peers /\ Matched(p) /\ Asking(p) /\ Buffered(q) /\ pc[p] = "await"
      /\ pc[p] \in ClientPcs /\ b.op \in Goods
  BY OtherIsPeer DEF SInv, Pair, Dialogue, Server, Grants, ClientPcs
<1>1. cl[p].cmd.op \in {"CHECK", "REFILL", "REQUEST"}
  BY <1>0 DEF Asking, Commands
<1>2. Fits(b, cl[p].cmd)
  <2>1. CASE Offers(p, b)
    <3>1. srv[q].req = cl[p].cmd
      BY <1>0, <2>1 DEF Offers, Matched
    <3> QED
      BY <1>0, <1>1, <2>1, <3>1 DEF Offers, Buffered
  <2>2. CASE \E d \in Tells(p) : d.kind = "reply" /\ d.port = cl[p].port /\ b = d.body
    BY <1>0, <1>1, <2>2 DEF Matched
  <2> QED
    BY <2>1, <2>2 DEF Grants
<1> QED
  BY <1>0, <1>1, <1>2 DEF Fits, Goods

-----------------------------------------------------------------------------
(* What an exchange has come to.                                           *)

LEMMA CommandedForm ==
  ASSUME SInv, NEW p \in Peers, NEW k, NEW c
  PROVE  c \in Commanded(p, k) <=> Command(p, k, c)
<1> DEFINE q == Other(p)
           Asked == {e \in Range(queue[q]) \cup InTransit(p) :
                       e.kind = "request" /\ e.port = k /\ e.sid = srv[q].sid}
<1>1. CASE Unsaid(p) /\ cl[p].port = k
  <2>1. Commanded(p, k) = {cl[p].cmd}
    BY <1>1 DEF Commanded, Unsaid
  <2> QED
    BY <1>1, <2>1, HeardOwn DEF Command
<1>2. CASE ~(Unsaid(p) /\ cl[p].port = k) /\ pc[q] \notin Early
  <2>1. Commanded(p, k) = {}
    BY <1>2 DEF Commanded, Unsaid, Early
  <2> QED
    BY <1>2, <2>1 DEF Command, Hears
<1>3. CASE ~(Unsaid(p) /\ cl[p].port = k) /\ pc[q] \in Early /\ srv[q].got = "data"
  <2>1. Commanded(p, k) = {e \in {srv[q].req} : srv[q].port = k}
    BY <1>3 DEF Commanded, Unsaid, Early
  <2> QED
    BY <1>3, <2>1 DEF Command, Hears
<1>4. CASE ~(Unsaid(p) /\ cl[p].port = k) /\ pc[q] \in Early /\ srv[q].got # "data"
  <2>1. Commanded(p, k) = {d.body : d \in Asked}
    BY <1>4 DEF Commanded, Unsaid, Early
  <2>2. \A d \in Asks(p) : d.sid = srv[q].sid => d.port = srv[q].port
    <3>1. pc[q] \in Serving /\ OnePort(p)
      BY <1>4 DEF SInv, Pair, Session, Early, Serving, ServerPcs
    <3> QED
      BY <3>1 DEF OnePort
  <2>3. \A d : d \in Asked <=> d \in Asks(p) /\ d.kind = "request" /\ d.sid = srv[q].sid
                                /\ srv[q].port = k
    BY <2>2 DEF Asks, ToListener
  <2> QED
    BY <1>4, <2>1, <2>3 DEF Command, Hears
<1> QED
  BY <1>1, <1>2, <1>3, <1>4

LEMMA AnsweredForm ==
  ASSUME NEW p \in Peers, NEW k, NEW b
  PROVE  b \in Answered(p, k) <=> Answer(p, k, b)
<1> DEFINE q == Other(p)
           Coming == {e \in Range(answers[p]) \cup InTransit(q) :
                        e.kind = "reply" /\ e.port = k /\ e.body.op \in Goods}
           About == {e \in {srv[q].buf} : /\ pc[q] = "reply" /\ srv[q].port = k /\ srv[q].got = "data"
                                           /\ srv[q].ptr = "heap" /\ e.op \in Goods}
<1>1. CASE pc[p] # "await" \/ cl[p].port # k
  BY <1>1 DEF Answered, Answer, Grants
<1>2. CASE pc[p] = "await" /\ cl[p].port = k
  <2>1. Answered(p, k) = About \cup {d.body : d \in Coming}
    BY <1>2 DEF Answered
  <2>2. \A d : d \in Coming <=> d \in Tells(p) /\ d.kind = "reply" /\ d.port = k /\ d.body.op \in Goods
    BY DEF Tells, ToClient
  <2>3. b \in About <=> Offers(p, b) /\ b.op \in Goods
    BY <1>2 DEF Offers
  <2>4. b \in {d.body : d \in Coming}
          <=> \E d \in Tells(p) : d.kind = "reply" /\ d.port = k /\ b = d.body /\ b.op \in Goods
    BY <2>2
  <2> QED
    BY <1>2, <2>1, <2>3, <2>4 DEF Answer, Grants
<1> QED
  BY <1>1, <1>2

Charge(p, c) == IF c.op = "SEND" THEN Promise!Due(Other(p), c.n) ELSE Promise!Open

\* The outcome of a session is that of its command, else that of its answer.
Outcomes(p) ==
  \A k \in Ports :
    /\ cl[p].port < k => Outcome(p, k) = Promise!Open
    /\ ~(cl[p].port < k) =>
         /\ \A c : Command(p, k, c) => Outcome(p, k) = Charge(p, c)
         /\ \A b : Answer(p, k, b) => Outcome(p, k) = Promise!Due(p, b.n)
         /\ (\A c : ~Command(p, k, c)) /\ (\A b : ~Answer(p, k, b))
              => Outcome(p, k) = Promise!Over

LEMMA OutcomeForm ==
  ASSUME SInv, LInv, NEW p \in Peers
  PROVE  Outcomes(p)
<1> SUFFICES ASSUME NEW k \in Ports
             PROVE  /\ cl[p].port < k => Outcome(p, k) = Promise!Open
                    /\ ~(cl[p].port < k) =>
                         /\ \A c : Command(p, k, c) => Outcome(p, k) = Charge(p, c)
                         /\ \A b : Answer(p, k, b) => Outcome(p, k) = Promise!Due(p, b.n)
                         /\ (\A c : ~Command(p, k, c)) /\ (\A b : ~Answer(p, k, b))
                              => Outcome(p, k) = Promise!Over
  BY DEF Outcomes
<1> DEFINE commands == Commanded(p, k)
           grants == Answered(p, k)
           sent == {c \in commands : c.op = "SEND"}
<1>1. /\ \A c : c \in commands <=> Command(p, k, c)
      /\ \A b : b \in grants <=> Answer(p, k, b)
  BY CommandedForm, AnsweredForm
<1>2. Outcome(p, k) =
        IF cl[p].port < k THEN Promise!Open
        ELSE IF sent # {} THEN Promise!Due(Other(p), (CHOOSE c \in sent : TRUE).n)
        ELSE IF commands # {} THEN Promise!Open
        ELSE IF grants # {} THEN Promise!Due(p, (CHOOSE b \in grants : TRUE).n)
        ELSE Promise!Over
  BY DEF Outcome, Promise!Open, Promise!Over, Promise!Due, Promise!Slip
<1> HIDE DEF commands, grants
<1>3. CASE cl[p].port < k
  BY <1>2, <1>3
<1>4. CASE ~(cl[p].port < k)
  <2>1. ASSUME NEW c, Command(p, k, c) PROVE Outcome(p, k) = Charge(p, c)
    <3>1. commands = {c}
      <4>1. ASSUME NEW e, Command(p, k, e) PROVE e = c
        BY <2>1, <4>1, HeardOwn, OneHeard DEF Command
      <4> QED
        BY <1>1, <2>1, <4>1
    <3>2. CASE c.op = "SEND"
      <4>1. sent = {c}
        BY <3>1, <3>2
      <4> QED
        BY <1>2, <1>4, <3>2, <4>1 DEF Charge
    <3>3. CASE c.op # "SEND"
      <4>1. sent = {}
        BY <3>1, <3>3
      <4> QED
        BY <1>2, <1>4, <3>1, <3>3, <4>1 DEF Charge
    <3> QED
      BY <3>2, <3>3
  <2>2. ASSUME NEW b, Answer(p, k, b) PROVE Outcome(p, k) = Promise!Due(p, b.n)
    <3>1. \A c : ~Command(p, k, c)
      <4> SUFFICES ASSUME NEW c, Command(p, k, c) PROVE FALSE
        OBVIOUS
      <4>1. Hears(p, c) /\ srv[Other(p)].port = cl[p].port /\ k = cl[p].port
        BY <2>2 DEF Command, Answer, Grants, Unsaid
      <4>2. ~Offers(p, b)
        BY <4>1 DEF Hears, Offers, Early
      <4> QED
        BY <2>2, <4>1, <4>2, Apart DEF Answer, Grants
    <3>2. commands = {} /\ sent = {}
      BY <1>1, <3>1
    <3>3. \A e \in grants : e.n = b.n
      BY <1>1, <2>2, OneGrant DEF Answer
    <3>4. grants # {} /\ (CHOOSE e \in grants : TRUE) \in grants
      BY <1>1, <2>2
    <3> QED
      BY <1>2, <1>4, <3>2, <3>3, <3>4
  <2>3. ASSUME \A c : ~Command(p, k, c), \A b : ~Answer(p, k, b)
        PROVE  Outcome(p, k) = Promise!Over
    <3>1. commands = {} /\ sent = {} /\ grants = {}
      BY <1>1, <2>3
    <3> QED
      BY <1>2, <1>4, <3>1
  <2> QED
    BY <1>4, <2>1, <2>2, <2>3
<1> QED
  BY <1>3, <1>4

AllOutcomes == \A p \in Peers : Outcomes(p)

LEMMA OutcomesHold == SInv /\ LInv => AllOutcomes
BY OutcomeForm DEF AllOutcomes

-----------------------------------------------------------------------------
(* The steps of the ledger.                                                *)

\* p's exchanges are what they were ...
Holds(p) == \A k \in Ports : Outcome(p, k)' = Outcome(p, k)

\* ... but for one ...
Else(p, k0) == \A k \in Ports \ {k0} : Outcome(p, k)' = Outcome(p, k)

\* ... which may be over.
Fades(p, k0) ==
  \A k \in Ports : Outcome(p, k)' = Outcome(p, k) \/ (k = k0 /\ Outcome(p, k)' = Promise!Over)

LEMMA SameOutcome ==
  ASSUME NEW p \in Peers, NEW k \in Ports, Outcomes(p), Outcomes(p)',
         cl'[p].port < k <=> cl[p].port < k,
         \A c : Command(p, k, c)' <=> Command(p, k, c),
         \A b : Answer(p, k, b)' <=> Answer(p, k, b)
  PROVE  Outcome(p, k)' = Outcome(p, k)
<1>1. CASE cl[p].port < k
  BY <1>1 DEF Outcomes
<1>2. CASE ~(cl[p].port < k) /\ \E c : Command(p, k, c)
  BY <1>2 DEF Outcomes, Charge
<1>3. CASE ~(cl[p].port < k) /\ \E b : Answer(p, k, b)
  BY <1>3 DEF Outcomes
<1>4. CASE ~(cl[p].port < k) /\ (\A c : ~Command(p, k, c)) /\ (\A b : ~Answer(p, k, b))
  <2>1. Outcome(p, k) = Promise!Over
    BY <1>4 DEF Outcomes
  <2>2. /\ ~(cl'[p].port < k) /\ (\A c : ~Command(p, k, c)') /\ (\A b : ~Answer(p, k, b)')
    BY <1>4
  <2>3. Outcome(p, k)' = Promise!Over
    BY <2>2 DEF Outcomes, Promise!Over, Promise!Slip
  <2> QED
    BY <2>1, <2>3
<1> QED
  BY <1>1, <1>2, <1>3, <1>4

LEMMA HoldsForm ==
  ASSUME NEW p \in Peers, Outcomes(p), Outcomes(p)', cl'[p].port = cl[p].port,
         \A k, c : Command(p, k, c)' <=> Command(p, k, c),
         \A k, b : Answer(p, k, b)' <=> Answer(p, k, b)
  PROVE  Holds(p)
BY SameOutcome DEF Holds

LEMMA ElseForm ==
  ASSUME NEW p \in Peers, Outcomes(p), Outcomes(p)', cl'[p].port = cl[p].port, NEW k0,
         \A k, c : k # k0 => (Command(p, k, c)' <=> Command(p, k, c)),
         \A k, b : k # k0 => (Answer(p, k, b)' <=> Answer(p, k, b))
  PROVE  Else(p, k0)
BY SameOutcome DEF Else

LEMMA FadesForm ==
  ASSUME NEW p \in Peers, Outcomes(p), Outcomes(p)', cl'[p].port = cl[p].port, NEW k0,
         \A k, c : Command(p, k, c)' => Command(p, k, c),
         \A k, b : Answer(p, k, b)' => Answer(p, k, b),
         \A k, c : k # k0 => (Command(p, k, c) => Command(p, k, c)'),
         \A k, b : k # k0 => (Answer(p, k, b) => Answer(p, k, b)')
  PROVE  Fades(p, k0)
<1> SUFFICES ASSUME NEW k \in Ports
             PROVE  Outcome(p, k)' = Outcome(p, k) \/ (k = k0 /\ Outcome(p, k)' = Promise!Over)
  BY DEF Fades
<1>1. CASE cl[p].port < k
  BY <1>1 DEF Outcomes
<1>2. CASE ~(cl[p].port < k) /\ \E c : Command(p, k, c)'
  BY <1>2 DEF Outcomes, Charge
<1>3. CASE ~(cl[p].port < k) /\ \E b : Answer(p, k, b)'
  BY <1>3 DEF Outcomes
<1>4. CASE ~(cl[p].port < k) /\ (\A c : ~Command(p, k, c)') /\ (\A b : ~Answer(p, k, b)')
  <2>1. Outcome(p, k)' = Promise!Over
    BY <1>4 DEF Outcomes, Promise!Over, Promise!Slip
  <2>2. CASE k = k0
    BY <2>1, <2>2
  <2>3. CASE k # k0
    <3>1. (\A c : ~Command(p, k, c)) /\ (\A b : ~Answer(p, k, b))
      BY <1>4, <2>3
    <3>2. Outcome(p, k) = Promise!Over
      BY <1>4, <3>1 DEF Outcomes
    <3> QED
      BY <2>1, <3>2
  <2> QED
    BY <2>2, <2>3
<1> QED
  BY <1>1, <1>2, <1>3, <1>4

Ledgers == [Promise!Next]_Promise!vars

Slips == [e \in Peers \X Ports |-> Outcome(e[1], e[2])]

LEMMA MarkForm ==
  ASSUME NEW p \in Peers, NEW k0 \in Ports, NEW s, Outcome(p, k0)' = s,
         Else(p, k0), Holds(Other(p))
  PROVE  /\ Slips' = [Slips EXCEPT ![<<p, k0>>] = s]
         /\ Slips[<<p, k0>>] = Outcome(p, k0) /\ Slips'[<<p, k0>>] = s
<1> DEFINE new == [Slips EXCEPT ![<<p, k0>>] = s]
<1>1. \A e \in Peers \X Ports : /\ Slips[e] = Outcome(e[1], e[2])
                                /\ Slips'[e] = Outcome(e[1], e[2])'
                                /\ e = <<e[1], e[2]>> /\ e[1] \in Peers /\ e[2] \in Ports
  BY DEF Slips
<1>2. \A e \in Peers \X Ports : e # <<p, k0>> => Slips'[e] = Slips[e]
  <2> SUFFICES ASSUME NEW r \in Peers, NEW k \in Ports, <<r, k>> # <<p, k0>>
               PROVE  Slips'[<<r, k>>] = Slips[<<r, k>>]
    BY <1>1
  <2>1. Slips'[<<r, k>>] = Outcome(r, k)' /\ Slips[<<r, k>>] = Outcome(r, k)
    BY <1>1
  <2>2. CASE r = p
    BY <2>1, <2>2 DEF Else
  <2>3. CASE r = Other(p)
    BY <2>1, <2>3 DEF Holds
  <2> QED
    BY <2>2, <2>3, OtherOther
<1>3. <<p, k0>> \in Peers \X Ports /\ Slips'[<<p, k0>>] = s /\ Slips[<<p, k0>>] = Outcome(p, k0)
  BY <1>1
<1>4. DOMAIN Slips = Peers \X Ports /\ DOMAIN Slips' = Peers \X Ports
  BY DEF Slips
<1>5. Slips' = [e \in Peers \X Ports |-> Slips'[e]] /\ new = [e \in Peers \X Ports |-> new[e]]
  BY <1>4 DEF Slips
<1>6. \A e \in Peers \X Ports : Slips'[e] = new[e]
  BY <1>2, <1>3, <1>4
<1> HIDE DEF new
<1>7. Slips' = new
  BY <1>5, <1>6
<1> QED
  BY <1>3, <1>7 DEF new

\* Nothing moves.
LEMMA LedgerRests ==
  ASSUME UNCHANGED inv, \A p \in Peers : Holds(p)
  PROVE  Ledgers
<1>1. Slips' = Slips
  BY DEF Slips, Holds
<1> QED
  BY <1>1 DEF Ledgers, Promise!vars, Slips

\* One exchange is over: its items, if it had some due, have arrived ...
LEMMA LedgerPays ==
  ASSUME NEW p \in Peers, NEW k0 \in Ports, Else(p, k0), Holds(Other(p)),
         NEW to, NEW n, Outcome(p, k0) = Promise!Due(to, n), Outcome(p, k0)' = Promise!Over,
         inv' = [inv EXCEPT ![to] = @ + n]
  PROVE  Ledgers
<1> DEFINE e == <<p, k0>>
<1>1. /\ Slips' = [Slips EXCEPT ![e] = Promise!Over]
      /\ Slips[e] = Promise!Due(to, n) /\ Slips'[e] = Promise!Over
  BY MarkForm
<1>2. /\ Promise!Due(to, n).state = "due" /\ Promise!Due(to, n).to = to
      /\ Promise!Due(to, n).n = n /\ Promise!Over.state = "over"
  BY DEF Promise!Due, Promise!Over, Promise!Slip
<1>3. Promise!Settle(e)
  BY <1>1, <1>2 DEF Promise!Settle, Promise!Mark, Slips
<1>4. e \in Promise!Exchanges
  BY DEF Promise!Exchanges, Promise!Peers, Peers
<1> QED
  BY <1>3, <1>4 DEF Ledgers, Promise!Next

\* ... or are lost.
LEMMA LedgerFades ==
  ASSUME SInv, LInv, UNCHANGED inv, NEW p \in Peers, NEW k0, Fades(p, k0), Holds(Other(p))
  PROVE  Ledgers
<1>1. CASE Holds(p)
  BY <1>1, OtherOther, LedgerRests
<1>2. CASE ~Holds(p)
  <2> DEFINE e == <<p, k0>>
  <2>1. /\ k0 \in Ports /\ Outcome(p, k0)' = Promise!Over /\ Outcome(p, k0) # Promise!Over
        /\ Else(p, k0)
    BY <1>2 DEF Fades, Holds, Else
  <2>2. Slips' = [Slips EXCEPT ![e] = Promise!Over] /\ Slips[e] = Outcome(p, k0)
        /\ Slips'[e] = Promise!Over
    BY <2>1, MarkForm
  <2>3. Promise!Over.state = "over"
    BY DEF Promise!Over, Promise!Slip
  <2>4. Outcome(p, k0).state # "over"
    <3>1. /\ \A to, n : Promise!Due(to, n).state = "due"
          /\ Promise!Open.state = "open"
      BY DEF Promise!Due, Promise!Open, Promise!Slip
    <3>2. Outcomes(p)
      BY OutcomeForm
    <3>3. \/ Outcome(p, k0) = Promise!Open
          \/ \E to, n : Outcome(p, k0) = Promise!Due(to, n)
      BY <2>1, <3>2 DEF Outcomes, Charge
    <3> QED
      BY <3>1, <3>3
  <2>5. Promise!Settle(e)
    BY <2>2, <2>3, <2>4 DEF Promise!Settle, Promise!Mark, Slips
  <2>6. e \in Promise!Exchanges
    BY <2>1 DEF Promise!Exchanges, Promise!Peers, Peers
  <2> QED
    BY <2>5, <2>6 DEF Ledgers, Promise!Next
<1> QED
  BY <1>1, <1>2

\* A SEND or a REQUEST takes what there is ...
LEMMA LedgerMoves ==
  ASSUME NEW p \in Peers, NEW k0 \in Ports, Else(p, k0), Holds(Other(p)),
         NEW from \in Peers, NEW n \in Amounts, n <= inv[from],
         inv' = [inv EXCEPT ![from] = @ - n], Outcome(p, k0) = Promise!Open,
         Outcome(p, k0)' = Promise!Due(Other(from), n)
  PROVE  Ledgers
<1> DEFINE e == <<p, k0>>
<1>1. /\ Slips' = [Slips EXCEPT ![e] = Promise!Due(Other(from), n)]
      /\ Slips[e] = Promise!Open
  BY MarkForm
<1>2. Promise!Open.state = "open" /\ Promise!Other(from) = Other(from)
  BY DEF Promise!Open, Promise!Slip, Promise!Other, Other
<1>3. Promise!Take(from, n, e)
  BY <1>1, <1>2 DEF Promise!Take, Promise!Mark, Slips
<1>4. e \in Promise!Exchanges /\ from \in Promise!Peers
  BY DEF Promise!Exchanges, Promise!Peers, Peers
<1>5. Promise!MoveItems
  BY <1>3, <1>4 DEF Promise!MoveItems
<1> QED
  BY <1>5 DEF Ledgers, Promise!Next

\* ... and a REFILL takes what it wants from the peer that serves it.
LEMMA LedgerRefills ==
  ASSUME NEW p \in Peers, NEW k0 \in Ports, Else(p, k0), Holds(Other(p)),
         inv' = [inv EXCEPT ![Other(p)] = @ - RefillAmount], Outcome(p, k0) = Promise!Open,
         Outcome(p, k0)' = Promise!Due(p, RefillAmount)
  PROVE  Ledgers
<1> DEFINE e == <<p, k0>>
           q == Other(p)
<1>0. q \in Peers /\ Other(q) = p /\ e[1] # q
  BY OtherOther
<1>1. /\ Slips' = [Slips EXCEPT ![e] = Promise!Due(p, RefillAmount)]
      /\ Slips[e] = Promise!Open
  BY MarkForm
<1>2. Promise!Open.state = "open" /\ Promise!Other(q) = p
  BY <1>0 DEF Promise!Open, Promise!Slip, Promise!Other, Other
<1>3. Promise!Take(q, RefillAmount, e)
  BY <1>1, <1>2 DEF Promise!Take, Promise!Mark, Slips
<1>4. e \in Promise!Exchanges /\ q \in Promise!Peers
  BY <1>0 DEF Promise!Exchanges, Promise!Peers, Peers
<1>5. Promise!RefillItems
  BY <1>0, <1>3, <1>4 DEF Promise!RefillItems
<1> QED
  BY <1>5 DEF Ledgers, Promise!Next

-----------------------------------------------------------------------------
(* What a step leaves on its way.                                          *)

LEMMA TransitGrows ==
  ASSUME TypeOK, NEW p \in Peers, UNCHANGED late, NEW d \in Datagrams(ToListener \cup ToClient),
         UNCHANGED wire \/ Send(p, d)
  PROVE  InTransit(Other(p))' = InTransit(Other(p)) /\ InTransit(p) \subseteq InTransit(p)'
<1> DEFINE D == Datagrams(ToListener \cup ToClient)
<1>1. wire \in [Peers -> Seq(D)]
  BY DEF TypeOK
<1>2. CASE UNCHANGED wire
  BY <1>2 DEF InTransit
<1>3. CASE Send(p, d)
  <2>1. wire'[p] = Append(wire[p], d) /\ wire'[Other(p)] = wire[Other(p)]
    BY <1>1, <1>3, OtherOther DEF Send
  <2>2. Range(Append(wire[p], d)) = Range(wire[p]) \cup {d}
    <3>1. wire[p] \in Seq(D) /\ d \in D
      BY <1>1
    <3> HIDE DEF D
    <3> QED
      BY <3>1, RangeAppend
  <2> QED
    BY <2>1, <2>2 DEF InTransit
<1> QED
  BY <1>2, <1>3

\* p says nothing that counts as a client: neither does its server notice, nor have its
\* own answers changed.
AsksStay(p) == Asks(p)' = Asks(p)
TellsStay(p) == Tells(p)' = Tells(p)

\* A server q tells its client more or less, and its own session as a client nothing.
LEMMA ServerWords ==
  ASSUME IInv, NEW q \in Peers, NEW p, p = Other(q), Accept(q) \/ Respond(q)
  PROVE  /\ AsksStay(q) /\ TellsStay(q)
         /\ Asks(p)' \subseteq Asks(p) /\ Tells(p) \subseteq Tells(p)'
         /\ pc[q] # "reply" => \A d \in News(p) : d.kind # "reply"
         /\ KeepsServer(p) /\ UNCHANGED <<cl, answers>> /\ pc'[q] \notin ClientPcs
         /\ pc[q] \in Early \cup {"reply", "drain"}
<1> USE DEF IInv
<1> DEFINE Flies(kind) == Send(q, Flight(kind, srv[q].port, srv[q].sid))
           Answers == Send(q, Dgram("reply", srv[q].port, srv[q].sid, srv[q].buf))
<1>0. p \in Peers /\ p # q /\ q = Other(p) /\ srv[q] \in ServerStates
  BY OtherOther DEF TypeOK
<1>1. /\ Asks(q)' \subseteq Asks(q) /\ Tells(q)' \subseteq Tells(q)
      /\ KeepsServer(p) /\ pc'[q] \notin ClientPcs /\ UNCHANGED <<cl, answers>>
  BY <1>0, ServerFrame
<1>2. /\ Asks(p)' \subseteq Asks(p)
      /\ pc[q] # "reply" => \A d \in News(p) : d.kind # "reply"
  BY ServerSpeaks DEF Reply
<1>3. pc[q] \in Early \cup {"reply", "drain"} /\ pc[q] \in Serving /\ UNCHANGED late
  BY DEF Accept, AcceptHello, AcceptRepeat, AcceptFinish, AcceptFatal, AcceptDrop,
     AcceptWouldBlock, AcceptWake, Respond, FirstRead, ReadClose, ReadRepeat, React,
     ReadAndReact, CheckInterrupted, Reply, Drain, Reading, Early, Serving, ServerPcs, env
<1>4. UNCHANGED wire \/ Flies("offer") \/ Flies("finished") \/ Answers
  BY DEF Accept, AcceptHello, AcceptRepeat, AcceptFinish, AcceptFatal, AcceptDrop,
     AcceptWouldBlock, AcceptWake, Respond, FirstRead, ReadClose, ReadRepeat, React,
     ReadAndReact, CheckInterrupted, Reply, Drain
<1>5. srv[q].port \in Ports /\ srv[q].sid \in Sids \cup {0} /\ srv[q].buf \in Payloads
  <2>1. srv[q].port # 0
    BY <1>3 DEF Connected
  <2> QED
    BY <1>0, <2>1 DEF ServerStates
<1>6. \E d \in Datagrams(ToListener \cup ToClient) : UNCHANGED wire \/ Send(q, d)
  <2>1. \A kind \in {"offer", "finished", "reply"}, body \in Payloads :
          Dgram(kind, srv[q].port, srv[q].sid, body) \in Datagrams(ToListener \cup ToClient)
    BY <1>5 DEF Dgram, Datagrams, ToClient
  <2> QED
    BY <1>4, <1>5, <2>1, BlankIsPayload DEF Flight
<1>7. InTransit(p)' = InTransit(p) /\ InTransit(q) \subseteq InTransit(q)'
  BY <1>0, <1>3, <1>6, TransitGrows
<1>8. Asks(q) \subseteq Asks(q)' /\ Tells(q) \subseteq Tells(q)' /\ Tells(p) \subseteq Tells(p)'
  BY <1>0, <1>1, <1>7 DEF Asks, Tells, KeepsServer
<1> QED
  BY <1>1, <1>2, <1>3, <1>8 DEF AsksStay, TellsStay

\* A client p asks its server more, and what it serves is nothing.
LEMMA ClientWords ==
  ASSUME IInv, SInv, NEW p \in Peers, NEW q, q = Other(p), Client(p)
  PROVE  /\ AsksStay(q) /\ TellsStay(q)
         /\ Asks(p) \subseteq Asks(p)' /\ Tells(p)' \subseteq Tells(p)
         /\ \A d \in Records(p) : d.kind = "request" =>
              /\ pc[p] = "write" /\ d.body = cl[p].cmd
              /\ d.port = cl[p].port /\ d.sid = cl[p].sid
         /\ KeepsClient(q) /\ KeepsServer(q) /\ UNCHANGED <<srv, queue>>
         /\ pc[p] \in ClientPcs /\ pc'[p] \in ClientPcs \cup {"select", "loop", "crashed"}
<1> USE DEF IInv
<1> DEFINE Sends(kind, sid, body) == Send(p, Dgram(kind, cl[p].port, sid, body))
           Kinds == {"hello", "finish", "request", "close"}
<1>0. q \in Peers /\ p # q /\ p = Other(q) /\ cl[p] \in ClientStates
  BY OtherOther DEF TypeOK
<1>1. /\ Asks(q)' \subseteq Asks(q) /\ Tells(q)' \subseteq Tells(q) /\ KeepsClient(q)
      /\ pc[p] \in ClientPcs /\ pc'[p] \in ClientPcs \cup {"select", "loop", "crashed"}
      /\ UNCHANGED <<srv, queue, cleanup>>
  BY ClientFrame
<1>2. /\ Tells(p)' \subseteq Tells(p)
      /\ \A d \in Records(p) : d.kind = "request" =>
           /\ pc[p] = "write" /\ d.body = cl[p].cmd
           /\ d.port = cl[p].port /\ d.sid = cl[p].sid
  BY ClientSpeaks DEF Write
<1>3. UNCHANGED late
  BY DEF Client, ConnectOffer, ConnectFinished, ClientRepeat, ClientDrop, ConnectRetry,
     ConnectGiveUp, Write, Await, Bye, env
<1>4. cl[p].port \in Ports /\ cl[p].sid \in Sids \cup {0} /\ cl[p].cmd \in Payloads
  <2>1. cl[p].port # 0
    BY <1>1 DEF Connected
  <2> QED
    BY <1>0, <2>1 DEF ClientStates
<1>5. \/ UNCHANGED wire
      \/ \E kind \in Kinds, sid \in Sids \cup {0}, body \in Payloads : Sends(kind, sid, body)
  <2>1. ConnectOffer(p) => Head(answers[p]).sid \in Sids \cup {0}
    BY AnswerTypes DEF ConnectOffer, Datagrams
  <2>2. ConnectOffer(p) => Sends("finish", Head(answers[p]).sid, Blank)
    BY DEF ConnectOffer, Flight
  <2>3. ClientRepeat(p) => Sends("finish", cl[p].sid, Blank)
    BY DEF ClientRepeat, Flight
  <2>4. ConnectRetry(p) => Sends("hello", cl[p].sid, Blank) \/ Sends("finish", cl[p].sid, Blank)
    BY DEF ConnectRetry, Flight
  <2>5. Write(p) => Sends("request", cl[p].sid, cl[p].cmd)
    BY DEF Write
  <2>6. Bye(p) => Sends("close", cl[p].sid, Blank)
    BY DEF Bye, Flight
  <2>7. ConnectFinished(p) \/ ClientDrop(p) \/ ConnectGiveUp(p) \/ Await(p) => UNCHANGED wire
    BY DEF ConnectFinished, ClientDrop, ConnectGiveUp, Await
  <2> QED
    BY <1>4, <2>1, <2>2, <2>3, <2>4, <2>5, <2>6, <2>7, BlankIsPayload DEF Client
<1>6. \E d \in Datagrams(ToListener \cup ToClient) : UNCHANGED wire \/ Send(p, d)
  <2>1. \A kind \in Kinds, sid \in Sids \cup {0}, body \in Payloads :
          Dgram(kind, cl[p].port, sid, body) \in Datagrams(ToListener \cup ToClient)
    BY <1>4 DEF Dgram, Datagrams, ToListener
  <2>2. Dgram("hello", cl[p].port, 0, Blank) \in Datagrams(ToListener \cup ToClient)
    BY <2>1, BlankIsPayload
  <2> QED
    BY <1>5, <2>1, <2>2
<1>7. InTransit(q)' = InTransit(q) /\ InTransit(p) \subseteq InTransit(p)'
  BY <1>3, <1>6, TransitGrows
<1>8. Asks(q) \subseteq Asks(q)' /\ Tells(q) \subseteq Tells(q)' /\ Asks(p) \subseteq Asks(p)'
  BY <1>0, <1>1, <1>7 DEF Asks, Tells, KeepsClient
<1> QED
  BY <1>0, <1>1, <1>2, <1>8 DEF AsksStay, TellsStay, KeepsServer, KeepsClient

-----------------------------------------------------------------------------
(* The invariant, step by step.                                            *)

\* A server stays in its session until it replies, and hears nothing new.
LEMMA ServerMoves ==
  ASSUME IInv, SInv, NEW q \in Peers, NEW p, p = Other(q), Accept(q) \/ Respond(q)
  PROVE  /\ srv'[q].sid = srv[q].sid /\ srv'[q].port = srv[q].port
         /\ pc'[q] \in Early \cup {"reply"} => pc[q] \in Early
         /\ \A c : Hears(p, c)' => Hears(p, c)
<1> USE DEF IInv
<1>0. /\ p \in Peers /\ p # q /\ q = Other(p) /\ srv[q] \in ServerStates
      /\ srv[q].req \in Payloads
  BY OtherOther DEF TypeOK, ServerStates
<1>1. Asks(p)' \subseteq Asks(p)
  BY ServerWords
<1>2. ASSUME srv'[q].sid = srv[q].sid, srv'[q].got = srv[q].got, srv'[q].req = srv[q].req,
             pc'[q] \in Early => pc[q] \in Early
      PROVE  \A c : Hears(p, c)' => Hears(p, c)
  BY <1>0, <1>1, <1>2 DEF Hears
<1>3. ASSUME NEW req \in Payloads, Serve(q, req), pc[q] = "check"
      PROVE  /\ srv'[q].sid = srv[q].sid /\ srv'[q].port = srv[q].port
             /\ pc'[q] = "reply" /\ pc[q] \in Early
  <2>1. /\ srv'[q].sid = srv[q].sid /\ srv'[q].port = srv[q].port
        /\ pc' = [pc EXCEPT ![q] = "reply"]
    BY <1>3, ServeFacts
  <2> QED
    BY <1>3, <2>1 DEF Early, TypeOK
<1>4. CASE AcceptHello(q)
  <2> DEFINE new == [srv[q] EXCEPT !.stage = 1]
  <2>1. srv'[q] = new /\ pc' = pc /\ pc[q] \in Early
    BY <1>4 DEF AcceptHello, TypeOK, Early
  <2>2. new.sid = srv[q].sid /\ new.got = srv[q].got /\ new.port = srv[q].port /\ new.req = srv[q].req
    BY <1>0 DEF ServerStates
  <2> QED
    BY <1>2, <2>1, <2>2
<1>5. CASE AcceptRepeat(q) \/ AcceptFinish(q) \/ AcceptFatal(q) \/ AcceptDrop(q)
           \/ AcceptWouldBlock(q) \/ AcceptWake(q)
  <2>1. pc[q] \in Early /\ UNCHANGED srv
    BY <1>5 DEF AcceptRepeat, AcceptFinish, AcceptFatal, AcceptDrop, AcceptWouldBlock, AcceptWake, Early
  <2> QED
    BY <1>2, <2>1
<1>6. CASE FirstRead(q)
  <2>1. pc[q] \in Early /\ pc[q] = "read" /\ pc'[q] = "check"
    BY <1>6 DEF FirstRead, Goto, Early, TypeOK
  <2>2. CASE queue[q] = <<>>
    <3> DEFINE new == [srv[q] EXCEPT !.got = "none"]
    <3>1. srv'[q] = new
      BY <1>6, <2>2 DEF FirstRead, TypeOK
    <3>2. new.sid = srv[q].sid /\ new.got = "none" /\ new.port = srv[q].port /\ new.req = srv[q].req
      BY <1>0 DEF ServerStates
    <3>3. srv[q].got = "none"
      BY <2>1 DEF SInv, Server, Buffered
    <3> QED
      BY <1>2, <2>1, <3>1, <3>2, <3>3
  <2>3. CASE queue[q] # <<>>
    <3> DEFINE h == Head(queue[q])
               new == [srv[q] EXCEPT !.got = "data", !.req = h.body]
    <3>1. srv'[q] = new /\ h.kind = "request"
      BY <1>6, <2>3 DEF FirstRead, TypeOK
    <3>2. /\ new.sid = srv[q].sid /\ new.got = "data" /\ new.port = srv[q].port
          /\ new.req = h.body
      BY <1>0 DEF ServerStates
    <3>3. h \in Asks(p) /\ h.sid = srv[q].sid
      BY <1>0, <2>1, <2>3, <3>1, ReadOwn DEF Keyed
    <3>4. srv[q].got = "none"
      BY <2>1 DEF SInv, Server, Buffered
    <3>5. \A c : Hears(p, c)' => c = h.body
      BY <1>0, <3>1, <3>2 DEF Hears
    <3>6. Hears(p, h.body)
      BY <1>0, <2>1, <3>1, <3>3, <3>4 DEF Hears
    <3> QED
      BY <2>1, <3>1, <3>2, <3>5, <3>6
  <2> QED
    BY <2>2, <2>3
<1>7. CASE ReadClose(q)
  <2> DEFINE new == [srv[q] EXCEPT !.got = "closed"]
  <2>1. srv'[q] = new /\ pc'[q] = "reply" /\ pc[q] \in Early
    BY <1>7 DEF ReadClose, Goto, Reading, Early, TypeOK
  <2>2. new.sid = srv[q].sid /\ new.port = srv[q].port
    BY <1>0 DEF ServerStates
  <2>3. \A c : ~Hears(p, c)'
    BY <1>0, <2>1 DEF Hears, Early
  <2> QED
    BY <2>1, <2>2, <2>3
<1>8. CASE ReadRepeat(q)
  <2>1. UNCHANGED srv /\ pc[q] \in Early
    BY <1>8 DEF ReadRepeat, Reading, Early
  <2> QED
    BY <1>2, <2>1
<1>9. CASE React(q) \/ ReadAndReact(q)
  <2>1. \E req \in Payloads : Serve(q, req) /\ pc[q] = "check"
    <3>1. queue[q] # <<>> => Head(queue[q]).body \in Payloads
      BY QueueTypes DEF Datagrams
    <3> QED
      BY <1>0, <1>9, <3>1 DEF React, ReadAndReact
  <2>2. \A c : ~Hears(p, c)'
    BY <1>0, <1>3, <2>1 DEF Hears, Early
  <2> QED
    BY <1>3, <2>1, <2>2
<1>10. CASE CheckInterrupted(q)
  <2>1. pc[q] = "check" /\ pc[q] \in Early
    BY <1>10 DEF CheckInterrupted, Early
  <2>2. CASE Serve(q, srv[q].req)
    <3>1. \A c : ~Hears(p, c)'
      BY <1>0, <1>3, <2>1, <2>2 DEF Hears, Early
    <3> QED
      BY <1>0, <1>3, <2>1, <2>2, <3>1
  <2>3. CASE UNCHANGED srv /\ pc'[q] \in {"reply", "crashed"}
    <3>1. \A c : ~Hears(p, c)'
      BY <1>0, <2>3 DEF Hears, Early
    <3> QED
      BY <2>1, <2>3, <3>1
  <2> QED
    BY <1>10, <2>2, <2>3 DEF CheckInterrupted, Goto, TypeOK
<1>11. CASE Reply(q)
  <2>1. UNCHANGED srv /\ pc'[q] = "drain" /\ pc'[q] \notin Early \cup {"reply"}
    BY <1>11 DEF Reply, Goto, TypeOK, Early
  <2> QED
    BY <1>2, <2>1
<1>12. CASE Drain(q)
  <2> DEFINE new == [srv[q] EXCEPT !.got = "none", !.req = Blank]
  <2>1. srv'[q] = new /\ pc'[q] \in {"shell", "loop"} /\ pc'[q] \notin Early \cup {"reply"}
    BY <1>12 DEF Drain, Goto, TypeOK, Early
  <2>2. new.sid = srv[q].sid /\ new.port = srv[q].port
    BY <1>0 DEF ServerStates
  <2>3. \A c : ~Hears(p, c)'
    BY <1>0, <2>1 DEF Hears
  <2> QED
    BY <2>1, <2>2, <2>3
<1> QED
  BY <1>4, <1>5, <1>6, <1>7, <1>8, <1>9, <1>10, <1>11, <1>12 DEF Accept, Respond

LInvAt(p) == Typed(p) /\ OneRequest(p) /\ Unanswered(p) /\ Waiting(p)

LEMMA ServerLInv ==
  ASSUME IInv, SInv, LInv, NEW q \in Peers, Accept(q) \/ Respond(q)
  PROVE  LInv'
<1> DEFINE p == Other(q)
<1>0. p \in Peers /\ p # q /\ q = Other(p) /\ (\A r \in Peers : r = p \/ r = q)
      /\ LInvAt(p) /\ LInvAt(q)
  BY OtherOther DEF LInv, LInvAt
<1>1. /\ AsksStay(q) /\ TellsStay(q) /\ Asks(p)' \subseteq Asks(p)
      /\ pc[q] # "reply" => \A d \in News(p) : d.kind # "reply"
      /\ KeepsServer(p) /\ UNCHANGED <<cl, answers>> /\ pc'[q] \notin ClientPcs
      /\ pc[q] \in Early \cup {"reply", "drain"}
  BY ServerWords
<1>2. /\ srv'[q].sid = srv[q].sid /\ srv'[q].port = srv[q].port
      /\ pc'[q] \in Early \cup {"reply"} => pc[q] \in Early
      /\ \A c : Hears(p, c)' => Hears(p, c)
  BY ServerMoves
<1>3. LInvAt(p)'
  <2>1. pc'[p] = pc[p] /\ cl'[p] = cl[p]
    BY <1>1 DEF KeepsServer
  <2>2. Typed(p)'
    BY <1>0, <2>1 DEF LInvAt, Typed
  <2>3. OneRequest(p)'
    BY <1>0, <1>1 DEF LInvAt, OneRequest
  <2>4. Unanswered(p)'
    <3> SUFFICES ASSUME pc'[q] \in Early \cup {"reply"}, NEW d \in Tells(p)', d.kind = "reply"
                 PROVE  d.sid # srv'[q].sid
      BY <1>0 DEF Unanswered
    <3>1. pc[q] \in Early /\ pc[q] # "reply"
      BY <1>2 DEF Early
    <3>2. d \in Tells(p)
      BY <1>1, <3>1 DEF News
    <3> QED
      BY <1>0, <1>2, <3>1, <3>2 DEF LInvAt, Unanswered
  <2>5. Waiting(p)'
    BY <1>0, <1>2, <2>1 DEF LInvAt, Waiting
  <2> QED
    BY <2>2, <2>3, <2>4, <2>5 DEF LInvAt
<1>4. LInvAt(q)'
  <2>1. Typed(q)'
    BY <1>1 DEF Typed
  <2>2. OneRequest(q)'
    BY <1>0, <1>1 DEF LInvAt, OneRequest, AsksStay
  <2>3. Unanswered(q)'
    BY <1>0, <1>1 DEF LInvAt, Unanswered, TellsStay, KeepsServer
  <2>4. Waiting(q)'
    <3>1. \A c : Hears(q, c)' => Hears(q, c)
      BY <1>1 DEF Hears, AsksStay, KeepsServer
    <3>2. pc[q] # "await"
      BY <1>1 DEF Early
    <3> QED
      BY <1>0, <3>1, <3>2 DEF LInvAt, Waiting
  <2> QED
    BY <2>1, <2>2, <2>3, <2>4 DEF LInvAt
<1> QED
  BY <1>0, <1>3, <1>4 DEF LInv, LInvAt

\* A client keeps its port and its command, and waits until its reply comes.
LEMMA ClientKeeps ==
  ASSUME IInv, SInv, LInv, NEW p \in Peers, NEW q, q = Other(p), Client(p)
  PROVE  /\ cl'[p].port = cl[p].port /\ cl'[p].cmd = cl[p].cmd
         /\ pc[p] = "await" => pc'[p] = "await" \/ Await(p)
         /\ \A c : Await(p) /\ Hears(p, c) => cl[p].port # srv[q].port
         /\ pc[p] = "write" => pc'[p] = IF cl[p].cmd.op = "SEND" THEN "bye" ELSE "await"
<1> USE DEF IInv
<1>0. cl[p] \in ClientStates
  BY DEF TypeOK
<1>1. cl'[p].port = cl[p].port /\ cl'[p].cmd = cl[p].cmd
  <2>1. CASE ConnectOffer(p)
    <3> DEFINE new == [cl[p] EXCEPT !.sid = Head(answers[p]).sid, !.stage = 2, !.retries = 0]
    <3>1. cl'[p] = new
      BY <2>1 DEF ConnectOffer, TypeOK
    <3>2. new.port = cl[p].port /\ new.cmd = cl[p].cmd
      BY <1>0 DEF ClientStates
    <3> QED
      BY <3>1, <3>2
  <2>2. CASE ConnectRetry(p)
    <3> DEFINE new == [cl[p] EXCEPT !.retries = cl[p].retries + 1]
    <3>1. cl'[p] = new
      BY <2>2 DEF ConnectRetry, TypeOK
    <3>2. new.port = cl[p].port /\ new.cmd = cl[p].cmd
      BY <1>0 DEF ClientStates
    <3> QED
      BY <3>1, <3>2
  <2> QED
    BY <2>1, <2>2 DEF Client, ConnectFinished, ClientRepeat, ClientDrop, ConnectGiveUp, Write,
       Await, Bye
<1>2. pc[p] = "await" => pc'[p] = "await" \/ Await(p)
  BY DEF Client, ConnectOffer, ConnectFinished, ClientRepeat, ClientDrop, ConnectRetry,
     ConnectGiveUp, TimerFires, Write, Bye
<1>3. ASSUME NEW c, Await(p), Hears(p, c) PROVE cl[p].port # srv[q].port
  <2>1. pc[p] \in ClientPcs /\ answers[p] # <<>> /\ Head(answers[p]).kind = "reply"
    BY <1>3 DEF Await, ClientPcs
  <2>2. Head(answers[p]) \in Tells(p) /\ Head(answers[p]).port = cl[p].port
    BY <2>1, HeadTold DEF SInv, Pair
  <2> QED
    BY <1>3, <2>1, <2>2, Apart
<1>4. pc[p] = "write" => pc'[p] = IF cl[p].cmd.op = "SEND" THEN "bye" ELSE "await"
  <2>1. pc[p] = "write" => Write(p)
    BY DEF Client, ConnectOffer, ConnectFinished, ClientRepeat, ClientDrop, ConnectRetry,
       ConnectGiveUp, TimerFires, Write, Await, Bye
  <2> QED
    BY <2>1 DEF Write, Goto, TypeOK
<1> QED
  BY <1>1, <1>2, <1>3, <1>4

LEMMA ClientLInv ==
  ASSUME IInv, SInv, LInv, NEW p \in Peers, Client(p)
  PROVE  LInv'
<1> DEFINE q == Other(p)
<1>0. q \in Peers /\ p # q /\ p = Other(q) /\ (\A r \in Peers : r = p \/ r = q)
      /\ LInvAt(p) /\ LInvAt(q)
  BY OtherOther DEF LInv, LInvAt
<1>1. /\ AsksStay(q) /\ TellsStay(q) /\ Tells(p)' \subseteq Tells(p)
      /\ \A d \in Records(p) : d.kind = "request" =>
           /\ pc[p] = "write" /\ d.body = cl[p].cmd /\ d.port = cl[p].port /\ d.sid = cl[p].sid
      /\ KeepsClient(q) /\ KeepsServer(q)
      /\ pc[p] \in ClientPcs /\ pc'[p] \in ClientPcs \cup {"select", "loop", "crashed"}
  BY ClientWords
<1>2. /\ cl'[p].port = cl[p].port /\ cl'[p].cmd = cl[p].cmd
      /\ pc[p] = "await" => pc'[p] = "await" \/ Await(p)
      /\ \A c : Await(p) /\ Hears(p, c) => cl[p].port # srv[q].port
      /\ pc[p] = "write" => pc'[p] = IF cl[p].cmd.op = "SEND" THEN "bye" ELSE "await"
  BY ClientKeeps
<1>3. LInvAt(q)'
  <2>1. pc'[p] \notin Early \cup {"reply"}
    BY <1>1 DEF Early, ClientPcs
  <2>2. Typed(q)'
    BY <1>0, <1>1 DEF LInvAt, Typed, KeepsClient
  <2>3. OneRequest(q)'
    BY <1>0, <1>1 DEF LInvAt, OneRequest, AsksStay
  <2>4. Unanswered(q)' /\ Waiting(q)'
    BY <1>0, <2>1 DEF Unanswered, Waiting, Hears
  <2> QED
    BY <2>2, <2>3, <2>4 DEF LInvAt
<1>4. LInvAt(p)'
  <2>1. Typed(p)'
    BY <1>0, <1>1, <1>2 DEF LInvAt, Typed
  <2>2. OneRequest(p)'
    <3>1. \A d \in Asks(p) : d.kind = "request" /\ d.port = cl[p].port => pc[p] # "write"
      BY DEF SInv, Pair, Dialogue, Matched, Written
    <3> QED
      BY <1>0, <1>1, <3>1 DEF LInvAt, OneRequest, Records
  <2>3. Unanswered(p)'
    BY <1>0, <1>1 DEF LInvAt, Unanswered, KeepsServer
  <2>4. Waiting(p)'
    <3> SUFFICES ASSUME NEW c, Hears(p, c)', c.op # "SEND"
                 PROVE  pc'[p] = "await" /\ cl'[p].port = srv'[q].port
      BY DEF Waiting
    <3>1. srv'[q] = srv[q] /\ pc'[q] = pc[q]
      BY <1>1 DEF KeepsServer
    <3>2. CASE Hears(p, c)
      <4>1. pc[p] = "await" /\ cl[p].port = srv[q].port
        BY <1>0, <3>2 DEF LInvAt, Waiting
      <4> QED
        BY <1>2, <3>1, <3>2, <4>1
    <3>3. CASE ~Hears(p, c)
      <4>1. /\ pc[q] \in Early /\ srv[q].got # "data"
            /\ \E d \in Records(p) : d.kind = "request" /\ d.sid = srv[q].sid /\ c = d.body
        BY <3>1, <3>3 DEF Hears, Records
      <4>2. pc[p] = "write" /\ c = cl[p].cmd /\ cl[p].sid = srv[q].sid
        BY <1>1, <4>1
      <4>3. pc[q] \in Serving /\ OnePort(p)
        BY <4>1 DEF SInv, Pair, Session, Early, Serving, ServerPcs
      <4>4. cl[p].port = srv[q].port
        BY <4>2, <4>3 DEF OnePort
      <4> QED
        BY <1>2, <3>1, <4>2, <4>4
    <3> QED
      BY <3>2, <3>3
  <2> QED
    BY <2>1, <2>2, <2>3, <2>4 DEF LInvAt
<1> QED
  BY <1>0, <1>3, <1>4 DEF LInv, LInvAt

\* Between two sessions p hears nothing, and the other peer notices at most a hello.
LEMMA IdleLInv ==
  ASSUME SInv, LInv, NEW p \in Peers, NEW q, q = Other(p),
         pc[p] # "await", \A c : ~Hears(q, c)',
         pc'[p] \in ClientPcs => cl'[p].cmd \in Script[p] \cup {[op |-> "REFILL", n |-> 0]},
         \A d \in Records(p) : d.kind # "request",
         Tells(p)' \subseteq Tells(p), Asks(q)' \subseteq Asks(q), Tells(q)' \subseteq Tells(q),
         pc'[p] \in Early \cup {"reply"} => \A d \in Tells(q) : d.sid # srv'[p].sid,
         pc'[q] = pc[q], cl'[q] = cl[q], srv'[q] = srv[q]
  PROVE  LInv'
<1>0. q \in Peers /\ p # q /\ p = Other(q) /\ (\A r \in Peers : r = p \/ r = q)
      /\ LInvAt(p) /\ LInvAt(q)
  BY OtherOther DEF LInv, LInvAt
<1>1. LInvAt(q)'
  <2>1. Typed(q)'
    BY <1>0 DEF LInvAt, Typed
  <2>2. OneRequest(q)'
    BY <1>0 DEF LInvAt, OneRequest
  <2>3. Unanswered(q)'
    BY <1>0 DEF Unanswered
  <2>4. Waiting(q)'
    BY DEF Waiting
  <2> QED
    BY <2>1, <2>2, <2>3, <2>4 DEF LInvAt
<1>2. LInvAt(p)'
  <2>1. Typed(p)'
    BY DEF Typed
  <2>2. OneRequest(p)'
    BY <1>0 DEF LInvAt, OneRequest, Records
  <2>3. Unanswered(p)'
    BY <1>0 DEF LInvAt, Unanswered
  <2>4. Waiting(p)'
    <3>1. \A c : Hears(p, c)' => Hears(p, c)
      BY <1>0 DEF Hears, Records
    <3> QED
      BY <1>0, <3>1 DEF LInvAt, Waiting
  <2> QED
    BY <2>1, <2>2, <2>3, <2>4 DEF LInvAt
<1> QED
  BY <1>0, <1>1, <1>2 DEF LInv, LInvAt

\* Opening a session, p sends nothing but a hello, and knows what for.
LEMMA BeginWords ==
  ASSUME IInv, SInv, NEW p \in Peers, NEW q, q = Other(p), NEW cmd \in Payloads,
         cmd.op \in Commands, NEW refill \in BOOLEAN, BeginSession(p, cmd, refill),
         pc[p] \in {"loop", "shell"}, UNCHANGED <<answers, late>>,
         CloseListener(p) \/ UNCHANGED queue, KeepsServer(q)
  PROVE  /\ Asks(p) \subseteq Asks(p)' /\ TellsStay(p) /\ TellsStay(q)
         /\ Asks(q)' \subseteq Asks(q) /\ \A d \in Records(p) : d.kind = "hello"
         /\ cl'[q] = cl[q] /\ pc'[q] = pc[q] /\ pc'[p] = "connect" /\ cl'[p].cmd = cmd
         /\ cl'[p].port = cl[p].port + 1 /\ cl'[p].port \in Ports
<1> USE DEF IInv
<1> DEFINE port == cl[p].port + 1
           d == Flight("hello", port, 0)
<1>0. q \in Peers /\ p # q /\ p = Other(q) /\ cl[p] \in ClientStates /\ Measured(p)
  BY OtherOther, Measures DEF TypeOK
<1>1. Shrinks(queue, queue')
  BY QueueShrinks
<1>2. /\ pc'[p] = "connect" /\ pc'[q] = pc[q] /\ cl'[q] = cl[q] /\ cl'[p].cmd = cmd
      /\ \A e \in Records(p) : e.kind = "hello"
      /\ Asks(q)' \subseteq Asks(q) /\ Tells(q)' \subseteq Tells(q)
  BY <1>1, BeginPair
<1>3. port \in Ports
  BY <1>0, BoundsAssumption DEF BeginSession, Ports, Measured
<1>4. d \in Datagrams(ToListener \cup ToClient)
  BY <1>3, DatagramTypes DEF ToListener
<1>5. Send(p, d) /\ cl'[p].port = port
  BY <1>0 DEF BeginSession, TypeOK
<1>6. InTransit(q)' = InTransit(q) /\ InTransit(p) \subseteq InTransit(p)'
  BY <1>4, <1>5, TransitGrows
<1>7. Asks(p) \subseteq Asks(p)' /\ Tells(p)' = Tells(p) /\ Tells(q) \subseteq Tells(q)'
  BY <1>0, <1>6 DEF Asks, Tells, KeepsServer
<1> QED
  BY <1>2, <1>3, <1>5, <1>7 DEF TellsStay

\* A session is opened for a command of the user, or to refill.
LEMMA BeginFacts ==
  ASSUME IInv, NEW p \in Peers, NEW q, q = Other(p), OpenAndRefill(p) \/ ShellSend(p) \/ ShellAsk(p)
  PROVE  /\ pc[p] \in {"loop", "shell"} /\ UNCHANGED <<answers, late>> /\ KeepsServer(q)
         /\ CloseListener(p) \/ UNCHANGED queue
         /\ \E cmd \in Payloads, refill \in BOOLEAN :
              /\ BeginSession(p, cmd, refill) /\ cmd.op \in Commands
              /\ cmd \in Script[p] \cup {[op |-> "REFILL", n |-> 0]}
              /\ cmd.op = "SEND" => cmd.n <= inv[p] /\ inv' = [inv EXCEPT ![p] = @ - cmd.n]
              /\ cmd.op # "SEND" => UNCHANGED inv
<1> USE DEF IInv
<1>0. q \in Peers /\ p # q
  BY OtherOther
<1>1. /\ pc[p] \in {"loop", "shell"} /\ UNCHANGED <<cleanup, answers, late>>
      /\ CloseListener(p) \/ UNCHANGED queue
      /\ FreshSocket(p) \/ UNCHANGED srv
  BY DEF OpenAndRefill, FreshSocket, CloseListener, ShellSend, ShellAsk, env
<1>2. CASE OpenAndRefill(p)
  <2>1. BeginSession(p, [op |-> "REFILL", n |-> 0], TRUE) /\ UNCHANGED inv
    BY <1>2 DEF OpenAndRefill
  <2>2. pc'[q] = pc[q]
    BY <1>0, <2>1 DEF BeginSession, Goto, TypeOK
  <2>3. KeepsServer(q)
    BY <1>0, <1>1, <2>2, FreshServer DEF KeepsServer, CloseListener, TypeOK
  <2> QED
    BY <1>1, <2>1, <2>3, RefillIsPayload DEF Commands
<1>3. CASE ShellSend(p) \/ ShellAsk(p)
  <2>1. PICK c \in Script[p] :
          /\ BeginSession(p, c, FALSE)
          /\ c.op = "SEND" => c.n <= inv[p] /\ inv' = [inv EXCEPT ![p] = @ - c.n]
          /\ c.op # "SEND" => UNCHANGED inv
    BY <1>3 DEF ShellSend, ShellAsk
  <2>2. c \in Payloads /\ c.op \in Commands
    BY ScriptTypes, ScriptAssumption
  <2>3. pc'[q] = pc[q]
    BY <1>0, <2>1 DEF BeginSession, Goto, TypeOK
  <2>4. KeepsServer(q)
    BY <1>0, <1>1, <2>3, FreshServer DEF KeepsServer, CloseListener, TypeOK
  <2> QED
    BY <1>1, <2>1, <2>2, <2>4
<1> QED
  BY <1>2, <1>3

\* Otherwise main and the shell say nothing, and hear nothing in a session they start.
LEMMA RestWords ==
  ASSUME IInv, SInv, NEW p \in Peers, NEW q, q = Other(p),
         \/ Halt(p) \/ OpenAndSelect(p) \/ Peek(p) \/ ReadStdin(p) \/ ShellIdle(p) \/ ShellExit(p)
  PROVE  /\ pc[p] \in {"loop", "shell", "select"}
         /\ pc'[p] \in {"loop", "shell", "select", "stopped", "crashed", "accept"}
         /\ UNCHANGED <<inv, cl>> /\ pc'[q] = pc[q] /\ srv'[q] = srv[q]
         /\ AsksStay(p) /\ TellsStay(p) /\ TellsStay(q) /\ Asks(q)' \subseteq Asks(q)
         /\ pc'[p] = "accept" =>
              srv'[p].got = "none" /\ \A d \in Asks(q) \cup Tells(q) : d.sid # srv'[p].sid
<1> USE DEF IInv
<1>0. /\ q \in Peers /\ p # q /\ p = Other(q) /\ srv[p] \in ServerStates /\ Pair(q) /\ Buffered(p)
  BY OtherOther DEF TypeOK, SInv, Server
<1>1. /\ pc[p] \in {"loop", "shell", "select"}
      /\ pc'[p] \in {"loop", "shell", "select", "stopped", "crashed", "accept"}
      /\ UNCHANGED <<inv, cl, answers, wire, late>> /\ pc'[q] = pc[q]
  BY <1>0 DEF Halt, OpenAndSelect, Peek, ReadStdin, ShellIdle, ShellExit, Goto, env, TypeOK
<1>2. CloseListener(p) \/ UNCHANGED queue
  BY DEF Halt, OpenAndSelect, FreshSocket, CloseListener, Peek, ReadStdin, ShellIdle, ShellExit
<1>3. ASSUME Peek(p), ~cleanup[p]
      PROVE  /\ srv'[q] = srv[q] /\ srv'[p].got = "none"
             /\ \A d \in Asks(q) \cup Tells(q) : d.sid # srv'[p].sid
  <2>1. PICK ready \in BOOLEAN :
          srv' = [srv EXCEPT ![p] = [@ EXCEPT !.port = Head(queue[p]).port,
                     !.sid = srv[p].sid + 1, !.stage = 0, !.stdin = ready]]
    BY <1>3 DEF Peek
  <2> DEFINE new == [srv[p] EXCEPT !.port = Head(queue[p]).port,
                     !.sid = srv[p].sid + 1, !.stage = 0, !.stdin = ready]
  <2>2. srv'[p] = new /\ srv'[q] = srv[q]
    BY <1>0, <2>1 DEF TypeOK
  <2>3. new.sid = srv[p].sid + 1 /\ new.got = srv[p].got
    BY <1>0 DEF ServerStates
  <2>4. srv[p].got = "none"
    BY <1>0, <1>1 DEF Buffered
  <2>5. \A d \in Asks(q) \cup Tells(q) : d.sid # srv'[p].sid
    <3>1. /\ \A d \in Asks(q) \cup Tells(q) : d.sid \in Nat /\ d.sid <= srv[p].sid
          /\ srv[p].sid \in Nat
      BY <1>0, Measures DEF Measured, Pair, Session, Numbered
    <3> QED
      BY <2>2, <2>3, <3>1
  <2> QED
    BY <2>2, <2>3, <2>4, <2>5
<1>4. ASSUME ~(Peek(p) /\ ~cleanup[p])
      PROVE  srv'[q] = srv[q] /\ pc'[p] # "accept"
  <2>1. FreshSocket(p) \/ UNCHANGED srv
    BY <1>4 DEF Halt, OpenAndSelect, Peek, ReadStdin, ShellIdle, ShellExit
  <2>2. pc'[p] # "accept"
    BY <1>0, <1>4 DEF Halt, OpenAndSelect, Peek, ReadStdin, ShellIdle, ShellExit, Goto, TypeOK
  <2> QED
    BY <1>0, <2>1, <2>2, FreshServer
<1>5. AsksStay(p) /\ TellsStay(p) /\ TellsStay(q) /\ Asks(q)' \subseteq Asks(q)
  <2>1. queue'[q] = queue[q]
    BY <1>0, <1>2 DEF CloseListener, TypeOK
  <2>2. Range(queue'[p]) \subseteq Range(queue[p])
    BY <1>2, QueueShrinks DEF Shrinks
  <2> QED
    BY <1>0, <1>1, <2>1, <2>2 DEF AsksStay, TellsStay, Asks, Tells, InTransit
<1>6. /\ srv'[q] = srv[q]
      /\ pc'[p] = "accept" =>
           srv'[p].got = "none" /\ \A d \in Asks(q) \cup Tells(q) : d.sid # srv'[p].sid
  <2>1. CASE Peek(p) /\ ~cleanup[p]
    BY <1>3, <2>1
  <2>2. CASE ~(Peek(p) /\ ~cleanup[p])
    BY <1>4, <2>2
  <2> QED
    BY <2>1, <2>2
<1> QED
  BY <1>1, <1>5, <1>6

LEMMA MainLInv ==
  ASSUME IInv, SInv, LInv, NEW p \in Peers, Main(p) \/ User(p)
  PROVE  LInv'
<1> DEFINE q == Other(p)
           Rests == \/ Halt(p) \/ OpenAndSelect(p) \/ Peek(p) \/ ReadStdin(p) \/ ShellIdle(p)
                    \/ ShellExit(p)
           Begins == OpenAndRefill(p) \/ ShellSend(p) \/ ShellAsk(p)
<1>0. q \in Peers /\ p = Other(q)
  BY OtherOther
<1>1. CASE Rests
  <2>1. /\ pc[p] \in {"loop", "shell", "select"}
        /\ pc'[p] \in {"loop", "shell", "select", "stopped", "crashed", "accept"}
        /\ UNCHANGED cl /\ pc'[q] = pc[q] /\ srv'[q] = srv[q]
        /\ AsksStay(p) /\ TellsStay(p) /\ TellsStay(q) /\ Asks(q)' \subseteq Asks(q)
        /\ pc'[p] = "accept" =>
             srv'[p].got = "none" /\ \A d \in Asks(q) \cup Tells(q) : d.sid # srv'[p].sid
    BY <1>1, RestWords
  <2>2. \A c : ~Hears(q, c)'
    BY <1>0, <2>1 DEF Hears, Early
  <2>3. pc'[p] \notin ClientPcs
    BY <2>1 DEF ClientPcs
  <2>4. Records(p) = {} /\ Tells(p)' \subseteq Tells(p) /\ Tells(q)' \subseteq Tells(q)
    BY <2>1 DEF Records, AsksStay, TellsStay
  <2>5. pc'[p] \in Early \cup {"reply"} => \A d \in Tells(q) : d.sid # srv'[p].sid
    BY <2>1 DEF Early
  <2> QED
    BY <2>1, <2>2, <2>3, <2>4, <2>5, IdleLInv
<1>2. CASE Begins
  <2>1. /\ pc[p] \in {"loop", "shell"} /\ UNCHANGED <<answers, late>> /\ KeepsServer(q)
        /\ CloseListener(p) \/ UNCHANGED queue
    BY <1>2, BeginFacts
  <2>2. PICK cmd \in Payloads, refill \in BOOLEAN :
          /\ BeginSession(p, cmd, refill) /\ cmd.op \in Commands
          /\ cmd \in Script[p] \cup {[op |-> "REFILL", n |-> 0]}
    BY <1>2, BeginFacts
  <2>3. /\ TellsStay(p) /\ TellsStay(q) /\ Asks(q)' \subseteq Asks(q)
        /\ \A d \in Records(p) : d.kind = "hello"
        /\ cl'[q] = cl[q] /\ pc'[q] = pc[q] /\ pc'[p] = "connect" /\ cl'[p].cmd = cmd
    BY <2>1, <2>2, BeginWords
  <2>4. /\ \A c : ~Hears(q, c)'
        /\ pc'[p] \notin Early \cup {"reply"}
    BY <1>0, <2>3 DEF Hears, Early
  <2>5. Tells(p)' \subseteq Tells(p) /\ Tells(q)' \subseteq Tells(q) /\ srv'[q] = srv[q]
    BY <2>1, <2>3 DEF TellsStay, KeepsServer
  <2> QED
    BY <2>1, <2>2, <2>3, <2>4, <2>5, IdleLInv
<1> QED
  BY <1>1, <1>2 DEF Main, User

\* SIGINT and the network put nothing on its way, and end at most a place that waits.
Subdued == \A r \in Peers : pc'[r] = pc[r] \/ (pc'[r] \in {"loop", "select"} /\ pc[r] # "await")

LEMMA SilentLInv ==
  ASSUME LInv, Silent, UNCHANGED <<srv, cl>>, Subdued
  PROVE  LInv'
<1> SUFFICES ASSUME NEW p \in Peers PROVE LInvAt(p)'
  BY DEF LInv, LInvAt
<1> DEFINE q == Other(p)
<1>0. /\ q \in Peers /\ LInvAt(p) /\ Asks(p)' \subseteq Asks(p) /\ Tells(p)' \subseteq Tells(p)
      /\ pc'[p] = pc[p] \/ (pc'[p] \in {"loop", "select"} /\ pc[p] # "await")
      /\ pc'[q] = pc[q] \/ pc'[q] \in {"loop", "select"}
  BY OtherIsPeer DEF LInv, LInvAt, Silent, Subdued
<1>1. Typed(p)'
  BY <1>0 DEF LInvAt, Typed, ClientPcs
<1>2. OneRequest(p)'
  BY <1>0 DEF LInvAt, OneRequest
<1>3. Unanswered(p)'
  BY <1>0 DEF LInvAt, Unanswered, Early
<1>4. \A c : Hears(p, c)' => Hears(p, c)
  BY <1>0 DEF Hears, Early
<1>5. Waiting(p)'
  BY <1>0, <1>4 DEF LInvAt, Waiting
<1> QED
  BY <1>1, <1>2, <1>3, <1>5 DEF LInvAt

LEMMA SignalWords ==
  ASSUME IInv, NEW p \in Peers, Signal(p)
  PROVE  /\ Silent /\ UNCHANGED <<inv, srv, cl, queue, wire, late>> /\ Subdued
         /\ pc'[Other(p)] = pc[Other(p)] /\ answers'[Other(p)] = answers[Other(p)]
         /\ \/ UNCHANGED <<pc, answers>>
            \/ pc[p] \in {"select", "acceptWait"} /\ pc'[p] = "loop" /\ UNCHANGED answers
            \/ pc[p] = "connect" /\ pc'[p] \in {"loop", "select"}
<1>1. /\ UNCHANGED <<inv, srv, cl, queue, wire, late>>
      /\ UNCHANGED answers \/ EndSession(p)
  BY DEF Signal
<1>2. Shrinks(queue, queue') /\ Shrinks(answers, answers')
  BY <1>1, QueueShrinks, AnswersShrink DEF IInv
<1>3. Silent
  BY <1>1, <1>2, SilentStep
<1>4. /\ pc'[Other(p)] = pc[Other(p)] /\ answers'[Other(p)] = answers[Other(p)]
      /\ \/ UNCHANGED <<pc, answers>>
         \/ pc[p] \in {"select", "acceptWait"} /\ pc'[p] = "loop" /\ UNCHANGED answers
         \/ pc[p] = "connect" /\ pc'[p] \in {"loop", "select"}
  BY OtherOther DEF Signal, EndSession, Goto, IInv, TypeOK
<1>5. Subdued
  BY <1>4, OtherOther DEF Subdued
<1> QED
  BY <1>1, <1>3, <1>4, <1>5

LEMMA InitLInv == Init => LInv
<1> SUFFICES ASSUME Init, NEW p \in Peers PROVE LInvAt(p)
  BY DEF LInv, LInvAt
<1> DEFINE q == Other(p)
<1>1. q \in Peers
  BY OtherIsPeer
<1>2. \A r \in Peers : /\ pc[r] = "loop" /\ queue[r] = <<>> /\ answers[r] = <<>>
                       /\ wire[r] = <<>> /\ late[r] = {}
  BY DEF Init
<1>3. Asks(p) = {} /\ Tells(p) = {}
  BY <1>1, <1>2, RangeEmpty DEF Asks, Tells, InTransit
<1>4. pc[p] = "loop" /\ pc[q] = "loop"
  BY <1>1, <1>2
<1> QED
  BY <1>3, <1>4 DEF LInvAt, Typed, OneRequest, Unanswered, Waiting, Hears, Early, ClientPcs

LEMMA NextLInv == IInv /\ SInv /\ LInv /\ [Next]_vars => LInv'
<1> SUFFICES ASSUME IInv, SInv, LInv, [Next]_vars PROVE LInv'
  OBVIOUS
<1>1. CASE UNCHANGED vars
  <2>1. UNCHANGED <<pc, srv, cl, queue, answers, wire, late>>
    BY <1>1 DEF vars, procVars, env
  <2>2. Silent
    BY <2>1, OtherIsPeer DEF Silent, Asks, Tells, InTransit
  <2> QED
    BY <2>1, <2>2, SilentLInv DEF Subdued
<1>2. ASSUME NEW p \in Peers, Signal(p) PROVE LInv'
  BY <1>2, SignalWords, SilentLInv
<1>3. ASSUME NEW p \in Peers, Network(p) PROVE LInv'
  <2>1. Silent /\ UNCHANGED <<pc, srv, cl>>
    BY <1>3, NetworkFetches DEF Fetches
  <2> QED
    BY <2>1, SilentLInv DEF Subdued
<1> QED
  BY <1>1, <1>2, <1>3, MainLInv, ServerLInv, ClientLInv DEF Next

-----------------------------------------------------------------------------
(* The ledger, step by step: sessions that a step leaves alone.            *)

\* p has no session open, and neither its last requests nor their server change.
LEMMA AskerHolds ==
  ASSUME NEW p \in Peers, NEW q, q = Other(p), Outcomes(p), Outcomes(p)',
         pc[p] \notin {"connect", "write", "await"}, pc'[p] \notin {"connect", "write", "await"},
         cl'[p] = cl[p], srv'[q] = srv[q], pc'[q] = pc[q], AsksStay(p)
  PROVE  Holds(p)
<1>1. \A c : Hears(p, c)' <=> Hears(p, c)
  BY DEF Hears, AsksStay
<1>2. \A k, c : Command(p, k, c)' <=> Command(p, k, c)
  BY <1>1 DEF Command, Unsaid
<1>3. \A k, b : Answer(p, k, b)' <=> Answer(p, k, b)
  BY DEF Answer, Grants
<1> QED
  BY <1>2, <1>3, HoldsForm

\* p's server serves nobody, and neither p nor what it is told changes.
LEMMA UnservedHolds ==
  ASSUME NEW p \in Peers, NEW q, q = Other(p), Outcomes(p), Outcomes(p)',
         \A c : ~Hears(p, c), \A c : ~Hears(p, c)', pc[q] # "reply", pc'[q] # "reply",
         cl'[p] = cl[p], pc'[p] = pc[p], TellsStay(p)
  PROVE  Holds(p)
<1>1. \A k, c : Command(p, k, c)' <=> Command(p, k, c)
  BY DEF Command, Unsaid
<1>2. \A k, b : Answer(p, k, b)' <=> Answer(p, k, b)
  BY DEF Answer, Grants, Offers, TellsStay
<1> QED
  BY <1>1, <1>2, HoldsForm

\* Neither side of p's sessions changes.
LEMMA StillHolds ==
  ASSUME NEW p \in Peers, NEW q, q = Other(p), Outcomes(p), Outcomes(p)',
         cl'[p] = cl[p], pc'[p] = pc[p], srv'[q] = srv[q], pc'[q] = pc[q],
         AsksStay(p), TellsStay(p)
  PROVE  Holds(p)
<1>1. \A k, c : Command(p, k, c)' <=> Command(p, k, c)
  BY DEF Command, Unsaid, Hears, AsksStay
<1>2. \A k, b : Answer(p, k, b)' <=> Answer(p, k, b)
  BY DEF Answer, Grants, Offers, TellsStay
<1> QED
  BY <1>1, <1>2, HoldsForm

-----------------------------------------------------------------------------
(* The environment loses what one exchange has on its way, or nothing.     *)

\* What one peer is sent gets lost: the requests of p's sessions ...
LEMMA AsksFade ==
  ASSUME NEW p \in Peers, NEW q, q = Other(p), Outcomes(p), Outcomes(p)', Silent, Subdued,
         UNCHANGED <<srv, cl>>, pc'[p] = pc[p], TellsStay(p), pc'[q] = pc[q] \/ pc[q] # "reply"
  PROVE  Fades(p, srv[q].port)
<1>0. /\ q \in Peers /\ Asks(p)' \subseteq Asks(p)
      /\ pc'[q] = pc[q] \/ pc'[q] \in {"loop", "select"}
  BY OtherIsPeer DEF Silent, Subdued
<1>1. \A c : Hears(p, c)' => Hears(p, c)
  BY <1>0 DEF Hears, Early
<1>2. \A k, c : Command(p, k, c)' => Command(p, k, c)
  BY <1>1 DEF Command, Unsaid
<1>3. \A k, c : k # srv[q].port => (Command(p, k, c) => Command(p, k, c)')
  BY DEF Command, Unsaid
<1>4. \A k, b : Answer(p, k, b)' <=> Answer(p, k, b)
  BY <1>0 DEF Answer, Grants, Offers, TellsStay
<1> QED
  BY <1>2, <1>3, <1>4, FadesForm

\* ... or the answers to its last one, or that session itself.
LEMMA TellsFade ==
  ASSUME NEW p \in Peers, NEW q, q = Other(p), Outcomes(p), Outcomes(p)', Silent, Subdued,
         UNCHANGED <<srv, cl>>, pc'[q] = pc[q], AsksStay(p)
  PROVE  Fades(p, cl[p].port)
<1>0. /\ Tells(p)' \subseteq Tells(p)
      /\ pc'[p] = pc[p] \/ (pc'[p] \in {"loop", "select"} /\ pc[p] # "await")
  BY DEF Silent, Subdued
<1>1. \A c : Hears(p, c)' <=> Hears(p, c)
  BY DEF Hears, AsksStay
<1>2. \A k, c : Command(p, k, c)' => Command(p, k, c)
  BY <1>0, <1>1 DEF Command, Unsaid
<1>3. \A k, c : k # cl[p].port => (Command(p, k, c) => Command(p, k, c)')
  BY <1>1 DEF Command
<1>4. \A k, b : Answer(p, k, b)' => Answer(p, k, b)
  BY <1>0 DEF Answer, Grants, Offers
<1>5. \A k, b : k # cl[p].port => (Answer(p, k, b) => Answer(p, k, b)')
  BY DEF Answer
<1> QED
  BY <1>2, <1>3, <1>4, <1>5, FadesForm

LEMMA SignalLedger ==
  ASSUME IInv, SInv, LInv, AllOutcomes, AllOutcomes', NEW p \in Peers, Signal(p)
  PROVE  Ledgers
<1> DEFINE q == Other(p)
<1>0. /\ q \in Peers /\ p = Other(q) /\ Outcomes(p) /\ Outcomes(p)' /\ Outcomes(q) /\ Outcomes(q)'
      /\ \A r \in Peers : r = p \/ r = q
  BY OtherOther DEF AllOutcomes
<1>1. /\ Silent /\ UNCHANGED <<inv, srv, cl, queue, wire, late>> /\ Subdued
      /\ pc'[q] = pc[q] /\ answers'[q] = answers[q]
  BY SignalWords
<1>2. AsksStay(p) /\ AsksStay(q) /\ TellsStay(q)
  BY <1>0, <1>1 DEF AsksStay, TellsStay, Asks, Tells, InTransit
<1>3. CASE UNCHANGED <<pc, answers>>
  <2>1. TellsStay(p)
    BY <1>1, <1>3 DEF TellsStay, Tells, InTransit
  <2>2. Holds(p)
    BY <1>0, <1>1, <1>2, <1>3, <2>1, StillHolds
  <2>3. Holds(q)
    BY <1>0, <1>1, <1>2, <1>3, StillHolds
  <2> QED
    BY <1>0, <1>1, <2>2, <2>3, LedgerRests
<1>4. CASE pc[p] \in {"select", "acceptWait"} /\ pc'[p] = "loop"
  <2>1. Fades(q, srv[p].port)
    BY <1>0, <1>1, <1>2, <1>4, AsksFade
  <2>2. Holds(p)
    BY <1>0, <1>1, <1>2, <1>4, AskerHolds
  <2> QED
    BY <1>0, <1>1, <2>1, <2>2, LedgerFades
<1>5. CASE pc[p] = "connect" /\ pc'[p] \in {"loop", "select"}
  <2>1. Fades(p, cl[p].port)
    BY <1>0, <1>1, <1>2, TellsFade
  <2>2. \A c : ~Hears(q, c) /\ ~Hears(q, c)'
    BY <1>0, <1>5 DEF Hears, Early
  <2>3. Holds(q)
    BY <1>0, <1>1, <1>2, <1>5, <2>2, UnservedHolds
  <2> QED
    BY <1>0, <1>1, <2>1, <2>3, LedgerFades
<1> QED
  BY <1>3, <1>4, <1>5, SignalWords

\* The network holds one datagram less, at most: a request or an answer.
LEMMA NetworkWords ==
  ASSUME IInv, NEW p \in Peers, NEW q, q = Other(p), Network(p)
  PROVE  /\ UNCHANGED inv /\ AsksStay(q) /\ TellsStay(p)
         /\ AsksStay(p) \/ TellsStay(q)
<1> USE DEF IInv
<1> DEFINE D == Datagrams(ToListener \cup ToClient)
<1>0. q \in Peers /\ p = Other(q) /\ p # q
  BY OtherOther
<1>1. Silent /\ UNCHANGED <<cleanup, pc, srv, cl>> /\ \E d : Fetched(q, d)
  BY <1>0, NetworkFetches DEF Fetches
<1>2. /\ wire[p] \in Seq(D) /\ late[p] \subseteq D /\ wire \in [Peers -> Seq(D)]
      /\ late \in [Peers -> SUBSET D]
      /\ queue[q] \in Seq(Datagrams(ToListener)) /\ answers[q] \in Seq(Datagrams(ToClient))
  BY <1>0 DEF TypeOK
<1>3. UNCHANGED inv /\ queue'[p] = queue[p] /\ answers'[p] = answers[p]
  BY <1>0 DEF Network, Deliver, DeliverLate, Lose, Duplicate, Delay, Arrive, Fault, procVars, TypeOK
<1>4. /\ UNCHANGED wire \/ (wire[p] # <<>> /\ wire' = [wire EXCEPT ![p] = Tail(@)])
      /\ \/ UNCHANGED late
         \/ late' = [late EXCEPT ![p] = @ \cup {Head(wire[p])}]
         \/ UNCHANGED wire /\ \E d \in late[p] : late' = [late EXCEPT ![p] = @ \ {d}]
  BY DEF Network, Deliver, DeliverLate, Lose, Duplicate, Delay
<1>5. InTransit(q)' = InTransit(q)
  BY <1>0, <1>2, <1>4 DEF InTransit
<1>6. AsksStay(q) /\ TellsStay(p)
  BY <1>0, <1>3, <1>5 DEF AsksStay, TellsStay, Asks, Tells
<1>7. \E d : InTransit(p) \subseteq InTransit(p)' \cup {d}
  <2>1. wire[p] # <<>> => Range(wire[p]) \subseteq Range(Tail(wire[p])) \cup {Head(wire[p])}
    <3> HIDE DEF D
    <3>1. SUFFICES ASSUME wire[p] # <<>>, NEW i \in 1..Len(wire[p])
                   PROVE  wire[p][i] \in Range(Tail(wire[p])) \cup {Head(wire[p])}
      BY <1>2, RangeIndex
    <3>2. CASE i = 1
      BY <1>2, <3>2
    <3>3. CASE i # 1
      <4>1. i - 1 \in DOMAIN Tail(wire[p]) /\ Tail(wire[p])[i - 1] = wire[p][i]
        BY <1>2, <3>1, <3>3
      <4> QED
        BY <4>1 DEF Range
    <3> QED
      BY <3>2, <3>3
  <2>2. CASE UNCHANGED wire
    <3>1. \E d : late[p] \subseteq late'[p] \cup {d}
      BY <1>2, <1>4, <2>2
    <3> QED
      BY <2>2, <3>1 DEF InTransit
  <2>3. CASE wire[p] # <<>> /\ wire' = [wire EXCEPT ![p] = Tail(@)] /\ late[p] \subseteq late'[p]
    <3>1. wire'[p] = Tail(wire[p])
      BY <1>2, <2>3
    <3> QED
      BY <2>1, <2>3, <3>1 DEF InTransit
  <2>4. late[p] \subseteq late'[p] \/ UNCHANGED wire
    BY <1>2, <1>4
  <2> QED
    BY <1>4, <2>2, <2>3, <2>4
<1>8. Range(queue[q]) \subseteq Range(queue'[q]) /\ Range(answers[q]) \subseteq Range(answers'[q])
  <2>1. PICK d : Fetched(q, d)
    BY <1>1
  <2>2. d \in Datagrams(ToListener) => Range(Append(queue[q], d)) = Range(queue[q]) \cup {d}
    BY <1>2, RangeAppend
  <2>3. d \in Datagrams(ToClient) => Range(Append(answers[q], d)) = Range(answers[q]) \cup {d}
    BY <1>2, RangeAppend
  <2> QED
    BY <2>1, <2>2, <2>3 DEF Fetched
<1>9. AsksStay(p) \/ TellsStay(q)
  <2>1. PICK d : InTransit(p) \subseteq InTransit(p)' \cup {d}
    BY <1>7
  <2>2. Asks(p)' \subseteq Asks(p) /\ Tells(q)' \subseteq Tells(q)
    BY <1>0, <1>1 DEF Silent
  <2>3. CASE d.kind \notin ToListener
    <3>1. Asks(p) \subseteq Asks(p)'
      BY <1>8, <2>1, <2>3 DEF Asks
    <3> QED
      BY <2>2, <3>1 DEF AsksStay
  <2>4. CASE d.kind \notin ToClient
    <3>1. Tells(q) \subseteq Tells(q)'
      BY <1>0, <1>8, <2>1, <2>4 DEF Tells
    <3> QED
      BY <2>2, <3>1 DEF TellsStay
  <2> QED
    BY <2>3, <2>4 DEF ToListener, ToClient
<1> QED
  BY <1>3, <1>6, <1>9

LEMMA NetworkLedger ==
  ASSUME IInv, SInv, LInv, AllOutcomes, AllOutcomes', NEW p \in Peers, Network(p)
  PROVE  Ledgers
<1> DEFINE q == Other(p)
<1>0. /\ q \in Peers /\ p = Other(q) /\ Outcomes(p) /\ Outcomes(p)' /\ Outcomes(q) /\ Outcomes(q)'
  BY OtherOther DEF AllOutcomes
<1>1. Silent /\ UNCHANGED <<pc, srv, cl>> /\ Subdued
  BY NetworkFetches DEF Fetches, Subdued
<1>2. UNCHANGED inv /\ AsksStay(q) /\ TellsStay(p) /\ (AsksStay(p) \/ TellsStay(q))
  BY NetworkWords
<1>3. CASE TellsStay(q)
  <2>1. Fades(p, srv[q].port)
    BY <1>0, <1>1, <1>2, AsksFade
  <2>2. Holds(q)
    BY <1>0, <1>1, <1>2, <1>3, StillHolds
  <2> QED
    BY <1>2, <2>1, <2>2, LedgerFades
<1>4. CASE AsksStay(p)
  <2>1. Fades(q, cl[q].port)
    BY <1>0, <1>1, <1>2, TellsFade
  <2>2. Holds(p)
    BY <1>0, <1>1, <1>2, <1>4, StillHolds
  <2> QED
    BY <1>0, <1>2, <2>1, <2>2, LedgerFades
<1> QED
  BY <1>2, <1>3, <1>4

-----------------------------------------------------------------------------
(* The client's side.                                                      *)

\* A client's own session may end, and nothing else does.
LEMMA ClientFades ==
  ASSUME IInv, SInv, LInv, NEW p \in Peers, NEW q, q = Other(p), Client(p),
         Outcomes(p), Outcomes(p)', Outcomes(q), Outcomes(q)'
  PROVE  Fades(p, cl[p].port) /\ Holds(q)
<1>0. q \in Peers /\ p = Other(q) /\ Matched(p)
  BY OtherOther DEF SInv, Pair, Dialogue
<1>1. /\ AsksStay(q) /\ TellsStay(q) /\ Asks(p) \subseteq Asks(p)' /\ Tells(p)' \subseteq Tells(p)
      /\ \A d \in Records(p) : d.kind = "request" =>
           /\ pc[p] = "write" /\ d.body = cl[p].cmd /\ d.port = cl[p].port /\ d.sid = cl[p].sid
      /\ KeepsClient(q) /\ KeepsServer(q)
      /\ pc[p] \in ClientPcs /\ pc'[p] \in ClientPcs \cup {"select", "loop", "crashed"}
  BY ClientWords
<1>2. /\ cl'[p].port = cl[p].port /\ cl'[p].cmd = cl[p].cmd
      /\ pc[p] = "await" => pc'[p] = "await" \/ Await(p)
      /\ pc[p] = "write" => pc'[p] = IF cl[p].cmd.op = "SEND" THEN "bye" ELSE "await"
  BY ClientKeeps
<1>3. Unsaid(p)' => Unsaid(p)
  <2>1. pc[p] = "await" => pc'[p] \in {"await", "bye", "crashed"}
    BY <1>2 DEF Await, Goto, IInv, TypeOK
  <2>2. pc[p] = "bye" => pc'[p] \in {"loop", "select"}
    BY DEF Client, ConnectOffer, ConnectFinished, ClientRepeat, ClientDrop, ConnectRetry,
       ConnectGiveUp, TimerFires, Write, Await, Bye, EndSession, Goto, IInv, TypeOK
  <2> QED
    BY <1>1, <2>1, <2>2 DEF Unsaid, ClientPcs
<1>4. srv'[q] = srv[q] /\ pc'[q] = pc[q]
  BY <1>1 DEF KeepsServer
<1>5. ASSUME NEW c, Hears(p, c)', ~Hears(p, c)
      PROVE  Unsaid(p) /\ c = cl[p].cmd /\ cl[p].port = srv[q].port
  <2>1. /\ pc[q] \in Early
        /\ \E d \in Records(p) : d.kind = "request" /\ d.sid = srv[q].sid /\ c = d.body
    BY <1>4, <1>5 DEF Hears, Records
  <2>2. pc[p] = "write" /\ c = cl[p].cmd /\ cl[p].sid = srv[q].sid
    BY <1>1, <2>1
  <2>3. pc[q] \in Serving /\ OnePort(p)
    BY <2>1 DEF SInv, Pair, Session, Early, Serving, ServerPcs
  <2> QED
    BY <2>2, <2>3 DEF Unsaid, OnePort
<1>6. \A k, c : Command(p, k, c)' => Command(p, k, c)
  BY <1>2, <1>3, <1>4, <1>5 DEF Command
<1>7. \A k, c : k # cl[p].port => (Command(p, k, c) => Command(p, k, c)')
  <2>1. \A c : Hears(p, c) => Hears(p, c)'
    BY <1>1, <1>4 DEF Hears
  <2> QED
    BY <1>4, <2>1 DEF Command
<1>8. ASSUME NEW b, Grants(p, b)' PROVE Grants(p, b)
  <2>1. CASE pc[p] = "await"
    BY <1>1, <1>2, <1>4, <1>8, <2>1 DEF Grants, Offers
  <2>2. CASE pc[p] = "write"
    <3>1. ~Offers(p, b)'
      BY <1>0, <1>2, <1>4, <2>2 DEF Offers, Matched, Written
    <3>2. \A d \in Tells(p)' : ~(d.kind = "reply" /\ d.port = cl'[p].port)
      BY <1>0, <1>1, <1>2, <2>2 DEF Matched, Written
    <3> QED
      BY <1>8, <3>1, <3>2 DEF Grants
  <2>3. CASE pc[p] \in {"connect", "bye"}
    <3>1. pc'[p] # "await"
      BY <2>3 DEF Client, ConnectOffer, ConnectFinished, ClientRepeat, ClientDrop, ConnectRetry,
         ConnectGiveUp, TimerFires, Write, Await, Bye, EndSession, Goto, IInv, TypeOK
    <3> QED
      BY <1>8, <3>1 DEF Grants
  <2> QED
    BY <1>1, <2>1, <2>2, <2>3 DEF ClientPcs
<1>9. /\ \A k, b : Answer(p, k, b)' => Answer(p, k, b)
      /\ \A k, b : k # cl[p].port => (Answer(p, k, b) => Answer(p, k, b)')
  BY <1>2, <1>8 DEF Answer
<1>10. Fades(p, cl[p].port)
  BY <1>2, <1>6, <1>7, <1>9, FadesForm
<1>11. Holds(q)
  <2>1. pc[p] \notin Early \cup {"reply"} /\ pc'[p] \notin Early \cup {"reply"}
    BY <1>1 DEF Early, ClientPcs
  <2>2. \A c : ~Hears(q, c) /\ ~Hears(q, c)'
    BY <1>0, <2>1 DEF Hears
  <2> QED
    BY <1>0, <1>1, <2>1, <2>2, UnservedHolds DEF KeepsClient
<1> QED
  BY <1>10, <1>11

\* The answer a client applies was due to it.
LEMMA ClientLedger ==
  ASSUME IInv, SInv, LInv, AllOutcomes, AllOutcomes', NEW p \in Peers, Client(p)
  PROVE  Ledgers
<1> USE DEF IInv
<1> DEFINE q == Other(p)
           h == Head(answers[p])
           b == h.body
<1>0. /\ q \in Peers /\ Outcomes(p) /\ Outcomes(p)' /\ Outcomes(q) /\ Outcomes(q)'
      /\ inv \in [Peers -> Int]
  BY OtherIsPeer DEF AllOutcomes, TypeOK
<1> PICK k0 : k0 = cl[p].port
  OBVIOUS
<1>1. Fades(p, k0) /\ Holds(q)
  BY <1>0, ClientFades
<1>2. CASE UNCHANGED inv
  BY <1>1, <1>2, LedgerFades
<1>3. CASE ~UNCHANGED inv
  <2>1. /\ Await(p) /\ b.op # "BLANK" /\ inv' = [inv EXCEPT ![p] = AnsweredInventory(inv[p], b)]
        /\ pc[p] = "await" /\ pc'[p] = "bye" /\ answers[p] # <<>> /\ h.kind = "reply"
    BY <1>3 DEF Client, ConnectOffer, ConnectFinished, ClientRepeat, ClientDrop, ConnectRetry,
       ConnectGiveUp, Write, Await, Bye, Goto, TypeOK
  <2>2. b.op \in {"SEND", "REFILL", "REQUEST"} /\ inv' = [inv EXCEPT ![p] = @ + b.n]
    <3>1. [inv EXCEPT ![p] = inv[p]] = inv
      BY <1>0
    <3> QED
      BY <1>3, <2>1, <3>1 DEF AnsweredInventory
  <2>3. h \in Tells(p) /\ h.port = k0
    <3>1. pc[p] \in ClientPcs
      BY <2>1 DEF ClientPcs
    <3> QED
      BY <2>1, <3>1, HeadTold DEF SInv, Pair
  <2>4. b.op \in Goods
    <3>1. Matched(p) /\ Asking(p) /\ pc[p] \in ClientPcs
      BY <2>1 DEF SInv, Pair, Dialogue, ClientPcs
    <3> QED
      BY <2>1, <2>2, <2>3, <3>1 DEF Matched, Asking, Fits, Goods
  <2>5. Answer(p, k0, b)
    BY <2>1, <2>3, <2>4 DEF Answer, Grants
  <2>6. k0 \in Ports
    <3>1. k0 # 0 /\ cl[p] \in ClientStates
      BY <2>1 DEF Connected, ClientPcs, TypeOK
    <3> QED
      BY <3>1 DEF ClientStates
  <2>7. ~(cl[p].port < k0) /\ cl'[p].port = k0
    <3>1. k0 \in Nat
      BY Measures DEF Measured
    <3> QED
      BY <3>1, ClientKeeps
  <2>8. Outcome(p, k0) = Promise!Due(p, b.n)
    BY <1>0, <2>5, <2>6, <2>7 DEF Outcomes
  <2>9. Outcome(p, k0)' = Promise!Over
    <3>1. \A c : ~Command(p, k0, c)'
      <4> SUFFICES ASSUME NEW c, Command(p, k0, c)' PROVE FALSE
        OBVIOUS
      <4>1. KeepsServer(q) /\ (\A d \in Records(p) : d.kind # "request")
        BY <2>1, ClientWords
      <4>2. Hears(p, c)' /\ srv[q].port = k0
        BY <2>1, <4>1 DEF Command, Unsaid, KeepsServer
      <4>3. Hears(p, c)
        BY <4>1, <4>2 DEF Hears, Records, KeepsServer
      <4> QED
        BY <2>1, <4>2, <4>3, ClientKeeps
    <3>2. \A e : ~Answer(p, k0, e)'
      BY <2>1 DEF Answer, Grants
    <3> QED
      BY <1>0, <2>6, <2>7, <3>1, <3>2 DEF Outcomes, Promise!Over, Promise!Slip
  <2>10. Else(p, k0)
    BY <1>1 DEF Fades, Else
  <2> QED
    BY <1>1, <2>2, <2>6, <2>8, <2>9, <2>10, LedgerPays
<1> QED
  BY <1>2, <1>3

-----------------------------------------------------------------------------
(* The server's side.                                                      *)

\* A server changes what has come of the session it is in, and of no other.
LEMMA ServerElse ==
  ASSUME IInv, SInv, LInv, NEW q \in Peers, NEW p, p = Other(q), Accept(q) \/ Respond(q),
         Outcomes(p), Outcomes(p)', Outcomes(q), Outcomes(q)', NEW k0, k0 = srv[q].port
  PROVE  Else(p, k0) /\ Holds(q)
<1>0. p \in Peers /\ q = Other(p)
  BY OtherOther
<1>1. /\ AsksStay(q) /\ Tells(p) \subseteq Tells(p)' /\ KeepsServer(p) /\ UNCHANGED cl
      /\ pc'[q] \notin ClientPcs /\ pc[q] \in Early \cup {"reply", "drain"}
  BY ServerWords
<1>2. srv'[q].port = k0
  BY ServerMoves
<1>3. \A k, c : k # k0 => (Command(p, k, c)' <=> Command(p, k, c))
  BY <1>0, <1>1, <1>2 DEF Command, Unsaid, KeepsServer
<1>4. \A d \in Tells(p)' : d.kind = "reply" /\ d.port # k0 => d \in Tells(p)
  BY <1>0, ServerSpeaks DEF News
<1>5. \A k, b : k # k0 => (Answer(p, k, b)' <=> Answer(p, k, b))
  BY <1>0, <1>1, <1>2, <1>4 DEF Answer, Grants, Offers, KeepsServer
<1>6. Else(p, k0)
  BY <1>0, <1>1, <1>3, <1>5, ElseForm
<1>7. Holds(q)
  BY <1>0, <1>1, AskerHolds DEF Early, ClientPcs, KeepsServer
<1> QED
  BY <1>6, <1>7

\* The reply a server sends, if it carries items, was the one it was about to send.
LEMMA GrantsKept ==
  ASSUME IInv, SInv, NEW q \in Peers, NEW p, p = Other(q), Accept(q) \/ Respond(q),
         ~(pc'[q] = "reply" /\ srv'[q].got = "data" /\ srv'[q].ptr = "heap"
             /\ srv'[q].buf.op \in Goods),
         NEW b, Grants(p, b)'
  PROVE  Grants(p, b)
<1>0. /\ p \in Peers /\ q = Other(p) /\ Matched(p) /\ Asking(p) /\ Buffered(q)
      /\ srv[q] \in ServerStates
  BY OtherOther DEF IInv, TypeOK, SInv, Server, Pair, Dialogue
<1>1. KeepsServer(p) /\ UNCHANGED cl
  BY ServerWords
<1>2. /\ pc[p] = "await" /\ b.op \in Goods /\ ~Offers(p, b)' /\ pc[p] \in ClientPcs
  BY <1>0, <1>1 DEF Grants, Offers, KeepsServer, ClientPcs
<1>3. PICK d \in Tells(p)' : d.kind = "reply" /\ d.port = cl[p].port /\ b = d.body
  BY <1>1, <1>2 DEF Grants
<1>4. CASE d \in Tells(p)
  BY <1>2, <1>3, <1>4 DEF Grants
<1>5. CASE d \notin Tells(p)
  <2>1. /\ Reply(q) /\ ~cleanup[q] /\ d.port = srv[q].port /\ b = srv[q].buf
    <3>1. d \in News(p)
      BY <1>5 DEF News
    <3> QED
      BY <1>3, <3>1, ServerSpeaks
  <2>2. pc[q] = "reply" /\ srv[q].port = cl[p].port
    BY <1>3, <2>1 DEF Reply
  <2>3. srv[q].got = "data"
    BY <1>0, <1>2, <2>1, <2>2 DEF Buffered, Matched, ServerStates
  <2>4. srv[q].req = cl[p].cmd /\ cl[p].cmd.op \in Commands \ {"SEND"}
    BY <1>0, <1>2, <2>2, <2>3 DEF Matched, Asking
  <2>5. srv[q].ptr = "heap"
    BY <1>0, <2>2, <2>3, <2>4 DEF Buffered, Commands
  <2> QED
    BY <1>0, <1>2, <2>1, <2>2, <2>3, <2>5 DEF Grants, Offers
<1> QED
  BY <1>4, <1>5

\* A step that leaves a server without items to send.
LEMMA ServerFades ==
  ASSUME IInv, SInv, LInv, NEW q \in Peers, NEW p, p = Other(q), Accept(q) \/ Respond(q),
         Outcomes(p), Outcomes(p)', Outcomes(q), Outcomes(q)', NEW k0, k0 = srv[q].port,
         ~(pc'[q] = "reply" /\ srv'[q].got = "data" /\ srv'[q].ptr = "heap"
             /\ srv'[q].buf.op \in Goods)
  PROVE  Fades(p, k0) /\ Holds(q)
<1>0. p \in Peers /\ q = Other(p)
  BY OtherOther
<1>1. Tells(p) \subseteq Tells(p)' /\ KeepsServer(p) /\ UNCHANGED cl
  BY ServerWords
<1>2. srv'[q].port = k0 /\ \A c : Hears(p, c)' => Hears(p, c)
  BY ServerMoves
<1>3. \A k, c : Command(p, k, c)' => Command(p, k, c)
  BY <1>0, <1>1, <1>2 DEF Command, Unsaid, KeepsServer
<1>4. \A k, c : k # k0 => (Command(p, k, c) => Command(p, k, c)')
  BY <1>0, <1>1 DEF Command, Unsaid, KeepsServer
<1>5. \A k, b : Answer(p, k, b)' => Answer(p, k, b)
  BY <1>1, GrantsKept DEF Answer
<1>6. \A k, b : k # k0 => (Answer(p, k, b) => Answer(p, k, b)')
  BY <1>0, <1>1 DEF Answer, Grants, Offers, KeepsServer
<1> QED
  BY <1>0, <1>1, <1>3, <1>4, <1>5, <1>6, FadesForm, ServerElse

\* A command that a server has read moves its items, once.
LEMMA ServeLedger ==
  ASSUME IInv, SInv, LInv, AllOutcomes, AllOutcomes', NEW q \in Peers, NEW p, p = Other(q),
         Respond(q), pc[q] = "check", NEW req \in Payloads, Serve(q, req), Hears(p, req)
  PROVE  Ledgers
<1> USE DEF IInv
<1> PICK k0 : k0 = srv[q].port
  OBVIOUS
<1>0. /\ p \in Peers /\ q = Other(p) /\ Outcomes(p) /\ Outcomes(p)' /\ Outcomes(q) /\ Outcomes(q)'
      /\ inv \in [Peers -> Int] /\ inv[q] \in Int
  BY OtherOther DEF AllOutcomes, TypeOK
<1>1. /\ pc' = [pc EXCEPT ![q] = "reply"] /\ srv'[q].port = k0 /\ srv'[q].got = "data"
      /\ req.op = "SEND" => srv'[q].ptr = "null"
      /\ req.op # "SEND" => srv'[q].ptr = "heap" /\ srv'[q].buf = ServedReply(inv[q], req)
      /\ inv' = [inv EXCEPT ![q] = ServedInventory(inv[q], req)]
  BY ServeFacts
<1>2. pc'[q] = "reply" /\ \A c : ~Hears(p, c)'
  BY <1>0, <1>1 DEF Hears, Early, TypeOK
<1>3. KeepsServer(p) /\ UNCHANGED cl /\ \A d \in News(p) : d.kind # "reply"
  BY ServerWords
<1>4. Else(p, k0) /\ Holds(q)
  BY <1>0, ServerElse
<1>5. k0 \in Ports /\ ~(cl[p].port < k0)
  <2>1. k0 # 0 /\ srv[q] \in ServerStates
    BY DEF Connected, Serving, ServerPcs, TypeOK
  <2>2. k0 <= cl[p].port
    BY <1>0 DEF SInv, Pair, Session, Numbered
  <2>3. k0 \in Nat /\ cl[p].port \in Nat
    BY <1>0, Measures DEF Measured
  <2> QED
    BY <2>1, <2>2, <2>3 DEF ServerStates
<1>6. Command(p, k0, req) /\ Outcome(p, k0) = Charge(p, req)
  <2>1. Command(p, k0, req)
    BY <1>0 DEF Command
  <2> QED
    BY <1>0, <1>5, <2>1 DEF Outcomes
<1>7. \A c : ~Command(p, k0, c)'
  <2>1. cl[p].port = k0 => ~Unsaid(p)
    BY <1>0, HeardOwn
  <2> QED
    BY <1>2, <1>3, <2>1 DEF Command, Unsaid, KeepsServer
<1>8. CASE req.op = "SEND"
  <2>1. inv' = [inv EXCEPT ![q] = @ + req.n] /\ Outcome(p, k0) = Promise!Due(q, req.n)
    BY <1>0, <1>1, <1>6, <1>8 DEF ServedInventory, Charge
  <2>2. \A b : ~Answer(p, k0, b)'
    <3> SUFFICES ASSUME NEW b, Answer(p, k0, b)' PROVE FALSE
      OBVIOUS
    <3>1. ~Offers(p, b)' /\ cl[p].port = k0
      BY <1>0, <1>1, <1>3, <1>8 DEF Offers, Answer
    <3>2. \E d \in Tells(p) : d.kind = "reply" /\ d.port = cl[p].port
      BY <1>3, <3>1 DEF Answer, Grants, News
    <3> QED
      BY <1>0, <3>1, <3>2, Apart
  <2>3. Outcome(p, k0)' = Promise!Over
    BY <1>0, <1>3, <1>5, <1>7, <2>2 DEF Outcomes, Promise!Over, Promise!Slip
  <2> QED
    BY <1>0, <1>4, <1>5, <2>1, <2>3, LedgerPays
<1>9. CASE req.op # "SEND" /\ ServedReply(inv[q], req).op \notin Goods
  <2>1. Fades(p, k0)
    BY <1>0, <1>1, <1>9, ServerFades
  <2>2. UNCHANGED inv
    <3>1. ServedInventory(inv[q], req) = inv[q]
      BY <1>0, <1>9 DEF ServedInventory, ServedReply, Goods, Payloads, Insufficient, Blank
    <3>2. [inv EXCEPT ![q] = inv[q]] = inv
      BY <1>0
    <3> QED
      BY <1>1, <3>1, <3>2
  <2> QED
    BY <1>0, <1>4, <2>1, <2>2, LedgerFades
<1>10. CASE req.op # "SEND" /\ ServedReply(inv[q], req).op \in Goods
  <2> PICK reply : reply = ServedReply(inv[q], req)
    OBVIOUS
  <2>1. /\ pc[p] = "await" /\ cl[p].port = k0 /\ req = cl[p].cmd
        /\ Outcome(p, k0) = Promise!Open
    <3>1. pc[p] = "await" /\ cl[p].port = k0
      BY <1>0, <1>10 DEF LInv, Waiting
    <3> QED
      BY <1>0, <1>6, <1>10, <3>1, HeardOwn DEF Charge
  <2>2. Answer(p, k0, reply)'
    BY <1>0, <1>1, <1>2, <1>3, <1>10, <2>1 DEF Answer, Grants, Offers, KeepsServer
  <2>3. Outcome(p, k0)' = Promise!Due(p, reply.n)
    BY <1>0, <1>3, <1>5, <2>2 DEF Outcomes, Promise!Due, Promise!Slip
  <2>4. CASE req.op = "REFILL"
    <3>1. inv' = [inv EXCEPT ![q] = @ - RefillAmount] /\ reply.n = RefillAmount
      BY <1>0, <1>1, <2>4 DEF ServedInventory, ServedReply, Payloads, Insufficient, Blank
    <3> QED
      BY <1>0, <1>4, <1>5, <2>1, <2>3, <3>1, LedgerRefills
  <2>5. CASE req.op # "REFILL"
    <3>1. req.op = "REQUEST" /\ req.n <= inv[q] /\ reply = req
      BY <1>0, <1>10, <2>5 DEF ServedReply, Goods, Payloads, Insufficient, Blank
    <3>2. inv' = [inv EXCEPT ![q] = @ - req.n]
      BY <1>1, <3>1 DEF ServedInventory
    <3>3. req.n \in Amounts
      <4>1. Typed(p) /\ pc[p] \in ClientPcs
        BY <1>0, <2>1 DEF LInv, ClientPcs
      <4>2. req \in Script[p]
        BY <2>1, <3>1, <4>1 DEF Typed
      <4> QED
        BY <1>0, <3>1, <4>2 DEF Amounts, Peers
    <3> QED
      BY <1>0, <1>4, <1>5, <2>1, <2>3, <3>1, <3>2, <3>3, LedgerMoves
  <2> QED
    BY <2>4, <2>5
<1> QED
  BY <1>8, <1>9, <1>10

LEMMA ServerLedger ==
  ASSUME IInv, SInv, LInv, AllOutcomes, AllOutcomes', NEW q \in Peers, Accept(q) \/ Respond(q)
  PROVE  Ledgers
<1> USE DEF IInv
<1> DEFINE p == Other(q)
           Laden == /\ pc'[q] = "reply" /\ srv'[q].got = "data" /\ srv'[q].ptr = "heap"
                    /\ srv'[q].buf.op \in Goods
<1>0. /\ p \in Peers /\ q = Other(p) /\ Outcomes(p) /\ Outcomes(p)' /\ Outcomes(q) /\ Outcomes(q)'
      /\ srv[q].req \in Payloads /\ srv[q] \in ServerStates /\ Buffered(q)
  BY OtherOther DEF AllOutcomes, TypeOK, ServerStates, SInv, Server
<1>1. ASSUME UNCHANGED inv, ~Laden PROVE Ledgers
  BY <1>0, <1>1, ServerFades, LedgerFades
<1>2. CASE React(q)
  <2>1. pc[q] = "check" /\ Serve(q, srv[q].req) /\ Hears(p, srv[q].req)
    BY <1>0, <1>2 DEF React, Hears, Early
  <2> QED
    BY <1>0, <1>2, <2>1, ServeLedger DEF Respond
<1>3. CASE ReadAndReact(q)
  <2> DEFINE h == Head(queue[q])
  <2>1. /\ pc[q] = "check" /\ Serve(q, h.body) /\ queue[q] # <<>>
        /\ h.kind = "request" /\ srv[q].got = "none"
    BY <1>3 DEF ReadAndReact
  <2>2. h \in Asks(p) /\ h.sid = srv[q].sid
    BY <1>0, <2>1, ReadOwn DEF Keyed
  <2>3. Hears(p, h.body) /\ h.body \in Payloads
    <3>1. h.body \in Payloads
      BY <1>0, <2>2, BodyTypes
    <3> QED
      BY <1>0, <2>1, <2>2, <3>1 DEF Hears, Early
  <2> QED
    BY <1>3, <2>1, <2>3, ServeLedger DEF Respond
<1>4. CASE CheckInterrupted(q)
  <2>1. CASE Serve(q, srv[q].req) /\ srv[q].got = "data"
    <3>1. pc[q] = "check" /\ Hears(p, srv[q].req)
      BY <1>0, <1>4, <2>1 DEF CheckInterrupted, Hears, Early
    <3> QED
      BY <1>0, <1>4, <2>1, <3>1, ServeLedger DEF Respond
  <2>2. CASE UNCHANGED <<inv, srv>> /\ (srv[q].got = "none" \/ pc'[q] = "crashed")
    BY <1>1, <2>2
  <2> QED
    BY <1>4, <2>1, <2>2 DEF CheckInterrupted, Goto, TypeOK
<1>5. CASE Accept(q)
  <2>1. UNCHANGED inv /\ pc'[q] # "reply"
    BY <1>5 DEF Accept, AcceptHello, AcceptRepeat, AcceptFinish, AcceptFatal, AcceptDrop,
       AcceptWouldBlock, AcceptWake, AcceptFails, Goto, TypeOK
  <2> QED
    BY <1>1, <2>1
<1>6. CASE FirstRead(q)
  <2>1. UNCHANGED inv /\ pc'[q] = "check"
    BY <1>6 DEF FirstRead, Goto, TypeOK
  <2> QED
    BY <1>1, <2>1
<1>7. CASE ReadClose(q)
  <2> DEFINE new == [srv[q] EXCEPT !.got = "closed"]
  <2>1. UNCHANGED inv /\ srv'[q] = new
    BY <1>7 DEF ReadClose, TypeOK
  <2>2. new.got = "closed"
    BY <1>0 DEF ServerStates
  <2> QED
    BY <1>1, <2>1, <2>2
<1>8. CASE ReadRepeat(q)
  <2>1. UNCHANGED <<inv, srv>> /\ srv[q].got # "data"
    BY <1>0, <1>8 DEF ReadRepeat, Reading, Buffered
  <2> QED
    BY <1>1, <2>1
<1>9. CASE Reply(q) \/ Drain(q)
  <2>1. UNCHANGED inv /\ pc'[q] # "reply"
    BY <1>9 DEF Reply, Drain, Goto, TypeOK
  <2> QED
    BY <1>1, <2>1
<1> QED
  BY <1>2, <1>3, <1>4, <1>5, <1>6, <1>7, <1>8, <1>9 DEF Respond

-----------------------------------------------------------------------------
(* main and the shell.                                                     *)

\* A session that is opened for a SEND takes its items from the stock; for anything else
\* it takes nothing yet.
LEMMA BeginLedger ==
  ASSUME IInv, SInv, LInv, AllOutcomes, AllOutcomes', NEW p \in Peers,
         OpenAndRefill(p) \/ ShellSend(p) \/ ShellAsk(p)
  PROVE  Ledgers
<1> DEFINE q == Other(p)
<1>0. /\ q \in Peers /\ p = Other(q) /\ Outcomes(p) /\ Outcomes(p)' /\ Outcomes(q) /\ Outcomes(q)'
      /\ \A r \in Peers : r = p \/ r = q
  BY OtherOther DEF AllOutcomes
<1>1. /\ pc[p] \in {"loop", "shell"} /\ UNCHANGED <<answers, late>> /\ KeepsServer(q)
      /\ CloseListener(p) \/ UNCHANGED queue
  BY BeginFacts
<1>2. PICK cmd \in Payloads, refill \in BOOLEAN :
        /\ BeginSession(p, cmd, refill) /\ cmd.op \in Commands
        /\ cmd \in Script[p] \cup {[op |-> "REFILL", n |-> 0]}
        /\ cmd.op = "SEND" => cmd.n <= inv[p] /\ inv' = [inv EXCEPT ![p] = @ - cmd.n]
        /\ cmd.op # "SEND" => UNCHANGED inv
  BY BeginFacts
<1> PICK k0 : k0 = cl[p].port + 1
  OBVIOUS
<1>3. /\ Asks(p) \subseteq Asks(p)' /\ TellsStay(q)
      /\ \A d \in Records(p) : d.kind = "hello"
      /\ cl'[q] = cl[q] /\ pc'[q] = pc[q] /\ pc'[p] = "connect" /\ cl'[p].cmd = cmd
      /\ cl'[p].port = k0 /\ k0 \in Ports
  BY <1>1, <1>2, BeginWords
<1>4. Holds(q)
  <2>1. pc[p] \notin Early \cup {"reply"} /\ pc'[p] \notin Early \cup {"reply"}
    BY <1>1, <1>3 DEF Early
  <2>2. \A c : ~Hears(q, c) /\ ~Hears(q, c)'
    BY <1>0, <2>1 DEF Hears
  <2> QED
    BY <1>0, <1>3, <2>1, <2>2, UnservedHolds
<1>5. \A c : Hears(p, c)' <=> Hears(p, c)
  BY <1>1, <1>3 DEF Hears, Records, KeepsServer
<1>6. cl[p].port \in Nat /\ k0 = cl[p].port + 1 /\ \A k \in Ports : k \in Nat
  BY Measures DEF IInv, Measured, Ports
<1>7. Else(p, k0)
  <2> SUFFICES ASSUME NEW k \in Ports \ {k0} PROVE Outcome(p, k)' = Outcome(p, k)
    BY DEF Else
  <2>1. cl'[p].port < k <=> cl[p].port < k
    BY <1>3, <1>6
  <2>2. \A c : Command(p, k, c)' <=> Command(p, k, c)
    BY <1>1, <1>3, <1>5 DEF Command, Unsaid, KeepsServer
  <2>3. \A b : Answer(p, k, b)' <=> Answer(p, k, b)
    BY <1>1, <1>3 DEF Answer, Grants
  <2> QED
    BY <1>0, <2>1, <2>2, <2>3, SameOutcome
<1>8. Outcome(p, k0) = Promise!Open
  BY <1>0, <1>3, <1>6 DEF Outcomes
<1>9. Outcome(p, k0)' = Charge(p, cmd)
  <2>1. Command(p, k0, cmd)'
    BY <1>3 DEF Command, Unsaid
  <2>2. ~(cl'[p].port < k0)
    BY <1>3, <1>6
  <2>3. Outcome(p, k0)' = Charge(p, cmd)'
    BY <1>0, <1>3, <2>1, <2>2 DEF Outcomes
  <2> QED
    BY <2>3 DEF Charge, Promise!Due, Promise!Open, Promise!Slip
<1>10. CASE cmd.op = "SEND"
  <2>1. Outcome(p, k0)' = Promise!Due(q, cmd.n)
    BY <1>9, <1>10 DEF Charge
  <2>2. cmd.n \in Amounts
    BY <1>2, <1>10 DEF Amounts, Peers
  <2> QED
    BY <1>2, <1>3, <1>4, <1>7, <1>8, <1>10, <2>1, <2>2, LedgerMoves
<1>11. CASE cmd.op # "SEND"
  <2>1. Holds(p)
    BY <1>7, <1>8, <1>9, <1>11 DEF Holds, Else, Charge
  <2> QED
    BY <1>0, <1>2, <1>4, <1>11, <2>1, LedgerRests
<1> QED
  BY <1>10, <1>11

LEMMA MainLedger ==
  ASSUME IInv, SInv, LInv, AllOutcomes, AllOutcomes', NEW p \in Peers, Main(p) \/ User(p)
  PROVE  Ledgers
<1> DEFINE q == Other(p)
           Rests == \/ Halt(p) \/ OpenAndSelect(p) \/ Peek(p) \/ ReadStdin(p) \/ ShellIdle(p)
                    \/ ShellExit(p)
<1>0. /\ q \in Peers /\ p = Other(q) /\ Outcomes(p) /\ Outcomes(p)' /\ Outcomes(q) /\ Outcomes(q)'
      /\ \A r \in Peers : r = p \/ r = q
  BY OtherOther DEF AllOutcomes
<1>1. CASE Rests
  <2>1. /\ pc[p] \in {"loop", "shell", "select"}
        /\ pc'[p] \in {"loop", "shell", "select", "stopped", "crashed", "accept"}
        /\ UNCHANGED <<inv, cl>> /\ pc'[q] = pc[q] /\ srv'[q] = srv[q]
        /\ AsksStay(p) /\ TellsStay(q) /\ Asks(q)' \subseteq Asks(q)
        /\ pc'[p] = "accept" =>
             srv'[p].got = "none" /\ \A d \in Asks(q) \cup Tells(q) : d.sid # srv'[p].sid
    BY <1>1, RestWords
  <2>2. \A c : ~Hears(q, c) /\ ~Hears(q, c)'
    BY <1>0, <2>1 DEF Hears, Early
  <2>3. Holds(q)
    BY <1>0, <2>1, <2>2, UnservedHolds
  <2>4. Holds(p)
    BY <1>0, <2>1, AskerHolds
  <2> QED
    BY <1>0, <2>1, <2>3, <2>4, LedgerRests
<1> QED
  BY <1>1, BeginLedger DEF Main, User

-----------------------------------------------------------------------------
LEMMA InitLedger == Init /\ AllOutcomes => Promise!Init
<1> SUFFICES ASSUME Init, AllOutcomes PROVE Promise!Init
  OBVIOUS
<1>1. inv = [p \in Promise!Peers |-> InitialInventory]
  BY DEF Init, Promise!Peers, Peers
<1>2. Slips = [e \in Promise!Exchanges |-> Promise!Open]
  <2>1. \A p \in Peers, k \in Ports : Outcome(p, k) = Promise!Open
    <3> SUFFICES ASSUME NEW p \in Peers, NEW k \in Ports PROVE Outcome(p, k) = Promise!Open
      OBVIOUS
    <3>1. cl[p].port = 0 /\ k \in Nat /\ k > 0 /\ Outcomes(p)
      BY DEF Init, Ports, AllOutcomes
    <3> QED
      BY <3>1 DEF Outcomes
  <2> QED
    BY <2>1 DEF Slips, Promise!Exchanges, Promise!Peers, Peers
<1> QED
  BY <1>1, <1>2 DEF Promise!Init, Slips

LEMMA NextLedger ==
  IInv /\ SInv /\ LInv /\ AllOutcomes /\ AllOutcomes' /\ [Next]_vars => Ledgers
<1> SUFFICES ASSUME IInv, SInv, LInv, AllOutcomes, AllOutcomes', [Next]_vars PROVE Ledgers
  OBVIOUS
<1>1. CASE UNCHANGED vars
  <2>1. UNCHANGED <<inv, pc, srv, cl, queue, answers, wire, late>>
    BY <1>1 DEF vars, procVars, env
  <2>2. ASSUME NEW p \in Peers PROVE Holds(p)
    <3>1. Outcomes(p) /\ Outcomes(p)'
      BY DEF AllOutcomes
    <3>2. AsksStay(p) /\ TellsStay(p)
      BY <2>1 DEF AsksStay, TellsStay, Asks, Tells, InTransit
    <3> QED
      BY <2>1, <3>1, <3>2, StillHolds
  <2> QED
    BY <2>1, <2>2, LedgerRests
<1> QED
  BY <1>1, MainLedger, ServerLedger, ClientLedger, SignalLedger, NetworkLedger DEF Next

\* Every client session moves items at most once, from one stock to the other: what a SEND,
\* a REQUEST or a REFILL takes on one side is added on the other, the same amount, once, or
\* is lost for good.  It holds for any number of sessions, copies, delays and SIGINTs, and
\* however the two threads interleave.
THEOREM LedgerImplemented == Spec => ImplementsLedger
<1>1. Init => IInv /\ SInv /\ LInv /\ AllOutcomes
  <2>1. Init => IInv /\ SInv /\ LInv
    BY InitIInv, InitSInv, InitLInv
  <2> QED
    BY <2>1, OutcomesHold
<1>2. IInv /\ SInv /\ LInv /\ [Next]_vars => IInv' /\ SInv' /\ LInv'
  BY NextIInv, NextSInv, NextLInv
<1>3. SInv /\ LInv => AllOutcomes
  BY OutcomesHold
<1>4. Init => Promise!Init
  BY <1>1, InitLedger
<1>5. IInv /\ SInv /\ LInv /\ AllOutcomes /\ AllOutcomes' /\ [Next]_vars => [Promise!Next]_Promise!vars
  BY NextLedger DEF Ledgers
<1> QED
  BY <1>1, <1>2, <1>3, <1>4, <1>5, PTL DEF Spec, ImplementsLedger, Promise!Spec
=============================================================================
