-------------------------- MODULE SimpleUDP_ledger --------------------------
(***************************************************************************)
(* SimpleUDP implements Ledger.  What an exchange has come to is read off  *)
(* the program and the network: the datagrams, and the places of the two   *)
(* threads, that can still change an inventory on its behalf.              *)
(***************************************************************************)
EXTENDS SimpleUDP

\* The commands of p's session k that may still be applied: not written yet, on the
\* way to the session its server reads, or read and not yet applied.
Commanded(p, k) ==
  LET q == Other(p)
      Read == srv[q].got = "data"
  IN IF cl[p].port = k /\ pc[p] \in {"connect", "write"} THEN {cl[p].cmd}
     ELSE IF pc[q] \notin {"accept", "acceptWait", "read", "check"} THEN {}
     ELSE IF Read THEN {c \in {srv[q].req} : srv[q].port = k}
     ELSE {d.body : d \in {e \in Range(queue[q]) \cup InTransit(p) :
                           e.kind = "request" /\ e.port = k /\ e.sid = srv[q].sid}}

\* The answers with items that p's session k may still apply: its server is about to
\* write one, or one is on its way.
Answered(p, k) ==
  LET q == Other(p) IN
  IF pc[p] # "await" \/ cl[p].port # k THEN {}
  ELSE {b \in {srv[q].buf} : /\ pc[q] = "reply" /\ srv[q].port = k /\ srv[q].got = "data"
                             /\ srv[q].ptr = "heap" /\ b.op \in Goods}
       \cup {d.body : d \in {e \in Range(answers[p]) \cup InTransit(q) :
                             e.kind = "reply" /\ e.port = k /\ e.body.op \in Goods}}

\* What session k of p has come to: [state, to, n].
Outcome(p, k) ==
  LET commands == Commanded(p, k)
      sent == {c \in commands : c.op = "SEND"}
      grants == Answered(p, k)
      slip(state, to, n) == [state |-> state, to |-> to, n |-> n]
  IN  IF cl[p].port < k THEN slip("open", A, 0)
      ELSE IF sent # {} THEN slip("due", Other(p), (CHOOSE c \in sent : TRUE).n)
      ELSE IF commands # {} THEN slip("open", A, 0)
      ELSE IF grants # {} THEN slip("due", p, (CHOOSE b \in grants : TRUE).n)
      ELSE slip("over", A, 0)

Amounts == {c.n : c \in {d \in Script[A] \cup Script[B] : d.op \in {"SEND", "REQUEST"}}}

Promise == INSTANCE Ledger WITH
  stock <- inv, slip <- [e \in Peers \X Ports |-> Outcome(e[1], e[2])], Sessions <- Ports

\* Every client session moves items at most once: what one side deducts is what the
\* other side adds, once, or is lost for good, whatever the network repeats, delays or
\* loses, and however the threads interleave (io_handler.c:47, 159, 168-189).
ImplementsLedger == Promise!Spec
=============================================================================
