------------------------------- MODULE Ledger -------------------------------
(***************************************************************************)
(* What simpleUDP promises about items, without sockets, sessions, timers  *)
(* or messages.  Each client session of a peer is one exchange, and moves  *)
(* items at most once: what is taken from the one stock is `due' to the    *)
(* other peer until it is added there, the same amount, or lost for good.  *)
(* SimpleUDP_ledger shows that SimpleUDP implements this.                  *)
(***************************************************************************)
EXTENDS Integers

CONSTANTS A, B,                \* the peers
          InitialInventory,    \* what each of them starts with
          RefillAmount,        \* what a REFILL takes, whatever there is
          Amounts,             \* what a SEND or a REQUEST may move
          Sessions             \* the numbers of a peer's client sessions

VARIABLES stock,               \* stock[p]    the items p holds
          slip                 \* slip[e]     what exchange e has come to

vars == <<stock, slip>>

Peers == {A, B}
Other(p) == IF p = A THEN B ELSE A
Exchanges == Peers \X Sessions     \* the peer that opened it, and its session's number

Slip(state, to, n) == [state |-> state, to |-> to, n |-> n]
Open == Slip("open", A, 0)     \* may still move items
Over == Slip("over", A, 0)     \* has moved them, has lost them, or never will
Due(to, n) == Slip("due", to, n)

Init ==
  /\ stock = [p \in Peers |-> InitialInventory]
  /\ slip = [e \in Exchanges |-> Open]

Mark(e, s) == slip' = [slip EXCEPT ![e] = s]

\* n items leave the stock of `from', and one exchange owes them to the other peer.
Take(from, n, e) ==
  /\ slip[e].state = "open"
  /\ Mark(e, Due(Other(from), n))

\* A SEND takes items from the peer that opened the exchange, a REQUEST from the other
\* one: both stop at what there is.
MoveItems ==
  \E from \in Peers, n \in Amounts :
    /\ n <= stock[from]
    /\ stock' = [stock EXCEPT ![from] = @ - n]
    /\ \E e \in Exchanges : Take(from, n, e)

\* A REFILL takes from the peer that serves it, and does not look.
RefillItems ==
  \E from \in Peers :
    /\ stock' = [stock EXCEPT ![from] = @ - RefillAmount]
    /\ \E e \in Exchanges : e[1] # from /\ Take(from, RefillAmount, e)

\* The items arrive, or the session fails or a message is lost, and what was due is in
\* neither stock.
Settle(e) ==
  LET s == slip[e] IN
  /\ s.state # "over" /\ slip'[e].state = "over"
  /\ \/ s.state = "due" /\ stock' = [stock EXCEPT ![s.to] = @ + s.n]
     \/ UNCHANGED stock
  /\ Mark(e, Over)

Next == MoveItems \/ RefillItems \/ \E e \in Exchanges : Settle(e)

Spec == Init /\ [][Next]_vars
=============================================================================
