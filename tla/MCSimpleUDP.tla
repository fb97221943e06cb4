---------------------------- MODULE MCSimpleUDP ----------------------------
(* Small instances of SimpleUDP for TLC: two peers, two items each, and a  *)
(* REFILL of one.  A script is what the users may type, in any order.      *)
EXTENDS SimpleUDP_ledger, TLC

Send1 == [op |-> "SEND", n |-> 1]
Send2 == [op |-> "SEND", n |-> 2]
Ask1  == [op |-> "REQUEST", n |-> 1]
Ask3  == [op |-> "REQUEST", n |-> 3]      \* more than a peer starts with
Ask9  == [op |-> "REQUEST", n |-> 9]      \* more than a peer ever has
Look  == [op |-> "CHECK", n |-> 0]
Fill  == [op |-> "REFILL", n |-> 0]

Every == (A :> {Send1, Send2, Ask1, Ask3, Look, Fill}) @@ (B :> {})
Some  == (A :> {Send1, Send2, Look, Ask3}) @@ (B :> {})
\* B never runs out, so it never asks for a refill while A runs a command.
Lone  == (A :> {Send1, Send2, Look, Ask9}) @@ (B :> {})
Few   == (A :> {Send1, Ask1}) @@ (B :> {})
Cross == (A :> {Send2}) @@ (B :> {Ask1, Fill})
Both  == (A :> {Send2, Ask1, Look}) @@ (B :> {Send2, Ask3, Fill})
=============================================================================
