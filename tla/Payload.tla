------------------------------ MODULE Payload ------------------------------
(***************************************************************************)
(* The application messages of simpleUDP and what each side does with one  *)
(* (io_handler.c).  A message is the pair of a command and a number, each  *)
(* encrypted on its own; the encryption is abstracted to the pair itself,  *)
(* Blank standing for a buffer that does not decrypt to a command.         *)
(***************************************************************************)
EXTENDS Integers

CONSTANT RefillAmount        \* the code's literal 500

ASSUME RefillAssumption == RefillAmount \in Nat

Commands == {"SEND", "REQUEST", "CHECK", "REFILL"}

\* An all-zero buffer: validate_HMAC finds no command in it.
Blank == [op |-> "BLANK", n |-> 0]
Insufficient == [op |-> "INSUFFICIENT", n |-> -1]

\* Items are carried in no negative number; the answer to a CHECK may hold one.
Payloads == [op : {"SEND", "REQUEST", "REFILL"}, n : Nat]
            \cup [op : {"CHECK"}, n : Int] \cup {Insufficient, Blank}

(***************************************************************************)
(* decrypt_react(_, 0), the serving side.  CHECK and REFILL requests carry *)
(* no number.  ServedInventory is the inventory it leaves, ServedReply the *)
(* message it returns; a SEND returns the null pointer, hence no reply.    *)
(***************************************************************************)
ServedWithoutDebit(stock, req) ==    \* mutant: a REQUEST is answered, not deducted
  CASE req.op = "SEND" -> stock + req.n
    [] req.op = "REFILL" -> stock - RefillAmount
    [] OTHER -> stock

ServedUnchecked(stock, req) ==       \* mutant: no stock test
  CASE req.op = "SEND" -> stock + req.n
    [] req.op = "REFILL" -> stock - RefillAmount
    [] req.op = "REQUEST" -> stock - req.n
    [] OTHER -> stock

ServedInventory(stock, req) ==
  CASE req.op = "SEND"                       -> stock + req.n
    [] req.op = "REFILL"                     -> stock - RefillAmount
    [] req.op = "REQUEST" /\ req.n <= stock  -> stock - req.n
    [] OTHER                                 -> stock

ServedReply(stock, req) ==
  CASE req.op = "CHECK"                      -> [req EXCEPT !.n = stock]
    [] req.op = "REFILL"                     -> [req EXCEPT !.n = RefillAmount]
    [] req.op = "REQUEST" /\ req.n > stock   -> Insufficient
    [] OTHER                                 -> req

\* decrypt_react(_, 1), the asking side: the inventory after the answer.
AnsweredInventory(stock, reply) ==
  IF reply.op \in {"SEND", "REFILL", "REQUEST"} THEN stock + reply.n ELSE stock
=============================================================================
