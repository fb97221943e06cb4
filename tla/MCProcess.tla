----------------------------- MODULE MCProcess -----------------------------
(* A small instance of Process for TLC: buffers, blocks and machine words  *)
(* of a few units, numbers of base 4, commands of one letter.              *)
EXTENDS Process

MCBuiltins == [w \in {<<83>>, <<82>>, <<67>>, <<70>>, <<88>>} |->
  CASE w = <<83>> -> "SEND" [] w = <<82>> -> "REQUEST" [] w = <<67>> -> "CHECK"
    [] w = <<70>> -> "REFILL" [] w = <<88>> -> "exit"]

MCRequests == {[op |-> "SEND", n |-> 1], [op |-> "REQUEST", n |-> 1],
               [op |-> "CHECK", n |-> 0], [op |-> "REFILL", n |-> 0]}

MCStocks == -1..2

MCLines == {<<10>>,                           \* an empty line
            <<32, 82, 9, 11, 49, 10>>,        \*  R<tab><\v>1, more than a line's first buffer
            <<67, 0, 49, 10>>,                \* C<\0>1, a CHECK
            <<83, 32, 48, 50, 49, 10>>,       \* S 021, a block of digits that int cuts to 1
            <<83, 32, 48, 48, 48, 49, 10>>}   \* S 0001, more than a block

\* Half a line, and the rest of it with two more: C, F and X are CHECK, REFILL and exit.
MCChunks == {<<67>>, <<10, 70, 10, 88, 10>>}
=============================================================================
