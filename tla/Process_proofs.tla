--------------------------- MODULE Process_proofs ---------------------------
(* Theorems of Process, for every size, table of builtins and bound.       *)
EXTENDS Process, Shell_proofs, Codec_proofs

-----------------------------------------------------------------------------
(* The process runs the shell.                                             *)

LEMMA NextIsShell == Next => [ShellNext]_shellVars
<1> SUFFICES ASSUME Next PROVE [ShellNext]_shellVars
  OBVIOUS
<1>1. CASE Halt \/ Open
  BY <1>1 DEF Halt, Open
<1>2. CASE SelectStdin
  BY <1>2 DEF SelectStdin, ShellNext
<1>3. CASE Command
  BY <1>3 DEF Command, Shelling, ExecuteNothing, ExecuteExit, Execute, ExecuteOverrun,
              BackToLoop, ShellNext
<1>4. CASE Client
  BY <1>4 DEF Client, Context, Socket, End, BackToLoop, ShellNext
<1>5. CASE SelectDatagram \/ SelectOther \/ ServeFails \/ Talk
  BY <1>5 DEF SelectDatagram, SelectOther, ServeFails, Talk
<1>6. CASE Serve
  BY <1>6 DEF Serve, ShellNext
<1>7. CASE Signal
  BY <1>7 DEF Signal, ShellNext
<1>8. CASE Typist
  BY <1>8 DEF Typist, ShellNext
<1> QED
  BY <1>1, <1>2, <1>3, <1>4, <1>5, <1>6, <1>7, <1>8 DEF Next, Main, Peer

\* Everything the process does with the shell's variables is a step of the shell, or
\* leaves them alone: what holds of the shell holds of the daemon that calls it.
THEOREM ProcessRunsShell == Spec => ShellSpec
<1>1. Init => ShellInit
  BY DEF Init
<1>2. [Next]_vars => [ShellNext]_shellVars
  BY NextIsShell DEF vars
<1> QED
  BY <1>1, <1>2, PTL DEF Spec, ShellSpec

\* In the daemon, too, no line or token is written past the end of its buffer.
THEOREM ProcessBounds == Spec => []IndicesInBounds
BY ProcessRunsShell, ShellBounds, PTL

\* In the daemon, too, no character typed is lost, repeated or moved, SIGINT included.
THEOREM ProcessKeepsText == Spec => []NothingTypedIsLost
BY ProcessRunsShell, ShellKeepsText, PTL

\* In the daemon, too, a command gets the words of its line, whatever the line.
THEOREM ProcessSplitsLines == Spec => []TokensAreWords
BY ProcessRunsShell, ShellSplitsLines, PTL

-----------------------------------------------------------------------------
(* wolfSSL's users.                                                        *)

\* The count is a number, and above 0 from wolfSSL_CTX_new to wolfSSL_Cleanup.
Counting ==
  /\ count \in Nat
  /\ pc \in {"socket", "talk"} => count > 0
  /\ pc = "end" => count > 0

LEMMA CountingNext == ASSUME Counting, [Next]_vars PROVE Counting'
<1>1. CASE Main
  BY <1>1 DEF Main, Halt, Open, SelectStdin, Released, Counting
<1>2. CASE Command
  BY <1>2 DEF Command, Shelling, ExecuteNothing, ExecuteExit, Execute, ExecuteOverrun,
              BackToLoop, Counting, mainVars
<1>3. CASE Client
  BY <1>3 DEF Client, Context, Socket, End, BackToLoop, Acquired, Released, Counting
<1>4. CASE Peer
  BY <1>4 DEF Peer, SelectDatagram, SelectOther, ServeFails, Serve, Talk, Counting
<1>5. CASE Signal \/ Typist
  BY <1>5 DEF Signal, Typist, Counting, mainVars
<1>6. CASE UNCHANGED vars
  BY <1>6 DEF vars, mainVars, Counting
<1> QED
  BY <1>1, <1>2, <1>3, <1>4, <1>5, <1>6 DEF Next

\* A client session never runs on a library that an earlier one has cleaned up.
THEOREM ClientsInitialised == Spec => []ClientInitialised
<1>1. Init => Counting
  BY DEF Init, Counting
<1>2. Counting => ClientInitialised
  BY DEF Counting, ClientInitialised
<1> QED
  BY <1>1, <1>2, CountingNext, PTL DEF Spec

-----------------------------------------------------------------------------
(* Descriptors.                                                            *)

\* socket() returns a descriptor that was free, or fails.
LEMMA LowestFreeIsFree ==
  LowestFree = -1 \/ (LowestFree \in Fds /\ fds[LowestFree] = "free")
<1> DEFINE free == {fd \in Fds : fds[fd] = "free"}
<1>1. free \in SUBSET Nat
  BY DEF Fds
<1>2. free # {} => \E m \in free : \A k \in free : m <= k
  <2> HIDE DEF free
  <2> QED
    BY <1>1, LeastIndex
<1>3. LowestFree = IF free = {} THEN -1
                   ELSE CHOOSE fd \in free : \A other \in free : fd <= other
  BY DEF LowestFree
<1>4. free # {} => LowestFree \in free
  <2> HIDE DEF free
  <2> QED
    BY <1>2, <1>3
<1> QED
  BY <1>3, <1>4

\* The listen socket is open from the start of a round to its end, or to the shell; the
\* client's, while dtls_send talks.  Only a flag that is set lets a round leave the first.
Listening ==
  \/ pc \in {"select", "serve", "spin", "undefined"}
  \/ pc = "loop" /\ cleanup
  \/ pc \in {"context", "socket", "talk", "end"} /\ refill
Talking == pc \in {"talk", "end", "undefined"}
Tidy ==
  /\ fds \in [Fds -> {"std", "free", "listen", "client"}]
  /\ certs => \A fd \in Fds :
       /\ fds[fd] = "listen" => fd = listenfd /\ Listening
       /\ fds[fd] = "client" => fd = sockfd /\ Talking

LEMMA CloseFrees ==
  ASSUME fds \in [Fds -> {"std", "free", "listen", "client"}], NEW n
  PROVE  /\ Close(n) \in [Fds -> {"std", "free", "listen", "client"}]
         /\ \A fd \in Fds : Close(n)[fd] = IF fd = n THEN "free" ELSE fds[fd]
BY DEF Close

LEMMA TidyInit == Init => Tidy
BY DEF Init, Tidy, Listening, Talking

LEMMA BackToLoopTidy ==
  ASSUME Tidy, NEW n, BackToLoop(n), certs => (n = sockfd \/ ~Talking), certs' = certs,
         ~Listening \/ n = sockfd \/ n = listenfd
  PROVE  Tidy'
<1>1. /\ fds' = [Close(n) EXCEPT ![listenfd] = "free"]
      /\ Close(n) \in [Fds -> {"std", "free", "listen", "client"}]
      /\ \A fd \in Fds : Close(n)[fd] = IF fd = n THEN "free" ELSE fds[fd]
  BY CloseFrees DEF BackToLoop, Tidy
<1>2. /\ fds' \in [Fds -> {"std", "free", "listen", "client"}]
      /\ \A fd \in Fds : fds'[fd] = IF fd \in {n, listenfd} THEN "free" ELSE fds[fd]
  BY <1>1
<1> QED
  BY <1>2 DEF Tidy, Talking

LEMMA TidyNext == ASSUME Tidy, [Next]_vars PROVE Tidy'
<1>1. CASE Halt
  BY <1>1, CloseFrees DEF Halt, Tidy, Listening, Talking, setup
<1>2. CASE Open
  BY <1>2, LowestFreeIsFree DEF Open, Tidy, Listening, Talking, setup
<1>3. CASE SelectStdin
  BY <1>3, CloseFrees DEF SelectStdin, Tidy, Listening, Talking, setup
<1>4. CASE Shelling
  BY <1>4 DEF Shelling, mainVars, fdVars, Tidy, Listening, Talking, setup
<1>5. CASE ExecuteNothing
  BY <1>5, BackToLoopTidy DEF ExecuteNothing, Talking, setup
<1>6. CASE ExecuteExit \/ Execute \/ ExecuteOverrun
  BY <1>6 DEF ExecuteExit, Execute, ExecuteOverrun, fdVars, Tidy, Listening, Talking, setup
<1>7. CASE Context
  BY <1>7 DEF Context, Tidy, Listening, Talking, setup
<1>8. CASE Socket
  BY <1>8, LowestFreeIsFree DEF Socket, Tidy, Listening, Talking, setup
<1>9. CASE End
  <2>1. /\ Close(sockfd) \in [Fds -> {"std", "free", "listen", "client"}]
        /\ \A fd \in Fds : Close(sockfd)[fd] = IF fd = sockfd THEN "free" ELSE fds[fd]
    BY CloseFrees DEF Tidy
  <2>2. pc = "end" /\ UNCHANGED <<listenfd, certs>>
    BY <1>9 DEF End, setup
  <2>3. CASE pc' = "undefined" /\ fds' = Close(sockfd)
    BY <2>1, <2>2, <2>3 DEF Tidy, Listening
  <2>4. CASE refill /\ pc' = "select" /\ fds' = Close(sockfd)
    BY <2>1, <2>2, <2>4 DEF Tidy, Listening
  <2>5. CASE ~refill /\ BackToLoop(sockfd)
    BY <2>2, <2>5, BackToLoopTidy DEF Listening
  <2> QED
    BY <1>9, <2>3, <2>4, <2>5 DEF End
<1>10. CASE SelectDatagram \/ SelectOther
  BY <1>10 DEF SelectDatagram, SelectOther, Selecting, fdVars, Tidy, Listening, Talking, setup
<1>11. CASE ServeFails \/ Talk
  <2>1. CASE ServeFails
    <3>1. fds' = fds /\ listenfd' = listenfd /\ certs' = certs /\ pc = "serve" /\ pc' = "loop"
      BY <2>1 DEF ServeFails, fdVars, setup
    <3>2. certs => cleanup'
      BY <2>1 DEF ServeFails
    <3> QED
      BY <3>1, <3>2 DEF Tidy, Listening, Talking
  <2>2. CASE Talk
    BY <2>2 DEF Talk, fdVars, Tidy, Listening, Talking, setup
  <2> QED
    BY <1>11, <2>1, <2>2
<1>12. CASE Serve
  BY <1>12, CloseFrees DEF Serve, Tidy, Listening, Talking, setup
<1>13. CASE Signal \/ Typist
  BY <1>13 DEF Signal, Typist, mainVars, fdVars, Tidy, Listening, Talking, setup
<1>14. CASE UNCHANGED vars
  BY <1>14 DEF vars, mainVars, fdVars, setup, Tidy, Listening, Talking
<1> QED
  BY <1>1, <1>2, <1>3, <1>4, <1>5, <1>6, <1>7, <1>8, <1>9, <1>10, <1>11, <1>12, <1>13, <1>14
     DEF Next, Main, Command, Client, Peer

\* Whatever way a round of main's loop ends, its sockets are closed by the time the next
\* one begins or the daemon has stopped, for every number of descriptors.
THEOREM SocketsClosed == Spec => []NoSocketLeft
<1>1. Tidy => NoSocketLeft
  BY DEF Tidy, Listening, Talking, NoSocketLeft
<1> QED
  BY <1>1, TidyInit, TidyNext, PTL DEF Spec

-----------------------------------------------------------------------------
(* Standard input, output and error.                                       *)

\* As long as 0, 1 and 2 are open no socket gets one of these numbers, and so none of
\* the later closes names one.  Before the first socket listenfd is 0, which only the
\* final cleanup would close.
Standard ==
  certs /\ side = "B" /\ pc # "stopped" =>
    /\ \A fd \in 0..2 : fds[fd] = "std"
    /\ listenfd \in 0..2 => pc = "loop"
    /\ sockfd \notin 0..2

LEMMA StandardInit == Init => Standard
BY ProcessAssumption DEF Init, Standard, Fds

\* What is closed elsewhere leaves the three alone.
LEMMA StandardClose ==
  ASSUME fds \in [Fds -> {"std", "free", "listen", "client"}],
         \A fd \in 0..2 : fds[fd] = "std", NEW n, n \notin 0..2
  PROVE  \A fd \in 0..2 : Close(n)[fd] = "std"
<1>1. 0..2 \subseteq Fds
  BY ProcessAssumption DEF Fds
<1> QED
  BY <1>1, CloseFrees

LEMMA BackToLoopStandard ==
  ASSUME fds \in [Fds -> {"std", "free", "listen", "client"}],
         \A fd \in 0..2 : fds[fd] = "std", NEW n, n \notin 0..2, listenfd \notin 0..2,
         BackToLoop(n)
  PROVE  pc' = "loop" /\ \A fd \in 0..2 : fds'[fd] = "std"
<1>1. /\ Close(n) \in [Fds -> {"std", "free", "listen", "client"}]
      /\ \A fd \in 0..2 : Close(n)[fd] = "std"
  BY CloseFrees, StandardClose
<1>2. 0..2 \subseteq Fds
  BY ProcessAssumption DEF Fds
<1> QED
  BY <1>1, <1>2 DEF BackToLoop

LEMMA StandardNext == ASSUME Tidy, Standard, [Next]_vars PROVE Standard'
<1> SUFFICES ASSUME certs', side' = "B", pc' # "stopped"
             PROVE  /\ \A fd \in 0..2 : fds'[fd] = "std"
                    /\ listenfd' \in 0..2 => pc' = "loop"
                    /\ sockfd' \notin 0..2
  BY DEF Standard
<1>0. UNCHANGED setup /\ pc # "stopped"
  <2>1. CASE Main \/ Client
    BY <2>1 DEF Main, Client, Halt, Open, SelectStdin, Context, Socket, End
  <2>2. CASE Command
    BY <2>2 DEF Command, Shelling, ExecuteNothing, ExecuteExit, Execute, ExecuteOverrun
  <2>3. CASE Peer
    BY <2>3 DEF Peer, SelectDatagram, SelectOther, Selecting, ServeFails, Serve, Talk
  <2>4. CASE Signal \/ Typist \/ UNCHANGED vars
    BY <2>4 DEF Signal, Typist, vars, mainVars
  <2> QED
    BY <2>1, <2>2, <2>3, <2>4 DEF Next
<1>1. /\ \A fd \in 0..2 : fds[fd] = "std"
      /\ listenfd \in 0..2 => pc = "loop"
      /\ sockfd \notin 0..2
  BY <1>0 DEF Standard, setup
<1>a. fds \in [Fds -> {"std", "free", "listen", "client"}] /\ 0..2 \subseteq Fds
  BY ProcessAssumption DEF Tidy, Fds
<1>b. LowestFree \notin 0..2
  BY <1>1, <1>a, LowestFreeIsFree
<1>2. CASE Halt
  BY <1>2 DEF Halt
<1>3. CASE Open
  <2>1. listenfd' = LowestFree \/ listenfd' = BindFailure
    BY <1>3 DEF Open
  <2>2. BindFailure = -1 /\ BindFailure \notin 0..2
    BY <1>0 DEF BindFailure, setup
  <2>3. fds' = fds \/ fds' = [fds EXCEPT ![LowestFree] = "listen"]
    BY <1>3 DEF Open
  <2>4. UNCHANGED sockfd
    BY <1>3 DEF Open
  <2> QED
    BY <1>1, <1>a, <1>b, <2>1, <2>2, <2>3, <2>4
<1>4. CASE SelectStdin \/ Serve
  BY <1>1, <1>a, <1>4, StandardClose DEF SelectStdin, Serve
<1>5. CASE Shelling \/ ExecuteExit \/ Execute \/ ExecuteOverrun
  BY <1>1, <1>5 DEF Shelling, ExecuteExit, Execute, ExecuteOverrun, mainVars, fdVars
<1>6. CASE ExecuteNothing
  BY <1>1, <1>a, <1>6, BackToLoopStandard DEF ExecuteNothing
<1>7. CASE Context
  BY <1>0, <1>1, <1>7 DEF Context, setup
<1>8. CASE Socket
  BY <1>1, <1>a, <1>b, <1>8 DEF Socket
<1>9. CASE End
  <2>1. listenfd \notin 0..2 /\ UNCHANGED listenfd /\ sockfd' = -1
    BY <1>1, <1>9 DEF End
  <2>2. fds' = Close(sockfd) \/ BackToLoop(sockfd)
    BY <1>9 DEF End
  <2> QED
    BY <1>1, <1>a, <2>1, <2>2, StandardClose, BackToLoopStandard
<1>10. CASE SelectDatagram \/ SelectOther \/ ServeFails \/ Talk
  BY <1>1, <1>10 DEF SelectDatagram, SelectOther, Selecting, ServeFails, Talk, fdVars
<1>11. CASE Signal \/ Typist
  BY <1>1, <1>11 DEF Signal, Typist, mainVars, fdVars
<1>12. CASE UNCHANGED vars
  BY <1>1, <1>12 DEF vars, mainVars, fdVars
<1> QED
  BY <1>2, <1>3, <1>4, <1>5, <1>6, <1>7, <1>8, <1>9, <1>10, <1>11, <1>12
     DEF Next, Main, Command, Client, Peer

\* compB never closes standard input, output or error by the number of a socket it has
\* closed before, for every number of descriptors, failing binds and SIGINTs.
THEOREM StandardStaysOpen == Spec => []StdioKept
<1>1. Standard => StdioKept
  BY DEF Standard, StdioKept
<1> QED
  BY <1>1, TidyInit, TidyNext, StandardInit, StandardNext, PTL DEF Spec

-----------------------------------------------------------------------------
(* The state.                                                              *)

\* What the builtins are called with.
Words == phase = "execute" => tokens \in Seq(Text)

LEMMA CountedNumber ==
  ASSUME Words, phase = "execute", Accepted, Counted
  PROVE  tokens[2] \in Seq(Int) /\ Number \in Ints /\ Number >= 0
<1>1. tokens \in Seq(Text) /\ 2 \in 1..Len(tokens) /\ Number >= 0
  BY LenProperties DEF Words, Accepted
<1>2. tokens[2] \in Seq(Nat)
  BY <1>1, ElementOfSeq DEF Text
<1>3. tokens[2] \in Seq(Int)
  BY <1>2, SeqMonotonic
<1> QED
  BY <1>1, <1>3, Str2NumIsInt DEF Number

\* A SEND leaves an inventory that is no larger and not negative.
LEMMA ExecuteStock ==
  ASSUME Words, inventory \in Stocks, Execute
  PROVE  inventory' \in Stocks
<1>1. CASE Builtin # "SEND"
  BY <1>1 DEF Execute
<1>2. CASE Builtin = "SEND"
  <2>1. Number \in Ints /\ Number >= 0 /\ Number <= inventory
    BY <1>2, CountedNumber DEF Execute, Accepted, Counted
  <2>2. inventory \in Int /\ Number \in Int
    BY <2>1, ProcessAssumption DEF Ints
  <2>3. inventory' = inventory - Number
    BY <1>2 DEF Execute
  <2>4. inventory' \in 0..inventory
    BY <2>1, <2>2, <2>3
  <2> QED
    BY <2>4, ProcessAssumption
<1> QED
  BY <1>1, <1>2

LEMMA TypeInit == Init => ProcessTypeOK
<1> SUFFICES ASSUME Init PROVE ProcessTypeOK
  OBVIOUS
<1>0. 0 \in Fds /\ Fds \subseteq Int /\ {MaxBindFailures, MaxSignals} \subseteq Nat
  BY ProcessAssumption DEF Fds
<1>1. fds \in [Fds -> {"std", "free", "listen", "client"}]
  BY DEF Init
<1>2. failures \in 0..MaxBindFailures /\ signals \in 0..MaxSignals
  BY <1>0 DEF Init
<1> QED
  BY <1>0, <1>1, <1>2, ProcessAssumption DEF Init, ProcessTypeOK

LEMMA TypeNext ==
  ASSUME ProcessTypeOK, Words, [Next]_vars
  PROVE  ProcessTypeOK'
<1> USE DEF ProcessTypeOK, setup, fdVars, mainVars
<1>0. Fds \subseteq Int /\ 0 \in Fds /\ 1 \in Fds /\ -1 \notin Fds /\ {MaxBindFailures, MaxSignals} \subseteq Nat
  BY ProcessAssumption DEF Fds
<1>1. CASE Halt
  BY <1>1, CloseFrees DEF Halt, Released
<1>2. CASE Open
  <2>1. /\ LowestFree \in Fds \cup {-1} /\ BindFailure \in Fds \cup {-1}
        /\ LowestFree # -1 => LowestFree \in Fds
    BY <1>0, LowestFreeIsFree DEF BindFailure
  <2>2. /\ listenfd' \in Fds \cup {-1} /\ failures' \in 0..MaxBindFailures
        /\ fds' \in [Fds -> {"std", "free", "listen", "client"}]
    BY <1>0, <1>2, <2>1 DEF Open
  <2>3. cleanup' \in BOOLEAN /\ stdin' \in BOOLEAN /\ refill' \in BOOLEAN
    BY <1>2 DEF Open
  <2>4. /\ pc' \in {"context", "select"}
        /\ UNCHANGED <<inventory, sockfd, count, side, certs, signals>>
    BY <1>2 DEF Open
  <2> QED
    BY <2>2, <2>3, <2>4
<1>3. CASE SelectStdin
  BY <1>3, CloseFrees DEF SelectStdin
<1>4. CASE Shelling
  BY <1>4 DEF Shelling
<1>5. CASE ExecuteNothing
  BY <1>5, CloseFrees DEF ExecuteNothing, BackToLoop
<1>6. CASE ExecuteExit \/ ExecuteOverrun
  BY <1>6 DEF ExecuteExit, ExecuteOverrun
<1>7. CASE Execute
  BY <1>7, ExecuteStock DEF Execute
<1>8. CASE Context
  BY <1>8 DEF Context, Acquired
<1>9. CASE Socket
  BY <1>9, LowestFreeIsFree DEF Socket
<1>10. CASE End
  <2>1. Close(sockfd) \in [Fds -> {"std", "free", "listen", "client"}]
    BY CloseFrees
  <2>2. fds' \in [Fds -> {"std", "free", "listen", "client"}]
    BY <1>10, <2>1 DEF End, BackToLoop
  <2>3. /\ pc' \in {"undefined", "select", "loop"} /\ sockfd' = -1 /\ refill' = FALSE
        /\ UNCHANGED <<cleanup, inventory, stdin, listenfd, failures, side, certs, signals>>
    BY <1>10 DEF End, BackToLoop
  <2>4. count' \in Nat
    BY <1>10 DEF End, Released
  <2> QED
    BY <2>2, <2>3, <2>4
<1>11. CASE SelectDatagram \/ SelectOther
  BY <1>11 DEF SelectDatagram, SelectOther, Selecting, Readable
<1>12. CASE ServeFails \/ Talk
  BY <1>12 DEF ServeFails, Talk
<1>13. CASE Serve
  BY <1>13, CloseFrees DEF Serve, Answer
<1>14. CASE Signal
  BY <1>0, <1>14 DEF Signal
<1>15. CASE Typist \/ UNCHANGED vars
  BY <1>15 DEF Typist, vars
<1> QED
  BY <1>1, <1>2, <1>3, <1>4, <1>5, <1>6, <1>7, <1>8, <1>9, <1>10, <1>11, <1>12, <1>13, <1>14,
     <1>15 DEF Next, Main, Command, Client, Peer

\* The shell's words, in the daemon.
LEMMA DaemonWords == Spec => []Words
<1>1. ShellInit => Split
  BY DEF ShellInit, Split
<1>2. Split => Words
  BY DEF Split, Words
<1> QED
  BY <1>1, <1>2, KeptInit, KeptNext, SplitNext, ProcessRunsShell, PTL DEF ShellSpec

\* The daemon's variables keep their types: its inventory stays an int and in the bounds,
\* whatever is typed, its descriptors are descriptors, and the count never falls below 0.
THEOREM ProcessTypes == Spec => []ProcessTypeOK
BY DaemonWords, TypeInit, TypeNext, PTL DEF Spec

-----------------------------------------------------------------------------
(* Messages.                                                               *)

\* What is said decrypts to what is meant.
LEMMA Said ==
  ASSUME NEW pair, NEW text \in Seq(Int), NEW end, Say(pair, text, end),
         pair = [op |-> pair.op, n |-> pair.n], pair.op \in MarkedCommands,
         \/ OneBlock(text) /\ Str2Num(text) = pair.n /\ ~(end = 0 /\ pair.op \in {"CHECK", "REFILL"})
         \/ end = 0 /\ pair.op \in {"CHECK", "REFILL"} /\ pair.n = 0
  PROVE  MessageMeansPair'
<1>1. PICK salt \in Salts :
        sent' = [message |-> Encrypt(pair.op, text, salt), end |-> end, meant |-> pair]
  BY DEF Say
<1>2. Decrypt(Encrypt(pair.op, text, salt), end) = pair
  BY MessagesDecrypt
<1> QED
  BY <1>1, <1>2 DEF MessageMeansPair

LEMMA ReplyMeant ==
  ASSUME NEW stock \in Ints, NEW req \in Requests, req.op # "SEND",
         Say(ServedReply(stock, req), Num2Str(ServedReply(stock, req).n), 1)
  PROVE  MessageMeansPair'
<1> DEFINE reply == ServedReply(stock, req)
<1>0. MaxInt \in Nat
  BY Widths
<1>1. /\ req = [op |-> req.op, n |-> req.n] /\ req.op \in {"REQUEST", "CHECK", "REFILL"}
      /\ req.n \in Ints
  BY ProcessAssumption DEF Commands
<1>2. /\ reply = [op |-> reply.op, n |-> reply.n] /\ reply.n \in Ints
      /\ reply.op \in MarkedCommands
  BY <1>0, <1>1, ProcessAssumption DEF ServedReply, Insufficient, MarkedCommands, Ints
<1> HIDE DEF reply
<1>3. /\ Num2Str(reply.n) \in Seq(Int) /\ OneBlock(Num2Str(reply.n))
      /\ Str2Num(Num2Str(reply.n)) = reply.n
  BY <1>2, Num2StrText, Str2NumOfInt, BlockAssumption DEF OneBlock
<1>4. Say(reply, Num2Str(reply.n), 1)
  BY DEF reply
<1> QED
  BY <1>2, <1>3, <1>4, Said

LEMMA MeansNext ==
  ASSUME ProcessTypeOK, Words, MessageMeansPair, [Next]_vars
  PROVE  MessageMeansPair'
<1>1. CASE sent' = sent \/ sent' = Nothing
  BY <1>1 DEF MessageMeansPair
<1>2. CASE Open /\ inventory = 0
  <2> DEFINE pair == [op |-> "REFILL", n |-> 0]
  <2>1. Say(pair, Num2Str(RefillAmount), 0)
    BY <1>2 DEF Open
  <2>2. Num2Str(RefillAmount) \in Seq(Int) /\ pair.op \in MarkedCommands
    BY Num2StrText, ProcessAssumption DEF MarkedCommands
  <2> QED
    BY <2>1, <2>2, Said
<1>3. CASE Execute
  <2> DEFINE pair == [op |-> Builtin, n |-> IF Counted THEN Number ELSE 0]
             text == IF Counted THEN tokens[2] ELSE <<>>
  <2>1. Say(pair, text, 0) /\ Builtin \in Commands
    BY <1>3 DEF Execute, Accepted
  <2>2. Builtin \in MarkedCommands /\ (~Counted => Builtin \in {"CHECK", "REFILL"})
    BY <2>1 DEF Commands, MarkedCommands, Counted
  <2>3. CASE Counted
    <3>1. tokens[2] \in Seq(Int) /\ OneBlock(tokens[2]) /\ Str2Num(tokens[2]) = Number
      BY <1>3, <2>3, CountedNumber DEF Execute, Number
    <3>2. Builtin \notin {"CHECK", "REFILL"}
      BY <2>3 DEF Counted
    <3> QED
      BY <2>1, <2>2, <2>3, <3>1, <3>2, Said
  <2>4. CASE ~Counted
    <3>1. text = <<>> /\ pair.n = 0 /\ pair.op \in {"CHECK", "REFILL"} /\ <<>> \in Seq(Int)
      BY <2>2, <2>4
    <3>2. pair = [op |-> pair.op, n |-> pair.n] /\ pair.op \in MarkedCommands
      BY <2>2
    <3> HIDE DEF pair, text
    <3> QED
      BY <2>1, <3>1, <3>2, Said
  <2> QED
    BY <2>3, <2>4
<1>4. CASE Serve
  <2>1. inventory \in Ints
    BY ProcessAssumption DEF ProcessTypeOK
  <2>2. \/ sent' = sent
        \/ \E req \in Requests :
             req.op # "SEND" /\ Say(ServedReply(inventory, req), Num2Str(ServedReply(inventory, req).n), 1)
    BY <1>4 DEF Serve, Answer
  <2> QED
    BY <1>1, <2>1, <2>2, ReplyMeant
<1>5. CASE Next /\ ~(Open /\ inventory = 0) /\ ~Execute /\ ~Serve
  BY <1>1, <1>5 DEF Next, Main, Command, Client, Peer, Halt, Open, SelectStdin, Shelling,
     ExecuteNothing, ExecuteExit, ExecuteOverrun, Context, Socket, End, SelectDatagram, SelectOther,
     ServeFails, Talk, Signal, Typist, mainVars
<1>6. CASE UNCHANGED vars
  BY <1>1, <1>6 DEF vars, mainVars
<1> QED
  BY <1>2, <1>3, <1>4, <1>5, <1>6

\* The other side decrypts the command and the number that this side acted on, for every
\* number and text that fits in a block, every width of a machine word and every salt.
THEOREM MessagesMeanPairs == Spec => []MessageMeansPair
<1>1. Init => MessageMeansPair
  BY DEF Init, MessageMeansPair
<1> QED
  BY <1>1, MeansNext, DaemonWords, ProcessTypes, PTL DEF Spec
=============================================================================
