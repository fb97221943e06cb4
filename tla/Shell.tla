------------------------------- MODULE Shell -------------------------------
(***************************************************************************)
(* The shell of simpleUDP (cli/input.c, cli/tokenize.c, cli/shell_loop.c): *)
(* characters come from the kernel through stdio's buffer into a line that *)
(* grows, which strtok cuts into an array of tokens that grows.  Standard  *)
(* input is a terminal, which hands out a line at a time, or a pipe.       *)
(* Characters are their codes.                                             *)
(***************************************************************************)
EXTENDS Integers, Sequences, SequencesExt

CONSTANTS LineSize,      \* LSH_RL_BUFSIZE, 1024
          TokenSize,     \* LSH_TOK_BUFSIZE, 64
          StdioSize,     \* stdio's own buffer
          Lines,         \* what may be typed at a time on a terminal: whole lines
          Chunks,        \* what may be written at a time to a pipe
          MaxTyped       \* bound on the characters typed

Nul == 0
Newline == 10
Delimiters == {32, 9, 13, 10, 7}

ASSUME ShellAssumption ==
  /\ {LineSize, TokenSize, StdioSize} \subseteq Nat \ {0}
  /\ MaxTyped \in Nat
  /\ Lines \cup Chunks \subseteq Seq(Nat)

VARIABLES
  source,     \* "tty" or "pipe"
  typed,      \* characters the kernel holds
  closed,     \* the writer of the pipe has closed it
  stdio,      \* characters read and not yet returned by getchar
  phase,      \* idle, read (shell_read_line), split (shell_split_line), execute
  line,       \* what buffer holds, position being its length
  room,       \* bufsize of the line
  scan,       \* where strtok goes on
  tokens,     \* what the array holds, position being its length
  slots,      \* bufsize of the array
  input,      \* history: everything typed
  ran         \* history: everything that was executed, newlines included

ttyVars == <<source, typed, closed, input>>
lineVars == <<stdio, line, room>>
tokenVars == <<scan, tokens, slots>>
shellVars == <<ttyVars, lineVars, tokenVars, phase, ran>>

ShellInit ==
  /\ source \in {"tty", "pipe"}
  /\ typed = <<>> /\ closed = FALSE /\ stdio = <<>> /\ input = <<>>
  /\ phase = "idle" /\ line = <<>> /\ room = LineSize
  /\ scan = 1 /\ tokens = <<>> /\ slots = TokenSize
  /\ ran = <<>>

-----------------------------------------------------------------------------
(* The other end of standard input.                                        *)

Type ==
  /\ ~closed
  /\ \E s \in IF source = "tty" THEN Lines ELSE Chunks :
       /\ Len(input) + Len(s) <= MaxTyped
       /\ typed' = typed \o s
       /\ input' = input \o s
  /\ UNCHANGED <<source, closed, lineVars, tokenVars, phase, ran>>

Hangup ==
  /\ source = "pipe" /\ ~closed
  /\ closed' = TRUE
  /\ UNCHANGED <<source, typed, input, lineVars, tokenVars, phase, ran>>

\* select reports standard input for what the kernel holds, not for what stdio does.
Readable == typed # <<>> \/ closed

-----------------------------------------------------------------------------
(* shell_read_line.                                                        *)

Call ==
  /\ phase = "idle"
  /\ phase' = "read" /\ line' = <<>> /\ room' = LineSize
  /\ UNCHANGED <<ttyVars, stdio, tokenVars, ran>>

\* What one read() returns: of a terminal no more than a line.
Chunk ==
  LET eol == SelectInSeq(typed, LAMBDA c : c = Newline)
      most == IF source = "tty" /\ eol # 0 THEN eol ELSE Len(typed)
  IN  IF most < StdioSize THEN most ELSE StdioSize

\* getchar with an empty buffer.
Fill ==
  /\ phase = "read" /\ stdio = <<>> /\ typed # <<>>
  /\ stdio' = SubSeq(typed, 1, Chunk)
  /\ typed' = SubSeq(typed, Chunk + 1, Len(typed))
  /\ UNCHANGED <<source, closed, input, phase, line, room, tokenVars, ran>>

StoreUnchecked ==        \* mutant: `position > bufsize'
  /\ phase = "read" /\ stdio # <<>> /\ Head(stdio) # Newline
  /\ line' = Append(line, Head(stdio))
  /\ stdio' = Tail(stdio)
  /\ room' = IF Len(line) + 1 > room THEN room + LineSize ELSE room
  /\ UNCHANGED <<ttyVars, phase, tokenVars, ran>>

\* buffer[position] = c; position++; and the buffer grows if position has reached it.
Store ==
  /\ phase = "read" /\ stdio # <<>> /\ Head(stdio) # Newline
  /\ line' = Append(line, Head(stdio))
  /\ stdio' = Tail(stdio)
  /\ room' = IF Len(line) + 1 >= room THEN room + LineSize ELSE room
  /\ UNCHANGED <<ttyVars, phase, tokenVars, ran>>

\* buffer[position] = '\0'; the line is executed before anything else is read.
Finish(end) ==
  /\ phase' = "split" /\ scan' = 1 /\ tokens' = <<>> /\ slots' = TokenSize
  /\ ran' = ran \o line \o end
  /\ UNCHANGED <<ttyVars, line, room>>

EndLineFlushed ==        \* mutant: what stdio holds after the newline is thrown away
  /\ phase = "read" /\ stdio # <<>> /\ Head(stdio) = Newline
  /\ stdio' = <<>>
  /\ Finish(<<Newline>>)

EndLine ==
  /\ phase = "read" /\ stdio # <<>> /\ Head(stdio) = Newline
  /\ stdio' = Tail(stdio)
  /\ Finish(<<Newline>>)

\* EOF, or a SIGINT that interrupts the read(), ends the line where it is.
CutLine ==
  /\ phase = "read" /\ stdio = <<>> /\ typed = <<>>
  /\ Finish(<<>>)
  /\ UNCHANGED stdio

-----------------------------------------------------------------------------
(* shell_split_line.                                                       *)

\* The string that strtok gets ends at the first '\0', also one that was typed.
Visible ==
  LET nul == SelectInSeq(line, LAMBDA c : c = Nul)
  IN  IF nul = 0 THEN line ELSE SubSeq(line, 1, nul - 1)

Rest == SubSeq(Visible, scan, Len(Visible))

\* strtok: from the first character that is no delimiter to the next one that is.
Start == SelectInSeq(Rest, LAMBDA c : c \notin Delimiters)
WordToBlank ==           \* mutant: only a blank ends a token
  LET from == SubSeq(Rest, Start, Len(Rest))
      stop == SelectInSeq(from, LAMBDA c : c = 32)
  IN  IF stop = 0 THEN from ELSE SubSeq(from, 1, stop - 1)

Word ==
  LET from == SubSeq(Rest, Start, Len(Rest))
      stop == SelectInSeq(from, LAMBDA c : c \in Delimiters)
  IN  IF stop = 0 THEN from ELSE SubSeq(from, 1, stop - 1)

TokenUnchecked ==        \* mutant: the array does not grow
  /\ phase = "split" /\ Start # 0
  /\ tokens' = Append(tokens, Word)
  /\ scan' = scan + Start + Len(Word)
  /\ UNCHANGED <<slots, ttyVars, lineVars, phase, ran>>

Token ==
  /\ phase = "split" /\ Start # 0
  /\ tokens' = Append(tokens, Word)
  /\ scan' = scan + Start + Len(Word)
  /\ slots' = IF Len(tokens) + 1 >= slots THEN slots + TokenSize ELSE slots
  /\ UNCHANGED <<ttyVars, lineVars, phase, ran>>

\* tokens[position] = NULL.
EndTokens ==
  /\ phase = "split" /\ Start = 0
  /\ phase' = "execute"
  /\ UNCHANGED <<ttyVars, lineVars, tokenVars, ran>>

\* shell_execute has run the command: line and args are freed.
Return ==
  /\ phase = "execute"
  /\ phase' = "idle" /\ line' = <<>> /\ room' = LineSize
  /\ tokens' = <<>> /\ slots' = TokenSize /\ scan' = 1
  /\ UNCHANGED <<ttyVars, stdio, ran>>

ShellSteps == Fill \/ Store \/ EndLine \/ Token \/ EndTokens
ShellNext == Type \/ Hangup \/ Call \/ ShellSteps \/ CutLine \/ Return

ShellSpec == ShellInit /\ [][ShellNext]_shellVars

-----------------------------------------------------------------------------
(* Properties.                                                             *)

\* Every write is inside its buffer, the '\0' and the NULL that end them included
\* (input.c:23, 26; tokenize.c:18, 32): the growth tests leave one element free.
IndicesInBounds ==
  /\ phase = "read" => Len(line) < room
  /\ phase = "split" => Len(line) < room /\ Len(tokens) < slots

\* No character typed is lost, repeated or moved by the three buffers it passes: kernel,
\* stdio, line (input.c:17, shell_loop.c:12-14).  What a line has after a '\0' is in it,
\* but not in its words.
NothingTypedIsLost ==
  input = ran \o (IF phase = "read" THEN line ELSE <<>>) \o stdio \o typed

\* The tokens a command is run with are the words of its line up to a typed '\0': all of
\* them, in order, none joined or cut (tokenize.c:16-32).
InWord(i) ==
  i \in DOMAIN line /\ line[i] \notin Delimiters /\ \A j \in 1..i : line[j] # Nul
Starts == {i \in DOMAIN line : InWord(i) /\ ~InWord(i - 1)}
WordAt(w, i) ==
  /\ w # <<>> /\ ~InWord(i + Len(w))
  /\ \A j \in DOMAIN w : InWord(i + j - 1) /\ w[j] = line[i + j - 1]
TokensAreWords ==
  phase = "execute" =>
    /\ Len(tokens) = Cardinality(Starts)
    /\ \A i \in Starts : WordAt(tokens[Cardinality({j \in Starts : j <= i})], i)
=============================================================================
