---------------------------- MODULE Shell_proofs ----------------------------
(* Theorems of Shell, for buffers of every size and everything typed.      *)
EXTENDS Shell, SequenceTheorems, FiniteSetTheorems, WellFoundedInduction, TLAPS

-----------------------------------------------------------------------------
(* The growth of the two buffers.                                          *)

IsSequence(s) == \E S : s \in Seq(S)

LEMMA EmptyIsSequence == IsSequence(<<>>) /\ Len(<<>>) = 0
<1>1. <<>> \in Seq({})
  OBVIOUS
<1> QED
  BY <1>1 DEF IsSequence

\* Whatever is put behind a sequence, the result is one that is longer by one.
LEMMA AppendGrows ==
  ASSUME NEW s, IsSequence(s), NEW e
  PROVE  IsSequence(Append(s, e)) /\ Len(s) \in Nat /\ Len(Append(s, e)) = Len(s) + 1
<1>1. PICK S : s \in Seq(S)
  BY DEF IsSequence
<1>2. s \in Seq(S \cup {e})
  BY <1>1
<1>3. Append(s, e) \in Seq(S \cup {e})
  BY <1>2
<1> QED
  BY <1>2, <1>3 DEF IsSequence

\* While a buffer is filled its position is below its size; the line keeps its place
\* until it is cut into tokens.
LineFits ==
  /\ room \in Nat /\ IsSequence(line)
  /\ phase \in {"read", "split"} => Len(line) < room
TokensFit ==
  /\ slots \in Nat /\ IsSequence(tokens)
  /\ phase = "split" => Len(tokens) < slots
Fits == LineFits /\ TokensFit

LEMMA FitsInit == ShellInit => Fits
BY ShellAssumption, EmptyIsSequence DEF ShellInit, Fits, LineFits, TokensFit

LEMMA StoreFits == ASSUME Fits, Store PROVE Fits'
<1>1. /\ IsSequence(line') /\ Len(line) \in Nat /\ Len(line') = Len(line) + 1
  BY AppendGrows DEF Fits, LineFits, Store
<1>2. LineFits'
  BY <1>1, ShellAssumption DEF Fits, LineFits, Store
<1>3. TokensFit'
  BY DEF Fits, TokensFit, Store, tokenVars
<1> QED
  BY <1>2, <1>3 DEF Fits

LEMMA TokenFits == ASSUME Fits, Token PROVE Fits'
<1>1. /\ IsSequence(tokens') /\ Len(tokens) \in Nat /\ Len(tokens') = Len(tokens) + 1
  BY AppendGrows DEF Fits, TokensFit, Token
<1>2. TokensFit'
  BY <1>1, ShellAssumption DEF Fits, TokensFit, Token
<1>3. LineFits'
  BY DEF Fits, LineFits, Token, lineVars
<1> QED
  BY <1>2, <1>3 DEF Fits

LEMMA FinishFits == ASSUME Fits, phase = "read", NEW end, Finish(end) PROVE Fits'
<1>1. LineFits'
  BY DEF Fits, LineFits, Finish
<1>2. TokensFit'
  BY ShellAssumption, EmptyIsSequence DEF TokensFit, Finish
<1> QED
  BY <1>1, <1>2 DEF Fits

LEMMA FitsNext == ASSUME Fits, [ShellNext]_shellVars PROVE Fits'
<1>1. CASE Type \/ Hangup
  BY <1>1 DEF Type, Hangup, Fits, LineFits, TokensFit, lineVars, tokenVars
<1>2. CASE Call
  <2>1. LineFits'
    BY <1>2, ShellAssumption, EmptyIsSequence DEF Call, LineFits
  <2>2. TokensFit'
    BY <1>2 DEF Call, Fits, TokensFit, tokenVars
  <2> QED
    BY <2>1, <2>2 DEF Fits
<1>3. CASE Fill
  BY <1>3 DEF Fill, Fits, LineFits, TokensFit, tokenVars
<1>4. CASE Store
  BY <1>4, StoreFits
<1>5. CASE EndLine \/ CutLine
  BY <1>5, FinishFits DEF EndLine, CutLine
<1>6. CASE Token
  BY <1>6, TokenFits
<1>7. CASE EndTokens
  BY <1>7 DEF EndTokens, Fits, LineFits, TokensFit, lineVars, tokenVars
<1>8. CASE Return
  BY <1>8, ShellAssumption, EmptyIsSequence DEF Return, Fits, LineFits, TokensFit
<1>9. CASE UNCHANGED shellVars
  BY <1>9 DEF shellVars, lineVars, tokenVars, Fits, LineFits, TokensFit
<1> QED
  BY <1>1, <1>2, <1>3, <1>4, <1>5, <1>6, <1>7, <1>8, <1>9 DEF ShellNext, ShellSteps

LEMMA FitsBounds == Fits => IndicesInBounds
BY DEF Fits, LineFits, TokensFit, IndicesInBounds

\* No write of shell_read_line or shell_split_line is past the end of its buffer, the
\* final '\0' and NULL included (input.c:23-32, tokenize.c:18-32).
THEOREM ShellBounds == ShellSpec => []IndicesInBounds
<1> QED
  BY FitsInit, FitsNext, FitsBounds, PTL DEF ShellSpec
-----------------------------------------------------------------------------
(* The three buffers a character passes.                                   *)

\* A set of positions has a least one: the order of the naturals is well-founded.
LEMMA LeastIndex ==
  ASSUME NEW I \in SUBSET Nat, I # {}
  PROVE  \E m \in I : \A k \in I : m <= k
<1> DEFINE R == OpToRel(<, Nat)
<1>1. IsWellFoundedOn(R, Nat)
  BY NatLessThanWellFounded
<1>2. PICK m \in I : \A k \in I : ~(<<k, m>> \in R)
  <2> HIDE DEF R
  <2> QED
    BY <1>1, WFMin
<1>3. \A k \in I : <<k, m>> \in R <=> k < m
  BY DEF OpToRel
<1> HIDE DEF R
<1>4. \A k \in I : ~(k < m)
  BY <1>2, <1>3, Zenon
<1>5. m \in Nat /\ \A k \in I : k \in Nat
  OBVIOUS
<1>6. \A k \in I : m <= k
  BY <1>4, <1>5, SMT
<1> QED
  BY <1>6

Text == Seq(Nat)

\* read() takes no more than there is.
LEMMA ChunkBounds == ASSUME typed \in Text PROVE Chunk \in 0..Len(typed)
<1> DEFINE I == {i \in 1..Len(typed) : typed[i] = Newline}
           eol == SelectInSeq(typed, LAMBDA c : c = Newline)
<1>1. eol = IF I # {} THEN Min(I) ELSE 0
  BY DEF SelectInSeq
<1>2. Len(typed) \in Nat
  BY DEF Text
<1>3. I # {} => Min(I) \in I
  <2> SUFFICES ASSUME I # {} PROVE Min(I) \in I
    OBVIOUS
  <2>1. I \in SUBSET Nat
    BY <1>2
  <2>2. \E m \in I : \A k \in I : m <= k
    <3> HIDE DEF I
    <3> QED
      BY <2>1, LeastIndex
  <2> HIDE DEF I
  <2> QED
    BY <2>2 DEF Min
<1>4. eol \in 0..Len(typed)
  BY <1>1, <1>2, <1>3
<1> HIDE DEF eol
<1>5. Chunk = LET most == IF source = "tty" /\ eol # 0 THEN eol ELSE Len(typed)
              IN  IF most < StdioSize THEN most ELSE StdioSize
  BY DEF Chunk, eol
<1> QED
  BY <1>2, <1>4, <1>5, ShellAssumption

\* Reading a character, and putting it behind the line, leaves line and buffer as one text.
LEMMA HeadThenTail ==
  ASSUME NEW s \in Text, s # <<>>
  PROVE  /\ Head(s) \in Nat /\ Tail(s) \in Text /\ <<Head(s)>> \in Text
         /\ <<Head(s)>> \o Tail(s) = s
<1>1. Len(s) \in Nat \ {0}
  BY EmptySeq DEF Text
<1>2. SubSeq(s, 1, Len(s)) = <<s[1]>> \o SubSeq(s, 2, Len(s))
  BY <1>1, SubSeqRecursiveFirst DEF Text
<1>3. SubSeq(s, 1, Len(s)) = s
  BY SubSeqFull DEF Text
<1>4. Tail(s) = SubSeq(s, 2, Len(s)) /\ Head(s) = s[1]
  BY TailIsSubSeq DEF Text
<1>5. Head(s) \in Nat /\ Tail(s) \in Text
  BY HeadTailProperties DEF Text
<1> QED
  BY <1>2, <1>3, <1>4, <1>5 DEF Text

\* What is in the line and not executed yet.
Held == IF phase = "read" THEN line ELSE <<>>

\* The four parts are texts, and together they are what was typed.
Kept ==
  /\ typed \in Text /\ stdio \in Text /\ line \in Text /\ ran \in Text /\ input \in Text
  /\ input = ran \o (Held \o (stdio \o typed))

LEMMA TextConcat ==
  /\ <<>> \in Text
  /\ \A s, t \in Text : s \o t \in Text
  /\ \A s \in Text : s \o <<>> = s /\ <<>> \o s = s
  /\ \A s, t, u \in Text : (s \o t) \o u = s \o (t \o u)
BY EmptySeq, ConcatProperties, ConcatEmptySeq, ConcatAssociative DEF Text

LEMMA Regroup ==
  ASSUME NEW s \in Text, NEW t \in Text, NEW u \in Text
  PROVE  (s \o t) \o u = s \o (t \o u)
BY TextConcat, ZenonT(30)

LEMMA KeptInit == ShellInit => Kept
BY TextConcat DEF ShellInit, Kept, Held

LEMMA TypeKept == ASSUME Kept, Type PROVE Kept'
<1>1. PICK s \in Lines \cup Chunks : typed' = typed \o s /\ input' = input \o s
  BY DEF Type
<1>2. s \in Text
  BY <1>1, ShellAssumption DEF Text
<1>3. /\ UNCHANGED <<stdio, line, ran, phase>> /\ Held' = Held /\ Held \in Text
  BY TextConcat DEF Type, lineVars, Held, Kept
<1> HIDE DEF Held
<1>4. typed' \in Text /\ stdio' \in Text /\ line' \in Text /\ ran' \in Text /\ input' \in Text
  BY <1>1, <1>2, <1>3, TextConcat DEF Kept
<1>5. ran \in Text /\ stdio \in Text /\ typed \in Text
  BY DEF Kept
<1>6. stdio \o typed \in Text /\ Held \o (stdio \o typed) \in Text
  BY <1>3, <1>5, TextConcat
<1>7. stdio \o (typed \o s) = (stdio \o typed) \o s
  <2>1. stdio \in Text /\ typed \in Text /\ s \in Text
    BY <1>2, <1>5
  <2> QED
    BY <2>1, Regroup, ZenonT(30)
<1>8. Held \o ((stdio \o typed) \o s) = (Held \o (stdio \o typed)) \o s
  <2>1. Held \in Text /\ stdio \o typed \in Text /\ s \in Text
    BY <1>2, <1>3, <1>6
  <2> QED
    BY <2>1, Regroup, ZenonT(30)
<1>9. ran \o ((Held \o (stdio \o typed)) \o s) = (ran \o (Held \o (stdio \o typed))) \o s
  <2>1. ran \in Text /\ Held \o (stdio \o typed) \in Text /\ s \in Text
    BY <1>2, <1>5, <1>6
  <2> QED
    BY <2>1, Regroup, ZenonT(30)
<1>10. input' = ran' \o (Held' \o (stdio' \o typed'))
  BY <1>1, <1>3, <1>7, <1>8, <1>9 DEF Kept
<1> QED
  BY <1>4, <1>10 DEF Kept

LEMMA FillKept == ASSUME Kept, Fill PROVE Kept'
<1>1. Chunk \in 0..Len(typed) /\ Len(typed) \in Nat
  BY ChunkBounds DEF Kept, Text
<1>2. stdio' \o typed' = SubSeq(typed, 1, Len(typed))
  <2>1. typed \in Seq(Nat) /\ 1 \in 1..Len(typed) + 1
    BY <1>1 DEF Kept, Text
  <2>2. Chunk \in 1 - 1..Len(typed) /\ Len(typed) \in Chunk..Len(typed)
    BY <1>1
  <2>3. SubSeq(typed, 1, Chunk) \o SubSeq(typed, Chunk + 1, Len(typed))
        = SubSeq(typed, 1, Len(typed))
    BY <2>1, <2>2, ConcatAdjacentSubSeq
  <2> QED
    BY <2>3 DEF Fill
<1>3. SubSeq(typed, 1, Len(typed)) = typed
  BY SubSeqFull DEF Kept, Text
<1>4. \A i \in 1..Len(typed) : typed[i] \in Nat
  BY <1>1, ElementOfSeq DEF Kept, Text
<1>5. stdio' \in Text /\ typed' \in Text
  BY <1>1, <1>4, SubSeqProperties DEF Fill, Text
<1>6. stdio \o typed = typed
  BY TextConcat DEF Fill, Kept
<1>7. UNCHANGED <<input, line, ran, phase>> /\ Held' = Held
  BY DEF Fill, Held
<1> QED
  BY <1>2, <1>3, <1>5, <1>6, <1>7 DEF Kept

LEMMA StoreKept == ASSUME Kept, Store PROVE Kept'
<1> DEFINE c == Head(stdio)
<1>1. /\ c \in Nat /\ stdio' \in Text /\ <<c>> \in Text /\ <<c>> \o stdio' = stdio
  BY HeadThenTail DEF Store, Kept
<1>2. line' = line \o <<c>>
  BY <1>1, AppendIsConcat DEF Store, Kept, Text
<1>3. Held = line /\ Held' = line' /\ UNCHANGED <<typed, input, ran>>
  BY DEF Store, Held, ttyVars
<1> HIDE DEF c
<1>4. line' \in Text
  BY <1>1, <1>2, TextConcat DEF Kept
<1>5. line \in Text /\ typed \in Text
  BY DEF Kept
<1>6. stdio' \o typed \in Text
  BY <1>1, <1>5, TextConcat
<1>7. (line \o <<c>>) \o (stdio' \o typed) = line \o (<<c>> \o (stdio' \o typed))
  <2>1. line \in Text /\ <<c>> \in Text /\ stdio' \o typed \in Text
    BY <1>1, <1>5, <1>6
  <2> QED
    BY <2>1, Regroup, ZenonT(30)
<1>8. (<<c>> \o stdio') \o typed = <<c>> \o (stdio' \o typed)
  <2>1. <<c>> \in Text /\ stdio' \in Text /\ typed \in Text
    BY <1>1, <1>5
  <2> QED
    BY <2>1, Regroup, ZenonT(30)
<1>9. line' \o (stdio' \o typed) = line \o (stdio \o typed)
  BY <1>1, <1>2, <1>7, <1>8
<1> QED
  BY <1>1, <1>3, <1>4, <1>9 DEF Kept

LEMMA EndLineKept == ASSUME Kept, EndLine PROVE Kept'
<1> DEFINE nl == <<Newline>>
<1>1. nl \in Text /\ stdio' \in Text /\ nl \o stdio' = stdio
  BY HeadThenTail DEF EndLine, Kept
<1>2. ran' = (ran \o line) \o nl /\ Held = line /\ Held' = <<>>
  BY DEF EndLine, Finish, Held
<1>3. UNCHANGED <<typed, input, line>>
  BY DEF EndLine, Finish, ttyVars
<1> HIDE DEF nl
<1>4. ran' \in Text /\ stdio' \o typed \in Text /\ ran \o line \in Text
  BY <1>1, <1>2, TextConcat DEF Kept
<1>5. Held' \o (stdio' \o typed) = stdio' \o typed
  BY <1>2, <1>4, TextConcat
<1>6. ((ran \o line) \o nl) \o (stdio' \o typed) = (ran \o line) \o (nl \o (stdio' \o typed))
  BY <1>1, <1>4, TextConcat
<1>7. ran \in Text /\ line \in Text /\ stdio \in Text /\ typed \in Text
  BY DEF Kept
<1>8. stdio \o typed \in Text
  BY <1>7, TextConcat
<1>9. (nl \o stdio') \o typed = nl \o (stdio' \o typed)
  <2>1. nl \in Text /\ stdio' \in Text /\ typed \in Text
    BY <1>1, <1>7
  <2> QED
    BY <2>1, Regroup, ZenonT(30)
<1>10. (ran \o line) \o (stdio \o typed) = ran \o (line \o (stdio \o typed))
  <2>1. ran \in Text /\ line \in Text /\ stdio \o typed \in Text
    BY <1>7, <1>8
  <2> QED
    BY <2>1, Regroup, ZenonT(30)
<1>11. input' = ran' \o (Held' \o (stdio' \o typed'))
  BY <1>1, <1>2, <1>3, <1>5, <1>6, <1>9, <1>10 DEF Kept
<1> QED
  BY <1>1, <1>3, <1>4, <1>11 DEF Kept

LEMMA CutLineKept == ASSUME Kept, CutLine PROVE Kept'
<1>1. /\ stdio = <<>> /\ typed = <<>> /\ ran' = (ran \o line) \o <<>>
      /\ Held = line /\ Held' = <<>> /\ UNCHANGED <<stdio, typed, input, line>>
  BY DEF CutLine, Finish, Held, ttyVars
<1>2. ran' = ran \o line /\ ran' \in Text
  BY <1>1, TextConcat DEF Kept
<1>3. input = ran \o line
  BY <1>1, TextConcat DEF Kept
<1>4. ran' \o (Held' \o (stdio' \o typed')) = ran'
  BY <1>1, <1>2, TextConcat
<1> QED
  BY <1>1, <1>2, <1>3, <1>4 DEF Kept

LEMMA KeptNext == ASSUME Kept, [ShellNext]_shellVars PROVE Kept'
<1>1. CASE Type
  BY <1>1, TypeKept
<1>2. CASE Hangup
  BY <1>2 DEF Hangup, Kept, Held, lineVars
<1>3. CASE Call
  BY <1>3, TextConcat DEF Call, Kept, Held, ttyVars
<1>4. CASE Fill
  BY <1>4, FillKept
<1>5. CASE Store
  BY <1>5, StoreKept
<1>6. CASE EndLine
  BY <1>6, EndLineKept
<1>7. CASE CutLine
  BY <1>7, CutLineKept
<1>8. CASE Token
  BY <1>8 DEF Token, Kept, Held, ttyVars, lineVars
<1>9. CASE EndTokens
  BY <1>9 DEF EndTokens, Kept, Held, ttyVars, lineVars
<1>10. CASE Return
  BY <1>10, TextConcat DEF Return, Kept, Held, ttyVars
<1>11. CASE UNCHANGED shellVars
  BY <1>11 DEF shellVars, ttyVars, lineVars, Kept, Held
<1> QED
  BY <1>1, <1>2, <1>3, <1>4, <1>5, <1>6, <1>7, <1>8, <1>9, <1>10, <1>11 DEF ShellNext, ShellSteps

LEMMA KeptIsNothingLost == Kept => NothingTypedIsLost
<1> SUFFICES ASSUME Kept PROVE NothingTypedIsLost
  OBVIOUS
<1>1. Held \in Text
  BY TextConcat DEF Kept, Held
<1>2. ran \in Text /\ stdio \in Text /\ typed \in Text
  BY DEF Kept
<1> HIDE DEF Held
<1>3. ran \o Held \in Text /\ stdio \o typed \in Text
  BY <1>1, <1>2, TextConcat
<1>4. ((ran \o Held) \o stdio) \o typed = (ran \o Held) \o (stdio \o typed)
  <2>1. ran \o Held \in Text /\ stdio \in Text /\ typed \in Text
    BY <1>2, <1>3
  <2> QED
    BY <2>1, Regroup, ZenonT(30)
<1>5. (ran \o Held) \o (stdio \o typed) = ran \o (Held \o (stdio \o typed))
  <2>1. ran \in Text /\ Held \in Text /\ stdio \o typed \in Text
    BY <1>1, <1>2, <1>3
  <2> QED
    BY <2>1, Regroup, ZenonT(30)
<1> QED
  BY <1>4, <1>5 DEF Kept, NothingTypedIsLost, Held

\* Whatever is typed and however it is cut into reads, every character is executed, held
\* in the line, in stdio or in the kernel, in the order typed (input.c:17).
THEOREM ShellKeepsText == ShellSpec => []NothingTypedIsLost
<1> QED
  BY KeptInit, KeptNext, KeptIsNothingLost, PTL DEF ShellSpec

-----------------------------------------------------------------------------
(* The words of a line.                                                    *)

\* What SelectInSeq returns of the positions that pass its test.
Least(I) == IF I # {} THEN Min(I) ELSE 0

LEMMA LeastProperties ==
  ASSUME NEW I \in SUBSET (Nat \ {0})
  PROVE  IF Least(I) = 0 THEN I = {} ELSE Least(I) \in I /\ \A k \in I : Least(I) <= k
<1>1. I # {} => \E m \in I : \A k \in I : m <= k
  BY LeastIndex
<1>2. I # {} => Min(I) \in I /\ \A k \in I : Min(I) <= k
  BY <1>1 DEF Min
<1> QED
  BY <1>2 DEF Least

\* The part of a text from one position to another.
LEMMA Slice ==
  ASSUME NEW s \in Text, NEW m \in Nat \ {0}, NEW n \in Nat, n <= Len(s)
  PROVE  /\ SubSeq(s, m, n) \in Text
         /\ Len(SubSeq(s, m, n)) = IF m <= n THEN n - m + 1 ELSE 0
         /\ \A i \in 1..(n - m + 1) : SubSeq(s, m, n)[i] = s[m + i - 1]
<1>1. Len(s) \in Nat
  BY LenProperties DEF Text
<1>2. \A i \in m..n : s[i] \in Nat
  BY <1>1, ElementOfSeq DEF Text
<1> QED
  BY <1>2, SubSeqProperties DEF Text

\* The string that strtok gets is the line up to its first '\0'.
LEMMA VisibleIs ==
  ASSUME line \in Text
  PROVE  /\ Visible \in Text /\ Len(Visible) \in 0..Len(line)
         /\ \A k \in 1..Len(Visible) : Visible[k] = line[k] /\ line[k] # Nul
         /\ Len(Visible) < Len(line) => line[Len(Visible) + 1] = Nul
<1> DEFINE I == {k \in 1..Len(line) : line[k] = Nul}
           nul == Least(I)
<1>0. Len(line) \in Nat
  BY LenProperties DEF Text
<1>1. Visible = IF nul = 0 THEN line ELSE SubSeq(line, 1, nul - 1)
  BY DEF Visible, SelectInSeq, Least
<1>2. IF nul = 0 THEN I = {} ELSE nul \in I /\ \A k \in I : nul <= k
  <2>1. I \in SUBSET (Nat \ {0})
    BY <1>0
  <2> HIDE DEF I
  <2> QED
    BY <2>1, LeastProperties
<1> HIDE DEF nul
<1>3. CASE nul = 0
  BY <1>0, <1>1, <1>2, <1>3
<1>4. CASE nul # 0
  <2>1. /\ nul \in 1..Len(line) /\ line[nul] = Nul
        /\ \A k \in 1..Len(line) : line[k] = Nul => nul <= k
    BY <1>2, <1>4
  <2>2. /\ Visible \in Text /\ Len(Visible) = nul - 1
        /\ \A k \in 1..(nul - 1) : Visible[k] = line[1 + k - 1]
    BY <1>0, <1>1, <1>4, <2>1, Slice
  <2>3. \A k \in 1..(nul - 1) : 1 + k - 1 = k /\ k \in 1..Len(line) /\ ~(nul <= k)
    BY <1>0, <2>1
  <2>4. \A k \in 1..(nul - 1) : Visible[k] = line[k] /\ line[k] # Nul
    BY <2>1, <2>2, <2>3
  <2> QED
    BY <1>0, <2>1, <2>2, <2>4
<1> QED
  BY <1>3, <1>4

LEMMA InWordIs ==
  ASSUME line \in Text, NEW i \in Int
  PROVE  InWord(i) <=> i \in 1..Len(Visible) /\ Visible[i] \notin Delimiters
<1>1. /\ Len(line) \in Nat /\ DOMAIN line = 1..Len(line) /\ Len(Visible) \in 0..Len(line)
      /\ \A k \in 1..Len(Visible) : Visible[k] = line[k] /\ line[k] # Nul
      /\ Len(Visible) < Len(line) => line[Len(Visible) + 1] = Nul
  BY LenProperties, VisibleIs DEF Text
<1>2. CASE i \in 1..Len(Visible)
  <2>1. i \in DOMAIN line /\ \A j \in 1..i : j \in 1..Len(Visible)
    BY <1>1, <1>2
  <2> QED
    BY <1>1, <1>2, <2>1 DEF InWord
<1>3. CASE i \notin 1..Len(Visible)
  <2>1. SUFFICES ASSUME i \in 1..Len(line) PROVE \E j \in 1..i : line[j] = Nul
    BY <1>1, <1>3 DEF InWord
  <2>2. Len(Visible) < Len(line) /\ Len(Visible) + 1 \in 1..i
    BY <1>1, <1>3, <2>1
  <2> QED
    BY <1>1, <2>2
<1> QED
  BY <1>2, <1>3

\* strtok skips the delimiters that come first, and only those.
LEMMA StartSkips ==
  ASSUME line \in Text, scan \in 1..(Len(Visible) + 2)
  PROVE  IF Start = 0 THEN \A i \in scan..Len(Visible) : Visible[i] \in Delimiters
         ELSE /\ Start \in 1..(Len(Visible) - scan + 1)
              /\ Visible[scan + Start - 1] \notin Delimiters
              /\ \A i \in scan..(scan + Start - 2) : Visible[i] \in Delimiters
<1> DEFINE I == {i \in 1..Len(Rest) : Rest[i] \notin Delimiters}
<1>0. Visible \in Text /\ Len(Visible) \in Nat /\ scan \in Nat \ {0}
  BY VisibleIs, LenProperties DEF Text
<1>1. /\ Rest \in Text
      /\ Len(Rest) = IF scan <= Len(Visible) THEN Len(Visible) - scan + 1 ELSE 0
      /\ \A i \in 1..(Len(Visible) - scan + 1) : Rest[i] = Visible[scan + i - 1]
  BY <1>0, Slice DEF Rest
<1>2. Start = Least(I)
  BY DEF Start, SelectInSeq, Least
<1>3. I \in SUBSET (Nat \ {0})
  BY <1>0, <1>1
<1>4. IF Start = 0 THEN I = {} ELSE Start \in I /\ \A k \in I : Start <= k
  <2> HIDE DEF I
  <2> QED
    BY <1>2, <1>3, LeastProperties
<1>5. CASE Start = 0
  <2>1. \A i \in 1..Len(Rest) : Rest[i] \in Delimiters
    BY <1>4, <1>5
  <2>2. ASSUME NEW i \in scan..Len(Visible) PROVE Visible[i] \in Delimiters
    <3>1. \E k \in 1..Len(Rest) : k = i - scan + 1
      BY <1>0, <1>1
    <3>2. PICK k \in 1..Len(Rest) : scan + k - 1 = i
      BY <1>0, <3>1
    <3>3. k \in 1..(Len(Visible) - scan + 1)
      BY <1>0, <1>1
    <3>4. Rest[k] = Visible[i]
      BY <1>1, <3>2, <3>3
    <3> QED
      BY <2>1, <3>4
  <2> QED
    BY <1>5, <2>2
<1>6. CASE Start # 0
  <2>1. /\ Start \in 1..Len(Rest) /\ Rest[Start] \notin Delimiters
        /\ \A k \in 1..Len(Rest) : Rest[k] \notin Delimiters => Start <= k
    BY <1>4, <1>6
  <2>2. Start \in 1..(Len(Visible) - scan + 1) /\ Visible[scan + Start - 1] \notin Delimiters
    BY <1>0, <1>1, <2>1
  <2>3. ASSUME NEW i \in scan..(scan + Start - 2) PROVE Visible[i] \in Delimiters
    <3>1. \E k \in 1..Len(Rest) : k = i - scan + 1 /\ ~(Start <= k)
      BY <1>0, <1>1, <2>2
    <3>2. PICK k \in 1..Len(Rest) : scan + k - 1 = i /\ ~(Start <= k)
      BY <1>0, <3>1
    <3>3. k \in 1..(Len(Visible) - scan + 1)
      BY <1>0, <1>1
    <3>4. Rest[k] = Visible[i]
      BY <1>1, <3>2, <3>3
    <3> QED
      BY <2>1, <3>2, <3>4
  <2> QED
    BY <1>6, <2>2, <2>3
<1> QED
  BY <1>5, <1>6

\* The word goes on to the next delimiter, or to the end of the line.
LEMMA WordStops ==
  ASSUME line \in Text, scan \in 1..(Len(Visible) + 2), Start # 0
  PROVE  LET i == scan + Start - 1 IN
         /\ Word \in Text /\ Len(Word) \in 1..(Len(Visible) - i + 1)
         /\ \A j \in 1..Len(Word) : /\ Word[j] = Visible[i + j - 1]
                                    /\ Word[j] \notin Delimiters
         /\ i + Len(Word) \in 1..Len(Visible) => Visible[i + Len(Word)] \in Delimiters
<1> DEFINE i == scan + Start - 1
           from == SubSeq(Rest, Start, Len(Rest))
           I == {k \in 1..Len(from) : from[k] \in Delimiters}
           stop == Least(I)
<1>0. Visible \in Text /\ Len(Visible) \in Nat /\ scan \in Nat \ {0}
  BY VisibleIs, LenProperties DEF Text
<1>1. /\ Start \in 1..(Len(Visible) - scan + 1) /\ Visible[i] \notin Delimiters
      /\ i \in 1..Len(Visible)
  BY <1>0, StartSkips
<1>2. /\ Rest \in Text /\ Len(Rest) = Len(Visible) - scan + 1
      /\ \A k \in 1..Len(Rest) : Rest[k] = Visible[scan + k - 1]
  BY <1>0, <1>1, Slice DEF Rest
<1>3. /\ from \in Text /\ Len(from) = Len(Rest) - Start + 1
      /\ \A k \in 1..Len(from) : from[k] = Rest[Start + k - 1]
  BY <1>0, <1>1, <1>2, Slice
<1>4. Word = IF stop = 0 THEN from ELSE SubSeq(from, 1, stop - 1)
  BY DEF Word, SelectInSeq, Least
<1> HIDE DEF from
<1>5. /\ Len(from) = Len(Visible) - i + 1
      /\ \A k \in 1..Len(from) : from[k] = Visible[i + k - 1]
  <2>1. Len(from) = Len(Visible) - i + 1
    BY <1>0, <1>1, <1>2, <1>3
  <2>2. ASSUME NEW k \in 1..Len(from) PROVE from[k] = Visible[i + k - 1]
    <3>1. Start + k - 1 \in 1..Len(Rest) /\ scan + (Start + k - 1) - 1 = i + k - 1
      BY <1>0, <1>1, <1>2, <1>3
    <3> QED
      BY <1>2, <1>3, <3>1
  <2> QED
    BY <2>1, <2>2
<1>6. IF stop = 0 THEN I = {} ELSE stop \in I /\ \A k \in I : stop <= k
  <2>1. I \in SUBSET (Nat \ {0})
    BY <1>0, <1>1, <1>5
  <2> HIDE DEF I
  <2> QED
    BY <2>1, LeastProperties
<1> HIDE DEF stop, i
<1>i. i \in 1..Len(Visible) /\ Visible[i] \notin Delimiters
  BY <1>1 DEF i
<1>7. CASE stop = 0
  <2>1. \A k \in 1..Len(from) : from[k] \notin Delimiters
    BY <1>6, <1>7
  <2>2. i + Len(from) \notin 1..Len(Visible) /\ Len(from) \in 1..(Len(Visible) - i + 1)
    BY <1>0, <1>i, <1>5
  <2> QED
    BY <1>3, <1>4, <1>5, <1>7, <2>1, <2>2 DEF i
<1>8. CASE stop # 0
  <2>1. /\ stop \in 1..Len(from) /\ from[stop] \in Delimiters
        /\ \A k \in 1..Len(from) : from[k] \in Delimiters => stop <= k
    BY <1>6, <1>8
  <2>2. stop \in Nat /\ stop > 1
    <3>1. 1 \in 1..Len(from) /\ i + 1 - 1 = i
      BY <1>0, <1>i, <1>5
    <3>2. from[1] = Visible[i]
      BY <1>5, <3>1
    <3> QED
      BY <1>0, <1>i, <2>1, <3>1, <3>2
  <2>3. /\ Word \in Text /\ Len(Word) = stop - 1
        /\ \A k \in 1..(stop - 1) : Word[k] = from[k]
    BY <1>3, <1>4, <1>8, <1>5, <1>0, <1>i, <2>1, <2>2, Slice
  <2>4. \A k \in 1..(stop - 1) : k \in 1..Len(from) /\ ~(stop <= k)
    BY <1>0, <1>i, <1>5, <2>1
  <2>5. from[stop] = Visible[i + stop - 1] /\ i + Len(Word) = i + stop - 1
    BY <1>0, <1>i, <1>5, <2>1, <2>3
  <2>6. Len(Word) \in 1..(Len(Visible) - i + 1)
    BY <1>0, <1>i, <1>5, <2>1, <2>2, <2>3
  <2> QED
    BY <1>5, <2>1, <2>3, <2>4, <2>5, <2>6 DEF i
<1> QED
  BY <1>7, <1>8

\* w is a word of the line, and begins at i.
Spans(w, i) ==
  /\ w \in Text /\ Len(w) \in 1..(Len(Visible) - i + 1)
  /\ \A j \in 1..Len(w) : w[j] = Visible[i + j - 1] /\ w[j] \notin Delimiters
  /\ i + Len(w) \in 1..Len(Visible) => Visible[i + Len(w)] \in Delimiters

LEMMA SpansIsWord ==
  ASSUME line \in Text, NEW i \in 1..Len(Visible), NEW w, Spans(w, i)
  PROVE  WordAt(w, i)
<1>1. /\ w \in Text /\ Len(w) \in Nat \ {0} /\ DOMAIN w = 1..Len(w)
      /\ Len(Visible) \in Nat /\ i + Len(w) - 1 <= Len(Visible)
  BY VisibleIs, LenProperties DEF Spans, Text
<1>2. w # <<>>
  BY <1>1, EmptySeq
<1>3. ~InWord(i + Len(w))
  BY <1>1, InWordIs DEF Spans
<1>4. ASSUME NEW j \in DOMAIN w PROVE InWord(i + j - 1) /\ w[j] = line[i + j - 1]
  <2>1. i + j - 1 \in 1..Len(Visible) /\ i + j - 1 \in Int
    BY <1>1
  <2>2. w[j] = Visible[i + j - 1] /\ w[j] \notin Delimiters
    BY <1>1 DEF Spans
  <2> QED
    BY <2>1, <2>2, InWordIs, VisibleIs
<1> QED
  BY <1>2, <1>3, <1>4 DEF WordAt

Before(k) == {i \in Starts : i < k}
UpTo(i) == {j \in Starts : j <= i}

\* A word begins behind a delimiter, or where the line does.
LEMMA StartsAre ==
  ASSUME line \in Text
  PROVE  Starts = {i \in 1..Len(Visible) : /\ Visible[i] \notin Delimiters
                                           /\ i = 1 \/ Visible[i - 1] \in Delimiters}
<1>1. /\ Len(line) \in Nat /\ DOMAIN line = 1..Len(line) /\ Len(Visible) \in 0..Len(line)
  BY LenProperties, VisibleIs DEF Text
<1>2. ASSUME NEW i \in 1..Len(Visible)
      PROVE  InWord(i - 1) <=> i # 1 /\ Visible[i - 1] \notin Delimiters
  BY <1>1, InWordIs
<1>3. \A i \in DOMAIN line : InWord(i) <=> i \in 1..Len(Visible) /\ Visible[i] \notin Delimiters
  BY <1>1, InWordIs
<1>4. 1..Len(Visible) \subseteq DOMAIN line
  BY <1>1
<1> QED
  BY <1>2, <1>3, <1>4 DEF Starts

LEMMA StartsFinite ==
  ASSUME line \in Text
  PROVE  /\ Starts \subseteq 1..Len(Visible)
         /\ \A S \in SUBSET Starts : IsFiniteSet(S) /\ Cardinality(S) \in Nat
<1>1. Len(Visible) \in Nat /\ Starts \subseteq 1..Len(Visible)
  BY VisibleIs, LenProperties, StartsAre DEF Text
<1>2. IsFiniteSet(1..Len(Visible))
  BY <1>1, FS_Interval
<1> QED
  BY <1>1, <1>2, FS_Subset, FS_CardinalityType

\* The same line has the same words.
LEMMA SameLine ==
  ASSUME UNCHANGED line
  PROVE  UNCHANGED <<Visible, Starts>> /\ \A i : UNCHANGED InWord(i)
<1>1. UNCHANGED Visible
  BY DEF Visible, SelectInSeq
<1>2. \A i : UNCHANGED InWord(i)
  BY DEF InWord
<1>3. UNCHANGED Starts
  BY <1>2 DEF Starts
<1> QED
  BY <1>1, <1>2, <1>3

\* While a line is split the tokens are the words that begin before the place where
\* strtok goes on, and that place is not in the middle of a word.
Split ==
  phase \in {"split", "execute"} =>
    /\ scan \in 1..(Len(Visible) + 2)
    /\ scan = 1 \/ scan > Len(Visible) \/ Visible[scan - 1] \in Delimiters
    /\ tokens \in Seq(Text)
    /\ Len(tokens) = Cardinality(Before(scan))
    /\ \A i \in Before(scan) : WordAt(tokens[Cardinality(UpTo(i))], i)
    /\ phase = "execute" => Before(scan) = Starts

LEMMA FinishSplits == ASSUME line \in Text, NEW end, Finish(end) PROVE Split'
<1>1. /\ line' = line /\ scan' = 1 /\ tokens' = <<>> /\ phase' = "split"
  BY DEF Finish
<1>2. Len(Visible) \in Nat /\ UNCHANGED <<Visible, Starts>>
  BY <1>1, VisibleIs, LenProperties, SameLine DEF Text
<1>3. Before(scan)' = {}
  BY <1>1, <1>2, StartsFinite DEF Before
<1>4. tokens' \in Seq(Text) /\ Len(tokens') = 0
  BY <1>1, EmptySeq
<1>5. Len(tokens') = Cardinality(Before(scan)')
  BY <1>3, <1>4, FS_EmptySet
<1>6. scan' \in 1..(Len(Visible') + 2)
  BY <1>1, <1>2
<1> QED
  BY <1>1, <1>3, <1>4, <1>5, <1>6 DEF Split

LEMMA EndTokensSplits == ASSUME line \in Text, Split, EndTokens PROVE Split'
<1>1. /\ UNCHANGED <<line, scan, tokens>> /\ phase = "split" /\ phase' = "execute"
      /\ Start = 0
  BY DEF EndTokens, lineVars, tokenVars
<1>2. UNCHANGED <<Starts, Visible>>
  BY <1>1, SameLine
<1>3. UNCHANGED Before(scan)
  BY <1>1, <1>2 DEF Before
<1>4. \A i : UNCHANGED WordAt(tokens[Cardinality(UpTo(i))], i)
  BY <1>1, <1>2, SameLine DEF UpTo, WordAt
<1>5. \A i \in scan..Len(Visible) : Visible[i] \in Delimiters
  BY <1>1, StartSkips DEF Split
<1>6. Starts \subseteq 1..Len(Visible) /\ Len(Visible) \in Nat /\ scan \in Nat
  BY <1>1, StartsFinite, VisibleIs, LenProperties DEF Split, Text
<1>7. ASSUME NEW i \in Starts PROVE i < scan
  BY <1>5, <1>6, StartsAre
<1>8. Before(scan) = Starts
  BY <1>7 DEF Before
<1>9. \A i \in Before(scan)' : WordAt(tokens[Cardinality(UpTo(i))], i)'
  BY <1>1, <1>3, <1>4 DEF Split
<1>10. /\ scan' \in 1..(Len(Visible') + 2)
       /\ scan' = 1 \/ scan' > Len(Visible') \/ Visible'[scan' - 1] \in Delimiters
  BY <1>1, <1>2 DEF Split
<1>11. tokens' \in Seq(Text) /\ Len(tokens') = Cardinality(Before(scan)')
  BY <1>1, <1>3 DEF Split
<1>12. Before(scan)' = Starts'
  BY <1>2, <1>3, <1>8
<1> QED
  BY <1>9, <1>10, <1>11, <1>12 DEF Split

LEMMA TokenSplits == ASSUME line \in Text, Split, Token PROVE Split'
<1> DEFINE i == scan + Start - 1
           c(j) == Cardinality(UpTo(j))
<1>0. /\ UNCHANGED <<line, Visible, phase>> /\ phase = "split" /\ Start # 0
      /\ tokens' = Append(tokens, Word) /\ scan' = i + Len(Word) + 1
      /\ Len(Visible) \in Nat /\ scan \in 1..(Len(Visible) + 2)
      /\ scan = 1 \/ scan > Len(Visible) \/ Visible[scan - 1] \in Delimiters
  <2>1. Start \in 1..(Len(Visible) - scan + 1)
    BY StartSkips DEF Token, Split
  <2>2. Len(Visible) \in Nat /\ Len(Word) \in 1..(Len(Visible) - i + 1)
    BY VisibleIs, LenProperties, WordStops DEF Token, Split, Text
  <2>3. scan + Start + Len(Word) = i + Len(Word) + 1
    BY <2>1, <2>2 DEF Token, Split
  <2> QED
    BY <2>2, <2>3, SameLine DEF Token, Split, lineVars
<1>1. /\ i \in 1..Len(Visible) /\ scan <= i /\ Visible[i] \notin Delimiters
      /\ \A j \in scan..(i - 1) : Visible[j] \in Delimiters
  <2>1. /\ Start \in 1..(Len(Visible) - scan + 1) /\ Visible[i] \notin Delimiters
        /\ \A j \in scan..(scan + Start - 2) : Visible[j] \in Delimiters
    BY <1>0, StartSkips
  <2>2. i - 1 = scan + Start - 2 /\ i \in 1..Len(Visible) /\ scan <= i
    BY <1>0, <2>1
  <2> QED
    BY <2>1, <2>2
<1>2. Spans(Word, i)
  BY <1>0, WordStops DEF Spans
<1> HIDE DEF i
<1>3. Len(Word) \in Nat \ {0} /\ i + Len(Word) <= Len(Visible) + 1
  <2>1. Len(Word) \in 1..(Len(Visible) - i + 1)
    BY <1>2 DEF Spans
  <2>2. Len(Visible) \in Nat /\ i \in 1..Len(Visible)
    BY <1>0, <1>1
  <2> QED
    BY <2>1, <2>2
<1>4. UNCHANGED Starts /\ Starts \subseteq 1..Len(Visible)
  BY <1>0, StartsFinite, SameLine
<1>5. i \in Starts
  <2>1. i = 1 \/ Visible[i - 1] \in Delimiters
    BY <1>0, <1>1
  <2> QED
    BY <1>1, <2>1, StartsAre
<1>6. ASSUME NEW j \in Starts, scan <= j, j < scan' PROVE j = i
  <2>1. j \in 1..Len(Visible) /\ Visible[j] \notin Delimiters
        /\ (j = 1 \/ Visible[j - 1] \in Delimiters)
    BY <1>4, <1>6, StartsAre
  <2>2. ~(j < i)
    BY <1>0, <1>1, <1>6, <2>1
  <2>3. ASSUME j > i PROVE FALSE
    <3>1. \A k \in 1..Len(Word) : Visible[i + k - 1] \notin Delimiters
      BY <1>2 DEF Spans
    <3>2. j <= i + Len(Word)
      BY <1>0, <1>1, <1>3, <1>6, <2>1
    <3>3. j # i + Len(Word)
      BY <1>2, <2>1 DEF Spans
    <3>4. \E k \in 1..Len(Word) : k = j - i
      BY <1>1, <1>3, <2>1, <2>3, <3>2, <3>3
    <3>5. PICK k \in 1..Len(Word) : i + k - 1 = j - 1
      BY <1>1, <1>3, <2>1, <3>4
    <3>6. Visible[j - 1] \notin Delimiters
      BY <3>1, <3>5
    <3> QED
      BY <1>1, <2>1, <2>3, <3>6
  <2> QED
    BY <1>1, <2>1, <2>2, <2>3
<1>7. Before(scan)' = Before(scan) \cup {i} /\ i \notin Before(scan)
  <2>1. i < scan'
    BY <1>0, <1>1, <1>3
  <2>2. \A j \in Starts : j < scan' <=> j < scan \/ j = i
    BY <1>0, <1>1, <1>3, <1>4, <1>6, <2>1
  <2>3. Before(scan)' = {j \in Starts : j < scan'}
    BY <1>4 DEF Before
  <2>4. i \notin Before(scan)
    BY <1>0, <1>1 DEF Before
  <2>5. \A j : j \in Before(scan)' <=> j \in Before(scan) \/ j = i
    BY <1>5, <2>2, <2>3 DEF Before
  <2> QED
    BY <2>4, <2>5
<1>8. UpTo(i) = Before(scan) \cup {i}
  <2>1. \A j \in Starts : j <= i <=> j < scan \/ j = i
    BY <1>0, <1>1, <1>3, <1>4, <1>6
  <2> QED
    BY <1>5, <2>1 DEF UpTo, Before
<1>9. /\ Len(tokens) = Cardinality(Before(scan)) /\ tokens \in Seq(Text)
      /\ \A j \in Before(scan) : WordAt(tokens[c(j)], j)
  BY <1>0 DEF Split
<1>10. /\ IsFiniteSet(Before(scan)) /\ Before(scan) \subseteq Starts
       /\ Len(tokens) \in Nat
  BY <1>9, StartsFinite, LenProperties DEF Before
<1>11. Cardinality(Before(scan) \cup {i}) = Len(tokens) + 1
  BY <1>7, <1>9, <1>10, FS_AddElement
<1>12. /\ tokens' \in Seq(Text) /\ Len(tokens') = Len(tokens) + 1
       /\ \A k \in 1..Len(tokens) : tokens'[k] = tokens[k]
       /\ tokens'[Len(tokens) + 1] = Word
  BY <1>0, <1>2, <1>9, AppendProperties DEF Spans
<1>13. ASSUME NEW j \in Before(scan)' PROVE WordAt(tokens'[c(j)], j)
  <2>1. CASE j = i
    BY <1>1, <1>2, <1>8, <1>11, <1>12, <2>1, SpansIsWord
  <2>2. CASE j # i
    <3>1. j \in Before(scan) /\ j \in UpTo(j) /\ UpTo(j) \subseteq Before(scan)
      <4>1. j \in Before(scan) /\ j \in Starts /\ j < scan /\ j \in Int /\ scan \in Int
        BY <1>0, <1>4, <1>7, <2>2 DEF Before
      <4>2. \A k \in Starts : k \in Int
        BY <1>0, <1>4
      <4>3. \A k \in Starts : k <= j => k < scan
        BY <4>1, <4>2
      <4> QED
        BY <4>1, <4>3 DEF Before, UpTo
    <3>2. c(j) \in Nat /\ c(j) <= Len(tokens) /\ c(j) # 0
      <4>1. IsFiniteSet(UpTo(j)) /\ c(j) \in Nat /\ c(j) <= Cardinality(Before(scan))
        BY <1>10, <3>1, StartsFinite, FS_Subset
      <4>2. UpTo(j) # {}
        BY <3>1
      <4> QED
        BY <1>9, <4>1, <4>2, FS_EmptySet
    <3>3. tokens'[c(j)] = tokens[c(j)]
      BY <1>10, <1>12, <3>2
    <3> QED
      BY <1>9, <3>1, <3>3
  <2> QED
    BY <2>1, <2>2
<1>14. \A j \in Before(scan)' : WordAt(tokens[Cardinality(UpTo(j))], j)'
  BY <1>0, <1>4, <1>13, SameLine DEF UpTo, WordAt
<1>15. /\ scan' \in 1..(Len(Visible') + 2)
       /\ scan' = 1 \/ scan' > Len(Visible') \/ Visible'[scan' - 1] \in Delimiters
  <2>1. scan' - 1 = i + Len(Word)
    BY <1>0, <1>1, <1>3
  <2>2. i + Len(Word) \in 1..Len(Visible) => Visible[i + Len(Word)] \in Delimiters
    BY <1>2 DEF Spans
  <2> QED
    BY <1>0, <1>1, <1>3, <2>1, <2>2
<1>16. Len(tokens') = Cardinality(Before(scan)')
  BY <1>7, <1>11, <1>12
<1> QED
  BY <1>0, <1>12, <1>14, <1>15, <1>16 DEF Split

LEMMA SplitNext == ASSUME Kept, Split, [ShellNext]_shellVars PROVE Split'
<1>0. line \in Text
  BY DEF Kept
<1>1. CASE phase' \notin {"split", "execute"}
  BY <1>1 DEF Split
<1>2. CASE UNCHANGED <<phase, line, scan, tokens>>
  <2>1. UNCHANGED <<Starts, Visible>>
    BY <1>2, SameLine
  <2>2. UNCHANGED Before(scan)
    BY <1>2, <2>1 DEF Before
  <2>3. \A i : UNCHANGED WordAt(tokens[Cardinality(UpTo(i))], i)
    BY <1>2, <2>1, SameLine DEF UpTo, WordAt
  <2>4. phase \in {"split", "execute"} =>
          \A i \in Before(scan)' : WordAt(tokens[Cardinality(UpTo(i))], i)'
    BY <2>2, <2>3 DEF Split
  <2> QED
    BY <1>2, <2>1, <2>2, <2>4 DEF Split
<1>3. CASE EndLine \/ CutLine
  BY <1>0, <1>3, FinishSplits DEF EndLine, CutLine
<1>4. CASE Token
  BY <1>0, <1>4, TokenSplits
<1>5. CASE EndTokens
  BY <1>0, <1>5, EndTokensSplits
<1>6. CASE Call \/ Fill \/ Store \/ Return
  BY <1>1, <1>6 DEF Call, Fill, Store, Return
<1>7. CASE Type \/ Hangup \/ UNCHANGED shellVars
  BY <1>2, <1>7 DEF Type, Hangup, shellVars, lineVars, tokenVars
<1> QED
  BY <1>3, <1>4, <1>5, <1>6, <1>7 DEF ShellNext, ShellSteps

\* Whatever line is typed or cut short, the words that shell_execute gets are those of
\* the line up to its first '\0', in order: none is split, joined with another, or left out (tokenize.c:16-32).
THEOREM ShellSplitsLines == ShellSpec => []TokensAreWords
<1>1. ShellInit => Split
  BY DEF ShellInit, Split
<1>2. Split => TokensAreWords
  BY DEF Split, TokensAreWords, UpTo
<1> QED
  BY <1>1, <1>2, KeptInit, KeptNext, SplitNext, PTL DEF ShellSpec
=============================================================================
