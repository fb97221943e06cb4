------------------------------- MODULE Codec -------------------------------
(***************************************************************************)
(* How a command and its number become bytes and are read back             *)
(* (string_util.c, aes_encrypt.c, hmac.c, generate_key_util.c): numbers as *)
(* digits, in machine words; padding to a block, and the salt whose first  *)
(* byte tells whether there is any; the marker that stands for the         *)
(* command.  A cipher text or a digest is the tuple of what went into it.  *)
(***************************************************************************)
EXTENDS Integers, Sequences, SequencesExt

CONSTANTS Base,        \* of the number system, 10
          IntBits,     \* width of int, 32
          LongBits,    \* width of long, 64
          BlockSize,   \* AES_BLOCK_SIZE, 16
          Salts        \* the values of a salt's first byte, 0..255

ASSUME CodecAssumption ==
  /\ Base \in 2..10 /\ IntBits \in Nat \ {0} /\ LongBits \in Nat /\ IntBits < LongBits
  /\ BlockSize \in Nat \ {0}
  /\ Salts \subseteq Nat /\ Salts # {}

Zero == 48             \* '0'
Minus == 45
Plus == 43

MaxInt == 2^(IntBits - 1) - 1
MaxLong == 2^(LongBits - 1) - 1

-----------------------------------------------------------------------------
(* Numbers.                                                                *)

IsDigit(c) == c \in Zero..(Zero + Base - 1)

\* What strtol skips first.  Of these '\v' and '\f' may begin a token.
Blanks == {32} \cup 9..13
Trim(s) ==
  LET start == SelectInSeq(s, LAMBDA c : c \notin Blanks)
  IN  IF start = 0 THEN <<>> ELSE SubSeq(s, start, Len(s))

\* strtol: a sign, then digits up to the first character that is none; it stops at the
\* ends of a long.
Strtol(text) ==
  LET s == Trim(text)
      sign == IF s # <<>> /\ s[1] = Minus THEN -1 ELSE 1
      body == IF s # <<>> /\ s[1] \in {Minus, Plus} THEN Tail(s) ELSE s
      stop == SelectInSeq(body, LAMBDA c : ~IsDigit(c))
      digits == IF stop = 0 THEN body ELSE SubSeq(body, 1, stop - 1)
      value == sign * FoldLeft(LAMBDA v, c : v * Base + (c - Zero), 0, digits)
  IN  CASE value > MaxLong      -> MaxLong
        [] value < -MaxLong - 1 -> -MaxLong - 1
        [] OTHER                -> value

\* The cast from long to int keeps the low bits.
Str2Num(s) == ((Strtol(s) + MaxInt + 1) % (2^IntBits)) - (MaxInt + 1)

Digits[n \in 0..(MaxInt + 1)] ==
  IF n < Base THEN <<Zero + n>> ELSE Append(Digits[n \div Base], Zero + (n % Base))

Num2Str(n) == IF n < 0 THEN <<Minus>> \o Digits[-n] ELSE Digits[n]

\* What an int holds.
Ints == -(MaxInt + 1)..MaxInt

\* A block has room for every int (11 characters of 16), and a padding byte, which is less
\* than 16, is no digit.
ASSUME BlockAssumption ==
  /\ \A n \in Ints : Len(Num2Str(n)) <= BlockSize
  /\ BlockSize <= Zero

-----------------------------------------------------------------------------
(* The number, encrypted under its command.                                *)

Padding(text) == (BlockSize - (Len(text) % BlockSize)) % BlockSize
Padded(text) == text \o [i \in 1..Padding(text) |-> Padding(text)]

\* A longer text has more blocks than a message has room for.
OneBlock(text) == text # <<>> /\ Len(text) <= BlockSize

GenerateSaltAsDrawn(drawn, pad) == drawn      \* mutant: salt[0] is left alone

\* GenerateKey: a salt that begins with 0 says that there is no padding.
GenerateSalt(drawn, pad) == IF pad = 0 THEN 0 ELSE drawn

AesEncrypt(text, password, drawn) ==
  LET salt == GenerateSalt(drawn, Padding(text)) IN
  [salt |-> salt, key |-> <<password, salt>>, text |-> Padded(text)]

\* What another key makes of a cipher text is no number.
Garbage == <<>>

\* A salt may begin with 0 by chance: then the padding stays behind the digits.
AesDecrypt(cipher, password) ==
  LET length == IF cipher.salt # 0 THEN BlockSize - cipher.text[BlockSize] ELSE BlockSize
  IN  IF cipher.key # <<password, cipher.salt>> \/ length < 0
        THEN Garbage ELSE SubSeq(cipher.text, 1, length)

-----------------------------------------------------------------------------
(* The command, as a marker: an HMAC under a key made of its salt.         *)

MarkedCommands == {"SEND", "REQUEST", "CHECK", "REFILL", "INSUFFICIENT"}
HmacEncrypt(command, salt) == [salt |-> salt, digest |-> <<salt, command>>]

\* validate_HMAC computes all five digests and compares.
HmacDecrypt(marker) ==
  IF \E c \in MarkedCommands : marker.digest = <<marker.salt, c>>
    THEN CHOOSE c \in MarkedCommands : marker.digest = <<marker.salt, c>>
    ELSE "BLANK"

\* A message of command and text; CHECK and REFILL as typed have no second part.
Encrypt(command, text, salt) ==
  [marker |-> HmacEncrypt(command, salt),
   cipher |-> IF text = <<>> THEN <<>> ELSE AesEncrypt(text, command, salt)]

\* decrypt_react up to the number: the serving side (end = 0) does not look for one in a
\* CHECK or a REFILL.
Decrypt(message, end) ==
  LET command == HmacDecrypt(message.marker) IN
  [op |-> command,
   n |-> IF end = 0 /\ command \in {"CHECK", "REFILL"} THEN 0
         ELSE Str2Num(AesDecrypt(message.cipher, command))]
=============================================================================
