--------------------------------- MODULE Utf ---------------------------------
(***************************************************************************)
(* The conversions of util.c between the texts of the program (UTF-8) and  *)
(* those of the keyboard (UTF-16), and the encodings they should agree     *)
(* with.  A text is the sequence of its bytes or units in front of the 0   *)
(* that ends it; the bits of a number are taken by division.               *)
(***************************************************************************)
EXTENDS Integers, Sequences

\* What a text is made of in UTF-8 and in UTF-16: a 0 would end it.
Byte == 1 .. 255
Unit == 1 .. 65535

Low(x, bits) == x % 2 ^ bits
Shift(x, bits) == x \div 2 ^ bits
Tail6(x) == 128 + Low(x, 6)

IsHigh(u) == u \in 55296 .. 56319      \* D800 .. DBFF
IsLow(u) == u \in 56320 .. 57343       \* DC00 .. DFFF

-----------------------------------------------------------------------------
(* UTF16_to_UTF8 *)

\* Mutant: two bytes are used up to 0FFF.
Bytes_wide(u) ==
    CASE u < 128 -> <<u>>
      [] u \in 128 .. 4095 -> <<192 + Low(Shift(u, 6), 6), Tail6(u)>>
      [] OTHER -> <<224 + Low(Shift(u, 12), 4), Tail6(Shift(u, 6)), Tail6(u)>>

\* A unit on its own.
Bytes(u) ==
    CASE u < 128 -> <<u>>
      [] u \in 128 .. 2047 -> <<192 + Shift(u, 6), Tail6(u)>>
      [] OTHER -> <<224 + Shift(u, 12), Tail6(Shift(u, 6)), Tail6(u)>>

\* A surrogate pair.  The first byte loses the highest bit, the third one takes two
\* bits of the first unit where the pair has them in the second.
PairBytes(u, v) ==
    << 240 + Low(Shift(u + 64, 8), 2), Tail6(Shift(u, 2) + 16),
       128 + 16 * Low(Shift(u, 8), 2) + 4 * Low(v, 2), Tail6(v) >>

UTF16_to_UTF8(s) ==
    LET at[i \in 1 .. Len(s) + 1] ==
            IF i > Len(s) THEN <<>>
            ELSE IF i < Len(s) /\ IsHigh(s[i]) /\ IsLow(s[i + 1])
                 THEN PairBytes(s[i], s[i + 1]) \o at[i + 2]
                 ELSE Bytes(s[i]) \o at[i + 1]
    IN  at[1]

-----------------------------------------------------------------------------
(* UTF8_to_UTF16 *)

\* The bytes that should follow a first byte, and the bits it gives; a byte that
\* cannot come first is skipped.
Lead(b) ==
    CASE b < 128 -> [more |-> 0, bits |-> b]
      [] b \in 240 .. 247 -> [more |-> 3, bits |-> Low(b, 2)]
      [] b \in 224 .. 239 \cup 248 .. 255 -> [more |-> 2, bits |-> Low(b, 4)]
      [] b \in 192 .. 223 -> [more |-> 1, bits |-> Low(b, 5)]
      [] OTHER -> [more |-> -1, bits |-> 0]

IsTail(b) == b \in 128 .. 191

\* A number as one unit or as two; a pair is not made less by 10000 (hex).
Units(c) ==
    IF c < 65536 THEN <<c>>
    ELSE <<55296 + Low(Shift(c, 10), 10), 56320 + Low(c, 10)>>

\* How many of the bytes after s[i] follow it, of those that should.
Tails(s, i, more) ==
    CHOOSE n \in 0 .. more :
        /\ i + n <= Len(s) /\ \A k \in 1 .. n : IsTail(s[i + k])
        /\ n = more \/ i + n = Len(s) \/ ~ IsTail(s[i + n + 1])

\* The number that s[i] and the n bytes after it give.
Code(s, i, n) ==
    LET upTo[k \in 0 .. n] == IF k = 0 THEN Lead(s[i]).bits
                              ELSE 64 * upTo[k - 1] + Low(s[i + k], 6)
    IN  upTo[n]

\* A sequence cut by another byte gives what was read of it, one cut by the end
\* gives nothing; a 0 it gives ends the text.
UTF8_to_UTF16(s) ==
    LET at[i \in 1 .. Len(s) + 1] ==
            IF i > Len(s) THEN <<>>
            ELSE LET more == Lead(s[i]).more  n == Tails(s, i, more) IN
                 CASE more < 0 -> at[i + 1]
                   [] more >= 0 /\ ((n < more /\ i + n = Len(s)) \/ Code(s, i, n) = 0) -> <<>>
                   [] OTHER -> Units(Code(s, i, n)) \o at[i + n + 1]
    IN  at[1]

-----------------------------------------------------------------------------
(* The encodings, by their definition *)

\* The bytes of a character of the basic plane: the high bits first, six in each
\* byte that follows.
Encoded(c) ==
    LET n == IF c < 128 THEN 0 ELSE IF c < 2048 THEN 1 ELSE 2
        first == IF n = 0 THEN 0 ELSE IF n = 1 THEN 192 ELSE 224
    IN  [i \in 1 .. n + 1 |->
            IF i = 1 THEN first + c \div 64 ^ n
            ELSE 128 + ((c \div 64 ^ (n + 1 - i)) % 64)]

EncodedText(s) ==
    LET upTo[i \in 0 .. Len(s)] == IF i = 0 THEN <<>> ELSE upTo[i - 1] \o Encoded(s[i])
    IN  upTo[Len(s)]

\* No unit of it is half of a pair.
Basic(s) == \A i \in DOMAIN s : ~ IsHigh(s[i]) /\ ~ IsLow(s[i])
=============================================================================
