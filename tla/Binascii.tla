------------------------------- MODULE Binascii -------------------------------
(***************************************************************************)
(* lib/binascii.cc with binascii/base64.c and hex.c.  A byte is a number;  *)
(* a base64 character is the number it stands for, Pad or Blank (a line    *)
(* end or another character without a number); a hex digit is its ASCII    *)
(* code.                                                                   *)
(***************************************************************************)
EXTENDS Str

Pad   == -1
Blank == -2

Failed == nullstr   \* what the functions return for an error

ASSUME BinasciiAssumption ==
    /\ "bytes" \in DOMAIN Symbols => Symbols["bytes"] \subseteq 0..255
    /\ "base64" \in DOMAIN Symbols => Symbols["base64"] \subseteq 0..63 \cup {Pad, Blank}
-----------------------------------------------------------------------------
(* base64.c.                                                               *)

encode_len(n) == ((n + 2) \div 3) * 4

\* the six bits that are ready
EncodeByte(b, byte) ==
    LET left == b.left * 256 + byte
    IN  CASE b.bits = 0 -> [out |-> Append(b.out, left \div 4), left |-> left % 4, bits |-> 2]
          [] b.bits = 2 -> [out |-> Append(b.out, left \div 16), left |-> left % 16, bits |-> 4]
          [] b.bits = 4 -> [out |-> b.out \o <<left \div 64, left % 64>>, left |-> 0, bits |-> 0]

Encoding(bytes) ==
    LET after[i \in 0..Len(bytes)] ==
           IF i = 0 THEN [out |-> <<>>, left |-> 0, bits |-> 0]
           ELSE EncodeByte(after[i - 1], bytes[i])
    IN  after[Len(bytes)]

\* at the end what is left of the bits
Base64Encode(bytes) ==
    LET b == Encoding(bytes)
    IN  b.out \o (CASE b.bits = 0 -> <<>>
                    [] b.bits = 2 -> <<b.left * 16, Pad, Pad>>
                    [] b.bits = 4 -> <<b.left * 4, Pad>>)

\* how many characters stand before the first that is no digit
LeadingDigits(s) ==
    LET stops == {i \in DOMAIN s : s[i] < 0}
    IN  IF stops = {} THEN Len(s) ELSE Min(stops) - 1

\* mutant: the length of whole quads
DecodeLenWhole(s) == ((LeadingDigits(s) + 3) \div 4) * 3

\* counts up to the first character that is no digit, as if there were no more
decode_len(s) ==
    LET n == LeadingDigits(s) IN ((n + 3) \div 4) * 3 - ((4 - (n % 4)) % 4)

\* _find_valid: a character with a number, where that of Pad is 0
FindValid(s, i) ==
    LET valid == {j \in i..Len(s) : s[j] # Blank} IN IF valid = {} THEN Blank ELSE s[Min(valid)]

PadEnds(s, i, quad) == s[i] = Pad /\ (quad = 3 \/ (quad = 2 /\ FindValid(s, i + 1) = Pad))

\* the digit c is shifted in, and a byte that is ready goes out when it has room
Take(d, c, size) ==
    LET left == d.left * 64 + c
        quad == (d.quad + 1) % 4
        unit == CASE d.bits = 6 -> 16 [] d.bits = 4 -> 4 [] d.bits = 2 -> 1
    IN  IF d.bits = 0 THEN [d EXCEPT !.left = left, !.bits = 6, !.quad = quad]
        ELSE IF Len(d.out) = size
             THEN [d EXCEPT !.left = left, !.bits = @ + 6, !.quad = quad, !.done = TRUE]
        ELSE [d EXCEPT !.out = Append(@, left \div unit), !.left = left % unit,
                       !.bits = @ - 2, !.quad = quad]

\* The loop of base64_decode into size bytes; it stops at a pad that ends the input
\* and before a byte that has no room.
Decoding(s, size) ==
    LET after[i \in 0..Len(s)] ==
           IF i = 0 THEN [out |-> <<>>, left |-> 0, bits |-> 0, quad |-> 0, done |-> FALSE]
           ELSE LET d == after[i - 1]
                IN  IF d.done \/ s[i] = Blank THEN d
                    ELSE IF s[i] # Pad THEN Take(d, s[i], size)
                    ELSE IF PadEnds(s, i, d.quad) THEN [d EXCEPT !.bits = 0, !.done = TRUE]
                    ELSE d
    IN  after[Len(s)]

\* base64_decode(Str): the result has the length that was counted before; bits that
\* are left are an error
Base64Decode(s) ==
    LET d == Decoding(s, decode_len(s)) IN IF d.bits # 0 THEN Failed ELSE d.out
-----------------------------------------------------------------------------
(* hex.c.                                                                  *)

HexCode(n) == IF n < 10 THEN 48 + n ELSE 87 + n

Hexlify(bytes) ==
    [i \in 1..(2 * Len(bytes)) |->
        IF i % 2 = 1 THEN HexCode(bytes[(i + 1) \div 2] \div 16) ELSE HexCode(bytes[i \div 2] % 16)]

\* _xctoi: the three ranges are tried one after the other; what is in none aborts
Xctoi(c) == CASE c \in 48..57  -> c - 48
              [] c \in 65..70  -> c - 65 + 10
              [] c \in 97..102 -> c - 97 + 10

Unhexlify(s) ==
    IF Len(s) % 2 # 0 THEN Failed
    ELSE [i \in 1..(Len(s) \div 2) |-> Xctoi(s[2 * i - 1]) * 16 + Xctoi(s[2 * i])]

UpperHex(s) == [i \in DOMAIN s |-> IF s[i] >= 97 THEN s[i] - 32 ELSE s[i]]
-----------------------------------------------------------------------------
(* Correctness.                                                            *)

\* Bytes come back from base64 and from hexadecimal of either case, at every length
\* modulo three.  Whatever base64_decode is given, when it does not fail it has
\* written the whole buffer whose length was counted by another loop: where pads
\* stand inside, are missing or are too many, where lines end, and where bits are
\* left; and the bytes are those of the digits that were counted.  A line end makes
\* the count short, so that a text of several lines cannot be decoded.
BytesAreKept ==
    /\ kind = "bytes" =>
          /\ Len(Base64Encode(text)) = encode_len(Len(text))
          /\ Base64Decode(Base64Encode(text)) = text
          /\ Unhexlify(Hexlify(text)) = text
          /\ Unhexlify(UpperHex(Hexlify(text))) = text
    /\ kind = "base64" =>
          LET bytes == Base64Decode(text)
              n     == LeadingDigits(text)
          IN  bytes # Failed =>
                 /\ Len(bytes) = decode_len(text)
                 /\ SubSeq(Base64Encode(bytes), 1, n - 1) = SubSeq(text, 1, n - 1)
                 /\ n % 4 = 0 => Base64Encode(bytes) = SubSeq(text, 1, n)
=============================================================================
