----------------------------- MODULE LibraryProofs -----------------------------
(***************************************************************************)
(* Proofs about Binascii, for every text of bytes and of base64            *)
(* characters, and about Digest, for messages in pieces of any lengths.    *)
(***************************************************************************)
EXTENDS Binascii, Digest, StrProofs

(* base64: the loop of the encoder.                                        *)

\* Encoding takes one byte after the other.
LEMMA EncodingDef ==
    ASSUME NEW b \in Seq(0..255)
    PROVE  \E f : /\ f[0] = [out |-> <<>>, left |-> 0, bits |-> 0]
                  /\ Encoding(b) = f[Len(b)]
                  /\ \A i \in Nat : i + 1 <= Len(b)
                        => f[i + 1] = EncodeByte(f[i], b[i + 1])
<1> DEFINE R(f, n) == f = [i \in 0..n |-> IF i = 0 THEN [out |-> <<>>, left |-> 0, bits |-> 0]
                                          ELSE EncodeByte(f[i - 1], b[i])]
           S == {n \in Nat : \E f : R(f, n)}
<1>1. 0 \in S
  <2> DEFINE f0 == [i \in 0..0 |-> [out |-> <<>>, left |-> 0, bits |-> 0]]
  <2>1. R(f0, 0)
    OBVIOUS
  <2>2. QED
    BY <2>1
<1>2. ASSUME NEW n \in Nat, n \in S PROVE n + 1 \in S
  <2>1. PICK f : R(f, n)
    BY <1>2
  <2> DEFINE g == [i \in 0..n + 1 |-> IF i = 0 THEN [out |-> <<>>, left |-> 0, bits |-> 0]
                                      ELSE EncodeByte(f[i - 1], b[i])]
  <2>2. \A i \in 0..n : f[i] = IF i = 0 THEN [out |-> <<>>, left |-> 0, bits |-> 0]
                               ELSE EncodeByte(f[i - 1], b[i])
    BY <2>1
  <2>3. \A i \in 0..n : g[i] = f[i]
    BY <2>2
  <2>4. ASSUME NEW i \in 0..n + 1, i # 0 PROVE g[i - 1] = f[i - 1]
    <3>1. i - 1 \in 0..n
      BY <1>2, <2>4
    <3>2. QED
      BY <2>3, <3>1
  <2>5. R(g, n + 1)
    BY <2>4
  <2>6. n + 1 \in Nat
    BY <1>2
  <2>7. QED
    BY <2>5, <2>6
<1>3. Len(b) \in Nat
  BY LenProperties
<1>4. Len(b) \in S
  <2> HIDE DEF S
  <2>1. QED
    BY <1>1, <1>2, <1>3, Induction
<1> DEFINE F == CHOOSE f : R(f, Len(b))
<1>5. R(F, Len(b))
  BY <1>4
<1>6. Encoding(b) = F[Len(b)]
  BY DEF Encoding
<1> HIDE DEF F
<1>7. \A i \in 0..Len(b) : F[i] = IF i = 0 THEN [out |-> <<>>, left |-> 0, bits |-> 0]
                                  ELSE EncodeByte(F[i - 1], b[i])
  BY <1>5
<1>8. F[0] = [out |-> <<>>, left |-> 0, bits |-> 0]
  <2>1. 0 \in 0..Len(b)
    BY <1>3
  <2>2. QED
    BY <1>7, <2>1
<1>9. ASSUME NEW i \in Nat, i + 1 <= Len(b)
      PROVE  F[i + 1] = EncodeByte(F[i], b[i + 1])
  <2> DEFINE j == i + 1
  <2>1. j \in 0..Len(b) /\ j # 0 /\ j - 1 = i
    BY <1>3, <1>9
  <2> HIDE DEF j
  <2>2. F[j] = EncodeByte(F[j - 1], b[j])
    BY <1>7, <2>1
  <2>3. QED
    BY <2>1, <2>2 DEF j
<1>10. QED
  BY <1>6, <1>8, <1>9

\* The four digits that three bytes are written as, group by group; out has the first
\* len of them when the first n bytes are taken.
Encoded(out, b, n, len) ==
    /\ out \in Seq(0..63) /\ Len(out) = len
    /\ \A q \in Nat : 3 * q + 1 <= n => out[4 * q + 1] = b[3 * q + 1] \div 4
    /\ \A q \in Nat : 3 * q + 2 <= n =>
          out[4 * q + 2] = (b[3 * q + 1] % 4) * 16 + b[3 * q + 2] \div 16
    /\ \A q \in Nat : 3 * q + 3 <= n =>
          /\ out[4 * q + 3] = (b[3 * q + 2] % 16) * 4 + b[3 * q + 3] \div 64
          /\ out[4 * q + 4] = b[3 * q + 3] % 64

\* The first byte of a group gives a digit and leaves two bits,
LEMMA EncodeByteFirst ==
    ASSUME NEW b \in Seq(0..255), NEW q \in Nat, 3 * q + 1 <= Len(b), NEW out,
           Encoded(out, b, 3 * q, 4 * q)
    PROVE  LET e == EncodeByte([out |-> out, left |-> 0, bits |-> 0], b[3 * q + 1])
           IN  /\ e = [out |-> e.out, left |-> b[3 * q + 1] % 4, bits |-> 2]
               /\ Encoded(e.out, b, 3 * q + 1, 4 * q + 1)
<1> DEFINE x == b[3 * q + 1]
           z == 0
           y == x \div 4
           w == x % 64
           e == [out |-> out, left |-> 0, bits |-> 0]
           r == Append(out, y)
<1>1. x \in 0..255 /\ z \in 0..255
  <2>1. Len(b) \in Nat
    BY LenProperties
  <2>2. 3 * q + 1 \in 1..Len(b)
    BY <2>1
  <2>3. QED
    BY <2>2, ElementOfSeq
<1>2. y \in 0..63 /\ w \in 0..63
  <2> HIDE DEF x, z
  <2>1. QED
    BY <1>1
<1>3. out \in Seq(0..63) /\ Len(out) = 4 * q /\ 4 * q \in Nat
  BY DEF Encoded
<1>4. EncodeByte(e, x) = [out |-> r, left |-> x % 4, bits |-> 2]
  <2>1. e.out = out /\ e.left = 0 /\ e.bits = 0
    OBVIOUS
  <2> DEFINE left == e.left * 256 + x
  <2>2. left \div 4 = y /\ left % 4 = x % 4
    <3> HIDE DEF x, z, e
    <3>1. QED
      BY <1>1, <2>1
  <2> HIDE DEF x, y, w, e
  <2>3. EncodeByte(e, x) = [out |-> Append(e.out, left \div 4), left |-> left % 4, bits |-> 2]
    BY <2>1 DEF EncodeByte
  <2>4. QED
    BY <2>1, <2>2, <2>3
<1>5. /\ r \in Seq(0..63) /\ Len(r) = 4 * q + 1 /\ \A i \in 1..4 * q : r[i] = out[i]
      /\ r[4 * q + 1] = y
  <2> HIDE DEF x, y, w
  <2>1. /\ Append(out, y) \in Seq(0..63) /\ Len(Append(out, y)) = Len(out) + 1
        /\ Append(out, y)[Len(out) + 1] = y /\ \A i \in 1..Len(out) : Append(out, y)[i] = out[i]
    BY <1>2, <1>3, AppendProperties
  <2>2. QED
    BY <1>3, <2>1
<1>6. \A i \in 1..4 * q : r[i] = out[i]
  BY <1>5
<1> HIDE DEF r
<1>7. ASSUME NEW p \in Nat, 3 * p + 1 <= 3 * q + 1
      PROVE  r[4 * p + 1] = b[3 * p + 1] \div 4
  <2>1. CASE p = q
    BY <1>1, <1>5, <1>6, <2>1
  <2>2. CASE p # q
    <3>1. 3 * p + 1 <= 3 * q /\ 4 * p + 1 \in 1..4 * q
      BY <1>7, <2>2
    <3>2. QED
      BY <1>6, <3>1 DEF Encoded
  <2>3. QED
    BY <2>1, <2>2
<1>8. ASSUME NEW p \in Nat, 3 * p + 2 <= 3 * q + 1
      PROVE  r[4 * p + 2] = (b[3 * p + 1] % 4) * 16 + b[3 * p + 2] \div 16
  <2>1. 3 * p + 2 <= 3 * q /\ 4 * p + 2 \in 1..4 * q
    BY <1>8
  <2>2. QED
    BY <1>6, <2>1 DEF Encoded
<1>9. ASSUME NEW p \in Nat, 3 * p + 3 <= 3 * q + 1
      PROVE  /\ r[4 * p + 3] = (b[3 * p + 2] % 16) * 4 + b[3 * p + 3] \div 64
             /\ r[4 * p + 4] = b[3 * p + 3] % 64
  <2>1. 3 * p + 3 <= 3 * q /\ 4 * p + 3 \in 1..4 * q /\ 4 * p + 4 \in 1..4 * q
    BY <1>9
  <2>2. QED
    BY <1>6, <2>1 DEF Encoded
<1>10. Encoded(r, b, 3 * q + 1, 4 * q + 1)
  BY <1>5, <1>7, <1>8, <1>9 DEF Encoded
<1>11. QED
  BY <1>4, <1>10

\* the second gives one and leaves four,
LEMMA EncodeByteSecond ==
    ASSUME NEW b \in Seq(0..255), NEW q \in Nat, 3 * q + 2 <= Len(b), NEW out,
           Encoded(out, b, 3 * q + 1, 4 * q + 1)
    PROVE  LET e == EncodeByte([out |-> out, left |-> b[3 * q + 1] % 4, bits |-> 2], b[3 * q + 2])
           IN  /\ e = [out |-> e.out, left |-> b[3 * q + 2] % 16, bits |-> 4]
               /\ Encoded(e.out, b, 3 * q + 2, 4 * q + 2)
<1> DEFINE x == b[3 * q + 2]
           z == b[3 * q + 1]
           y == (z % 4) * 16 + x \div 16
           w == x % 64
           e == [out |-> out, left |-> z % 4, bits |-> 2]
           r == Append(out, y)
<1>1. x \in 0..255 /\ z \in 0..255
  <2>1. Len(b) \in Nat
    BY LenProperties
  <2>2. 3 * q + 2 \in 1..Len(b) /\ 3 * q + 1 \in 1..Len(b)
    BY <2>1
  <2>3. QED
    BY <2>2, ElementOfSeq
<1>2. y \in 0..63 /\ w \in 0..63
  <2> HIDE DEF x, z
  <2>1. QED
    BY <1>1
<1>3. out \in Seq(0..63) /\ Len(out) = 4 * q + 1 /\ 4 * q + 1 \in Nat
  BY DEF Encoded
<1>4. EncodeByte(e, x) = [out |-> r, left |-> x % 16, bits |-> 4]
  <2>1. e.out = out /\ e.left = z % 4 /\ e.bits = 2
    OBVIOUS
  <2> DEFINE left == e.left * 256 + x
  <2>2. left \div 16 = y /\ left % 16 = x % 16
    <3> HIDE DEF x, z, e
    <3>1. QED
      BY <1>1, <2>1
  <2> HIDE DEF x, y, w, e
  <2>3. EncodeByte(e, x) = [out |-> Append(e.out, left \div 16), left |-> left % 16, bits |-> 4]
    BY <2>1 DEF EncodeByte
  <2>4. QED
    BY <2>1, <2>2, <2>3
<1>5. /\ r \in Seq(0..63) /\ Len(r) = 4 * q + 2 /\ \A i \in 1..4 * q + 1 : r[i] = out[i]
      /\ r[4 * q + 2] = y
  <2> HIDE DEF x, y, w
  <2>1. /\ Append(out, y) \in Seq(0..63) /\ Len(Append(out, y)) = Len(out) + 1
        /\ Append(out, y)[Len(out) + 1] = y /\ \A i \in 1..Len(out) : Append(out, y)[i] = out[i]
    BY <1>2, <1>3, AppendProperties, SMTT(30)
  <2>2. QED
    BY <1>3, <2>1
<1>6. \A i \in 1..4 * q + 1 : r[i] = out[i]
  BY <1>5
<1> HIDE DEF r
<1>7. ASSUME NEW p \in Nat, 3 * p + 1 <= 3 * q + 2
      PROVE  r[4 * p + 1] = b[3 * p + 1] \div 4
  <2>1. 3 * p + 1 <= 3 * q + 1 /\ 4 * p + 1 \in 1..4 * q + 1
    BY <1>7
  <2>2. QED
    BY <1>6, <2>1 DEF Encoded
<1>8. ASSUME NEW p \in Nat, 3 * p + 2 <= 3 * q + 2
      PROVE  r[4 * p + 2] = (b[3 * p + 1] % 4) * 16 + b[3 * p + 2] \div 16
  <2>1. CASE p = q
    BY <1>1, <1>5, <1>6, <2>1
  <2>2. CASE p # q
    <3>1. 3 * p + 2 <= 3 * q + 1 /\ 4 * p + 2 \in 1..4 * q + 1
      BY <1>8, <2>2
    <3>2. QED
      BY <1>6, <3>1 DEF Encoded
  <2>3. QED
    BY <2>1, <2>2
<1>9. ASSUME NEW p \in Nat, 3 * p + 3 <= 3 * q + 2
      PROVE  /\ r[4 * p + 3] = (b[3 * p + 2] % 16) * 4 + b[3 * p + 3] \div 64
             /\ r[4 * p + 4] = b[3 * p + 3] % 64
  <2>1. 3 * p + 3 <= 3 * q + 1 /\ 4 * p + 3 \in 1..4 * q + 1 /\ 4 * p + 4 \in 1..4 * q + 1
    BY <1>9
  <2>2. QED
    BY <1>6, <2>1 DEF Encoded
<1>10. Encoded(r, b, 3 * q + 2, 4 * q + 2)
  BY <1>5, <1>7, <1>8, <1>9 DEF Encoded
<1>11. QED
  BY <1>4, <1>10

\* and the third gives two.
LEMMA EncodeByteThird ==
    ASSUME NEW b \in Seq(0..255), NEW q \in Nat, 3 * q + 3 <= Len(b), NEW out,
           Encoded(out, b, 3 * q + 2, 4 * q + 2)
    PROVE  LET e == EncodeByte([out |-> out, left |-> b[3 * q + 2] % 16, bits |-> 4], b[3 * q + 3])
           IN  /\ e = [out |-> e.out, left |-> 0, bits |-> 0]
               /\ Encoded(e.out, b, 3 * q + 3, 4 * q + 4)
<1> DEFINE x == b[3 * q + 3]
           z == b[3 * q + 2]
           y == (z % 16) * 4 + x \div 64
           w == x % 64
           e == [out |-> out, left |-> z % 16, bits |-> 4]
           r == out \o <<y, w>>
<1>1. x \in 0..255 /\ z \in 0..255
  <2>1. Len(b) \in Nat
    BY LenProperties
  <2>2. 3 * q + 3 \in 1..Len(b) /\ 3 * q + 2 \in 1..Len(b)
    BY <2>1
  <2>3. QED
    BY <2>2, ElementOfSeq
<1>2. y \in 0..63 /\ w \in 0..63
  <2> HIDE DEF x, z
  <2>1. QED
    BY <1>1
<1>3. out \in Seq(0..63) /\ Len(out) = 4 * q + 2 /\ 4 * q + 2 \in Nat
  BY DEF Encoded
<1>4. EncodeByte(e, x) = [out |-> r, left |-> 0, bits |-> 0]
  <2>1. e.out = out /\ e.left = z % 16 /\ e.bits = 4
    OBVIOUS
  <2> DEFINE left == e.left * 256 + x
  <2>2. left \div 64 = y /\ left % 64 = w
    <3> HIDE DEF x, z, e
    <3>1. QED
      BY <1>1, <2>1
  <2> HIDE DEF x, y, w, e
  <2>3. EncodeByte(e, x) = [out |-> e.out \o <<left \div 64, left % 64>>, left |-> 0, bits |-> 0]
    BY <2>1 DEF EncodeByte
  <2>4. QED
    BY <2>1, <2>2, <2>3
<1>5. /\ r \in Seq(0..63) /\ Len(r) = 4 * q + 4 /\ \A i \in 1..4 * q + 2 : r[i] = out[i]
      /\ r[4 * q + 3] = y /\ r[4 * q + 4] = w
  <2> HIDE DEF x, y, w
  <2>1. <<y, w>> \in Seq(0..63) /\ Len(<<y, w>>) = 2 /\ <<y, w>>[1] = y /\ <<y, w>>[2] = w
    BY <1>2
  <2> DEFINE t == <<y, w>>
  <2>2. t \in Seq(0..63) /\ Len(t) = 2 /\ t[1] = y /\ t[2] = w
    BY <2>1
  <2> HIDE DEF t
  <2>3. /\ out \o t \in Seq(0..63) /\ Len(out \o t) = Len(out) + Len(t)
        /\ \A i \in 1..Len(out) + Len(t) : (out \o t)[i] =
              IF i <= Len(out) THEN out[i] ELSE t[i - Len(out)]
    BY <1>3, <2>2, ConcatProperties, ZenonT(40)
  <2> DEFINE u == out \o t
  <2>4. /\ u \in Seq(0..63) /\ Len(u) = 4 * q + 4
        /\ \A i \in 1..4 * q + 4 : u[i] = IF i <= 4 * q + 2 THEN out[i] ELSE t[i - (4 * q + 2)]
    BY <1>3, <2>2, <2>3, SMTT(30)
  <2> HIDE DEF u
  <2>5. 4 * q + 3 \in 1..4 * q + 4 /\ 4 * q + 3 - (4 * q + 2) = 1
    OBVIOUS
  <2>6. 4 * q + 4 \in 1..4 * q + 4 /\ 4 * q + 4 - (4 * q + 2) = 2
    OBVIOUS
  <2>7. u[4 * q + 3] = y /\ u[4 * q + 4] = w
    BY <2>2, <2>4, <2>5, <2>6
  <2>8. u = r
    BY DEF u, t
  <2>9. QED
    BY <2>4, <2>7, <2>8
<1>6. \A i \in 1..4 * q + 2 : r[i] = out[i]
  BY <1>5
<1> HIDE DEF r
<1>7. ASSUME NEW p \in Nat, 3 * p + 1 <= 3 * q + 3
      PROVE  r[4 * p + 1] = b[3 * p + 1] \div 4
  <2>1. 3 * p + 1 <= 3 * q + 2 /\ 4 * p + 1 \in 1..4 * q + 2
    BY <1>7
  <2>2. QED
    BY <1>6, <2>1 DEF Encoded
<1>8. ASSUME NEW p \in Nat, 3 * p + 2 <= 3 * q + 3
      PROVE  r[4 * p + 2] = (b[3 * p + 1] % 4) * 16 + b[3 * p + 2] \div 16
  <2>1. 3 * p + 2 <= 3 * q + 2 /\ 4 * p + 2 \in 1..4 * q + 2
    BY <1>8
  <2>2. QED
    BY <1>6, <2>1 DEF Encoded
<1>9. ASSUME NEW p \in Nat, 3 * p + 3 <= 3 * q + 3
      PROVE  /\ r[4 * p + 3] = (b[3 * p + 2] % 16) * 4 + b[3 * p + 3] \div 64
             /\ r[4 * p + 4] = b[3 * p + 3] % 64
  <2>1. CASE p = q
    BY <1>1, <1>5, <1>6, <2>1
  <2>2. CASE p # q
    <3>1. 3 * p + 3 <= 3 * q + 2 /\ 4 * p + 3 \in 1..4 * q + 2 /\ 4 * p + 4 \in 1..4 * q + 2
      BY <1>9, <2>2
    <3>2. QED
      BY <1>6, <3>1, SMTT(30) DEF Encoded
  <2>3. QED
    BY <2>1, <2>2
<1>10. Encoded(r, b, 3 * q + 3, 4 * q + 4)
  BY <1>5, <1>7, <1>8, <1>9 DEF Encoded
<1>11. QED
  BY <1>4, <1>10

\* What the encoder has when it has taken n bytes: whole groups, and one or two bytes
\* of the next.
GroupsEncoded(e, b, q, r) ==
    /\ r = 0 => /\ e = [out |-> e.out, left |-> 0, bits |-> 0]
                /\ Encoded(e.out, b, 3 * q, 4 * q)
    /\ r = 1 => /\ e = [out |-> e.out, left |-> b[3 * q + 1] % 4, bits |-> 2]
                /\ Encoded(e.out, b, 3 * q + 1, 4 * q + 1)
    /\ r = 2 => /\ e = [out |-> e.out, left |-> b[3 * q + 2] % 16, bits |-> 4]
                /\ Encoded(e.out, b, 3 * q + 2, 4 * q + 2)

\* The encoder has the digits of the bytes that it has taken.
LEMMA EncodingAt ==
    ASSUME NEW b \in Seq(0..255), NEW q \in Nat, NEW r \in 0..2, Len(b) = 3 * q + r
    PROVE  GroupsEncoded(Encoding(b), b, q, r)
<1> DEFINE n == Len(b)
<1>1. n \in Nat
  BY LenProperties
<1>2. PICK f : /\ f[0] = [out |-> <<>>, left |-> 0, bits |-> 0]
               /\ Encoding(b) = f[Len(b)]
               /\ \A i \in Nat : i + 1 <= Len(b) => f[i + 1] = EncodeByte(f[i], b[i + 1])
  BY EncodingDef
<1>3. GroupsEncoded(f[0], b, 0, 0)
  <2>1. <<>> \in Seq(0..63) /\ Len(<<>>) = 0
    BY EmptySeq
  <2>2. Encoded(<<>>, b, 0, 0)
    BY <2>1 DEF Encoded
  <2>3. f[0].out = <<>> /\ 3 * 0 = 0 /\ 4 * 0 = 0
    BY <1>2
  <2>4. QED
    BY <1>2, <2>2, <2>3 DEF GroupsEncoded
<1>4. ASSUME NEW p \in Nat, 3 * p + 1 <= n, GroupsEncoded(f[3 * p], b, p, 0)
      PROVE  GroupsEncoded(f[3 * p + 1], b, p, 1)
  <2>1. 3 * p \in Nat /\ f[3 * p + 1] = EncodeByte(f[3 * p], b[3 * p + 1])
    BY <1>2, <1>4
  <2> DEFINE e == f[3 * p]
  <2>2. e = [out |-> e.out, left |-> 0, bits |-> 0] /\ Encoded(e.out, b, 3 * p, 4 * p)
    BY <1>4 DEF GroupsEncoded
  <2>3. 3 * p + 1 <= Len(b)
    BY <1>4
  <2> DEFINE o == e.out
  <2>4. Encoded(o, b, 3 * p, 4 * p)
    BY <2>2
  <2> DEFINE u == EncodeByte([out |-> o, left |-> 0, bits |-> 0], b[3 * p + 1])
  <2> HIDE DEF o
  <2>5. u = [out |-> u.out, left |-> b[3 * p + 1] % 4, bits |-> 2] /\ Encoded(u.out, b, 3 * p + 1, 4 * p + 1)
    BY <2>3, <2>4, EncodeByteFirst
  <2>6. u = f[3 * p + 1]
    BY <2>1, <2>2 DEF o
  <2> HIDE DEF u
  <2>7. QED
    BY <2>5, <2>6 DEF GroupsEncoded
<1>5. ASSUME NEW p \in Nat, 3 * p + 2 <= n, GroupsEncoded(f[3 * p + 1], b, p, 1)
      PROVE  GroupsEncoded(f[3 * p + 2], b, p, 2)
  <2>1. 3 * p + 1 \in Nat /\ 3 * p + 1 + 1 = 3 * p + 2
    OBVIOUS
  <2>2. f[3 * p + 2] = EncodeByte(f[3 * p + 1], b[3 * p + 2])
    <3>1. f[3 * p + 1 + 1] = EncodeByte(f[3 * p + 1], b[3 * p + 1 + 1])
      BY <1>2, <1>5, <2>1
    <3>2. QED
      BY <2>1, <3>1
  <2> DEFINE e == f[3 * p + 1]
  <2>3. /\ e = [out |-> e.out, left |-> b[3 * p + 1] % 4, bits |-> 2]
        /\ Encoded(e.out, b, 3 * p + 1, 4 * p + 1)
    BY <1>5 DEF GroupsEncoded
  <2>4. 3 * p + 2 <= Len(b)
    BY <1>5
  <2> DEFINE o == e.out
  <2>5. Encoded(o, b, 3 * p + 1, 4 * p + 1)
    BY <2>3
  <2> DEFINE u == EncodeByte([out |-> o, left |-> b[3 * p + 1] % 4, bits |-> 2], b[3 * p + 2])
  <2> HIDE DEF o
  <2>6. u = [out |-> u.out, left |-> b[3 * p + 2] % 16, bits |-> 4] /\ Encoded(u.out, b, 3 * p + 2, 4 * p + 2)
    BY <2>4, <2>5, EncodeByteSecond
  <2>7. u = f[3 * p + 2]
    BY <2>2, <2>3 DEF o
  <2> HIDE DEF u
  <2>8. QED
    BY <2>6, <2>7 DEF GroupsEncoded
<1>6. ASSUME NEW p \in Nat, 3 * p + 3 <= n, GroupsEncoded(f[3 * p + 2], b, p, 2)
      PROVE  GroupsEncoded(f[3 * (p + 1)], b, p + 1, 0)
  <2>1. 3 * p + 2 \in Nat /\ 3 * p + 2 + 1 = 3 * p + 3 /\ 3 * (p + 1) = 3 * p + 3 /\ 4 * (p + 1) = 4 * p + 4
    OBVIOUS
  <2>2. f[3 * p + 3] = EncodeByte(f[3 * p + 2], b[3 * p + 3])
    <3>1. f[3 * p + 2 + 1] = EncodeByte(f[3 * p + 2], b[3 * p + 2 + 1])
      BY <1>2, <1>6, <2>1
    <3>2. QED
      BY <2>1, <3>1
  <2> DEFINE e == f[3 * p + 2]
  <2>3. /\ e = [out |-> e.out, left |-> b[3 * p + 2] % 16, bits |-> 4]
        /\ Encoded(e.out, b, 3 * p + 2, 4 * p + 2)
    BY <1>6 DEF GroupsEncoded
  <2>4. 3 * p + 3 <= Len(b)
    BY <1>6
  <2> DEFINE o == e.out
  <2>5. Encoded(o, b, 3 * p + 2, 4 * p + 2)
    BY <2>3
  <2> DEFINE u == EncodeByte([out |-> o, left |-> b[3 * p + 2] % 16, bits |-> 4], b[3 * p + 3])
  <2> HIDE DEF o
  <2>6. u = [out |-> u.out, left |-> 0, bits |-> 0] /\ Encoded(u.out, b, 3 * p + 3, 4 * p + 4)
    BY <2>4, <2>5, EncodeByteThird
  <2>7. u = f[3 * (p + 1)]
    BY <2>1, <2>2, <2>3 DEF o
  <2> HIDE DEF u
  <2>8. QED
    BY <2>1, <2>6, <2>7 DEF GroupsEncoded
<1> DEFINE S == {p \in Nat : 3 * p <= n => GroupsEncoded(f[3 * p], b, p, 0)}
<1>7. 0 \in S
  <2>1. 3 * 0 = 0
    OBVIOUS
  <2>2. QED
    BY <1>3, <2>1
<1>8. ASSUME NEW p \in Nat, p \in S PROVE p + 1 \in S
  <2>1. ASSUME 3 * (p + 1) <= n PROVE GroupsEncoded(f[3 * (p + 1)], b, p + 1, 0)
    <3>1. 3 * p <= n /\ 3 * p + 1 <= n /\ 3 * p + 2 <= n /\ 3 * p + 3 <= n
      BY <1>1, <2>1
    <3>2. GroupsEncoded(f[3 * p], b, p, 0)
      BY <1>8, <3>1
    <3> HIDE DEF n
    <3>3. GroupsEncoded(f[3 * p + 2], b, p, 2)
      BY <1>4, <1>5, <3>1, <3>2
    <3>4. QED
      BY <1>6, <3>1, <3>3
  <2>2. p + 1 \in Nat
    OBVIOUS
  <2>3. QED
    BY <2>1, <2>2
<1>9. \A p \in Nat : p \in S
  <2> HIDE DEF S
  <2>1. QED
    BY <1>7, <1>8, Induction
<1>10. n = 3 * q + r
  OBVIOUS
<1>11. GroupsEncoded(f[3 * q], b, q, 0)
  BY <1>9, <1>10
<1>12. 3 * q <= n /\ (r >= 1 => 3 * q + 1 <= n) /\ (r >= 2 => 3 * q + 2 <= n)
  BY <1>10
<1>13. Encoding(b) = f[n]
  BY <1>2
<1> HIDE DEF n, S
<1>14. CASE r = 0
  <2>1. n = 3 * q
    BY <1>10, <1>14
  <2>2. QED
    BY <1>11, <1>13, <1>14, <2>1
<1>15. CASE r = 1
  BY <1>4, <1>10, <1>11, <1>12, <1>13, <1>15
<1>16. CASE r = 2
  BY <1>4, <1>5, <1>10, <1>11, <1>12, <1>13, <1>16
<1>17. QED
  BY <1>14, <1>15, <1>16

-----------------------------------------------------------------------------
(* base64: the loop of the decoder.                                        *)

\* What one round of the loop makes of d.
Look(s, size, d, i) ==
    IF d.done \/ s[i] = Blank THEN d
    ELSE IF s[i] # Pad THEN Take(d, s[i], size)
    ELSE IF PadEnds(s, i, d.quad) THEN [d EXCEPT !.bits = 0, !.done = TRUE]
    ELSE d

\* Decoding takes one character after the other.
LEMMA DecodingDef ==
    ASSUME NEW D, NEW s \in Seq(D), NEW size
    PROVE  \E f : /\ f[0] = [out |-> <<>>, left |-> 0, bits |-> 0, quad |-> 0, done |-> FALSE]
                  /\ Decoding(s, size) = f[Len(s)]
                  /\ \A i \in Nat : i + 1 <= Len(s)
                        => f[i + 1] = Look(s, size, f[i], i + 1)
<1> DEFINE R(f, n) == f = [i \in 0..n |-> IF i = 0 THEN [out |-> <<>>, left |-> 0, bits |-> 0, quad |-> 0, done |-> FALSE]
                                          ELSE Look(s, size, f[i - 1], i)]
           S == {n \in Nat : \E f : R(f, n)}
<1>1. 0 \in S
  <2> DEFINE f0 == [i \in 0..0 |-> [out |-> <<>>, left |-> 0, bits |-> 0, quad |-> 0, done |-> FALSE]]
  <2>1. R(f0, 0)
    OBVIOUS
  <2>2. QED
    BY <2>1
<1>2. ASSUME NEW n \in Nat, n \in S PROVE n + 1 \in S
  <2>1. PICK f : R(f, n)
    BY <1>2
  <2> DEFINE g == [i \in 0..n + 1 |-> IF i = 0 THEN [out |-> <<>>, left |-> 0, bits |-> 0, quad |-> 0, done |-> FALSE]
                                      ELSE Look(s, size, f[i - 1], i)]
  <2>2. \A i \in 0..n : f[i] = IF i = 0 THEN [out |-> <<>>, left |-> 0, bits |-> 0, quad |-> 0, done |-> FALSE]
                               ELSE Look(s, size, f[i - 1], i)
    BY <2>1
  <2>3. \A i \in 0..n : g[i] = f[i]
    BY <2>2
  <2>4. ASSUME NEW i \in 0..n + 1, i # 0 PROVE g[i - 1] = f[i - 1]
    <3>1. i - 1 \in 0..n
      BY <1>2, <2>4
    <3>2. QED
      BY <2>3, <3>1
  <2>5. R(g, n + 1)
    BY <2>4
  <2>6. n + 1 \in Nat
    BY <1>2
  <2>7. QED
    BY <2>5, <2>6
<1>3. Len(s) \in Nat
  BY LenProperties
<1>4. Len(s) \in S
  <2> HIDE DEF S
  <2>1. QED
    BY <1>1, <1>2, <1>3, Induction
<1> DEFINE F == CHOOSE f : R(f, Len(s))
<1>5. R(F, Len(s))
  BY <1>4
<1>6. Decoding(s, size) = F[Len(s)]
  BY DEF Decoding, Look
<1> HIDE DEF F
<1>7. \A i \in 0..Len(s) : F[i] = IF i = 0 THEN [out |-> <<>>, left |-> 0, bits |-> 0, quad |-> 0, done |-> FALSE]
                                  ELSE Look(s, size, F[i - 1], i)
  BY <1>5
<1>8. F[0] = [out |-> <<>>, left |-> 0, bits |-> 0, quad |-> 0, done |-> FALSE]
  <2>1. 0 \in 0..Len(s)
    BY <1>3
  <2>2. QED
    BY <1>7, <2>1
<1>9. ASSUME NEW i \in Nat, i + 1 <= Len(s)
      PROVE  F[i + 1] = Look(s, size, F[i], i + 1)
  <2> DEFINE j == i + 1
  <2>1. j \in 0..Len(s) /\ j # 0 /\ j - 1 = i
    BY <1>3, <1>9
  <2> HIDE DEF j
  <2>2. F[j] = Look(s, size, F[j - 1], j)
    BY <1>7, <2>1
  <2>3. QED
    BY <2>1, <2>2 DEF j
<1>10. QED
  BY <1>6, <1>8, <1>9

\* The three bytes that four digits stand for, group by group; out has the first len
\* of them when the first n digits are taken.
Decoded(out, s, n, len) ==
    /\ out \in Seq(0..255) /\ Len(out) = len
    /\ \A q \in Nat : 4 * q + 2 <= n => out[3 * q + 1] = s[4 * q + 1] * 4 + s[4 * q + 2] \div 16
    /\ \A q \in Nat : 4 * q + 3 <= n =>
          out[3 * q + 2] = (s[4 * q + 2] % 16) * 16 + s[4 * q + 3] \div 4
    /\ \A q \in Nat : 4 * q + 4 <= n => out[3 * q + 3] = (s[4 * q + 3] % 4) * 64 + s[4 * q + 4]

\* The first digit of a group is kept,
LEMMA TakeFirst ==
    ASSUME NEW x \in 0..63, NEW size, NEW out
    PROVE  Take([out |-> out, left |-> 0, bits |-> 0, quad |-> 0, done |-> FALSE], x, size)
              = [out |-> out, left |-> x, bits |-> 6, quad |-> 1, done |-> FALSE]
<1>1. 0 * 64 + x = x /\ (0 + 1) % 4 = 1
  OBVIOUS
<1>2. QED
  BY <1>1 DEF Take

\* the second gives a byte and leaves four bits,
LEMMA TakeSecond ==
    ASSUME NEW s, NEW q \in Nat, s[4 * q + 1] \in 0..63, s[4 * q + 2] \in 0..63,
           NEW size, 3 * q # size, NEW out, Decoded(out, s, 4 * q + 1, 3 * q)
    PROVE  LET e == Take([out |-> out, left |-> s[4 * q + 1], bits |-> 6, quad |-> 1, done |-> FALSE],
                         s[4 * q + 2], size)
           IN  /\ e = [out |-> e.out, left |-> s[4 * q + 2] % 16, bits |-> 4, quad |-> 2, done |-> FALSE]
               /\ Decoded(e.out, s, 4 * q + 2, 3 * q + 1)
<1> DEFINE x == s[4 * q + 2]
           z == s[4 * q + 1]
           y == z * 4 + x \div 16
           d == [out |-> out, left |-> z, bits |-> 6, quad |-> 1, done |-> FALSE]
           r == Append(out, y)
<1>1. x \in 0..63 /\ z \in 0..63
  OBVIOUS
<1>2. y \in 0..255
  <2> HIDE DEF x, z
  <2>1. QED
    BY <1>1
<1>3. out \in Seq(0..255) /\ Len(out) = 3 * q /\ 3 * q \in Nat
  BY DEF Decoded
<1>4. Take(d, x, size) = [out |-> r, left |-> x % 16, bits |-> 4, quad |-> 2, done |-> FALSE]
  <2>1. /\ d.out = out /\ d.left = z /\ d.bits = 6 /\ d.quad = 1 /\ d.done = FALSE
        /\ d = [out |-> d.out, left |-> d.left, bits |-> d.bits, quad |-> d.quad, done |-> d.done]
    OBVIOUS
  <2> DEFINE left == d.left * 64 + x
  <2>2. left \div 16 = y /\ left % 16 = x % 16
    <3> HIDE DEF x, z, d
    <3>1. QED
      BY <1>1, <2>1
  <2> HIDE DEF x, y, d
  <2>3. Len(d.out) # size /\ d.bits - 2 = 4 /\ (d.quad + 1) % 4 = 2
    BY <1>3, <2>1
  <2> HIDE DEF left
  <2>4. Take(d, x, size) = [d EXCEPT !.out = Append(@, left \div 16), !.left = left % 16,
                                     !.bits = @ - 2, !.quad = 2]
    BY <2>1, <2>3 DEF Take, left
  <2>5. QED
    BY <2>1, <2>2, <2>3, <2>4
<1>5. /\ r \in Seq(0..255) /\ Len(r) = 3 * q + 1 /\ \A i \in 1..3 * q : r[i] = out[i]
      /\ r[3 * q + 1] = y
  <2> HIDE DEF x, y, z
  <2>1. out \in Seq(0..255) /\ y \in 0..255
    BY <1>2, <1>3
  <2>2. /\ Append(out, y) \in Seq(0..255) /\ Len(Append(out, y)) = Len(out) + 1
        /\ Append(out, y)[Len(out) + 1] = y /\ \A i \in 1..Len(out) : Append(out, y)[i] = out[i]
    BY <2>1, AppendProperties
  <2>3. QED
    BY <1>3, <2>2
<1>6. \A i \in 1..3 * q : r[i] = out[i]
  BY <1>5
<1> HIDE DEF r
<1>7. ASSUME NEW p \in Nat, 4 * p + 2 <= 4 * q + 2
      PROVE  r[3 * p + 1] = s[4 * p + 1] * 4 + s[4 * p + 2] \div 16
  <2>1. CASE p = q
    BY <1>5, <2>1
  <2>2. CASE p # q
    <3>1. 4 * p + 2 <= 4 * q + 1 /\ 3 * p + 1 \in 1..3 * q
      BY <1>7, <2>2
    <3>2. QED
      BY <1>6, <3>1 DEF Decoded
  <2>3. QED
    BY <2>1, <2>2
<1>8. ASSUME NEW p \in Nat, 4 * p + 3 <= 4 * q + 2
      PROVE  r[3 * p + 2] = (s[4 * p + 2] % 16) * 16 + s[4 * p + 3] \div 4
  <2>1. 4 * p + 3 <= 4 * q + 1 /\ 3 * p + 2 \in 1..3 * q
    BY <1>8
  <2>2. QED
    BY <1>6, <2>1 DEF Decoded
<1>9. ASSUME NEW p \in Nat, 4 * p + 4 <= 4 * q + 2
      PROVE  r[3 * p + 3] = (s[4 * p + 3] % 4) * 64 + s[4 * p + 4]
  <2>1. 4 * p + 4 <= 4 * q + 1 /\ 3 * p + 3 \in 1..3 * q
    BY <1>9
  <2>2. QED
    BY <1>6, <2>1 DEF Decoded
<1>10. Decoded(r, s, 4 * q + 2, 3 * q + 1)
  BY <1>5, <1>7, <1>8, <1>9 DEF Decoded
<1>11. Take(d, x, size).out = r
  BY <1>4
<1>12. QED
  BY <1>4, <1>10, <1>11

\* the third gives one and leaves two,
LEMMA TakeThird ==
    ASSUME NEW s, NEW q \in Nat, s[4 * q + 2] \in 0..63, s[4 * q + 3] \in 0..63,
           NEW size, 3 * q + 1 # size, NEW out, Decoded(out, s, 4 * q + 2, 3 * q + 1)
    PROVE  LET e == Take([out |-> out, left |-> s[4 * q + 2] % 16, bits |-> 4, quad |-> 2, done |-> FALSE],
                         s[4 * q + 3], size)
           IN  /\ e = [out |-> e.out, left |-> s[4 * q + 3] % 4, bits |-> 2, quad |-> 3, done |-> FALSE]
               /\ Decoded(e.out, s, 4 * q + 3, 3 * q + 2)
<1> DEFINE x == s[4 * q + 3]
           z == s[4 * q + 2]
           y == (z % 16) * 16 + x \div 4
           d == [out |-> out, left |-> z % 16, bits |-> 4, quad |-> 2, done |-> FALSE]
           r == Append(out, y)
<1>1. x \in 0..63 /\ z \in 0..63
  OBVIOUS
<1>2. y \in 0..255
  <2> HIDE DEF x, z
  <2>1. QED
    BY <1>1
<1>3. out \in Seq(0..255) /\ Len(out) = 3 * q + 1 /\ 3 * q + 1 \in Nat
  BY DEF Decoded
<1>4. Take(d, x, size) = [out |-> r, left |-> x % 4, bits |-> 2, quad |-> 3, done |-> FALSE]
  <2>1. /\ d.out = out /\ d.left = z % 16 /\ d.bits = 4 /\ d.quad = 2 /\ d.done = FALSE
        /\ d = [out |-> d.out, left |-> d.left, bits |-> d.bits, quad |-> d.quad, done |-> d.done]
    OBVIOUS
  <2> DEFINE left == d.left * 64 + x
  <2>2. left \div 4 = y /\ left % 4 = x % 4
    <3> HIDE DEF x, z, d
    <3>1. QED
      BY <1>1, <2>1
  <2> HIDE DEF x, y, d
  <2>3. Len(d.out) # size /\ d.bits - 2 = 2 /\ (d.quad + 1) % 4 = 3
    BY <1>3, <2>1
  <2> HIDE DEF left
  <2>4. Take(d, x, size) = [d EXCEPT !.out = Append(@, left \div 4), !.left = left % 4,
                                     !.bits = @ - 2, !.quad = 3]
    BY <2>1, <2>3 DEF Take, left
  <2>5. QED
    BY <2>1, <2>2, <2>3, <2>4
<1>5. /\ r \in Seq(0..255) /\ Len(r) = 3 * q + 2 /\ \A i \in 1..3 * q + 1 : r[i] = out[i]
      /\ r[3 * q + 2] = y
  <2> HIDE DEF x, y, z
  <2>1. out \in Seq(0..255) /\ y \in 0..255
    BY <1>2, <1>3
  <2>2. /\ Append(out, y) \in Seq(0..255) /\ Len(Append(out, y)) = Len(out) + 1
        /\ Append(out, y)[Len(out) + 1] = y /\ \A i \in 1..Len(out) : Append(out, y)[i] = out[i]
    BY <2>1, AppendProperties
  <2>3. QED
    BY <1>3, <2>2
<1>6. \A i \in 1..3 * q + 1 : r[i] = out[i]
  BY <1>5
<1> HIDE DEF r
<1>7. ASSUME NEW p \in Nat, 4 * p + 2 <= 4 * q + 3
      PROVE  r[3 * p + 1] = s[4 * p + 1] * 4 + s[4 * p + 2] \div 16
  <2>1. 4 * p + 2 <= 4 * q + 2 /\ 3 * p + 1 \in 1..3 * q + 1
    BY <1>7
  <2>2. QED
    BY <1>6, <2>1 DEF Decoded
<1>8. ASSUME NEW p \in Nat, 4 * p + 3 <= 4 * q + 3
      PROVE  r[3 * p + 2] = (s[4 * p + 2] % 16) * 16 + s[4 * p + 3] \div 4
  <2>1. CASE p = q
    BY <1>5, <2>1
  <2>2. CASE p # q
    <3>1. 4 * p + 3 <= 4 * q + 2 /\ 3 * p + 2 \in 1..3 * q + 1
      BY <1>8, <2>2
    <3>2. QED
      BY <1>6, <3>1 DEF Decoded
  <2>3. QED
    BY <2>1, <2>2
<1>9. ASSUME NEW p \in Nat, 4 * p + 4 <= 4 * q + 3
      PROVE  r[3 * p + 3] = (s[4 * p + 3] % 4) * 64 + s[4 * p + 4]
  <2>1. 4 * p + 4 <= 4 * q + 2 /\ 3 * p + 3 \in 1..3 * q + 1
    BY <1>9
  <2>2. QED
    BY <1>6, <2>1 DEF Decoded
<1>10. Decoded(r, s, 4 * q + 3, 3 * q + 2)
  BY <1>5, <1>7, <1>8, <1>9 DEF Decoded
<1>11. Take(d, x, size).out = r
  BY <1>4
<1>12. QED
  BY <1>4, <1>10, <1>11

\* and the fourth gives one and leaves none.
LEMMA TakeFourth ==
    ASSUME NEW s, NEW q \in Nat, s[4 * q + 3] \in 0..63, s[4 * q + 4] \in 0..63,
           NEW size, 3 * q + 2 # size, NEW out, Decoded(out, s, 4 * q + 3, 3 * q + 2)
    PROVE  LET e == Take([out |-> out, left |-> s[4 * q + 3] % 4, bits |-> 2, quad |-> 3, done |-> FALSE],
                         s[4 * q + 4], size)
           IN  /\ e = [out |-> e.out, left |-> 0, bits |-> 0, quad |-> 0, done |-> FALSE]
               /\ Decoded(e.out, s, 4 * q + 4, 3 * q + 3)
<1> DEFINE x == s[4 * q + 4]
           z == s[4 * q + 3]
           y == (z % 4) * 64 + x
           d == [out |-> out, left |-> z % 4, bits |-> 2, quad |-> 3, done |-> FALSE]
           r == Append(out, y)
<1>1. x \in 0..63 /\ z \in 0..63
  OBVIOUS
<1>2. y \in 0..255
  <2> HIDE DEF x, z
  <2>1. QED
    BY <1>1
<1>3. out \in Seq(0..255) /\ Len(out) = 3 * q + 2 /\ 3 * q + 2 \in Nat
  BY DEF Decoded
<1>4. Take(d, x, size) = [out |-> r, left |-> 0, bits |-> 0, quad |-> 0, done |-> FALSE]
  <2>1. /\ d.out = out /\ d.left = z % 4 /\ d.bits = 2 /\ d.quad = 3 /\ d.done = FALSE
        /\ d = [out |-> d.out, left |-> d.left, bits |-> d.bits, quad |-> d.quad, done |-> d.done]
    OBVIOUS
  <2> DEFINE left == d.left * 64 + x
  <2>2. left \div 1 = y /\ left % 1 = 0
    <3> HIDE DEF x, z, d
    <3>1. QED
      BY <1>1, <2>1
  <2> HIDE DEF x, y, d
  <2>3. Len(d.out) # size /\ d.bits - 2 = 0 /\ (d.quad + 1) % 4 = 0
    BY <1>3, <2>1
  <2> HIDE DEF left
  <2>4. Take(d, x, size) = [d EXCEPT !.out = Append(@, left \div 1), !.left = left % 1,
                                     !.bits = @ - 2, !.quad = 0]
    BY <2>1, <2>3 DEF Take, left
  <2>5. QED
    BY <2>1, <2>2, <2>3, <2>4
<1>5. /\ r \in Seq(0..255) /\ Len(r) = 3 * q + 3 /\ \A i \in 1..3 * q + 2 : r[i] = out[i]
      /\ r[3 * q + 3] = y
  <2> HIDE DEF x, y, z
  <2>1. out \in Seq(0..255) /\ y \in 0..255
    BY <1>2, <1>3
  <2>2. /\ Append(out, y) \in Seq(0..255) /\ Len(Append(out, y)) = Len(out) + 1
        /\ Append(out, y)[Len(out) + 1] = y /\ \A i \in 1..Len(out) : Append(out, y)[i] = out[i]
    BY <2>1, AppendProperties
  <2>3. QED
    BY <1>3, <2>2
<1>6. \A i \in 1..3 * q + 2 : r[i] = out[i]
  BY <1>5
<1> HIDE DEF r
<1>7. ASSUME NEW p \in Nat, 4 * p + 2 <= 4 * q + 4
      PROVE  r[3 * p + 1] = s[4 * p + 1] * 4 + s[4 * p + 2] \div 16
  <2>1. 4 * p + 2 <= 4 * q + 3 /\ 3 * p + 1 \in 1..3 * q + 2
    BY <1>7
  <2>2. QED
    BY <1>6, <2>1 DEF Decoded
<1>8. ASSUME NEW p \in Nat, 4 * p + 3 <= 4 * q + 4
      PROVE  r[3 * p + 2] = (s[4 * p + 2] % 16) * 16 + s[4 * p + 3] \div 4
  <2>1. 4 * p + 3 <= 4 * q + 3 /\ 3 * p + 2 \in 1..3 * q + 2
    BY <1>8
  <2>2. QED
    BY <1>6, <2>1 DEF Decoded
<1>9. ASSUME NEW p \in Nat, 4 * p + 4 <= 4 * q + 4
      PROVE  r[3 * p + 3] = (s[4 * p + 3] % 4) * 64 + s[4 * p + 4]
  <2>1. CASE p = q
    BY <1>5, <2>1
  <2>2. CASE p # q
    <3>1. 4 * p + 4 <= 4 * q + 3 /\ 3 * p + 3 \in 1..3 * q + 2
      BY <1>9, <2>2
    <3>2. QED
      BY <1>6, <3>1 DEF Decoded
  <2>3. QED
    BY <2>1, <2>2
<1>10. Decoded(r, s, 4 * q + 4, 3 * q + 3)
  BY <1>5, <1>7, <1>8, <1>9 DEF Decoded
<1>11. Take(d, x, size).out = r
  BY <1>4
<1>12. QED
  BY <1>4, <1>10, <1>11

\* What the decoder has when it has taken whole groups of digits, and up to three of
\* the next.
Taken(d, s, q, r) ==
    /\ r = 0 => /\ d = [out |-> d.out, left |-> 0, bits |-> 0, quad |-> 0, done |-> FALSE]
                /\ Decoded(d.out, s, 4 * q, 3 * q)
    /\ r = 1 => /\ d = [out |-> d.out, left |-> s[4 * q + 1], bits |-> 6, quad |-> 1, done |-> FALSE]
                /\ Decoded(d.out, s, 4 * q + 1, 3 * q)
    /\ r = 2 => /\ d = [out |-> d.out, left |-> s[4 * q + 2] % 16, bits |-> 4, quad |-> 2, done |-> FALSE]
                /\ Decoded(d.out, s, 4 * q + 2, 3 * q + 1)
    /\ r = 3 => /\ d = [out |-> d.out, left |-> s[4 * q + 3] % 4, bits |-> 2, quad |-> 3, done |-> FALSE]
                /\ Decoded(d.out, s, 4 * q + 3, 3 * q + 2)

\* The decoder has the bytes of the leading digits, when there is room for them.
LEMMA DecodingAt ==
    ASSUME NEW D, NEW s \in Seq(D), NEW n \in 0..Len(s), \A i \in 1..n : s[i] \in 0..63,
           NEW size \in Nat, 3 * n <= 4 * size + 3,
           NEW f, f[0] = [out |-> <<>>, left |-> 0, bits |-> 0, quad |-> 0, done |-> FALSE],
           \A i \in Nat : i + 1 <= Len(s) => f[i + 1] = Look(s, size, f[i], i + 1),
           NEW q \in Nat, NEW r \in 0..3, n = 4 * q + r
    PROVE  Taken(f[n], s, q, r)
<1>1. Len(s) \in Nat /\ n \in Nat /\ n <= Len(s)
  BY LenProperties
<1>2. Taken(f[0], s, 0, 0)
  <2>1. <<>> \in Seq(0..255) /\ Len(<<>>) = 0
    BY EmptySeq
  <2>2. Decoded(<<>>, s, 0, 0)
    BY <2>1 DEF Decoded
  <2>3. f[0].out = <<>> /\ 3 * 0 = 0 /\ 4 * 0 = 0
    OBVIOUS
  <2>4. QED
    BY <2>2, <2>3 DEF Taken
<1>3. ASSUME NEW p \in Nat, 4 * p + 1 <= n, Taken(f[4 * p], s, p, 0)
      PROVE  Taken(f[4 * p + 1], s, p, 1)
  <2>1. 4 * p \in Nat /\ 4 * p + 1 = 4 * p + 1 /\ 4 * p + 1 <= Len(s)
    BY <1>1, <1>3
  <2>2. f[4 * p + 1] = Look(s, size, f[4 * p], 4 * p + 1)
    <3>1. f[4 * p + 1] = Look(s, size, f[4 * p], 4 * p + 1)
      BY <2>1
    <3>2. QED
      BY <2>1, <3>1
  <2>3. 4 * p + 1 \in 1..n
    BY <1>1, <1>3
  <2>4. s[4 * p + 1] \in 0..63
    BY <2>3
  <2> DEFINE e == f[4 * p]
             o == e.out
  <2>5. /\ e = [out |-> o, left |-> 0, bits |-> 0, quad |-> 0, done |-> FALSE]
        /\ Decoded(o, s, 4 * p, 3 * p)
    BY <1>3 DEF Taken
  <2>6. e.done = FALSE
    BY <2>5
  <2> HIDE DEF o
  <2> DEFINE d == [out |-> o, left |-> 0, bits |-> 0, quad |-> 0, done |-> FALSE]
             u == Take(d, s[4 * p + 1], size)
  <2>7. u = f[4 * p + 1]
    <3> DEFINE c == s[4 * p + 1]
    <3>1. c # Pad /\ c # Blank
      <4>1. c \in 0..63
        BY <2>4
      <4> HIDE DEF c
      <4>2. QED
        BY <4>1 DEF Pad, Blank
    <3>2. Look(s, size, e, 4 * p + 1) = Take(e, c, size)
      BY <2>6, <3>1 DEF Look
    <3>3. QED
      BY <2>2, <2>5, <3>2
  <2> HIDE DEF d
  <2>8. /\ u = [out |-> o, left |-> s[4 * p + 1], bits |-> 6, quad |-> 1, done |-> FALSE]
        /\ Decoded(o, s, 4 * p + 1, 3 * p)
    <3>1. s[4 * p + 1] \in 0..63 /\ Decoded(o, s, 4 * p, 3 * p)
      BY <2>4, <2>5
    <3> HIDE DEF e
    <3> DEFINE x == s[4 * p + 1]
    <3>2. x \in 0..63
      BY <3>1
    <3> HIDE DEF u, x
    <3>3. Take([out |-> o, left |-> 0, bits |-> 0, quad |-> 0, done |-> FALSE], x, size)
             = [out |-> o, left |-> x, bits |-> 6, quad |-> 1, done |-> FALSE]
      BY <3>2, TakeFirst
    <3>4. Decoded(o, s, 4 * p + 1, 3 * p)
      <4>1. \A t \in Nat : /\ 4 * t + 2 <= 4 * p + 1 => 4 * t + 2 <= 4 * p
                           /\ 4 * t + 3 <= 4 * p + 1 => 4 * t + 3 <= 4 * p
                           /\ 4 * t + 4 <= 4 * p + 1 => 4 * t + 4 <= 4 * p
        OBVIOUS
      <4>2. QED
        BY <3>1, <4>1 DEF Decoded
    <3>5. QED
      BY <3>3, <3>4 DEF u, d, x
  <2> HIDE DEF u
  <2>9. u.out = o
    BY <2>8
  <2>10. QED
    BY <2>7, <2>8, <2>9 DEF Taken
<1>4. ASSUME NEW p \in Nat, 4 * p + 2 <= n, Taken(f[4 * p + 1], s, p, 1)
      PROVE  Taken(f[4 * p + 2], s, p, 2)
  <2>1. 4 * p + 1 \in Nat /\ 4 * p + 1 + 1 = 4 * p + 2 /\ 4 * p + 2 <= Len(s)
    BY <1>1, <1>4
  <2>2. f[4 * p + 2] = Look(s, size, f[4 * p + 1], 4 * p + 2)
    <3>1. f[4 * p + 1 + 1] = Look(s, size, f[4 * p + 1], 4 * p + 1 + 1)
      BY <2>1
    <3>2. QED
      BY <2>1, <3>1
  <2>3. 4 * p + 2 \in 1..n /\ 4 * p + 1 \in 1..n
    BY <1>1, <1>4
  <2>4. s[4 * p + 2] \in 0..63 /\ s[4 * p + 1] \in 0..63
    BY <2>3
  <2> DEFINE e == f[4 * p + 1]
             o == e.out
  <2>5. /\ e = [out |-> o, left |-> s[4 * p + 1], bits |-> 6, quad |-> 1, done |-> FALSE]
        /\ Decoded(o, s, 4 * p + 1, 3 * p)
    BY <1>4 DEF Taken
  <2>6. e.done = FALSE
    BY <2>5
  <2> HIDE DEF o
  <2> DEFINE d == [out |-> o, left |-> s[4 * p + 1], bits |-> 6, quad |-> 1, done |-> FALSE]
             u == Take(d, s[4 * p + 2], size)
  <2>7. u = f[4 * p + 2]
    <3> DEFINE c == s[4 * p + 2]
    <3>1. c # Pad /\ c # Blank
      <4>1. c \in 0..63
        BY <2>4
      <4> HIDE DEF c
      <4>2. QED
        BY <4>1 DEF Pad, Blank
    <3>2. Look(s, size, e, 4 * p + 2) = Take(e, c, size)
      BY <2>6, <3>1 DEF Look
    <3>3. QED
      BY <2>2, <2>5, <3>2
  <2>8. 3 * p # size
    <3> HIDE DEF e
    <3>1. QED
      BY <1>1, <1>4
  <2>9. Decoded(o, s, 4 * p + 1, 3 * p)
    BY <2>5
  <2>10. /\ u = [out |-> u.out, left |-> s[4 * p + 2] % 16, bits |-> 4, quad |-> 2, done |-> FALSE]
         /\ Decoded(u.out, s, 4 * p + 2, 3 * p + 1)
    <3> HIDE DEF e
    <3>1. QED
      BY <2>4, <2>8, <2>9, TakeSecond DEF d
  <2> HIDE DEF u
  <2>11. QED
    BY <2>7, <2>10 DEF Taken
<1>5. ASSUME NEW p \in Nat, 4 * p + 3 <= n, Taken(f[4 * p + 2], s, p, 2)
      PROVE  Taken(f[4 * p + 3], s, p, 3)
  <2>1. 4 * p + 2 \in Nat /\ 4 * p + 2 + 1 = 4 * p + 3 /\ 4 * p + 3 <= Len(s)
    BY <1>1, <1>5
  <2>2. f[4 * p + 3] = Look(s, size, f[4 * p + 2], 4 * p + 3)
    <3>1. f[4 * p + 2 + 1] = Look(s, size, f[4 * p + 2], 4 * p + 2 + 1)
      BY <2>1
    <3>2. QED
      BY <2>1, <3>1
  <2>3. 4 * p + 3 \in 1..n /\ 4 * p + 2 \in 1..n
    BY <1>1, <1>5
  <2>4. s[4 * p + 3] \in 0..63 /\ s[4 * p + 2] \in 0..63
    BY <2>3
  <2> DEFINE e == f[4 * p + 2]
             o == e.out
  <2>5. /\ e = [out |-> o, left |-> s[4 * p + 2] % 16, bits |-> 4, quad |-> 2, done |-> FALSE]
        /\ Decoded(o, s, 4 * p + 2, 3 * p + 1)
    BY <1>5 DEF Taken
  <2>6. e.done = FALSE
    BY <2>5
  <2> HIDE DEF o
  <2> DEFINE d == [out |-> o, left |-> s[4 * p + 2] % 16, bits |-> 4, quad |-> 2, done |-> FALSE]
             u == Take(d, s[4 * p + 3], size)
  <2>7. u = f[4 * p + 3]
    <3> DEFINE c == s[4 * p + 3]
    <3>1. c # Pad /\ c # Blank
      <4>1. c \in 0..63
        BY <2>4
      <4> HIDE DEF c
      <4>2. QED
        BY <4>1 DEF Pad, Blank
    <3>2. Look(s, size, e, 4 * p + 3) = Take(e, c, size)
      BY <2>6, <3>1 DEF Look
    <3>3. QED
      BY <2>2, <2>5, <3>2
  <2>8. 3 * p + 1 # size
    <3> HIDE DEF e
    <3>1. QED
      BY <1>1, <1>5
  <2>9. Decoded(o, s, 4 * p + 2, 3 * p + 1)
    BY <2>5
  <2>10. /\ u = [out |-> u.out, left |-> s[4 * p + 3] % 4, bits |-> 2, quad |-> 3, done |-> FALSE]
         /\ Decoded(u.out, s, 4 * p + 3, 3 * p + 2)
    <3> HIDE DEF e
    <3>1. QED
      BY <2>4, <2>8, <2>9, TakeThird DEF d
  <2> HIDE DEF u
  <2>11. QED
    BY <2>7, <2>10 DEF Taken
<1>6. ASSUME NEW p \in Nat, 4 * p + 4 <= n, Taken(f[4 * p + 3], s, p, 3)
      PROVE  Taken(f[4 * (p + 1)], s, p + 1, 0)
  <2>1. 4 * p + 3 \in Nat /\ 4 * p + 3 + 1 = 4 * p + 4 /\ 4 * p + 4 <= Len(s)
    BY <1>1, <1>6
  <2>2. f[4 * p + 4] = Look(s, size, f[4 * p + 3], 4 * p + 4)
    <3>1. f[4 * p + 3 + 1] = Look(s, size, f[4 * p + 3], 4 * p + 3 + 1)
      BY <2>1
    <3>2. QED
      BY <2>1, <3>1
  <2>3. 4 * p + 4 \in 1..n /\ 4 * p + 3 \in 1..n
    BY <1>1, <1>6
  <2>4. s[4 * p + 4] \in 0..63 /\ s[4 * p + 3] \in 0..63
    BY <2>3
  <2> DEFINE e == f[4 * p + 3]
             o == e.out
  <2>5. /\ e = [out |-> o, left |-> s[4 * p + 3] % 4, bits |-> 2, quad |-> 3, done |-> FALSE]
        /\ Decoded(o, s, 4 * p + 3, 3 * p + 2)
    BY <1>6 DEF Taken
  <2>6. e.done = FALSE
    BY <2>5
  <2> HIDE DEF o
  <2> DEFINE d == [out |-> o, left |-> s[4 * p + 3] % 4, bits |-> 2, quad |-> 3, done |-> FALSE]
             u == Take(d, s[4 * p + 4], size)
  <2>7. u = f[4 * p + 4]
    <3> DEFINE c == s[4 * p + 4]
    <3>1. c # Pad /\ c # Blank
      <4>1. c \in 0..63
        BY <2>4
      <4> HIDE DEF c
      <4>2. QED
        BY <4>1 DEF Pad, Blank
    <3>2. Look(s, size, e, 4 * p + 4) = Take(e, c, size)
      BY <2>6, <3>1 DEF Look
    <3>3. QED
      BY <2>2, <2>5, <3>2
  <2>8. 3 * p + 2 # size
    <3> HIDE DEF e
    <3>1. QED
      BY <1>1, <1>6
  <2>9. Decoded(o, s, 4 * p + 3, 3 * p + 2)
    BY <2>5
  <2>10. /\ u = [out |-> u.out, left |-> 0, bits |-> 0, quad |-> 0, done |-> FALSE]
         /\ Decoded(u.out, s, 4 * p + 4, 3 * p + 3)
    <3> HIDE DEF e
    <3>1. QED
      BY <2>4, <2>8, <2>9, TakeFourth DEF d
  <2> HIDE DEF u
  <2>11. 4 * (p + 1) = 4 * p + 4 /\ 3 * (p + 1) = 3 * p + 3
    OBVIOUS
  <2> HIDE DEF e
  <2>12. Taken(u, s, p + 1, 0)
    BY <2>10, <2>11 DEF Taken
  <2>13. QED
    BY <2>7, <2>11, <2>12
<1> DEFINE S == {p \in Nat : 4 * p <= n => Taken(f[4 * p], s, p, 0)}
<1>7. 0 \in S
  <2>1. 4 * 0 = 0
    OBVIOUS
  <2>2. QED
    BY <1>2, <2>1
<1>8. ASSUME NEW p \in Nat, p \in S PROVE p + 1 \in S
  <2>1. ASSUME 4 * (p + 1) <= n PROVE Taken(f[4 * (p + 1)], s, p + 1, 0)
    <3>1. 4 * p <= n /\ 4 * p + 1 <= n /\ 4 * p + 2 <= n /\ 4 * p + 3 <= n /\ 4 * p + 4 <= n
      BY <1>1, <2>1
    <3>2. Taken(f[4 * p], s, p, 0)
      BY <1>8, <3>1
    <3>3. Taken(f[4 * p + 3], s, p, 3)
      BY <1>3, <1>4, <1>5, <3>1, <3>2
    <3>4. QED
      BY <1>6, <3>1, <3>3
  <2>2. p + 1 \in Nat
    OBVIOUS
  <2>3. QED
    BY <2>1, <2>2
<1>9. \A p \in Nat : p \in S
  <2> HIDE DEF S
  <2>1. QED
    BY <1>7, <1>8, Induction
<1>10. 4 * q <= n /\ (r >= 1 => 4 * q + 1 <= n) /\ (r >= 2 => 4 * q + 2 <= n) /\ (r >= 3 => 4 * q + 3 <= n)
  OBVIOUS
<1>11. Taken(f[4 * q], s, q, 0)
  BY <1>9, <1>10
<1> HIDE DEF S
<1>12. CASE r = 0
  <2>1. n = 4 * q
    BY <1>12
  <2>2. QED
    BY <1>11, <1>12, <2>1
<1>13. CASE r = 1
  BY <1>3, <1>10, <1>11, <1>13
<1>14. CASE r = 2
  BY <1>3, <1>4, <1>10, <1>11, <1>14
<1>15. CASE r = 3
  BY <1>3, <1>4, <1>5, <1>10, <1>11, <1>15
<1>16. QED
  BY <1>12, <1>13, <1>14, <1>15

-----------------------------------------------------------------------------
(* base64: there and back.                                                 *)

\* Before the first character that is no digit, all are digits.
LEMMA LeadingDigitsAre ==
    ASSUME NEW D, D \subseteq Int, NEW s \in Seq(D)
    PROVE  LET n == LeadingDigits(s)
           IN  /\ n \in 0..Len(s)
               /\ \A i \in 1..n : s[i] >= 0
               /\ n < Len(s) => s[n + 1] < 0
<1> DEFINE stops == {i \in DOMAIN s : s[i] < 0}
           n == LeadingDigits(s)
<1>1. Len(s) \in Nat /\ DOMAIN s = 1..Len(s) /\ \A i \in 1..Len(s) : s[i] \in Int
  BY LenProperties, ElementOfSeq
<1>2. CASE stops = {}
  <2>1. n = Len(s)
    BY <1>2 DEF LeadingDigits
  <2> HIDE DEF n
  <2>2. QED
    BY <1>1, <1>2, <2>1 DEF n
<1>3. CASE stops # {}
  <2>1. stops \subseteq Nat
    BY <1>1
  <2>2. \E i \in stops : \A j \in stops : i <= j
    <3> HIDE DEF stops
    <3>1. QED
      BY <1>3, <2>1, LeastNumber
  <2>3. Min(stops) \in stops /\ \A j \in stops : Min(stops) <= j
    <3> HIDE DEF stops
    <3>1. QED
      BY <2>2 DEF Min
  <2> DEFINE k == Min(stops)
  <2>4. n = k - 1
    BY <1>3 DEF LeadingDigits
  <2>5. k \in 1..Len(s) /\ s[k] < 0
    BY <1>1, <2>3
  <2> HIDE DEF k, n
  <2>6. n \in 0..Len(s) /\ n + 1 = k
    BY <1>1, <2>4, <2>5
  <2>7. ASSUME NEW i \in 1..n PROVE s[i] >= 0
    <3>1. i \in 1..Len(s) /\ i < k
      BY <1>1, <2>4, <2>5, <2>7
    <3>2. i \notin stops
      <4>1. i \in stops => k <= i
        BY <2>3 DEF k
      <4>2. k \in Int /\ i \in Int
        BY <2>5
      <4> HIDE DEF stops
      <4>3. QED
        BY <3>1, <4>1, <4>2
    <3>3. ~(s[i] < 0) /\ s[i] \in Int
      BY <1>1, <3>1, <3>2
    <3>4. QED
      BY <3>3
  <2>8. QED
    BY <2>5, <2>6, <2>7 DEF n
<1>4. QED
  BY <1>2, <1>3

\* There is one number of leading digits.
LEMMA LeadingDigitsBe ==
    ASSUME NEW D, D \subseteq Int, NEW s \in Seq(D), NEW k \in 0..Len(s),
           \A i \in 1..k : s[i] >= 0, k < Len(s) => s[k + 1] < 0
    PROVE  LeadingDigits(s) = k
<1> DEFINE n == LeadingDigits(s)
<1>1. n \in 0..Len(s) /\ (\A i \in 1..n : s[i] >= 0) /\ (n < Len(s) => s[n + 1] < 0)
  BY LeadingDigitsAre
<1>2. Len(s) \in Nat /\ \A i \in 1..Len(s) : s[i] \in Int
  BY LenProperties, ElementOfSeq
<1> HIDE DEF n
<1>3. ~(n < k)
  <2>1. ASSUME n < k PROVE FALSE
    <3>1. n + 1 \in 1..k /\ n + 1 \in 1..Len(s) /\ n < Len(s)
      BY <1>1, <1>2, <2>1
    <3>2. s[n + 1] >= 0 /\ s[n + 1] < 0 /\ s[n + 1] \in Int
      BY <1>1, <1>2, <3>1
    <3>3. QED
      BY <3>2
  <2>2. QED
    BY <2>1
<1>4. ~(k < n)
  <2>1. ASSUME k < n PROVE FALSE
    <3>1. k + 1 \in 1..n /\ k + 1 \in 1..Len(s) /\ k < Len(s)
      BY <1>1, <1>2, <2>1
    <3>2. s[k + 1] >= 0 /\ s[k + 1] < 0 /\ s[k + 1] \in Int
      BY <1>1, <1>2, <3>1
    <3>3. QED
      BY <3>2
  <2>2. QED
    BY <2>1
<1>5. QED
  BY <1>1, <1>2, <1>3, <1>4 DEF n

\* What decode_len makes of the number of digits.
DecodedLen(n) == ((n + 3) \div 4) * 3 - ((4 - (n % 4)) % 4)

\* A text of digits is a whole number of groups and up to three digits, and what counts
\* its bytes before it is decoded gives as many as the digits have.
LEMMA DecodeLen ==
    ASSUME NEW n \in Nat, NEW q \in Nat, NEW r \in 0..3, n = 4 * q + r
    PROVE  DecodedLen(n) = 3 * q + (IF r = 0 THEN 0 ELSE r - 1)
<1>1. n % 4 = r
  OBVIOUS
<1>2. (n + 3) \div 4 = IF r = 0 THEN q ELSE q + 1
  OBVIOUS
<1>3. (4 - r) % 4 = IF r = 0 THEN 0 ELSE 4 - r
  OBVIOUS
<1>4. QED
  BY <1>1, <1>2, <1>3 DEF DecodedLen

\* What bytes are written as: four digits for every three bytes, and for one or two
\* that are left their digits, filled up with zeros, and pads.
WrittenAs(E, b, m) ==
    /\ \A p \in Nat : 3 * p + 1 <= m =>
          /\ E[4 * p + 1] = b[3 * p + 1] \div 4
          /\ E[4 * p + 2] = (b[3 * p + 1] % 4) * 16
                            + (IF 3 * p + 2 <= m THEN b[3 * p + 2] \div 16 ELSE 0)
    /\ \A p \in Nat : 3 * p + 2 <= m =>
          E[4 * p + 3] = (b[3 * p + 2] % 16) * 4 + (IF 3 * p + 3 <= m THEN b[3 * p + 3] \div 64 ELSE 0)
    /\ \A p \in Nat : 3 * p + 3 <= m => E[4 * p + 4] = b[3 * p + 3] % 64

\* E is the base64 text of b, q groups of three bytes and r bytes more.
EncodesTo(E, b, q, r) ==
    /\ E \in Seq(-1..63) /\ Len(E) = 4 * q + (IF r = 0 THEN 0 ELSE 4)
    /\ WrittenAs(E, b, Len(b))
    /\ \A i \in 1..4 * q + r : E[i] \in 0..63
    /\ r = 1 => E[4 * q + 3] = Pad /\ E[4 * q + 4] = Pad
    /\ r = 2 => E[4 * q + 4] = Pad

\* The encoder writes that.
LEMMA EncodeAt ==
    ASSUME NEW b \in Seq(0..255), NEW q \in Nat, NEW r \in 0..2, Len(b) = 3 * q + r
    PROVE  EncodesTo(Base64Encode(b), b, q, r)
<1> SUFFICES LET E == Base64Encode(b)
             IN  /\ E \in Seq(-1..63) /\ Len(E) = 4 * q + (IF r = 0 THEN 0 ELSE 4)
                 /\ WrittenAs(E, b, Len(b))
                 /\ \A i \in 1..4 * q + r : E[i] \in 0..63
                 /\ r = 1 => E[4 * q + 3] = Pad /\ E[4 * q + 4] = Pad
                 /\ r = 2 => E[4 * q + 4] = Pad
  BY DEF EncodesTo
<1> DEFINE e == Encoding(b)
           o == e.out
           E == Base64Encode(b)
           t == CASE e.bits = 0 -> <<>>
                  [] e.bits = 2 -> <<e.left * 16, Pad, Pad>>
                  [] e.bits = 4 -> <<e.left * 4, Pad>>
<1>1. GroupsEncoded(e, b, q, r)
  BY EncodingAt
<1>2. E = o \o t
  BY DEF Base64Encode
<1>3. \A i \in 1..Len(b) : b[i] \in 0..255
  BY ElementOfSeq
<1>4. o \in Seq(-1..63) /\ Len(o) = 4 * q + r /\ Encoded(o, b, Len(b), 4 * q + r)
  <2>1. Encoded(o, b, 3 * q + r, 4 * q + r)
    <3> HIDE DEF e
    <3>1. CASE r = 0
      <4>1. 3 * q + r = 3 * q /\ 4 * q + r = 4 * q
        BY <3>1
      <4>2. QED
        BY <1>1, <3>1, <4>1 DEF GroupsEncoded
    <3>2. CASE r = 1
      BY <1>1, <3>2 DEF GroupsEncoded
    <3>3. CASE r = 2
      BY <1>1, <3>3 DEF GroupsEncoded
    <3>4. QED
      BY <3>1, <3>2, <3>3
  <2> HIDE DEF o
  <2>2. o \in Seq(0..63) /\ Len(o) = 4 * q + r
    BY <2>1 DEF Encoded
  <2>3. 0..63 \subseteq -1..63
    OBVIOUS
  <2>4. o \in Seq(-1..63)
    BY <2>2, <2>3, SeqMonotonic
  <2>5. QED
    BY <2>1, <2>2, <2>4
<1> HIDE DEF E, t
\* the tail is of digits or of pads, and the digits of whole groups are those of the bytes
<1>5. \A x \in 0..255 : x \div 4 \in 0..63 /\ (x % 4) * 16 \in 0..63 /\ (x % 16) * 4 \in 0..63
  OBVIOUS
<1>6. ASSUME t \in Seq(-1..63)
      PROVE  /\ E \in Seq(-1..63) /\ Len(E) = 4 * q + r + Len(t)
             /\ \A i \in 1..4 * q + r : E[i] = o[i] /\ E[i] \in 0..63
             /\ \A j \in 1..Len(t) : E[4 * q + r + j] = t[j]
  <2> DEFINE k == Len(t)
  <2>0. k \in Nat /\ k = Len(t)
    BY LenProperties
  <2> HIDE DEF o, k
  <2>1. /\ o \o t \in Seq(-1..63) /\ Len(o \o t) = Len(o) + Len(t)
        /\ \A i \in 1..Len(o) + Len(t) : (o \o t)[i] = IF i <= Len(o) THEN o[i] ELSE t[i - Len(o)]
    BY <1>4, <1>6, ConcatProperties, ZenonT(40)
  <2>2. E = o \o t
    BY <1>2
  <2>3. /\ E \in Seq(-1..63) /\ Len(E) = 4 * q + r + k
        /\ \A i \in 1..4 * q + r + k : E[i] = IF i <= 4 * q + r THEN o[i] ELSE t[i - (4 * q + r)]
    BY <1>4, <2>0, <2>1, <2>2
  <2>4. \A i \in 1..4 * q + r : o[i] \in 0..63
    <3>1. o \in Seq(0..63) /\ Len(o) = 4 * q + r
      BY <1>4 DEF Encoded
    <3>2. QED
      BY <3>1, ElementOfSeq
  <2>5. ASSUME NEW i \in 1..4 * q + r PROVE E[i] = o[i] /\ E[i] \in 0..63
    <3>1. i \in 1..4 * q + r + k /\ i <= 4 * q + r
      BY <2>0, <2>5
    <3>2. QED
      BY <2>3, <2>4, <2>5, <3>1
  <2>6. ASSUME NEW j \in 1..k PROVE E[4 * q + r + j] = t[j]
    <3> DEFINE i == 4 * q + r + j
    <3>1. i \in 1..4 * q + r + k /\ ~(i <= 4 * q + r) /\ i - (4 * q + r) = j
      BY <2>0, <2>6
    <3> HIDE DEF i
    <3>2. E[i] = t[i - (4 * q + r)]
      BY <2>3, <3>1
    <3>3. QED
      BY <3>1, <3>2 DEF i
  <2>7. QED
    BY <2>0, <2>3, <2>5, <2>6
<1>7. CASE r = 0
  <2>1. e.bits = 0
    BY <1>1, <1>7 DEF GroupsEncoded
  <2> DEFINE u == <<>>
  <2>2. t = u
    BY <2>1 DEF t
  <2>3. u \in Seq(-1..63) /\ Len(u) = 0
    BY EmptySeq
  <2> HIDE DEF u
  <2>4. /\ E \in Seq(-1..63) /\ Len(E) = 4 * q + r
        /\ \A i \in 1..4 * q + r : E[i] = o[i] /\ E[i] \in 0..63
    <3>1. t \in Seq(-1..63) /\ Len(t) = 0
      BY <2>2, <2>3
    <3>2. QED
      BY <1>6, <3>1
  <2>5. Encoded(o, b, 3 * q, 4 * q) /\ Len(b) = 3 * q
    BY <1>4, <1>7
  <2> HIDE DEF o
  <2>6. ASSUME NEW p \in Nat, 3 * p + 1 <= 3 * q
        PROVE  /\ 3 * p + 2 <= 3 * q /\ 3 * p + 3 <= 3 * q
               /\ E[4 * p + 1] = o[4 * p + 1] /\ E[4 * p + 2] = o[4 * p + 2]
               /\ E[4 * p + 3] = o[4 * p + 3] /\ E[4 * p + 4] = o[4 * p + 4]
    <3>1. 3 * p + 2 <= 3 * q /\ 3 * p + 3 <= 3 * q /\ 4 * p + 4 <= 4 * q
      BY <2>6
    <3>2. /\ 4 * p + 1 \in 1..4 * q + r /\ 4 * p + 2 \in 1..4 * q + r
          /\ 4 * p + 3 \in 1..4 * q + r /\ 4 * p + 4 \in 1..4 * q + r
      BY <1>7, <3>1
    <3>3. QED
      BY <2>4, <3>1, <3>2
  <2>7. \A p \in Nat : (3 * p + 2 <= 3 * q => 3 * p + 1 <= 3 * q) /\ (3 * p + 3 <= 3 * q => 3 * p + 1 <= 3 * q)
    OBVIOUS
  <2>8. WrittenAs(E, b, Len(b))
    BY <2>5, <2>6, <2>7 DEF WrittenAs, Encoded
  <2>9. QED
    BY <1>7, <2>4, <2>8 DEF E
<1>8. CASE r = 1
  <2> DEFINE x == b[3 * q + 1]
             y == (x % 4) * 16
             u == <<y, Pad, Pad>>
  <2>1. x \in 0..255
    <3>1. 3 * q + 1 \in 1..Len(b)
      BY <1>8
    <3>2. QED
      BY <1>3, <3>1
  <2>2. e.bits = 2 /\ e.left = x % 4
    BY <1>1, <1>8 DEF GroupsEncoded
  <2> HIDE DEF x
  <2>3. t = u
    BY <2>2 DEF t
  <2>4. u \in Seq(-1..63) /\ Len(u) = 3 /\ u[1] = y /\ u[2] = Pad /\ u[3] = Pad
    <3>1. y \in -1..63 /\ Pad \in -1..63
      BY <1>5, <2>1 DEF Pad
    <3> HIDE DEF y
    <3>2. QED
      BY <3>1
  <2> HIDE DEF u
  <2>5. /\ E \in Seq(-1..63) /\ Len(E) = 4 * q + r + 3
        /\ \A i \in 1..4 * q + r : E[i] = o[i] /\ E[i] \in 0..63
        /\ \A j \in 1..3 : E[4 * q + r + j] = u[j]
    <3>1. t \in Seq(-1..63) /\ Len(t) = 3
      BY <2>3, <2>4
    <3>2. QED
      BY <1>6, <2>3, <3>1
  <2>6. E[4 * q + 2] = (x % 4) * 16 /\ E[4 * q + 3] = Pad /\ E[4 * q + 4] = Pad
    <3>1. 4 * q + r + 1 = 4 * q + 2 /\ 4 * q + r + 2 = 4 * q + 3 /\ 4 * q + r + 3 = 4 * q + 4
      BY <1>8
    <3>2. E[4 * q + r + 1] = u[1] /\ E[4 * q + r + 2] = u[2] /\ E[4 * q + r + 3] = u[3]
      BY <2>5
    <3>3. QED
      BY <2>4, <3>1, <3>2
  <2>7. Encoded(o, b, 3 * q + 1, 4 * q + 1) /\ Len(b) = 3 * q + 1
    BY <1>4, <1>8
  <2> HIDE DEF o
  <2>8. ASSUME NEW p \in Nat, 3 * p + 1 <= 3 * q + 1
        PROVE  /\ E[4 * p + 1] = o[4 * p + 1]
               /\ p # q => /\ 3 * p + 2 <= 3 * q + 1 /\ 3 * p + 3 <= 3 * q + 1
                           /\ E[4 * p + 2] = o[4 * p + 2]
                           /\ E[4 * p + 3] = o[4 * p + 3] /\ E[4 * p + 4] = o[4 * p + 4]
    <3>1. 4 * p + 1 \in 1..4 * q + r
      BY <1>8, <2>8
    <3>2. ASSUME p # q
          PROVE  /\ 3 * p + 2 <= 3 * q + 1 /\ 3 * p + 3 <= 3 * q + 1
                 /\ 4 * p + 2 \in 1..4 * q + r
                 /\ 4 * p + 3 \in 1..4 * q + r /\ 4 * p + 4 \in 1..4 * q + r
      BY <1>8, <2>8, <3>2
    <3>3. QED
      BY <2>5, <3>1, <3>2
  <2>9. \A p \in Nat : /\ 3 * p + 2 <= 3 * q + 1 => 3 * p + 1 <= 3 * q + 1 /\ p # q
                       /\ 3 * p + 3 <= 3 * q + 1 => 3 * p + 1 <= 3 * q + 1 /\ p # q
    OBVIOUS
  <2>10. ASSUME NEW p \in Nat, 3 * p + 1 <= 3 * q + 1
         PROVE  /\ E[4 * p + 1] = b[3 * p + 1] \div 4
                /\ E[4 * p + 2] = (b[3 * p + 1] % 4) * 16
                                  + (IF 3 * p + 2 <= 3 * q + 1 THEN b[3 * p + 2] \div 16 ELSE 0)
    <3>1. E[4 * p + 1] = b[3 * p + 1] \div 4
      BY <2>7, <2>8, <2>10 DEF Encoded
    <3>2. CASE p = q
      <4>1. ~(3 * p + 2 <= 3 * q + 1) /\ b[3 * p + 1] = x
        BY <3>2 DEF x
      <4>2. (x % 4) * 16 + 0 = (x % 4) * 16
        BY <2>1
      <4>3. QED
        BY <2>6, <3>1, <3>2, <4>1, <4>2
    <3>3. CASE p # q
      BY <2>7, <2>8, <2>10, <3>1, <3>3 DEF Encoded
    <3>4. QED
      BY <3>2, <3>3
  <2>11. WrittenAs(E, b, 3 * q + 1)
    BY <2>7, <2>8, <2>9, <2>10 DEF WrittenAs, Encoded
  <2>12. QED
    BY <1>8, <2>5, <2>6, <2>7, <2>11 DEF E
<1>9. CASE r = 2
  <2> DEFINE x == b[3 * q + 2]
             y == (x % 16) * 4
             u == <<y, Pad>>
  <2>1. x \in 0..255
    <3>1. 3 * q + 2 \in 1..Len(b)
      BY <1>9
    <3>2. QED
      BY <1>3, <3>1
  <2>2. e.bits = 4 /\ e.left = x % 16
    BY <1>1, <1>9 DEF GroupsEncoded
  <2> HIDE DEF x
  <2>3. t = u
    BY <2>2 DEF t
  <2>4. u \in Seq(-1..63) /\ Len(u) = 2 /\ u[1] = y /\ u[2] = Pad
    <3>1. y \in -1..63 /\ Pad \in -1..63
      BY <1>5, <2>1 DEF Pad
    <3> HIDE DEF y
    <3>2. QED
      BY <3>1
  <2> HIDE DEF u
  <2>5. /\ E \in Seq(-1..63) /\ Len(E) = 4 * q + r + 2
        /\ \A i \in 1..4 * q + r : E[i] = o[i] /\ E[i] \in 0..63
        /\ \A j \in 1..2 : E[4 * q + r + j] = u[j]
    <3>1. t \in Seq(-1..63) /\ Len(t) = 2
      BY <2>3, <2>4
    <3>2. QED
      BY <1>6, <2>3, <3>1
  <2>6. E[4 * q + 3] = (x % 16) * 4 /\ E[4 * q + 4] = Pad
    <3>1. 4 * q + r + 1 = 4 * q + 3 /\ 4 * q + r + 2 = 4 * q + 4
      BY <1>9
    <3>2. E[4 * q + r + 1] = u[1] /\ E[4 * q + r + 2] = u[2]
      BY <2>5
    <3>3. QED
      BY <2>4, <3>1, <3>2
  <2>7. Encoded(o, b, 3 * q + 2, 4 * q + 2) /\ Len(b) = 3 * q + 2
    BY <1>4, <1>9
  <2> HIDE DEF o
  <2>8. ASSUME NEW p \in Nat, 3 * p + 1 <= 3 * q + 2
        PROVE  /\ 3 * p + 2 <= 3 * q + 2
               /\ E[4 * p + 1] = o[4 * p + 1] /\ E[4 * p + 2] = o[4 * p + 2]
               /\ p # q => /\ 3 * p + 3 <= 3 * q + 2
                           /\ E[4 * p + 3] = o[4 * p + 3] /\ E[4 * p + 4] = o[4 * p + 4]
    <3>1. 3 * p + 2 <= 3 * q + 2 /\ 4 * p + 1 \in 1..4 * q + r /\ 4 * p + 2 \in 1..4 * q + r
      BY <1>9, <2>8
    <3>2. ASSUME p # q
          PROVE  /\ 3 * p + 3 <= 3 * q + 2
                 /\ 4 * p + 3 \in 1..4 * q + r /\ 4 * p + 4 \in 1..4 * q + r
      BY <1>9, <2>8, <3>2
    <3>3. QED
      BY <2>5, <3>1, <3>2
  <2>9. \A p \in Nat : /\ 3 * p + 2 <= 3 * q + 2 => 3 * p + 1 <= 3 * q + 2
                       /\ 3 * p + 3 <= 3 * q + 2 => 3 * p + 1 <= 3 * q + 2 /\ p # q
    OBVIOUS
  <2>10. ASSUME NEW p \in Nat, 3 * p + 2 <= 3 * q + 2
         PROVE  E[4 * p + 3] = (b[3 * p + 2] % 16) * 4
                               + (IF 3 * p + 3 <= 3 * q + 2 THEN b[3 * p + 3] \div 64 ELSE 0)
    <3>1. CASE p = q
      <4>1. ~(3 * p + 3 <= 3 * q + 2) /\ b[3 * p + 2] = x
        BY <3>1 DEF x
      <4>2. (x % 16) * 4 + 0 = (x % 16) * 4
        BY <2>1
      <4>3. QED
        BY <2>6, <3>1, <4>1, <4>2
    <3>2. CASE p # q
      BY <2>7, <2>8, <2>9, <2>10, <3>2 DEF Encoded
    <3>3. QED
      BY <3>1, <3>2
  <2>11. WrittenAs(E, b, 3 * q + 2)
    BY <2>7, <2>8, <2>9, <2>10 DEF WrittenAs, Encoded
  <2>12. QED
    BY <1>9, <2>5, <2>6, <2>7, <2>11 DEF E
<1>10. QED
  BY <1>7, <1>8, <1>9

\* Bytes are what their digits stand for,
LEMMA RegroupBytes ==
    ASSUME NEW x \in 0..255, NEW y \in 0..255
    PROVE  /\ (x \div 4) * 4 + ((x % 4) * 16 + y \div 16) \div 16 = x
           /\ (x % 4) * 16 + y \div 16 \in 0..63
           /\ ((x % 4) * 16 + y \div 16) % 16 = y \div 16
           /\ (x \div 16) * 16 + ((x % 16) * 4 + y \div 64) \div 4 = x
           /\ (x % 16) * 4 + y \div 64 \in 0..63
           /\ ((x % 16) * 4 + y \div 64) % 4 = y \div 64
           /\ (x \div 64) * 64 + (x % 64) = x
<1>1. (x \div 4) * 4 + ((x % 4) * 16 + y \div 16) \div 16 = x
  OBVIOUS
<1>2. (x % 4) * 16 + y \div 16 \in 0..63 /\ ((x % 4) * 16 + y \div 16) % 16 = y \div 16
  OBVIOUS
<1>3. (x \div 16) * 16 + ((x % 16) * 4 + y \div 64) \div 4 = x
  OBVIOUS
<1>4. (x % 16) * 4 + y \div 64 \in 0..63 /\ ((x % 16) * 4 + y \div 64) % 4 = y \div 64
  OBVIOUS
<1>5. (x \div 64) * 64 + (x % 64) = x
  OBVIOUS
<1>6. QED
  BY <1>1, <1>2, <1>3, <1>4, <1>5

\* The bytes that the digits of bytes stand for are the bytes.
LEMMA DecodedIsWritten ==
    ASSUME NEW b \in Seq(0..255), NEW E, WrittenAs(E, b, Len(b)),
           NEW q \in Nat, NEW r \in 0..2, Len(b) = 3 * q + r,
           NEW o, Decoded(o, E, 4 * q + (IF r = 0 THEN 0 ELSE r + 1), 3 * q + r)
    PROVE  o = b
<1> DEFINE m == Len(b)
           k == 4 * q + (IF r = 0 THEN 0 ELSE r + 1)
<1>1. m \in Nat /\ (\A i \in 1..m : b[i] \in 0..255) /\ m = 3 * q + r
  BY LenProperties, ElementOfSeq
<1>2. /\ \A p \in Nat : 3 * p + 1 <= m => 4 * p + 2 <= k
      /\ \A p \in Nat : 3 * p + 2 <= m => 4 * p + 3 <= k /\ 3 * p + 1 <= m
      /\ \A p \in Nat : 3 * p + 3 <= m => 4 * p + 4 <= k /\ 3 * p + 1 <= m /\ 3 * p + 2 <= m
  <2> HIDE DEF m
  <2>1. QED
    BY <1>1
<1>3. o \in Seq(0..255) /\ Len(o) = m /\ Decoded(o, E, k, m) /\ WrittenAs(E, b, m)
  BY DEF Decoded
<1> HIDE DEF k, m
<1>4. \A i \in Nat : 1 <= i /\ i <= m => b[i] \in 0..255
  BY <1>1
<1> DEFINE y(p) == IF 3 * p + 2 <= m THEN b[3 * p + 2] ELSE 0
           z(p) == IF 3 * p + 3 <= m THEN b[3 * p + 3] ELSE 0
<1>5. ASSUME NEW p \in Nat PROVE y(p) \in 0..255 /\ z(p) \in 0..255
  <2>1. 3 * p + 2 \in Nat /\ 1 <= 3 * p + 2 /\ 3 * p + 3 \in Nat /\ 1 <= 3 * p + 3
    OBVIOUS
  <2>2. QED
    BY <1>4, <2>1
<1>6. ASSUME NEW p \in Nat, 3 * p + 1 <= m
      PROVE  /\ E[4 * p + 1] = b[3 * p + 1] \div 4
             /\ E[4 * p + 2] = (b[3 * p + 1] % 4) * 16 + y(p) \div 16
  <2>1. 0 \div 16 = 0
    OBVIOUS
  <2>2. QED
    BY <1>3, <1>6, <2>1 DEF WrittenAs
<1>7. ASSUME NEW p \in Nat, 3 * p + 2 <= m
      PROVE  E[4 * p + 3] = (b[3 * p + 2] % 16) * 4 + z(p) \div 64
  <2>1. 0 \div 64 = 0
    OBVIOUS
  <2>2. QED
    BY <1>3, <1>7, <2>1 DEF WrittenAs
<1>8. ASSUME NEW p \in Nat, 3 * p + 1 <= m PROVE o[3 * p + 1] = b[3 * p + 1]
  <2> DEFINE x == b[3 * p + 1]
             v == y(p)
  <2>1. x \in 0..255 /\ v \in 0..255
    BY <1>4, <1>5, <1>8
  <2>2. o[3 * p + 1] = E[4 * p + 1] * 4 + E[4 * p + 2] \div 16
    BY <1>2, <1>3, <1>8 DEF Decoded
  <2>3. E[4 * p + 1] = x \div 4 /\ E[4 * p + 2] = (x % 4) * 16 + v \div 16
    BY <1>6, <1>8
  <2> HIDE DEF x, v
  <2>4. (x \div 4) * 4 + ((x % 4) * 16 + v \div 16) \div 16 = x
    BY <2>1, RegroupBytes
  <2>5. QED
    BY <2>2, <2>3, <2>4 DEF x
<1>9. ASSUME NEW p \in Nat, 3 * p + 2 <= m PROVE o[3 * p + 2] = b[3 * p + 2]
  <2> DEFINE x == b[3 * p + 1]
             v == b[3 * p + 2]
             w == z(p)
  <2>1. x \in 0..255 /\ v \in 0..255 /\ w \in 0..255 /\ y(p) = v
    BY <1>2, <1>4, <1>5, <1>9
  <2>2. o[3 * p + 2] = (E[4 * p + 2] % 16) * 16 + E[4 * p + 3] \div 4
    BY <1>2, <1>3, <1>9 DEF Decoded
  <2>3. E[4 * p + 2] = (x % 4) * 16 + v \div 16 /\ E[4 * p + 3] = (v % 16) * 4 + w \div 64
    BY <1>2, <1>6, <1>7, <1>9, <2>1
  <2> HIDE DEF x, v, w
  <2>4. ((x % 4) * 16 + v \div 16) % 16 = v \div 16
    BY <2>1, RegroupBytes, ZenonT(40)
  <2>5. (v \div 16) * 16 + ((v % 16) * 4 + w \div 64) \div 4 = v
    BY <2>1
  <2>6. QED
    BY <2>2, <2>3, <2>4, <2>5 DEF v
<1>10. ASSUME NEW p \in Nat, 3 * p + 3 <= m PROVE o[3 * p + 3] = b[3 * p + 3]
  <2> DEFINE v == b[3 * p + 2]
             w == b[3 * p + 3]
  <2>1. v \in 0..255 /\ w \in 0..255 /\ z(p) = w
    BY <1>2, <1>4, <1>10
  <2>2. o[3 * p + 3] = (E[4 * p + 3] % 4) * 64 + E[4 * p + 4]
    BY <1>2, <1>3, <1>10 DEF Decoded
  <2>3. E[4 * p + 3] = (v % 16) * 4 + w \div 64 /\ E[4 * p + 4] = w % 64
    BY <1>2, <1>3, <1>7, <1>10, <2>1 DEF WrittenAs
  <2> HIDE DEF v, w
  <2>4. ((v % 16) * 4 + w \div 64) % 4 = w \div 64
    BY <2>1, RegroupBytes, ZenonT(40)
  <2>5. (w \div 64) * 64 + (w % 64) = w
    BY <2>1
  <2>6. QED
    BY <2>2, <2>3, <2>4, <2>5 DEF w
<1>11. ASSUME NEW i \in 1..m PROVE o[i] = b[i]
  <2> DEFINE p == (i - 1) \div 3
  <2>1. p \in Nat /\ (i = 3 * p + 1 \/ i = 3 * p + 2 \/ i = 3 * p + 3) /\ i <= m
    BY <1>1, <1>11
  <2> HIDE DEF p
  <2>2. QED
    BY <1>8, <1>9, <1>10, <2>1
<1>12. Len(b) = m
  BY DEF m
<1>13. QED
  BY <1>3, <1>11, <1>12, SeqEqual

\* A pad behind the digits of bytes ends the input, and leaves no bits.
LEMMA PadsEnd ==
    ASSUME NEW E \in Seq(-1..63), NEW q \in Nat, NEW r \in {1, 2}, Len(E) = 4 * q + 4,
           r = 1 => E[4 * q + 3] = Pad /\ E[4 * q + 4] = Pad,
           r = 2 => E[4 * q + 4] = Pad
    PROVE  PadEnds(E, 4 * q + r + 2, r + 1)
<1>1. CASE r = 1
  <2> DEFINE i == 4 * q + 4
             valid == {j \in i..Len(E) : E[j] # Blank}
  <2>1. valid = {i} /\ i \in Nat
    <3>1. E[i] = Pad /\ Pad # Blank
      BY <1>1 DEF Pad, Blank
    <3>2. i..Len(E) = {i}
      OBVIOUS
    <3>3. QED
      BY <3>1, <3>2
  <2>2. FindValid(E, i) = Pad
    <3>1. FindValid(E, i) = IF valid = {} THEN Blank ELSE E[Min(valid)]
      BY DEF FindValid
    <3> HIDE DEF valid, i
    <3>2. Min({i}) = i
      BY <2>1 DEF Min
    <3>3. E[i] = Pad
      BY <1>1 DEF i
    <3>4. QED
      BY <2>1, <3>1, <3>2, <3>3
  <2>3. 4 * q + r + 2 = 4 * q + 3 /\ 4 * q + 3 + 1 = i /\ r + 1 = 2
    BY <1>1
  <2> HIDE DEF i, valid
  <2>4. QED
    BY <1>1, <2>2, <2>3 DEF PadEnds
<1>2. CASE r = 2
  <2>1. 4 * q + r + 2 = 4 * q + 4 /\ r + 1 = 3
    BY <1>2
  <2>2. QED
    BY <1>2, <2>1 DEF PadEnds
<1>3. QED
  BY <1>1, <1>2

\* What is written in base64 has the length that was counted, and is read as it was.
LEMMA Base64RoundTrip ==
    ASSUME NEW b \in Seq(0..255)
    PROVE  /\ Len(Base64Encode(b)) = encode_len(Len(b))
           /\ Base64Decode(Base64Encode(b)) = b
<1> DEFINE m == Len(b)
           E == Base64Encode(b)
           q == m \div 3
           r == m % 3
           h == IF r = 0 THEN 0 ELSE r + 1
           k == 4 * q + h
           size == decode_len(E)
<1>1. m \in Nat
  BY LenProperties
<1>2. q \in Nat /\ r \in 0..2 /\ m = 3 * q + r
  <2> HIDE DEF m
  <2>1. QED
    BY <1>1
<1>3. \A i \in 1..m : b[i] \in 0..255
  BY ElementOfSeq
<1> HIDE DEF q, r
<1>4. /\ E \in Seq(-1..63) /\ Len(E) = 4 * q + (IF r = 0 THEN 0 ELSE 4)
      /\ WrittenAs(E, b, Len(b))
      /\ \A i \in 1..4 * q + r : E[i] \in 0..63
      /\ r = 1 => E[4 * q + 3] = Pad /\ E[4 * q + 4] = Pad
      /\ r = 2 => E[4 * q + 4] = Pad
  <2>1. EncodesTo(E, b, q, r)
    BY <1>2, EncodeAt
  <2> HIDE DEF E
  <2>2. QED
    BY <2>1 DEF EncodesTo
<1>5. h \in 0..3 /\ k \in 0..Len(E) /\ k = 4 * q + h /\ k \in Nat
  BY <1>2, <1>4
<1>6. WrittenAs(E, b, m)
  BY <1>4
<1> HIDE DEF m, E, k, h, size
<1>7. Len(E) = encode_len(m)
  <2>1. (m + 2) \div 3 = IF r = 0 THEN q ELSE q + 1
    BY <1>2
  <2>2. Len(E) = ((m + 2) \div 3) * 4
    BY <1>2, <1>4, <2>1
  <2>3. QED
    BY <2>2 DEF encode_len
<1>8. ASSUME NEW i \in 1..k PROVE E[i] \in 0..63
  <2>1. CASE i <= 4 * q + r
    <3>1. i \in 1..4 * q + r
      BY <1>2, <1>8, <2>1
    <3>2. QED
      BY <1>4, <3>1
  <2>2. CASE ~(i <= 4 * q + r)
    <3>1. i = 4 * q + r + 1 /\ r \in {1, 2}
      BY <1>2, <1>5, <1>8, <2>2 DEF k, h
    <3>2. CASE r = 1
      <4> DEFINE x == b[3 * q + 1]
      <4>1. 3 * q + 1 \in 1..m /\ 3 * q + 1 <= m /\ ~(3 * q + 2 <= m) /\ i = 4 * q + 2
        BY <1>2, <3>1, <3>2
      <4>2. x \in 0..255
        BY <1>3, <4>1
      <4>3. E[4 * q + 2] = (x % 4) * 16 + 0
        BY <1>2, <1>6, <4>1 DEF WrittenAs
      <4> HIDE DEF x
      <4>4. (x % 4) * 16 + 0 \in 0..63
        BY <4>2
      <4>5. QED
        BY <4>1, <4>3, <4>4
    <3>3. CASE r = 2
      <4> DEFINE x == b[3 * q + 2]
      <4>1. 3 * q + 2 \in 1..m /\ 3 * q + 2 <= m /\ ~(3 * q + 3 <= m) /\ i = 4 * q + 3
        BY <1>2, <3>1, <3>3
      <4>2. x \in 0..255
        BY <1>3, <4>1
      <4>3. E[4 * q + 3] = (x % 16) * 4 + 0
        BY <1>2, <1>6, <4>1 DEF WrittenAs
      <4> HIDE DEF x
      <4>4. (x % 16) * 4 + 0 \in 0..63
        BY <4>2
      <4>5. QED
        BY <4>1, <4>3, <4>4
    <3>4. QED
      BY <3>1, <3>2, <3>3
  <2>3. QED
    BY <2>1, <2>2
<1>9. ASSUME r # 0
      PROVE  k + 1 = 4 * q + r + 2 /\ k + 1 <= Len(E) /\ E[k + 1] = Pad /\ h = r + 1 /\ r \in {1, 2}
  <2>1. h = r + 1 /\ k = 4 * q + h
    BY <1>9 DEF h, k
  <2>2. CASE r = 1
    <3>1. k + 1 = 4 * q + 3
      BY <1>2, <2>1, <2>2
    <3>2. QED
      BY <1>2, <1>4, <2>1, <2>2, <3>1
  <2>3. CASE r = 2
    <3>1. k + 1 = 4 * q + 4
      BY <1>2, <2>1, <2>3
    <3>2. QED
      BY <1>2, <1>4, <2>1, <2>3, <3>1
  <2>4. QED
    BY <1>2, <1>9, <2>2, <2>3
<1>10. LeadingDigits(E) = k
  <2>1. -1..63 \subseteq Int
    OBVIOUS
  <2>2. ASSUME NEW i \in 1..k PROVE E[i] >= 0
    <3> DEFINE c == E[i]
    <3>1. c \in 0..63
      BY <1>8
    <3> HIDE DEF c
    <3>2. c >= 0
      BY <3>1
    <3>3. QED
      BY <3>2 DEF c
  <2>3. k < Len(E) => E[k + 1] < 0
    <3>1. ASSUME k < Len(E) PROVE E[k + 1] < 0
      <4>1. r # 0
        BY <1>2, <1>4, <3>1 DEF k, h
      <4>2. QED
        BY <1>9, <4>1 DEF Pad
    <3>2. QED
      BY <3>1
  <2>4. QED
    BY <1>4, <1>5, <2>1, <2>2, <2>3, LeadingDigitsBe
<1>11. size = 3 * q + r
  <2>1. size = DecodedLen(k)
    BY <1>10 DEF size, decode_len, DecodedLen
  <2>2. size = 3 * q + (IF h = 0 THEN 0 ELSE h - 1)
    BY <1>2, <1>5, <2>1, DecodeLen
  <2>3. QED
    BY <1>2, <2>2 DEF h
<1>12. PICK f : /\ f[0] = [out |-> <<>>, left |-> 0, bits |-> 0, quad |-> 0, done |-> FALSE]
                /\ Decoding(E, size) = f[Len(E)]
                /\ \A i \in Nat : i + 1 <= Len(E) => f[i + 1] = Look(E, size, f[i], i + 1)
  BY <1>4, DecodingDef
<1>13. Taken(f[k], E, q, h)
  <2>1. size \in Nat /\ 3 * k <= 4 * size + 3
    BY <1>2, <1>5, <1>11 DEF h
  <2>2. QED
    BY <1>2, <1>4, <1>5, <1>8, <1>12, <2>1, DecodingAt
<1> DEFINE o == f[k].out
<1>14. o = b
  <2>1. Decoded(o, E, 4 * q + h, 3 * q + r)
    <3>1. CASE r = 0
      <4>1. h = 0 /\ 4 * q + h = 4 * q /\ 3 * q + r = 3 * q
        BY <1>2, <3>1 DEF h
      <4>2. QED
        BY <1>13, <4>1 DEF Taken
    <3>2. CASE r = 1
      <4>1. h = 2
        BY <3>2 DEF h
      <4>2. QED
        BY <1>13, <3>2, <4>1 DEF Taken
    <3>3. CASE r = 2
      <4>1. h = 3
        BY <3>3 DEF h
      <4>2. QED
        BY <1>13, <3>3, <4>1 DEF Taken
    <3>4. QED
      BY <1>2, <3>1, <3>2, <3>3
  <2>2. 4 * q + h = 4 * q + (IF r = 0 THEN 0 ELSE r + 1)
    BY DEF h
  <2> HIDE DEF o
  <2>3. Len(b) = 3 * q + r /\ WrittenAs(E, b, Len(b))
    BY <1>2, <1>6 DEF m
  <2>4. Decoded(o, E, 4 * q + (IF r = 0 THEN 0 ELSE r + 1), 3 * q + r)
    BY <2>1, <2>2
  <2>5. QED
    BY <1>2, <2>3, <2>4, DecodedIsWritten
<1>15. f[Len(E)].bits = 0 /\ f[Len(E)].out = b
  <2>1. CASE r = 0
    <3>1. h = 0 /\ k = Len(E)
      BY <1>2, <1>4, <2>1 DEF h, k
    <3>2. f[k].bits = 0
      BY <1>13, <3>1 DEF Taken
    <3>3. QED
      BY <1>14, <3>1, <3>2
  <2>2. CASE r # 0
    <3> DEFINE d == f[k]
               g == [d EXCEPT !.bits = 0, !.done = TRUE]
    <3>1. h = r + 1 /\ r \in {1, 2} /\ k + 1 = 4 * q + r + 2 /\ k + 1 <= Len(E) /\ E[k + 1] = Pad
      BY <1>9, <2>2
    <3>2. /\ d.done = FALSE /\ d.quad = h
          /\ DOMAIN d = {"out", "left", "bits", "quad", "done"}
      <4>1. h \in {2, 3}
        BY <3>1
      <4>2. CASE h = 2
        BY <1>13, <4>2 DEF Taken
      <4>3. CASE h = 3
        BY <1>13, <4>3 DEF Taken
      <4>4. QED
        BY <4>1, <4>2, <4>3
    <3>3. PadEnds(E, k + 1, d.quad)
      <4>1. PadEnds(E, 4 * q + r + 2, r + 1)
        <5>1. Len(E) = 4 * q + 4
          BY <1>4, <2>2
        <5>2. QED
          BY <1>2, <1>4, <3>1, <5>1, PadsEnd
      <4>2. QED
        BY <3>1, <3>2, <4>1
    <3>4. f[k + 1] = g
      <4>1. f[k + 1] = Look(E, size, d, k + 1)
        BY <1>5, <1>12, <3>1
      <4> HIDE DEF d
      <4>2. Pad # Blank
        BY DEF Pad, Blank
      <4>3. QED
        BY <3>1, <3>2, <3>3, <4>1, <4>2 DEF Look
    <3>5. g.bits = 0 /\ g.done = TRUE /\ g.out = b
      <4>1. d.out = b
        BY <1>14
      <4> HIDE DEF d
      <4>2. QED
        BY <3>2, <4>1
    <3> HIDE DEF g
    <3>6. CASE r = 2
      <4>1. Len(E) = k + 1
        BY <1>2, <1>4, <3>1, <3>6
      <4>2. QED
        BY <3>4, <3>5, <4>1
    <3>7. CASE r = 1
      <4>1. Len(E) = k + 1 + 1 /\ k + 1 \in Nat
        BY <1>2, <1>4, <1>5, <3>1, <3>7
      <4>2. f[k + 1 + 1] = Look(E, size, f[k + 1], k + 1 + 1)
        BY <1>12, <4>1
      <4>3. f[k + 1 + 1] = g
        BY <3>4, <3>5, <4>2 DEF Look
      <4>4. QED
        BY <3>5, <4>1, <4>3
    <3>8. QED
      BY <3>1, <3>6, <3>7
  <2>3. QED
    BY <2>1, <2>2
<1>16. Base64Decode(E) = b
  BY <1>12, <1>15 DEF Base64Decode, size
<1>17. QED
  BY <1>7, <1>16 DEF E, m

\* Once all is written that there is room for, nothing more is.
LEMMA DecodingStays ==
    ASSUME NEW D, NEW s \in Seq(D), NEW n \in 0..Len(s), NEW size \in Nat, NEW f,
           \A i \in Nat : i + 1 <= Len(s) => f[i + 1] = Look(s, size, f[i], i + 1),
           DOMAIN f[n] = {"out", "left", "bits", "quad", "done"}, Len(f[n].out) = size
    PROVE  f[Len(s)].out = f[n].out
<1> DEFINE Fields == {"out", "left", "bits", "quad", "done"}
           o == f[n].out
           P(i) == DOMAIN f[i] = Fields /\ f[i].out = o
           S == {j \in Nat : n + j <= Len(s) => P(n + j)}
<1>1. Len(s) \in Nat /\ n \in Nat /\ n <= Len(s)
  BY LenProperties
<1>2. 0 \in S
  BY <1>1
<1>3. ASSUME NEW j \in Nat, j \in S PROVE j + 1 \in S
  <2>1. ASSUME n + (j + 1) <= Len(s) PROVE P(n + (j + 1))
    <3> DEFINE i == n + j
               d == f[i]
               c == s[i + 1]
    <3>1. i \in Nat /\ i <= Len(s) /\ i + 1 <= Len(s) /\ i + 1 = n + (j + 1)
      BY <1>1, <2>1
    <3>2. DOMAIN d = Fields /\ d.out = o
      BY <1>3, <3>1
    <3>3. f[i + 1] = Look(s, size, d, i + 1)
      BY <3>1
    <3>4. Len(d.out) = size
      BY <3>2
    <3> HIDE DEF d, o, i
    <3>5. DOMAIN Take(d, c, size) = Fields /\ Take(d, c, size).out = o
      BY <3>2, <3>4 DEF Take
    <3>6. DOMAIN Look(s, size, d, i + 1) = Fields /\ Look(s, size, d, i + 1).out = o
      <4> DEFINE e == [d EXCEPT !.bits = 0, !.done = TRUE]
      <4>1. DOMAIN e = Fields /\ e.out = o
        BY <3>2
      <4> HIDE DEF e
      <4>2. Look(s, size, d, i + 1) \in {d, e, Take(d, c, size)}
        BY DEF Look, e
      <4>3. QED
        BY <3>2, <3>5, <4>1, <4>2
    <3>7. QED
      BY <3>1, <3>3, <3>6
  <2>2. j + 1 \in Nat
    OBVIOUS
  <2>3. QED
    BY <2>1, <2>2
<1>4. \A j \in Nat : j \in S
  <2> HIDE DEF S
  <2>1. QED
    BY <1>2, <1>3, Induction
<1>5. \A j \in Nat : n + j <= Len(s) => P(n + j)
  BY <1>4
<1> HIDE DEF P
<1>6. P(Len(s))
  <2> DEFINE j == Len(s) - n
  <2>1. j \in Nat /\ n + j = Len(s) /\ n + j <= Len(s)
    BY <1>1
  <2> HIDE DEF j
  <2>2. P(n + j)
    BY <1>5, <2>1
  <2>3. QED
    BY <2>1, <2>2
<1>7. QED
  BY <1>6 DEF P

\* The first n characters are digits; so many bytes they stand for.
AllDigits(s, n) == \A i \in 1..n : s[i] \in 0..63
BytesOf(n)      == 3 * (n \div 4) + (IF n % 4 = 0 THEN 0 ELSE (n % 4) - 1)

\* The bytes that the leading digits stand for are written as these digits.
LEMMA WrittenIsDecoded ==
    ASSUME NEW s, NEW n \in Nat, AllDigits(s, n), NEW m \in Nat, m = BytesOf(n),
           NEW o, Decoded(o, s, n, m), NEW E, WrittenAs(E, o, m)
    PROVE  /\ \A i \in 1..n - 1 : E[i] = s[i]
           /\ n % 4 = 0 => \A i \in 1..n : E[i] = s[i]
<1> DEFINE q == n \div 4
           r == n % 4
<1>0. q \in Nat /\ r \in 0..3 /\ n = 4 * q + r /\ m = 3 * q + (IF r = 0 THEN 0 ELSE r - 1)
  BY DEF BytesOf
<1> HIDE DEF q, r
<1>1. /\ \A p \in Nat : 4 * p + 2 <= n => 3 * p + 1 <= m
      /\ \A p \in Nat : 4 * p + 3 <= n => 3 * p + 1 <= m /\ 3 * p + 2 <= m
      /\ \A p \in Nat : 4 * p + 4 <= n => 3 * p + 2 <= m /\ 3 * p + 3 <= m
  BY <1>0
<1>2. Decoded(o, s, n, m) /\ WrittenAs(E, o, m)
  OBVIOUS
<1>3. \A i \in Nat : 1 <= i /\ i <= n => s[i] \in 0..63
  BY DEF AllDigits
<1>4. ASSUME NEW p \in Nat, 4 * p + 2 <= n PROVE E[4 * p + 1] = s[4 * p + 1]
  <2> DEFINE x == s[4 * p + 1]
             y == s[4 * p + 2]
  <2>1. x \in 0..63 /\ y \in 0..63
    <3>1. 4 * p + 1 \in Nat /\ 1 <= 4 * p + 1 /\ 4 * p + 1 <= n /\ 4 * p + 2 \in Nat /\ 1 <= 4 * p + 2
      BY <1>4
    <3>2. QED
      BY <1>3, <1>4, <3>1
  <2>2. E[4 * p + 1] = o[3 * p + 1] \div 4 /\ o[3 * p + 1] = x * 4 + y \div 16
    BY <1>1, <1>2, <1>4 DEF Decoded, WrittenAs
  <2> HIDE DEF x, y
  <2>3. (x * 4 + y \div 16) \div 4 = x
    BY <2>1
  <2>4. QED
    BY <2>2, <2>3 DEF x
<1>5. ASSUME NEW p \in Nat, 4 * p + 3 <= n PROVE E[4 * p + 2] = s[4 * p + 2]
  <2> DEFINE x == s[4 * p + 1]
             y == s[4 * p + 2]
             z == s[4 * p + 3]
  <2>1. x \in 0..63 /\ y \in 0..63 /\ z \in 0..63
    <3>1. /\ 4 * p + 1 \in Nat /\ 1 <= 4 * p + 1 /\ 4 * p + 1 <= n
          /\ 4 * p + 2 \in Nat /\ 1 <= 4 * p + 2 /\ 4 * p + 2 <= n
          /\ 4 * p + 3 \in Nat /\ 1 <= 4 * p + 3
      BY <1>5
    <3>2. QED
      BY <1>3, <1>5, <3>1
  <2>2. 3 * p + 1 <= m /\ 3 * p + 2 <= m /\ 4 * p + 2 <= n
    BY <1>1, <1>5
  <2>3. E[4 * p + 2] = (o[3 * p + 1] % 4) * 16 + o[3 * p + 2] \div 16
    BY <1>2, <2>2 DEF WrittenAs
  <2>4. o[3 * p + 1] = x * 4 + y \div 16 /\ o[3 * p + 2] = (y % 16) * 16 + z \div 4
    BY <1>2, <1>5, <2>2 DEF Decoded
  <2> HIDE DEF x, y, z
  <2>5. (x * 4 + y \div 16) % 4 = y \div 16 /\ ((y % 16) * 16 + z \div 4) \div 16 = y % 16
    BY <2>1
  <2>6. (y \div 16) * 16 + (y % 16) = y
    BY <2>1
  <2>7. QED
    BY <2>3, <2>4, <2>5, <2>6 DEF y
<1>6. ASSUME NEW p \in Nat, 4 * p + 4 <= n PROVE E[4 * p + 3] = s[4 * p + 3] /\ E[4 * p + 4] = s[4 * p + 4]
  <2> DEFINE y == s[4 * p + 2]
             z == s[4 * p + 3]
             w == s[4 * p + 4]
  <2>1. y \in 0..63 /\ z \in 0..63 /\ w \in 0..63
    <3>1. /\ 4 * p + 2 \in Nat /\ 1 <= 4 * p + 2 /\ 4 * p + 2 <= n
          /\ 4 * p + 3 \in Nat /\ 1 <= 4 * p + 3 /\ 4 * p + 3 <= n
          /\ 4 * p + 4 \in Nat /\ 1 <= 4 * p + 4
      BY <1>6
    <3>2. QED
      BY <1>3, <1>6, <3>1
  <2>2. 3 * p + 2 <= m /\ 3 * p + 3 <= m /\ 4 * p + 3 <= n
    BY <1>1, <1>6
  <2>3. E[4 * p + 3] = (o[3 * p + 2] % 16) * 4 + o[3 * p + 3] \div 64 /\ E[4 * p + 4] = o[3 * p + 3] % 64
    BY <1>2, <2>2 DEF WrittenAs
  <2>4. o[3 * p + 2] = (y % 16) * 16 + z \div 4 /\ o[3 * p + 3] = (z % 4) * 64 + w
    BY <1>2, <1>6, <2>2 DEF Decoded
  <2> HIDE DEF y, z, w
  <2>5. /\ ((y % 16) * 16 + z \div 4) % 16 = z \div 4
        /\ ((z % 4) * 64 + w) \div 64 = z % 4 /\ ((z % 4) * 64 + w) % 64 = w
    BY <2>1
  <2>6. (z \div 4) * 4 + (z % 4) = z
    BY <2>1
  <2>7. QED
    BY <2>3, <2>4, <2>5, <2>6 DEF z, w
<1>7. ASSUME NEW i \in 1..n, i < n \/ r = 0 PROVE E[i] = s[i]
  <2> DEFINE p == (i - 1) \div 4
  <2>1. p \in Nat /\ (i = 4 * p + 1 \/ i = 4 * p + 2 \/ i = 4 * p + 3 \/ i = 4 * p + 4)
    OBVIOUS
  <2> HIDE DEF p
  <2>2. CASE i = 4 * p + 1
    <3>1. 4 * p + 2 <= n
      BY <1>0, <1>7, <2>1, <2>2
    <3>2. QED
      BY <1>4, <2>1, <2>2, <3>1
  <2>3. CASE i = 4 * p + 2
    <3>1. 4 * p + 3 <= n
      BY <1>0, <1>7, <2>1, <2>3
    <3>2. QED
      BY <1>5, <2>1, <2>3, <3>1
  <2>4. CASE i = 4 * p + 3
    <3>1. 4 * p + 4 <= n
      BY <1>0, <1>7, <2>1, <2>4
    <3>2. QED
      BY <1>6, <2>1, <2>4, <3>1
  <2>5. CASE i = 4 * p + 4
    <3>1. 4 * p + 4 <= n
      BY <1>0, <1>7, <2>1, <2>5
    <3>2. QED
      BY <1>6, <2>1, <2>5, <3>1
  <2>6. QED
    BY <2>1, <2>2, <2>3, <2>4, <2>5
<1>8. QED
  BY <1>0, <1>7 DEF r

\* Whatever is decoded without failure fills the buffer whose length was counted, with
\* the bytes of the digits that were counted.
LEMMA Base64DecodeFills ==
    ASSUME NEW s \in Seq(0..63 \cup {Pad, Blank}), Base64Decode(s) # Failed
    PROVE  LET bytes == Base64Decode(s)
               n     == LeadingDigits(s)
           IN  /\ Len(bytes) = decode_len(s)
               /\ SubSeq(Base64Encode(bytes), 1, n - 1) = SubSeq(s, 1, n - 1)
               /\ n % 4 = 0 => Base64Encode(bytes) = SubSeq(s, 1, n)
<1> DEFINE Chars == 0..63 \cup {Pad, Blank}
           n     == LeadingDigits(s)
           q     == n \div 4
           r     == n % 4
           size  == decode_len(s)
           m     == 3 * q + (IF r = 0 THEN 0 ELSE r - 1)
           bytes == Base64Decode(s)
           E     == Base64Encode(bytes)
<1>1. Chars \subseteq Int
  BY DEF Pad, Blank
<1>2. n \in 0..Len(s) /\ \A i \in 1..n : s[i] >= 0
  BY <1>1, LeadingDigitsAre
<1>3. Len(s) \in Nat
  BY LenProperties
<1>4. \A i \in 1..n : s[i] \in 0..63
  <2> HIDE DEF n
  <2>1. ASSUME NEW i \in 1..n PROVE s[i] \in 0..63
    <3> DEFINE c == s[i]
    <3>1. i \in 1..Len(s)
      BY <1>2, <1>3
    <3>2. c \in Chars /\ c >= 0
      BY <1>2, <3>1, ElementOfSeq
    <3> HIDE DEF c
    <3>3. c \in 0..63
      BY <3>2 DEF Pad, Blank
    <3>4. QED
      BY <3>3 DEF c
  <2>2. QED
    BY <2>1
<1> HIDE DEF n
<1>5. n \in Nat /\ q \in Nat /\ r \in 0..3 /\ n = 4 * q + r
  BY <1>2, <1>3
<1> HIDE DEF q, r
<1>6. size = m
  <2>1. size = DecodedLen(n)
    BY DEF decode_len, n, DecodedLen
  <2>2. DecodedLen(n) = m
    BY <1>5, DecodeLen
  <2>3. QED
    BY <2>1, <2>2
<1>7. m \in Nat /\ 3 * n <= 4 * m + 3
  BY <1>5
<1> HIDE DEF size, m, bytes, E
<1>8. PICK f : /\ f[0] = [out |-> <<>>, left |-> 0, bits |-> 0, quad |-> 0, done |-> FALSE]
               /\ Decoding(s, size) = f[Len(s)]
               /\ \A i \in Nat : i + 1 <= Len(s) => f[i + 1] = Look(s, size, f[i], i + 1)
  BY DecodingDef
<1>9. Taken(f[n], s, q, r)
  BY <1>2, <1>4, <1>5, <1>6, <1>7, <1>8, DecodingAt
<1> DEFINE o == f[n].out
<1>10. Decoded(o, s, n, m) /\ DOMAIN f[n] = {"out", "left", "bits", "quad", "done"}
  <2>1. CASE r = 0
    <3>1. n = 4 * q /\ m = 3 * q
      BY <1>5, <2>1 DEF m
    <3>2. QED
      BY <1>9, <2>1, <3>1 DEF Taken
  <2>2. CASE r = 1
    <3>1. n = 4 * q + 1 /\ m = 3 * q
      BY <1>5, <2>2 DEF m
    <3>2. QED
      BY <1>9, <2>2, <3>1 DEF Taken
  <2>3. CASE r = 2
    <3>1. n = 4 * q + 2 /\ m = 3 * q + 1
      BY <1>5, <2>3 DEF m
    <3>2. QED
      BY <1>9, <2>3, <3>1 DEF Taken
  <2>4. CASE r = 3
    <3>1. n = 4 * q + 3 /\ m = 3 * q + 2
      BY <1>5, <2>4 DEF m
    <3>2. QED
      BY <1>9, <2>4, <3>1 DEF Taken
  <2>5. r = 0 \/ r = 1 \/ r = 2 \/ r = 3
    BY <1>5
  <2> HIDE DEF o
  <2>6. QED
    BY <2>1, <2>2, <2>3, <2>4, <2>5, ZenonT(40)
<1>11. o \in Seq(0..255) /\ Len(o) = m
  BY <1>10 DEF Decoded
<1>12. bytes = o
  <2>1. f[Len(s)].out = f[n].out
    <3>1. Len(f[n].out) = size
      BY <1>6, <1>11
    <3> HIDE DEF o
    <3>2. \A i \in Nat : i + 1 <= Len(s) => f[i + 1] = Look(s, size, f[i], i + 1)
      BY <1>8
    <3>3. DOMAIN f[n] = {"out", "left", "bits", "quad", "done"}
      BY <1>10
    <3>4. s \in Seq(Chars) /\ n \in 0..Len(s)
      BY <1>2
    <3> HIDE DEF Chars
    <3>5. QED
      BY <1>6, <1>7, <3>1, <3>2, <3>3, <3>4, DecodingStays
  <2>2. Base64Decode(s) = IF f[Len(s)].bits # 0 THEN Failed ELSE f[Len(s)].out
    BY <1>8 DEF Base64Decode, size
  <2>3. QED
    BY <2>1, <2>2 DEF bytes
<1> HIDE DEF o
<1>13. Len(bytes) = size
  BY <1>6, <1>11, <1>12
<1> DEFINE g == m \div 3
           h == m % 3
<1>14. g \in Nat /\ h \in 0..2 /\ m = 3 * g + h
  BY <1>7
<1>15. n - 1 <= 4 * g + (IF h = 0 THEN 0 ELSE 4) /\ (r = 0 => n = 4 * g /\ h = 0)
  BY <1>5, <1>14 DEF m
<1> HIDE DEF g, h
<1>16. E \in Seq(-1..63) /\ Len(E) = 4 * g + (IF h = 0 THEN 0 ELSE 4) /\ WrittenAs(E, o, m)
  <2>1. o \in Seq(0..255) /\ Len(o) = 3 * g + h
    BY <1>11, <1>14
  <2> DEFINE F == Base64Encode(o)
  <2>2. F \in Seq(-1..63) /\ Len(F) = 4 * g + (IF h = 0 THEN 0 ELSE 4) /\ WrittenAs(F, o, Len(o))
    <3>1. EncodesTo(F, o, g, h)
      BY <1>14, <2>1, EncodeAt
    <3> HIDE DEF F
    <3>2. QED
      BY <3>1 DEF EncodesTo
  <2> HIDE DEF F
  <2>3. F = E
    BY <1>12 DEF E, F
  <2>4. QED
    BY <1>11, <2>2, <2>3
<1>17. /\ \A i \in 1..n - 1 : E[i] = s[i]
       /\ r = 0 => \A i \in 1..n : E[i] = s[i]
  <2>1. m = BytesOf(n) /\ AllDigits(s, n)
    BY <1>4 DEF m, q, r, BytesOf, AllDigits
  <2>2. n \in Nat /\ m \in Nat /\ Decoded(o, s, n, m) /\ WrittenAs(E, o, m)
    BY <1>5, <1>7, <1>10, <1>16
  <2>3. \A i \in 1..n - 1 : E[i] = s[i]
    BY <2>1, <2>2, WrittenIsDecoded
  <2>4. n % 4 = 0 => \A i \in 1..n : E[i] = s[i]
    BY <2>1, <2>2, WrittenIsDecoded
  <2>5. QED
    BY <2>3, <2>4 DEF r
<1>18. ASSUME NEW k \in Int, k <= n, k <= Len(E), \A i \in 1..k : E[i] = s[i]
       PROVE  SubSeq(E, 1, k) = SubSeq(s, 1, k)
  <2>1. \A i \in 1..k : E[i] \in -2..63 /\ s[i] \in -2..63
    <3>1. ASSUME NEW i \in 1..k PROVE s[i] \in -2..63
      <4> DEFINE c == s[i]
      <4>1. c \in 0..63
        BY <1>4, <1>5, <1>18, <3>1
      <4> HIDE DEF c
      <4>2. c \in -2..63
        BY <4>1
      <4>3. QED
        BY <4>2 DEF c
    <3>2. QED
      BY <1>18, <3>1
  <2> DEFINE u == SubSeq(E, 1, k)
             v == SubSeq(s, 1, k)
  <2>2. /\ u \in Seq(-2..63) /\ Len(u) = IF 1 <= k THEN k - 1 + 1 ELSE 0
        /\ \A i \in 1..k - 1 + 1 : u[i] = E[1 + i - 1]
    BY <1>18, <2>1, SubSeqProperties
  <2>3. /\ v \in Seq(-2..63) /\ Len(v) = IF 1 <= k THEN k - 1 + 1 ELSE 0
        /\ \A i \in 1..k - 1 + 1 : v[i] = s[1 + i - 1]
    BY <1>18, <2>1, SubSeqProperties
  <2> HIDE DEF u, v
  <2>4. Len(u) = Len(v)
    BY <2>2, <2>3
  <2>5. ASSUME NEW i \in 1..Len(u) PROVE u[i] = v[i]
    <3>1. i \in 1..k - 1 + 1 /\ i \in 1..k /\ 1 + i - 1 = i
      BY <1>18, <2>2, <2>5
    <3>2. u[i] = E[1 + i - 1] /\ v[i] = s[1 + i - 1] /\ E[i] = s[i]
      BY <1>18, <2>2, <2>3, <3>1
    <3>3. QED
      BY <3>1, <3>2
  <2>6. u = v
    BY <2>2, <2>3, <2>4, <2>5, SeqEqual
  <2>7. QED
    BY <2>6 DEF u, v
<1>19. SubSeq(E, 1, n - 1) = SubSeq(s, 1, n - 1)
  <2>1. n - 1 \in Int /\ n - 1 <= n /\ n - 1 <= Len(E)
    BY <1>5, <1>15, <1>16
  <2>2. QED
    BY <1>17, <1>18, <2>1
<1>20. ASSUME r = 0 PROVE E = SubSeq(s, 1, n)
  <2>1. n \in Int /\ n <= n /\ n <= Len(E) /\ Len(E) = n
    BY <1>5, <1>14, <1>15, <1>16, <1>20
  <2>2. SubSeq(E, 1, n) = SubSeq(s, 1, n)
    BY <1>17, <1>18, <1>20, <2>1
  <2>3. SubSeq(E, 1, Len(E)) = E
    BY <1>16, SubSeqFull
  <2>4. QED
    BY <2>1, <2>2, <2>3
<1>21. QED
  BY <1>13, <1>19, <1>20 DEF E, bytes, n, r, size

-----------------------------------------------------------------------------
(* Hexadecimal.                                                            *)

\* A digit of either case is read as it was written.
LEMMA XctoiOfCode ==
    ASSUME NEW n \in 0..15
    PROVE  /\ HexCode(n) \in Nat /\ Xctoi(HexCode(n)) = n
           /\ Xctoi(IF HexCode(n) >= 97 THEN HexCode(n) - 32 ELSE HexCode(n)) = n
<1>1. CASE n < 10
  <2>1. HexCode(n) = 48 + n
    BY <1>1 DEF HexCode
  <2> DEFINE c == 48 + n
  <2>2. c \in 48..57 /\ ~(c \in 65..70) /\ ~(c \in 97..102) /\ ~(c >= 97) /\ c - 48 = n /\ c \in Nat
    BY <1>1
  <2> HIDE DEF c
  <2>3. Xctoi(c) = n
    BY <2>2 DEF Xctoi
  <2>4. QED
    BY <2>1, <2>2, <2>3 DEF c
<1>2. CASE ~(n < 10)
  <2>1. HexCode(n) = 87 + n
    BY <1>2 DEF HexCode
  <2> DEFINE c == 87 + n
             d == c - 32
  <2>2. c \in 97..102 /\ ~(c \in 48..57) /\ ~(c \in 65..70) /\ c >= 97 /\ c - 97 + 10 = n /\ c \in Nat
    BY <1>2
  <2>3. d \in 65..70 /\ ~(d \in 48..57) /\ ~(d \in 97..102) /\ d - 65 + 10 = n
    BY <1>2
  <2> HIDE DEF c, d
  <2>4. Xctoi(c) = n /\ Xctoi(d) = n
    BY <2>2, <2>3 DEF Xctoi
  <2>5. QED
    BY <2>1, <2>2, <2>4 DEF c, d
<1>3. QED
  BY <1>1, <1>2

\* Two digits for every byte are read as the bytes.
LEMMA UnhexlifyPairs ==
    ASSUME NEW b \in Seq(0..255), NEW r \in Seq(Nat), Len(r) = 2 * Len(b),
           \A i \in 1..Len(b) : Xctoi(r[2 * i - 1]) = b[i] \div 16 /\ Xctoi(r[2 * i]) = b[i] % 16
    PROVE  Unhexlify(r) = b
<1> DEFINE n == Len(b)
           u == Unhexlify(r)
<1>1. n \in Nat /\ (\A i \in 1..n : b[i] \in 0..255) /\ Len(r) = 2 * n
  BY LenProperties, ElementOfSeq
<1>2. ASSUME NEW i \in 1..n PROVE Xctoi(r[2 * i - 1]) * 16 + Xctoi(r[2 * i]) = b[i]
  <2> DEFINE x == b[i]
  <2>1. Xctoi(r[2 * i - 1]) = x \div 16 /\ Xctoi(r[2 * i]) = x % 16 /\ x \in 0..255
    BY <1>1
  <2> HIDE DEF x
  <2>2. (x \div 16) * 16 + (x % 16) = x
    BY <2>1, SMTT(30)
  <2>3. QED
    BY <2>1, <2>2 DEF x
<1>3. b = [i \in 1..n |-> b[i]]
  BY LenProperties
<1> HIDE DEF n
<1>4. Len(r) % 2 = 0 /\ Len(r) \div 2 = n
  BY <1>1
<1>5. u = [i \in 1..n |-> Xctoi(r[2 * i - 1]) * 16 + Xctoi(r[2 * i])]
  BY <1>4 DEF Unhexlify
<1>6. QED
  BY <1>2, <1>3, <1>5

\* Bytes are read as they were written in hexadecimal of either case.
LEMMA HexRoundTrip ==
    ASSUME NEW b \in Seq(0..255)
    PROVE  Unhexlify(Hexlify(b)) = b /\ Unhexlify(UpperHex(Hexlify(b))) = b
<1> DEFINE n == Len(b)
           r == Hexlify(b)
           v == UpperHex(r)
           w(c) == IF c >= 97 THEN c - 32 ELSE c
<1>1. n \in Nat /\ (\A i \in 1..n : b[i] \in 0..255) /\ Len(b) = n
  BY LenProperties, ElementOfSeq
<1>2. r = [i \in 1..(2 * n) |-> IF i % 2 = 1 THEN HexCode(b[(i + 1) \div 2] \div 16)
                                ELSE HexCode(b[i \div 2] % 16)]
  BY DEF Hexlify
<1>3. v = [i \in DOMAIN r |-> w(r[i])]
  BY DEF UpperHex
<1> HIDE DEF n, r, v
<1>4. DOMAIN r = 1..(2 * n)
  BY <1>2
<1>5. ASSUME NEW i \in 1..n
      PROVE  /\ 2 * i - 1 \in 1..(2 * n) /\ 2 * i \in 1..(2 * n)
             /\ b[i] \div 16 \in 0..15 /\ b[i] % 16 \in 0..15
             /\ r[2 * i - 1] = HexCode(b[i] \div 16) /\ r[2 * i] = HexCode(b[i] % 16)
  <2>1. 2 * i - 1 \in 1..(2 * n) /\ (2 * i - 1) % 2 = 1 /\ (2 * i - 1 + 1) \div 2 = i
    BY <1>1
  <2>2. 2 * i \in 1..(2 * n) /\ (2 * i) % 2 = 0 /\ (2 * i) \div 2 = i
    BY <1>1
  <2> DEFINE j == 2 * i - 1
             k == 2 * i
  <2>3. j \in 1..(2 * n) /\ j % 2 = 1 /\ (j + 1) \div 2 = i
    BY <2>1
  <2>4. k \in 1..(2 * n) /\ ~(k % 2 = 1) /\ k \div 2 = i
    BY <2>2
  <2> HIDE DEF j, k
  <2>5. r[j] = HexCode(b[i] \div 16)
    BY <1>2, <2>3
  <2>6. r[k] = HexCode(b[i] % 16)
    BY <1>2, <2>4
  <2>7. b[i] \div 16 \in 0..15 /\ b[i] % 16 \in 0..15
    <3> DEFINE x == b[i]
    <3>1. x \in 0..255
      BY <1>1
    <3> HIDE DEF x
    <3>2. x \div 16 \in 0..15 /\ x % 16 \in 0..15
      BY <3>1
    <3>3. QED
      BY <3>2 DEF x
  <2>8. QED
    BY <2>1, <2>2, <2>5, <2>6, <2>7 DEF j, k
<1>6. ASSUME NEW i \in 1..(2 * n) PROVE r[i] \in Nat
  <2> DEFINE j == (i + 1) \div 2
  <2>1. j \in 1..n /\ (i = 2 * j - 1 \/ i = 2 * j)
    BY <1>1
  <2> HIDE DEF j
  <2>2. \E x \in 0..15 : r[i] = HexCode(x)
    BY <1>5, <2>1
  <2>3. QED
    BY <2>2, XctoiOfCode
<1>7. r \in Seq(Nat) /\ Len(r) = 2 * n
  <2>1. r = [i \in 1..(2 * n) |-> r[i]]
    BY <1>2
  <2>2. 2 * n \in Nat
    BY <1>1
  <2>3. r \in [1..(2 * n) -> Nat]
    BY <1>6, <2>1
  <2>4. r \in Seq(Nat)
    BY <2>2, <2>3, SeqDef
  <2>5. Len(r) \in Nat /\ DOMAIN r = 1..Len(r)
    BY <2>4, LenProperties
  <2>6. QED
    BY <1>4, <2>2, <2>4, <2>5
<1>8. v \in Seq(Nat) /\ Len(v) = 2 * n
  <2>1. \A i \in 1..(2 * n) : w(r[i]) \in Nat
    <3>1. \A c \in Nat : w(c) \in Nat
      OBVIOUS
    <3> HIDE DEF w
    <3>2. QED
      BY <1>6, <3>1
  <2>2. v = [i \in 1..(2 * n) |-> w(r[i])]
    BY <1>3, <1>4
  <2> HIDE DEF w
  <2>3. 2 * n \in Nat /\ DOMAIN v = 1..(2 * n)
    BY <1>1, <2>2
  <2>4. v \in [1..(2 * n) -> Nat]
    BY <2>1, <2>2
  <2>5. v \in Seq(Nat)
    BY <2>3, <2>4, SeqDef
  <2>6. Len(v) \in Nat /\ DOMAIN v = 1..Len(v)
    BY <2>5, LenProperties
  <2>7. QED
    BY <2>3, <2>5, <2>6
<1>9. Unhexlify(r) = b
  <2>1. ASSUME NEW i \in 1..n PROVE Xctoi(r[2 * i - 1]) = b[i] \div 16 /\ Xctoi(r[2 * i]) = b[i] % 16
    BY <1>5, XctoiOfCode
  <2>2. QED
    BY <1>1, <1>7, <2>1, UnhexlifyPairs
<1>10. Unhexlify(v) = b
  <2>1. ASSUME NEW i \in 1..n PROVE Xctoi(v[2 * i - 1]) = b[i] \div 16 /\ Xctoi(v[2 * i]) = b[i] % 16
    <3>1. v[2 * i - 1] = w(r[2 * i - 1]) /\ v[2 * i] = w(r[2 * i])
      BY <1>3, <1>4, <1>5
    <3>2. \A x \in 0..15 : Xctoi(w(HexCode(x))) = x
      BY XctoiOfCode
    <3> HIDE DEF w
    <3>3. QED
      BY <1>5, <3>1, <3>2
  <2>2. QED
    BY <1>1, <1>8, <2>1, UnhexlifyPairs
<1>11. QED
  BY <1>9, <1>10 DEF r, v
-----------------------------------------------------------------------------
(* Bytes of every text.                                                    *)

\* Bytes of any number come back from base64 and from hexadecimal, and whatever
\* base64_decode is given, when it does not fail it has filled the buffer whose length
\* was counted before, with the bytes of the digits that were counted.
THEOREM BytesAreKeptHolds == InputSpec => []BytesAreKept
<1>1. InputInv => BytesAreKept
  <2> SUFFICES ASSUME InputInv PROVE BytesAreKept
    OBVIOUS
  <2>1. ASSUME kind = "bytes"
        PROVE  /\ Len(Base64Encode(text)) = encode_len(Len(text))
               /\ Base64Decode(Base64Encode(text)) = text
               /\ Unhexlify(Hexlify(text)) = text
               /\ Unhexlify(UpperHex(Hexlify(text))) = text
    <3>1. text \in Seq(0..255)
      <4>1. "bytes" \in DOMAIN Symbols /\ text \in Seq(Symbols["bytes"])
        BY <2>1 DEF InputInv
      <4>2. Symbols["bytes"] \subseteq 0..255
        BY <4>1, BinasciiAssumption
      <4>3. QED
        BY <4>1, <4>2, SeqMonotonic
    <3>2. QED
      BY <3>1, Base64RoundTrip, HexRoundTrip
  <2>2. ASSUME kind = "base64", Base64Decode(text) # Failed
        PROVE  LET bytes == Base64Decode(text)
                   n     == LeadingDigits(text)
               IN  /\ Len(bytes) = decode_len(text)
                   /\ SubSeq(Base64Encode(bytes), 1, n - 1) = SubSeq(text, 1, n - 1)
                   /\ n % 4 = 0 => Base64Encode(bytes) = SubSeq(text, 1, n)
    <3>1. text \in Seq(0..63 \cup {Pad, Blank})
      <4>1. "base64" \in DOMAIN Symbols /\ text \in Seq(Symbols["base64"])
        BY <2>2 DEF InputInv
      <4>2. Symbols["base64"] \subseteq 0..63 \cup {Pad, Blank}
        BY <4>1, BinasciiAssumption
      <4>3. QED
        BY <4>1, <4>2, SeqMonotonic
    <3>2. QED
      BY <2>2, <3>1, Base64DecodeFills
  <2>3. QED
    BY <2>1, <2>2 DEF BytesAreKept
<1>2. QED
  BY <1>1, InputInvariant, PTL

-----------------------------------------------------------------------------
(* Digests: numbers and blocks.                                            *)

\* The sizes are positive, a block has room for the count, and the low word counts
\* whole blocks.
LEMMA Sizes ==
    /\ BlockSize \in Nat \ {0} /\ CountSize \in 1..(BlockSize - 1)
    /\ Word \in Nat \ {0} /\ Word % BlockSize = 0
<1>1. BlockSize \in Nat /\ CountSize \in 1..(BlockSize - 1)
  BY DigestAssumption
<1>2. QED
  BY <1>1, DigestAssumption DEF Word

\* Quotient and remainder are determined by what they are for.
LEMMA Divided ==
    ASSUME NEW b \in Nat \ {0}, NEW q \in Nat, NEW r \in Nat, r < b
    PROVE  q * b \in Nat /\ q * b + r \in Nat /\ (q * b + r) \div b = q /\ (q * b + r) % b = r
<1> DEFINE n == q * b + r
           k == n \div b
<1>1. q * b \in Nat /\ n \in Nat
  OBVIOUS
<1>2. k \in Nat /\ n % b \in 0..(b - 1) /\ n = k * b + (n % b)
  BY <1>1
<1>3. q = k
  <2>1. ASSUME NEW x \in Nat, NEW y \in Nat, x < y PROVE x * b + b <= y * b
    <3>1. x + 1 <= y
      BY <2>1
    <3>2. (x + 1) * b <= y * b
      BY <3>1
    <3>3. QED
      BY <3>2
  <2>2. q * b \in Nat /\ k * b \in Nat
    BY <1>2
  <2>3. ~(q < k)
    BY <1>2, <2>1, <2>2
  <2>4. ~(k < q)
    BY <1>2, <2>1, <2>2
  <2>5. QED
    BY <1>2, <2>3, <2>4
<1>4. n % b = r
  BY <1>2, <1>3
<1>5. QED
  BY <1>1, <1>3, <1>4

\* Every number has them.
LEMMA Divides ==
    ASSUME NEW b \in Nat \ {0}, NEW n \in Nat
    PROVE  /\ n \div b \in Nat /\ n % b \in Nat /\ n % b < b
           /\ (n \div b) * b \in Nat /\ n = (n \div b) * b + (n % b)
<1>1. n \div b \in Nat /\ n % b \in 0..(b - 1)
  OBVIOUS
<1>2. n = (n \div b) * b + (n % b)
  OBVIOUS
<1>3. QED
  BY <1>1, <1>2

\* What is left of a sum.
LEMMA DividedSum ==
    ASSUME NEW b \in Nat \ {0}, NEW m \in Nat, NEW n \in Nat, m % b = 0
    PROVE  (m + n) \div b = m \div b + n \div b /\ (m + n) % b = n % b
<1> DEFINE q == m \div b
           p == n \div b
           r == n % b
<1>1. q \in Nat /\ m = q * b /\ p \in Nat /\ r \in Nat /\ r < b /\ n = p * b + r
  BY Divides
<1> HIDE DEF q, p, r
<1>2. (q + p) * b = q * b + p * b /\ q + p \in Nat /\ q * b \in Nat /\ p * b \in Nat
  BY <1>1
<1>3. m + n = (q + p) * b + r
  BY <1>1, <1>2
<1>4. ((q + p) * b + r) \div b = q + p /\ ((q + p) * b + r) % b = r
  BY <1>1, <1>2, Divided
<1>5. QED
  BY <1>3, <1>4 DEF q, p, r

\* The position in a block is that of the low word.
LEMMA LowWord ==
    ASSUME NEW n \in Nat
    PROVE  /\ n % Word \in Nat /\ n % Word < Word /\ n \div Word \in Nat
           /\ (n % Word) % BlockSize = n % BlockSize
<1> DEFINE k == Word \div BlockSize
           h == n \div Word
           l == n % Word
<1>1. Word \in Nat \ {0} /\ BlockSize \in Nat \ {0} /\ Word % BlockSize = 0
  BY Sizes
<1>2. k \in Nat /\ Word = k * BlockSize
  BY <1>1, Divides
<1>3. h \in Nat /\ l \in Nat /\ l < Word /\ n = h * Word + l
  BY <1>1, Divides
<1> HIDE DEF k, h, l
<1>4. h * Word = (h * k) * BlockSize /\ h * k \in Nat
  BY <1>1, <1>2, <1>3
<1> DEFINE j == h * k
<1>5. j * BlockSize \in Nat /\ (j * BlockSize) % BlockSize = 0
  <2>1. j \in Nat /\ 0 \in Nat /\ 0 < BlockSize
    BY <1>1, <1>4
  <2> HIDE DEF j
  <2>2. j * BlockSize \in Nat /\ (j * BlockSize + 0) % BlockSize = 0
    BY <1>1, <2>1, Divided
  <2>3. QED
    BY <2>2
<1> DEFINE m == j * BlockSize
<1>6. n = m + l /\ m \in Nat /\ m % BlockSize = 0
  BY <1>3, <1>4, <1>5
<1> HIDE DEF j, m
<1>7. n % BlockSize = l % BlockSize
  <2>1. (m + l) % BlockSize = l % BlockSize
    BY <1>1, <1>3, <1>6, DividedSum
  <2>2. QED
    BY <1>6, <2>1
<1>8. QED
  BY <1>3, <1>7 DEF h, l

\* The carry is found where the low word overflows.
LEMMA Carried ==
    ASSUME NEW m \in Nat, NEW n \in Nat, NEW ctx, NEW buffer, NEW blocks,
           ctx = [lo |-> m % Word, hi |-> m \div Word, buffer |-> buffer, blocks |-> blocks]
    PROVE  Counted(ctx, n) = [lo |-> (m + n) % Word, hi |-> (m + n) \div Word,
                              buffer |-> buffer, blocks |-> blocks]
<1> DEFINE W == Word
           a == m \div W
           x == m % W
           c == n \div W
           y == n % W
           lo == (x + n) % W
<1>1. W \in Nat \ {0}
  BY Sizes
<1> HIDE DEF W
<1>2. /\ a \in Nat /\ x \in Nat /\ x < W /\ m = a * W + x /\ a * W \in Nat
      /\ c \in Nat /\ y \in Nat /\ y < W /\ n = c * W + y /\ c * W \in Nat
  BY <1>1, Divides
<1> HIDE DEF a, x, c, y
<1>3. CASE x + y < W
  <2>1. x + n = c * W + (x + y) /\ (a + c) * W = a * W + c * W
    BY <1>1, <1>2
  <2>2. x + y \in Nat /\ a + c \in Nat
    BY <1>2
  <2>3. lo = x + y
    <3>1. (c * W + (x + y)) % W = x + y
      BY <1>1, <1>2, <1>3, <2>2, Divided
    <3>2. QED
      BY <2>1, <3>1
  <2>4. m + n = (a + c) * W + (x + y)
    BY <1>2, <2>1
  <2>5. (m + n) \div W = a + c /\ (m + n) % W = x + y
    <3>1. ((a + c) * W + (x + y)) \div W = a + c /\ ((a + c) * W + (x + y)) % W = x + y
      BY <1>1, <1>3, <2>2, Divided
    <3>2. QED
      BY <2>4, <3>1
  <2>6. ~(lo < x) /\ a + 0 + c = a + c
    BY <1>2, <2>3
  <2>7. ctx.lo = x /\ ctx.hi = a
    BY DEF a, x, W
  <2>8. Counted(ctx, n) = [lo |-> lo, hi |-> a + 0 + c, buffer |-> buffer, blocks |-> blocks]
    <3>1. (ctx.lo + n) % Word = lo /\ n \div Word = c
      BY <2>7 DEF c, W
    <3>2. Counted(ctx, n) = [ctx EXCEPT !.lo = lo, !.hi = ctx.hi + 0 + c]
      <4> HIDE DEF lo
      <4>1. QED
        BY <2>6, <2>7, <3>1 DEF Counted
    <3>3. QED
      BY <2>7, <3>2
  <2>9. QED
    BY <2>3, <2>5, <2>6, <2>8 DEF W
<1>4. CASE ~(x + y < W)
  <2> DEFINE z == x + y - W
  <2>1. z \in Nat /\ z < W /\ z < x /\ a + c + 1 \in Nat /\ c + 1 \in Nat
    BY <1>1, <1>2, <1>4
  <2>2. /\ (a + c + 1) * W = a * W + c * W + W
        /\ (c + 1) * W = c * W + W
    BY <1>1, <1>2
  <2>3. x + n = (c + 1) * W + z /\ m + n = (a + c + 1) * W + z
    BY <1>1, <1>2, <2>2
  <2> HIDE DEF z
  <2>4. lo = z
    <3>1. ((c + 1) * W + z) % W = z
      BY <1>1, <2>1, Divided
    <3>2. QED
      BY <2>3, <3>1
  <2>5. (m + n) \div W = a + c + 1 /\ (m + n) % W = z
    <3>1. ((a + c + 1) * W + z) \div W = a + c + 1 /\ ((a + c + 1) * W + z) % W = z
      BY <1>1, <2>1, Divided
    <3>2. QED
      BY <2>3, <3>1
  <2>6. lo < x /\ a + 1 + c = a + c + 1
    BY <1>2, <2>1, <2>4
  <2>7. ctx.lo = x /\ ctx.hi = a
    BY DEF a, x, W
  <2>8. Counted(ctx, n) = [lo |-> lo, hi |-> a + 1 + c, buffer |-> buffer, blocks |-> blocks]
    <3>1. (ctx.lo + n) % Word = lo /\ n \div Word = c
      BY <2>7 DEF c, W
    <3>2. Counted(ctx, n) = [ctx EXCEPT !.lo = lo, !.hi = ctx.hi + 1 + c]
      <4> HIDE DEF lo
      <4>1. QED
        BY <2>6, <2>7, <3>1 DEF Counted
    <3>3. QED
      BY <2>7, <3>2
  <2>9. QED
    BY <2>4, <2>5, <2>6, <2>8 DEF W
<1>5. QED
  BY <1>3, <1>4

\* Blocks are sequences of the elements, of which Left are those behind them.
LEMMA BlocksType ==
    ASSUME NEW S, NEW d \in Seq(S)
    PROVE  /\ Blocks(d) \in Seq(Seq(S)) /\ Len(Blocks(d)) = Len(d) \div BlockSize
           /\ Left(d) \in Seq(S) /\ Len(Left(d)) = Len(d) % BlockSize
           /\ \A i \in 1..(Len(d) \div BlockSize) :
                 /\ Blocks(d)[i] = SubSeq(d, (i - 1) * BlockSize + 1, i * BlockSize)
                 /\ (i - 1) * BlockSize \in Nat /\ i * BlockSize = (i - 1) * BlockSize + BlockSize
                 /\ i * BlockSize <= Len(d)
<1> DEFINE B == BlockSize
           n == Len(d)
           q == n \div B
           r == Blocks(d)
<1>1. B \in Nat \ {0} /\ n \in Nat /\ \A i \in 1..n : d[i] \in S
  BY Sizes, LenProperties
<1>2. q \in Nat /\ n % B \in Nat /\ q * B \in Nat /\ n = q * B + (n % B)
  BY <1>1, Divides
<1>3. r = [i \in 1..q |-> SubSeq(d, (i - 1) * B + 1, i * B)]
  BY DEF Blocks
<1> HIDE DEF B, q, r
<1>4. ASSUME NEW i \in 1..q
      PROVE  (i - 1) * B \in Nat /\ i * B = (i - 1) * B + B /\ i * B <= n
  <2>1. i * B <= q * B
    BY <1>1, <1>2
  <2>2. (i - 1) * B \in Nat /\ i * B = (i - 1) * B + B
    BY <1>1
  <2>3. QED
    BY <1>1, <1>2, <2>1, <2>2
<1>5. ASSUME NEW i \in 1..q PROVE r[i] \in Seq(S) /\ r[i] = SubSeq(d, (i - 1) * B + 1, i * B)
  <2> DEFINE a == (i - 1) * B + 1
             z == i * B
  <2>1. a \in Int /\ z \in Int /\ \A j \in a..z : d[j] \in S
    BY <1>1, <1>4
  <2> HIDE DEF a, z
  <2>2. SubSeq(d, a, z) \in Seq(S)
    BY <2>1, SubSeqProperties
  <2>3. QED
    BY <1>3, <2>2 DEF a, z
<1>6. r \in Seq(Seq(S)) /\ Len(r) = q
  <2>1. r = [i \in 1..q |-> r[i]]
    BY <1>3
  <2>2. r \in [1..q -> Seq(S)]
    BY <1>5, <2>1
  <2>3. r \in Seq(Seq(S))
    BY <1>2, <2>2, SeqDef
  <2>4. Len(r) \in Nat /\ DOMAIN r = 1..Len(r) /\ DOMAIN r = 1..q
    BY <2>1, <2>3, LenProperties
  <2>5. q \in Nat
    BY <1>2
  <2>6. Len(r) = q
    <3>1. ASSUME NEW a \in Nat, NEW b \in Nat, 1..a = 1..b PROVE a = b
      BY <3>1
    <3>2. 1..Len(r) = 1..q
      BY <2>4
    <3>3. QED
      BY <2>4, <2>5, <3>1, <3>2
  <2>7. QED
    BY <2>3, <2>6
<1>7. Left(d) \in Seq(S) /\ Len(Left(d)) = n % B
  <2> DEFINE m == q * B
  <2>1. m \in Nat /\ m <= n /\ n - m = n % B /\ B * q = m
    BY <1>1, <1>2
  <2>2. Left(d) = Rest(d, m)
    BY <2>1 DEF Left, Rest, q, B
  <2> HIDE DEF m
  <2>3. Rest(d, m) \in Seq(S) /\ Len(Rest(d, m)) = IF m <= Len(d) THEN Len(d) - m ELSE 0
    BY <2>1, RestType
  <2> HIDE DEF n
  <2>4. Len(d) = n
    BY DEF n
  <2>5. QED
    BY <2>1, <2>2, <2>3, <2>4
<1>8. QED
  BY <1>4, <1>5, <1>6, <1>7 DEF B, q, r

\* Less than a block is left whole,
LEMMA BlocksNone ==
    ASSUME NEW S, NEW d \in Seq(S), Len(d) < BlockSize
    PROVE  Blocks(d) = <<>> /\ Left(d) = d
<1>1. Len(d) \in Nat /\ BlockSize \in Nat \ {0}
  BY Sizes, LenProperties
<1>2. Len(d) \div BlockSize = 0
  <2>1. (0 * BlockSize + Len(d)) \div BlockSize = 0
    BY <1>1, Divided
  <2>2. 0 * BlockSize + Len(d) = Len(d)
    BY <1>1
  <2>3. QED
    BY <2>1, <2>2
<1>3. Blocks(d) \in Seq(Seq(S)) /\ Len(Blocks(d)) = 0
  BY <1>2, BlocksType
<1>4. BlockSize * 0 + 1 = 1
  BY <1>1
<1>5. Left(d) = d
  BY <1>2, <1>4, SubSeqFull DEF Left
<1>6. QED
  BY <1>3, <1>5, EmptySeq

\* a block is one,
LEMMA BlocksOne ==
    ASSUME NEW S, NEW d \in Seq(S), Len(d) = BlockSize
    PROVE  Blocks(d) = <<d>> /\ Left(d) = <<>>
<1>1. Len(d) \in Nat /\ BlockSize \in Nat \ {0}
  BY Sizes, LenProperties
<1>2. Len(d) \div BlockSize = 1 /\ Len(d) % BlockSize = 0
  <2>1. (1 * BlockSize + 0) \div BlockSize = 1 /\ (1 * BlockSize + 0) % BlockSize = 0
    BY <1>1, Divided
  <2>2. 1 * BlockSize + 0 = Len(d)
    BY <1>1
  <2>3. QED
    BY <2>1, <2>2
<1>3. /\ Blocks(d) \in Seq(Seq(S)) /\ Len(Blocks(d)) = 1
      /\ Left(d) \in Seq(S) /\ Len(Left(d)) = 0
      /\ Blocks(d)[1] = SubSeq(d, (1 - 1) * BlockSize + 1, 1 * BlockSize)
  <2>1. 1 \in 1..(Len(d) \div BlockSize)
    BY <1>2
  <2>2. Len(Blocks(d)) = Len(d) \div BlockSize /\ Len(Left(d)) = Len(d) % BlockSize
    BY BlocksType
  <2>3. Blocks(d)[1] = SubSeq(d, (1 - 1) * BlockSize + 1, 1 * BlockSize)
    BY <2>1, BlocksType
  <2>4. QED
    BY <1>2, <2>2, <2>3, BlocksType
<1>4. (1 - 1) * BlockSize + 1 = 1 /\ 1 * BlockSize = Len(d)
  BY <1>1
<1>5. Blocks(d)[1] = d
  BY <1>3, <1>4, SubSeqFull
<1>6. <<d>> \in Seq(Seq(S)) /\ Len(<<d>>) = 1 /\ <<d>>[1] = d
  OBVIOUS
<1>7. Blocks(d) = <<d>>
  <2> DEFINE b == Blocks(d)
             t == <<d>>
  <2>1. b \in Seq(Seq(S)) /\ t \in Seq(Seq(S)) /\ Len(b) = Len(t) /\ \A i \in 1..Len(b) : b[i] = t[i]
    BY <1>3, <1>5, <1>6
  <2> HIDE DEF b, t
  <2>2. b = t
    BY <2>1, SeqEqual
  <2>3. QED
    BY <2>2 DEF b, t
<1>8. QED
  BY <1>3, <1>7, EmptySeq

\* and what stands behind whole blocks is divided as if it were alone.
LEMMA BlocksBehind ==
    ASSUME NEW S, NEW w \in Seq(S), NEW e \in Seq(S), Len(w) % BlockSize = 0
    PROVE  Blocks(w \o e) = Blocks(w) \o Blocks(e) /\ Left(w \o e) = Left(e)
<1> DEFINE B == BlockSize
           m == Len(w)
           n == Len(e)
           a == m \div B
           c == n \div B
           u == w \o e
           x == Blocks(w)
           y == Blocks(e)
           z == Blocks(u)
<1>1. /\ B \in Nat \ {0} /\ m \in Nat /\ n \in Nat /\ u \in Seq(S) /\ Len(u) = m + n
      /\ (m + n) \div B = a + c /\ (m + n) % B = n % B
  <2>1. B \in Nat \ {0} /\ m \in Nat /\ n \in Nat /\ u \in Seq(S) /\ Len(u) = m + n
    BY Sizes, LenProperties, ConcatProperties
  <2>2. m % B = 0
    OBVIOUS
  <2> HIDE DEF B, m, n
  <2>3. QED
    BY <2>1, <2>2, DividedSum
<1>2. a \in Nat /\ c \in Nat /\ a * B \in Nat /\ m = a * B /\ c * B \in Nat /\ c * B <= n
  <2>1. m % B = 0 /\ n % B \in Nat
    BY <1>1, Divides
  <2>2. a \in Nat /\ a * B \in Nat /\ m = a * B + (m % B)
    BY <1>1, Divides
  <2>3. c \in Nat /\ c * B \in Nat /\ n = c * B + (n % B)
    BY <1>1, Divides
  <2> HIDE DEF a, c, B, m, n
  <2>4. QED
    BY <1>1, <2>1, <2>2, <2>3
<1>3. /\ x \in Seq(Seq(S)) /\ Len(x) = a
      /\ \A i \in 1..a : /\ x[i] = SubSeq(w, (i - 1) * B + 1, i * B)
                         /\ (i - 1) * B \in Nat /\ i * B = (i - 1) * B + B /\ i * B <= m
  BY BlocksType
<1>4. /\ y \in Seq(Seq(S)) /\ Len(y) = c
      /\ \A i \in 1..c : /\ y[i] = SubSeq(e, (i - 1) * B + 1, i * B)
                         /\ (i - 1) * B \in Nat /\ i * B = (i - 1) * B + B /\ i * B <= n
  BY BlocksType
<1>5. /\ z \in Seq(Seq(S)) /\ Len(z) = a + c
      /\ \A i \in 1..(a + c) : z[i] = SubSeq(u, (i - 1) * B + 1, i * B)
  <2>1. Len(u) \div B = a + c
    BY <1>1
  <2>2. u \in Seq(S)
    BY <1>1
  <2> HIDE DEF u
  <2>3. QED
    BY <2>1, <2>2, BlocksType
<1> HIDE DEF B, m, n, a, c, x, y, z
<1>6. ASSUME NEW i \in 1..a PROVE z[i] = x[i]
  <2> DEFINE k == (i - 1) * B + 1
             l == i * B
  <2>1. k \in 1..m /\ l \in 1..m
    <3> DEFINE f == (i - 1) * B
    <3>1. f \in Nat /\ l = f + B /\ l <= m /\ k = f + 1
      BY <1>3
    <3> HIDE DEF f, k, l
    <3>2. QED
      BY <1>1, <3>1
  <2> HIDE DEF k, l
  <2>2. SubSeq(u, k, l) = SubSeq(w, k, l)
    BY <2>1, SubSeqOfConcat1 DEF m, u
  <2>3. i \in 1..(a + c)
    BY <1>2
  <2>4. QED
    BY <1>3, <1>5, <2>2, <2>3 DEF k, l
<1>7. ASSUME NEW i \in 1..c PROVE z[a + i] = y[i]
  <2> DEFINE k == (a + i - 1) * B + 1
             l == (a + i) * B
             f == (i - 1) * B
             g == i * B
             j == a + i
  <2>1. f \in Nat /\ g = f + B /\ g <= n /\ y[i] = SubSeq(e, f + 1, g)
    BY <1>4
  <2>2. k = m + f + 1 /\ l = m + g
    <3>1. (a + i - 1) * B = a * B + (i - 1) * B /\ (a + i) * B = a * B + i * B
      BY <1>1, <1>2
    <3>2. QED
      BY <1>2, <3>1
  <2>3. j \in 1..(a + c) /\ k = (j - 1) * B + 1 /\ l = j * B
    BY <1>2
  <2> HIDE DEF k, l, f, g, j
  <2>4. z[j] = SubSeq(u, k, l)
    BY <1>5, <2>3
  <2>5. k \in m + 1..m + n /\ l \in m + 1..m + n /\ k - m = f + 1 /\ l - m = g
    BY <1>1, <2>1, <2>2
  <2>6. SubSeq(u, k, l) = SubSeq(e, k - m, l - m)
    BY <2>5, SubSeqOfConcat2 DEF m, n, u
  <2>7. QED
    BY <2>1, <2>4, <2>5, <2>6 DEF j
<1>8. z = x \o y
  <2> DEFINE t == x \o y
  <2>1. /\ t \in Seq(Seq(S)) /\ Len(t) = a + c
        /\ \A i \in 1..(a + c) : t[i] = IF i <= a THEN x[i] ELSE y[i - a]
    <3>1. /\ t \in Seq(Seq(S)) /\ Len(t) = Len(x) + Len(y)
          /\ \A i \in 1..Len(x) + Len(y) : t[i] = IF i <= Len(x) THEN x[i] ELSE y[i - Len(x)]
      BY <1>3, <1>4, ConcatProperties, ZenonT(40)
    <3>2. Len(x) = a /\ Len(y) = c
      BY <1>3, <1>4
    <3>3. QED
      BY <3>1, <3>2
  <2>2. ASSUME NEW i \in 1..(a + c) PROVE z[i] = t[i]
    <3>1. CASE i <= a
      BY <1>6, <2>1, <3>1
    <3>2. CASE ~(i <= a)
      <4> DEFINE j == i - a
      <4>1. j \in 1..c /\ a + j = i
        BY <1>2, <3>2
      <4> HIDE DEF j
      <4>2. z[a + j] = y[j]
        BY <1>7, <4>1
      <4>3. t[i] = y[j]
        BY <2>1, <3>2 DEF j
      <4>4. QED
        BY <4>1, <4>2, <4>3
    <3>3. QED
      BY <3>1, <3>2
  <2> HIDE DEF t
  <2>3. z = t
    BY <1>5, <2>1, <2>2, SeqEqual
  <2>4. QED
    BY <2>3 DEF t
<1>9. Left(u) = Left(e)
  <2> DEFINE f == c * B
             g == (a + c) * B
  <2>1. g = m + f /\ f \in Nat /\ g \in Nat /\ g >= m /\ g - m = f
    <3>1. (a + c) * B = a * B + c * B
      BY <1>1, <1>2
    <3>2. QED
      BY <1>1, <1>2, <3>1
  <2>2. B * c = f /\ B * (a + c) = g
    BY <1>1, <1>2
  <2>3. Left(u) = Rest(u, g)
    <3>1. Left(u) = SubSeq(u, B * (Len(u) \div B) + 1, Len(u))
      BY DEF Left, B
    <3>2. Len(u) \div B = a + c
      BY <1>1
    <3>3. QED
      BY <2>2, <3>1, <3>2 DEF Rest
  <2>4. Left(e) = Rest(e, f)
    <3>1. Left(e) = SubSeq(e, B * c + 1, Len(e))
      BY DEF Left, B, c, n
    <3>2. QED
      BY <2>2, <3>1 DEF Rest
  <2> HIDE DEF f, g
  <2>5. g >= Len(w)
    BY <2>1 DEF m
  <2>6. Rest(w \o e, g) = Rest(e, g - Len(w))
    BY <2>1, <2>5, RestBehind
  <2>7. QED
    BY <2>1, <2>3, <2>4, <2>6 DEF m, u
<1>10. QED
  BY <1>8, <1>9 DEF u, x, y, z

\* A sequence is whole blocks and what Left gives.
LEMMA BlocksWhole ==
    ASSUME NEW S, NEW d \in Seq(S)
    PROVE  \E w \in Seq(S) : /\ d = w \o Left(d) /\ Blocks(w) = Blocks(d)
                             /\ Len(w) % BlockSize = 0
<1> DEFINE B == BlockSize
           n == Len(d)
           m == (n \div B) * B
           w == First(d, m)
           l == Left(d)
<1>1. B \in Nat \ {0} /\ n \in Nat
  BY Sizes, LenProperties
<1>2. m \in Nat /\ m <= n /\ m % B = 0 /\ m = B * (n \div B)
  <2>1. n \div B \in Nat /\ m \in Nat /\ n % B \in Nat /\ n = m + (n % B) /\ 0 \in Nat /\ 0 < B
    BY <1>1, Divides, SMTT(30)
  <2>2. ((n \div B) * B + 0) % B = 0
    BY <1>1, <2>1, Divided
  <2>3. (n \div B) * B + 0 = m
    BY <2>1
  <2>4. m = B * (n \div B)
    BY <1>1, <2>1
  <2>5. m % B = 0
    BY <2>2, <2>3
  <2> HIDE DEF m
  <2>6. QED
    BY <1>1, <2>1, <2>4, <2>5
<1>3. l = Rest(d, m)
  BY <1>2 DEF Left, Rest
<1>4. w \in Seq(S) /\ Len(w) = m /\ d = w \o l
  <2> HIDE DEF m
  <2>1. QED
    BY <1>2, <1>3, RestType
<1>5. l \in Seq(S) /\ Len(l) < B
  <2>1. n % B < B
    BY <1>1, Divides
  <2>2. QED
    BY <2>1, BlocksType
<1> HIDE DEF w, l, B
<1>6. Len(w) % B = 0
  BY <1>2, <1>4
<1>7. Blocks(d) = Blocks(w)
  <2>1. Blocks(w \o l) = Blocks(w) \o Blocks(l)
    BY <1>4, <1>5, <1>6, BlocksBehind DEF B
  <2>2. Blocks(l) = <<>>
    BY <1>5, BlocksNone DEF B
  <2>3. Blocks(w) \in Seq(Seq(S))
    BY <1>4, BlocksType
  <2>4. QED
    BY <1>4, <2>1, <2>2, <2>3, ConcatEmptySeq
<1>8. QED
  BY <1>4, <1>6, <1>7 DEF l, B

\* What is added fills no block,
LEMMA FillsNone ==
    ASSUME NEW S, NEW d \in Seq(S), NEW e \in Seq(S), Len(Left(d)) + Len(e) < BlockSize
    PROVE  Blocks(d \o e) = Blocks(d) /\ Left(d \o e) = Left(d) \o e
<1> DEFINE l == Left(d)
           k == l \o e
<1>1. PICK w \in Seq(S) : d = w \o l /\ Blocks(w) = Blocks(d) /\ Len(w) % BlockSize = 0
  BY BlocksWhole
<1>2. l \in Seq(S)
  BY BlocksType
<1> HIDE DEF l
<1>3. d \o e = w \o k /\ k \in Seq(S) /\ Len(k) < BlockSize
  <2>1. (w \o l) \o e = w \o (l \o e)
    BY <1>2, ConcatAssociative, SMTT(30)
  <2>2. k \in Seq(S) /\ Len(k) = Len(l) + Len(e)
    BY <1>2, ConcatProperties
  <2>3. Len(l) + Len(e) < BlockSize
    BY DEF l
  <2>4. QED
    BY <1>1, <2>1, <2>2, <2>3
<1> HIDE DEF k
<1>4. Blocks(w \o k) = Blocks(w) \o Blocks(k) /\ Left(w \o k) = Left(k)
  BY <1>1, <1>3, BlocksBehind
<1>5. Blocks(k) = <<>> /\ Left(k) = k
  BY <1>3, BlocksNone
<1>6. Blocks(w) \in Seq(Seq(S))
  BY BlocksType
<1>7. QED
  BY <1>1, <1>3, <1>4, <1>5, <1>6, ConcatEmptySeq DEF k, l

\* What a block lacks, and what follows: a completes the block that d began.
Completes(d, a, t) ==
    /\ Blocks(d \o (a \o t)) = Blocks(d) \o <<Left(d) \o a>> \o Blocks(t)
    /\ Left(d \o (a \o t)) = Left(t)

\* or what is missing of one, and more.
LEMMA FillsOne ==
    ASSUME NEW S, NEW d \in Seq(S), NEW a \in Seq(S), NEW t \in Seq(S),
           Len(Left(d)) + Len(a) = BlockSize
    PROVE  Completes(d, a, t)
<1> DEFINE l == Left(d)
           k == l \o a
           e == a \o t
           r == k \o t
<1>1. PICK w \in Seq(S) : d = w \o l /\ Blocks(w) = Blocks(d) /\ Len(w) % BlockSize = 0
  BY BlocksWhole
<1>2. l \in Seq(S) /\ e \in Seq(S) /\ BlockSize \in Nat \ {0}
  BY BlocksType, ConcatProperties, Sizes
<1>3. k \in Seq(S) /\ Len(k) = BlockSize
  BY <1>2, ConcatProperties
<1>4. r \in Seq(S) /\ d \o e = w \o r
  <2>1. (w \o l) \o e = w \o (l \o e)
    <3> HIDE DEF l, e
    <3>1. Regroups(w, l, e)
      BY <1>2, ConcatRegroups
    <3>2. QED
      BY <3>1 DEF Regroups
  <2>2. (l \o a) \o t = l \o (a \o t)
    <3> HIDE DEF l
    <3>1. Regroups(l, a, t)
      BY <1>2, ConcatRegroups
    <3>2. QED
      BY <3>1 DEF Regroups
  <2> HIDE DEF l, e, k
  <2>3. r \in Seq(S)
    BY <1>3, ConcatProperties
  <2>4. l \o e = r
    BY <2>2 DEF e, k
  <2>5. QED
    BY <1>1, <2>1, <2>3, <2>4
<1>5. Len(k) % BlockSize = 0
  <2>1. (1 * BlockSize + 0) % BlockSize = 0
    BY <1>2, Divided
  <2>2. 1 * BlockSize + 0 = BlockSize
    BY <1>2
  <2>3. QED
    BY <1>3, <2>1, <2>2
<1> HIDE DEF l, k, e
<1>6. Blocks(r) = Blocks(k) \o Blocks(t) /\ Left(r) = Left(t)
  BY <1>3, <1>5, BlocksBehind
<1>7. Blocks(k) = <<k>>
  BY <1>3, BlocksOne
<1> HIDE DEF r
<1>8. Blocks(w \o r) = Blocks(w) \o Blocks(r) /\ Left(w \o r) = Left(r)
  BY <1>1, <1>4, BlocksBehind
<1>9. Blocks(w) \in Seq(Seq(S)) /\ Blocks(k) \in Seq(Seq(S)) /\ Blocks(t) \in Seq(Seq(S))
  BY <1>3, BlocksType
<1>10. Blocks(w) \o (Blocks(k) \o Blocks(t)) = (Blocks(w) \o Blocks(k)) \o Blocks(t)
  <2> DEFINE x == Blocks(w)
             y == Blocks(k)
             z == Blocks(t)
  <2>1. x \in Seq(Seq(S)) /\ y \in Seq(Seq(S)) /\ z \in Seq(Seq(S))
    BY <1>9
  <2> HIDE DEF x, y, z
  <2>2. Regroups(x, y, z)
    BY <2>1, ConcatRegroups
  <2>3. QED
    BY <2>2 DEF x, y, z, Regroups
<1>11. QED
  BY <1>1, <1>4, <1>6, <1>7, <1>8, <1>10 DEF l, k, e, Completes
-----------------------------------------------------------------------------
(* The buffer.                                                             *)

\* What the buffer begins with.
Holds(buffer, l) == \A i \in 1..Len(l) : buffer[i] = l[i]

\* What is copied behind it comes behind it.
LEMMA CopyHolds ==
    ASSUME NEW S, NEW l \in Seq(S), NEW e \in Seq(S), NEW buffer, Holds(buffer, l),
           Len(l) + Len(e) <= BlockSize
    PROVE  /\ Holds(Copy(buffer, Len(l), e), l \o e)
           /\ Len(l) + Len(e) = BlockSize => Copy(buffer, Len(l), e) = l \o e
<1> DEFINE u == l \o e
           m == Len(l)
           n == Len(e)
           c == Copy(buffer, m, e)
<1>1. /\ m \in Nat /\ n \in Nat /\ BlockSize \in Nat \ {0} /\ u \in Seq(S) /\ Len(u) = m + n
      /\ \A i \in 1..m + n : u[i] = IF i <= m THEN l[i] ELSE e[i - m]
  BY LenProperties, ConcatProperties, Sizes
<1>2. c = [i \in 1..BlockSize |-> IF i \in (m + 1)..(m + n) THEN e[i - m] ELSE buffer[i]]
  BY DEF Copy
<1>3. \A i \in 1..m : buffer[i] = l[i]
  BY DEF Holds
<1>4. m + n <= BlockSize
  OBVIOUS
<1>5. u = [i \in 1..(m + n) |-> u[i]]
  <2>1. u \in [1..Len(u) -> S]
    BY <1>1, LenProperties
  <2> HIDE DEF u, m, n
  <2>2. QED
    BY <1>1, <2>1
<1> HIDE DEF u, m, n, c
<1>6. ASSUME NEW i \in 1..(m + n) PROVE c[i] = u[i]
  <2>1. i \in 1..BlockSize
    BY <1>1, <1>4
  <2>2. CASE i <= m
    <3>1. i \in 1..m /\ ~(i \in (m + 1)..(m + n))
      BY <1>1, <2>2
    <3>2. QED
      BY <1>1, <1>2, <1>3, <2>1, <2>2, <3>1
  <2>3. CASE ~(i <= m)
    <3>1. i \in (m + 1)..(m + n)
      BY <1>1, <2>3
    <3>2. QED
      BY <1>1, <1>2, <2>1, <2>3, <3>1
  <2>4. QED
    BY <2>2, <2>3
<1>7. Holds(c, u)
  BY <1>1, <1>6 DEF Holds
<1>8. ASSUME m + n = BlockSize PROVE c = u
  <2>1. c = [i \in 1..BlockSize |-> c[i]]
    BY <1>2
  <2>2. QED
    BY <1>5, <1>6, <1>8, <2>1
<1>9. QED
  BY <1>7, <1>8 DEF u, m, n, c

\* A buffer holds nothing before it holds something.
LEMMA CopyFirst ==
    ASSUME NEW S, NEW e \in Seq(S), NEW buffer, Len(e) <= BlockSize
    PROVE  Holds(Copy(buffer, 0, e), e)
<1>1. <<>> \in Seq(S) /\ Len(<<>>) = 0 /\ <<>> \o e = e /\ Len(e) \in Nat
  BY EmptySeq, ConcatEmptySeq, LenProperties
<1>2. Holds(buffer, <<>>) /\ Len(<<>>) + Len(e) <= BlockSize
  BY <1>1 DEF Holds
<1>3. Holds(Copy(buffer, Len(<<>>), e), <<>> \o e)
  BY <1>1, <1>2, CopyHolds
<1>4. QED
  BY <1>1, <1>3

\* A sequence is cut in two.
LEMMA CutInTwo ==
    ASSUME NEW S, NEW e \in Seq(S), NEW k \in Nat, k <= Len(e)
    PROVE  /\ Sub(e, 0, k) \in Seq(S) /\ Len(Sub(e, 0, k)) = k
           /\ From(e, k) \in Seq(S) /\ e = Sub(e, 0, k) \o From(e, k)
<1>1. Sub(e, 0, k) = First(e, k)
  BY DEF Sub, First
<1>2. From(e, k) = Rest(e, k)
  BY DEF From, Sub, Rest
<1>3. First(e, k) \in Seq(S) /\ Len(First(e, k)) = k /\ e = First(e, k) \o Rest(e, k)
  BY RestType
<1>4. Rest(e, k) \in Seq(S)
  BY RestType
<1>5. QED
  BY <1>1, <1>2, <1>3, <1>4

\* What does not fill the buffer is gathered there;
LEMMA Gathered ==
    ASSUME NEW S, NEW d \in Seq(S), NEW e \in Seq(S), NEW buffer, Holds(buffer, Left(d)),
           Len(Left(d)) + Len(e) < BlockSize
    PROVE  /\ Blocks(d \o e) = Blocks(d)
           /\ Holds(Copy(buffer, Len(Left(d)), e), Left(d \o e))
<1> DEFINE l == Left(d)
<1>1. l \in Seq(S) /\ Len(l) \in Nat /\ Len(e) \in Nat /\ BlockSize \in Nat \ {0}
  BY BlocksType, LenProperties, Sizes
<1>2. Blocks(d \o e) = Blocks(d) /\ Left(d \o e) = l \o e
  BY FillsNone
<1>3. Holds(buffer, l) /\ Len(l) + Len(e) < BlockSize
  OBVIOUS
<1> HIDE DEF l
<1>4. Len(l) + Len(e) <= BlockSize
  BY <1>1, <1>3
<1>5. Holds(Copy(buffer, Len(l), e), l \o e)
  BY <1>1, <1>3, <1>4, CopyHolds
<1>6. QED
  BY <1>2, <1>5 DEF l

\* what does is hashed behind it, in whole blocks.
LEMMA Filled ==
    ASSUME NEW S, NEW d \in Seq(S), NEW e \in Seq(S), NEW buffer, Holds(buffer, Left(d)),
           NEW k \in Nat, k <= Len(e), Len(Left(d)) + k = BlockSize
    PROVE  LET first == Copy(buffer, Len(Left(d)), Sub(e, 0, k))
               rest  == From(e, k)
           IN  /\ Blocks(d \o e) = Blocks(d) \o <<first>> \o Blocks(rest)
               /\ Holds(Copy(first, 0, Left(rest)), Left(d \o e))
<1> DEFINE l == Left(d)
           a == Sub(e, 0, k)
           t == From(e, k)
           first == Copy(buffer, Len(l), a)
<1>1. /\ l \in Seq(S) /\ Len(l) \in Nat /\ BlockSize \in Nat \ {0}
      /\ a \in Seq(S) /\ Len(a) = k /\ t \in Seq(S) /\ e = a \o t
  <2>1. l \in Seq(S) /\ Len(l) \in Nat /\ BlockSize \in Nat \ {0}
    BY BlocksType, LenProperties, Sizes
  <2>2. a \in Seq(S) /\ Len(a) = k /\ t \in Seq(S) /\ e = a \o t
    BY CutInTwo
  <2>3. QED
    BY <2>1, <2>2
<1>2. Holds(buffer, l) /\ Len(l) + k = BlockSize
  OBVIOUS
<1> HIDE DEF a, t
<1>3. Blocks(d \o e) = Blocks(d) \o <<l \o a>> \o Blocks(t) /\ Left(d \o e) = Left(t)
  <2>1. Len(Left(d)) + Len(a) = BlockSize
    BY <1>1
  <2> HIDE DEF l
  <2>2. /\ Blocks(d \o (a \o t)) = Blocks(d) \o <<Left(d) \o a>> \o Blocks(t)
        /\ Left(d \o (a \o t)) = Left(t)
    <3>1. a \in Seq(S) /\ t \in Seq(S)
      BY <1>1
    <3>2. Completes(d, a, t)
      BY <2>1, <3>1, FillsOne
    <3>3. QED
      BY <3>2 DEF Completes
  <2>3. QED
    BY <1>1, <2>2 DEF l
<1> HIDE DEF l
<1>4. Len(l) + Len(a) <= BlockSize /\ Len(l) + Len(a) = BlockSize
  BY <1>1, <1>2
<1>5. first = l \o a
  BY <1>1, <1>2, <1>4, CopyHolds
<1> HIDE DEF first
<1>6. Left(t) \in Seq(S) /\ Len(Left(t)) <= BlockSize
  <2>1. Len(t) \in Nat
    BY <1>1, LenProperties
  <2>2. Len(t) % BlockSize < BlockSize /\ Len(t) % BlockSize \in Nat
    BY <1>1, <2>1, Divides
  <2>3. Left(t) \in Seq(S) /\ Len(Left(t)) = Len(t) % BlockSize
    BY <1>1, BlocksType
  <2>4. QED
    BY <1>1, <2>2, <2>3
<1>7. Holds(Copy(first, 0, Left(t)), Left(t))
  BY <1>6, CopyFirst
<1>8. QED
  BY <1>3, <1>5, <1>7 DEF a, t, l, first
-----------------------------------------------------------------------------
(* Gathering.                                                              *)

\* A context after d: its whole blocks are hashed, what is left is in the buffer, and
\* its bytes are counted.
Hashed(ctx, d) ==
    /\ ctx = [lo |-> Len(d) % Word, hi |-> Len(d) \div Word,
              buffer |-> ctx.buffer, blocks |-> Blocks(d)]
    /\ Holds(ctx.buffer, Left(d))

\* What a context says of d, and of e that is counted.
LEMMA HashedSays ==
    ASSUME NEW S, NEW d \in Seq(S), NEW e \in Seq(S), NEW ctx, Hashed(ctx, d)
    PROVE  /\ BlockSize \in Nat \ {0} /\ Len(Left(d)) \in Nat /\ Len(e) \in Nat
           /\ Len(Left(d)) < BlockSize /\ Len(Left(d)) = Len(d) % BlockSize
           /\ ctx.lo % BlockSize = Len(Left(d)) /\ ctx.blocks = Blocks(d)
           /\ Counted(ctx, Len(e)) = [lo |-> Len(d \o e) % Word, hi |-> Len(d \o e) \div Word,
                                      buffer |-> ctx.buffer, blocks |-> Blocks(d)]
<1>1. BlockSize \in Nat \ {0} /\ Len(d) \in Nat /\ Len(e) \in Nat /\ Len(d \o e) = Len(d) + Len(e)
  BY Sizes, LenProperties, ConcatProperties
<1>2. Len(Left(d)) = Len(d) % BlockSize /\ Len(Left(d)) \in Nat /\ Len(Left(d)) < BlockSize
  <2>1. Len(Left(d)) = Len(d) % BlockSize
    BY BlocksType
  <2>2. Len(d) % BlockSize \in Nat /\ Len(d) % BlockSize < BlockSize
    BY <1>1, Divides
  <2>3. QED
    BY <2>1, <2>2
<1>3. ctx = [lo |-> Len(d) % Word, hi |-> Len(d) \div Word,
             buffer |-> ctx.buffer, blocks |-> Blocks(d)]
  BY DEF Hashed
<1>4. ctx.lo = Len(d) % Word /\ ctx.blocks = Blocks(d)
  BY <1>3
<1>5. ctx.lo % BlockSize = Len(d) % BlockSize
  BY <1>1, <1>4, LowWord
<1> DEFINE m == Len(d)
           n == Len(e)
           buffer == ctx.buffer
           blocks == Blocks(d)
<1>6. Counted(ctx, n) = [lo |-> (m + n) % Word, hi |-> (m + n) \div Word,
                         buffer |-> buffer, blocks |-> blocks]
  <2>1. ctx = [lo |-> m % Word, hi |-> m \div Word, buffer |-> buffer, blocks |-> blocks]
    BY <1>3
  <2>2. m \in Nat /\ n \in Nat
    BY <1>1
  <2> HIDE DEF m, n, buffer, blocks
  <2>3. QED
    BY <2>1, <2>2, Carried
<1>7. QED
  BY <1>1, <1>2, <1>4, <1>5, <1>6

\* A context that is made of parts.
LEMMA HashedOf ==
    ASSUME NEW S, NEW d \in Seq(S), NEW next, NEW old, NEW older, NEW buffer, NEW blocks,
           next = [lo |-> Len(d) % Word, hi |-> Len(d) \div Word, buffer |-> old, blocks |-> older],
           blocks = Blocks(d), Holds(buffer, Left(d))
    PROVE  /\ Hashed([next EXCEPT !.blocks = blocks, !.buffer = buffer], d)
           /\ older = blocks => Hashed([next EXCEPT !.buffer = buffer], d)
<1> DEFINE x == Len(d) % Word
           y == Len(d) \div Word
           c == [lo |-> x, hi |-> y, buffer |-> buffer, blocks |-> blocks]
<1>0. next = [lo |-> x, hi |-> y, buffer |-> old, blocks |-> older]
  OBVIOUS
<1>1. [next EXCEPT !.blocks = blocks, !.buffer = buffer] = c
  <2> DEFINE r == [next EXCEPT !.blocks = blocks, !.buffer = buffer]
  <2> HIDE DEF x, y
  <2>1. r = [lo |-> r.lo, hi |-> r.hi, buffer |-> r.buffer, blocks |-> r.blocks]
    <3> DEFINE s == [next EXCEPT !.blocks = blocks]
    <3>1. s = [lo |-> x, hi |-> y, buffer |-> old, blocks |-> blocks]
      BY <1>0
    <3>2. r = [s EXCEPT !.buffer = buffer]
      OBVIOUS
    <3> HIDE DEF s, r
    <3>3. r = [lo |-> x, hi |-> y, buffer |-> buffer, blocks |-> blocks]
      BY <3>1, <3>2
    <3>4. QED
      BY <3>3
  <2>2. r.lo = x /\ r.hi = y /\ r.buffer = buffer /\ r.blocks = blocks
    BY <1>0
  <2> HIDE DEF r
  <2>3. r = c
    BY <2>1, <2>2
  <2>4. QED
    BY <2>3 DEF r
<1>2. older = blocks => [next EXCEPT !.buffer = buffer] = c
  <2> HIDE DEF x, y
  <2>1. QED
    BY <1>0
<1>3. Hashed(c, d)
  <2>1. c.buffer = buffer
    OBVIOUS
  <2>2. c = [lo |-> Len(d) % Word, hi |-> Len(d) \div Word, buffer |-> c.buffer, blocks |-> Blocks(d)]
    BY <2>1
  <2> HIDE DEF c
  <2>3. QED
    BY <2>1, <2>2 DEF Hashed
<1>4. QED
  BY <1>1, <1>2, <1>3

\* MD5 keeps to what it was given.
LEMMA MD5Grows ==
    ASSUME NEW S, NEW d \in Seq(S), NEW e \in Seq(S), NEW ctx, Hashed(ctx, d)
    PROVE  Hashed(MD5Update(ctx, e), d \o e)
<1> DEFINE B == BlockSize
           l == Left(d)
           u == Len(l)
           n == Len(e)
           k == B - u
           D == d \o e
           next == Counted(ctx, n)
           M == MD5Update(ctx, e)
<1>1. /\ B \in Nat \ {0} /\ u \in Nat /\ n \in Nat /\ u < B /\ u = Len(d) % B
      /\ ctx.lo % B = u /\ ctx.blocks = Blocks(d)
      /\ next = [lo |-> Len(D) % Word, hi |-> Len(D) \div Word,
                 buffer |-> ctx.buffer, blocks |-> Blocks(d)]
  BY HashedSays
<1>2. Holds(ctx.buffer, l) /\ D \in Seq(S)
  BY ConcatProperties DEF Hashed
<1>3. next.buffer = ctx.buffer /\ next.blocks = Blocks(d)
  BY <1>1
<1>4. CASE u = 0
  <2> DEFINE buffer == Copy(ctx.buffer, 0, Left(e))
             blocks == Blocks(d) \o Blocks(e)
  <2>1. M = [next EXCEPT !.blocks = blocks, !.buffer = buffer]
    <3> HIDE DEF next
    <3>1. M = [next EXCEPT !.blocks = @ \o Blocks(e), !.buffer = Copy(@, 0, Left(e))]
      BY <1>1, <1>4 DEF MD5Update, next, B
    <3>2. QED
      BY <1>3, <3>1
  <2>2. blocks = Blocks(D) /\ Left(D) = Left(e)
    BY <1>1, <1>4, BlocksBehind
  <2>3. Holds(buffer, Left(D))
    <3>1. Left(e) \in Seq(S) /\ Len(Left(e)) = n % B /\ n % B < B /\ n % B \in Nat
      BY <1>1, BlocksType, Divides
    <3>2. Len(Left(e)) <= B
      BY <1>1, <3>1
    <3>3. Holds(buffer, Left(e))
      BY <3>1, <3>2, CopyFirst
    <3>4. QED
      BY <2>2, <3>3
  <2> HIDE DEF M, next, D, buffer, blocks
  <2>4. Hashed([next EXCEPT !.blocks = blocks, !.buffer = buffer], D)
    BY <1>1, <1>2, <2>2, <2>3, HashedOf
  <2>5. QED
    BY <2>1, <2>4 DEF M, D
<1>5. CASE u # 0 /\ n < k
  <2> DEFINE buffer == Copy(ctx.buffer, u, e)
  <2>1. M = [next EXCEPT !.buffer = buffer]
    <3> HIDE DEF next
    <3>1. M = [next EXCEPT !.buffer = Copy(@, u, e)]
      BY <1>1, <1>5 DEF MD5Update, next, B
    <3>2. QED
      BY <1>3, <3>1
  <2>2. Blocks(d) = Blocks(D) /\ Holds(buffer, Left(D))
    <3>1. u + n < B
      BY <1>1, <1>5
    <3>2. QED
      BY <1>2, <3>1, Gathered
  <2> DEFINE blocks == Blocks(D)
  <2>3. next = [lo |-> Len(D) % Word, hi |-> Len(D) \div Word,
                buffer |-> ctx.buffer, blocks |-> blocks]
    BY <1>1, <2>2
  <2> HIDE DEF M, next, D, buffer
  <2>4. Hashed([next EXCEPT !.buffer = buffer], D)
    <3>1. blocks = Blocks(D)
      OBVIOUS
    <3> HIDE DEF blocks
    <3>2. QED
      BY <1>2, <2>2, <2>3, <3>1, HashedOf
  <2>5. QED
    BY <2>1, <2>4 DEF M, D
<1>6. CASE u # 0 /\ ~(n < k)
  <2> DEFINE first == Copy(ctx.buffer, u, Sub(e, 0, k))
             rest == From(e, k)
             buffer == Copy(first, 0, Left(rest))
             blocks == Blocks(d) \o <<first>> \o Blocks(rest)
  <2>1. M = [next EXCEPT !.blocks = blocks, !.buffer = buffer]
    <3> HIDE DEF next
    <3>1. M = [next EXCEPT !.blocks = @ \o <<first>> \o Blocks(rest),
                           !.buffer = Copy(first, 0, Left(rest))]
      BY <1>1, <1>6 DEF MD5Update, next, B
    <3>2. QED
      BY <1>3, <3>1
  <2>2. k \in Nat /\ k <= n /\ u + k = B
    BY <1>1, <1>6
  <2>3. blocks = Blocks(D) /\ Holds(buffer, Left(D))
    <3> HIDE DEF k
    <3>1. QED
      BY <1>2, <2>2, Filled, SMTT(30)
  <2> HIDE DEF M, next, D, buffer, blocks
  <2>4. Hashed([next EXCEPT !.blocks = blocks, !.buffer = buffer], D)
    BY <1>1, <1>2, <2>3, HashedOf
  <2>5. QED
    BY <2>1, <2>4 DEF M, D
<1>7. QED
  BY <1>4, <1>5, <1>6

\* So does SHA1.
LEMMA SHA1Grows ==
    ASSUME NEW S, NEW d \in Seq(S), NEW e \in Seq(S), NEW ctx, Hashed(ctx, d)
    PROVE  Hashed(SHA1Update(ctx, e), d \o e)
<1> DEFINE B == BlockSize
           l == Left(d)
           u == Len(l)
           n == Len(e)
           k == B - u
           D == d \o e
           next == Counted(ctx, n)
           M == SHA1Update(ctx, e)
<1>1. /\ B \in Nat \ {0} /\ u \in Nat /\ n \in Nat /\ u < B
      /\ ctx.lo % B = u /\ ctx.blocks = Blocks(d)
      /\ next = [lo |-> Len(D) % Word, hi |-> Len(D) \div Word,
                 buffer |-> ctx.buffer, blocks |-> Blocks(d)]
  BY HashedSays
<1>2. Holds(ctx.buffer, l) /\ D \in Seq(S)
  BY ConcatProperties DEF Hashed
<1>3. next.buffer = ctx.buffer /\ next.blocks = Blocks(d)
  BY <1>1
<1>4. CASE u + n > B - 1
  <2> DEFINE first == Copy(ctx.buffer, u, Sub(e, 0, k))
             rest == From(e, k)
             buffer == Copy(first, 0, Left(rest))
             blocks == Blocks(d) \o <<first>> \o Blocks(rest)
  <2>1. M = [next EXCEPT !.blocks = blocks, !.buffer = buffer]
    <3> HIDE DEF next
    <3>1. M = [next EXCEPT !.blocks = @ \o <<first>> \o Blocks(rest),
                           !.buffer = Copy(first, 0, Left(rest))]
      BY <1>1, <1>4 DEF SHA1Update, next, B
    <3>2. QED
      BY <1>3, <3>1
  <2>2. k \in Nat /\ k <= n /\ u + k = B
    BY <1>1, <1>4
  <2>3. blocks = Blocks(D) /\ Holds(buffer, Left(D))
    <3> HIDE DEF k
    <3>1. QED
      BY <1>2, <2>2, Filled, SMTT(30)
  <2> HIDE DEF M, next, D, buffer, blocks
  <2>4. Hashed([next EXCEPT !.blocks = blocks, !.buffer = buffer], D)
    BY <1>1, <1>2, <2>3, HashedOf
  <2>5. QED
    BY <2>1, <2>4 DEF M, D
<1>5. CASE ~(u + n > B - 1)
  <2> DEFINE buffer == Copy(ctx.buffer, u, e)
  <2>1. M = [next EXCEPT !.buffer = buffer]
    <3> HIDE DEF next
    <3>1. M = [next EXCEPT !.buffer = Copy(@, u, e)]
      BY <1>1, <1>5 DEF SHA1Update, next, B
    <3>2. QED
      BY <1>3, <3>1
  <2>2. Blocks(d) = Blocks(D) /\ Holds(buffer, Left(D))
    <3>1. u + n < B
      BY <1>1, <1>5
    <3>2. QED
      BY <1>2, <3>1, Gathered
  <2> DEFINE blocks == Blocks(D)
  <2>3. next = [lo |-> Len(D) % Word, hi |-> Len(D) \div Word,
                buffer |-> ctx.buffer, blocks |-> blocks]
    BY <1>1, <2>2
  <2> HIDE DEF M, next, D, buffer
  <2>4. Hashed([next EXCEPT !.buffer = buffer], D)
    <3>1. blocks = Blocks(D)
      OBVIOUS
    <3> HIDE DEF blocks
    <3>2. QED
      BY <1>2, <2>2, <2>3, <3>1, HashedOf
  <2>5. QED
    BY <2>1, <2>4 DEF M, D
<1>6. QED
  BY <1>4, <1>5

\* A context begins with nothing.
LEMMA HashedFirst ==
    ASSUME NEW S
    PROVE  Hashed(DigestInit, <<>>)
<1>1. <<>> \in Seq(S) /\ Len(<<>>) = 0 /\ Word \in Nat \ {0} /\ BlockSize \in Nat \ {0}
  BY EmptySeq, Sizes
<1>2. 0 % Word = 0 /\ 0 \div Word = 0
  BY <1>1
<1>3. Blocks(<<>>) = <<>> /\ Left(<<>>) = <<>>
  <2> DEFINE e == <<>>
  <2>1. e \in Seq(S) /\ Len(e) < BlockSize
    BY <1>1
  <2> HIDE DEF e
  <2>2. Blocks(e) = <<>> /\ Left(e) = e
    BY <2>1, BlocksNone
  <2>3. QED
    BY <2>2 DEF e
<1>4. DigestInit.buffer = Clean
  BY DEF DigestInit
<1>5. QED
  BY <1>1, <1>2, <1>3, <1>4 DEF Hashed, Holds, DigestInit

-----------------------------------------------------------------------------
(* The padding.                                                            *)

\* Zeros are zeros, and zeros behind zeros are zeros.
LEMMA ZerosType ==
    ASSUME NEW S, Zero \in S, NEW n \in Nat
    PROVE  /\ Zeros(n) \in Seq(S) /\ Len(Zeros(n)) = n
           /\ Zeros(n) = [i \in 1..n |-> Zero]
<1> DEFINE z == Zeros(n)
<1>1. z = [i \in 1..n |-> Zero]
  BY DEF Zeros
<1> HIDE DEF z
<1>2. z \in [1..n -> S]
  BY <1>1
<1>3. z \in Seq(S)
  BY <1>2, SeqDef
<1>4. Len(z) \in Nat /\ DOMAIN z = 1..Len(z) /\ DOMAIN z = 1..n
  BY <1>1, <1>3, LenProperties
<1>5. Len(z) = n
  <2>1. ASSUME NEW a \in Nat, NEW b \in Nat, 1..a = 1..b PROVE a = b
    BY <2>1
  <2>2. QED
    BY <1>4, <2>1
<1>6. QED
  BY <1>1, <1>3, <1>5 DEF z

\* Zeros behind zeros are zeros.
LEMMA ZerosJoin ==
    ASSUME NEW m \in Nat, NEW n \in Nat
    PROVE  Zeros(m) \o Zeros(n) = Zeros(m + n)
<1> DEFINE S == {Zero}
           a == Zeros(m)
           b == Zeros(n)
           c == Zeros(m + n)
           r == a \o b
<1>1. a \in Seq(S) /\ Len(a) = m /\ \A i \in 1..m : a[i] = Zero
  BY ZerosType
<1>2. b \in Seq(S) /\ Len(b) = n /\ \A i \in 1..n : b[i] = Zero
  BY ZerosType
<1>3. c \in Seq(S) /\ Len(c) = m + n /\ \A i \in 1..(m + n) : c[i] = Zero
  <2> DEFINE k == m + n
  <2>1. k \in Nat
    OBVIOUS
  <2> HIDE DEF k
  <2>2. Zeros(k) \in Seq(S) /\ Len(Zeros(k)) = k /\ \A i \in 1..k : Zeros(k)[i] = Zero
    BY <2>1, ZerosType
  <2>3. QED
    BY <2>2 DEF k
<1> HIDE DEF a, b, c
<1>4. /\ r \in Seq(S) /\ Len(r) = Len(a) + Len(b)
      /\ \A i \in 1..Len(a) + Len(b) : r[i] = IF i <= Len(a) THEN a[i] ELSE b[i - Len(a)]
  BY <1>1, <1>2, ConcatProperties
<1> HIDE DEF r
<1>5. ASSUME NEW i \in 1..Len(r) PROVE r[i] = c[i]
  <2>1. i \in 1..(m + n)
    BY <1>1, <1>2, <1>4
  <2>2. CASE i <= m
    <3>1. i \in 1..m
      BY <2>1, <2>2
    <3>2. QED
      BY <1>1, <1>2, <1>3, <1>4, <2>1, <2>2, <3>1
  <2>3. CASE ~(i <= m)
    <3>1. i - m \in 1..n
      BY <2>1, <2>3
    <3>2. QED
      BY <1>1, <1>2, <1>3, <1>4, <2>1, <2>3, <3>1
  <2>4. QED
    BY <2>2, <2>3
<1>6. r = c
  BY <1>1, <1>2, <1>3, <1>4, <1>5, SeqEqual
<1>7. QED
  BY <1>6 DEF a, b, c, r

\* How many zeros stand behind the mark: as many as are missing before the count.
ZerosFor(m) == (2 * BlockSize - CountSize - 1 - (m % BlockSize)) % BlockSize

\* In the block of the mark, or when it has no room, in that block and the next.
LEMMA ZerosMissing ==
    ASSUME NEW m \in Nat
    PROVE  LET u == m % BlockSize
           IN  /\ ZerosFor(m) \in Nat /\ ZerosFor(m) < BlockSize
               /\ u + 1 + CountSize <= BlockSize => ZerosFor(m) = BlockSize - CountSize - 1 - u
               /\ ~(u + 1 + CountSize <= BlockSize)
                     => ZerosFor(m) = (BlockSize - (u + 1)) + (BlockSize - CountSize)
<1> DEFINE B == BlockSize
           C == CountSize
           u == m % B
           z == ZerosFor(m)
<1>1. B \in Nat \ {0} /\ C \in 1..(B - 1) /\ u \in Nat /\ u < B
  BY Sizes, Divides
<1>2. z = (2 * B - C - 1 - u) % B
  BY DEF ZerosFor
<1> HIDE DEF B, C, u, z
<1>3. CASE u + 1 + C <= B
  <2> DEFINE r == B - C - 1 - u
  <2>1. r \in Nat /\ r < B /\ 1 * B + r = 2 * B - C - 1 - u
    BY <1>1, <1>3
  <2> HIDE DEF r
  <2>2. (1 * B + r) % B = r
    BY <1>1, <2>1, Divided
  <2>3. z = r
    BY <1>2, <2>1, <2>2
  <2>4. QED
    BY <1>3, <2>1, <2>3 DEF r, B, C, u, z
<1>4. CASE ~(u + 1 + C <= B)
  <2> DEFINE r == (B - (u + 1)) + (B - C)
  <2>1. r \in Nat /\ r < B /\ 0 * B + r = 2 * B - C - 1 - u
    BY <1>1, <1>4
  <2> HIDE DEF r
  <2>2. (0 * B + r) % B = r
    BY <1>1, <2>1, Divided
  <2>3. z = r
    BY <1>2, <2>1, <2>2
  <2>4. QED
    BY <1>4, <2>1, <2>3 DEF r, B, C, u, z
<1>5. QED
  BY <1>3, <1>4

\* Only after so many zeros does the count stand where it must.
LEMMA ZerosEnd ==
    ASSUME NEW m \in Nat, NEW n \in Nat, n <= ZerosFor(m)
    PROVE  ((m + 1 + n) % BlockSize = BlockSize - CountSize) <=> n = ZerosFor(m)
<1> DEFINE B == BlockSize
           C == CountSize
           u == m % B
           q == m \div B
           z == ZerosFor(m)
           x == u + 1 + n
<1>1. /\ B \in Nat \ {0} /\ C \in 1..(B - 1) /\ u \in Nat /\ u < B /\ q \in Nat
      /\ q * B \in Nat /\ m = q * B + u
  BY Sizes, Divides
<1>2. /\ z \in Nat
      /\ u + 1 + C <= B => z = B - C - 1 - u
      /\ ~(u + 1 + C <= B) => z = (B - (u + 1)) + (B - C)
  BY ZerosMissing
<1>3. n <= z
  OBVIOUS
<1> HIDE DEF B, C, u, q, z
<1>4. (q + 1) * B = q * B + B /\ q + 1 \in Nat
  BY <1>1
<1>5. CASE x < B
  <2>1. m + 1 + n = q * B + x /\ x \in Nat
    BY <1>1
  <2> HIDE DEF x
  <2>2. (q * B + x) % B = x
    BY <1>1, <1>5, <2>1, Divided
  <2>3. (m + 1 + n) % B = x
    BY <2>1, <2>2
  <2>4. x = B - C <=> n = z
    BY <1>1, <1>2, <1>3, <1>5 DEF x
  <2>5. QED
    BY <2>3, <2>4 DEF B, C, z
<1>6. CASE ~(x < B)
  <2> DEFINE y == x - B
  <2>1. y \in Nat /\ y < B /\ m + 1 + n = (q + 1) * B + y
    BY <1>1, <1>2, <1>3, <1>4, <1>6
  <2>2. y = B - C <=> n = z
    BY <1>1, <1>2, <1>3, <1>6
  <2> HIDE DEF x, y
  <2>3. ((q + 1) * B + y) % B = y
    BY <1>1, <1>4, <2>1, Divided
  <2>4. (m + 1 + n) % B = y
    BY <2>1, <2>3
  <2>5. QED
    BY <2>2, <2>4 DEF B, C, z
<1>7. QED
  BY <1>5, <1>6

-----------------------------------------------------------------------------
(* The end.                                                                *)

\* What the count of m bytes is written as.
Tally(m) == <<"count", m \div Word, m % Word>>

\* What stands behind the mark after m bytes: zeros and the count.
Counting(m) == Append(Zeros(CountSize - 1), Tally(m))

\* The count takes the place that is kept for it.
LEMMA CountingType ==
    ASSUME NEW S, Zero \in S, NEW m \in Nat, Tally(m) \in S
    PROVE  /\ Counting(m) \in Seq(S) /\ Len(Counting(m)) = CountSize
           /\ Counting(m) = Zeros(CountSize - 1) \o <<Tally(m)>>
<1> DEFINE k == CountSize - 1
<1>1. k \in Nat /\ k + 1 = CountSize
  BY Sizes
<1> HIDE DEF k
<1>2. Zeros(k) \in Seq(S) /\ Len(Zeros(k)) = k
  BY <1>1, ZerosType
<1>3. /\ Append(Zeros(k), Tally(m)) \in Seq(S) /\ Len(Append(Zeros(k), Tally(m))) = k + 1
      /\ Append(Zeros(k), Tally(m)) = Zeros(k) \o <<Tally(m)>>
  BY <1>2, AppendProperties, AppendIsConcat
<1>4. QED
  BY <1>1, <1>3 DEF Counting, k

\* d, the mark and zeros.
Marked(d, n) == (d \o <<One>>) \o Zeros(n)

\* They come one behind the other.
LEMMA MarkedType ==
    ASSUME NEW S, Zero \in S, One \in S, NEW d \in Seq(S), NEW n \in Nat
    PROVE  /\ Marked(d, n) \in Seq(S) /\ Len(Marked(d, n)) = Len(d) + 1 + n
           /\ Marked(d, 0) = d \o <<One>>
           /\ Marked(d, n + 1) = Marked(d, n) \o <<Zero>>
<1> DEFINE m == d \o <<One>>
           z == Zeros(n)
<1>1. <<One>> \in Seq(S) /\ Len(<<One>>) = 1 /\ <<Zero>> \in Seq(S) /\ Len(d) \in Nat
  BY LenProperties
<1>2. m \in Seq(S) /\ Len(m) = Len(d) + 1
  <2> DEFINE o == <<One>>
  <2>1. o \in Seq(S) /\ Len(o) = 1
    BY <1>1
  <2> HIDE DEF o
  <2>2. QED
    BY <2>1, ConcatProperties DEF o
<1>3. z \in Seq(S) /\ Len(z) = n
  BY ZerosType
<1>4. Zeros(0) = <<>>
  <2>1. Zeros(0) \in Seq(S) /\ Len(Zeros(0)) = 0
    BY ZerosType
  <2>2. QED
    BY <2>1, EmptySeq
<1>5. Zeros(n + 1) = z \o <<Zero>>
  <2>1. Zeros(1) = <<Zero>>
    <3>1. Zeros(1) = [i \in 1..1 |-> Zero]
      BY DEF Zeros
    <3>2. QED
      BY <3>1
  <2>2. QED
    BY <2>1, ZerosJoin
<1> HIDE DEF m, z
<1>6. m \o z \in Seq(S) /\ Len(m \o z) = Len(m) + Len(z)
  BY <1>2, <1>3, ConcatProperties
<1>7. m \o <<>> = m
  BY <1>2, ConcatEmptySeq
<1> DEFINE o == <<Zero>>
<1>8. o \in Seq(S) /\ Zeros(n + 1) = z \o o
  BY <1>1, <1>5
<1> HIDE DEF o
<1>9. (m \o z) \o o = m \o (z \o o)
  <2>1. Regroups(m, z, o)
    BY <1>2, <1>3, <1>8, ConcatRegroups
  <2>2. QED
    BY <2>1 DEF Regroups
<1>10. Marked(d, n) = m \o z /\ Marked(d, 0) = m \o Zeros(0) /\ Marked(d, n + 1) = m \o Zeros(n + 1)
  BY DEF Marked, m, z
<1>11. Marked(d, n + 1) = Marked(d, n) \o o
  BY <1>8, <1>9, <1>10
<1>12. Marked(d, 0) = m
  BY <1>4, <1>7, <1>10
<1>13. QED
  BY <1>2, <1>3, <1>6, <1>10, <1>11, <1>12 DEF m, o

\* The padded message is what has the mark, the zeros and the count behind it.
LEMMA PaddedIs ==
    ASSUME NEW S, Zero \in S, One \in S, NEW d \in Seq(S), Tally(Len(d)) \in S
    PROVE  Padded(d) = Blocks(Marked(d, ZerosFor(Len(d))) \o Counting(Len(d)))
<1> DEFINE m == Len(d)
           z == ZerosFor(m)
           k == CountSize - 1
           p == Marked(d, z)
           a == Zeros(k)
           c == <<Tally(m)>>
<1>1. m \in Nat /\ z \in Nat /\ k \in Nat
  <2>1. m \in Nat
    BY LenProperties
  <2>2. QED
    BY <2>1, ZerosMissing, Sizes
<1>2. p \in Seq(S) /\ a \in Seq(S) /\ c \in Seq(S)
  <2>1. p \in Seq(S)
    <3> HIDE DEF z
    <3>1. QED
      BY <1>1, MarkedType
  <2>2. a \in Seq(S)
    <3> HIDE DEF k
    <3>1. QED
      BY <1>1, ZerosType
  <2>3. c \in Seq(S)
    <3> DEFINE x == Tally(m)
    <3>1. x \in S
      OBVIOUS
    <3> HIDE DEF x
    <3>2. <<x>> \in Seq(S)
      BY <3>1
    <3>3. QED
      BY <3>2 DEF x
  <2>4. QED
    BY <2>1, <2>2, <2>3
<1>3. Counting(m) = a \o c
  <2> HIDE DEF m
  <2>1. Tally(m) \in S
    BY DEF m
  <2>2. QED
    BY <1>1, <2>1, CountingType
<1>4. Padded(d) = Blocks((p \o a) \o c)
  BY DEF Padded, Marked, ZerosFor, Tally
<1> HIDE DEF p, a, c
<1>5. (p \o a) \o c = p \o (a \o c)
  <2>1. Regroups(p, a, c)
    BY <1>2, ConcatRegroups
  <2>2. QED
    BY <2>1 DEF Regroups
<1>6. QED
  BY <1>3, <1>4, <1>5 DEF p

\* The count of a context.
LEMMA HashedCount ==
    ASSUME NEW S, NEW d \in Seq(S), NEW ctx, Hashed(ctx, d)
    PROVE  CountOf(ctx) = Counting(Len(d))
<1>1. ctx.lo = Len(d) % Word /\ ctx.hi = Len(d) \div Word
  <2> DEFINE x == Len(d) % Word
             y == Len(d) \div Word
  <2>1. ctx = [lo |-> x, hi |-> y, buffer |-> ctx.buffer, blocks |-> Blocks(d)]
    BY DEF Hashed
  <2> HIDE DEF x, y
  <2>2. ctx.lo = x /\ ctx.hi = y
    BY <2>1
  <2>3. QED
    BY <2>2 DEF x, y
<1>2. QED
  BY <1>1 DEF CountOf, Counting, Tally

-----------------------------------------------------------------------------
(* The loops.                                                              *)

\* SHA1Final pads with one byte after the other.
LEMMA SHA1PadDef ==
    ASSUME NEW ctx
    PROVE  \E f : /\ f[0] = SHA1Update(ctx, <<One>>)
                  /\ SHA1Final(ctx) = SHA1Update(f[BlockSize], CountOf(ctx)).blocks
                  /\ \A i \in Nat : i + 1 <= BlockSize
                        => f[i + 1] = SHA1Pad(f[i])
<1> DEFINE R(f, n) == f = [i \in 0..n |-> IF i = 0 THEN SHA1Update(ctx, <<One>>)
                                          ELSE SHA1Pad(f[i - 1])]
           S == {n \in Nat : \E f : R(f, n)}
<1>1. 0 \in S
  <2> DEFINE f0 == [i \in 0..0 |-> SHA1Update(ctx, <<One>>)]
  <2>1. R(f0, 0)
    OBVIOUS
  <2>2. QED
    BY <2>1
<1>2. ASSUME NEW n \in Nat, n \in S PROVE n + 1 \in S
  <2>1. PICK f : R(f, n)
    BY <1>2
  <2> DEFINE g == [i \in 0..n + 1 |-> IF i = 0 THEN SHA1Update(ctx, <<One>>)
                                      ELSE SHA1Pad(f[i - 1])]
  <2>2. \A i \in 0..n : f[i] = IF i = 0 THEN SHA1Update(ctx, <<One>>)
                               ELSE SHA1Pad(f[i - 1])
    BY <2>1
  <2>3. \A i \in 0..n : g[i] = f[i]
    BY <2>2
  <2>4. ASSUME NEW i \in 0..n + 1, i # 0 PROVE g[i - 1] = f[i - 1]
    <3>1. i - 1 \in 0..n
      BY <1>2, <2>4
    <3>2. QED
      BY <2>3, <3>1
  <2>5. R(g, n + 1)
    BY <2>4
  <2>6. n + 1 \in Nat
    BY <1>2
  <2>7. QED
    BY <2>5, <2>6
<1>3. BlockSize \in Nat
  BY Sizes
<1>4. BlockSize \in S
  <2> HIDE DEF S
  <2>1. QED
    BY <1>1, <1>2, <1>3, Induction
<1> DEFINE F == CHOOSE f : R(f, BlockSize)
<1>5. R(F, BlockSize)
  BY <1>4
<1>6. SHA1Final(ctx) = SHA1Update(F[BlockSize], CountOf(ctx)).blocks
  BY DEF SHA1Final
<1> HIDE DEF F
<1>7. \A i \in 0..BlockSize : F[i] = IF i = 0 THEN SHA1Update(ctx, <<One>>)
                                  ELSE SHA1Pad(F[i - 1])
  BY <1>5
<1>8. F[0] = SHA1Update(ctx, <<One>>)
  <2>1. 0 \in 0..BlockSize
    BY <1>3
  <2>2. QED
    BY <1>7, <2>1
<1>9. ASSUME NEW i \in Nat, i + 1 <= BlockSize
      PROVE  F[i + 1] = SHA1Pad(F[i])
  <2> DEFINE j == i + 1
  <2>1. j \in 0..BlockSize /\ j # 0 /\ j - 1 = i
    BY <1>3, <1>9
  <2> HIDE DEF j
  <2>2. F[j] = SHA1Pad(F[j - 1])
    BY <1>7, <2>1
  <2>3. QED
    BY <2>1, <2>2 DEF j
<1>10. QED
  BY <1>6, <1>8, <1>9

\* MD5 takes one part after the other.
LEMMA MD5PartsDef ==
    ASSUME NEW S, NEW parts \in Seq(Seq(S))
    PROVE  \E f : /\ f[0] = DigestInit
                  /\ MD5Parts(parts) = MD5Final(f[Len(parts)])
                  /\ \A i \in Nat : i + 1 <= Len(parts)
                        => f[i + 1] = MD5Update(f[i], parts[i + 1])
<1> DEFINE R(f, n) == f = [i \in 0..n |-> IF i = 0 THEN DigestInit
                                          ELSE MD5Update(f[i - 1], parts[i])]
           T == {n \in Nat : \E f : R(f, n)}
<1>1. 0 \in T
  <2> DEFINE f0 == [i \in 0..0 |-> DigestInit]
  <2>1. R(f0, 0)
    OBVIOUS
  <2>2. QED
    BY <2>1
<1>2. ASSUME NEW n \in Nat, n \in T PROVE n + 1 \in T
  <2>1. PICK f : R(f, n)
    BY <1>2
  <2> DEFINE g == [i \in 0..n + 1 |-> IF i = 0 THEN DigestInit
                                      ELSE MD5Update(f[i - 1], parts[i])]
  <2>2. \A i \in 0..n : f[i] = IF i = 0 THEN DigestInit
                               ELSE MD5Update(f[i - 1], parts[i])
    BY <2>1
  <2>3. \A i \in 0..n : g[i] = f[i]
    BY <2>2
  <2>4. ASSUME NEW i \in 0..n + 1, i # 0 PROVE g[i - 1] = f[i - 1]
    <3>1. i - 1 \in 0..n
      BY <1>2, <2>4
    <3>2. QED
      BY <2>3, <3>1
  <2>5. R(g, n + 1)
    BY <2>4
  <2>6. n + 1 \in Nat
    BY <1>2
  <2>7. QED
    BY <2>5, <2>6
<1>3. Len(parts) \in Nat
  BY LenProperties
<1>4. Len(parts) \in T
  <2> HIDE DEF T
  <2>1. QED
    BY <1>1, <1>2, <1>3, Induction
<1> DEFINE F == CHOOSE f : R(f, Len(parts))
<1>5. R(F, Len(parts))
  BY <1>4
<1>6. MD5Parts(parts) = MD5Final(F[Len(parts)])
  BY DEF MD5Parts
<1> HIDE DEF F
<1>7. \A i \in 0..Len(parts) : F[i] = IF i = 0 THEN DigestInit
                                  ELSE MD5Update(F[i - 1], parts[i])
  BY <1>5
<1>8. F[0] = DigestInit
  <2>1. 0 \in 0..Len(parts)
    BY <1>3
  <2>2. QED
    BY <1>7, <2>1
<1>9. ASSUME NEW i \in Nat, i + 1 <= Len(parts)
      PROVE  F[i + 1] = MD5Update(F[i], parts[i + 1])
  <2> DEFINE j == i + 1
  <2>1. j \in 0..Len(parts) /\ j # 0 /\ j - 1 = i
    BY <1>3, <1>9
  <2> HIDE DEF j
  <2>2. F[j] = MD5Update(F[j - 1], parts[j])
    BY <1>7, <2>1
  <2>3. QED
    BY <2>1, <2>2 DEF j
<1>10. QED
  BY <1>6, <1>8, <1>9

\* SHA1 takes one part after the other.
LEMMA SHA1PartsDef ==
    ASSUME NEW S, NEW parts \in Seq(Seq(S))
    PROVE  \E f : /\ f[0] = DigestInit
                  /\ SHA1Parts(parts) = SHA1Final(f[Len(parts)])
                  /\ \A i \in Nat : i + 1 <= Len(parts)
                        => f[i + 1] = SHA1Update(f[i], parts[i + 1])
<1> DEFINE R(f, n) == f = [i \in 0..n |-> IF i = 0 THEN DigestInit
                                          ELSE SHA1Update(f[i - 1], parts[i])]
           T == {n \in Nat : \E f : R(f, n)}
<1>1. 0 \in T
  <2> DEFINE f0 == [i \in 0..0 |-> DigestInit]
  <2>1. R(f0, 0)
    OBVIOUS
  <2>2. QED
    BY <2>1
<1>2. ASSUME NEW n \in Nat, n \in T PROVE n + 1 \in T
  <2>1. PICK f : R(f, n)
    BY <1>2
  <2> DEFINE g == [i \in 0..n + 1 |-> IF i = 0 THEN DigestInit
                                      ELSE SHA1Update(f[i - 1], parts[i])]
  <2>2. \A i \in 0..n : f[i] = IF i = 0 THEN DigestInit
                               ELSE SHA1Update(f[i - 1], parts[i])
    BY <2>1
  <2>3. \A i \in 0..n : g[i] = f[i]
    BY <2>2
  <2>4. ASSUME NEW i \in 0..n + 1, i # 0 PROVE g[i - 1] = f[i - 1]
    <3>1. i - 1 \in 0..n
      BY <1>2, <2>4
    <3>2. QED
      BY <2>3, <3>1
  <2>5. R(g, n + 1)
    BY <2>4
  <2>6. n + 1 \in Nat
    BY <1>2
  <2>7. QED
    BY <2>5, <2>6
<1>3. Len(parts) \in Nat
  BY LenProperties
<1>4. Len(parts) \in T
  <2> HIDE DEF T
  <2>1. QED
    BY <1>1, <1>2, <1>3, Induction
<1> DEFINE F == CHOOSE f : R(f, Len(parts))
<1>5. R(F, Len(parts))
  BY <1>4
<1>6. SHA1Parts(parts) = SHA1Final(F[Len(parts)])
  BY DEF SHA1Parts
<1> HIDE DEF F
<1>7. \A i \in 0..Len(parts) : F[i] = IF i = 0 THEN DigestInit
                                  ELSE SHA1Update(F[i - 1], parts[i])
  BY <1>5
<1>8. F[0] = DigestInit
  <2>1. 0 \in 0..Len(parts)
    BY <1>3
  <2>2. QED
    BY <1>7, <2>1
<1>9. ASSUME NEW i \in Nat, i + 1 <= Len(parts)
      PROVE  F[i + 1] = SHA1Update(F[i], parts[i + 1])
  <2> DEFINE j == i + 1
  <2>1. j \in 0..Len(parts) /\ j # 0 /\ j - 1 = i
    BY <1>3, <1>9
  <2> HIDE DEF j
  <2>2. F[j] = SHA1Update(F[j - 1], parts[j])
    BY <1>7, <2>1
  <2>3. QED
    BY <2>1, <2>2 DEF j
<1>10. QED
  BY <1>6, <1>8, <1>9

\* SumOf adds one length after the other.
LEMMA SumOfDef ==
    ASSUME NEW lengths \in Seq(Nat)
    PROVE  \E f : /\ f[0] = 0
                  /\ SumOf(lengths) = f[Len(lengths)]
                  /\ \A i \in Nat : i + 1 <= Len(lengths)
                        => f[i + 1] = f[i] + lengths[i + 1]
<1> DEFINE R(f, n) == f = [i \in 0..n |-> IF i = 0 THEN 0
                                          ELSE f[i - 1] + lengths[i]]
           S == {n \in Nat : \E f : R(f, n)}
<1>1. 0 \in S
  <2> DEFINE f0 == [i \in 0..0 |-> 0]
  <2>1. R(f0, 0)
    OBVIOUS
  <2>2. QED
    BY <2>1
<1>2. ASSUME NEW n \in Nat, n \in S PROVE n + 1 \in S
  <2>1. PICK f : R(f, n)
    BY <1>2
  <2> DEFINE g == [i \in 0..n + 1 |-> IF i = 0 THEN 0
                                      ELSE f[i - 1] + lengths[i]]
  <2>2. \A i \in 0..n : f[i] = IF i = 0 THEN 0
                               ELSE f[i - 1] + lengths[i]
    BY <2>1
  <2>3. \A i \in 0..n : g[i] = f[i]
    BY <2>2
  <2>4. ASSUME NEW i \in 0..n + 1, i # 0 PROVE g[i - 1] = f[i - 1]
    <3>1. i - 1 \in 0..n
      BY <1>2, <2>4
    <3>2. QED
      BY <2>3, <3>1
  <2>5. R(g, n + 1)
    BY <2>4
  <2>6. n + 1 \in Nat
    BY <1>2
  <2>7. QED
    BY <2>5, <2>6
<1>3. Len(lengths) \in Nat
  BY LenProperties
<1>4. Len(lengths) \in S
  <2> HIDE DEF S
  <2>1. QED
    BY <1>1, <1>2, <1>3, Induction
<1> DEFINE F == CHOOSE f : R(f, Len(lengths))
<1>5. R(F, Len(lengths))
  BY <1>4
<1>6. SumOf(lengths) = F[Len(lengths)]
  BY DEF SumOf
<1> HIDE DEF F
<1>7. \A i \in 0..Len(lengths) : F[i] = IF i = 0 THEN 0
                                  ELSE F[i - 1] + lengths[i]
  BY <1>5
<1>8. F[0] = 0
  <2>1. 0 \in 0..Len(lengths)
    BY <1>3
  <2>2. QED
    BY <1>7, <2>1
<1>9. ASSUME NEW i \in Nat, i + 1 <= Len(lengths)
      PROVE  F[i + 1] = F[i] + lengths[i + 1]
  <2> DEFINE j == i + 1
  <2>1. j \in 0..Len(lengths) /\ j # 0 /\ j - 1 = i
    BY <1>3, <1>9
  <2> HIDE DEF j
  <2>2. F[j] = F[j - 1] + lengths[j]
    BY <1>7, <2>1
  <2>3. QED
    BY <2>1, <2>2 DEF j
<1>10. QED
  BY <1>6, <1>8, <1>9

-----------------------------------------------------------------------------
(* The digests.                                                            *)

\* SHA1 ends with the blocks of the padded message.
LEMMA SHA1Ends ==
    ASSUME NEW S, Zero \in S, One \in S, NEW d \in Seq(S), Tally(Len(d)) \in S,
           NEW ctx, Hashed(ctx, d)
    PROVE  SHA1Final(ctx) = Padded(d)
<1> DEFINE m == Len(d)
           z == ZerosFor(m)
           c == Counting(m)
<1>1. /\ m \in Nat /\ z \in Nat /\ z < BlockSize /\ BlockSize \in Nat \ {0}
      /\ CountSize \in 1..(BlockSize - 1)
  <2>1. m \in Nat
    BY LenProperties
  <2>2. QED
    BY <2>1, ZerosMissing, Sizes
<1>2. PICK f : /\ f[0] = SHA1Update(ctx, <<One>>)
               /\ SHA1Final(ctx) = SHA1Update(f[BlockSize], CountOf(ctx)).blocks
               /\ \A i \in Nat : i + 1 <= BlockSize => f[i + 1] = SHA1Pad(f[i])
  BY SHA1PadDef
<1> HIDE DEF m, z, c
<1>3. ASSUME NEW n \in Nat, n <= z, NEW x, Hashed(x, Marked(d, n))
      PROVE  x.lo % BlockSize = BlockSize - CountSize <=> n = z
  <2> DEFINE p == Marked(d, n)
  <2>1. p \in Seq(S) /\ Len(p) = m + 1 + n
    BY MarkedType DEF m
  <2>2. Hashed(x, p)
    BY <1>3
  <2> HIDE DEF p
  <2>3. x.lo % BlockSize = Len(Left(p)) /\ Len(Left(p)) = Len(p) % BlockSize
    BY <2>1, <2>2, HashedSays
  <2>4. (m + 1 + n) % BlockSize = BlockSize - CountSize <=> n = z
    BY <1>1, <1>3, ZerosEnd DEF z
  <2>5. QED
    BY <2>1, <2>3, <2>4
<1> DEFINE T == {n \in Nat : n <= BlockSize
                    => \E k \in Nat : /\ k = (IF n <= z THEN n ELSE z)
                                      /\ Hashed(f[n], Marked(d, k))}
<1>4. 0 \in T
  <2> DEFINE o == <<One>>
  <2>1. o \in Seq(S)
    OBVIOUS
  <2> HIDE DEF o
  <2>2. Hashed(SHA1Update(ctx, o), d \o o)
    BY <2>1, SHA1Grows
  <2>3. Hashed(f[0], Marked(d, 0))
    BY <1>2, <2>2, MarkedType DEF o
  <2>4. QED
    BY <1>1, <2>3
<1>5. ASSUME NEW n \in Nat, n \in T PROVE n + 1 \in T
  <2> SUFFICES ASSUME n + 1 <= BlockSize
               PROVE  \E k \in Nat : /\ k = (IF n + 1 <= z THEN n + 1 ELSE z)
                                     /\ Hashed(f[n + 1], Marked(d, k))
    BY <1>5
  <2>1. PICK k \in Nat : k = (IF n <= z THEN n ELSE z) /\ Hashed(f[n], Marked(d, k))
    BY <1>1, <1>5
  <2> DEFINE x == f[n]
             p == Marked(d, k)
             o == <<Zero>>
  <2>2. k <= z /\ Hashed(x, p)
    BY <1>1, <1>5, <2>1
  <2>3. f[n + 1] = SHA1Pad(x)
    BY <1>2, <1>5
  <2>4. p \in Seq(S) /\ Marked(d, k + 1) = p \o o /\ o \in Seq(S)
    BY MarkedType
  <2> HIDE DEF x, o
  <2>5. x.lo % BlockSize = BlockSize - CountSize <=> k = z
    BY <1>3, <2>2
  <2>6. CASE k = z
    <3>1. f[n + 1] = x
      BY <2>3, <2>5, <2>6 DEF SHA1Pad
    <3>2. k = IF n + 1 <= z THEN n + 1 ELSE z
      <4>1. z <= n
        BY <1>1, <1>5, <2>1, <2>6
      <4>2. QED
        BY <1>1, <1>5, <2>6, <4>1
    <3>3. QED
      BY <2>2, <3>1, <3>2
  <2>7. CASE k # z
    <3>1. f[n + 1] = SHA1Update(x, o)
      BY <2>3, <2>5, <2>7 DEF SHA1Pad, o
    <3> HIDE DEF p
    <3>2. Hashed(SHA1Update(x, o), p \o o)
      BY <2>2, <2>4, SHA1Grows
    <3>3. k + 1 = (IF n + 1 <= z THEN n + 1 ELSE z) /\ k + 1 \in Nat
      BY <1>1, <1>5, <2>1, <2>7
    <3>4. QED
      BY <2>4, <3>1, <3>2, <3>3
  <2>8. QED
    BY <2>6, <2>7
<1>6. Hashed(f[BlockSize], Marked(d, z))
  <2>1. BlockSize \in T
    <3> HIDE DEF T
    <3>1. QED
      BY <1>1, <1>4, <1>5, Induction
  <2>2. QED
    BY <1>1, <2>1
<1> DEFINE x == f[BlockSize]
           p == Marked(d, z)
<1>7. p \in Seq(S)
  BY <1>1, MarkedType
<1>8. c \in Seq(S) /\ CountOf(ctx) = c
  <2>1. Tally(m) \in S
    BY DEF m
  <2>2. CountOf(ctx) = Counting(Len(d))
    BY HashedCount
  <2>3. QED
    BY <1>1, <2>1, <2>2, CountingType DEF c, m
<1>9. Hashed(x, p)
  BY <1>6
<1>10. SHA1Final(ctx) = SHA1Update(x, c).blocks
  BY <1>2, <1>8
<1> HIDE DEF x, p
<1>11. Hashed(SHA1Update(x, c), p \o c)
  BY <1>7, <1>8, <1>9, SHA1Grows
<1>12. SHA1Update(x, c).blocks = Blocks(p \o c)
  <2> DEFINE y == SHA1Update(x, c)
             q == p \o c
  <2>1. q \in Seq(S) /\ Hashed(y, q)
    BY <1>7, <1>8, <1>11, ConcatProperties
  <2> HIDE DEF y, q
  <2>2. y.blocks = Blocks(q)
    BY <2>1, HashedSays
  <2>3. QED
    BY <2>2 DEF y, q
<1>13. Padded(d) = Blocks(p \o c)
  BY PaddedIs DEF p, c, z, m
<1>14. QED
  BY <1>10, <1>12, <1>13

\* So does MD5.
LEMMA MD5Ends ==
    ASSUME NEW S, Zero \in S, One \in S, NEW d \in Seq(S), Tally(Len(d)) \in S,
           NEW ctx, Hashed(ctx, d)
    PROVE  MD5Final(ctx) = Padded(d)
<1> DEFINE B == BlockSize
           C == CountSize
           m == Len(d)
           l == Left(d)
           u == Len(l)
           z == ZerosFor(m)
           c == Counting(m)
           o == <<One>>
           h == l \o o
           marked == Copy(ctx.buffer, u, o)
           P == Blocks(d)
<1>1. /\ m \in Nat /\ z \in Nat /\ B \in Nat \ {0} /\ C \in 1..(B - 1)
      /\ l \in Seq(S) /\ u \in Nat /\ u < B /\ u = m % B /\ P \in Seq(Seq(S))
  <2>1. m \in Nat /\ B \in Nat \ {0} /\ C \in 1..(B - 1)
    BY LenProperties, Sizes
  <2>2. m % B \in Nat /\ m % B < B
    BY <2>1, Divides
  <2>3. l \in Seq(S) /\ u = m % B /\ P \in Seq(Seq(S))
    BY BlocksType
  <2>4. z \in Nat
    BY <2>1, ZerosMissing
  <2>5. QED
    BY <2>1, <2>2, <2>3, <2>4
<1>2. ctx.lo % B = u /\ ctx.blocks = P /\ Holds(ctx.buffer, l)
  <2>1. ctx.lo % B = u /\ ctx.blocks = P
    BY HashedSays
  <2>2. QED
    BY <2>1 DEF Hashed
<1>3. CountOf(ctx) = c
  BY HashedCount
<1>4. o \in Seq(S) /\ Len(o) = 1
  OBVIOUS
<1>5. c \in Seq(S) /\ Len(c) = C
  <2>1. Tally(m) \in S
    OBVIOUS
  <2> HIDE DEF m
  <2>2. QED
    BY <1>1, <2>1, CountingType
<1>6. Padded(d) = Blocks(((d \o o) \o Zeros(z)) \o c)
  BY PaddedIs DEF Marked
<1>7. MD5Final(ctx) =
         LET avail  == B - (u + 1)
             filled == Copy(marked, u + 1, Zeros(avail))
             start  == IF avail < C THEN 0 ELSE u + 1
             last   == Copy(Copy(marked, start, Zeros(B - C - start)), B - C, c)
         IN  P \o (IF avail < C THEN <<filled>> ELSE <<>>) \o <<last>>
  <2>1. (ctx.lo % B) + 1 = u + 1 /\ (u + 1) - 1 = u
    BY <1>1, <1>2
  <2> DEFINE used == (ctx.lo % BlockSize) + 1
  <2>2. MD5Final(ctx) =
           LET avail  == BlockSize - used
               filled == Copy(Copy(ctx.buffer, used - 1, <<One>>), used, Zeros(avail))
               start  == IF avail < CountSize THEN 0 ELSE used
               last   == Copy(Copy(Copy(ctx.buffer, used - 1, <<One>>), start,
                                   Zeros(BlockSize - CountSize - start)),
                              BlockSize - CountSize, CountOf(ctx))
           IN  ctx.blocks \o (IF avail < CountSize THEN <<filled>> ELSE <<>>) \o <<last>>
    BY DEF MD5Final
  <2>3. used = u + 1 /\ used - 1 = u
    BY <2>1
  <2> HIDE DEF used, u, P, c
  <2>4. QED
    BY <1>2, <1>3, <2>2, <2>3
<1> HIDE DEF B, C, m, l, u, z, c, o
<1>8. h \in Seq(S) /\ Len(h) = u + 1 /\ Holds(marked, h)
  <2>1. h \in Seq(S) /\ Len(h) = u + 1
    <3>1. h \in Seq(S) /\ Len(h) = Len(l) + Len(o)
      BY <1>1, <1>4, ConcatProperties
    <3> HIDE DEF h
    <3>2. QED
      BY <1>1, <1>4, <3>1 DEF u
  <2>2. Len(l) + Len(o) <= BlockSize
    BY <1>1, <1>4 DEF u, B
  <2>3. Holds(Copy(ctx.buffer, Len(l), o), l \o o)
    BY <1>1, <1>2, <1>4, <2>2, CopyHolds
  <2>4. QED
    BY <2>1, <2>3 DEF u
<1> HIDE DEF h, marked, P
<1>9. CASE u + 1 + C <= B
  <2> DEFINE a == (o \o Zeros(z)) \o c
             x == Copy(marked, u + 1, Zeros(z))
             w == h \o Zeros(z)
  <2>1. z = B - C - (u + 1) /\ z + (u + 1) = B - C
    <3>1. z = BlockSize - CountSize - 1 - u
      BY <1>1, <1>9, ZerosMissing DEF z, B, C
    <3>2. QED
      BY <1>1, <3>1 DEF B, C
  <2>2. MD5Final(ctx) = P \o <<>> \o <<Copy(x, B - C, c)>>
    <3>1. ~(B - (u + 1) < C)
      BY <1>1, <1>9
    <3>2. QED
      BY <1>7, <2>1, <3>1
  <2>3. Zeros(z) \in Seq(S) /\ Len(Zeros(z)) = z
    BY <1>1, ZerosType
  <2> DEFINE k == Zeros(z)
  <2> HIDE DEF k
  <2>4. k \in Seq(S) /\ Len(k) = z
    BY <2>3 DEF k
  <2>5. Holds(Copy(marked, Len(h), k), h \o k) /\ h \o k \in Seq(S) /\ Len(h \o k) = B - C
    <3>1. Len(h) + Len(k) <= BlockSize
      BY <1>1, <1>8, <2>1, <2>4 DEF B, C
    <3>2. Holds(Copy(marked, Len(h), k), h \o k)
      BY <1>8, <2>4, <3>1, CopyHolds
    <3>3. h \o k \in Seq(S) /\ Len(h \o k) = Len(h) + Len(k)
      BY <1>8, <2>4, ConcatProperties
    <3>4. QED
      BY <1>1, <1>8, <2>1, <2>4, <3>2, <3>3
  <2>6. Holds(x, w) /\ w \in Seq(S) /\ Len(w) = B - C
    BY <1>8, <2>5 DEF k
  <2> HIDE DEF x, w
  <2>7. Copy(x, B - C, c) = w \o c
    <3>1. Len(w) + Len(c) = BlockSize /\ Len(w) + Len(c) <= BlockSize
      BY <1>1, <1>5, <2>6 DEF B, C
    <3>2. Copy(x, Len(w), c) = w \o c
      BY <1>5, <2>6, <3>1, CopyHolds
    <3>3. QED
      BY <2>6, <3>2
  <2>8. w \o c = l \o a /\ ((d \o o) \o Zeros(z)) \o c = d \o a /\ a \in Seq(S)
    <3>1. Chains(l, o, k, c) /\ Chains(d, o, k, c) /\ (o \o k) \o c \in Seq(S)
      BY <1>1, <1>4, <1>5, <2>4, ConcatChains
    <3>2. QED
      BY <3>1 DEF Chains, h, w, k
  <2> HIDE DEF a
  <2>9. Len(l) + Len(a) = BlockSize
    <3>1. Len(w \o c) = Len(w) + Len(c)
      BY <1>5, <2>6, ConcatProperties
    <3>2. Len(l \o a) = Len(l) + Len(a)
      BY <1>1, <2>8, ConcatProperties
    <3>3. Len(w) + Len(c) = BlockSize
      BY <1>1, <1>5, <2>6 DEF B, C
    <3>4. QED
      BY <2>8, <3>1, <3>2, <3>3
  <2>10. Blocks(d \o a) = P \o <<l \o a>>
    <3> DEFINE e == <<>>
    <3>1. e \in Seq(S) /\ a \o e = a /\ Blocks(e) = <<>>
      <4>1. e \in Seq(S) /\ Len(e) < BlockSize
        BY <1>1, EmptySeq DEF B
      <4>2. a \o e = a
        BY <2>8, ConcatEmptySeq
      <4> HIDE DEF e
      <4>3. Blocks(e) = e
        BY <4>1, BlocksNone DEF e
      <4>4. QED
        BY <4>1, <4>2, <4>3 DEF e
    <3> HIDE DEF e
    <3>2. Len(Left(d)) + Len(a) = BlockSize
      BY <2>9 DEF l
    <3>3. Completes(d, a, e)
      BY <2>8, <3>1, <3>2, FillsOne
    <3>4. Blocks(d \o a) = (P \o <<l \o a>>) \o <<>>
      BY <3>1, <3>3 DEF Completes, P, l
    <3>5. P \o <<l \o a>> \in Seq(Seq(S))
      <4> DEFINE y == <<l \o a>>
      <4>1. l \o a \in Seq(S)
        BY <1>1, <2>8, ConcatProperties
      <4>2. y \in Seq(Seq(S))
        BY <4>1
      <4> HIDE DEF y
      <4>3. P \o y \in Seq(Seq(S))
        BY <1>1, <4>2, ConcatProperties
      <4>4. QED
        BY <4>3 DEF y
    <3>6. QED
      BY <3>4, <3>5, ConcatEmptySeq
  <2>11. P \o <<>> = P
    BY <1>1, ConcatEmptySeq
  <2>12. QED
    BY <1>6, <2>2, <2>7, <2>8, <2>10, <2>11
<1>10. CASE ~(u + 1 + C <= B)
  <2> DEFINE v == B - (u + 1)
             s == B - C
             i == Zeros(v)
             j == Zeros(s)
             a == o \o i
             t == j \o c
             x == Copy(marked, 0, j)
  <2>1. v \in Nat /\ s \in Nat /\ z = v + s /\ v < C
    <3>1. z = (BlockSize - (u + 1)) + (BlockSize - CountSize)
      BY <1>1, <1>10, ZerosMissing DEF z, B, C
    <3>2. v \in Nat /\ s \in Nat /\ v < C
      BY <1>1, <1>10
    <3>3. QED
      BY <3>1, <3>2 DEF B, C
  <2>2. MD5Final(ctx) = P \o <<Copy(marked, u + 1, i)>> \o <<Copy(x, s, c)>>
    <3>1. B - (u + 1) < C /\ B - C - 0 = B - C
      BY <1>1, <2>1
    <3>2. QED
      BY <1>7, <3>1
  <2> HIDE DEF v, s
  <2>3. i \in Seq(S) /\ Len(i) = v /\ j \in Seq(S) /\ Len(j) = s
    BY <2>1, ZerosType
  <2>4. Zeros(z) = i \o j
    BY <2>1, ZerosJoin
  <2> HIDE DEF i, j
  <2>5. Copy(marked, u + 1, i) = l \o a
    <3>1. Len(h) + Len(i) = BlockSize /\ Len(h) + Len(i) <= BlockSize
      BY <1>1, <1>8, <2>3 DEF B, v
    <3>2. Copy(marked, Len(h), i) = h \o i
      BY <1>8, <2>3, <3>1, CopyHolds
    <3>3. Regroups(l, o, i)
      BY <1>1, <1>4, <2>3, ConcatRegroups
    <3>4. QED
      BY <1>8, <3>2, <3>3 DEF Regroups, h
  <2>6. Copy(x, s, c) = t
    <3>1. Len(j) <= BlockSize
      BY <1>1, <2>3 DEF s, B, C
    <3>2. Holds(x, j)
      BY <2>3, <3>1, CopyFirst
    <3>3. Len(j) + Len(c) = BlockSize /\ Len(j) + Len(c) <= BlockSize
      BY <1>1, <1>5, <2>3 DEF s, B, C
    <3> HIDE DEF x
    <3>4. Copy(x, Len(j), c) = j \o c
      BY <1>5, <2>3, <3>2, <3>3, CopyHolds
    <3>5. QED
      BY <2>3, <3>4
  <2>7. a \in Seq(S) /\ Len(a) = v + 1 /\ t \in Seq(S) /\ Len(t) = BlockSize
    <3>1. a \in Seq(S) /\ Len(a) = Len(o) + Len(i)
      BY <1>4, <2>3, ConcatProperties
    <3>2. t \in Seq(S) /\ Len(t) = Len(j) + Len(c)
      BY <1>5, <2>3, ConcatProperties
    <3>3. QED
      BY <1>1, <1>4, <1>5, <2>1, <2>3, <3>1, <3>2 DEF s, B, C
  <2>8. ((d \o o) \o Zeros(z)) \o c = d \o (a \o t)
    <3> DEFINE y == i \o j
    <3>1. y \in Seq(S)
      BY <2>3, ConcatProperties
    <3>2. Regroups(o, i, j)
      BY <1>4, <2>3, ConcatRegroups
    <3>3. a \o j = o \o y
      BY <3>2 DEF Regroups
    <3> HIDE DEF y, a
    <3>4. Chains(d, o, y, c)
      BY <1>4, <1>5, <3>1, ConcatChains
    <3>5. Regroups(a, j, c)
      BY <1>5, <2>3, <2>7, ConcatRegroups
    <3>6. ((d \o o) \o y) \o c = d \o ((a \o j) \o c)
      BY <3>3, <3>4 DEF Chains
    <3>7. (a \o j) \o c = a \o t
      BY <3>5 DEF Regroups
    <3>8. QED
      BY <2>4, <3>6, <3>7 DEF y
  <2> HIDE DEF a, t, x
  <2>9. Blocks(d \o (a \o t)) = P \o <<l \o a>> \o <<t>>
    <3>1. Len(Left(d)) + Len(a) = BlockSize
      BY <1>1, <2>7 DEF u, l, v, B
    <3>2. Completes(d, a, t)
      BY <2>7, <3>1, FillsOne
    <3>3. Blocks(t) = <<t>>
      BY <2>7, BlocksOne
    <3>4. QED
      BY <3>2, <3>3 DEF Completes, P, l
  <2>10. QED
    BY <1>6, <2>2, <2>5, <2>6, <2>8, <2>9
<1>11. QED
  BY <1>9, <1>10

-----------------------------------------------------------------------------
(* Parts.                                                                  *)

\* What the padding is made of.
Marks(S) == Zero \in S /\ One \in S /\ \A m \in Nat : Tally(m) \in S

\* J[i] is what the first i parts are together.
Joins(J, parts) ==
    J[0] = <<>> /\ \A i \in Nat : i + 1 <= Len(parts) => J[i + 1] = J[i] \o parts[i + 1]

\* They are sequences.
LEMMA JoinsType ==
    ASSUME NEW S, NEW parts \in Seq(Seq(S)), NEW J, Joins(J, parts)
    PROVE  \A i \in Nat : i <= Len(parts) => J[i] \in Seq(S)
<1> DEFINE T == {i \in Nat : i <= Len(parts) => J[i] \in Seq(S)}
<1>1. Len(parts) \in Nat /\ \A i \in 1..Len(parts) : parts[i] \in Seq(S)
  BY LenProperties
<1>2. 0 \in T
  BY EmptySeq DEF Joins
<1>3. ASSUME NEW i \in Nat, i \in T PROVE i + 1 \in T
  <2> SUFFICES ASSUME i + 1 <= Len(parts) PROVE J[i + 1] \in Seq(S)
    BY <1>3
  <2> DEFINE p == parts[i + 1]
             x == J[i]
  <2>1. x \in Seq(S) /\ p \in Seq(S)
    BY <1>1, <1>3
  <2>2. J[i + 1] = x \o p
    BY <1>3 DEF Joins
  <2> HIDE DEF x, p
  <2>3. QED
    BY <2>1, <2>2, ConcatProperties
<1> HIDE DEF T
<1>4. \A i \in Nat : i \in T
  BY <1>2, <1>3, Induction
<1>5. QED
  BY <1>4 DEF T

\* Whatever the parts, a digest is that of the parts together.
LEMMA SHA1OfParts ==
    ASSUME NEW S, Marks(S), NEW parts \in Seq(Seq(S)), NEW J, Joins(J, parts)
    PROVE  SHA1Parts(parts) = Padded(J[Len(parts)])
<1> DEFINE n == Len(parts)
<1>1. n \in Nat /\ \A i \in 1..n : parts[i] \in Seq(S)
  BY LenProperties
<1>2. \A i \in Nat : i <= n => J[i] \in Seq(S)
  BY JoinsType
<1>3. PICK f : /\ f[0] = DigestInit
               /\ SHA1Parts(parts) = SHA1Final(f[n])
               /\ \A i \in Nat : i + 1 <= n => f[i + 1] = SHA1Update(f[i], parts[i + 1])
  BY SHA1PartsDef
<1>4. J[0] = <<>> /\ \A i \in Nat : i + 1 <= n => J[i + 1] = J[i] \o parts[i + 1]
  BY DEF Joins
<1> HIDE DEF n
<1> DEFINE T == {i \in Nat : i <= n => Hashed(f[i], J[i])}
<1>5. 0 \in T
  BY <1>3, <1>4, HashedFirst
<1>6. ASSUME NEW i \in Nat, i \in T PROVE i + 1 \in T
  <2> SUFFICES ASSUME i + 1 <= n PROVE Hashed(f[i + 1], J[i + 1])
    BY <1>6
  <2> DEFINE p == parts[i + 1]
             x == J[i]
             c == f[i]
  <2>1. x \in Seq(S) /\ p \in Seq(S) /\ Hashed(c, x)
    BY <1>1, <1>2, <1>6
  <2>2. J[i + 1] = x \o p /\ f[i + 1] = SHA1Update(c, p)
    BY <1>3, <1>4, <1>6
  <2> HIDE DEF x, p, c
  <2>3. QED
    BY <2>1, <2>2, SHA1Grows
<1>7. Hashed(f[n], J[n]) /\ J[n] \in Seq(S)
  <2>1. n \in T
    <3> HIDE DEF T
    <3>1. QED
      BY <1>1, <1>5, <1>6, Induction
  <2>2. QED
    BY <1>1, <1>2, <2>1
<1> DEFINE d == J[n]
           c == f[n]
<1>8. SHA1Final(c) = Padded(d)
  <2>1. d \in Seq(S) /\ Hashed(c, d) /\ Len(d) \in Nat
    BY <1>7, LenProperties
  <2>2. Zero \in S /\ One \in S /\ Tally(Len(d)) \in S
    BY <2>1 DEF Marks
  <2> HIDE DEF c, d
  <2>3. QED
    BY <2>1, <2>2, SHA1Ends
<1>9. QED
  BY <1>3, <1>8 DEF n

\* So is one of MD5.
LEMMA MD5OfParts ==
    ASSUME NEW S, Marks(S), NEW parts \in Seq(Seq(S)), NEW J, Joins(J, parts)
    PROVE  MD5Parts(parts) = Padded(J[Len(parts)])
<1> DEFINE n == Len(parts)
<1>1. n \in Nat /\ \A i \in 1..n : parts[i] \in Seq(S)
  BY LenProperties
<1>2. \A i \in Nat : i <= n => J[i] \in Seq(S)
  BY JoinsType
<1>3. PICK f : /\ f[0] = DigestInit
               /\ MD5Parts(parts) = MD5Final(f[n])
               /\ \A i \in Nat : i + 1 <= n => f[i + 1] = MD5Update(f[i], parts[i + 1])
  BY MD5PartsDef
<1>4. J[0] = <<>> /\ \A i \in Nat : i + 1 <= n => J[i + 1] = J[i] \o parts[i + 1]
  BY DEF Joins
<1> HIDE DEF n
<1> DEFINE T == {i \in Nat : i <= n => Hashed(f[i], J[i])}
<1>5. 0 \in T
  BY <1>3, <1>4, HashedFirst
<1>6. ASSUME NEW i \in Nat, i \in T PROVE i + 1 \in T
  <2> SUFFICES ASSUME i + 1 <= n PROVE Hashed(f[i + 1], J[i + 1])
    BY <1>6
  <2> DEFINE p == parts[i + 1]
             x == J[i]
             c == f[i]
  <2>1. x \in Seq(S) /\ p \in Seq(S) /\ Hashed(c, x)
    BY <1>1, <1>2, <1>6
  <2>2. J[i + 1] = x \o p /\ f[i + 1] = MD5Update(c, p)
    BY <1>3, <1>4, <1>6
  <2> HIDE DEF x, p, c
  <2>3. QED
    BY <2>1, <2>2, MD5Grows
<1>7. Hashed(f[n], J[n]) /\ J[n] \in Seq(S)
  <2>1. n \in T
    <3> HIDE DEF T
    <3>1. QED
      BY <1>1, <1>5, <1>6, Induction
  <2>2. QED
    BY <1>1, <1>2, <2>1
<1> DEFINE d == J[n]
           c == f[n]
<1>8. MD5Final(c) = Padded(d)
  <2>1. d \in Seq(S) /\ Hashed(c, d) /\ Len(d) \in Nat
    BY <1>7, LenProperties
  <2>2. Zero \in S /\ One \in S /\ Tally(Len(d)) \in S
    BY <2>1 DEF Marks
  <2> HIDE DEF c, d
  <2>3. QED
    BY <2>1, <2>2, MD5Ends
<1>9. QED
  BY <1>3, <1>8 DEF n

\* Two parts in front of the others.
LEMMA JoinsBehind ==
    ASSUME NEW S, NEW a \in Seq(S), NEW b \in Seq(S), NEW parts \in Seq(Seq(S)),
           NEW J, Joins(J, parts), Marks(S)
    PROVE  SHA1Parts(<<a, b>> \o parts) = Padded((a \o b) \o J[Len(parts)])
<1> DEFINE n == Len(parts)
           c == a \o b
           e == <<a, b>>
           q == e \o parts
           K == [i \in Nat |-> IF i = 0 THEN <<>> ELSE IF i = 1 THEN a ELSE c \o J[i - 2]]
<1>1. n \in Nat /\ (\A i \in 1..n : parts[i] \in Seq(S)) /\ c \in Seq(S)
  BY LenProperties, ConcatProperties
<1>2. \A i \in Nat : i <= n => J[i] \in Seq(S)
  BY JoinsType
<1>3. J[0] = <<>> /\ \A i \in Nat : i + 1 <= n => J[i + 1] = J[i] \o parts[i + 1]
  BY DEF Joins
<1>4. e \in Seq(Seq(S)) /\ Len(e) = 2 /\ e[1] = a /\ e[2] = b
  OBVIOUS
<1> HIDE DEF e, n
<1>5. q \in Seq(Seq(S)) /\ Len(q) = 2 + n /\ q[1] = a /\ q[2] = b
      /\ \A i \in 1..n : q[i + 2] = parts[i]
  <2>1. /\ q \in Seq(Seq(S)) /\ Len(q) = Len(e) + Len(parts)
        /\ \A i \in 1..Len(e) + Len(parts) : q[i] = IF i <= Len(e) THEN e[i] ELSE parts[i - Len(e)]
    BY <1>4, ConcatProperties
  <2> HIDE DEF q
  <2>2. Len(q) = 2 + n /\ \A i \in 1..2 + n : q[i] = IF i <= 2 THEN e[i] ELSE parts[i - 2]
    BY <1>4, <2>1 DEF n
  <2>3. ASSUME NEW i \in 1..n PROVE q[i + 2] = parts[i]
    <3> DEFINE j == i + 2
    <3>1. j \in 1..2 + n /\ ~(j <= 2) /\ j - 2 = i
      BY <1>1
    <3> HIDE DEF j
    <3>2. q[j] = parts[j - 2]
      BY <2>2, <3>1
    <3>3. QED
      BY <3>1, <3>2 DEF j
  <2>4. q[1] = a /\ q[2] = b
    BY <1>1, <1>4, <2>2
  <2>5. QED
    BY <2>1, <2>2, <2>3, <2>4
<1> HIDE DEF q
<1>6. K[0] = <<>> /\ K[1] = a /\ \A i \in Nat : K[i + 2] = c \o J[i]
  <2>1. ASSUME NEW i \in Nat PROVE K[i + 2] = c \o J[i]
    <3> DEFINE j == i + 2
    <3>1. j \in Nat /\ j # 0 /\ j # 1 /\ j - 2 = i
      OBVIOUS
    <3> HIDE DEF j
    <3>2. K[j] = c \o J[j - 2]
      BY <3>1
    <3>3. QED
      BY <3>1, <3>2 DEF j
  <2>2. K[0] = <<>>
    OBVIOUS
  <2>3. K[1] = a
    <3>1. 1 \in Nat /\ 1 # 0
      OBVIOUS
    <3>2. QED
      BY <3>1
  <2> HIDE DEF K
  <2>4. QED
    BY <2>1, <2>2, <2>3
<1> HIDE DEF K
<1>7. Joins(K, q)
  <2>1. ASSUME NEW i \in Nat, i + 1 <= 2 + n PROVE K[i + 1] = K[i] \o q[i + 1]
    <3>1. CASE i = 0
      <4>1. <<>> \o a = a
        BY ConcatEmptySeq
      <4>2. i + 1 = 1
        BY <3>1
      <4>3. K[i + 1] = a /\ K[i] = <<>> /\ q[i + 1] = a
        BY <1>5, <1>6, <3>1, <4>2
      <4>4. QED
        BY <4>1, <4>3
    <3>2. CASE i = 1
      <4>1. c \o <<>> = c
        BY <1>1, ConcatEmptySeq
      <4>2. K[2] = c
        <5>1. K[0 + 2] = c \o J[0]
          BY <1>6
        <5>2. 0 + 2 = 2
          OBVIOUS
        <5>3. K[2] = c \o <<>>
          BY <1>3, <5>1, <5>2
        <5> HIDE DEF c
        <5>4. QED
          BY <4>1, <5>3
      <4>3. i + 1 = 2
        BY <3>2
      <4> HIDE DEF c
      <4>4. K[i + 1] = c /\ K[i] = a /\ q[i + 1] = b
        BY <1>5, <1>6, <3>2, <4>2, <4>3
      <4>5. QED
        BY <4>4 DEF c
    <3>3. CASE i # 0 /\ i # 1
      <4> DEFINE j == i - 2
                 p == parts[j + 1]
                 x == J[j]
      <4>1. j \in Nat /\ j + 2 = i /\ j + 1 + 2 = i + 1 /\ j + 1 \in 1..n /\ j + 1 <= n /\ j <= n
        BY <1>1, <2>1, <3>3
      <4> HIDE DEF j
      <4>2. K[i] = c \o x /\ x \in Seq(S)
        BY <1>2, <1>6, <4>1
      <4>3. K[i + 1] = c \o J[j + 1]
        <5> DEFINE k == j + 1
        <5>1. k \in Nat /\ k + 2 = i + 1
          BY <4>1
        <5> HIDE DEF k
        <5>2. K[k + 2] = c \o J[k]
          BY <1>6, <5>1
        <5>3. QED
          BY <5>1, <5>2 DEF k
      <4>4. J[j + 1] = x \o p /\ p \in Seq(S)
        BY <1>1, <1>3, <4>1
      <4>5. q[i + 1] = p
        <5> DEFINE k == j + 1
        <5>1. k \in 1..n /\ k + 2 = i + 1
          BY <4>1
        <5> HIDE DEF k
        <5>2. q[k + 2] = parts[k]
          BY <1>5, <5>1
        <5>3. QED
          BY <5>1, <5>2 DEF k
      <4> HIDE DEF x, p, c
      <4>6. Regroups(c, x, p)
        BY <1>1, <4>2, <4>4, ConcatRegroups
      <4>7. QED
        BY <4>2, <4>3, <4>4, <4>5, <4>6 DEF Regroups
    <3>4. QED
      BY <3>1, <3>2, <3>3
  <2>2. QED
    BY <1>5, <1>6, <2>1 DEF Joins
<1>8. SHA1Parts(q) = Padded(K[2 + n])
  <2>1. SHA1Parts(q) = Padded(K[Len(q)])
    BY <1>5, <1>7, SHA1OfParts
  <2>2. QED
    BY <1>5, <2>1
<1>9. K[2 + n] = c \o J[n]
  <2> HIDE DEF c
  <2>1. K[n + 2] = c \o J[n]
    BY <1>1, <1>6
  <2>2. n + 2 = 2 + n
    BY <1>1
  <2>3. QED
    BY <2>1, <2>2
<1>10. QED
  BY <1>8, <1>9 DEF q, e, n

\* A sum ends with its last length.
LEMMA SumOfAppend ==
    ASSUME NEW s \in Seq(Nat), NEW e \in Nat
    PROVE  SumOf(s) \in Nat /\ SumOf(Append(s, e)) = SumOf(s) + e
<1> DEFINE n == Len(s)
           t == Append(s, e)
<1>1. n \in Nat /\ \A i \in 1..n : s[i] \in Nat
  BY LenProperties
<1>2. t \in Seq(Nat) /\ Len(t) = n + 1 /\ t[n + 1] = e /\ \A i \in 1..n : t[i] = s[i]
  BY AppendProperties
<1>3. PICK f : /\ f[0] = 0 /\ SumOf(s) = f[n]
               /\ \A i \in Nat : i + 1 <= n => f[i + 1] = f[i] + s[i + 1]
  BY SumOfDef
<1> HIDE DEF t
<1>4. PICK g : /\ g[0] = 0 /\ SumOf(t) = g[Len(t)]
               /\ \A i \in Nat : i + 1 <= Len(t) => g[i + 1] = g[i] + t[i + 1]
  BY <1>2, SumOfDef, ZenonT(40)
<1> HIDE DEF n
<1> DEFINE T == {i \in Nat : i <= n => f[i] \in Nat /\ g[i] = f[i]}
<1>5. 0 \in T
  BY <1>3, <1>4
<1>6. ASSUME NEW i \in Nat, i \in T PROVE i + 1 \in T
  <2> SUFFICES ASSUME i + 1 <= n PROVE f[i + 1] \in Nat /\ g[i + 1] = f[i + 1]
    BY <1>6
  <2> DEFINE j == i + 1
  <2>1. i <= n /\ j \in 1..n /\ j <= n + 1
    BY <1>1, <1>6
  <2>2. f[i] \in Nat /\ g[i] = f[i]
    BY <1>6, <2>1
  <2>3. f[j] = f[i] + s[j]
    BY <1>3
  <2>4. g[j] = g[i] + t[j]
    BY <1>2, <1>4, <2>1
  <2>5. s[j] \in Nat /\ t[j] = s[j]
    BY <1>1, <1>2, <2>1
  <2> HIDE DEF j
  <2>6. f[j] \in Nat /\ g[j] = f[j]
    BY <2>2, <2>3, <2>4, <2>5
  <2>7. QED
    BY <2>6 DEF j
<1>7. n \in T
  <2> HIDE DEF T
  <2>1. QED
    BY <1>1, <1>5, <1>6, Induction
<1>8. f[n] \in Nat /\ g[n] = f[n]
  BY <1>1, <1>7
<1>9. g[n + 1] = g[n] + t[n + 1] /\ SumOf(t) = g[n + 1]
  BY <1>1, <1>2, <1>4
<1>10. QED
  BY <1>2, <1>3, <1>8, <1>9 DEF t

\* The sums of the first i lengths.
LEMMA SumsOfFirst ==
    ASSUME NEW s \in Seq(Nat)
    PROVE  /\ SumOf(SubSeq(s, 1, 0)) = 0 /\ SumOf(s) = SumOf(SubSeq(s, 1, Len(s)))
           /\ \A i \in Nat : i <= Len(s) => SumOf(SubSeq(s, 1, i)) \in Nat
           /\ \A i \in Nat : i + 1 <= Len(s)
                 => /\ s[i + 1] \in Nat
                    /\ SumOf(SubSeq(s, 1, i + 1)) = SumOf(SubSeq(s, 1, i)) + s[i + 1]
<1>1. Len(s) \in Nat
  BY LenProperties
<1>2. SumOf(SubSeq(s, 1, 0)) = 0
  <2> DEFINE z == SubSeq(s, 1, 0)
  <2>1. z \in Seq(Nat) /\ Len(z) = 0
    BY <1>1, FirstType
  <2> HIDE DEF z
  <2>2. SumOf(z) = 0
    BY <2>1, SumOfDef
  <2>3. QED
    BY <2>2 DEF z
<1>3. SumOf(s) = SumOf(SubSeq(s, 1, Len(s)))
  BY SubSeqFull
<1>4. ASSUME NEW i \in Nat, i <= Len(s) PROVE SumOf(SubSeq(s, 1, i)) \in Nat
  <2> DEFINE p == SubSeq(s, 1, i)
  <2>1. p \in Seq(Nat)
    BY <1>1, <1>4, FirstType
  <2> HIDE DEF p
  <2>2. SumOf(p) \in Nat
    BY <2>1, SumOfAppend
  <2>3. QED
    BY <2>2 DEF p
<1>5. ASSUME NEW i \in Nat, i + 1 <= Len(s)
      PROVE  /\ s[i + 1] \in Nat
             /\ SumOf(SubSeq(s, 1, i + 1)) = SumOf(SubSeq(s, 1, i)) + s[i + 1]
  <2> DEFINE p == SubSeq(s, 1, i)
             e == s[i + 1]
  <2>1. i \in 0..Len(s)
    BY <1>1, <1>5
  <2>2. p \in Seq(Nat) /\ e \in Nat /\ SubSeq(s, 1, i + 1) = Append(p, e)
    BY <1>5, <2>1, FirstType
  <2> HIDE DEF p, e
  <2>3. SumOf(Append(p, e)) = SumOf(p) + e
    BY <2>2, SumOfAppend
  <2>4. QED
    BY <2>2, <2>3 DEF p, e
<1>6. QED
  BY <1>2, <1>3, <1>4, <1>5

-----------------------------------------------------------------------------
(* The bytes of a message.                                                 *)

\* What messages, keys and padding are made of: no byte that nobody wrote.
Symbol == {<<"byte", k>> : k \in Nat} \cup {Zero, One} \cup {Tally(m) : m \in Nat}
          \cup {<<"secret", "0x5c">>, <<"secret", "0x36">>, <<"zero", "0x5c">>, <<"zero", "0x36">>}

\* Bytes are counted on from the first.
LEMMA BytesType ==
    ASSUME NEW n \in Nat, NEW m \in Nat
    PROVE  /\ Bytes(n, m) \in Seq({<<"byte", k>> : k \in Nat}) /\ Len(Bytes(n, m)) = m
           /\ \A i \in 1..m : Bytes(n, m)[i] = <<"byte", n + i>>
<1>1. \A i \in 1..m : n + i \in Nat
  OBVIOUS
<1>2. QED
  BY <1>1 DEF Bytes

\* The bytes from 0 on, and those behind them.
LEMMA BytesJoin ==
    ASSUME NEW n \in Nat, NEW m \in Nat
    PROVE  Bytes(0, n + m) = Bytes(0, n) \o Bytes(n, m)
<1> DEFINE a == Bytes(0, n)
           b == Bytes(n, m)
           c == Bytes(0, n + m)
           D == {<<"byte", k>> : k \in Nat}
<1>1. a \in Seq(D) /\ Len(a) = n /\ \A i \in 1..n : a[i] = <<"byte", 0 + i>>
  BY BytesType
<1>2. b \in Seq(D) /\ Len(b) = m /\ \A i \in 1..m : b[i] = <<"byte", n + i>>
  BY BytesType
<1>3. n + m \in Nat
  OBVIOUS
<1>4. c \in Seq(D) /\ Len(c) = n + m /\ \A i \in 1..(n + m) : c[i] = <<"byte", 0 + i>>
  BY <1>3, BytesType
<1> HIDE DEF a, b, c, D
<1>5. /\ a \o b \in Seq(D) /\ Len(a \o b) = Len(a) + Len(b)
      /\ \A i \in 1..Len(a) + Len(b) : (a \o b)[i] = IF i <= Len(a) THEN a[i] ELSE b[i - Len(a)]
  BY <1>1, <1>2, ConcatProperties
<1> DEFINE d == a \o b
<1> HIDE DEF d
<1>6. d \in Seq(D) /\ Len(d) = n + m
      /\ \A i \in 1..n + m : d[i] = IF i <= n THEN a[i] ELSE b[i - n]
  BY <1>1, <1>2, <1>5 DEF d
<1>7. ASSUME NEW i \in 1..(n + m) PROVE c[i] = d[i]
  <2>1. CASE i <= n
    <3>1. i \in 1..n
      BY <2>1
    <3>2. QED
      BY <1>1, <1>4, <1>6, <2>1, <3>1
  <2>2. CASE ~(i <= n)
    <3> DEFINE j == i - n
    <3>1. j \in 1..m /\ n + j = i /\ 0 + i = i
      BY <2>2
    <3> HIDE DEF j
    <3>2. b[j] = <<"byte", n + j>>
      BY <1>2, <3>1
    <3>3. d[i] = b[j]
      BY <1>6, <2>2 DEF j
    <3>4. c[i] = <<"byte", 0 + i>>
      BY <1>4
    <3>5. QED
      BY <3>1, <3>2, <3>3, <3>4
  <2>3. QED
    BY <2>1, <2>2
<1>8. c = d
  BY <1>4, <1>6, <1>7, SeqEqual
<1>9. QED
  BY <1>8 DEF a, b, c, d

\* Padding is.
LEMMA SymbolMarks == Marks(Symbol)
BY DEF Marks, Symbol

\* Bytes are.
LEMMA BytesAreSymbols ==
    ASSUME NEW n \in Nat, NEW m \in Nat
    PROVE  Bytes(n, m) \in Seq(Symbol) /\ Len(Bytes(n, m)) = m
<1> DEFINE b == Bytes(n, m)
           D == {<<"byte", k>> : k \in Nat}
<1>1. b \in Seq(D) /\ Len(b) = m
  BY BytesType
<1>2. D \subseteq Symbol
  BY DEF Symbol
<1> HIDE DEF b, D
<1>3. b \in [1..m -> D]
  BY <1>1
<1>4. b \in [1..m -> Symbol]
  BY <1>2, <1>3
<1>5. b \in Seq(Symbol)
  BY <1>4
<1>6. QED
  BY <1>1, <1>5 DEF b

\* None of them is a byte that nobody wrote.
LEMMA NoSymbolIsStale == \A x \in Symbol : Head(x) # Head(Stale)
<1>1. \A k \in Nat : Head(<<"byte", k>>) = "byte"
  OBVIOUS
<1>2. \A m \in Nat : Head(Tally(m)) = "count"
  BY DEF Tally
<1>3. Head(Zero) = "zero" /\ Head(One) = "0x80" /\ Head(Stale) = "stale"
  BY DEF Zero, One, Stale
<1>4. \A m \in {"0x5c", "0x36"} : Head(<<"secret", m>>) = "secret" /\ Head(<<"zero", m>>) = "zero"
  OBVIOUS
<1>5. QED
  BY <1>1, <1>2, <1>3, <1>4 DEF Symbol

\* The pieces together, one after the other, are the message.
LEMMA PiecesJoin ==
    ASSUME NEW lengths \in Seq(Nat)
    PROVE  /\ Pieces(lengths) \in Seq(Seq(Symbol)) /\ Len(Pieces(lengths)) = Len(lengths)
           /\ SumOf(lengths) \in Nat
           /\ \E J : /\ Joins(J, Pieces(lengths))
                     /\ J[Len(lengths)] = Bytes(0, SumOf(lengths))
<1> DEFINE n == Len(lengths)
           P == Pieces(lengths)
           A(i) == SumOf(SubSeq(lengths, 1, i))
           J == [i \in Nat |-> Bytes(0, A(i))]
<1>1. n \in Nat /\ DOMAIN lengths = 1..n
  BY LenProperties
<1>2. /\ A(0) = 0 /\ SumOf(lengths) = A(n)
      /\ \A i \in Nat : i <= n => A(i) \in Nat
      /\ \A i \in Nat : i + 1 <= n
            => lengths[i + 1] \in Nat /\ A(i + 1) = A(i) + lengths[i + 1]
  BY SumsOfFirst
<1>3. P = [i \in 1..n |-> Bytes(A(i - 1), lengths[i])]
  BY <1>1 DEF Pieces
<1>4. J[0] = Bytes(0, A(0)) /\ J[n] = Bytes(0, A(n)) /\ \A i \in Nat : J[i] = Bytes(0, A(i))
  BY <1>1
<1> HIDE DEF n, P, A, J
<1>5. ASSUME NEW i \in Nat, i + 1 <= n
      PROVE  /\ P[i + 1] = Bytes(A(i), lengths[i + 1]) /\ P[i + 1] \in Seq(Symbol)
             /\ J[i + 1] = J[i] \o P[i + 1]
  <2> DEFINE j == i + 1
             a == A(i)
             e == lengths[j]
  <2>1. i <= n /\ j \in 1..n /\ j \in Nat /\ j - 1 = i
    BY <1>1, <1>5
  <2>2. a \in Nat /\ e \in Nat /\ A(j) = a + e
    BY <1>2, <1>5, <2>1
  <2> HIDE DEF j
  <2>3. P[j] = Bytes(a, e)
    BY <1>3, <2>1
  <2>4. J[i] = Bytes(0, a) /\ J[j] = Bytes(0, a + e)
    BY <1>4, <2>1, <2>2
  <2> HIDE DEF a, e
  <2>5. Bytes(a, e) \in Seq(Symbol)
    BY <2>2, BytesAreSymbols
  <2>6. Bytes(0, a + e) = Bytes(0, a) \o Bytes(a, e)
    BY <2>2, BytesJoin
  <2>7. QED
    BY <2>3, <2>4, <2>5, <2>6 DEF a, e, j
<1>6. P \in Seq(Seq(Symbol)) /\ Len(P) = n
  <2>1. ASSUME NEW i \in 1..n PROVE P[i] \in Seq(Symbol)
    <3> DEFINE j == i - 1
    <3>1. j \in Nat /\ j + 1 = i /\ j + 1 <= n
      BY <1>1
    <3> HIDE DEF j
    <3>2. QED
      BY <1>5, <3>1
  <2>2. P \in [1..n -> Seq(Symbol)]
    BY <1>3, <2>1
  <2>3. QED
    BY <1>1, <2>2
<1>7. J[0] = <<>>
  <2>1. Bytes(0, 0) = <<>>
    <3> DEFINE b == Bytes(0, 0)
    <3>1. b \in Seq({<<"byte", k>> : k \in Nat}) /\ Len(b) = 0
      BY BytesType
    <3> HIDE DEF b
    <3>2. b = <<>>
      BY <3>1, EmptySeq
    <3>3. QED
      BY <3>2 DEF b
  <2>2. QED
    BY <1>2, <1>4, <2>1
<1>8. Joins(J, P)
  BY <1>5, <1>6, <1>7 DEF Joins
<1>9. J[n] = Bytes(0, SumOf(lengths)) /\ SumOf(lengths) \in Nat
  BY <1>1, <1>2, <1>4
<1>10. QED
  BY <1>6, <1>8, <1>9 DEF n, P

-----------------------------------------------------------------------------
(* The signature.                                                          *)

\* The key of a short secret is the secret and zeros.
LEMMA ShortKey ==
    ASSUME NEW s, NEW S, s \in Seq(S), Len(s) <= BlockSize
    PROVE  SignatureKey(s) = [i \in 1..BlockSize |-> IF i <= Len(s) THEN s[i] ELSE Zero]
<1> DEFINE B == BlockSize
           z == Copy(Clean, 0, Zeros(B))
<1>1. B \in Nat /\ Len(s) \in Nat
  BY LenProperties, Sizes
<1>2. Len(Zeros(B)) = B /\ \A i \in 1..B : Zeros(B)[i] = Zero
  BY <1>1 DEF Zeros
<1>3. z = [i \in 1..B |-> Zero]
  <2>1. \A i \in 1..B : i \in (0 + 1)..(0 + B) /\ i - 0 = i
    BY <1>1
  <2>2. QED
    BY <1>2, <2>1 DEF Copy
<1>4. ~(Len(s) > B)
  BY <1>1
<1>5. SignatureKey(s) = Copy(z, 0, s)
  BY <1>4 DEF SignatureKey
<1> HIDE DEF z
<1>6. \A i \in 1..B : (i \in (0 + 1)..(0 + Len(s)) <=> i <= Len(s)) /\ i - 0 = i
  BY <1>1
<1>7. QED
  BY <1>3, <1>5, <1>6 DEF Copy

\* A pair is one element and another.
LEMMA AppendPair ==
    ASSUME NEW a, NEW b
    PROVE  Append(<<a>>, b) = <<a, b>>
<1> DEFINE S == {a, b}
           s == <<a>>
           t == <<a, b>>
           u == Append(s, b)
<1>1. s \in Seq(S) /\ Len(s) = 1 /\ s[1] = a /\ b \in S
  OBVIOUS
<1>2. t \in Seq(S) /\ Len(t) = 2 /\ t[1] = a /\ t[2] = b
  OBVIOUS
<1> HIDE DEF S, s, t
<1>3. /\ u \in Seq(S) /\ Len(u) = Len(s) + 1
      /\ \A i \in 1..Len(s) : u[i] = s[i]
      /\ u[Len(s) + 1] = b
  <2>1. s \in Seq(S) /\ b \in S
    BY <1>1
  <2>2. QED
    BY <2>1, AppendProperties
<1> HIDE DEF u
<1>4. Len(u) = 2 /\ u[1] = a /\ u[2] = b
  BY <1>1, <1>3
<1>5. \A i \in 1..2 : u[i] = t[i]
  <2>1. \A i \in 1..2 : i = 1 \/ i = 2
    OBVIOUS
  <2>2. QED
    BY <1>2, <1>4, <2>1
<1>6. u = t
  BY <1>2, <1>3, <1>4, <1>5, SeqEqual
<1>7. QED
  BY <1>6 DEF u, s, t

\* A secret that fits in a block and a mask make a block of symbols.
LEMMA MaskedKey ==
    ASSUME NEW s \in Seq({<<"secret">>}), Len(s) <= BlockSize,
           NEW mask \in {"0x5c", "0x36"}
    PROVE  Masked(SignatureKey(s), mask) \in Seq(Symbol)
<1> DEFINE B == BlockSize
           x == <<"secret">>
           key == SignatureKey(s)
           m == Masked(key, mask)
<1>1. B \in Nat \ {0}
  BY Sizes
<1>2. s \in Seq({x}) /\ Len(s) \in Nat /\ \A i \in 1..Len(s) : s[i] = x
  BY LenProperties
<1> HIDE DEF x
<1>3. key = [i \in 1..B |-> IF i <= Len(s) THEN s[i] ELSE Zero]
  BY <1>2, ShortKey
<1>4. \A i \in 1..B : key[i] = x \/ key[i] = Zero
  BY <1>1, <1>2, <1>3
<1>5. DOMAIN key = 1..B
  BY <1>3
<1> HIDE DEF key
<1>6. m = [i \in 1..B |-> Append(key[i], mask)]
  BY <1>5 DEF Masked
<1>7. Append(x, mask) \in Symbol /\ Append(Zero, mask) \in Symbol
  <2>1. Append(x, mask) = <<"secret", mask>> /\ Append(Zero, mask) = <<"zero", mask>>
    BY AppendPair DEF x, Zero
  <2>2. QED
    BY <2>1 DEF Symbol
<1>8. \A i \in 1..B : Append(key[i], mask) \in Symbol
  BY <1>4, <1>7
<1> HIDE DEF m
<1>9. m \in [1..B -> Symbol]
  BY <1>6, <1>8
<1>10. m \in Seq(Symbol)
  BY <1>1, <1>9
<1>11. QED
  BY <1>10 DEF m, key

\* One part together is itself.
LEMMA JoinsOne ==
    ASSUME NEW S, NEW d \in Seq(S)
    PROVE  /\ <<d>> \in Seq(Seq(S)) /\ Len(<<d>>) = 1
           /\ \E J : Joins(J, <<d>>) /\ J[1] = d
<1> DEFINE e == <<d>>
           J == [i \in Nat |-> IF i = 0 THEN <<>> ELSE d]
<1>1. e \in Seq(Seq(S)) /\ Len(e) = 1 /\ e[1] = d
  OBVIOUS
<1>2. J[0] = <<>>
  OBVIOUS
<1>3. J[1] = d
  OBVIOUS
<1> HIDE DEF e, J
<1>4. ASSUME NEW i \in Nat, i + 1 <= Len(e) PROVE J[i + 1] = J[i] \o e[i + 1]
  <2>1. i = 0 /\ i + 1 = 1
    BY <1>1, <1>4
  <2>2. <<>> \o d = d
    BY ConcatEmptySeq
  <2>3. J[i + 1] = d /\ J[i] = <<>> /\ e[i + 1] = d
    BY <1>1, <1>2, <1>3, <2>1
  <2>4. QED
    BY <2>2, <2>3
<1>5. Joins(J, e)
  BY <1>2, <1>4 DEF Joins
<1>6. QED
  BY <1>1, <1>3, <1>5 DEF e

\* The blocks of a padded message are whole, and made of symbols.
LEMMA PaddedType ==
    ASSUME NEW d \in Seq(Symbol)
    PROVE  \A i \in DOMAIN Padded(d) : \A j \in 1..BlockSize : Padded(d)[i][j] \in Symbol
<1> DEFINE B == BlockSize
           m == Len(d)
           z == ZerosFor(m)
           p == Marked(d, z)
           c == Counting(m)
           t == p \o c
<1>1. m \in Nat /\ B \in Nat \ {0} /\ z \in Nat
  <2>1. m \in Nat /\ B \in Nat \ {0}
    BY LenProperties, Sizes
  <2> HIDE DEF m
  <2>2. z \in Nat
    BY <2>1, ZerosMissing
  <2>3. QED
    BY <2>1, <2>2
<1>2. Marks(Symbol)
  BY SymbolMarks
<1>3. Zero \in Symbol /\ One \in Symbol /\ Tally(m) \in Symbol
  BY <1>1, <1>2 DEF Marks
<1>4. Padded(d) = Blocks(t)
  BY <1>3, PaddedIs
<1> HIDE DEF m, z
<1>5. p \in Seq(Symbol)
  BY <1>1, <1>3, MarkedType DEF m
<1>6. c \in Seq(Symbol)
  BY <1>1, <1>3, CountingType
<1> HIDE DEF p, c
<1>7. t \in Seq(Symbol)
  BY <1>5, <1>6, ConcatProperties
<1> HIDE DEF t
<1>8. ASSUME NEW i \in 1..(Len(t) \div B), NEW j \in 1..B PROVE Blocks(t)[i][j] \in Symbol
  <2> DEFINE a == (i - 1) * B
             k == a + j
  <2>1. /\ Blocks(t)[i] = SubSeq(t, a + 1, i * B) /\ a \in Nat /\ i * B = a + B
        /\ i * B <= Len(t)
    BY <1>7, <1>8, BlocksType
  <2> HIDE DEF a
  <2> DEFINE y == a + 1
             w == a + B
  <2>2. Blocks(t)[i] = SubSeq(t, y, w) /\ w <= Len(t)
    BY <2>1
  <2>3. Len(t) \in Nat /\ \A x \in 1..Len(t) : t[x] \in Symbol
    BY <1>7, LenProperties
  <2>4. y \in Int /\ w \in Int /\ 1 <= y /\ y + j - 1 = k /\ j \in 1..(w - y + 1)
    BY <1>1, <1>8, <2>1
  <2>5. k \in 1..Len(t)
    <3>1. 1 <= k /\ k <= w /\ k \in Int
      BY <1>1, <1>8, <2>1
    <3>2. w \in Int /\ w <= Len(t)
      BY <2>2, <2>4
    <3> HIDE DEF k, w
    <3>3. QED
      BY <2>3, <3>1, <3>2
  <2>6. \A x \in y..w : t[x] \in Symbol
    BY <2>2, <2>3, <2>4
  <2> HIDE DEF y, w, k
  <2>7. SubSeq(t, y, w)[j] = t[y + j - 1]
    BY <2>4, <2>6, SubSeqProperties
  <2>8. QED
    BY <2>2, <2>3, <2>4, <2>5, <2>7
<1>9. DOMAIN Blocks(t) = 1..(Len(t) \div B)
  BY DEF Blocks
<1>10. QED
  BY <1>4, <1>8, <1>9

\* The signature is a digest of the masked keys and the parts together.
LEMMA SignedIs ==
    ASSUME NEW parts \in Seq(Seq(Symbol)), NEW J, Joins(J, parts), NEW d, J[Len(parts)] = d,
           NEW s \in Seq({<<"secret">>}), Len(s) <= BlockSize
    PROVE  LET key(mask) == Masked(SignatureKey(s), mask)
               k         == key("0x5c") \o key("0x36")
           IN  /\ create_signature(s, parts) = Padded(k \o d)
               /\ k \in Seq(Symbol)
<1> DEFINE a == Masked(SignatureKey(s), "0x5c")
           b == Masked(SignatureKey(s), "0x36")
<1>1. a \in Seq(Symbol) /\ b \in Seq(Symbol)
  BY MaskedKey
<1>2. create_signature(s, parts) = SHA1Parts(<<a, b>> \o parts)
  BY DEF create_signature
<1> HIDE DEF a, b
<1>3. SHA1Parts(<<a, b>> \o parts) = Padded((a \o b) \o J[Len(parts)])
  BY <1>1, JoinsBehind, SymbolMarks
<1>4. a \o b \in Seq(Symbol)
  BY <1>1, ConcatProperties
<1>5. QED
  BY <1>2, <1>3, <1>4 DEF a, b

-----------------------------------------------------------------------------
(* Digests of every text.                                                  *)

\* A digest depends on what was hashed, not on the pieces it came in, and so does a
\* signature, which depends on no byte that nobody wrote if its secret fits in a block.
THEOREM DigestsAgreeHolds == InputSpec => []DigestsAgree
<1>1. InputInv => DigestsAgree
  <2> SUFFICES ASSUME InputInv, kind = "digest" PROVE DigestsAgree
    BY DEF DigestsAgree
  <2> DEFINE n      == Len(text)
             data   == Bytes(0, SumOf(text))
             pieces == Pieces(text)
             one    == <<data>>
  <2>1. text \in Seq(Nat)
    <3>1. "digest" \in DOMAIN Symbols /\ text \in Seq(Symbols["digest"])
      BY DEF InputInv
    <3>2. Symbols["digest"] \subseteq Nat
      BY <3>1, DigestAssumption
    <3>3. QED
      BY <3>1, <3>2, SeqMonotonic
  <2>2. pieces \in Seq(Seq(Symbol)) /\ Len(pieces) = n /\ SumOf(text) \in Nat
    BY <2>1, PiecesJoin
  <2>3. PICK J : Joins(J, pieces) /\ J[n] = data
    BY <2>1, PiecesJoin
  <2>4. data \in Seq(Symbol)
    BY <2>2, BytesAreSymbols
  <2> HIDE DEF n, data, pieces
  <2>5. one \in Seq(Seq(Symbol)) /\ Len(one) = 1
    BY <2>4, JoinsOne
  <2>6. PICK K : Joins(K, one) /\ K[1] = data
    BY <2>4, JoinsOne
  <2> HIDE DEF one
  <2>7. MD5Parts(pieces) = Padded(data) /\ SHA1Parts(pieces) = Padded(data)
    BY <2>2, <2>3, MD5OfParts, SHA1OfParts, SymbolMarks
  <2>8. ASSUME NEW size \in 0..BlockSize
        PROVE  LET signed == create_signature(Secret(size), pieces)
               IN  /\ signed = create_signature(Secret(size), one)
                   /\ \A i \in DOMAIN signed : \A j \in 1..BlockSize :
                         Head(signed[i][j]) # Head(Stale)
    <3> DEFINE s      == Secret(size)
               signed == create_signature(s, pieces)
               k      == Masked(SignatureKey(s), "0x5c") \o Masked(SignatureKey(s), "0x36")
    <3>1. s \in Seq({<<"secret">>}) /\ Len(s) <= BlockSize
      BY Sizes DEF Secret
    <3> HIDE DEF s
    <3>2. signed = Padded(k \o data) /\ k \in Seq(Symbol)
      BY <2>2, <2>3, <3>1, SignedIs
    <3>3. create_signature(s, one) = Padded(k \o data)
      BY <2>5, <2>6, <3>1, SignedIs
    <3> HIDE DEF signed, k
    <3>4. k \o data \in Seq(Symbol)
      BY <2>4, <3>2, ConcatProperties
    <3>5. \A i \in DOMAIN signed : \A j \in 1..BlockSize : signed[i][j] \in Symbol
      BY <3>2, <3>4, PaddedType
    <3>6. \A i \in DOMAIN signed : \A j \in 1..BlockSize : Head(signed[i][j]) # Head(Stale)
      BY <3>5, NoSymbolIsStale
    <3>7. signed = create_signature(s, one)
      BY <3>2, <3>3
    <3>8. QED
      BY <3>6, <3>7 DEF signed, s
  <2>9. QED
    BY <2>7, <2>8 DEF DigestsAgree, data, pieces, one
<1>2. QED
  BY <1>1, InputInvariant, PTL
=============================================================================
