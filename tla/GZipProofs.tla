----------------------------- MODULE GZipProofs -----------------------------
(***************************************************************************)
(* Theorems about GZip: what the compressor's loop does with what deflate  *)
(* writes, what the decompressor makes of it, and that all of it arrives.  *)
(***************************************************************************)
EXTENDS GZip, ChunkLemmas

-----------------------------------------------------------------------------
(* The bytes in a sequence.                                                *)

\* BytesIn keeps one byte after the other.
LEMMA BytesInDef ==
    ASSUME NEW D, NEW s \in Seq(D)
    PROVE  \E f : /\ f[0] = <<>> /\ BytesIn(s) = f[Len(s)]
                  /\ \A i \in Nat : i + 1 <= Len(s)
                        => f[i + 1] = IF IsByte(s[i + 1]) THEN Append(f[i], s[i + 1]) ELSE f[i]
<1> DEFINE R(f, n) == f = [i \in 0..n |-> IF i = 0 THEN <<>>
                                          ELSE IF IsByte(s[i]) THEN Append(f[i - 1], s[i]) ELSE f[i - 1]]
           S == {n \in Nat : \E f : R(f, n)}
<1>1. 0 \in S
  <2> DEFINE f0 == [i \in 0..0 |-> <<>>]
  <2>1. R(f0, 0)
    OBVIOUS
  <2>2. QED
    BY <2>1
<1>2. ASSUME NEW n \in Nat, n \in S PROVE n + 1 \in S
  <2>1. PICK f : R(f, n)
    BY <1>2
  <2> DEFINE g == [i \in 0..n + 1 |-> IF i = 0 THEN <<>>
                                      ELSE IF IsByte(s[i]) THEN Append(f[i - 1], s[i]) ELSE f[i - 1]]
  <2>2. \A i \in 0..n : f[i] = IF i = 0 THEN <<>>
                               ELSE IF IsByte(s[i]) THEN Append(f[i - 1], s[i]) ELSE f[i - 1]
    BY <2>1
  <2>3. \A i \in 0..n : g[i] = f[i]
    BY <2>2
  <2>4. ASSUME NEW i \in 0..n + 1, i # 0 PROVE g[i - 1] = f[i - 1]
    <3>1. i - 1 \in 0..n
      BY <1>2, <2>4
    <3>2. QED
      BY <2>3, <3>1
  <2>5. R(g, n + 1)
    BY <2>4
  <2>6. n + 1 \in Nat
    BY <1>2
  <2>7. QED
    BY <2>5, <2>6
<1>3. Len(s) \in Nat
  BY LenProperties
<1>4. Len(s) \in S
  <2> HIDE DEF S
  <2>1. QED
    BY <1>1, <1>2, <1>3, Induction
<1> DEFINE F == CHOOSE f : R(f, Len(s))
<1>5. R(F, Len(s))
  BY <1>4
<1>6. BytesIn(s) = F[Len(s)]
  BY DEF BytesIn
<1> HIDE DEF F
<1>7. \A i \in 0..Len(s) : F[i] = IF i = 0 THEN <<>>
                                  ELSE IF IsByte(s[i]) THEN Append(F[i - 1], s[i]) ELSE F[i - 1]
  BY <1>5
<1>8. F[0] = <<>>
  <2>1. 0 \in 0..Len(s)
    BY <1>3
  <2>2. QED
    BY <1>7, <2>1
<1>9. ASSUME NEW i \in Nat, i + 1 <= Len(s)
      PROVE  F[i + 1] = IF IsByte(s[i + 1]) THEN Append(F[i], s[i + 1]) ELSE F[i]
  <2> DEFINE j == i + 1
  <2>1. j \in 0..Len(s) /\ j # 0 /\ j - 1 = i
    BY <1>3, <1>9
  <2> HIDE DEF j
  <2>2. F[j] = IF IsByte(s[j]) THEN Append(F[j - 1], s[j]) ELSE F[j - 1]
    BY <1>7, <2>1
  <2>3. QED
    BY <2>1, <2>2 DEF j
<1>10. QED
  BY <1>6, <1>8, <1>9

\* An element more is a byte more, or none.
LEMMA BytesInAppend ==
    ASSUME NEW D, NEW s \in Seq(D), NEW x \in D
    PROVE  /\ BytesIn(<<>>) = <<>>
           /\ BytesIn(Append(s, x)) = IF IsByte(x) THEN Append(BytesIn(s), x) ELSE BytesIn(s)
<1> DEFINE r == Append(s, x)
           n == Len(s)
<1>0. BytesIn(<<>>) = <<>>
  <2>1. <<>> \in Seq(D) /\ Len(<<>>) = 0
    BY EmptySeq
  <2>2. PICK f : f[0] = <<>> /\ BytesIn(<<>>) = f[Len(<<>>)]
    BY <2>1, BytesInDef
  <2>3. QED
    BY <2>1, <2>2
<1>1. /\ r \in Seq(D) /\ Len(r) = n + 1 /\ n \in Nat /\ r[n + 1] = x
      /\ \A i \in 1..n : r[i] = s[i]
  BY AppendProperties, LenProperties
<1>2. PICK f : /\ f[0] = <<>> /\ BytesIn(s) = f[n]
               /\ \A i \in Nat : i + 1 <= n
                     => f[i + 1] = IF IsByte(s[i + 1]) THEN Append(f[i], s[i + 1]) ELSE f[i]
  BY BytesInDef
<1> HIDE DEF r, n
<1>3. PICK g : /\ g[0] = <<>> /\ BytesIn(r) = g[n + 1]
               /\ \A i \in Nat : i + 1 <= n + 1
                     => g[i + 1] = IF IsByte(r[i + 1]) THEN Append(g[i], r[i + 1]) ELSE g[i]
  <2>1. \E g : /\ g[0] = <<>> /\ BytesIn(r) = g[Len(r)]
               /\ \A i \in Nat : i + 1 <= Len(r)
                     => g[i + 1] = IF IsByte(r[i + 1]) THEN Append(g[i], r[i + 1]) ELSE g[i]
    BY <1>1, BytesInDef
  <2>2. QED
    BY <1>1, <2>1
<1> DEFINE S == {i \in Nat : i <= n => f[i] = g[i]}
<1>4. 0 \in S
  BY <1>2, <1>3
<1>5. ASSUME NEW i \in Nat, i \in S PROVE i + 1 \in S
  <2>1. ASSUME i + 1 <= n PROVE f[i + 1] = g[i + 1]
    <3>1. i + 1 \in 1..n /\ i <= n /\ i + 1 <= n + 1
      BY <1>1, <1>5, <2>1
    <3>2. f[i] = g[i] /\ r[i + 1] = s[i + 1]
      BY <1>1, <1>5, <3>1
    <3>3. f[i + 1] = IF IsByte(s[i + 1]) THEN Append(f[i], s[i + 1]) ELSE f[i]
      BY <1>2, <1>5, <2>1
    <3>4. g[i + 1] = IF IsByte(r[i + 1]) THEN Append(g[i], r[i + 1]) ELSE g[i]
      BY <1>3, <1>5, <3>1
    <3>5. QED
      BY <3>2, <3>3, <3>4
  <2>2. i + 1 \in Nat
    BY <1>5
  <2>3. QED
    BY <2>1, <2>2
<1>6. \A i \in Nat : i \in S
  <2> HIDE DEF S
  <2>1. QED
    BY <1>4, <1>5, Induction
<1>7. f[n] = g[n]
  BY <1>1, <1>6
<1>8. g[n + 1] = IF IsByte(x) THEN Append(g[n], x) ELSE g[n]
  <2>1. n + 1 <= n + 1
    BY <1>1
  <2>2. QED
    BY <1>1, <1>3, <2>1
<1>9. QED
  BY <1>0, <1>2, <1>3, <1>7, <1>8 DEF r

\* The bytes of sequences one behind the other.
LEMMA BytesInConcat ==
    ASSUME NEW D, NEW s \in Seq(D), NEW t \in Seq(D)
    PROVE  BytesIn(t) \in Seq(D) /\ BytesIn(s \o t) = BytesIn(s) \o BytesIn(t)
<1> DEFINE T == {u \in Seq(D) : BytesIn(u) \in Seq(D)}
           S == {u \in Seq(D) : BytesIn(s \o u) = BytesIn(s) \o BytesIn(u)}
<1>1. <<>> \in T
  <2>1. <<>> \in Seq(D)
    BY EmptySeq
  <2>2. BytesIn(<<>>) = <<>>
    <3>1. PICK f : f[0] = <<>> /\ BytesIn(<<>>) = f[Len(<<>>)]
      BY <2>1, BytesInDef
    <3>2. QED
      BY <3>1, EmptySeq
  <2>3. QED
    BY <2>1, <2>2
<1>2. ASSUME NEW u \in Seq(D), NEW x \in D, u \in T PROVE Append(u, x) \in T
  BY <1>2, BytesInAppend, AppendProperties
<1>3. \A u \in Seq(D) : u \in T
  <2> HIDE DEF T
  <2>1. QED
    BY <1>1, <1>2, SeqInduction
<1>4. <<>> \in S
  <2>1. s \o <<>> = s /\ <<>> \in Seq(D) /\ BytesIn(s) \in Seq(D)
    BY <1>3, ConcatEmptySeq, EmptySeq
  <2>2. BytesIn(<<>>) = <<>>
    <3>1. PICK f : f[0] = <<>> /\ BytesIn(<<>>) = f[Len(<<>>)]
      BY <2>1, BytesInDef
    <3>2. QED
      BY <3>1, EmptySeq
  <2>3. QED
    BY <2>1, <2>2, ConcatEmptySeq
<1>5. ASSUME NEW u \in Seq(D), NEW x \in D, u \in S PROVE Append(u, x) \in S
  <2>1. s \o Append(u, x) = Append(s \o u, x)
    BY AppendBehind
  <2>2. Append(u, x) \in Seq(D) /\ s \o u \in Seq(D)
    BY AppendProperties, ConcatProperties
  <2>3. BytesIn(Append(s \o u, x)) = IF IsByte(x) THEN Append(BytesIn(s \o u), x) ELSE BytesIn(s \o u)
    BY <2>2, BytesInAppend
  <2>4. BytesIn(Append(u, x)) = IF IsByte(x) THEN Append(BytesIn(u), x) ELSE BytesIn(u)
    BY BytesInAppend
  <2>5. BytesIn(s) \in Seq(D) /\ BytesIn(u) \in Seq(D)
    BY <1>3
  <2>6. Append(BytesIn(s) \o BytesIn(u), x) = BytesIn(s) \o Append(BytesIn(u), x)
    <3> DEFINE v == BytesIn(s)
               w == BytesIn(u)
    <3>1. v \in Seq(D) /\ w \in Seq(D)
      BY <2>5
    <3> HIDE DEF v, w
    <3>2. v \o Append(w, x) = Append(v \o w, x)
      BY <3>1, AppendBehind
    <3>3. QED
      BY <3>2 DEF v, w
  <2>7. QED
    BY <1>5, <2>1, <2>2, <2>3, <2>4, <2>6
<1>6. \A u \in Seq(D) : u \in S
  <2> HIDE DEF S
  <2>1. QED
    BY <1>4, <1>5, SeqInduction
<1>7. QED
  BY <1>3, <1>6

\* In a sequence of bytes they are all.
LEMMA BytesInBytes ==
    ASSUME NEW D, NEW s \in Seq(D), \A i \in 1..Len(s) : IsByte(s[i])
    PROVE  BytesIn(s) = s
<1> DEFINE S == {u \in Seq(D) : (\A i \in 1..Len(u) : IsByte(u[i])) => BytesIn(u) = u}
<1>1. <<>> \in S
  <2>1. <<>> \in Seq(D)
    BY EmptySeq
  <2>2. BytesIn(<<>>) = <<>>
    <3>1. PICK f : f[0] = <<>> /\ BytesIn(<<>>) = f[Len(<<>>)]
      BY <2>1, BytesInDef
    <3>2. QED
      BY <3>1, EmptySeq
  <2>3. QED
    BY <2>1, <2>2
<1>2. ASSUME NEW u \in Seq(D), NEW x \in D, u \in S PROVE Append(u, x) \in S
  <2> DEFINE r == Append(u, x)
  <2>1. /\ r \in Seq(D) /\ Len(r) = Len(u) + 1 /\ Len(u) \in Nat
        /\ r[Len(u) + 1] = x /\ \A i \in 1..Len(u) : r[i] = u[i]
    BY AppendProperties, LenProperties
  <2>2. ASSUME \A i \in 1..Len(r) : IsByte(r[i]) PROVE BytesIn(r) = r
    <3> HIDE DEF r
    <3>1. Len(u) + 1 \in 1..Len(r) /\ 1..Len(u) \subseteq 1..Len(r)
      BY <2>1
    <3>2. IsByte(x) /\ \A i \in 1..Len(u) : IsByte(u[i])
      BY <2>1, <2>2, <3>1
    <3>3. BytesIn(u) = u
      BY <1>2, <3>2
    <3>4. BytesIn(Append(u, x)) = Append(u, x)
      BY <3>2, <3>3, BytesInAppend
    <3>5. QED
      BY <3>4 DEF r
  <2>3. QED
    BY <2>1, <2>2
<1>3. \A u \in Seq(D) : u \in S
  <2> HIDE DEF S
  <2>1. QED
    BY <1>1, <1>2, SeqInduction
<1>4. QED
  BY <1>3

\* The bytes that compress is given.
LEMMA BytesOfType ==
    ASSUME NEW a \in Nat \ {0}, NEW b \in Nat, a <= b + 1
    PROVE  /\ BytesOf(a, b) \in Seq(Items) /\ Len(BytesOf(a, b)) = b + 1 - a
           /\ \A i \in 1..b + 1 - a : BytesOf(a, b)[i] = <<"byte", a + i - 1>>
           /\ BytesIn(BytesOf(a, b)) = BytesOf(a, b)
           /\ \A i \in 1..Len(BytesOf(a, b)) : BytesOf(a, b)[i] # End
<1> DEFINE s == BytesOf(a, b)
           n == b + 1 - a
<1>1. n \in Nat /\ b - a + 1 = n
  OBVIOUS
<1>2. s = [i \in 1..n |-> <<"byte", a + i - 1>>]
  BY <1>1 DEF BytesOf
<1>3. \A i \in 1..n : a + i - 1 \in Nat
  OBVIOUS
<1>4. \A m \in Nat : /\ <<"byte", m>> \in Items /\ IsByte(<<"byte", m>>) /\ <<"byte", m>> # End
  BY DEF Items, IsByte, End
<1> HIDE DEF n, s
<1>5. \A i \in 1..n : s[i] = <<"byte", a + i - 1>>
  BY <1>2
<1>6. \A i \in 1..n : s[i] \in Items /\ IsByte(s[i]) /\ s[i] # End
  BY <1>3, <1>4, <1>5
<1>7. s \in Seq(Items) /\ Len(s) = n
  <2>1. s \in [1..n -> Items]
    BY <1>2, <1>6
  <2>2. s \in Seq(Items)
    BY <1>1, <2>1
  <2>3. DOMAIN s = 1..n /\ DOMAIN s = 1..Len(s) /\ Len(s) \in Nat
    BY <1>2, <2>2, LenProperties
  <2>4. Len(s) = n
    BY <1>1, <2>3
  <2>5. QED
    BY <2>2, <2>4
<1>8. BytesIn(s) = s
  BY <1>6, <1>7, BytesInBytes
<1>9. QED
  BY <1>5, <1>6, <1>7, <1>8 DEF n, s

\* ... and more of them behind.
LEMMA BytesOfConcat ==
    ASSUME NEW a \in Nat, NEW b \in Nat, a <= b
    PROVE  BytesOf(1, a) \o BytesOf(a + 1, b) = BytesOf(1, b)
<1> DEFINE s == BytesOf(1, a)
           t == BytesOf(a + 1, b)
           u == BytesOf(1, b)
           w == s \o t
<1>1. /\ s \in Seq(Items) /\ Len(s) = a
      /\ \A i \in 1..a : s[i] = <<"byte", i>>
  <2>1. 1 \in Nat \ {0} /\ 1 <= a + 1 /\ a + 1 - 1 = a /\ \A i \in 1..a : 1 + i - 1 = i
    OBVIOUS
  <2>2. s \in Seq(Items) /\ Len(s) = a + 1 - 1 /\ \A i \in 1..a + 1 - 1 : s[i] = <<"byte", 1 + i - 1>>
    BY <2>1, BytesOfType
  <2> HIDE DEF s
  <2>3. QED
    BY <2>1, <2>2
<1>2. /\ u \in Seq(Items) /\ Len(u) = b
      /\ \A i \in 1..b : u[i] = <<"byte", i>>
  <2>1. 1 \in Nat \ {0} /\ 1 <= b + 1 /\ b + 1 - 1 = b /\ \A i \in 1..b : 1 + i - 1 = i
    OBVIOUS
  <2>2. u \in Seq(Items) /\ Len(u) = b + 1 - 1 /\ \A i \in 1..b + 1 - 1 : u[i] = <<"byte", 1 + i - 1>>
    BY <2>1, BytesOfType
  <2> HIDE DEF u
  <2>3. QED
    BY <2>1, <2>2
<1>3. /\ t \in Seq(Items) /\ Len(t) = b - a
      /\ \A i \in 1..b - a : t[i] = <<"byte", a + i>>
  <2>1. a + 1 \in Nat \ {0} /\ a + 1 <= b + 1 /\ b + 1 - (a + 1) = b - a /\ \A i \in 1..b - a : a + 1 + i - 1 = a + i
    OBVIOUS
  <2>2. /\ t \in Seq(Items) /\ Len(t) = b + 1 - (a + 1)
        /\ \A i \in 1..b + 1 - (a + 1) : t[i] = <<"byte", a + 1 + i - 1>>
    BY <2>1, BytesOfType
  <2> HIDE DEF t
  <2>3. QED
    BY <2>1, <2>2
<1> HIDE DEF s, t, u
<1>4. /\ w \in Seq(Items) /\ Len(w) = Len(s) + Len(t)
      /\ \A i \in 1..Len(s) + Len(t) : w[i] = IF i <= Len(s) THEN s[i] ELSE t[i - Len(s)]
  BY <1>1, <1>3, ConcatProperties
<1> HIDE DEF w
<1>5. Len(w) = b /\ Len(s) + Len(t) = b
  BY <1>1, <1>3, <1>4
<1>6. ASSUME NEW i \in 1..Len(w) PROVE w[i] = u[i]
  <2>1. i \in 1..b /\ i \in Nat
    BY <1>5, <1>6
  <2>2. u[i] = <<"byte", i>>
    BY <1>2, <2>1
  <2>3. CASE i <= a
    BY <1>1, <1>4, <1>5, <2>1, <2>2, <2>3
  <2>4. CASE ~(i <= a)
    <3>1. i - a \in 1..b - a /\ a + (i - a) = i
      BY <2>1, <2>4
    <3>2. t[i - a] = <<"byte", i>>
      BY <1>3, <3>1
    <3>3. QED
      BY <1>1, <1>4, <1>5, <2>1, <2>2, <2>4, <3>2
  <2>5. QED
    BY <2>3, <2>4
<1>7. w = u
  BY <1>2, <1>4, <1>5, <1>6, SeqEqual
<1>8. QED
  BY <1>7 DEF s, t, u, w

\* Of the header, the marks and the trailer, none is a byte.
LEMMA NoBytes ==
    ASSUME NEW x \in Items, x[1] # "byte"
    PROVE  <<x>> \in Seq(Items) /\ BytesIn(<<x>>) = <<>>
<1>1. <<>> \in Seq(Items) /\ Append(<<>>, x) = <<x>>
  <2>1. <<>> \in Seq(Items)
    BY EmptySeq
  <2>2. Append(<<>>, x) = <<x>>
    OBVIOUS
  <2>3. QED
    BY <2>1, <2>2
<1>2. ~IsByte(x)
  BY DEF IsByte
<1>3. QED
  <2>1. Append(<<>>, x) \in Seq(Items)
    BY <1>1, AppendProperties
  <2>2. BytesIn(<<>>) = <<>> /\ BytesIn(Append(<<>>, x)) = BytesIn(<<>>)
    BY <1>1, <1>2, BytesInAppend
  <2>3. QED
    BY <1>1, <2>1, <2>2
-----------------------------------------------------------------------------
(* The decompressor's blocks.                                              *)

\* The smaller of two numbers.
LEMMA MinOf ==
    ASSUME NEW a \in Int, NEW b \in Int
    PROVE  Min({a, b}) = IF a <= b THEN a ELSE b
<1> DEFINE m == IF a <= b THEN a ELSE b
<1>1. m \in {a, b} /\ \A y \in {a, b} : m <= y
  OBVIOUS
<1>2. \A x \in {a, b} : (\A y \in {a, b} : x <= y) => x = m
  OBVIOUS
<1>3. Min({a, b}) \in {a, b} /\ \A y \in {a, b} : Min({a, b}) <= y
  BY <1>1 DEF Min
<1>4. QED
  BY <1>2, <1>3

\* Whole blocks of a length.
LEMMA Quotient ==
    ASSUME NEW n \in Nat, NEW b \in Nat \ {0}
    PROVE  /\ n \div b \in Nat
           /\ \A i \in 1..(n \div b) : i * b <= n
           /\ (n \div b + 1) * b > n
           /\ \A i \in Nat : (i + 1) * b = i * b + b /\ i * b \in Nat
<1> DEFINE q == n \div b
<1>1. q \in Nat /\ q * b <= n /\ q * b + b > n
  OBVIOUS
<1>2. \A i \in Nat : (i + 1) * b = i * b + b /\ i * b \in Nat
  OBVIOUS
<1>3. ASSUME NEW i \in 1..q PROVE i * b <= n
  <2>1. i * b <= q * b
    BY <1>1
  <2>2. QED
    BY <1>1, <1>2, <2>1
<1>4. QED
  BY <1>1, <1>2, <1>3

\* The blocks of the decompressor hold its output.
LEMMA BlocksHold ==
    ASSUME NEW out \in Seq(Items)
    PROVE  InBlocks(out) \in Seq(Seq(Items)) /\ FlattenSeq(InBlocks(out)) = out
<1> DEFINE B == BLOCK_SIZE
           n == Len(out)
           q == n \div B
           e(i) == IF i * B <= n THEN i * B ELSE n
           r == InBlocks(out)
<1>1. B \in Nat \ {0} /\ n \in Nat
  BY GZipAssumption, LenProperties
<1>2. /\ q \in Nat /\ (\A i \in 1..q : i * B <= n) /\ (q + 1) * B > n
      /\ \A i \in Nat : (i + 1) * B = i * B + B /\ i * B \in Nat
  BY <1>1, Quotient
<1>3. r = [i \in 1..q + 1 |-> SubSeq(out, (i - 1) * B + 1, Min({i * B, n}))]
  BY DEF InBlocks
<1> HIDE DEF q, r
<1>4. ASSUME NEW i \in 1..q + 1
      PROVE  /\ (i - 1) * B \in Nat /\ e(i - 1) = (i - 1) * B /\ e(i) \in e(i - 1)..n
             /\ r[i] = SubSeq(out, e(i - 1) + 1, e(i))
  <2>1. i - 1 \in Nat /\ i - 1 \in 0..q /\ i - 1 + 1 = i /\ i \in Nat
    BY <1>2
  <2>2. i * B = (i - 1) * B + B /\ (i - 1) * B \in Nat /\ i * B \in Nat
    BY <1>2, <2>1
  <2>3. (i - 1) * B <= n
    <3>1. CASE i = 1
      <4>1. (i - 1) * B = 0
        BY <1>1, <3>1
      <4>2. QED
        BY <1>1, <4>1
    <3>2. CASE i # 1
      <4>1. i - 1 \in 1..q
        BY <1>2, <2>1, <3>2
      <4>2. QED
        BY <1>2, <4>1
    <3>3. QED
      BY <3>1, <3>2
  <2>4. e(i - 1) = (i - 1) * B /\ e(i) \in e(i - 1)..n
    BY <1>1, <2>2, <2>3
  <2>5. Min({i * B, n}) = e(i)
    BY <1>1, <2>2, MinOf
  <2>6. r[i] = SubSeq(out, (i - 1) * B + 1, Min({i * B, n}))
    BY <1>3
  <2>7. QED
    BY <2>2, <2>4, <2>5, <2>6
<1>5. \A i \in 1..n : out[i] \in Items
  BY LenProperties
<1>6. ASSUME NEW i \in 1..q + 1 PROVE r[i] \in Seq(Items)
  <2>1. e(i - 1) \in Nat /\ e(i) \in Nat /\ e(i) <= n
    BY <1>1, <1>4
  <2> HIDE DEF e
  <2>2. e(i - 1) + 1 \in Int /\ e(i) \in Int /\ \A j \in e(i - 1) + 1..e(i) : out[j] \in Items
    BY <1>1, <1>5, <2>1
  <2>3. SubSeq(out, e(i - 1) + 1, e(i)) \in Seq(Items)
    BY <2>2, SubSeqProperties
  <2>4. QED
    BY <1>4, <2>3
<1>7. r \in Seq(Seq(Items)) /\ Len(r) = q + 1
  <2>1. r \in [1..q + 1 -> Seq(Items)] /\ q + 1 \in Nat
    <3>1. r = [i \in 1..q + 1 |-> r[i]]
      BY <1>3
    <3>2. QED
      BY <1>2, <1>6, <3>1
  <2>2. r \in Seq(Seq(Items))
    BY <2>1
  <2>3. DOMAIN r = 1..q + 1 /\ DOMAIN r = 1..Len(r) /\ Len(r) \in Nat
    BY <2>1, <2>2, LenProperties
  <2>4. QED
    BY <2>1, <2>2, <2>3
<1>8. PICK f : /\ f[1] = r[1] /\ FlattenSeq(r) = f[q + 1]
               /\ \A i \in Nat \ {0} : i + 1 <= q + 1 => f[i + 1] = f[i] \o r[i + 1]
  <2>1. \E f : /\ Len(r) # 0 => f[1] = r[1] /\ FlattenSeq(r) = f[Len(r)]
               /\ \A i \in Nat \ {0} : i + 1 <= Len(r) => f[i + 1] = f[i] \o r[i + 1]
    BY <1>7, FlattenDef
  <2>2. q + 1 # 0
    BY <1>2
  <2>3. QED
    BY <1>7, <2>1, <2>2
<1> DEFINE S == {i \in Nat : i \in 1..q + 1 => f[i] = SubSeq(out, 1, e(i))}
<1>9. 0 \in S
  OBVIOUS
<1>10. ASSUME NEW i \in Nat, i \in S PROVE i + 1 \in S
  <2>1. ASSUME i + 1 \in 1..q + 1 PROVE f[i + 1] = SubSeq(out, 1, e(i + 1))
    <3>1. e(i + 1) \in e(i)..n /\ r[i + 1] = SubSeq(out, e(i) + 1, e(i + 1)) /\ e(i) \in Nat
      <4> DEFINE j == i + 1
      <4>1. j \in 1..q + 1 /\ j - 1 = i
        BY <1>10, <2>1
      <4> HIDE DEF j
      <4>2. e(j) \in e(j - 1)..n /\ r[j] = SubSeq(out, e(j - 1) + 1, e(j)) /\ e(j - 1) \in Nat
        BY <1>4, <4>1
      <4> HIDE DEF e
      <4>3. QED
        BY <4>1, <4>2 DEF j
    <3>2. e(0) = 0
      <4>1. 0 * B = 0
        BY <1>1
      <4>2. QED
        BY <1>1, <4>1
    <3> HIDE DEF e
    <3>3. CASE i = 0
      <4>1. i + 1 = 1 /\ e(i) + 1 = 1
        BY <3>2, <3>3
      <4>2. r[1] = SubSeq(out, 1, e(1))
        BY <3>1, <4>1
      <4>3. QED
        BY <1>8, <4>1, <4>2
    <3>4. CASE i # 0
      <4>1. i \in 1..q + 1 /\ i \in Nat \ {0} /\ i + 1 <= q + 1
        BY <1>2, <1>10, <2>1, <3>4
      <4>2. f[i] = SubSeq(out, 1, e(i)) /\ f[i + 1] = f[i] \o r[i + 1]
        BY <1>8, <1>10, <4>1
      <4>3. 1 \in 1..Len(out) + 1 /\ e(i) \in (1 - 1)..Len(out) /\ e(i + 1) \in e(i)..Len(out)
        BY <1>1, <3>1
      <4>4. SubSeq(out, 1, e(i)) \o SubSeq(out, e(i) + 1, e(i + 1)) = SubSeq(out, 1, e(i + 1))
        BY <4>3, ConcatAdjacentSubSeq
      <4>5. QED
        BY <3>1, <4>2, <4>4
    <3>5. QED
      BY <3>3, <3>4
  <2>2. i + 1 \in Nat
    BY <1>10
  <2>3. QED
    BY <2>1, <2>2
<1>11. \A i \in Nat : i \in S
  <2> HIDE DEF S
  <2>1. QED
    BY <1>9, <1>10, Induction
<1>12. e(q + 1) = n
  BY <1>1, <1>2
<1>13. f[q + 1] = SubSeq(out, 1, e(q + 1))
  <2>1. q + 1 \in 1..q + 1 /\ q + 1 \in Nat
    BY <1>2
  <2>2. QED
    BY <1>11, <2>1
<1>14. f[q + 1] = SubSeq(out, 1, n)
  BY <1>12, <1>13
<1>15. FlattenSeq(r) = out
  BY <1>8, <1>14, SubSeqFull
<1>16. QED
  BY <1>7, <1>15 DEF r
-----------------------------------------------------------------------------
(* The compressor's loop.                                                  *)

\* what is in tmp_buf_, and everything that the loop has in hand
Block(t)  == IF t = NoBlock THEN <<>> ELSE t
InHand(c) == (FlattenSeq(c.blocks) \o Block(c.tmp)) \o c.out

BlocksFit(bs)   == \A i \in 1..Len(bs) : Len(bs[i]) \in 1..BLOCK_SIZE
Extends(bs, cs) == Len(bs) <= Len(cs) /\ \A i \in 1..Len(bs) : cs[i] = bs[i]

BlocksOK(t, bs) ==
    /\ t \in Seq(Items) \cup {NoBlock} /\ (t # NoBlock => Len(t) <= BLOCK_SIZE)
    /\ bs \in Seq(Seq(Items)) /\ BlocksFit(bs)

\* A block is pushed behind the others.
LEMMA PushBlock ==
    ASSUME NEW bs \in Seq(Seq(Items)), BlocksFit(bs),
           NEW t \in Seq(Items), Len(t) \in 1..BLOCK_SIZE
    PROVE  /\ Append(bs, t) \in Seq(Seq(Items)) /\ BlocksFit(Append(bs, t)) /\ Extends(bs, Append(bs, t))
           /\ FlattenSeq(Append(bs, t)) = FlattenSeq(bs) \o t
<1> DEFINE r == Append(bs, t)
<1>1. /\ r \in Seq(Seq(Items)) /\ Len(r) = Len(bs) + 1 /\ Len(bs) \in Nat
      /\ r[Len(bs) + 1] = t /\ \A i \in 1..Len(bs) : r[i] = bs[i]
  BY AppendProperties, LenProperties
<1>2. FlattenSeq(r) = FlattenSeq(bs) \o t
  BY FlattenAppend
<1> HIDE DEF r
<1>3. BlocksFit(r)
  <2>1. ASSUME NEW i \in 1..Len(r) PROVE Len(r[i]) \in 1..BLOCK_SIZE
    <3>1. i \in 1..Len(bs) \/ i = Len(bs) + 1
      BY <1>1, <2>1
    <3>2. QED
      BY <1>1, <3>1 DEF BlocksFit
  <2>2. QED
    BY <2>1 DEF BlocksFit
<1>4. Extends(bs, r)
  BY <1>1 DEF Extends
<1>5. QED
  BY <1>1, <1>2, <1>3, <1>4 DEF r

\* Blocks that are behind these blocks are behind those before them.
LEMMA ExtendsOn ==
    ASSUME NEW zs \in Seq(Seq(Items)), NEW bs \in Seq(Seq(Items)), NEW cs \in Seq(Seq(Items)),
           Extends(zs, bs), Extends(bs, cs)
    PROVE  Extends(zs, cs)
<1> DEFINE a == Len(zs)
           b == Len(bs)
           c == Len(cs)
<1>1. a \in Nat /\ b \in Nat /\ c \in Nat
  BY LenProperties
<1>2. a <= b /\ b <= c
  BY DEF Extends
<1>3. (\A j \in 1..a : bs[j] = zs[j]) /\ (\A j \in 1..b : cs[j] = bs[j])
  BY DEF Extends
<1> HIDE DEF a, b, c
<1>4. a <= c /\ \A j \in 1..a : j \in 1..b
  BY <1>1, <1>2
<1>5. QED
  BY <1>3, <1>4 DEF Extends, a, c

\* One round moves output into the block, pushes a block that is full, and loses
\* nothing; it ends the loop only when there is no output left.
LEMMA RoundKeeps ==
    ASSUME NEW c, BlocksOK(c.tmp, c.blocks), c.out \in Seq(Items)
    PROVE  LET d == Round(c)
           IN  /\ BlocksOK(d.tmp, d.blocks) /\ d.out \in Seq(Items)
               /\ d.tmp # NoBlock /\ Extends(c.blocks, d.blocks) /\ InHand(d) = InHand(c)
               /\ d.out = <<>> \/ Len(d.out) < Len(c.out)
               /\ d.done => d.out = <<>>
<1> DEFINE full == c.tmp = NoBlock \/ Len(c.tmp) = BLOCK_SIZE
           buf  == IF full THEN <<>> ELSE c.tmp
           out  == c.out
           n    == Min({Len(out), BLOCK_SIZE - Len(buf)})
           d    == Round(c)
<1>1. /\ d.tmp = buf \o First(out, n)
      /\ d.blocks = IF full /\ c.tmp # NoBlock THEN Append(c.blocks, c.tmp) ELSE c.blocks
      /\ d.out = Rest(out, n)
      /\ d.done => n = 0 \/ Len(buf) + n < BLOCK_SIZE \/ n = Len(out)
  BY DEF Round, First, Rest
<1> DEFINE bs == c.blocks
           t  == c.tmp
<1>2. /\ t \in Seq(Items) \cup {NoBlock} /\ (t # NoBlock => Len(t) <= BLOCK_SIZE)
      /\ bs \in Seq(Seq(Items)) /\ BlocksFit(bs) /\ out \in Seq(Items)
      /\ BLOCK_SIZE \in Nat \ {0} /\ NoBlock \notin Seq(Items)
  BY GZipAssumption DEF BlocksOK
<1>3. InHand(c) = (FlattenSeq(bs) \o Block(t)) \o out
  BY DEF InHand
<1> HIDE DEF d, bs, t, out
<1>4. buf \in Seq(Items) /\ Len(buf) \in Nat /\ Len(buf) < BLOCK_SIZE
  <2>1. <<>> \in Seq(Items) /\ Len(<<>>) = 0
    BY EmptySeq
  <2>2. CASE full
    BY <1>2, <2>1, <2>2
  <2>3. CASE ~full
    <3>1. t \in Seq(Items) /\ Len(t) \in Nat /\ Len(t) <= BLOCK_SIZE /\ Len(t) # BLOCK_SIZE
      BY <1>2, <2>3, LenProperties DEF t
    <3>2. buf = t
      BY <2>3 DEF t
    <3>3. QED
      BY <1>2, <3>1, <3>2
  <2>4. QED
    BY <2>2, <2>3
<1>5. \/ /\ d.blocks = bs /\ buf = Block(t)
      \/ /\ d.blocks = Append(bs, t) /\ buf = <<>> /\ t \in Seq(Items) /\ Len(t) = BLOCK_SIZE
         /\ Block(t) = t
  BY <1>1, <1>2 DEF Block, bs, t
<1> HIDE DEF full, buf
<1>6. Len(out) \in Nat
  BY <1>2, LenProperties
<1>7. n \in 0..Len(out) /\ Len(buf) + n <= BLOCK_SIZE /\ (n = Len(out) \/ Len(buf) + n = BLOCK_SIZE)
  <2>1. n = IF Len(out) <= BLOCK_SIZE - Len(buf) THEN Len(out) ELSE BLOCK_SIZE - Len(buf)
    <3>1. Len(out) \in Int /\ BLOCK_SIZE - Len(buf) \in Int
      BY <1>2, <1>4, <1>6
    <3>2. QED
      BY <3>1, MinOf
  <2> HIDE DEF n
  <2>2. QED
    BY <1>2, <1>4, <1>6, <2>1
<1> HIDE DEF n
<1>8. /\ First(out, n) \in Seq(Items) /\ Len(First(out, n)) = n
      /\ Rest(out, n) \in Seq(Items) /\ Len(Rest(out, n)) = Len(out) - n
      /\ out = First(out, n) \o Rest(out, n)
  <2>1. n \in Nat /\ n <= Len(out)
    BY <1>6, <1>7
  <2>2. QED
    BY <1>2, <2>1, RestType
<1>9. d.tmp \in Seq(Items) /\ Len(d.tmp) = Len(buf) + n /\ d.tmp # NoBlock /\ Len(d.tmp) <= BLOCK_SIZE
  <2>1. d.tmp \in Seq(Items) /\ Len(d.tmp) = Len(buf) + n
    <3> DEFINE x == First(out, n)
    <3>1. x \in Seq(Items) /\ Len(x) = n /\ d.tmp = buf \o x
      BY <1>1, <1>8
    <3> HIDE DEF x
    <3>2. buf \o x \in Seq(Items) /\ Len(buf \o x) = Len(buf) + Len(x)
      BY <1>4, <3>1, ConcatProperties
    <3>3. QED
      BY <3>1, <3>2
  <2>2. QED
    BY <1>2, <1>7, <2>1
<1>10. /\ d.blocks \in Seq(Seq(Items)) /\ BlocksFit(d.blocks) /\ Extends(bs, d.blocks)
       /\ FlattenSeq(d.blocks) \o buf = FlattenSeq(bs) \o Block(t)
       /\ FlattenSeq(d.blocks) \in Seq(Items)
  <2>1. CASE d.blocks = bs /\ buf = Block(t)
    <3>1. Extends(bs, bs)
      BY <1>2, LenProperties DEF Extends
    <3>2. FlattenSeq(bs) \in Seq(Items)
      BY <1>2, FlattenType
    <3>3. QED
      BY <1>2, <2>1, <3>1, <3>2
  <2>2. CASE /\ d.blocks = Append(bs, t) /\ buf = <<>> /\ t \in Seq(Items) /\ Len(t) = BLOCK_SIZE
             /\ Block(t) = t
    <3>1. Len(t) \in 1..BLOCK_SIZE
      BY <1>2, <2>2
    <3>2. /\ Append(bs, t) \in Seq(Seq(Items)) /\ BlocksFit(Append(bs, t)) /\ Extends(bs, Append(bs, t))
          /\ FlattenSeq(Append(bs, t)) = FlattenSeq(bs) \o t
      BY <1>2, <2>2, <3>1, PushBlock
    <3>3. FlattenSeq(Append(bs, t)) \in Seq(Items)
      BY <3>2, FlattenType
    <3>4. FlattenSeq(Append(bs, t)) \o <<>> = FlattenSeq(Append(bs, t))
      BY <3>3, ConcatEmptySeq
    <3>5. QED
      BY <2>2, <3>2, <3>3, <3>4
  <2>3. QED
    BY <1>5, <2>1, <2>2
<1>11. BlocksOK(d.tmp, d.blocks)
  BY <1>9, <1>10 DEF BlocksOK
<1>12. InHand(d) = InHand(c)
  <2> DEFINE F == FlattenSeq(d.blocks)
             x == First(out, n)
             y == Rest(out, n)
  <2>0. F \in Seq(Items) /\ x \in Seq(Items) /\ y \in Seq(Items)
    BY <1>8, <1>10
  <2>1. out = x \o y /\ d.tmp = buf \o x /\ d.out = y
    BY <1>1, <1>8
  <2>2. InHand(d) = (F \o d.tmp) \o d.out
    BY <1>9 DEF InHand, Block
  <2>3. InHand(c) = (F \o buf) \o out
    BY <1>3, <1>10
  <2> HIDE DEF F, x, y
  <2>4. (F \o buf) \o x = F \o (buf \o x) /\ F \o buf \in Seq(Items)
    BY <1>4, <2>0, ConcatAssociative, ConcatProperties, SMTT(30)
  <2>5. ((F \o buf) \o x) \o y = (F \o buf) \o (x \o y)
    <3> DEFINE v == F \o buf
    <3>1. v \in Seq(Items)
      BY <2>4
    <3> HIDE DEF v
    <3>2. (v \o x) \o y = v \o (x \o y)
      BY <2>0, <3>1, ConcatAssociative, SMTT(30)
    <3>3. QED
      BY <3>2 DEF v
  <2>6. QED
    BY <2>1, <2>2, <2>3, <2>4, <2>5
<1>13. d.out \in Seq(Items) /\ Len(d.out) = Len(out) - n
  BY <1>1, <1>8
<1>14. n = Len(out) => d.out = <<>>
  BY <1>6, <1>13, EmptySeq
<1>15. d.out = <<>> \/ Len(d.out) < Len(out)
  <2>1. n = Len(out) \/ n > 0
    BY <1>2, <1>4, <1>7
  <2>2. QED
    BY <1>6, <1>7, <1>13, <1>14, <2>1
<1>16. d.done => d.out = <<>>
  <2>1. d.done => n = Len(out)
    BY <1>1, <1>2, <1>4, <1>7
  <2>2. QED
    BY <1>14, <2>1
<1>17. QED
  BY <1>9, <1>10, <1>11, <1>12, <1>13, <1>15, <1>16 DEF d, bs, t, out

\* Where the rounds of a loop stand.
LEMMA LoopDef ==
    ASSUME NEW out, Len(out) \in Nat
    PROVE  \E f : /\ f[0] = [tmp |-> tmp, blocks |-> zipped, out |-> out, done |-> FALSE]
                  /\ \A i \in Nat : i + 1 <= Len(out) + 2
                        => f[i + 1] = IF f[i].done THEN f[i] ELSE Round(f[i])
                  /\ Loop(out) = f[Len(out) + 2]
<1> DEFINE start == [tmp |-> tmp, blocks |-> zipped, out |-> out, done |-> FALSE]
           R(f, n) == f = [i \in 0..n |-> IF i = 0 THEN start
                                          ELSE IF f[i - 1].done THEN f[i - 1] ELSE Round(f[i - 1])]
           S == {n \in Nat : \E f : R(f, n)}
           N == Len(out) + 2
<1>0. N \in Nat
  OBVIOUS
<1>1. Loop(out) = (CHOOSE f : R(f, N))[N]
  BY DEF Loop
<1> HIDE DEF start, N
<1>2. 0 \in S
  <2> DEFINE f0 == [i \in 0..0 |-> start]
  <2>1. R(f0, 0)
    OBVIOUS
  <2>2. QED
    BY <2>1
<1>3. ASSUME NEW n \in Nat, n \in S PROVE n + 1 \in S
  <2>1. PICK f : R(f, n)
    BY <1>3
  <2> DEFINE g == [i \in 0..n + 1 |-> IF i = 0 THEN start
                                      ELSE IF f[i - 1].done THEN f[i - 1] ELSE Round(f[i - 1])]
  <2>2. \A i \in 0..n : f[i] = IF i = 0 THEN start
                               ELSE IF f[i - 1].done THEN f[i - 1] ELSE Round(f[i - 1])
    BY <2>1
  <2>3. \A i \in 0..n : g[i] = f[i]
    BY <2>2
  <2>4. ASSUME NEW i \in 0..n + 1, i # 0 PROVE g[i - 1] = f[i - 1]
    <3>1. i - 1 \in 0..n
      BY <1>3, <2>4
    <3>2. QED
      BY <2>3, <3>1
  <2>5. R(g, n + 1)
    BY <2>4
  <2>6. n + 1 \in Nat
    BY <1>3
  <2>7. QED
    BY <2>5, <2>6
<1>4. N \in S
  <2> HIDE DEF S
  <2>1. QED
    BY <1>0, <1>2, <1>3, Induction
<1> DEFINE F == CHOOSE f : R(f, N)
<1>5. R(F, N)
  BY <1>4
<1>6. Loop(out) = F[N]
  BY <1>1
<1> HIDE DEF F
<1>7. \A i \in 0..N : F[i] = IF i = 0 THEN start
                             ELSE IF F[i - 1].done THEN F[i - 1] ELSE Round(F[i - 1])
  BY <1>5
<1>8. F[0] = start
  <2>1. 0 \in 0..N
    BY <1>0
  <2>2. QED
    BY <1>7, <2>1
<1>9. ASSUME NEW i \in Nat, i + 1 <= N
      PROVE  F[i + 1] = IF F[i].done THEN F[i] ELSE Round(F[i])
  <2> DEFINE j == i + 1
  <2>1. j \in 0..N /\ j # 0 /\ j - 1 = i
    BY <1>0, <1>9
  <2> HIDE DEF j
  <2>2. F[j] = IF F[j - 1].done THEN F[j - 1] ELSE Round(F[j - 1])
    BY <1>7, <2>1
  <2>3. QED
    BY <2>1, <2>2 DEF j
<1>10. QED
  BY <1>6, <1>8, <1>9 DEF start, N

\* The loop writes all of the output behind what was written before, in blocks that
\* are pushed behind those that were there.
LEMMA LoopKeeps ==
    ASSUME BlocksOK(tmp, zipped), NEW out \in Seq(Items)
    PROVE  LET c == Loop(out)
           IN  /\ BlocksOK(c.tmp, c.blocks) /\ c.tmp \in Seq(Items) /\ Extends(zipped, c.blocks)
               /\ FlattenSeq(c.blocks) \o c.tmp = Written \o out
<1>1. Len(out) \in Nat
  BY LenProperties
<1>2. PICK f : /\ f[0] = [tmp |-> tmp, blocks |-> zipped, out |-> out, done |-> FALSE]
               /\ \A i \in Nat : i + 1 <= Len(out) + 2
                     => f[i + 1] = IF f[i].done THEN f[i] ELSE Round(f[i])
               /\ Loop(out) = f[Len(out) + 2]
  BY <1>1, LoopDef
<1> DEFINE n == Len(out)
           Kept(c)    == /\ BlocksOK(c.tmp, c.blocks) /\ c.out \in Seq(Items)
                         /\ Extends(zipped, c.blocks) /\ InHand(c) = Written \o out
                         /\ c.done => c.out = <<>>
           S == {i \in Nat : i <= n + 2
                    => /\ Kept(f[i])
                       /\ f[i].out = <<>> \/ Len(f[i].out) + i <= n
                       /\ i # 0 => f[i].tmp # NoBlock}
<1>3. 0 \in S
  <2>1. /\ f[0].tmp = tmp /\ f[0].blocks = zipped /\ f[0].out = out /\ f[0].done = FALSE
    BY <1>2
  <2>2. Extends(zipped, zipped)
    BY LenProperties DEF BlocksOK, Extends
  <2>3. InHand(f[0]) = Written \o out
    BY <2>1 DEF InHand, Written, Block
  <2>4. Kept(f[0])
    BY <2>1, <2>2, <2>3
  <2>5. Len(f[0].out) + 0 <= n
    BY <1>1, <2>1
  <2> HIDE DEF Kept
  <2>6. QED
    BY <2>4, <2>5
<1>4. ASSUME NEW i \in Nat, i \in S PROVE i + 1 \in S
  <2>1. ASSUME i + 1 <= n + 2
        PROVE  /\ Kept(f[i + 1])
               /\ f[i + 1].out = <<>> \/ Len(f[i + 1].out) + (i + 1) <= n
               /\ f[i + 1].tmp # NoBlock
    <3> DEFINE c == f[i]
               d == Round(c)
    <3>1. i <= n + 2
      BY <1>1, <2>1
    <3>2. Kept(c) /\ (c.out = <<>> \/ Len(c.out) + i <= n) /\ (i # 0 => c.tmp # NoBlock)
      BY <1>4, <3>1
    <3>3. f[i + 1] = IF c.done THEN c ELSE d
      BY <1>2, <2>1
    <3>4. i = 0 => ~c.done
      BY <1>2
    <3> HIDE DEF c, d
    <3>5. CASE c.done
      <4>1. f[i + 1] = c /\ c.out = <<>> /\ c.tmp # NoBlock
        BY <3>2, <3>3, <3>4, <3>5
      <4> HIDE DEF Kept
      <4>2. QED
        BY <3>2, <4>1
    <3>6. CASE ~c.done
      <4>1. f[i + 1] = d
        BY <3>3, <3>6
      <4>2. /\ BlocksOK(d.tmp, d.blocks) /\ d.out \in Seq(Items)
            /\ d.tmp # NoBlock /\ Extends(c.blocks, d.blocks) /\ InHand(d) = InHand(c)
            /\ d.out = <<>> \/ Len(d.out) < Len(c.out)
            /\ d.done => d.out = <<>>
        BY <3>2, RoundKeeps DEF d
      <4>3. Extends(zipped, d.blocks)
        <5>1. /\ zipped \in Seq(Seq(Items)) /\ c.blocks \in Seq(Seq(Items))
              /\ d.blocks \in Seq(Seq(Items))
          BY <3>2, <4>2 DEF BlocksOK
        <5>2. Extends(zipped, c.blocks) /\ Extends(c.blocks, d.blocks)
          BY <3>2, <4>2
        <5>3. QED
          BY <5>1, <5>2, ExtendsOn
      <4>4. Kept(d)
        BY <3>2, <4>2, <4>3
      <4>5. d.out = <<>> \/ Len(d.out) + (i + 1) <= n
        <5>1. CASE d.out = <<>>
          BY <5>1
        <5>2. CASE d.out # <<>>
          <6>1. Len(d.out) < Len(c.out) /\ Len(c.out) \in Nat /\ Len(d.out) \in Nat
            BY <3>2, <4>2, <5>2, LenProperties
          <6>2. c.out # <<>>
            BY <6>1, EmptySeq
          <6>3. Len(c.out) + i <= n
            BY <3>2, <6>2
          <6> DEFINE a == Len(d.out)
                     b == Len(c.out)
          <6>4. a < b /\ b \in Nat /\ a \in Nat /\ b + i <= n /\ n \in Nat
            BY <1>1, <6>1, <6>3
          <6> HIDE DEF a, b, n
          <6>5. a + (i + 1) <= n
            BY <1>4, <6>4
          <6>6. QED
            BY <6>5 DEF a
        <5>3. QED
          BY <5>1, <5>2
      <4> HIDE DEF Kept
      <4>6. QED
        BY <4>1, <4>2, <4>4, <4>5
    <3>7. QED
      BY <3>5, <3>6
  <2>2. i + 1 \in Nat
    BY <1>4
  <2> HIDE DEF Kept
  <2>3. QED
    BY <2>1, <2>2
<1>5. \A i \in Nat : i \in S
  <2> HIDE DEF S
  <2>1. QED
    BY <1>3, <1>4, Induction
<1> DEFINE m == n + 2
           c == f[m]
<1>6. m \in Nat /\ m <= n + 2 /\ m # 0 /\ m > n
  BY <1>1
<1>7. Loop(out) = c
  BY <1>2
<1>8. Kept(c) /\ (c.out = <<>> \/ Len(c.out) + m <= n) /\ c.tmp # NoBlock
  <2> HIDE DEF m, Kept
  <2>1. QED
    BY <1>5, <1>6
<1> HIDE DEF c, m
<1>9. c.out = <<>>
  <2>1. Len(c.out) \in Nat
    BY <1>8, LenProperties
  <2>2. QED
    BY <1>1, <1>6, <1>8, <2>1
<1>10. c.tmp \in Seq(Items) /\ c.blocks \in Seq(Seq(Items)) /\ FlattenSeq(c.blocks) \in Seq(Items)
  BY <1>8, FlattenType DEF BlocksOK
<1>11. InHand(c) = FlattenSeq(c.blocks) \o c.tmp
  <2>1. FlattenSeq(c.blocks) \o c.tmp \in Seq(Items)
    BY <1>10, ConcatProperties
  <2>2. (FlattenSeq(c.blocks) \o c.tmp) \o <<>> = FlattenSeq(c.blocks) \o c.tmp
    BY <2>1, ConcatEmptySeq
  <2>3. QED
    BY <1>8, <1>9, <2>2 DEF InHand, Block
<1>12. QED
  BY <1>7, <1>8, <1>10, <1>11

\* The whole stream as it is in some blocks and the block at hand; what a call that
\* has out written makes of it.
Stream(t, bs)      == FlattenSeq(bs) \o Block(t)
Writes(t, bs, out) == /\ BlocksOK(t, bs) /\ Extends(zipped, bs)
                      /\ Stream(t, bs) = Written \o out

\* compress writes what deflate gives it, and so does flush, which leaves no block.
LEMMA CallsWrite ==
    ASSUME BlocksOK(tmp, zipped), NEW out \in Seq(Items)
    PROVE  LET c == Loop(out)
               d == FlushLoop(out)
           IN  /\ Writes(c.tmp, c.blocks, out)
               /\ Writes(d.tmp, d.blocks, out) /\ Block(d.tmp) = <<>>
               /\ FlattenSeq(d.blocks) = Stream(d.tmp, d.blocks)
<1> DEFINE c == Loop(out)
           t  == c.tmp
           bs == c.blocks
           d == FlushLoop(out)
<1>1. /\ BlocksOK(t, bs) /\ t \in Seq(Items) /\ Extends(zipped, bs)
      /\ FlattenSeq(bs) \o t = Written \o out
  BY LoopKeeps
<1>2. /\ d.tmp = IF t # <<>> THEN NoBlock ELSE t
      /\ d.blocks = IF t # <<>> THEN Append(bs, t) ELSE bs
  BY DEF FlushLoop
<1> HIDE DEF c, t, bs, d
<1>3. /\ Len(t) \in Nat /\ Len(t) <= BLOCK_SIZE /\ bs \in Seq(Seq(Items)) /\ BlocksFit(bs)
      /\ t # NoBlock /\ BLOCK_SIZE \in Nat \ {0} /\ zipped \in Seq(Seq(Items))
  BY <1>1, GZipAssumption, LenProperties DEF BlocksOK
<1>4. FlattenSeq(bs) \in Seq(Items) /\ Block(t) = t /\ Block(NoBlock) = <<>> /\ <<>> \in Seq(Items)
  BY <1>3, FlattenType, EmptySeq DEF Block
<1>5. Writes(t, bs, out)
  BY <1>1, <1>4 DEF Writes, Stream
<1>6. Writes(d.tmp, d.blocks, out) /\ Block(d.tmp) = <<>> /\ FlattenSeq(d.blocks) = Stream(d.tmp, d.blocks)
  <2>1. CASE t = <<>>
    <3>1. d.tmp = t /\ d.blocks = bs
      BY <1>2, <2>1
    <3>2. FlattenSeq(bs) \o <<>> = FlattenSeq(bs)
      BY <1>4, ConcatEmptySeq
    <3>3. QED
      BY <1>4, <1>5, <2>1, <3>1, <3>2 DEF Stream
  <2>2. CASE t # <<>>
    <3> DEFINE cs == Append(bs, t)
    <3>1. d.tmp = NoBlock /\ d.blocks = cs
      BY <1>2, <2>2
    <3>2. Len(t) \in 1..BLOCK_SIZE
      BY <1>1, <1>3, <2>2, EmptySeq
    <3>3. /\ cs \in Seq(Seq(Items)) /\ BlocksFit(cs) /\ Extends(bs, cs)
          /\ FlattenSeq(cs) = FlattenSeq(bs) \o t
      BY <1>1, <1>3, <3>2, PushBlock
    <3> HIDE DEF cs
    <3>4. Extends(zipped, cs)
      BY <1>1, <1>3, <3>3, ExtendsOn
    <3>5. BlocksOK(NoBlock, cs)
      BY <3>3 DEF BlocksOK
    <3>6. FlattenSeq(cs) \in Seq(Items)
      BY <3>3, FlattenType
    <3>7. FlattenSeq(cs) \o <<>> = FlattenSeq(cs)
      BY <3>6, ConcatEmptySeq
    <3>8. Stream(NoBlock, cs) = FlattenSeq(cs)
      BY <1>4, <3>7 DEF Stream
    <3>9. QED
      BY <1>1, <1>4, <3>1, <3>3, <3>4, <3>5, <3>8 DEF Writes
  <2>3. QED
    BY <2>1, <2>2
<1>7. QED
  BY <1>5, <1>6 DEF c, t, bs, d
-----------------------------------------------------------------------------
(* The invariant.                                                          *)

GZipTypeOK ==
    /\ given \in Nat /\ held \in 0..given
    /\ BlocksOK(tmp, zipped)
    /\ fed \in 0..Len(zipped) /\ unzipped \in Seq(Seq(Items))
    /\ flushed \in BOOLEAN /\ closed \in BOOLEAN

\* what is between the header and the end, and where the end is
Begins(w)  == Len(w) # 0 /\ w[1] = Header
NoEnd(w)   == \A i \in 1..Len(w) : w[i] # End
EndsAt(w)  == \A i \in 1..Len(w) : w[i] = End <=> i = Len(w) - 1

\* After a flush deflate holds back nothing, and there is no block.
NothingLeft == flushed => held = 0 /\ Block(tmp) = <<>>

Ended == IF closed
         THEN /\ flushed /\ Len(zipped) # 0 /\ zipped[Len(zipped)] = <<Trailer>>
              /\ EndsAt(Written)
         ELSE NoEnd(Written)

\* the bytes of the blocks that were fed
Unzipped == FlattenSeq(unzipped) = BytesIn(FlattenSeq(SubSeq(zipped, 1, fed)))

GZipInv == /\ GZipTypeOK
           /\ Begins(Written) /\ BytesIn(Written) = BytesOf(1, given - held)
           /\ NothingLeft /\ Ended /\ Unzipped

\* It says all that GZipDelivers does.
LEMMA GZipInvDelivers ==
    ASSUME GZipInv
    PROVE  GZipDelivers
<1>1. /\ given \in Nat /\ held \in 0..given /\ BlocksOK(tmp, zipped)
      /\ Begins(Written) /\ BytesIn(Written) = BytesOf(1, given - held)
      /\ NothingLeft /\ Ended /\ Unzipped
  BY DEF GZipInv, GZipTypeOK
<1>2. zipped \in Seq(Seq(Items)) /\ BlocksFit(zipped) /\ Block(tmp) \in Seq(Items)
  BY <1>1, EmptySeq DEF BlocksOK, Block
<1>3. FlattenSeq(zipped) \in Seq(Items) /\ Written = FlattenSeq(zipped) \o Block(tmp)
  BY <1>2, FlattenType DEF Written, Block
<1>4. Written \in Seq(Items)
  BY <1>2, <1>3, ConcatProperties
<1>5. DOMAIN zipped = 1..Len(zipped) /\ DOMAIN Written = 1..Len(Written)
  BY <1>2, <1>4, LenProperties
<1>6. Head(Written) = Header
  BY <1>1 DEF Begins
<1>7. \A i \in DOMAIN zipped : Len(zipped[i]) \in 1..BLOCK_SIZE
  BY <1>2, <1>5 DEF BlocksFit
<1>8. flushed => BytesIn(FlattenSeq(zipped)) = BytesOf(1, given)
  <2>1. flushed => given - held = given /\ Block(tmp) = <<>>
    BY <1>1 DEF NothingLeft
  <2>2. FlattenSeq(zipped) \o <<>> = FlattenSeq(zipped)
    BY <1>3, ConcatEmptySeq
  <2>3. QED
    BY <1>1, <1>3, <2>1, <2>2
<1>9. closed => /\ Last(zipped) = <<Trailer>>
                /\ \A i \in DOMAIN Written : Written[i] = End <=> i = Len(Written) - 1
  BY <1>1, <1>5 DEF Ended, EndsAt, Last
<1>10. QED
  BY <1>1, <1>6, <1>7, <1>8, <1>9 DEF GZipDelivers, Unzipped

\* What the stream is when a call has added out to what was written.
Grows(t, bs, out) ==
    /\ Stream(t, bs) \in Seq(Items) /\ Begins(Stream(t, bs))
    /\ BytesIn(Stream(t, bs)) = BytesIn(Written) \o BytesIn(out)
    /\ Len(bs) \in Nat /\ fed \in 0..Len(bs) /\ SubSeq(bs, 1, fed) = SubSeq(zipped, 1, fed)
    /\ Len(Stream(t, bs)) = Len(Written) + Len(out) /\ Len(Written) \in Nat
    /\ Len(out) \in Nat
    /\ \A i \in 1..Len(Written) : Stream(t, bs)[i] = Written[i]
    /\ \A i \in 1..Len(out) : Stream(t, bs)[Len(Written) + i] = out[i]

\* The stream that a call adds to begins where it began, its bytes are the bytes that
\* were in it and those that are added, and the blocks that were fed are the same.
LEMMA StreamGrows ==
    ASSUME GZipTypeOK, Begins(Written), NEW t, NEW bs, NEW out \in Seq(Items), Writes(t, bs, out)
    PROVE  Grows(t, bs, out)
<1> DEFINE w == Written
           n == Len(w)
           s == Stream(t, bs)
<1>1. /\ zipped \in Seq(Seq(Items)) /\ Block(tmp) \in Seq(Items) /\ fed \in 0..Len(zipped)
      /\ bs \in Seq(Seq(Items)) /\ Extends(zipped, bs)
  BY EmptySeq DEF GZipTypeOK, BlocksOK, Block, Writes
<1>2. w \in Seq(Items)
  <2>1. FlattenSeq(zipped) \in Seq(Items) /\ w = FlattenSeq(zipped) \o Block(tmp)
    BY <1>1, FlattenType DEF Written, Block
  <2>2. QED
    BY <1>1, <2>1, ConcatProperties
<1>3. s = w \o out
  BY DEF Writes
<1> HIDE DEF s
<1>4. n \in Nat /\ Len(out) \in Nat /\ n # 0 /\ w[1] = Header
  BY <1>2, LenProperties DEF Begins
<1> HIDE DEF w
<1>5. /\ s \in Seq(Items) /\ Len(s) = n + Len(out)
      /\ \A i \in 1..n + Len(out) : s[i] = IF i <= n THEN w[i] ELSE out[i - n]
  BY <1>2, <1>3, ConcatProperties
<1> HIDE DEF n
<1>6. \A i \in 1..n : s[i] = w[i]
  BY <1>4, <1>5
<1>7. ASSUME NEW i \in 1..Len(out) PROVE s[n + i] = out[i]
  <2> DEFINE j == n + i
  <2>1. j \in 1..n + Len(out) /\ ~(j <= n) /\ j - n = i
    BY <1>4, <1>7
  <2> HIDE DEF j
  <2>2. s[j] = out[j - n]
    BY <1>5, <2>1
  <2>3. QED
    BY <2>1, <2>2 DEF j
<1>8. Begins(s)
  <2>1. 1 \in 1..n /\ Len(s) # 0
    BY <1>4, <1>5
  <2>2. QED
    BY <1>4, <1>6, <2>1 DEF Begins
<1>9. BytesIn(s) = BytesIn(w) \o BytesIn(out)
  BY <1>2, <1>3, BytesInConcat
<1>10. Len(bs) \in Nat /\ fed \in 0..Len(bs) /\ SubSeq(bs, 1, fed) = SubSeq(zipped, 1, fed)
  <2>1. /\ Len(zipped) \in Nat /\ Len(bs) \in Nat /\ Len(zipped) <= Len(bs)
        /\ \A i \in 1..Len(zipped) : bs[i] = zipped[i]
    BY <1>1, LenProperties DEF Extends
  <2>2. fed \in 0..Len(bs)
    BY <1>1, <2>1
  <2>3. \A i \in 1..fed : i \in 1..Len(zipped)
    BY <1>1, <2>1
  <2>4. \A i \in 1..fed : bs[i] = zipped[i]
    BY <2>1, <2>3
  <2> DEFINE x == SubSeq(bs, 1, fed)
             y == SubSeq(zipped, 1, fed)
  <2>5. /\ x \in Seq(Seq(Items)) /\ Len(x) = fed
        /\ y \in Seq(Seq(Items)) /\ Len(y) = fed
    BY <1>1, <2>2, FirstType
  <2>6. \A i \in 1..fed : x[i] = bs[i] /\ y[i] = zipped[i]
    BY <1>1, <2>2, FirstType
  <2> HIDE DEF x, y
  <2>7. Len(x) = Len(y) /\ \A i \in 1..Len(x) : x[i] = y[i]
    BY <2>4, <2>5, <2>6
  <2>8. x = y
    BY <2>5, <2>7, SeqEqual
  <2>9. QED
    BY <2>1, <2>2, <2>8 DEF x, y
<1>11. QED
  BY <1>4, <1>5, <1>6, <1>7, <1>8, <1>9, <1>10 DEF n, w, s, Grows

\* The end has been written, and nothing behind it.
EndIsLast(w) == \A i \in 1..Len(w) : w[i] = End <=> i = Len(w)

\* No end comes of what has none; the end stays the last but one; the trailer behind
\* the end makes it so.
LEMMA EndOfStream ==
    ASSUME NEW w, NEW out, NEW s, Len(w) \in Nat, Len(out) \in Nat, Len(s) = Len(w) + Len(out),
           \A i \in 1..Len(w) : s[i] = w[i],
           \A i \in 1..Len(out) : s[Len(w) + i] = out[i]
    PROVE  /\ NoEnd(w) /\ NoEnd(out) => NoEnd(s)
           /\ Len(out) > 1 /\ NoEnd(w) /\ EndsAt(out) => EndsAt(s)
           /\ Len(out) = 1 /\ out[1] # End /\ EndIsLast(w) => EndsAt(s)
<1> DEFINE m == Len(w)
           n == Len(out)
           l == Len(s)
<1>1. m \in Nat /\ n \in Nat /\ l = m + n
  OBVIOUS
<1>2. (\A i \in 1..m : s[i] = w[i]) /\ (\A i \in 1..n : s[m + i] = out[i])
  OBVIOUS
<1> HIDE DEF m, n, l
<1>3. ASSUME NEW i \in 1..l
      PROVE  (i \in 1..m /\ s[i] = w[i]) \/ \E j \in 1..n : i = m + j /\ s[i] = out[j]
  <2>1. CASE i <= m
    BY <1>1, <1>2, <1>3, <2>1
  <2>2. CASE ~(i <= m)
    <3> DEFINE j == i - m
    <3>1. j \in 1..n /\ i = m + j
      BY <1>1, <1>3, <2>2
    <3> HIDE DEF j
    <3>2. s[i] = out[j]
      BY <1>2, <3>1
    <3>3. QED
      BY <3>1, <3>2
  <2>3. QED
    BY <2>1, <2>2
<1>4. ASSUME NoEnd(w), NoEnd(out) PROVE NoEnd(s)
  <2>1. (\A i \in 1..m : w[i] # End) /\ (\A i \in 1..n : out[i] # End)
    BY <1>4 DEF NoEnd, m, n
  <2>2. \A i \in 1..l : s[i] # End
    BY <1>3, <2>1
  <2>3. QED
    BY <2>2 DEF NoEnd, l
<1>5. ASSUME n > 1, NoEnd(w), EndsAt(out) PROVE EndsAt(s)
  <2>1. (\A i \in 1..m : w[i] # End) /\ (\A i \in 1..n : out[i] = End <=> i = n - 1)
    BY <1>5 DEF NoEnd, EndsAt, m, n
  <2>2. ASSUME NEW i \in 1..l PROVE s[i] = End <=> i = l - 1
    <3>1. CASE i \in 1..m /\ s[i] = w[i]
      <4>1. i # l - 1
        BY <1>1, <1>5, <3>1
      <4>2. QED
        BY <2>1, <3>1, <4>1
    <3>2. ASSUME NEW j \in 1..n, i = m + j, s[i] = out[j] PROVE s[i] = End <=> i = l - 1
      <4>1. i = l - 1 <=> j = n - 1
        BY <1>1, <3>2
      <4>2. QED
        BY <2>1, <3>2, <4>1
    <3>3. QED
      BY <1>3, <3>1, <3>2
  <2>3. QED
    BY <2>2 DEF EndsAt, l
<1>6. ASSUME n = 1, out[1] # End, EndIsLast(w) PROVE EndsAt(s)
  <2>1. \A i \in 1..m : w[i] = End <=> i = m
    BY <1>6 DEF EndIsLast, m
  <2>2. l - 1 = m
    BY <1>1, <1>6
  <2>3. ASSUME NEW i \in 1..l PROVE s[i] = End <=> i = m
    <3>1. CASE i \in 1..m /\ s[i] = w[i]
      BY <2>1, <3>1
    <3>2. ASSUME NEW j \in 1..n, i = m + j, s[i] = out[j] PROVE s[i] = End <=> i = m
      <4>1. j = 1 /\ i # m
        BY <1>1, <1>6, <3>2
      <4>2. QED
        BY <1>6, <3>2, <4>1
    <3>3. QED
      BY <1>3, <3>1, <3>2
  <2>4. QED
    BY <2>2, <2>3 DEF EndsAt, l
<1>7. QED
  BY <1>4, <1>5, <1>6 DEF n

\* What a step starts from.
LEMMA GZipFacts ==
    ASSUME GZipInv
    PROVE  /\ given \in Nat /\ held \in 0..given /\ given - held \in Nat /\ BlocksOK(tmp, zipped)
           /\ GZipTypeOK /\ Begins(Written) /\ BytesIn(Written) = BytesOf(1, given - held)
           /\ NothingLeft /\ Ended /\ Unzipped
  BY DEF GZipInv, GZipTypeOK

\* compress: the bytes that deflate lets go are behind those it let go before.
LEMMA CompressKeeps ==
    ASSUME GZipInv, NEW n \in 1..MaxPiece, NEW k \in 0..MaxZipped, Compress(n, k)
    PROVE  GZipInv'
<1> DEFINE a   == given - held
           b   == given + n - k
           out == BytesOf(a + 1, b)
           t   == tmp'
           bs  == zipped'
<1>1. /\ given \in Nat /\ held \in 0..given /\ a \in Nat /\ BlocksOK(tmp, zipped)
      /\ GZipTypeOK /\ Begins(Written) /\ BytesIn(Written) = BytesOf(1, a)
      /\ Ended /\ Unzipped
  BY GZipFacts
<1>2. /\ ~closed /\ k <= held + n
      /\ given' = given + n /\ held' = k /\ flushed' = FALSE
      /\ closed' = closed /\ fed' = fed /\ unzipped' = unzipped
      /\ t = Loop(BytesOf(given - held + 1, given + n - k)).tmp
      /\ bs = Loop(BytesOf(given - held + 1, given + n - k)).blocks
  BY DEF Compress
<1>3. n \in Nat /\ k \in Nat
  BY GZipAssumption
<1>4. /\ b \in Nat /\ a <= b /\ a + 1 \in Nat \ {0} /\ a + 1 <= b + 1
      /\ given' \in Nat /\ held' \in 0..given' /\ given' - held' = b
  BY <1>1, <1>2, <1>3
<1>5. t = Loop(out).tmp /\ bs = Loop(out).blocks
  BY <1>2
<1> HIDE DEF a, b, t, bs
<1>6. /\ out \in Seq(Items) /\ BytesIn(out) = out
      /\ NoEnd(out)
  BY <1>4, BytesOfType DEF NoEnd
<1>7. BytesOf(1, a) \o out = BytesOf(1, b)
  BY <1>1, <1>4, BytesOfConcat
<1> HIDE DEF out
<1>8. Writes(t, bs, out)
  BY <1>1, <1>5, <1>6, CallsWrite
<1> DEFINE s == Stream(t, bs)
<1>9. /\ s \in Seq(Items) /\ Begins(s) /\ BytesIn(s) = BytesIn(Written) \o BytesIn(out)
      /\ fed \in 0..Len(bs) /\ SubSeq(bs, 1, fed) = SubSeq(zipped, 1, fed)
      /\ Len(s) = Len(Written) + Len(out) /\ Len(Written) \in Nat /\ Len(out) \in Nat
      /\ \A i \in 1..Len(Written) : s[i] = Written[i]
      /\ \A i \in 1..Len(out) : s[Len(Written) + i] = out[i]
  <2>1. GZipTypeOK /\ Begins(Written) /\ out \in Seq(Items) /\ Writes(t, bs, out)
    BY <1>1, <1>6, <1>8
  <2>2. Grows(t, bs, out)
    BY <2>1, StreamGrows
  <2>3. QED
    BY <2>2 DEF Grows
<1>10. Written' = s
  BY DEF Written, Stream, Block, t, bs
<1> HIDE DEF s
<1>11. NoEnd(s)
  BY <1>1, <1>2, <1>6, <1>9, EndOfStream DEF Ended
<1>12. BytesIn(s) = BytesOf(1, b)
  BY <1>1, <1>6, <1>7, <1>9
<1>13. GZipTypeOK'
  <2>1. BlocksOK(t, bs)
    BY <1>8 DEF Writes
  <2>2. closed' \in BOOLEAN /\ flushed' \in BOOLEAN
    BY <1>1, <1>2 DEF GZipTypeOK
  <2>3. fed' \in 0..Len(zipped') /\ unzipped' \in Seq(Seq(Items))
    BY <1>1, <1>2, <1>9 DEF GZipTypeOK, bs
  <2>4. QED
    BY <1>4, <2>1, <2>2, <2>3 DEF GZipTypeOK, t, bs
<1>14. Begins(Written)' /\ BytesIn(Written)' = BytesOf(1, given - held)'
  BY <1>4, <1>9, <1>10, <1>12
<1>15. NothingLeft' /\ Ended'
  BY <1>2, <1>10, <1>11 DEF NothingLeft, Ended
<1>16. Unzipped'
  BY <1>1, <1>2, <1>9 DEF Unzipped, bs
<1>17. QED
  BY <1>13, <1>14, <1>15, <1>16 DEF GZipInv

\* What a flush has written: all that deflate held back, and a mark or the end.
LEMMA Added ==
    ASSUME GZipInv, NEW x \in Items, x[1] # "byte"
    PROVE  LET out == Append(Unwritten, x)
           IN  /\ out \in Seq(Items) /\ Len(out) \in Nat /\ Len(out) # 0
               /\ BytesOf(1, given - held) \o BytesIn(out) = BytesOf(1, given)
               /\ x # End => NoEnd(out)
               /\ x = End => EndIsLast(out)
<1> DEFINE a   == given - held
           u   == BytesOf(a + 1, given)
           out == Append(u, x)
<1>1. given \in Nat /\ a \in Nat /\ a <= given /\ a + 1 \in Nat \ {0} /\ a + 1 <= given + 1
  BY GZipFacts
<1>2. Append(Unwritten, x) = out
  BY DEF Unwritten
<1> HIDE DEF a
<1>3. u \in Seq(Items) /\ BytesIn(u) = u /\ \A i \in 1..Len(u) : u[i] # End
  BY <1>1, BytesOfType
<1>4. BytesOf(1, a) \o u = BytesOf(1, given)
  BY <1>1, BytesOfConcat
<1> HIDE DEF u
<1>5. /\ out \in Seq(Items) /\ Len(out) = Len(u) + 1 /\ Len(u) \in Nat
      /\ out[Len(u) + 1] = x /\ \A i \in 1..Len(u) : out[i] = u[i]
  BY <1>3, AppendProperties, LenProperties
<1>6. BytesIn(out) = u
  <2>1. ~IsByte(x)
    BY DEF IsByte
  <2>2. QED
    BY <1>3, <2>1, BytesInAppend
<1> HIDE DEF out
<1> DEFINE n == Len(u)
           m == Len(out)
<1>7. n \in Nat /\ m = n + 1
  BY <1>5
<1>8. out[m] = x /\ \A i \in 1..n : out[i] = u[i] /\ u[i] # End
  BY <1>3, <1>5, <1>7
<1> HIDE DEF n
<1>9. m \in Nat /\ m # 0
  BY <1>7
<1> HIDE DEF m
<1>10. ASSUME NEW i \in 1..m PROVE (i \in 1..n /\ i # m) \/ i = m
  BY <1>7, <1>10
<1>11. x # End => \A i \in 1..m : out[i] # End
  BY <1>8, <1>10
<1>12. x = End => \A i \in 1..m : out[i] = End <=> i = m
  BY <1>8, <1>10
<1>13. QED
  BY <1>2, <1>4, <1>5, <1>6, <1>9, <1>11, <1>12 DEF NoEnd, EndIsLast, m, a

\* flush: all that was held back and a mark, or nothing right after another flush.
LEMMA FlushKeeps ==
    ASSUME GZipInv, Flush
    PROVE  GZipInv'
<1> DEFINE a   == given - held
           out == IF flushed THEN <<>> ELSE Append(Unwritten, Mark)
           t   == tmp'
           bs  == zipped'
<1>1. /\ given \in Nat /\ held \in 0..given /\ a \in Nat /\ BlocksOK(tmp, zipped)
      /\ GZipTypeOK /\ Begins(Written) /\ BytesIn(Written) = BytesOf(1, a)
      /\ NothingLeft /\ Ended /\ Unzipped
  BY GZipFacts
<1>2. /\ ~closed /\ given' = given /\ held' = 0 /\ flushed' = TRUE
      /\ closed' = closed /\ fed' = fed /\ unzipped' = unzipped
      /\ t = FlushLoop(out).tmp /\ bs = FlushLoop(out).blocks
  BY DEF Flush
<1> HIDE DEF t, bs
<1>3. /\ given' \in Nat /\ held' \in 0..given' /\ given' - held' = given
  BY <1>1, <1>2
<1>4. out \in Seq(Items) /\ NoEnd(out) /\ BytesOf(1, a) \o BytesIn(out) = BytesOf(1, given)
  <2>1. CASE flushed
    <3>1. out = <<>> /\ a = given
      BY <1>1, <2>1 DEF NothingLeft
    <3>2. <<>> \in Seq(Items) /\ BytesIn(<<>>) = <<>> /\ NoEnd(<<>>)
      <4>1. <<>> \in Seq(Items) /\ End \in Items
        BY EmptySeq DEF Items, End
      <4>2. BytesIn(<<>>) = <<>>
        BY <4>1, BytesInAppend
      <4>3. NoEnd(<<>>)
        BY EmptySeq DEF NoEnd
      <4>4. QED
        BY <4>1, <4>2, <4>3
    <3>3. 1 \in Nat \ {0} /\ given \in Nat /\ 1 <= given + 1
      BY <1>1
    <3>4. BytesOf(1, given) \in Seq(Items)
      BY <3>3, BytesOfType
    <3>5. BytesOf(1, given) \o <<>> = BytesOf(1, given)
      BY <3>4, ConcatEmptySeq
    <3> HIDE DEF out, a
    <3>6. QED
      BY <3>1, <3>2, <3>5
  <2>2. CASE ~flushed
    <3>1. Mark \in Items /\ Mark[1] # "byte" /\ Mark # End
      BY DEF Items, Mark, End
    <3>2. out = Append(Unwritten, Mark)
      BY <2>2
    <3>3. QED
      BY <3>1, <3>2, Added
  <2>3. QED
    BY <2>1, <2>2
<1> HIDE DEF out, a
<1>5. Writes(t, bs, out) /\ Block(t) = <<>>
  BY <1>1, <1>2, <1>4, CallsWrite
<1> DEFINE s == Stream(t, bs)
<1>6. /\ s \in Seq(Items) /\ Begins(s) /\ BytesIn(s) = BytesIn(Written) \o BytesIn(out)
      /\ fed \in 0..Len(bs) /\ SubSeq(bs, 1, fed) = SubSeq(zipped, 1, fed)
      /\ Len(s) = Len(Written) + Len(out) /\ Len(Written) \in Nat /\ Len(out) \in Nat
      /\ \A i \in 1..Len(Written) : s[i] = Written[i]
      /\ \A i \in 1..Len(out) : s[Len(Written) + i] = out[i]
  <2>1. GZipTypeOK /\ Begins(Written) /\ out \in Seq(Items) /\ Writes(t, bs, out)
    BY <1>1, <1>4, <1>5
  <2>2. Grows(t, bs, out)
    BY <2>1, StreamGrows
  <2>3. QED
    BY <2>2 DEF Grows
<1>7. Written' = s
  BY DEF Written, Stream, Block, t, bs
<1> HIDE DEF s
<1>8. NoEnd(s)
  BY <1>1, <1>2, <1>4, <1>6, EndOfStream DEF Ended
<1>9. BytesIn(s) = BytesOf(1, given)
  BY <1>1, <1>4, <1>6
<1>10. GZipTypeOK'
  <2>1. BlocksOK(t, bs)
    BY <1>5 DEF Writes
  <2>2. closed' \in BOOLEAN /\ flushed' \in BOOLEAN
    BY <1>1, <1>2 DEF GZipTypeOK
  <2>3. fed' \in 0..Len(zipped') /\ unzipped' \in Seq(Seq(Items))
    BY <1>1, <1>2, <1>6 DEF GZipTypeOK, bs
  <2>4. QED
    BY <1>3, <2>1, <2>2, <2>3 DEF GZipTypeOK, t, bs
<1>11. Begins(Written)' /\ BytesIn(Written)' = BytesOf(1, given - held)'
  BY <1>3, <1>6, <1>7, <1>9
<1>12. NothingLeft' /\ Ended'
  BY <1>2, <1>5, <1>7, <1>8 DEF NothingLeft, Ended, Block, t
<1>13. Unzipped'
  BY <1>1, <1>2, <1>6 DEF Unzipped, bs
<1>14. QED
  BY <1>10, <1>11, <1>12, <1>13 DEF GZipInv

\* close: all that was held back, the end, and a block with the trailer.
LEMMA CloseKeeps ==
    ASSUME GZipInv, Close
    PROVE  GZipInv'
<1> DEFINE a   == given - held
           out == Append(Unwritten, End)
           x   == <<Trailer>>
           all == out \o x
           ds  == FlushLoop(out).blocks
           t   == tmp'
           bs  == zipped'
<1>1. /\ given \in Nat /\ held \in 0..given /\ a \in Nat /\ BlocksOK(tmp, zipped)
      /\ GZipTypeOK /\ Begins(Written) /\ BytesIn(Written) = BytesOf(1, a)
      /\ Ended /\ Unzipped
  BY GZipFacts
<1>2. /\ ~closed /\ given' = given /\ held' = 0 /\ flushed' = TRUE
      /\ closed' = TRUE /\ fed' = fed /\ unzipped' = unzipped
      /\ t = FlushLoop(out).tmp /\ bs = Append(ds, x)
  BY DEF Close
<1> HIDE DEF t, bs, ds
<1>3. /\ given' \in Nat /\ held' \in 0..given' /\ given' - held' = given
  BY <1>1, <1>2
<1>4. /\ out \in Seq(Items) /\ Len(out) \in Nat /\ Len(out) # 0 /\ EndIsLast(out)
      /\ BytesOf(1, a) \o BytesIn(out) = BytesOf(1, given)
  <2>1. End \in Items /\ End[1] # "byte"
    BY DEF Items, End
  <2> HIDE DEF a
  <2>2. QED
    BY <2>1, Added DEF a
<1>5. /\ x \in Seq(Items) /\ Len(x) = 1 /\ x[1] = Trailer /\ Trailer # End
      /\ BytesIn(x) = <<>>
  <2>1. Trailer \in Items /\ Trailer[1] # "byte"
    BY <1>1 DEF Items, Trailer
  <2>2. x \in Seq(Items) /\ BytesIn(x) = <<>>
    BY <2>1, NoBytes
  <2>3. Trailer # End
    BY DEF Trailer, End
  <2>4. QED
    BY <2>2, <2>3
<1> HIDE DEF out, x, a
<1>6. /\ all \in Seq(Items) /\ Len(all) > 1 /\ BytesIn(all) = BytesIn(out) /\ EndsAt(all)
  <2>1. /\ Len(all) = Len(out) + Len(x)
        /\ \A i \in 1..Len(out) + Len(x) : all[i] = IF i <= Len(out) THEN out[i] ELSE x[i - Len(out)]
        /\ all \in Seq(Items)
    BY <1>4, <1>5, ConcatProperties
  <2>2. BytesIn(all) = BytesIn(out)
    <3>1. BytesIn(out) \in Seq(Items) /\ BytesIn(out \o x) = BytesIn(out) \o BytesIn(x)
      BY <1>4, <1>5, BytesInConcat
    <3>2. BytesIn(out) \o <<>> = BytesIn(out)
      BY <3>1, ConcatEmptySeq
    <3>3. QED
      BY <1>5, <3>1, <3>2
  <2> HIDE DEF all
  <2> DEFINE n == Len(out)
  <2>3. n \in Nat /\ Len(x) = 1 /\ n # 0
    BY <1>4, <1>5
  <2>4. \A i \in 1..n + 1 : all[i] = IF i <= n THEN out[i] ELSE x[i - n]
    BY <2>1, <2>3
  <2>5. Len(all) = n + 1
    BY <2>1, <2>3
  <2> HIDE DEF n
  <2>6. \A i \in 1..n : all[i] = out[i]
    BY <2>3, <2>4
  <2>7. all[n + 1] = x[1]
    <3> DEFINE j == n + 1
    <3>1. j \in 1..n + 1 /\ ~(j <= n) /\ j - n = 1
      BY <2>3
    <3> HIDE DEF j
    <3>2. all[j] = x[1]
      BY <2>4, <3>1
    <3>3. QED
      BY <3>2 DEF j
  <2>8. \A i \in 1..1 : all[n + i] = x[i]
    BY <2>7
  <2>9. EndsAt(all)
    <3>1. x[1] # End
      BY <1>5
    <3>2. /\ Len(out) \in Nat /\ Len(x) \in Nat /\ Len(all) = Len(out) + Len(x)
          /\ \A i \in 1..Len(out) : all[i] = out[i]
      BY <1>5, <2>1, <2>3, <2>6 DEF n
    <3>3. \A i \in 1..Len(x) : all[Len(out) + i] = x[i]
      BY <1>5, <2>8 DEF n
    <3>4. QED
      BY <1>4, <1>5, <3>1, <3>2, <3>3, EndOfStream
  <2>10. Len(all) > 1
    BY <2>3, <2>5
  <2>11. QED
    BY <2>1, <2>2, <2>9, <2>10
<1>7. Writes(t, ds, out) /\ Block(t) = <<>> /\ FlattenSeq(ds) = Stream(t, ds)
  BY <1>1, <1>2, <1>4, CallsWrite DEF ds
<1>8. Writes(t, bs, all) /\ bs \in Seq(Seq(Items)) /\ Len(bs) # 0 /\ bs[Len(bs)] = x
  <2>1. /\ ds \in Seq(Seq(Items)) /\ BlocksFit(ds) /\ t \in Seq(Items) \cup {NoBlock}
        /\ (t # NoBlock => Len(t) <= BLOCK_SIZE) /\ Extends(zipped, ds)
        /\ FlattenSeq(ds) = Written \o out /\ zipped \in Seq(Seq(Items))
    BY <1>1, <1>7 DEF Writes, BlocksOK
  <2>2. Len(x) \in 1..BLOCK_SIZE
    BY <1>5, GZipAssumption
  <2>3. /\ bs \in Seq(Seq(Items)) /\ BlocksFit(bs) /\ Extends(ds, bs)
        /\ FlattenSeq(bs) = FlattenSeq(ds) \o x
    BY <1>2, <1>5, <2>1, <2>2, PushBlock
  <2>4. Extends(zipped, bs)
    BY <2>1, <2>3, ExtendsOn
  <2>5. BlocksOK(t, bs)
    BY <2>1, <2>3 DEF BlocksOK
  <2>6. Stream(t, bs) = Written \o all
    <3>1. FlattenSeq(bs) \in Seq(Items)
      BY <2>3, FlattenType
    <3>2. FlattenSeq(bs) \o <<>> = FlattenSeq(bs)
      BY <3>1, ConcatEmptySeq
    <3>3. Written \in Seq(Items)
      <4>1. FlattenSeq(zipped) \in Seq(Items) /\ Block(tmp) \in Seq(Items)
        BY <1>1, <2>1, FlattenType, EmptySeq DEF BlocksOK, Block
      <4>2. Written = FlattenSeq(zipped) \o Block(tmp)
        BY DEF Written, Block
      <4>3. QED
        BY <4>1, <4>2, ConcatProperties
    <3>4. (Written \o out) \o x = Written \o all
      BY <1>4, <1>5, <3>3, ConcatAssociative, SMTT(30)
    <3>5. QED
      BY <1>7, <2>1, <2>3, <3>2, <3>4 DEF Stream
  <2>7. Len(bs) # 0 /\ bs[Len(bs)] = x
    <3>1. /\ Len(bs) = Len(ds) + 1 /\ bs[Len(ds) + 1] = x /\ Len(ds) \in Nat
      BY <1>2, <1>5, <2>1, AppendProperties, LenProperties
    <3>2. QED
      BY <3>1
  <2>8. QED
    BY <2>3, <2>4, <2>5, <2>6, <2>7 DEF Writes
<1> HIDE DEF all
<1> DEFINE s == Stream(t, bs)
<1>9. /\ s \in Seq(Items) /\ Begins(s) /\ BytesIn(s) = BytesIn(Written) \o BytesIn(all)
      /\ fed \in 0..Len(bs) /\ SubSeq(bs, 1, fed) = SubSeq(zipped, 1, fed)
      /\ Len(s) = Len(Written) + Len(all) /\ Len(Written) \in Nat /\ Len(all) \in Nat
      /\ \A i \in 1..Len(Written) : s[i] = Written[i]
      /\ \A i \in 1..Len(all) : s[Len(Written) + i] = all[i]
  <2>1. GZipTypeOK /\ Begins(Written) /\ all \in Seq(Items) /\ Writes(t, bs, all)
    BY <1>1, <1>6, <1>8
  <2>2. Grows(t, bs, all)
    BY <2>1, StreamGrows
  <2>3. QED
    BY <2>2 DEF Grows
<1>10. Written' = s
  BY DEF Written, Stream, Block, t, bs
<1> HIDE DEF s
<1>11. EndsAt(s)
  BY <1>1, <1>2, <1>6, <1>9, EndOfStream DEF Ended
<1>12. BytesIn(s) = BytesOf(1, given)
  BY <1>1, <1>4, <1>6, <1>9
<1>13. GZipTypeOK'
  <2>1. BlocksOK(t, bs)
    BY <1>8 DEF Writes
  <2>2. closed' \in BOOLEAN /\ flushed' \in BOOLEAN
    BY <1>2
  <2>3. fed' \in 0..Len(zipped') /\ unzipped' \in Seq(Seq(Items))
    BY <1>1, <1>2, <1>9 DEF GZipTypeOK, bs
  <2>4. QED
    BY <1>3, <2>1, <2>2, <2>3 DEF GZipTypeOK, t, bs
<1>14. Begins(Written)' /\ BytesIn(Written)' = BytesOf(1, given - held)'
  BY <1>3, <1>9, <1>10, <1>12
<1>15. NothingLeft'
  BY <1>2, <1>7 DEF NothingLeft, Block, t
<1>16. Ended'
  <2>1. x = <<Trailer>>'
    BY <1>2 DEF x, Trailer
  <2>2. Len(zipped') # 0 /\ zipped'[Len(zipped')] = <<Trailer>>'
    BY <1>8, <2>1 DEF bs
  <2>3. EndsAt(Written)'
    BY <1>10, <1>11
  <2>4. QED
    BY <1>2, <2>2, <2>3 DEF Ended
<1>17. Unzipped'
  BY <1>1, <1>2, <1>9 DEF Unzipped, bs
<1>18. QED
  BY <1>13, <1>14, <1>15, <1>16, <1>17 DEF GZipInv

\* A block more that is inflated is the bytes of a block more.
LEMMA DecompressKeeps ==
    ASSUME GZipInv, Decompress
    PROVE  GZipInv'
<1> DEFINE x == zipped[fed + 1]
           b == BytesIn(x)
           u == InBlocks(b)
           p == SubSeq(zipped, 1, fed)
<1>1. /\ given \in Nat /\ held \in 0..given /\ BlocksOK(tmp, zipped)
      /\ GZipTypeOK /\ Begins(Written) /\ BytesIn(Written) = BytesOf(1, given - held)
      /\ NothingLeft /\ Ended /\ Unzipped
  BY GZipFacts
<1>2. /\ given' = given /\ held' = held /\ tmp' = tmp /\ zipped' = zipped
      /\ flushed' = flushed /\ closed' = closed
      /\ fed < Len(zipped) /\ fed' = fed + 1 /\ unzipped' = unzipped \o u
  BY DEF Decompress
<1>3. /\ zipped \in Seq(Seq(Items)) /\ Len(zipped) \in Nat /\ fed \in 0..Len(zipped)
      /\ unzipped \in Seq(Seq(Items))
  BY <1>1, LenProperties DEF GZipTypeOK, BlocksOK
<1>4. fed + 1 <= Len(zipped) /\ fed + 1 \in 0..Len(zipped)
  BY <1>2, <1>3
<1>5. x \in Seq(Items) /\ SubSeq(zipped, 1, fed + 1) = Append(p, x) /\ p \in Seq(Seq(Items))
  BY <1>3, <1>4, FirstType
<1> HIDE DEF x, p
<1>6. b \in Seq(Items)
  BY <1>5, BytesInConcat
<1> HIDE DEF b
<1>7. u \in Seq(Seq(Items)) /\ FlattenSeq(u) = b
  BY <1>6, BlocksHold
<1> HIDE DEF u
<1>8. unzipped \o u \in Seq(Seq(Items)) /\ FlattenSeq(unzipped \o u) = FlattenSeq(unzipped) \o b
  BY <1>3, <1>7, FlattenConcat
<1>9. FlattenSeq(Append(p, x)) = FlattenSeq(p) \o x /\ FlattenSeq(p) \in Seq(Items)
  BY <1>5, FlattenAppend, FlattenType
<1>10. BytesIn(FlattenSeq(p) \o x) = BytesIn(FlattenSeq(p)) \o b
  BY <1>5, <1>9, BytesInConcat DEF b
<1>11. FlattenSeq(unzipped) = BytesIn(FlattenSeq(p))
  BY <1>1 DEF Unzipped, p
<1>12. Unzipped'
  <2>1. FlattenSeq(unzipped') = BytesIn(FlattenSeq(SubSeq(zipped, 1, fed + 1)))
    BY <1>2, <1>5, <1>8, <1>9, <1>10, <1>11
  <2>2. QED
    BY <1>2, <2>1 DEF Unzipped
<1>13. GZipTypeOK'
  BY <1>1, <1>2, <1>4, <1>8 DEF GZipTypeOK
<1>14. Written' = Written /\ Trailer' = Trailer
  BY <1>2 DEF Written, Trailer
<1>15. /\ Begins(Written)' /\ BytesIn(Written)' = BytesOf(1, given - held)'
       /\ NothingLeft' /\ Ended'
  BY <1>1, <1>2, <1>14 DEF NothingLeft, Ended
<1>16. QED
  BY <1>12, <1>13, <1>15 DEF GZipInv

\* A new compressor, which has written the header, and a new decompressor.
LEMMA GZipInvInit ==
    ASSUME GZipInit
    PROVE  GZipInv
<1> DEFINE h == <<Header>>
<1>1. /\ given = 0 /\ held = 0 /\ tmp = h /\ zipped = <<>> /\ flushed = FALSE /\ closed = FALSE
      /\ fed = 0 /\ unzipped = <<>>
  BY DEF GZipInit
<1>2. h \in Seq(Items) /\ BytesIn(h) = <<>> /\ Len(h) = 1 /\ h[1] = Header /\ Header # End
  <2>1. Header \in Items /\ Header[1] # "byte" /\ Header # End
    BY DEF Items, Header, End
  <2>2. h \in Seq(Items) /\ BytesIn(h) = <<>>
    BY <2>1, NoBytes
  <2>3. QED
    BY <2>1, <2>2
<1> HIDE DEF h
<1>3. /\ <<>> \in Seq(Seq(Items)) /\ Len(<<>>) = 0 /\ <<>> \in Seq(Items)
  BY EmptySeq
<1>4. FlattenSeq(<<>>) = <<>>
  BY <1>3, FlattenType
<1>5. h # NoBlock /\ Block(h) = h
  BY <1>2, GZipAssumption DEF Block
<1>6. Written = h
  <2>1. <<>> \o h = h
    BY <1>2, ConcatEmptySeq
  <2>2. QED
    BY <1>1, <1>4, <1>5, <2>1 DEF Written
<1>7. BlocksOK(tmp, zipped)
  <2>1. BlocksFit(<<>>)
    BY <1>3 DEF BlocksFit
  <2>2. Len(h) <= BLOCK_SIZE
    BY <1>2, GZipAssumption
  <2>3. QED
    BY <1>1, <1>2, <1>3, <2>1, <2>2 DEF BlocksOK
<1>8. GZipTypeOK
  <2>1. given \in Nat /\ held \in 0..given
    BY <1>1
  <2>2. flushed \in BOOLEAN /\ closed \in BOOLEAN
    BY <1>1
  <2>3. Len(zipped) = 0
    BY <1>1, <1>3
  <2>4. fed \in 0..Len(zipped)
    BY <1>1, <2>3
  <2>5. unzipped \in Seq(Seq(Items))
    BY <1>1, <1>3
  <2>6. QED
    BY <1>7, <2>1, <2>2, <2>4, <2>5 DEF GZipTypeOK
<1>9. Begins(Written)
  BY <1>2, <1>6, SMTT(30) DEF Begins
<1>10. BytesIn(Written) = BytesOf(1, given - held)
  <2>1. 1 \in Nat \ {0} /\ 0 \in Nat /\ 1 <= 0 + 1
    OBVIOUS
  <2>2. BytesOf(1, 0) \in Seq(Items) /\ Len(BytesOf(1, 0)) = 0 + 1 - 1
    BY <2>1, BytesOfType
  <2>3. BytesOf(1, 0) = <<>>
    BY <2>2, EmptySeq
  <2>4. QED
    BY <1>1, <1>2, <1>6, <2>3
<1>11. NothingLeft /\ Ended
  BY <1>1, <1>2, <1>6 DEF NothingLeft, Ended, NoEnd
<1>12. Unzipped
  <2>1. SubSeq(<<>>, 1, 0) = <<>>
    BY SubSeqEmpty
  <2>2. BytesIn(<<>>) = <<>>
    <3>1. <<>> \in Seq(Items) /\ End \in Items
      BY <1>3 DEF Items, End
    <3>2. QED
      BY <3>1, BytesInAppend
  <2>3. QED
    BY <1>1, <1>4, <2>1, <2>2 DEF Unzipped
<1>13. QED
  BY <1>8, <1>9, <1>10, <1>11, <1>12 DEF GZipInv
-----------------------------------------------------------------------------
\* The invariant holds in every state of every run: the stream begins with the header,
\* holds what compress was given up to what deflate holds back, once and in order, in
\* blocks that fit; what a flush and the close promise; and what the decompressor has
\* is what was in the blocks it was fed.
THEOREM GZipInvariant == GZipSpec => []GZipInv
<1>1. GZipInit => GZipInv
  BY GZipInvInit
<1>2. GZipInv /\ [GZipNext]_gzipVars => GZipInv'
  <2> SUFFICES ASSUME GZipInv, [GZipNext]_gzipVars PROVE GZipInv'
    OBVIOUS
  <2>1. ASSUME NEW n \in 1..MaxPiece, NEW k \in 0..MaxZipped, Compress(n, k) PROVE GZipInv'
    BY <2>1, CompressKeeps
  <2>2. CASE Flush
    BY <2>2, FlushKeeps
  <2>3. CASE Close
    BY <2>3, CloseKeeps
  <2>4. CASE Decompress
    BY <2>4, DecompressKeeps
  <2>5. CASE UNCHANGED gzipVars
    BY <2>5 DEF gzipVars, GZipInv, GZipTypeOK, NothingLeft, Ended, Unzipped, Written, Trailer
  <2>6. QED
    BY <2>1, <2>2, <2>3, <2>4, <2>5 DEF GZipNext
<1>3. QED
  BY <1>1, <1>2, PTL DEF GZipSpec

\* GZipCompressor and GZipDecompressor lose, double and reorder nothing, however the
\* bytes come, are flushed and are cut into blocks.
THEOREM GZipDeliversHolds == GZipSpec => []GZipDelivers
<1>1. GZipInv => GZipDelivers
  BY GZipInvDelivers
<1>2. QED
  BY <1>1, GZipInvariant, PTL
=============================================================================
