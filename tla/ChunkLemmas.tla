---------------------------- MODULE ChunkLemmas ----------------------------
(***************************************************************************)
(* Facts about sequences that the proofs about Buffer and GZip need: what  *)
(* chunks hold one behind the other, and what is left of a sequence when   *)
(* its first elements are taken.  Induction is over a set, which the       *)
(* provers can instantiate where they cannot instantiate an operator.      *)
(***************************************************************************)
EXTENDS Naturals, Sequences, SequencesExt, SequenceTheorems, WellFoundedInduction, TLAPS

-----------------------------------------------------------------------------
(* Induction.                                                              *)

\* What holds of 0 and of the number after each holds of all.
LEMMA Induction ==
    ASSUME NEW S, 0 \in S, \A n \in Nat : n \in S => n + 1 \in S
    PROVE  \A n \in Nat : n \in S
<1> DEFINE T == Nat \ S
<1> SUFFICES ASSUME T # {} PROVE FALSE
  OBVIOUS
<1>1. PICK n \in T : \A m \in T : <<m, n>> \notin OpToRel(<, Nat)
  BY NatLessThanWellFounded, WFMin
<1>2. n \in Nat \ {0}
  OBVIOUS
<1>3. n - 1 \in Nat /\ n - 1 < n /\ n - 1 + 1 = n
  BY <1>2
<1>4. n - 1 \notin T
  BY <1>1, <1>2, <1>3 DEF OpToRel
<1>5. QED
  BY <1>2, <1>3, <1>4

\* A non-empty set of numbers has a least one.
LEMMA LeastNumber ==
    ASSUME NEW T, T \subseteq Nat, T # {}
    PROVE  \E i \in T : \A j \in T : i <= j
<1>1. PICK i \in T : \A j \in T : <<j, i>> \notin OpToRel(<, Nat)
  BY NatLessThanWellFounded, WFMin
<1>2. ASSUME NEW j \in T PROVE i <= j
  <2>1. i \in Nat /\ j \in Nat
    BY <1>2
  <2>2. ~(j < i)
    BY <1>1, <2>1 DEF OpToRel
  <2>3. QED
    BY <2>1, <2>2
<1>3. QED
  BY <1>2

\* What holds of the empty sequence and of every sequence with its next element holds
\* of all.
LEMMA SeqInduction ==
    ASSUME NEW D, NEW S, <<>> \in S, \A s \in Seq(D), e \in D : s \in S => Append(s, e) \in S
    PROVE  \A s \in Seq(D) : s \in S
<1> DEFINE N == {n \in Nat : \A s \in Seq(D) : Len(s) = n => s \in S}
<1>1. 0 \in N
  BY EmptySeq
<1>2. ASSUME NEW n \in Nat, n \in N PROVE n + 1 \in N
  <2>1. ASSUME NEW s \in Seq(D), Len(s) = n + 1 PROVE s \in S
    <3>1. s # <<>>
      BY <1>2, <2>1, EmptySeq
    <3>2. PICK t \in Seq(D), e \in D : s = Append(t, e)
      BY <3>1, SequenceEmptyOrAppend
    <3>3. Len(t) \in Nat /\ Len(s) = Len(t) + 1
      BY <3>2, AppendProperties, LenProperties
    <3>4. t \in S
      BY <1>2, <2>1, <3>3
    <3>5. QED
      BY <3>2, <3>4
  <2>2. n + 1 \in Nat
    BY <1>2
  <2>3. QED
    BY <2>1, <2>2
<1>3. \A n \in Nat : n \in N
  <2> HIDE DEF N
  <2>1. QED
    BY <1>1, <1>2, Induction
<1>4. QED
  BY <1>3, LenProperties

\* What holds at each position when it holds at all behind it, holds at every one.
LEMMA DownInduction ==
    ASSUME NEW L \in Nat, NEW S, \A p \in 0..L : (\A q \in (p + 1)..L : q \in S) => p \in S
    PROVE  \A p \in 0..L : p \in S
<1> DEFINE T == {k \in Nat : \A p \in 0..L : L <= p + k => p \in S}
<1>1. 0 \in T
  <2>1. ASSUME NEW p \in 0..L, L <= p + 0 PROVE p \in S
    <3>1. \A q \in (p + 1)..L : q \in S
      BY <2>1
    <3>2. QED
      BY <3>1
  <2>2. QED
    BY <2>1
<1>2. ASSUME NEW k \in Nat, k \in T PROVE k + 1 \in T
  <2>1. ASSUME NEW p \in 0..L, L <= p + (k + 1) PROVE p \in S
    <3>1. ASSUME NEW q \in (p + 1)..L PROVE q \in S
      <4>1. q \in 0..L /\ L <= q + k
        BY <1>2, <2>1, <3>1
      <4>2. QED
        BY <1>2, <4>1
    <3>2. QED
      BY <3>1
  <2>2. QED
    BY <1>2, <2>1
<1>3. L \in T
  <2> HIDE DEF T
  <2>1. QED
    BY <1>1, <1>2, Induction
<1>4. QED
  BY <1>3

\* Concatenation is associative, with a name for what is to be concatenated.
Regroups(s, t, u) == (s \o t) \o u = s \o (t \o u)

\* It is so for all sequences.
LEMMA ConcatRegroups ==
    ASSUME NEW S, NEW s \in Seq(S), NEW t \in Seq(S), NEW u \in Seq(S)
    PROVE  Regroups(s, t, u)
  BY ConcatAssociative DEF Regroups

\* What comes behind d, one after the other.
Chains(d, o, z, c) == ((d \o o) \o z) \o c = d \o ((o \o z) \o c)

\* It does for all sequences.
LEMMA ConcatChains ==
    ASSUME NEW S, NEW d \in Seq(S), NEW o \in Seq(S), NEW z \in Seq(S), NEW c \in Seq(S)
    PROVE  Chains(d, o, z, c) /\ (o \o z) \o c \in Seq(S)
<1> DEFINE x == o \o z
<1>1. Regroups(d, o, z)
  BY ConcatRegroups
<1>2. x \in Seq(S)
  BY ConcatProperties
<1>3. (d \o o) \o z = d \o x
  BY <1>1 DEF Regroups
<1> HIDE DEF x
<1>4. Regroups(d, x, c)
  BY <1>2, ConcatRegroups
<1>5. (d \o x) \o c = d \o (x \o c)
  BY <1>4 DEF Regroups
<1>6. x \o c \in Seq(S)
  BY <1>2, ConcatProperties
<1>7. QED
  BY <1>3, <1>5, <1>6 DEF x, Chains
-----------------------------------------------------------------------------
(* What chunks hold.                                                       *)

\* An element behind s and t together is one behind t.
LEMMA AppendBehind ==
    ASSUME NEW D, NEW s \in Seq(D), NEW t \in Seq(D), NEW x \in D
    PROVE  s \o Append(t, x) = Append(s \o t, x)
<1>1. Append(t, x) = t \o <<x>> /\ <<x>> \in Seq(D) /\ s \o t \in Seq(D)
  BY AppendIsConcat, ConcatProperties
<1>2. Append(s \o t, x) = (s \o t) \o <<x>>
  BY <1>1, AppendIsConcat
<1>3. QED
  BY <1>1, <1>2, ConcatAssociative

\* FlattenSeq adds one chunk after the other.
LEMMA FlattenDef ==
    ASSUME NEW D, NEW dq \in Seq(Seq(D))
    PROVE  \E f : /\ Len(dq) = 0 => FlattenSeq(dq) = <<>>
                  /\ Len(dq) # 0 => f[1] = dq[1] /\ FlattenSeq(dq) = f[Len(dq)]
                  /\ \A i \in Nat \ {0} : i + 1 <= Len(dq) => f[i + 1] = f[i] \o dq[i + 1]
<1> DEFINE R(f, n) == f = [i \in 1..n |-> IF i = 1 THEN dq[i] ELSE f[i - 1] \o dq[i]]
           S == {n \in Nat : \E f : R(f, n)}
<1>1. 0 \in S
  <2>1. R([i \in 1..0 |-> 0], 0)
    OBVIOUS
  <2>2. QED
    BY <2>1
<1>2. ASSUME NEW n \in Nat, n \in S PROVE n + 1 \in S
  <2>1. PICK f : R(f, n)
    BY <1>2
  <2> DEFINE g == [i \in 1..n + 1 |-> IF i = 1 THEN dq[i] ELSE f[i - 1] \o dq[i]]
  <2>2. \A i \in 1..n : f[i] = IF i = 1 THEN dq[i] ELSE f[i - 1] \o dq[i]
    BY <2>1
  <2>3. \A i \in 1..n : g[i] = f[i]
    BY <2>2
  <2>4. ASSUME NEW i \in 1..n + 1, i # 1 PROVE g[i - 1] = f[i - 1]
    <3>1. i - 1 \in 1..n
      BY <1>2, <2>4
    <3>2. QED
      BY <2>3, <3>1
  <2>5. R(g, n + 1)
    BY <2>4
  <2>6. n + 1 \in Nat
    BY <1>2
  <2>7. QED
    BY <2>5, <2>6
<1>3. Len(dq) \in Nat
  BY LenProperties
<1>4. Len(dq) \in S
  <2> HIDE DEF S
  <2>1. QED
    BY <1>1, <1>2, <1>3, Induction
<1> DEFINE F == CHOOSE f : R(f, Len(dq))
<1>5. R(F, Len(dq))
  BY <1>4
<1>6. FlattenSeq(dq) = IF Len(dq) = 0 THEN dq ELSE F[Len(dq)]
  BY DEF FlattenSeq
<1> HIDE DEF F
<1>7. Len(dq) = 0 => FlattenSeq(dq) = <<>>
  BY <1>6, EmptySeq
<1>8. \A i \in 1..Len(dq) : F[i] = IF i = 1 THEN dq[i] ELSE F[i - 1] \o dq[i]
  BY <1>5
<1>9. Len(dq) # 0 => F[1] = dq[1] /\ FlattenSeq(dq) = F[Len(dq)]
  BY <1>3, <1>6, <1>8
<1>10. ASSUME NEW i \in Nat \ {0}, i + 1 <= Len(dq) PROVE F[i + 1] = F[i] \o dq[i + 1]
  <2> DEFINE j == i + 1
  <2>1. j \in 1..Len(dq) /\ j # 1 /\ j - 1 = i
    BY <1>3, <1>10
  <2> HIDE DEF j
  <2>2. F[j] = F[j - 1] \o dq[j]
    BY <1>8, <2>1
  <2>3. QED
    BY <2>1, <2>2 DEF j
<1>11. QED
  BY <1>7, <1>9, <1>10

\* The content is a sequence.
LEMMA FlattenType ==
    ASSUME NEW D, NEW dq \in Seq(Seq(D))
    PROVE  FlattenSeq(dq) \in Seq(D) /\ (dq = <<>> => FlattenSeq(dq) = <<>>)
<1>1. PICK f : /\ Len(dq) = 0 => FlattenSeq(dq) = <<>>
               /\ Len(dq) # 0 => f[1] = dq[1] /\ FlattenSeq(dq) = f[Len(dq)]
               /\ \A i \in Nat \ {0} : i + 1 <= Len(dq) => f[i + 1] = f[i] \o dq[i + 1]
  BY FlattenDef
<1>2. Len(dq) \in Nat /\ \A i \in 1..Len(dq) : dq[i] \in Seq(D)
  BY LenProperties
<1> DEFINE S == {i \in Nat : i \in 1..Len(dq) => f[i] \in Seq(D)}
<1>4. 0 \in S
  OBVIOUS
<1>5. ASSUME NEW i \in Nat, i \in S PROVE i + 1 \in S
  <2>1. ASSUME i + 1 \in 1..Len(dq) PROVE f[i + 1] \in Seq(D)
    <3>1. CASE i = 0
      BY <1>1, <1>2, <2>1, <3>1
    <3>2. CASE i # 0
      <4>1. i \in 1..Len(dq) /\ i \in Nat \ {0} /\ i + 1 <= Len(dq)
        BY <1>2, <2>1, <3>2
      <4>2. f[i + 1] = f[i] \o dq[i + 1] /\ f[i] \in Seq(D) /\ dq[i + 1] \in Seq(D)
        BY <1>1, <1>2, <1>5, <2>1, <4>1
      <4>3. QED
        BY <4>2, ConcatProperties
    <3>3. QED
      BY <3>1, <3>2
  <2>2. i + 1 \in Nat
    BY <1>5
  <2>3. QED
    BY <2>1, <2>2
<1>6. \A i \in Nat : i \in S
  <2> HIDE DEF S
  <2>1. QED
    BY <1>4, <1>5, Induction
<1>7. CASE dq = <<>>
  BY <1>1, <1>7, EmptySeq
<1>8. CASE dq # <<>>
  <2>1. Len(dq) \in Nat \ {0}
    BY <1>8, EmptySeq
  <2>2. f[Len(dq)] \in Seq(D)
    BY <1>6, <2>1
  <2>3. QED
    BY <1>1, <1>8, <2>1, <2>2
<1>9. QED
  BY <1>7, <1>8

\* One chunk more at the end is so many bytes more at the end.
LEMMA FlattenAppend ==
    ASSUME NEW D, NEW dq \in Seq(Seq(D)), NEW c \in Seq(D)
    PROVE  FlattenSeq(Append(dq, c)) = FlattenSeq(dq) \o c
<1> DEFINE r == Append(dq, c)
           n == Len(dq)
<1>1. /\ r \in Seq(Seq(D)) /\ Len(r) = n + 1 /\ n \in Nat /\ r[n + 1] = c
      /\ \A i \in 1..n : r[i] = dq[i]
  BY AppendProperties, LenProperties
<1>2. PICK f : /\ n = 0 => FlattenSeq(dq) = <<>>
               /\ n # 0 => f[1] = dq[1] /\ FlattenSeq(dq) = f[n]
               /\ \A i \in Nat \ {0} : i + 1 <= n => f[i + 1] = f[i] \o dq[i + 1]
  BY FlattenDef
<1> HIDE DEF r, n
<1>3. PICK g : /\ g[1] = r[1] /\ FlattenSeq(r) = g[n + 1]
               /\ \A i \in Nat \ {0} : i + 1 <= n + 1 => g[i + 1] = g[i] \o r[i + 1]
  <2>1. PICK g : /\ Len(r) # 0 => g[1] = r[1] /\ FlattenSeq(r) = g[Len(r)]
                 /\ \A i \in Nat \ {0} : i + 1 <= Len(r) => g[i + 1] = g[i] \o r[i + 1]
    BY <1>1, FlattenDef, ZenonT(40)
  <2>2. n + 1 # 0
    BY <1>1
  <2>3. g[1] = r[1] /\ FlattenSeq(r) = g[n + 1]
    BY <1>1, <2>1, <2>2
  <2>4. \A i \in Nat \ {0} : i + 1 <= n + 1 => g[i + 1] = g[i] \o r[i + 1]
    BY <1>1, <2>1
  <2>5. QED
    BY <2>3, <2>4
<1> DEFINE S == {i \in Nat : i \in 1..n => f[i] = g[i]}
<1>5. 0 \in S
  OBVIOUS
<1>6. ASSUME NEW i \in Nat, i \in S PROVE i + 1 \in S
  <2>1. ASSUME i + 1 \in 1..n PROVE f[i + 1] = g[i + 1]
    <3>1. r[i + 1] = dq[i + 1] /\ n # 0
      BY <1>1, <2>1
    <3>2. CASE i = 0
      BY <1>2, <1>3, <3>1, <3>2
    <3>3. CASE i # 0
      <4>1. i \in 1..n /\ i \in Nat \ {0} /\ i + 1 <= n /\ i + 1 <= n + 1
        BY <1>1, <2>1, <3>3
      <4>2. f[i + 1] = f[i] \o dq[i + 1] /\ g[i + 1] = g[i] \o r[i + 1]
        BY <1>2, <1>3, <4>1
      <4>3. f[i] = g[i]
        BY <1>6, <4>1
      <4>4. QED
        BY <3>1, <4>2, <4>3
    <3>4. QED
      BY <3>2, <3>3
  <2>2. i + 1 \in Nat
    BY <1>6
  <2>3. QED
    BY <2>1, <2>2
<1>7. \A i \in Nat : i \in S
  <2> HIDE DEF S
  <2>1. QED
    BY <1>5, <1>6, Induction
<1>8. CASE n = 0
  <2>1. 0 + 1 = 1
    OBVIOUS
  <2>2. FlattenSeq(r) = c /\ FlattenSeq(dq) = <<>>
    BY <1>1, <1>2, <1>3, <1>8, <2>1
  <2>3. QED
    BY <2>2, ConcatEmptySeq DEF r
<1>9. CASE n # 0
  <2>1. n \in 1..n /\ n \in Nat \ {0} /\ n + 1 <= n + 1
    BY <1>1, <1>9
  <2>2. f[n] = g[n]
    BY <1>1, <1>7, <2>1
  <2>3. g[n + 1] = g[n] \o c
    BY <1>1, <1>3, <2>1
  <2>4. FlattenSeq(r) = g[n + 1] /\ FlattenSeq(dq) = f[n]
    BY <1>2, <1>3, <1>9
  <2>5. QED
    BY <2>2, <2>3, <2>4 DEF r
<1>10. QED
  BY <1>8, <1>9

\* The content of chunks behind others stands behind theirs.
LEMMA FlattenConcat ==
    ASSUME NEW D, NEW a \in Seq(Seq(D)), NEW b \in Seq(Seq(D))
    PROVE  a \o b \in Seq(Seq(D)) /\ FlattenSeq(a \o b) = FlattenSeq(a) \o FlattenSeq(b)
<1> DEFINE S == {s \in Seq(Seq(D)) : FlattenSeq(a \o s) = FlattenSeq(a) \o FlattenSeq(s)}
<1>1. <<>> \in S
  <2>1. a \o <<>> = a /\ <<>> \in Seq(Seq(D)) /\ FlattenSeq(<<>>) = <<>> /\ FlattenSeq(a) \in Seq(D)
    BY ConcatEmptySeq, EmptySeq, FlattenType
  <2>2. QED
    BY <2>1, ConcatEmptySeq
<1>2. ASSUME NEW s \in Seq(Seq(D)), NEW c \in Seq(D), s \in S PROVE Append(s, c) \in S
  <2>1. a \o Append(s, c) = Append(a \o s, c)
    BY AppendBehind
  <2>2. Append(s, c) \in Seq(Seq(D)) /\ a \o s \in Seq(Seq(D))
    BY AppendProperties, ConcatProperties
  <2>3. FlattenSeq(Append(a \o s, c)) = FlattenSeq(a \o s) \o c /\ FlattenSeq(Append(s, c)) = FlattenSeq(s) \o c
    BY <2>2, FlattenAppend
  <2>4. FlattenSeq(a) \in Seq(D) /\ FlattenSeq(s) \in Seq(D)
    BY FlattenType
  <2>5. (FlattenSeq(a) \o FlattenSeq(s)) \o c = FlattenSeq(a) \o (FlattenSeq(s) \o c)
    BY <2>4, ConcatAssociative, SMTT(30)
  <2>6. QED
    BY <1>2, <2>1, <2>2, <2>3, <2>5
<1>3. \A s \in Seq(Seq(D)) : s \in S
  <2> HIDE DEF S
  <2>1. QED
    BY <1>1, <1>2, SeqInduction
<1>4. QED
  BY <1>3, ConcatProperties

\* A chunk alone is what it holds.
LEMMA FlattenSingle ==
    ASSUME NEW D, NEW c \in Seq(D)
    PROVE  <<c>> \in Seq(Seq(D)) /\ FlattenSeq(<<c>>) = c
<1>1. <<>> \in Seq(Seq(D)) /\ FlattenSeq(<<>>) = <<>> /\ Append(<<>>, c) = <<c>> /\ <<>> \o c = c
  <2>1. <<>> \in Seq(Seq(D))
    BY EmptySeq
  <2>2. FlattenSeq(<<>>) = <<>>
    BY <2>1, FlattenType
  <2>3. <<>> \o c = c
    BY ConcatEmptySeq
  <2>4. Append(<<>>, c) = <<c>>
    OBVIOUS
  <2>5. QED
    BY <2>1, <2>2, <2>3, <2>4
<1>2. FlattenSeq(Append(<<>>, c)) = FlattenSeq(<<>>) \o c
  BY <1>1, FlattenAppend
<1>3. <<c>> \in Seq(Seq(D))
  BY <1>1, AppendProperties
<1>4. QED
  BY <1>1, <1>2, <1>3
-----------------------------------------------------------------------------
(* What is left of a sequence when its first elements are taken.           *)

\* The first k elements and the others, which together are all.
First(dq, k) == SubSeq(dq, 1, k)
Rest(dq, k)  == SubSeq(dq, k + 1, Len(dq))

\* They are sequences, of the lengths that are asked for.
LEMMA RestType ==
    ASSUME NEW D, NEW s \in Seq(D), NEW n \in Nat
    PROVE  /\ Rest(s, n) \in Seq(D)
           /\ Len(Rest(s, n)) = IF n <= Len(s) THEN Len(s) - n ELSE 0
           /\ \A i \in 1..Len(s) - n : Rest(s, n)[i] = s[n + i]
           /\ n <= Len(s) => /\ First(s, n) \in Seq(D) /\ Len(First(s, n)) = n
                             /\ s = First(s, n) \o Rest(s, n)
<1>1. Len(s) \in Nat /\ \A i \in 1..Len(s) : s[i] \in D
  BY LenProperties
<1>2. /\ Rest(s, n) \in Seq(D)
      /\ Len(Rest(s, n)) = IF n + 1 <= Len(s) THEN Len(s) - (n + 1) + 1 ELSE 0
      /\ \A i \in 1..Len(s) - (n + 1) + 1 : Rest(s, n)[i] = s[n + 1 + i - 1]
  <2>1. n + 1 \in Int /\ Len(s) \in Int /\ \A i \in n + 1..Len(s) : s[i] \in D
    BY <1>1
  <2>2. QED
    BY <2>1, SubSeqProperties DEF Rest
<1>3. ASSUME n <= Len(s)
      PROVE  First(s, n) \in Seq(D) /\ Len(First(s, n)) = n /\ s = First(s, n) \o Rest(s, n)
  <2>1. 1 \in Int /\ n \in Int /\ \A i \in 1..n : s[i] \in D
    BY <1>1, <1>3
  <2>2. First(s, n) \in Seq(D) /\ Len(First(s, n)) = IF 1 <= n THEN n - 1 + 1 ELSE 0
    BY <2>1, SubSeqProperties DEF First
  <2>3. 1 \in 1..Len(s) + 1 /\ n \in (1 - 1)..Len(s) /\ Len(s) \in n..Len(s)
    BY <1>1, <1>3
  <2>4. First(s, n) \o Rest(s, n) = SubSeq(s, 1, Len(s))
    BY <2>3, ConcatAdjacentSubSeq DEF First, Rest
  <2>5. QED
    BY <2>2, <2>4, SubSeqFull
<1>4. Len(Rest(s, n)) = IF n <= Len(s) THEN Len(s) - n ELSE 0
  BY <1>1, <1>2
<1>5. \A i \in 1..Len(s) - n : Rest(s, n)[i] = s[n + i]
  <2>1. ASSUME NEW i \in 1..Len(s) - n PROVE Rest(s, n)[i] = s[n + i]
    <3>1. i \in 1..Len(s) - (n + 1) + 1 /\ n + 1 + i - 1 = n + i
      BY <1>1, <2>1
    <3>2. QED
      BY <1>2, <3>1
  <2>2. QED
    BY <2>1
<1>6. QED
  BY <1>2, <1>3, <1>4, <1>5

\* The first elements one by one, and one element more of them.
LEMMA FirstType ==
    ASSUME NEW D, NEW s \in Seq(D), NEW n \in 0..Len(s)
    PROVE  /\ SubSeq(s, 1, n) \in Seq(D) /\ Len(SubSeq(s, 1, n)) = n
           /\ \A i \in 1..n : SubSeq(s, 1, n)[i] = s[i]
           /\ n + 1 <= Len(s) => /\ s[n + 1] \in D
                                 /\ SubSeq(s, 1, n + 1) = Append(SubSeq(s, 1, n), s[n + 1])
<1>1. Len(s) \in Nat /\ n \in Nat /\ n <= Len(s) /\ \A i \in 1..Len(s) : s[i] \in D
  BY LenProperties
<1>2. 1 \in Int /\ n \in Int /\ \A i \in 1..n : s[i] \in D
  BY <1>1
<1>3. /\ SubSeq(s, 1, n) \in Seq(D)
      /\ Len(SubSeq(s, 1, n)) = IF 1 <= n THEN n - 1 + 1 ELSE 0
      /\ \A i \in 1..n - 1 + 1 : SubSeq(s, 1, n)[i] = s[1 + i - 1]
  BY <1>2, SubSeqProperties
<1>4. Len(SubSeq(s, 1, n)) = n /\ n - 1 + 1 = n
  BY <1>1, <1>3
<1>5. ASSUME NEW i \in 1..n PROVE SubSeq(s, 1, n)[i] = s[i]
  <2>1. 1 + i - 1 = i
    BY <1>1
  <2>2. QED
    BY <1>3, <1>4, <2>1
<1>6. ASSUME n + 1 <= Len(s)
      PROVE  s[n + 1] \in D /\ SubSeq(s, 1, n + 1) = Append(SubSeq(s, 1, n), s[n + 1])
  <2> DEFINE m == n + 1
  <2>1. m \in 1..Len(s) /\ 1 \in 1..Len(s) /\ m - 1 = n
    BY <1>1, <1>6
  <2>2. s[m] \in D /\ m \in 1..Len(s)
    BY <1>1, <2>1
  <2> HIDE DEF m
  <2>3. SubSeq(s, 1, m) = SubSeq(s, 1, m - 1) \o <<s[m]>>
    BY <2>1, SubSeqRecursiveSecond
  <2>4. Append(SubSeq(s, 1, n), s[m]) = SubSeq(s, 1, n) \o <<s[m]>>
    BY <1>3, <2>2, AppendIsConcat
  <2>5. QED
    BY <2>1, <2>2, <2>3, <2>4 DEF m
<1>7. QED
  BY <1>3, <1>4, <1>5, <1>6

\* What is left of s and t together when n elements of s are taken.
LEMMA RestOfConcat ==
    ASSUME NEW D, NEW s \in Seq(D), NEW t \in Seq(D), NEW n \in 0..Len(s)
    PROVE  Rest(s \o t, n) = Rest(s, n) \o t /\ (n = Len(s) => Rest(s \o t, n) = t)
<1>1. /\ Len(s) \in Nat /\ Len(t) \in Nat /\ n \in Nat /\ n <= Len(s)
      /\ s \o t \in Seq(D) /\ Len(s \o t) = Len(s) + Len(t)
      /\ \A i \in 1..Len(s) + Len(t) : (s \o t)[i] = IF i <= Len(s) THEN s[i] ELSE t[i - Len(s)]
  BY LenProperties, ConcatProperties
<1> DEFINE u == s \o t
           a == Rest(u, n)
           b == Rest(s, n)
           c == b \o t
<1>a. /\ u \in Seq(D) /\ Len(u) = Len(s) + Len(t)
      /\ \A i \in 1..Len(s) + Len(t) : u[i] = IF i <= Len(s) THEN s[i] ELSE t[i - Len(s)]
  BY <1>1
<1> HIDE DEF u
<1>b. n <= Len(u)
  BY <1>1, <1>a
<1>2. /\ a \in Seq(D) /\ Len(a) = Len(s) + Len(t) - n
      /\ \A i \in 1..Len(s) + Len(t) - n : a[i] = u[n + i]
  <2>1. /\ a \in Seq(D) /\ Len(a) = Len(u) - n
        /\ \A i \in 1..Len(u) - n : a[i] = u[n + i]
    BY <1>1, <1>a, <1>b, RestType
  <2>2. QED
    BY <1>a, <2>1
<1>3. /\ b \in Seq(D) /\ Len(b) = Len(s) - n /\ \A i \in 1..Len(s) - n : b[i] = s[n + i]
  BY <1>1, RestType
<1> HIDE DEF a, b
<1>4. /\ c \in Seq(D) /\ Len(c) = Len(s) - n + Len(t)
      /\ \A i \in 1..Len(s) - n + Len(t) : c[i] = IF i <= Len(s) - n THEN b[i] ELSE t[i - (Len(s) - n)]
  <2>1. /\ c \in Seq(D) /\ Len(c) = Len(b) + Len(t)
        /\ \A i \in 1..Len(b) + Len(t) : c[i] = IF i <= Len(b) THEN b[i] ELSE t[i - Len(b)]
    BY <1>3, ConcatProperties
  <2> HIDE DEF c
  <2>2. QED
    BY <1>3, <2>1
<1> HIDE DEF c
<1>5. ASSUME NEW i \in 1..Len(a) PROVE a[i] = c[i]
  <2>1. i \in 1..Len(s) + Len(t) - n /\ n + i \in 1..Len(s) + Len(t) /\ i \in 1..Len(s) - n + Len(t)
    BY <1>1, <1>2, <1>5
  <2>2. a[i] = IF n + i <= Len(s) THEN s[n + i] ELSE t[n + i - Len(s)]
    BY <1>1, <1>2, <1>a, <2>1
  <2>3. CASE n + i <= Len(s)
    BY <1>1, <1>3, <1>4, <2>1, <2>2, <2>3
  <2>4. CASE ~(n + i <= Len(s))
    <3>1. i - (Len(s) - n) = n + i - Len(s) /\ ~(i <= Len(s) - n)
      BY <1>1, <2>1, <2>4
    <3>2. QED
      BY <1>4, <2>1, <2>2, <2>4, <3>1
  <2>5. QED
    BY <2>3, <2>4
<1>6. Len(a) = Len(c)
  BY <1>1, <1>2, <1>4
<1>7. a = c
  BY <1>2, <1>4, <1>5, <1>6, SeqEqual
<1>8. n = Len(s) => b = <<>>
  BY <1>1, <1>3, EmptySeq
<1>9. n = Len(s) => c = t
  BY <1>8, ConcatEmptySeq DEF c
<1>10. QED
  BY <1>7, <1>9 DEF a, b, c, u

\* What is left of s and t together when s is taken, and elements of t.
LEMMA RestBehind ==
    ASSUME NEW D, NEW s \in Seq(D), NEW t \in Seq(D), NEW n \in Nat, n >= Len(s)
    PROVE  Rest(s \o t, n) = Rest(t, n - Len(s))
<1> DEFINE u == s \o t
           m == n - Len(s)
           a == Rest(u, n)
           b == Rest(t, m)
<1>1. /\ Len(s) \in Nat /\ Len(t) \in Nat
      /\ u \in Seq(D) /\ Len(u) = Len(s) + Len(t)
      /\ \A i \in 1..Len(s) + Len(t) : u[i] = IF i <= Len(s) THEN s[i] ELSE t[i - Len(s)]
  BY LenProperties, ConcatProperties
<1>2. m \in Nat /\ n = m + Len(s)
  BY <1>1
<1> HIDE DEF u, m
<1>3. /\ a \in Seq(D) /\ Len(a) = IF n <= Len(u) THEN Len(u) - n ELSE 0
      /\ \A i \in 1..Len(u) - n : a[i] = u[n + i]
  <2>1. u \in Seq(D)
    BY <1>1
  <2>2. QED
    BY <2>1, RestType
<1>4. /\ b \in Seq(D) /\ Len(b) = IF m <= Len(t) THEN Len(t) - m ELSE 0
      /\ \A i \in 1..Len(t) - m : b[i] = t[m + i]
  BY <1>2, RestType
<1> HIDE DEF a, b
<1>5. Len(a) = Len(b)
  BY <1>1, <1>2, <1>3, <1>4
<1>6. ASSUME NEW i \in 1..Len(a) PROVE a[i] = b[i]
  <2>1. /\ i \in 1..Len(u) - n /\ i \in 1..Len(t) - m /\ n + i \in 1..Len(s) + Len(t)
        /\ ~(n + i <= Len(s)) /\ n + i - Len(s) = m + i
    BY <1>1, <1>2, <1>3, <1>6
  <2>2. u[n + i] = t[n + i - Len(s)]
    BY <1>1, <2>1
  <2>3. QED
    BY <1>3, <1>4, <2>1, <2>2
<1>7. QED
  BY <1>3, <1>4, <1>5, <1>6, SeqEqual DEF a, b, u, m

\* Nothing is left when all is taken.
LEMMA RestOfAll ==
    ASSUME NEW D, NEW s \in Seq(D)
    PROVE  Rest(s, 0) = s /\ \A n \in Nat : n >= Len(s) => Rest(s, n) = <<>>
<1>1. Len(s) \in Nat /\ 0 + 1 = 1
  BY LenProperties
<1>2. Rest(s, 0) = s
  BY <1>1, SubSeqFull DEF Rest
<1>3. ASSUME NEW n \in Nat, n >= Len(s) PROVE Rest(s, n) = <<>>
  <2>1. Rest(s, n) \in Seq(D) /\ Len(Rest(s, n)) = 0
    BY <1>1, <1>3, RestType
  <2>2. QED
    BY <2>1, EmptySeq
<1>4. QED
  BY <1>2, <1>3

\* The first bytes of s and t together are those of s.
LEMMA FirstOfConcat ==
    ASSUME NEW D, NEW s \in Seq(D), NEW t \in Seq(D)
    PROVE  Len(s \o t) = Len(s) + Len(t) /\ Len(s \o t) >= Len(s) /\ SubSeq(s \o t, 1, Len(s)) = s
<1> DEFINE u == s \o t
           n == Len(s)
<1>1. /\ n \in Nat /\ Len(t) \in Nat /\ u \in Seq(D) /\ Len(u) = n + Len(t)
      /\ \A i \in 1..n + Len(t) : u[i] = IF i <= n THEN s[i] ELSE t[i - n]
  BY LenProperties, ConcatProperties
<1> HIDE DEF u, n
<1>2. \A i \in 1..n : u[i] = s[i] /\ s[i] \in D
  BY <1>1, LenProperties DEF n
<1>3. /\ SubSeq(u, 1, n) \in Seq(D) /\ Len(SubSeq(u, 1, n)) = n
      /\ \A i \in 1..n : SubSeq(u, 1, n)[i] = u[i]
  <2>1. 1 \in Int /\ n \in Int /\ \A i \in 1..n : u[i] \in D
    BY <1>1, <1>2
  <2>2. /\ SubSeq(u, 1, n) \in Seq(D) /\ Len(SubSeq(u, 1, n)) = IF 1 <= n THEN n - 1 + 1 ELSE 0
        /\ \A i \in 1..n - 1 + 1 : SubSeq(u, 1, n)[i] = u[1 + i - 1]
    BY <2>1, SubSeqProperties
  <2>3. n - 1 + 1 = n /\ \A i \in 1..n : 1 + i - 1 = i
    BY <1>1
  <2>4. QED
    BY <1>1, <2>2, <2>3
<1>4. SubSeq(u, 1, n) = s
  BY <1>2, <1>3, SeqEqual DEF n
<1>5. QED
  BY <1>1, <1>4 DEF u, n
=============================================================================
