------------------------------- MODULE StrProofs -------------------------------
(***************************************************************************)
(* Proofs about Str, for every text and every separator, and about         *)
(* StrShare, for every finite set of Strs, every set of buffers and every  *)
(* width of the count.                                                     *)
(***************************************************************************)
EXTENDS Str, StrShare, ChunkLemmas, FiniteSetTheorems

-----------------------------------------------------------------------------
(* Parts of a string.                                                      *)

\* The characters of s from position p to position q.
Part(s, p, q) == SubSeq(s, p + 1, q)

\* They are those of s.
LEMMA PartType ==
    ASSUME NEW D, NEW s \in Seq(D), NEW p \in 0..Len(s), NEW q \in p..Len(s)
    PROVE  /\ Part(s, p, q) \in Seq(D) /\ Len(Part(s, p, q)) = q - p
           /\ \A k \in 1..(q - p) : Part(s, p, q)[k] = s[p + k]
<1>1. Len(s) \in Nat /\ p \in Nat /\ q \in Nat /\ \A i \in 1..Len(s) : s[i] \in D
  BY LenProperties
<1> DEFINE m == p + 1
<1>2. m \in Int /\ q \in Int /\ \A i \in m..q : s[i] \in D
  BY <1>1
<1>3. q - m + 1 = q - p /\ (m <= q => q - m + 1 = q - p) /\ (~(m <= q) => q - p = 0)
  BY <1>1
<1>4. \A k \in 1..(q - p) : m + k - 1 = p + k
  BY <1>1
<1> HIDE DEF m
<1>5. /\ SubSeq(s, m, q) \in Seq(D)
      /\ Len(SubSeq(s, m, q)) = IF m <= q THEN q - m + 1 ELSE 0
      /\ \A k \in 1..(q - m + 1) : SubSeq(s, m, q)[k] = s[m + k - 1]
  BY <1>2, SubSeqProperties
<1>6. QED
  BY <1>3, <1>4, <1>5 DEF Part, m

\* So, with a name for what x has of s.
HasOf(x, s, p, q) == Len(x) = q - p /\ \A k \in 1..(q - p) : x[k] = s[p + k]

\* A part has it.
LEMMA PartHas ==
    ASSUME NEW D, NEW s \in Seq(D), NEW p \in 0..Len(s), NEW q \in p..Len(s)
    PROVE  Part(s, p, q) \in Seq(D) /\ HasOf(Part(s, p, q), s, p, q)
<1> DEFINE x == Part(s, p, q)
<1>1. x \in Seq(D) /\ Len(x) = q - p /\ \A k \in 1..(q - p) : x[k] = s[p + k]
  BY PartType, SMTT(30)
<1>2. HasOf(x, s, p, q)
  BY <1>1 DEF HasOf
<1>3. QED
  BY <1>1, <1>2

\* One part behind the other.
LEMMA PartJoin ==
    ASSUME NEW D, NEW s \in Seq(D), NEW p \in 0..Len(s), NEW q \in p..Len(s), NEW r \in q..Len(s)
    PROVE  Part(s, p, q) \o Part(s, q, r) = Part(s, p, r)
<1>1. Len(s) \in Nat
  BY LenProperties
<1> DEFINE m == p + 1
<1>2. m \in 1..Len(s) + 1 /\ q \in (m - 1)..Len(s) /\ r \in q..Len(s)
  BY <1>1
<1> HIDE DEF m
<1>3. SubSeq(s, m, q) \o SubSeq(s, q + 1, r) = SubSeq(s, m, r)
  BY <1>2, ConcatAdjacentSubSeq
<1>4. QED
  BY <1>3 DEF m, Part

\* The whole, and nothing.
LEMMA PartAll ==
    ASSUME NEW D, NEW s \in Seq(D)
    PROVE  Part(s, 0, Len(s)) = s /\ \A p \in 0..Len(s) : Part(s, p, p) = <<>>
<1>1. Len(s) \in Nat /\ 0 + 1 = 1
  BY LenProperties
<1>2. Part(s, 0, Len(s)) = s
  BY <1>1, SubSeqFull DEF Part
<1>3. ASSUME NEW p \in 0..Len(s) PROVE Part(s, p, p) = <<>>
  <2>1. p \in p..Len(s) /\ p - p = 0
    BY <1>1
  <2>2. Part(s, p, p) \in Seq(D) /\ Len(Part(s, p, p)) = 0
    BY <2>1, PartType
  <2>3. QED
    BY <2>2, EmptySeq
<1>4. QED
  BY <1>2, <1>3

\* substr gives a part.
LEMMA SubIsPart ==
    ASSUME NEW s, Len(s) \in Nat, NEW p \in Nat
    PROVE  From(s, p) = Part(s, p, Len(s)) /\ \A q \in Nat : Sub(s, p, q) = Part(s, p, q)
<1>1. \A q \in Nat : q # -1
  OBVIOUS
<1>2. QED
  BY <1>1 DEF From, Sub, Part

\* i is the first place of t from p on, or NotFound.
Finds(s, t, p, i) ==
    /\ i = NotFound => \A j \in p..(Len(s) - Len(t)) : ~Occurs(s, t, j)
    /\ i # NotFound => /\ i \in p..(Len(s) - Len(t)) /\ Occurs(s, t, i)
                       /\ \A j \in p..(i - 1) : ~Occurs(s, t, j)

\* strnfind finds it.
LEMMA FindInFinds ==
    ASSUME NEW D, NEW s \in Seq(D), NEW t \in Seq(D), NEW p \in 0..Len(s)
    PROVE  Finds(s, t, p, FindIn(s, t, p, Len(s)))
<1> DEFINE L == Len(s)
           M == Len(t)
           P == Places(s, t, p, L)
           i == FindIn(s, t, p, L)
<1>1. L \in Nat /\ M \in Nat /\ p \in Nat
  BY LenProperties
<1>2. \A j : j \in P <=> j \in p..(L - M) /\ Occurs(s, t, j)
  BY DEF Places
<1>3. i = IF P = {} THEN NotFound ELSE Min(P)
  BY DEF FindIn
<1> HIDE DEF P, i, L, M
<1>4. CASE P = {}
  <2>1. i = NotFound
    BY <1>3, <1>4
  <2>2. \A j \in p..(L - M) : ~Occurs(s, t, j)
    BY <1>2, <1>4
  <2>3. QED
    BY <2>1, <2>2 DEF Finds, L, M, i
<1>5. CASE P # {}
  <2>1. P \subseteq Nat
    BY <1>1, <1>2
  <2>2. \E k \in P : \A j \in P : k <= j
    BY <1>5, <2>1, LeastNumber
  <2>3. i \in P /\ \A j \in P : i <= j
    BY <1>3, <1>5, <2>2 DEF Min
  <2>4. i \in p..(L - M) /\ Occurs(s, t, i) /\ i \in Nat
    BY <1>2, <2>1, <2>3
  <2>5. ASSUME NEW j \in p..(i - 1) PROVE ~Occurs(s, t, j)
    <3>1. j \in p..(L - M) /\ ~(i <= j)
      BY <1>1, <2>4
    <3>2. QED
      BY <1>2, <2>3, <3>1
  <2>6. i # NotFound
    BY <2>4 DEF NotFound
  <2>7. QED
    BY <2>4, <2>5, <2>6 DEF Finds, L, M, i
<1>6. QED
  BY <1>4, <1>5
\* What count adds up from p on.
CountsBy(f, s, t, p) == f[p] = LET i == FindIn(s, t, p, Len(s))
                               IN  IF i = NotFound THEN 0 ELSE 1 + f[i + Len(t)]

\* The same of split.
SplitsBy(f, s, t, p) == f[p] = LET i == FindIn(s, t, p, Len(s))
                               IN  IF i = NotFound THEN <<From(s, p)>>
                                   ELSE <<Sub(s, p, i)>> \o f[i + Len(t)]

\* count goes on behind each find.
LEMMA CountDef ==
    ASSUME NEW D, NEW s \in Seq(D), NEW t \in Seq(D), Len(t) >= 1
    PROVE  \E f : Count(s, t) = f[0] /\ \A p \in 0..Len(s) : CountsBy(f, s, t, p)
<1> DEFINE L == Len(s)
           N(p) == FindIn(s, t, p, L)
           next(p) == N(p) + Len(t)
           E(f, p) == IF N(p) = NotFound THEN 0 ELSE 1 + f[next(p)]
           Behind(f, k) == \A p \in 0..L : L < p + k => f[p] = E(f, p)
           T == {k \in Nat : \E f : Behind(f, k)}
<1>1. L \in Nat
  BY LenProperties
<1>2. \A p \in 0..L : N(p) # NotFound => next(p) \in (p + 1)..L
  <2> SUFFICES ASSUME NEW p \in 0..L, N(p) # NotFound PROVE next(p) \in (p + 1)..L
    OBVIOUS
  <2> DEFINE i == N(p)
  <2>1. Finds(s, t, p, i)
    BY FindInFinds
  <2>2. Len(t) \in Nat /\ Len(t) >= 1
    BY LenProperties
  <2> HIDE DEF N
  <2>3. i \in p..(L - Len(t))
    BY <2>1 DEF Finds
  <2> HIDE DEF i
  <2>4. i + Len(t) \in (p + 1)..L
    BY <1>1, <2>2, <2>3
  <2>5. QED
    BY <2>4 DEF i
<1>3. ASSUME NEW f, NEW g, NEW p \in 0..L, N(p) # NotFound => g[next(p)] = f[next(p)]
      PROVE  E(g, p) = E(f, p)
  BY <1>3
<1> HIDE DEF N, next, E
<1>4. 0 \in T
  <2>1. \A p \in 0..L : ~(L < p + 0)
    BY <1>1
  <2>2. QED
    BY <2>1
<1>5. ASSUME NEW k \in Nat, k \in T PROVE k + 1 \in T
  <2>1. PICK f : Behind(f, k)
    BY <1>5
  <2> DEFINE g == [p \in 0..L |-> IF L < p + k THEN f[p] ELSE E(f, p)]
  <2>2. \A p \in 0..L : L < p + k => g[p] = f[p]
    OBVIOUS
  <2>3. \A p \in 0..L : g[p] = E(f, p)
    BY <2>1
  <2> HIDE DEF g
  <2>4. ASSUME NEW p \in 0..L, L < p + (k + 1) PROVE g[p] = E(g, p)
    <3>1. N(p) # NotFound => g[next(p)] = f[next(p)]
      <4>1. SUFFICES ASSUME N(p) # NotFound PROVE g[next(p)] = f[next(p)]
        OBVIOUS
      <4> DEFINE q == next(p)
      <4>2. q \in (p + 1)..L
        BY <1>2, <4>1
      <4> HIDE DEF q
      <4>3. q \in 0..L /\ L < q + k
        BY <1>1, <1>5, <2>4, <4>2
      <4>4. g[q] = f[q]
        BY <2>2, <4>3
      <4>5. QED
        BY <4>4 DEF q
    <3>2. E(g, p) = E(f, p)
      BY <1>3, <3>1
    <3>3. QED
      BY <2>3, <3>2
  <2>5. Behind(g, k + 1)
    BY <2>4
  <2>6. QED
    BY <1>5, <2>5
<1>6. L + 1 \in T
  <2>1. L + 1 \in Nat
    BY <1>1
  <2> HIDE DEF T
  <2>2. QED
    BY <1>4, <1>5, <2>1, Induction
<1>7. PICK f : Behind(f, L + 1)
  BY <1>6
<1>8. \A p \in 0..L : f[p] = E(f, p)
  <2>1. \A p \in 0..L : L < p + (L + 1)
    BY <1>1
  <2>2. QED
    BY <1>7, <2>1
<1> DEFINE g == [p \in 0..L |-> f[p]]
<1>9. g = [p \in 0..L |-> E(g, p)]
  <2>1. \A p \in 0..L : g[p] = f[p]
    OBVIOUS
  <2> HIDE DEF g
  <2>2. ASSUME NEW p \in 0..L PROVE E(g, p) = E(f, p)
    <3>1. N(p) # NotFound => g[next(p)] = f[next(p)]
      <4>1. \A q \in (p + 1)..L : q \in 0..L
        BY <1>1
      <4>2. QED
        BY <1>2, <2>1, <4>1
    <3>2. QED
      BY <1>3, <3>1
  <2>3. \A p \in 0..L : g[p] = E(g, p)
    BY <1>8, <2>1, <2>2
  <2>4. g = [p \in 0..L |-> g[p]]
    BY DEF g
  <2>5. QED
    BY <2>3, <2>4
<1> DEFINE F == CHOOSE h : h = [p \in 0..L |-> E(h, p)]
<1>10. F = [p \in 0..L |-> E(F, p)]
  <2>1. \E h : h = [p \in 0..L |-> E(h, p)]
    BY <1>9
  <2> HIDE DEF g
  <2>2. QED
    BY <2>1
<1>11. Count(s, t) = F[0]
  BY DEF Count, E, N, next
<1> HIDE DEF F
<1>12. \A p \in 0..L : F[p] = E(F, p)
  BY <1>10
<1>13. \A p \in 0..L : CountsBy(F, s, t, p)
  BY <1>12 DEF CountsBy, E, N, next
<1>14. QED
  BY <1>11, <1>13

\* So does split.
LEMMA SplitDef ==
    ASSUME NEW D, NEW s \in Seq(D), NEW t \in Seq(D), Len(t) >= 1
    PROVE  \E f : Split(s, t) = f[0] /\ \A p \in 0..Len(s) : SplitsBy(f, s, t, p)
<1> DEFINE L == Len(s)
           N(p) == FindIn(s, t, p, L)
           next(p) == N(p) + Len(t)
           E(f, p) == IF N(p) = NotFound THEN <<From(s, p)>>
                      ELSE <<Sub(s, p, N(p))>> \o f[next(p)]
           Behind(f, k) == \A p \in 0..L : L < p + k => f[p] = E(f, p)
           T == {k \in Nat : \E f : Behind(f, k)}
<1>1. L \in Nat
  BY LenProperties
<1>2. \A p \in 0..L : N(p) # NotFound => next(p) \in (p + 1)..L
  <2> SUFFICES ASSUME NEW p \in 0..L, N(p) # NotFound PROVE next(p) \in (p + 1)..L
    OBVIOUS
  <2> DEFINE i == N(p)
  <2>1. Finds(s, t, p, i)
    BY FindInFinds
  <2>2. Len(t) \in Nat /\ Len(t) >= 1
    BY LenProperties
  <2> HIDE DEF N
  <2>3. i \in p..(L - Len(t))
    BY <2>1 DEF Finds
  <2> HIDE DEF i
  <2>4. i + Len(t) \in (p + 1)..L
    BY <1>1, <2>2, <2>3
  <2>5. QED
    BY <2>4 DEF i
<1>3. ASSUME NEW f, NEW g, NEW p \in 0..L, N(p) # NotFound => g[next(p)] = f[next(p)]
      PROVE  E(g, p) = E(f, p)
  BY <1>3
<1> HIDE DEF N, next, E
<1>4. 0 \in T
  <2>1. \A p \in 0..L : ~(L < p + 0)
    BY <1>1
  <2>2. QED
    BY <2>1
<1>5. ASSUME NEW k \in Nat, k \in T PROVE k + 1 \in T
  <2>1. PICK f : Behind(f, k)
    BY <1>5
  <2> DEFINE g == [p \in 0..L |-> IF L < p + k THEN f[p] ELSE E(f, p)]
  <2>2. \A p \in 0..L : L < p + k => g[p] = f[p]
    OBVIOUS
  <2>3. \A p \in 0..L : g[p] = E(f, p)
    BY <2>1
  <2> HIDE DEF g
  <2>4. ASSUME NEW p \in 0..L, L < p + (k + 1) PROVE g[p] = E(g, p)
    <3>1. N(p) # NotFound => g[next(p)] = f[next(p)]
      <4>1. SUFFICES ASSUME N(p) # NotFound PROVE g[next(p)] = f[next(p)]
        OBVIOUS
      <4> DEFINE q == next(p)
      <4>2. q \in (p + 1)..L
        BY <1>2, <4>1
      <4> HIDE DEF q
      <4>3. q \in 0..L /\ L < q + k
        BY <1>1, <1>5, <2>4, <4>2
      <4>4. g[q] = f[q]
        BY <2>2, <4>3
      <4>5. QED
        BY <4>4 DEF q
    <3>2. E(g, p) = E(f, p)
      BY <1>3, <3>1
    <3>3. QED
      BY <2>3, <3>2
  <2>5. Behind(g, k + 1)
    BY <2>4
  <2>6. QED
    BY <1>5, <2>5
<1>6. L + 1 \in T
  <2>1. L + 1 \in Nat
    BY <1>1
  <2> HIDE DEF T
  <2>2. QED
    BY <1>4, <1>5, <2>1, Induction
<1>7. PICK f : Behind(f, L + 1)
  BY <1>6
<1>8. \A p \in 0..L : f[p] = E(f, p)
  <2>1. \A p \in 0..L : L < p + (L + 1)
    BY <1>1
  <2>2. QED
    BY <1>7, <2>1
<1> DEFINE g == [p \in 0..L |-> f[p]]
<1>9. g = [p \in 0..L |-> E(g, p)]
  <2>1. \A p \in 0..L : g[p] = f[p]
    OBVIOUS
  <2> HIDE DEF g
  <2>2. ASSUME NEW p \in 0..L PROVE E(g, p) = E(f, p)
    <3>1. N(p) # NotFound => g[next(p)] = f[next(p)]
      <4>1. \A q \in (p + 1)..L : q \in 0..L
        BY <1>1
      <4>2. QED
        BY <1>2, <2>1, <4>1
    <3>2. QED
      BY <1>3, <3>1
  <2>3. \A p \in 0..L : g[p] = E(g, p)
    BY <1>8, <2>1, <2>2
  <2>4. g = [p \in 0..L |-> g[p]]
    BY DEF g
  <2>5. QED
    BY <2>3, <2>4
<1> DEFINE F == CHOOSE h : h = [p \in 0..L |-> E(h, p)]
<1>10. F = [p \in 0..L |-> E(F, p)]
  <2>1. \E h : h = [p \in 0..L |-> E(h, p)]
    BY <1>9
  <2> HIDE DEF g
  <2>2. QED
    BY <2>1
<1>11. Split(s, t) = F[0]
  BY DEF Split, E, N, next
<1> HIDE DEF F
<1>12. \A p \in 0..L : F[p] = E(F, p)
  BY <1>10
<1>13. \A p \in 0..L : SplitsBy(F, s, t, p)
  BY <1>12 DEF SplitsBy, E, N, next
<1>14. QED
  BY <1>11, <1>13

\* Where the line that starts at p ends.
LineEnd(s, p) ==
    LET ends == {i \in p..(Len(s) - 1) : s[i + 1] \in {"\r", "\n"}}
    IN  IF ends = {} THEN Len(s) ELSE Min(ends)

\* Where the next line starts.
LineNext(s, p) ==
    IF Occurs(s, <<"\r", "\n">>, LineEnd(s, p)) THEN LineEnd(s, p) + 2 ELSE LineEnd(s, p) + 1

\* A line has no line end in it, and one behind it or the end of the string.
LEMMA LineEnds ==
    ASSUME NEW D, NEW s \in Seq(D), NEW p \in 0..Len(s)
    PROVE  LET e == LineEnd(s, p)
           IN  /\ e \in p..Len(s) /\ \A i \in p..(e - 1) : s[i + 1] \notin {"\r", "\n"}
               /\ e # Len(s) => /\ e \in p..(Len(s) - 1) /\ s[e + 1] \in {"\r", "\n"}
                                /\ LineNext(s, p) \in (e + 1)..Len(s)
<1> DEFINE L == Len(s)
           P == {i \in p..(L - 1) : s[i + 1] \in {"\r", "\n"}}
           e == LineEnd(s, p)
           pair == Occurs(s, <<"\r", "\n">>, e)
<1>1. L \in Nat /\ p \in Nat /\ p <= L
  BY LenProperties
<1>2. \A j : j \in P <=> j \in p..(L - 1) /\ s[j + 1] \in {"\r", "\n"}
  OBVIOUS
<1>3. e = IF P = {} THEN L ELSE Min(P)
  BY DEF LineEnd
<1>4. pair => e + 2 <= L
  BY DEF Occurs
<1>5. LineNext(s, p) = IF pair THEN e + 2 ELSE e + 1
  BY DEF LineNext
<1> HIDE DEF P, e, L, pair
<1>6. CASE P = {}
  <2>1. e = L
    BY <1>3, <1>6
  <2>2. ASSUME NEW i \in p..(e - 1) PROVE s[i + 1] \notin {"\r", "\n"}
    BY <1>2, <1>6, <2>1
  <2>3. QED
    BY <1>1, <2>1, <2>2 DEF L, e
<1>7. CASE P # {}
  <2>1. P \subseteq Nat
    BY <1>1, <1>2
  <2>2. \E k \in P : \A j \in P : k <= j
    BY <1>7, <2>1, LeastNumber
  <2>3. e \in P /\ \A j \in P : e <= j
    BY <1>3, <1>7, <2>2 DEF Min
  <2>4. e \in p..(L - 1) /\ s[e + 1] \in {"\r", "\n"}
    BY <1>2, <2>3
  <2>5. ASSUME NEW i \in p..(e - 1) PROVE s[i + 1] \notin {"\r", "\n"}
    <3>1. i \in p..(L - 1) /\ ~(e <= i)
      BY <1>1, <2>4
    <3>2. QED
      BY <1>2, <2>3, <3>1
  <2>6. e \in p..L
    BY <1>1, <2>4
  <2>7. LineNext(s, p) \in (e + 1)..L
    BY <1>1, <1>4, <1>5, <2>4
  <2>8. QED
    BY <2>4, <2>5, <2>6, <2>7 DEF L, e
<1>8. QED
  BY <1>6, <1>7

\* What split_lines makes of it from p on.
LinesBy(f, s, p) ==
    f[p] = LET e == LineEnd(s, p)
           IN  IF p = Len(s) THEN <<>>
               ELSE <<Sub(s, p, e)>> \o (IF e = Len(s) THEN <<>> ELSE f[LineNext(s, p)])

\* split_lines goes on behind each line end.
LEMMA SplitLinesDef ==
    ASSUME NEW D, NEW s \in Seq(D)
    PROVE  \E f : SplitLines(s) = f[0] /\ \A p \in 0..Len(s) : LinesBy(f, s, p)
<1> DEFINE L == Len(s)
           N(p) == LineEnd(s, p)
           next(p) == LineNext(s, p)
           E(f, p) == IF p = L THEN <<>>
                      ELSE <<Sub(s, p, N(p))>> \o (IF N(p) = L THEN <<>> ELSE f[next(p)])
           Behind(f, k) == \A p \in 0..L : L < p + k => f[p] = E(f, p)
           T == {k \in Nat : \E f : Behind(f, k)}
<1>1. L \in Nat
  BY LenProperties
<1>2. \A p \in 0..L : (p # L /\ N(p) # L) => next(p) \in (p + 1)..L
  <2> SUFFICES ASSUME NEW p \in 0..L, p # L /\ N(p) # L PROVE next(p) \in (p + 1)..L
    OBVIOUS
  <2> DEFINE e == LineEnd(s, p)
             n == LineNext(s, p)
  <2>1. e \in p..L /\ n \in (e + 1)..L
    BY LineEnds
  <2> HIDE DEF e, n
  <2>2. n \in (p + 1)..L
    BY <1>1, <2>1
  <2>3. QED
    BY <2>2 DEF n
<1>3. ASSUME NEW f, NEW g, NEW p \in 0..L, (p # L /\ N(p) # L) => g[next(p)] = f[next(p)]
      PROVE  E(g, p) = E(f, p)
  BY <1>3
<1> HIDE DEF N, next, E
<1>4. 0 \in T
  <2>1. \A p \in 0..L : ~(L < p + 0)
    BY <1>1
  <2>2. QED
    BY <2>1
<1>5. ASSUME NEW k \in Nat, k \in T PROVE k + 1 \in T
  <2>1. PICK f : Behind(f, k)
    BY <1>5
  <2> DEFINE g == [p \in 0..L |-> IF L < p + k THEN f[p] ELSE E(f, p)]
  <2>2. \A p \in 0..L : L < p + k => g[p] = f[p]
    OBVIOUS
  <2>3. \A p \in 0..L : g[p] = E(f, p)
    BY <2>1
  <2> HIDE DEF g
  <2>4. ASSUME NEW p \in 0..L, L < p + (k + 1) PROVE g[p] = E(g, p)
    <3>1. (p # L /\ N(p) # L) => g[next(p)] = f[next(p)]
      <4>1. SUFFICES ASSUME (p # L /\ N(p) # L) PROVE g[next(p)] = f[next(p)]
        OBVIOUS
      <4> DEFINE q == next(p)
      <4>2. q \in (p + 1)..L
        BY <1>2, <4>1
      <4> HIDE DEF q
      <4>3. q \in 0..L /\ L < q + k
        BY <1>1, <1>5, <2>4, <4>2
      <4>4. g[q] = f[q]
        BY <2>2, <4>3
      <4>5. QED
        BY <4>4 DEF q
    <3>2. E(g, p) = E(f, p)
      BY <1>3, <3>1
    <3>3. QED
      BY <2>3, <3>2
  <2>5. Behind(g, k + 1)
    BY <2>4
  <2>6. QED
    BY <1>5, <2>5
<1>6. L + 1 \in T
  <2>1. L + 1 \in Nat
    BY <1>1
  <2> HIDE DEF T
  <2>2. QED
    BY <1>4, <1>5, <2>1, Induction
<1>7. PICK f : Behind(f, L + 1)
  BY <1>6
<1>8. \A p \in 0..L : f[p] = E(f, p)
  <2>1. \A p \in 0..L : L < p + (L + 1)
    BY <1>1
  <2>2. QED
    BY <1>7, <2>1
<1> DEFINE g == [p \in 0..L |-> f[p]]
<1>9. g = [p \in 0..L |-> E(g, p)]
  <2>1. \A p \in 0..L : g[p] = f[p]
    OBVIOUS
  <2> HIDE DEF g
  <2>2. ASSUME NEW p \in 0..L PROVE E(g, p) = E(f, p)
    <3>1. (p # L /\ N(p) # L) => g[next(p)] = f[next(p)]
      <4>1. \A q \in (p + 1)..L : q \in 0..L
        BY <1>1
      <4>2. QED
        BY <1>2, <2>1, <4>1
    <3>2. QED
      BY <1>3, <3>1
  <2>3. \A p \in 0..L : g[p] = E(g, p)
    BY <1>8, <2>1, <2>2
  <2>4. g = [p \in 0..L |-> g[p]]
    BY DEF g
  <2>5. QED
    BY <2>3, <2>4
<1> DEFINE F == CHOOSE h : h = [p \in 0..L |-> E(h, p)]
<1>10. F = [p \in 0..L |-> E(F, p)]
  <2>1. \E h : h = [p \in 0..L |-> E(h, p)]
    BY <1>9
  <2> HIDE DEF g
  <2>2. QED
    BY <2>1
<1>11. SplitLines(s) = F[0]
  BY DEF SplitLines, LineEnd, LineNext, E, N, next
<1> HIDE DEF F
<1>12. \A p \in 0..L : F[p] = E(F, p)
  BY <1>10
<1>13. \A p \in 0..L : LinesBy(F, s, p)
  BY <1>12 DEF LinesBy, E, N, next
<1>14. QED
  BY <1>11, <1>13

\* What join puts in front of string i.
Between(sep, i) == IF i = 1 THEN <<>> ELSE sep

\* f[i] joins the first i strings.
JoinsTo(f, sep, strs) ==
    /\ f[0] = <<>> /\ Join(sep, strs) = f[Len(strs)]
    /\ \A i \in Nat : i + 1 <= Len(strs)
          => f[i + 1] = (f[i] \o Between(sep, i + 1)) \o strs[i + 1]

\* join adds one string after the other.
LEMMA JoinDef ==
    ASSUME NEW D, NEW sep \in Seq(D), NEW strs \in Seq(Seq(D))
    PROVE  \E f : JoinsTo(f, sep, strs)
<1> DEFINE R(f, n) == f = [i \in 0..n |-> IF i = 0 THEN <<>>
                                          ELSE f[i - 1] \o (IF i = 1 THEN <<>> ELSE sep) \o strs[i]]
           S == {n \in Nat : \E f : R(f, n)}
<1>1. 0 \in S
  <2> DEFINE f0 == [i \in 0..0 |-> <<>>]
  <2>1. R(f0, 0)
    OBVIOUS
  <2>2. QED
    BY <2>1
<1>2. ASSUME NEW n \in Nat, n \in S PROVE n + 1 \in S
  <2>1. PICK f : R(f, n)
    BY <1>2
  <2> DEFINE g == [i \in 0..n + 1 |-> IF i = 0 THEN <<>>
                                      ELSE f[i - 1] \o (IF i = 1 THEN <<>> ELSE sep) \o strs[i]]
  <2>2. \A i \in 0..n : f[i] = IF i = 0 THEN <<>>
                               ELSE f[i - 1] \o (IF i = 1 THEN <<>> ELSE sep) \o strs[i]
    BY <2>1
  <2>3. \A i \in 0..n : g[i] = f[i]
    BY <2>2
  <2>4. ASSUME NEW i \in 0..n + 1, i # 0 PROVE g[i - 1] = f[i - 1]
    <3>1. i - 1 \in 0..n
      BY <1>2, <2>4
    <3>2. QED
      BY <2>3, <3>1
  <2>5. R(g, n + 1)
    BY <2>4
  <2>6. n + 1 \in Nat
    BY <1>2
  <2>7. QED
    BY <2>5, <2>6
<1>3. Len(strs) \in Nat
  BY LenProperties
<1>4. Len(strs) \in S
  <2> HIDE DEF S
  <2>1. QED
    BY <1>1, <1>2, <1>3, Induction
<1> DEFINE F == CHOOSE f : R(f, Len(strs))
<1>5. R(F, Len(strs))
  BY <1>4
<1>6. Join(sep, strs) = F[Len(strs)]
  BY DEF Join
<1> HIDE DEF F
<1>7. \A i \in 0..Len(strs) : F[i] = IF i = 0 THEN <<>>
                                  ELSE F[i - 1] \o (IF i = 1 THEN <<>> ELSE sep) \o strs[i]
  BY <1>5
<1>8. F[0] = <<>>
  <2>1. 0 \in 0..Len(strs)
    BY <1>3
  <2>2. QED
    BY <1>7, <2>1
<1>9. ASSUME NEW i \in Nat, i + 1 <= Len(strs)
      PROVE  F[i + 1] = (F[i] \o Between(sep, i + 1)) \o strs[i + 1]
  <2> DEFINE j == i + 1
  <2>1. j \in 0..Len(strs) /\ j # 0 /\ j - 1 = i
    BY <1>3, <1>9
  <2> HIDE DEF j
  <2>2. F[j] = (F[j - 1] \o Between(sep, j)) \o strs[j]
    BY <1>7, <2>1 DEF Between
  <2>3. QED
    BY <2>1, <2>2 DEF j
<1>10. JoinsTo(F, sep, strs)
  BY <1>6, <1>8, <1>9 DEF JoinsTo
<1>11. QED
  BY <1>10

\* What is left of r and c behind it, when r is left already.
With(r, c, set) == IF c \in set THEN r ELSE Append(r, c)

\* f[i] is what is left of the first i characters.
RemovesTo(f, s, set) ==
    /\ f[0] = <<>> /\ RemoveAll(s, set) = f[Len(s)]
    /\ \A i \in Nat : i + 1 <= Len(s) => f[i + 1] = With(f[i], s[i + 1], set)

\* remove looks at one character after the other.
LEMMA RemoveDef ==
    ASSUME NEW D, NEW s \in Seq(D), NEW set
    PROVE  \E f : RemovesTo(f, s, set)
<1> DEFINE R(f, n) == f = [i \in 0..n |-> IF i = 0 THEN <<>> ELSE With(f[i - 1], s[i], set)]
           S == {n \in Nat : \E f : R(f, n)}
<1>1. 0 \in S
  <2> DEFINE f0 == [i \in 0..0 |-> <<>>]
  <2>1. R(f0, 0)
    OBVIOUS
  <2>2. QED
    BY <2>1
<1>2. ASSUME NEW n \in Nat, n \in S PROVE n + 1 \in S
  <2>1. PICK f : R(f, n)
    BY <1>2
  <2> DEFINE g == [i \in 0..n + 1 |-> IF i = 0 THEN <<>> ELSE With(f[i - 1], s[i], set)]
  <2>2. \A i \in 0..n : f[i] = IF i = 0 THEN <<>> ELSE With(f[i - 1], s[i], set)
    BY <2>1
  <2>3. \A i \in 0..n : g[i] = f[i]
    BY <2>2
  <2>4. ASSUME NEW i \in 0..n + 1, i # 0 PROVE g[i - 1] = f[i - 1]
    <3>1. i - 1 \in 0..n
      BY <1>2, <2>4
    <3>2. QED
      BY <2>3, <3>1
  <2>5. R(g, n + 1)
    BY <2>4
  <2>6. n + 1 \in Nat
    BY <1>2
  <2>7. QED
    BY <2>5, <2>6
<1>3. Len(s) \in Nat
  BY LenProperties
<1>4. Len(s) \in S
  <2> HIDE DEF S
  <2>1. QED
    BY <1>1, <1>2, <1>3, Induction
<1> DEFINE F == CHOOSE f : R(f, Len(s))
<1>5. R(F, Len(s))
  BY <1>4
<1>6. RemoveAll(s, set) = F[Len(s)]
  BY DEF RemoveAll, With
<1> HIDE DEF F
<1>7. \A i \in 0..Len(s) : F[i] = IF i = 0 THEN <<>> ELSE With(F[i - 1], s[i], set)
  BY <1>5
<1>8. F[0] = <<>>
  <2>1. 0 \in 0..Len(s)
    BY <1>3
  <2>2. QED
    BY <1>7, <2>1
<1>9. ASSUME NEW i \in Nat, i + 1 <= Len(s)
      PROVE  F[i + 1] = With(F[i], s[i + 1], set)
  <2> DEFINE j == i + 1
  <2>1. j \in 0..Len(s) /\ j # 0 /\ j - 1 = i
    BY <1>3, <1>9
  <2> HIDE DEF j
  <2>2. F[j] = With(F[j - 1], s[j], set)
    BY <1>7, <2>1
  <2>3. QED
    BY <2>1, <2>2 DEF j
<1>10. RemovesTo(F, s, set)
  BY <1>6, <1>8, <1>9 DEF RemovesTo
<1>11. QED
  BY <1>10

-----------------------------------------------------------------------------
(* join.                                                                   *)

\* Joined strings end with the last of them, behind a separator if it is not the only
\* one.
JoinsLast(sep, r, y) ==
    Join(sep, Append(r, y)) = (Join(sep, r) \o (IF r = <<>> THEN <<>> ELSE sep)) \o y

\* They do.
LEMMA JoinAppend ==
    ASSUME NEW D, NEW sep \in Seq(D), NEW r \in Seq(Seq(D)), NEW y \in Seq(D)
    PROVE  /\ Join(sep, r) \in Seq(D) /\ (r = <<>> => Join(sep, r) = <<>>)
           /\ JoinsLast(sep, r, y)
<1> DEFINE n == Len(r)
           t == Append(r, y)
<1>1. n \in Nat /\ (\A i \in 1..n : r[i] \in Seq(D)) /\ (r = <<>> <=> n = 0)
  BY LenProperties, EmptySeq
<1>2. t \in Seq(Seq(D)) /\ Len(t) = n + 1 /\ t[n + 1] = y /\ \A i \in 1..n : t[i] = r[i]
  BY AppendProperties
<1> HIDE DEF t, n
<1>3. PICK f : JoinsTo(f, sep, r)
  BY JoinDef
<1>4. PICK g : JoinsTo(g, sep, t)
  BY <1>2, JoinDef
<1>14. /\ f[0] = <<>> /\ Join(sep, r) = f[n]
       /\ \A i \in Nat : i + 1 <= n => f[i + 1] = (f[i] \o Between(sep, i + 1)) \o r[i + 1]
  BY <1>3 DEF JoinsTo, n
<1>15. /\ g[0] = <<>> /\ Join(sep, t) = g[n + 1]
       /\ \A i \in Nat : i <= n => g[i + 1] = (g[i] \o Between(sep, i + 1)) \o t[i + 1]
  <2>1. Len(t) = n + 1
    BY <1>2
  <2>2. \A i \in Nat : i <= n => i + 1 <= n + 1
    BY <1>1
  <2>3. QED
    BY <1>4, <2>1, <2>2 DEF JoinsTo
<1> DEFINE T == {i \in Nat : i <= n => f[i] \in Seq(D) /\ g[i] = f[i]}
<1>5. 0 \in T
  BY <1>14, <1>15, EmptySeq
<1>6. ASSUME NEW i \in Nat, i \in T PROVE i + 1 \in T
  <2> SUFFICES ASSUME i + 1 <= n PROVE f[i + 1] \in Seq(D) /\ g[i + 1] = f[i + 1]
    BY <1>6
  <2> DEFINE j == i + 1
             c == Between(sep, j)
             a == f[i]
             b == r[j]
  <2>1. i <= n /\ j \in 1..n /\ j <= n + 1
    BY <1>1, <1>6
  <2>2. a \in Seq(D) /\ g[i] = a
    BY <1>6, <2>1
  <2>3. f[j] = (a \o c) \o b
    BY <1>14
  <2>4. g[j] = (g[i] \o c) \o t[j]
    BY <1>15, <2>1
  <2>5. b \in Seq(D) /\ t[j] = b
    BY <1>1, <1>2, <2>1
  <2>6. c \in Seq(D)
    BY EmptySeq DEF Between
  <2> HIDE DEF j, c, a, b
  <2>7. (a \o c) \o b \in Seq(D)
    BY <2>2, <2>5, <2>6, ConcatProperties
  <2>8. f[j] \in Seq(D) /\ g[j] = f[j]
    BY <2>2, <2>3, <2>4, <2>5, <2>7
  <2>9. QED
    BY <2>8 DEF j
<1>7. n \in T
  <2> HIDE DEF T
  <2>1. QED
    BY <1>1, <1>5, <1>6, Induction
<1>8. f[n] \in Seq(D) /\ g[n] = f[n]
  BY <1>1, <1>7
<1>9. g[n + 1] = (g[n] \o Between(sep, n + 1)) \o t[n + 1] /\ Join(sep, t) = g[n + 1]
  <2>1. n <= n
    BY <1>1
  <2>2. QED
    BY <1>1, <1>15, <2>1
<1>10. n + 1 = 1 <=> r = <<>>
  BY <1>1
<1>11. r = <<>> => Join(sep, r) = <<>>
  BY <1>1, <1>14
<1>16. Between(sep, n + 1) = IF r = <<>> THEN <<>> ELSE sep
  BY <1>10 DEF Between
<1>12. Join(sep, t) = (Join(sep, r) \o (IF r = <<>> THEN <<>> ELSE sep)) \o y
  BY <1>2, <1>8, <1>9, <1>14, <1>16
<1>13. QED
  BY <1>8, <1>11, <1>12, <1>14 DEF t, JoinsLast

\* One string is itself, and another goes behind a separator.
LEMMA JoinEnds ==
    ASSUME NEW D, NEW sep \in Seq(D), NEW y \in Seq(D)
    PROVE  /\ Join(sep, <<y>>) = y
           /\ \A r \in Seq(Seq(D)) :
                 r # <<>> => Join(sep, Append(r, y)) = (Join(sep, r) \o sep) \o y
<1>1. <<>> \in Seq(Seq(D)) /\ Append(<<>>, y) = <<y>>
  BY EmptySeq
<1>7. JoinsLast(sep, <<>>, y) /\ Join(sep, <<>>) = <<>>
  BY <1>1, JoinAppend
<1>2. Join(sep, Append(<<>>, y)) = (Join(sep, <<>>) \o <<>>) \o y
  BY <1>7 DEF JoinsLast
<1>3. (<<>> \o <<>>) \o y = y
  <2>1. <<>> \o <<>> = <<>> /\ <<>> \o y = y
    BY ConcatEmptySeq, EmptySeq
  <2>2. QED
    BY <2>1
<1>4. Join(sep, <<y>>) = y
  BY <1>1, <1>2, <1>3, <1>7
<1>5. ASSUME NEW r \in Seq(Seq(D)), r # <<>>
      PROVE  Join(sep, Append(r, y)) = (Join(sep, r) \o sep) \o y
  <2>1. JoinsLast(sep, r, y)
    BY JoinAppend
  <2>2. QED
    BY <1>5, <2>1 DEF JoinsLast
<1>6. QED
  BY <1>4, <1>5

\* Joined strings begin with the first of them and a separator.
JoinsFirst(sep, x, r) == Join(sep, <<x>> \o r) = (x \o sep) \o Join(sep, r)

\* They do.
LEMMA JoinFirst ==
    ASSUME NEW D, NEW sep \in Seq(D), NEW x \in Seq(D)
    PROVE  \A r \in Seq(Seq(D)) : r # <<>> => JoinsFirst(sep, x, r)
<1> DEFINE e == <<x>>
           S == {r \in Seq(Seq(D)) : r # <<>> => JoinsFirst(sep, x, r)}
<1>1. e \in Seq(Seq(D)) /\ e # <<>>
  OBVIOUS
<1>2. Join(sep, e) = x
  BY JoinEnds
<1> HIDE DEF e
<1>3. <<>> \in S
  BY EmptySeq
<1>4. \A r \in Seq(Seq(D)), y \in Seq(D) : r \in S => Append(r, y) \in S
  <2> SUFFICES ASSUME NEW r \in Seq(Seq(D)), NEW y \in Seq(D), r \in S PROVE Append(r, y) \in S
    OBVIOUS
  <2> DEFINE u == e \o r
             j == Join(sep, r)
             v == Append(r, y)
  <2>1. e \o Append(r, y) = Append(u, y) /\ u \in Seq(Seq(D)) /\ v \in Seq(Seq(D))
    BY <1>1, AppendBehind, ConcatProperties, AppendProperties, SMTT(30)
  <2>2. u # <<>>
    BY <1>1, ConcatEqualIffEmpty
  <2> HIDE DEF u, v
  <2>3. Join(sep, Append(u, y)) = (Join(sep, u) \o sep) \o y
    <3>1. JoinsLast(sep, u, y)
      BY <2>1, JoinAppend
    <3>2. QED
      BY <2>2, <3>1 DEF JoinsLast
  <2>4. CASE r = <<>>
    <3>1. u = e
      BY <1>1, <2>4, ConcatEmptySeq DEF u
    <3>2. Append(r, y) = <<y>>
      BY <2>4
    <3>3. Join(sep, Append(r, y)) = y
      BY <3>2, JoinEnds
    <3>4. JoinsFirst(sep, x, v)
      BY <1>2, <2>1, <2>3, <3>1, <3>3 DEF JoinsFirst, v, e
    <3>5. QED
      BY <2>1, <3>4 DEF v
  <2>5. CASE r # <<>>
    <3>1. JoinsFirst(sep, x, r)
      BY <2>4, <2>5
    <3>2. Join(sep, u) = (x \o sep) \o j
      BY <3>1 DEF JoinsFirst, u, e
    <3>3. Join(sep, v) = (j \o sep) \o y
      <4>1. JoinsLast(sep, r, y)
        BY JoinAppend
      <4>2. QED
        BY <2>5, <4>1 DEF JoinsLast, v, j
    <3>4. x \o sep \in Seq(D) /\ j \in Seq(D)
      BY ConcatProperties, JoinAppend
    <3> DEFINE d == x \o sep
    <3> HIDE DEF j, d
    <3>5. Chains(d, j, sep, y)
      BY <3>4, ConcatChains DEF d
    <3>6. Join(sep, Append(u, y)) = d \o Join(sep, v)
      BY <2>3, <3>2, <3>3, <3>5 DEF Chains, d
    <3>7. JoinsFirst(sep, x, v)
      BY <2>1, <3>6 DEF JoinsFirst, d, v, e
    <3>8. QED
      BY <2>1, <3>7 DEF v
  <2>6. QED
    BY <2>4, <2>5
<1>5. \A r \in Seq(Seq(D)) : r \in S
  <2> HIDE DEF S
  <2>1. QED
    BY <1>3, <1>4, SeqInduction
<1>6. QED
  BY <1>5

-----------------------------------------------------------------------------
(* remove.                                                                 *)

\* The last character is left or not.
RemovesLast(s, c, set) == RemoveAll(Append(s, c), set) = With(RemoveAll(s, set), c, set)

\* It is.
LEMMA RemoveAppend ==
    ASSUME NEW D, NEW set, NEW s \in Seq(D), NEW c \in D
    PROVE  /\ RemoveAll(s, set) \in Seq(D) /\ (s = <<>> => RemoveAll(s, set) = <<>>)
           /\ RemovesLast(s, c, set)
<1> DEFINE n == Len(s)
           t == Append(s, c)
<1>1. n \in Nat /\ (\A i \in 1..n : s[i] \in D) /\ (s = <<>> => n = 0)
  BY LenProperties, EmptySeq
<1>2. t \in Seq(D) /\ Len(t) = n + 1 /\ t[n + 1] = c /\ \A i \in 1..n : t[i] = s[i]
  BY AppendProperties
<1> HIDE DEF t, n
<1>3. PICK f : RemovesTo(f, s, set)
  BY RemoveDef
<1>4. PICK g : RemovesTo(g, t, set)
  BY <1>2, RemoveDef
<1>5. /\ f[0] = <<>> /\ RemoveAll(s, set) = f[n]
      /\ \A i \in Nat : i + 1 <= n => f[i + 1] = With(f[i], s[i + 1], set)
  BY <1>3 DEF RemovesTo, n
<1>6. /\ g[0] = <<>> /\ RemoveAll(t, set) = g[n + 1]
      /\ \A i \in Nat : i <= n => g[i + 1] = With(g[i], t[i + 1], set)
  <2>1. Len(t) = n + 1
    BY <1>2
  <2>2. \A i \in Nat : i <= n => i + 1 <= n + 1
    BY <1>1
  <2>3. QED
    BY <1>4, <2>1, <2>2 DEF RemovesTo
<1> DEFINE T == {i \in Nat : i <= n => f[i] \in Seq(D) /\ g[i] = f[i]}
<1>7. 0 \in T
  BY <1>5, <1>6, EmptySeq
<1>8. ASSUME NEW i \in Nat, i \in T PROVE i + 1 \in T
  <2> SUFFICES ASSUME i + 1 <= n PROVE f[i + 1] \in Seq(D) /\ g[i + 1] = f[i + 1]
    BY <1>8
  <2> DEFINE j == i + 1
             a == f[i]
             b == s[j]
  <2>1. i <= n /\ j \in 1..n
    BY <1>1, <1>8
  <2>2. a \in Seq(D) /\ g[i] = a
    BY <1>8, <2>1
  <2>3. f[j] = With(a, b, set)
    BY <1>5
  <2>4. g[j] = With(g[i], t[j], set)
    BY <1>6, <2>1
  <2>5. b \in D /\ t[j] = b
    BY <1>1, <1>2, <2>1
  <2> HIDE DEF j, a, b
  <2>6. With(a, b, set) \in Seq(D)
    BY <2>2, <2>5, AppendProperties DEF With
  <2>7. f[j] \in Seq(D) /\ g[j] = f[j]
    BY <2>2, <2>3, <2>4, <2>5, <2>6
  <2>8. QED
    BY <2>7 DEF j
<1>9. n \in T
  <2> HIDE DEF T
  <2>1. QED
    BY <1>1, <1>7, <1>8, Induction
<1>10. f[n] \in Seq(D) /\ g[n] = f[n]
  BY <1>1, <1>9
<1>11. g[n + 1] = With(g[n], t[n + 1], set)
  <2>1. n <= n
    BY <1>1
  <2>2. QED
    BY <1>1, <1>6, <2>1
<1>12. RemoveAll(t, set) = With(RemoveAll(s, set), c, set)
  BY <1>2, <1>5, <1>6, <1>10, <1>11
<1>13. s = <<>> => RemoveAll(s, set) = <<>>
  BY <1>1, <1>5
<1>14. QED
  BY <1>5, <1>10, <1>12, <1>13 DEF t, RemovesLast

\* remove leaves what it leaves of the one and of the other string.
RemovesBoth(s, t, set) == RemoveAll(s \o t, set) = RemoveAll(s, set) \o RemoveAll(t, set)

\* It does.
LEMMA RemoveConcat ==
    ASSUME NEW D, NEW set, NEW s \in Seq(D)
    PROVE  \A t \in Seq(D) : RemovesBoth(s, t, set)
<1> DEFINE S == {t \in Seq(D) : RemovesBoth(s, t, set)}
           a == RemoveAll(s, set)
<1>1. a \in Seq(D)
  <2>1. CASE D = {}
    <3>1. s = <<>>
      <4>1. Len(s) \in Nat /\ \A i \in 1..Len(s) : s[i] \in D
        BY LenProperties
      <4>2. Len(s) = 0
        <5>1. Len(s) # 0 => 1 \in 1..Len(s)
          BY <4>1
        <5>2. QED
          BY <2>1, <4>1, <5>1
      <4>3. QED
        BY <4>2, EmptySeq
    <3>2. PICK f : RemovesTo(f, s, set)
      BY RemoveDef
    <3>3. QED
      BY <3>1, <3>2, EmptySeq DEF RemovesTo
  <2>2. CASE D # {}
    BY <2>2, RemoveAppend
  <2>3. QED
    BY <2>1, <2>2
<1>2. RemoveAll(<<>>, set) = <<>>
  <2>1. PICK f : RemovesTo(f, <<>>, set)
    BY EmptySeq, RemoveDef
  <2>2. QED
    BY <2>1, EmptySeq DEF RemovesTo
<1>3. <<>> \in S
  <2>1. s \o <<>> = s /\ a \o <<>> = a
    BY <1>1, ConcatEmptySeq
  <2>2. QED
    BY <1>2, <2>1, EmptySeq DEF RemovesBoth
<1>4. \A t \in Seq(D), c \in D : t \in S => Append(t, c) \in S
  <2> SUFFICES ASSUME NEW t \in Seq(D), NEW c \in D, t \in S PROVE Append(t, c) \in S
    OBVIOUS
  <2> DEFINE u == s \o t
             v == Append(t, c)
             b == RemoveAll(t, set)
  <2>1. s \o v = Append(u, c) /\ u \in Seq(D) /\ v \in Seq(D)
    BY AppendBehind, ConcatProperties, AppendProperties
  <2>2. RemoveAll(u, set) = a \o b
    BY DEF RemovesBoth
  <2>3. b \in Seq(D) /\ RemovesLast(t, c, set)
    BY RemoveAppend
  <2>4. RemoveAll(v, set) = With(b, c, set)
    BY <2>3 DEF RemovesLast
  <2> HIDE DEF u, v, b, a
  <2>5. RemovesLast(u, c, set)
    BY <2>1, RemoveAppend
  <2>6. RemoveAll(s \o v, set) = With(a \o b, c, set)
    BY <2>1, <2>2, <2>5 DEF RemovesLast
  <2>7. a \o Append(b, c) = Append(a \o b, c)
    BY <1>1, <2>3, AppendBehind
  <2>8. With(a \o b, c, set) = a \o With(b, c, set)
    BY <2>7 DEF With
  <2>9. RemovesBoth(s, v, set)
    BY <2>4, <2>6, <2>8 DEF RemovesBoth, a
  <2>10. QED
    BY <2>1, <2>9 DEF v
<1>5. \A t \in Seq(D) : t \in S
  <2> HIDE DEF S
  <2>1. QED
    BY <1>3, <1>4, SeqInduction
<1>6. QED
  BY <1>5

\* Nothing is removed where nothing is to be removed.
LEMMA RemoveNone ==
    ASSUME NEW D, NEW set
    PROVE  \A s \in Seq(D) : (\A i \in 1..Len(s) : s[i] \notin set) => RemoveAll(s, set) = s
<1> DEFINE S == {s \in Seq(D) : (\A i \in 1..Len(s) : s[i] \notin set) => RemoveAll(s, set) = s}
<1>1. <<>> \in S
  <2>1. PICK f : RemovesTo(f, <<>>, set)
    BY EmptySeq, RemoveDef
  <2>2. RemoveAll(<<>>, set) = <<>>
    BY <2>1, EmptySeq DEF RemovesTo
  <2>3. QED
    BY <2>2, EmptySeq
<1>2. \A s \in Seq(D), c \in D : s \in S => Append(s, c) \in S
  <2> SUFFICES ASSUME NEW s \in Seq(D), NEW c \in D, s \in S PROVE Append(s, c) \in S
    OBVIOUS
  <2> DEFINE u == Append(s, c)
             n == Len(s)
  <2>1. n \in Nat
    BY LenProperties
  <2>2. u \in Seq(D) /\ Len(u) = n + 1 /\ u[n + 1] = c /\ \A i \in 1..n : u[i] = s[i]
    BY AppendProperties
  <2>3. RemovesLast(s, c, set)
    BY RemoveAppend
  <2>4. RemoveAll(u, set) = With(RemoveAll(s, set), c, set)
    BY <2>3 DEF RemovesLast
  <2> HIDE DEF u
  <2>5. ASSUME \A i \in 1..Len(u) : u[i] \notin set PROVE RemoveAll(u, set) = u
    <3>1. n + 1 \in 1..Len(u) /\ \A i \in 1..n : i \in 1..Len(u)
      BY <2>1, <2>2
    <3>2. c \notin set /\ \A i \in 1..n : s[i] \notin set
      BY <2>2, <2>5, <3>1
    <3>3. RemoveAll(s, set) = s
      BY <3>2
    <3>4. QED
      BY <2>4, <3>2, <3>3 DEF With, u
  <2>6. QED
    BY <2>2, <2>5 DEF u
<1>3. \A s \in Seq(D) : s \in S
  <2> HIDE DEF S
  <2>1. QED
    BY <1>1, <1>2, SeqInduction
<1>4. QED
  BY <1>3

\* Nothing is left where all is to be removed.
LEMMA RemoveWhole ==
    ASSUME NEW D, NEW set
    PROVE  \A s \in Seq(D) : (\A i \in 1..Len(s) : s[i] \in set) => RemoveAll(s, set) = <<>>
<1> DEFINE S == {s \in Seq(D) : (\A i \in 1..Len(s) : s[i] \in set) => RemoveAll(s, set) = <<>>}
<1>1. <<>> \in S
  <2>1. PICK f : RemovesTo(f, <<>>, set)
    BY EmptySeq, RemoveDef
  <2>2. RemoveAll(<<>>, set) = <<>>
    BY <2>1, EmptySeq DEF RemovesTo
  <2>3. QED
    BY <2>2, EmptySeq
<1>2. \A s \in Seq(D), c \in D : s \in S => Append(s, c) \in S
  <2> SUFFICES ASSUME NEW s \in Seq(D), NEW c \in D, s \in S PROVE Append(s, c) \in S
    OBVIOUS
  <2> DEFINE u == Append(s, c)
             n == Len(s)
  <2>1. n \in Nat
    BY LenProperties
  <2>2. u \in Seq(D) /\ Len(u) = n + 1 /\ u[n + 1] = c /\ \A i \in 1..n : u[i] = s[i]
    BY AppendProperties
  <2>3. RemovesLast(s, c, set)
    BY RemoveAppend
  <2>4. RemoveAll(u, set) = With(RemoveAll(s, set), c, set)
    BY <2>3 DEF RemovesLast
  <2> HIDE DEF u
  <2>5. ASSUME \A i \in 1..Len(u) : u[i] \in set PROVE RemoveAll(u, set) = <<>>
    <3>1. n + 1 \in 1..Len(u) /\ \A i \in 1..n : i \in 1..Len(u)
      BY <2>1, <2>2
    <3>2. c \in set /\ \A i \in 1..n : s[i] \in set
      BY <2>2, <2>5, <3>1
    <3>3. RemoveAll(s, set) = <<>>
      BY <3>2
    <3>4. QED
      BY <2>4, <3>2, <3>3 DEF With
  <2>6. QED
    BY <2>2, <2>5 DEF u
<1>3. \A s \in Seq(D) : s \in S
  <2> HIDE DEF S
  <2>1. QED
    BY <1>1, <1>2, SeqInduction
<1>4. QED
  BY <1>3

-----------------------------------------------------------------------------
(* split.                                                                  *)

\* A part of a part is a part.
LEMMA PartOfPart ==
    ASSUME NEW D, NEW s \in Seq(D), NEW p \in 0..Len(s), NEW q \in p..Len(s),
           NEW i \in 0..(q - p), NEW j \in i..(q - p)
    PROVE  Part(Part(s, p, q), i, j) = Part(s, p + i, p + j)
<1> DEFINE x == Part(s, p, q)
           a == Part(x, i, j)
           m == p + i
           n == p + j
           b == Part(s, m, n)
<1>1. Len(s) \in Nat /\ p \in Nat /\ q \in Nat /\ i \in Nat /\ j \in Nat
  BY LenProperties
<1>2. x \in Seq(D) /\ Len(x) = q - p /\ \A k \in 1..(q - p) : x[k] = s[p + k]
  BY PartType
<1>3. m \in 0..Len(s) /\ n \in m..Len(s) /\ n - m = j - i
  BY <1>1
<1>4. i \in 0..Len(x) /\ j \in i..Len(x)
  BY <1>2
<1> HIDE DEF x, m, n
<1>5. a \in Seq(D) /\ Len(a) = j - i /\ \A k \in 1..(j - i) : a[k] = x[i + k]
  <2>1. x \in Seq(D)
    BY <1>2
  <2>2. i \in 0..Len(x) /\ j \in i..Len(x)
    BY <1>4
  <2>3. Part(x, i, j) \in Seq(D) /\ HasOf(Part(x, i, j), x, i, j)
    BY <2>1, <2>2, PartHas
  <2>4. QED
    BY <2>1, <2>3 DEF HasOf, a
<1>6. b \in Seq(D) /\ Len(b) = n - m /\ \A k \in 1..(n - m) : b[k] = s[m + k]
  BY <1>3, PartType
<1> HIDE DEF a, b
<1>7. ASSUME NEW k \in 1..Len(a) PROVE a[k] = b[k]
  <2>1. k \in 1..(j - i) /\ k \in 1..(n - m) /\ i + k \in 1..(q - p)
    BY <1>1, <1>3, <1>5, <1>7
  <2>2. a[k] = s[p + (i + k)]
    BY <1>2, <1>5, <2>1
  <2>3. p + (i + k) = m + k
    BY <1>1, <2>1 DEF m
  <2>4. QED
    BY <1>6, <2>1, <2>2, <2>3
<1>8. Len(a) = Len(b)
  BY <1>3, <1>5, <1>6
<1>9. a = b
  BY <1>5, <1>6, <1>7, <1>8, SeqEqual
<1>10. QED
  BY <1>9 DEF a, b, x, m, n

\* t is at i.
LEMMA OccursAt ==
    ASSUME NEW D, NEW s \in Seq(D), NEW t \in Seq(D), NEW i \in Nat
    PROVE  Occurs(s, t, i) <=> i + Len(t) <= Len(s) /\ Part(s, i, i + Len(t)) = t
<1>1. Len(s) \in Nat /\ i + Len(t) \in Nat
  <2>1. Len(t) \in Nat
    BY LenProperties
  <2>2. QED
    BY <2>1, LenProperties
<1>2. Sub(s, i, i + Len(t)) = Part(s, i, i + Len(t))
  BY <1>1, SubIsPart
<1>3. QED
  BY <1>2 DEF Occurs

\* What is found in a part, was there.
LEMMA FoundBefore ==
    ASSUME NEW D, NEW s \in Seq(D), NEW t \in Seq(D), NEW p \in 0..Len(s), NEW q \in p..Len(s),
           \A j \in p..(q - Len(t)) : ~Occurs(s, t, j)
    PROVE  Find(Part(s, p, q), t) = NotFound
<1> DEFINE x == Part(s, p, q)
           i == Find(x, t)
           M == Len(t)
<1>1. Len(s) \in Nat /\ p \in Nat /\ q \in Nat /\ M \in Nat
  BY LenProperties
<1>2. x \in Seq(D) /\ Len(x) = q - p
  BY PartType
<1>3. 0 \in 0..Len(x) /\ i = FindIn(x, t, 0, Len(x))
  BY <1>1, <1>2 DEF Find
<1> HIDE DEF x, i
<1>4. Finds(x, t, 0, i)
  BY <1>2, <1>3, FindInFinds
<1>5. ASSUME i # NotFound PROVE FALSE
  <2>1. i \in 0..(Len(x) - M) /\ Occurs(x, t, i)
    BY <1>4, <1>5 DEF Finds
  <2> DEFINE j == i + M
             m == p + i
  <2>2. /\ i \in Nat /\ i \in 0..(q - p) /\ j \in i..(q - p)
        /\ m \in p..(q - M) /\ m \in Nat /\ p + j = m + M
    BY <1>1, <1>2, <2>1
  <2>3. Part(x, i, j) = t
    BY <1>2, <2>1, <2>2, OccursAt
  <2> HIDE DEF j
  <2>4. Part(x, i, j) = Part(s, p + i, p + j)
    BY <2>2, PartOfPart DEF x
  <2>5. Part(s, m, m + M) = t
    BY <2>2, <2>3, <2>4
  <2> HIDE DEF m
  <2>6. m + M <= Len(s)
    BY <1>1, <2>2
  <2>7. Occurs(s, t, m)
    BY <2>2, <2>5, <2>6, OccursAt
  <2>8. QED
    BY <2>2, <2>7
<1>6. QED
  BY <1>5 DEF x, i

\* What split makes of s from p on: f[p], and c[p] is what count counts there.
SplitsFrom(s, t, D, f, c, p) ==
    /\ c[p] \in Nat
    /\ f[p] \in Seq(Seq(D)) /\ f[p] # <<>> /\ Len(f[p]) = c[p] + 1
    /\ Join(t, f[p]) = Part(s, p, Len(s))
    /\ \A k \in 1..Len(f[p]) : Find(f[p][k], t) = NotFound

\* Behind each separator split and count go on with what they make of the rest, and the
\* pieces joined are the string.
LEMMA SplitClaim ==
    ASSUME NEW D, NEW s \in Seq(D), NEW t \in Seq(D), Len(t) >= 1, NEW f, NEW c,
           \A p \in 0..Len(s) : SplitsBy(f, s, t, p) /\ CountsBy(c, s, t, p)
    PROVE  \A p \in 0..Len(s) : SplitsFrom(s, t, D, f, c, p)
<1> DEFINE L == Len(s)
           M == Len(t)
           S == {p \in 0..L : SplitsFrom(s, t, D, f, c, p)}
<1>1. L \in Nat /\ M \in Nat /\ M >= 1
  BY LenProperties
<1>2. ASSUME NEW p \in 0..L, \A q \in (p + 1)..L : q \in S PROVE p \in S
  <2> DEFINE i == FindIn(s, t, p, L)
  <2>1. Finds(s, t, p, i)
    BY FindInFinds
  <2>2. /\ f[p] = IF i = NotFound THEN <<From(s, p)>> ELSE <<Sub(s, p, i)>> \o f[i + M]
        /\ c[p] = IF i = NotFound THEN 0 ELSE 1 + c[i + M]
    BY DEF SplitsBy, CountsBy
  <2> HIDE DEF i, L, M
  <2>3. p \in Nat /\ L \in p..L /\ From(s, p) = Part(s, p, L)
    BY <1>1, SubIsPart DEF L
  <2>4. CASE i = NotFound
    <3> DEFINE x == Part(s, p, L)
    <3>1. f[p] = <<x>> /\ c[p] = 0
      BY <2>2, <2>3, <2>4
    <3>2. x \in Seq(D)
      BY <2>3, PartType DEF L
    <3>3. \A j \in p..(L - M) : ~Occurs(s, t, j)
      BY <2>1, <2>4 DEF Finds, L, M
    <3>4. Find(x, t) = NotFound
      BY <2>3, <3>3, FoundBefore DEF L, M
    <3> HIDE DEF x
    <3>5. Join(t, <<x>>) = x
      BY <3>2, JoinEnds
    <3>6. <<x>> \in Seq(Seq(D)) /\ Len(<<x>>) = 1 /\ <<x>> # <<>> /\ <<x>>[1] = x
      BY <3>2
    <3>7. \A k \in 1..Len(f[p]) : Find(f[p][k], t) = NotFound
      BY <3>1, <3>4, <3>6
    <3>8. SplitsFrom(s, t, D, f, c, p)
      BY <3>1, <3>5, <3>6, <3>7 DEF SplitsFrom, x, L
    <3>9. QED
      BY <3>8 DEF L
  <2>5. CASE i # NotFound
    <3> DEFINE n == i + M
               x == Part(s, p, i)
               r == f[n]
               y == Part(s, n, L)
    <3>1. i \in p..(L - M) /\ Occurs(s, t, i) /\ \A j \in p..(i - 1) : ~Occurs(s, t, j)
      BY <2>1, <2>5 DEF Finds, L, M
    <3>2. /\ i \in Nat /\ i \in p..L /\ L \in n..L
          /\ n \in Nat /\ n \in (p + 1)..L /\ n \in 0..L /\ n \in i..L
      BY <1>1, <2>3, <3>1
    <3>3. Sub(s, p, i) = x
      BY <2>3, <3>2, SubIsPart, <1>1 DEF L
    <3>4. f[p] = <<x>> \o r /\ c[p] = 1 + c[n]
      BY <2>2, <2>5, <3>3
    <3>5. n \in S
      BY <1>2, <3>2
    <3>6. SplitsFrom(s, t, D, f, c, n)
      BY <3>5
    <3>7. /\ c[n] \in Nat /\ r \in Seq(Seq(D)) /\ r # <<>> /\ Len(r) = c[n] + 1
          /\ Join(t, r) = y /\ \A k \in 1..Len(r) : Find(r[k], t) = NotFound
      BY <3>6 DEF SplitsFrom, L
    <3>8. x \in Seq(D)
      BY <3>2, PartType DEF L
    <3>9. \A j \in p..(i - M) : ~Occurs(s, t, j)
      <4>1. \A j \in p..(i - M) : j \in p..(i - 1)
        BY <1>1, <3>2
      <4>2. QED
        BY <3>1, <4>1
    <3>10. Find(x, t) = NotFound
      BY <3>2, <3>9, FoundBefore DEF L, M
    <3>11. Part(s, i, n) = t
      BY <3>1, <3>2, OccursAt DEF M
    <3>12. x \o t = Part(s, p, n)
      <4>1. Part(s, p, i) \o Part(s, i, n) = Part(s, p, n)
        <5>1. p \in 0..Len(s) /\ i \in p..Len(s) /\ n \in i..Len(s)
          BY <3>2 DEF L
        <5> HIDE DEF n
        <5>2. QED
          BY <5>1, PartJoin
      <4>2. QED
        BY <3>11, <4>1
    <3>13. Part(s, p, n) \o y = Part(s, p, L)
      <4>1. p \in 0..Len(s) /\ n \in p..Len(s) /\ L \in n..Len(s)
        BY <3>2, <1>1, <2>3 DEF L
      <4> HIDE DEF n
      <4>2. QED
        BY <4>1, PartJoin
    <3> HIDE DEF x, y, r, n
    <3>14. JoinsFirst(t, x, r)
      BY <3>7, <3>8, JoinFirst
    <3>15. Join(t, f[p]) = Part(s, p, L)
      BY <3>4, <3>7, <3>12, <3>13, <3>14 DEF JoinsFirst
    <3>16. <<x>> \in Seq(Seq(D)) /\ Len(<<x>>) = 1 /\ <<x>>[1] = x
      BY <3>8
    <3> DEFINE u == <<x>>
    <3>17. u \in Seq(Seq(D)) /\ Len(u) = 1 /\ u[1] = x /\ f[p] = u \o r
      BY <3>4, <3>16
    <3> HIDE DEF u
    <3>18. /\ f[p] \in Seq(Seq(D)) /\ Len(f[p]) = 1 + Len(r)
           /\ \A k \in 1..1 + Len(r) : f[p][k] = IF k <= 1 THEN u[k] ELSE r[k - 1]
      <4> DEFINE T == Seq(D)
      <4>1. r \in Seq(T) /\ u \in Seq(T)
        BY <3>7, <3>17
      <4> HIDE DEF T
      <4>2. /\ u \o r \in Seq(T) /\ Len(u \o r) = Len(u) + Len(r)
            /\ \A k \in 1..Len(u) + Len(r) : (u \o r)[k] = IF k <= Len(u) THEN u[k]
                                                         ELSE r[k - Len(u)]
        BY <4>1, ConcatProperties
      <4>3. QED
        BY <3>17, <4>2 DEF T
    <3>19. ASSUME NEW k \in 1..Len(f[p]) PROVE Find(f[p][k], t) = NotFound
      <4>1. Len(r) \in Nat
        BY <3>7
      <4>2. k \in 1..1 + Len(r) /\ (k <= 1 => k = 1) /\ (~(k <= 1) => k - 1 \in 1..Len(r))
        BY <3>18, <4>1
      <4>3. CASE k <= 1
        BY <3>10, <3>17, <3>18, <4>2, <4>3
      <4>4. CASE ~(k <= 1)
        BY <3>7, <3>18, <4>2, <4>4
      <4>5. QED
        BY <4>3, <4>4
    <3>20. c[p] \in Nat /\ Len(f[p]) = c[p] + 1 /\ Len(f[p]) # 0
      BY <3>4, <3>7, <3>18, SMTT(30)
    <3>21. f[p] # <<>>
      BY <3>20
    <3>22. SplitsFrom(s, t, D, f, c, p)
      BY <3>15, <3>18, <3>19, <3>20, <3>21 DEF SplitsFrom, L
    <3>23. QED
      BY <3>22 DEF L
  <2>6. QED
    BY <2>4, <2>5
<1>3. \A p \in 0..L : p \in S
  <2> HIDE DEF S, L
  <2>1. QED
    BY <1>1, <1>2, DownInduction
<1>4. QED
  BY <1>3

-----------------------------------------------------------------------------
(* replace, there and back.                                                *)

\* A sequence whose elements are all in B is one over B.
LEMMA SeqOver ==
    ASSUME NEW A, NEW B, NEW s \in Seq(A), \A i \in 1..Len(s) : s[i] \in B
    PROVE  s \in Seq(B)
<1>1. Len(s) \in Nat /\ s \in [1..Len(s) -> A]
  BY LenProperties
<1> DEFINE n == Len(s)
<1>2. s \in [1..n -> B]
  BY <1>1
<1>3. n \in Nat
  BY <1>1
<1> HIDE DEF n
<1>4. QED
  BY <1>2, <1>3, SeqDef

\* What does not find a character finds it nowhere.
LEMMA FoundNowhere ==
    ASSUME NEW D, NEW b \in D, NEW x \in Seq(D), Find(x, <<b>>) = NotFound
    PROVE  \A k \in 1..Len(x) : x[k] # b
<1> DEFINE e == <<b>>
           L == Len(x)
<1>1. e \in Seq(D) /\ Len(e) = 1 /\ e[1] = b
  OBVIOUS
<1>2. L \in Nat
  BY LenProperties
<1> HIDE DEF e
<1>3. 0 \in 0..Len(x)
  BY <1>2
<1>4. Finds(x, e, 0, FindIn(x, e, 0, L))
  BY <1>1, <1>3, FindInFinds
<1>5. FindIn(x, e, 0, L) = NotFound
  BY DEF Find, e
<1>6. \A j \in 0..(L - 1) : ~Occurs(x, e, j)
  BY <1>1, <1>4, <1>5 DEF Finds
<1>7. ASSUME NEW k \in 1..L, x[k] = b PROVE FALSE
  <2> DEFINE j == k - 1
             y == Part(x, j, k)
  <2>1. /\ j \in 0..(L - 1) /\ j \in Nat /\ j \in 0..L
        /\ k = j + 1 /\ k \in j..L /\ k - j = 1 /\ k <= L
    BY <1>2
  <2> HIDE DEF j
  <2>2. y \in Seq(D) /\ Len(y) = k - j /\ \A i \in 1..(k - j) : y[i] = x[j + i]
    BY <2>1, PartType
  <2> HIDE DEF y
  <2>3. Len(y) = 1 /\ y[1] = b
    BY <1>7, <2>1, <2>2
  <2>4. y = e
    BY <1>1, <2>2, <2>3, SeqEqual
  <2>5. Occurs(x, e, j)
    BY <1>1, <2>1, <2>4, OccursAt DEF y
  <2>6. QED
    BY <1>6, <2>1, <2>5
<1>8. QED
  BY <1>7

\* c \o <<b>> \o x, with a name for it.
Cut(c, b, x) == (c \o <<b>>) \o x

\* b is behind c, and x behind b.
Cuts(D, c, b, x) ==
    /\ Cut(c, b, x) \in Seq(D) /\ Len(Cut(c, b, x)) = Len(c) + 1 + Len(x)
    /\ Cut(c, b, x)[Len(c) + 1] = b
    /\ \A i \in 1..Len(c) : Cut(c, b, x)[i] = c[i]
    /\ \A i \in 1..Len(x) : Cut(c, b, x)[Len(c) + 1 + i] = x[i]

\* They are.
LEMMA CutType ==
    ASSUME NEW D, NEW b \in D, NEW c \in Seq(D), NEW x \in Seq(D)
    PROVE  Cuts(D, c, b, x)
<1> DEFINE e == <<b>>
           n == Len(c)
           d == c \o e
           u == d \o x
           j == n + 1
<1>1. e \in Seq(D) /\ Len(e) = 1 /\ e[1] = b
  OBVIOUS
<1>2. n \in Nat /\ Len(x) \in Nat
  BY LenProperties
<1> HIDE DEF e
<1>3. /\ d \in Seq(D) /\ Len(d) = n + Len(e)
      /\ \A i \in 1..n + Len(e) : d[i] = IF i <= n THEN c[i] ELSE e[i - n]
  BY <1>1, ConcatProperties
<1> HIDE DEF d
<1>4. /\ u \in Seq(D) /\ Len(u) = Len(d) + Len(x)
      /\ \A i \in 1..Len(d) + Len(x) : u[i] = IF i <= Len(d) THEN d[i] ELSE x[i - Len(d)]
  <2>1. d \in Seq(D)
    BY <1>3
  <2>2. QED
    BY <2>1, ConcatProperties
<1>5. Cut(c, b, x) = u
  BY DEF Cut, u, d, e
<1>6. j \in Nat /\ j >= 1 /\ j - n = 1 /\ ~(j <= n) /\ \A i \in 1..n : i <= j
  BY <1>2
<1>7. Len(d) = j /\ n + Len(e) = j
  BY <1>1, <1>3
<1>8. j + Len(x) = n + 1 + Len(x) /\ \A i \in 1..Len(x) : n + 1 + i = j + i
  BY <1>2
<1> HIDE DEF u, n, j
<1>9. u[j] = b
  <2>1. j \in 1..j /\ j \in 1..j + Len(x) /\ j <= j
    BY <1>2, <1>6
  <2>2. u[j] = d[j]
    BY <1>4, <1>7, <2>1
  <2>3. d[j] = e[1]
    BY <1>3, <1>6, <1>7, <2>1
  <2>4. QED
    BY <1>1, <2>2, <2>3
<1>10. ASSUME NEW i \in 1..n PROVE u[i] = c[i]
  <2>1. i \in 1..j /\ i \in 1..j + Len(x) /\ i <= j /\ i <= n
    BY <1>2, <1>6
  <2>2. u[i] = d[i]
    BY <1>4, <1>7, <2>1
  <2>3. QED
    BY <1>3, <1>7, <2>1, <2>2
<1>11. ASSUME NEW i \in 1..Len(x) PROVE u[j + i] = x[i]
  <2> DEFINE k == j + i
  <2>1. k \in 1..j + Len(x) /\ ~(k <= j) /\ k - j = i
    BY <1>2, <1>6
  <2> HIDE DEF k
  <2>2. u[k] = x[k - j]
    BY <1>4, <1>7, <2>1
  <2>3. QED
    BY <2>1, <2>2 DEF k
<1>12. ASSUME NEW i \in 1..Len(x) PROVE u[n + 1 + i] = x[i]
  BY <1>8, <1>11
<1>13. Len(u) = n + 1 + Len(x)
  BY <1>4, <1>7, <1>8
<1>14. QED
  BY <1>4, <1>5, <1>9, <1>10, <1>12, <1>13 DEF n, j, Cuts

\* Behind the last b there is not more on one side than on the other.
LEMMA CutNotBefore ==
    ASSUME NEW D, NEW b, b \notin D, NEW c \in Seq(D \cup {b}), NEW d \in Seq(D \cup {b}),
           NEW x \in Seq(D), NEW y \in Seq(D), Cut(c, b, x) = Cut(d, b, y)
    PROVE  Len(c) <= Len(d)
<1> DEFINE A == D \cup {b}
           k == Len(c)
           n == Len(d)
           u == Cut(c, b, x)
           i == k - n
<1>1. x \in Seq(A) /\ y \in Seq(A) /\ b \in A
  BY SeqMonotonic
<1>2. c \in Seq(A) /\ d \in Seq(A)
  OBVIOUS
<1> HIDE DEF A
<1>8. Cuts(A, c, b, x) /\ Cuts(A, d, b, y)
  BY <1>1, <1>2, CutType
<1>3. /\ Len(u) = k + 1 + Len(x) /\ u[k + 1] = b
  BY <1>8 DEF Cuts
<1>4. /\ Len(u) = n + 1 + Len(y) /\ \A j \in 1..Len(y) : u[n + 1 + j] = y[j]
  BY <1>8 DEF Cuts
<1>5. k \in Nat /\ n \in Nat /\ Len(x) \in Nat /\ Len(y) \in Nat /\ \A j \in 1..Len(y) : y[j] \in D
  BY <1>2, LenProperties
<1> HIDE DEF u, k, n
<1>6. ASSUME ~(k <= n) PROVE FALSE
  <2>1. i \in 1..Len(y) /\ n + 1 + i = k + 1
    BY <1>3, <1>4, <1>5, <1>6
  <2> HIDE DEF i
  <2>2. u[n + 1 + i] = y[i] /\ y[i] \in D
    BY <1>4, <1>5, <2>1
  <2>3. QED
    BY <1>3, <2>1, <2>2
<1>7. QED
  BY <1>6 DEF k, n

\* What is before the last b, and what is behind it, is one thing.
LEMMA LastCut ==
    ASSUME NEW D, NEW b, b \notin D, NEW c \in Seq(D \cup {b}), NEW d \in Seq(D \cup {b}),
           NEW x \in Seq(D), NEW y \in Seq(D), Cut(c, b, x) = Cut(d, b, y)
    PROVE  c = d /\ x = y
<1> DEFINE A == D \cup {b}
           n == Len(c)
           u == Cut(c, b, x)
<1>1. x \in Seq(A) /\ y \in Seq(A) /\ b \in A
  BY SeqMonotonic
<1>2. c \in Seq(A) /\ d \in Seq(A)
  OBVIOUS
<1>3. Len(c) <= Len(d) /\ Len(d) <= Len(c)
  BY CutNotBefore
<1>4. n \in Nat /\ Len(d) \in Nat /\ Len(x) \in Nat /\ Len(y) \in Nat
  BY LenProperties
<1>5. Len(d) = n
  BY <1>3, <1>4
<1> HIDE DEF A
<1>14. Cuts(A, c, b, x) /\ Cuts(A, d, b, y)
  BY <1>1, <1>2, CutType
<1>6. /\ Len(u) = n + 1 + Len(x)
      /\ \A i \in 1..n : u[i] = c[i]
      /\ \A i \in 1..Len(x) : u[n + 1 + i] = x[i]
  BY <1>14 DEF Cuts
<1>7. /\ Len(u) = Len(d) + 1 + Len(y)
      /\ \A i \in 1..Len(d) : u[i] = d[i]
      /\ \A i \in 1..Len(y) : u[Len(d) + 1 + i] = y[i]
  BY <1>14 DEF Cuts
<1>8. Len(x) = Len(y)
  BY <1>4, <1>5, <1>6, <1>7
<1> HIDE DEF u
<1>9. \A i \in 1..Len(c) : c[i] = d[i]
  BY <1>5, <1>6, <1>7
<1>10. \A i \in 1..Len(x) : x[i] = y[i]
  BY <1>5, <1>6, <1>7, <1>8
<1>11. c = d
  BY <1>2, <1>5, <1>9, SeqEqual
<1>12. x = y
  BY <1>8, <1>10, SeqEqual
<1>13. QED
  BY <1>11, <1>12

\* Strings without b, joined with b between them, are the same strings when they join to
\* the same.
JoinsOnce(b, p, q) == Join(<<b>>, p) = Join(<<b>>, q) => p = q

\* They are.
LEMMA JoinInjective ==
    ASSUME NEW D, NEW b, b \notin D
    PROVE  \A p \in Seq(Seq(D)) : p # <<>> =>
              \A q \in Seq(Seq(D)) : q # <<>> => JoinsOnce(b, p, q)
<1> DEFINE A == D \cup {b}
           e == <<b>>
           T == Seq(D)
           S == {p \in Seq(T) : p # <<>> => \A q \in Seq(T) : q # <<>> => JoinsOnce(b, p, q)}
<1>1. e \in Seq(A) /\ Len(e) = 1
  OBVIOUS
<1>2. T \subseteq Seq(A)
  <2>1. ASSUME NEW x \in T PROVE x \in Seq(A)
    BY SeqMonotonic
  <2>2. QED
    BY <2>1
<1>3. ASSUME NEW r \in Seq(T) PROVE r \in Seq(Seq(A)) /\ Join(e, r) \in Seq(A)
  <2> HIDE DEF T, A, e
  <2>1. r \in Seq(Seq(A))
    BY <1>2, SeqMonotonic
  <2>2. PICK x : x \in Seq(A)
    BY <1>1
  <2>3. QED
    BY <1>1, <2>1, <2>2, JoinAppend
<1>4. ASSUME NEW r \in Seq(T), NEW x \in T
      PROVE  Join(e, Append(r, x)) = IF r = <<>> THEN x ELSE Cut(Join(e, r), b, x)
  <2>1. CASE r = <<>>
    <3>1. Append(r, x) = <<x>> /\ x \in Seq(A)
      BY <1>2, <2>1
    <3> HIDE DEF T, A, e
    <3>2. QED
      BY <1>1, <2>1, <3>1, JoinEnds
  <2>2. CASE r # <<>>
    <3>1. r \in Seq(Seq(A)) /\ x \in Seq(A)
      BY <1>2, <1>3
    <3> HIDE DEF T, A
    <3>2. Join(e, Append(r, x)) = (Join(e, r) \o e) \o x
      <4> HIDE DEF e
      <4>1. e \in Seq(A)
        BY <1>1
      <4>2. JoinsLast(e, r, x)
        BY <3>1, <4>1, JoinAppend
      <4>3. QED
        BY <2>2, <4>2 DEF JoinsLast
    <3>3. QED
      BY <2>2, <3>2 DEF Cut
  <2>3. QED
    BY <2>1, <2>2
<1>5. ASSUME NEW y \in T, NEW r \in Seq(T), NEW x \in T, y = Cut(Join(e, r), b, x) PROVE FALSE
  <2> DEFINE c == Join(e, r)
             n == Len(c)
             k == n + 1
  <2>1. c \in Seq(A) /\ x \in Seq(A) /\ b \in A
    BY <1>2, <1>3
  <2> HIDE DEF A, c
  <2>2. Cuts(A, c, b, x)
    BY <2>1, CutType
  <2>3. Len(y) = n + 1 + Len(x) /\ y[k] = b
    BY <1>5, <2>2 DEF Cuts, c
  <2>4. n \in Nat /\ Len(x) \in Nat /\ \A i \in 1..Len(y) : y[i] \in D
    BY <2>1, LenProperties
  <2>5. k \in 1..Len(y)
    BY <2>3, <2>4
  <2>6. QED
    BY <2>3, <2>4, <2>5
<1> HIDE DEF T, A
<1>6. <<>> \in S
  BY EmptySeq
<1>7. \A p \in Seq(T), x \in T : p \in S => Append(p, x) \in S
  <2> SUFFICES ASSUME NEW p \in Seq(T), NEW x \in T, p \in S PROVE Append(p, x) \in S
    OBVIOUS
  <2> DEFINE u == Append(p, x)
  <2>1. u \in Seq(T)
    BY AppendProperties
  <2>2. ASSUME NEW q \in Seq(T), q # <<>>, Join(e, u) = Join(e, q) PROVE u = q
    <3>1. PICK r \in Seq(T), y \in T : q = Append(r, y)
      BY <2>2, SequenceEmptyOrAppend
    <3>2. Join(e, u) = IF p = <<>> THEN x ELSE Cut(Join(e, p), b, x)
      BY <1>4
    <3>3. Join(e, q) = IF r = <<>> THEN y ELSE Cut(Join(e, r), b, y)
      BY <1>4, <3>1
    <3>4. CASE p = <<>> /\ r = <<>>
      BY <2>2, <3>1, <3>2, <3>3, <3>4
    <3>5. CASE p = <<>> /\ r # <<>>
      <4>1. x = Cut(Join(e, r), b, y)
        BY <2>2, <3>2, <3>3, <3>5
      <4>2. QED
        BY <1>5, <4>1
    <3>6. CASE p # <<>> /\ r = <<>>
      <4>1. y = Cut(Join(e, p), b, x)
        BY <2>2, <3>2, <3>3, <3>6
      <4>2. QED
        BY <1>5, <4>1
    <3>7. CASE p # <<>> /\ r # <<>>
      <4> DEFINE c == Join(e, p)
                 d == Join(e, r)
      <4>1. Cut(c, b, x) = Cut(d, b, y)
        BY <2>2, <3>2, <3>3, <3>7
      <4>2. c \in Seq(D \cup {b}) /\ d \in Seq(D \cup {b}) /\ x \in Seq(D) /\ y \in Seq(D)
        BY <1>3 DEF A, T
      <4> HIDE DEF c, d
      <4>3. c = d /\ x = y
        BY <4>1, <4>2, LastCut, SMTT(30)
      <4>4. JoinsOnce(b, p, r)
        BY <3>7
      <4>5. p = r
        BY <4>3, <4>4 DEF JoinsOnce, c, d
      <4>6. QED
        BY <3>1, <4>3, <4>5
    <3>8. QED
      BY <3>4, <3>5, <3>6, <3>7
  <2> HIDE DEF u
  <2>3. ASSUME NEW q \in Seq(T), q # <<>> PROVE JoinsOnce(b, u, q)
    BY <2>2, <2>3 DEF JoinsOnce
  <2>4. QED
    BY <2>1, <2>3 DEF u
<1>8. \A p \in Seq(T) : p \in S
  <2> HIDE DEF S
  <2>1. QED
    BY <1>6, <1>7, SeqInduction
<1>9. QED
  BY <1>8 DEF T

\* What replace put in place of the separators is found there again: replacing there and
\* back changes nothing.
LEMMA ReplaceBack ==
    ASSUME NEW D, NEW b, b \notin D, NEW s \in Seq(D), NEW t \in Seq(D), Len(t) >= 1
    PROVE  Replace(Replace(s, t, <<b>>), <<b>>, t) = s
<1> DEFINE A == D \cup {b}
           e == <<b>>
           p == Split(s, t)
           v == Join(e, p)
           q == Split(v, e)
<1>1. e \in Seq(A) /\ Len(e) = 1
  OBVIOUS
<1>2. PICK f : Split(s, t) = f[0] /\ \A i \in 0..Len(s) : SplitsBy(f, s, t, i)
  BY SplitDef
<1>3. PICK c : Count(s, t) = c[0] /\ \A i \in 0..Len(s) : CountsBy(c, s, t, i)
  BY CountDef
<1>4. 0 \in 0..Len(s)
  <2>1. Len(s) \in Nat
    BY LenProperties
  <2>2. QED
    BY <2>1
<1>5. SplitsFrom(s, t, D, f, c, 0)
  BY <1>2, <1>3, <1>4, SplitClaim
<1>6. p \in Seq(Seq(D)) /\ p # <<>> /\ Join(t, p) = s
  <2>1. Part(s, 0, Len(s)) = s
    BY PartAll
  <2>2. QED
    BY <1>2, <1>5, <2>1 DEF SplitsFrom
<1> HIDE DEF p, e, A
<1>7. p \in Seq(Seq(A))
  <2>1. ASSUME NEW x \in Seq(D) PROVE x \in Seq(A)
    BY SeqMonotonic DEF A
  <2>2. Seq(D) \subseteq Seq(A)
    BY <2>1
  <2>3. QED
    BY <1>6, <2>2, SeqMonotonic
<1>8. v \in Seq(A)
  BY <1>1, <1>7, JoinAppend
<1> HIDE DEF v
<1>9. Len(e) >= 1
  BY <1>1
<1>10. PICK g : Split(v, e) = g[0] /\ \A i \in 0..Len(v) : SplitsBy(g, v, e, i)
  BY <1>1, <1>8, <1>9, SplitDef
<1>11. PICK h : Count(v, e) = h[0] /\ \A i \in 0..Len(v) : CountsBy(h, v, e, i)
  BY <1>1, <1>8, <1>9, CountDef
<1>12. 0 \in 0..Len(v)
  <2>1. Len(v) \in Nat
    BY <1>8, LenProperties
  <2>2. QED
    BY <2>1
<1>13. SplitsFrom(v, e, A, g, h, 0)
  BY <1>1, <1>8, <1>9, <1>10, <1>11, <1>12, SplitClaim
<1>14. /\ q \in Seq(Seq(A)) /\ q # <<>> /\ Join(e, q) = v
       /\ \A k \in 1..Len(q) : Find(q[k], e) = NotFound
  <2>1. Part(v, 0, Len(v)) = v
    BY <1>8, PartAll
  <2>2. QED
    BY <1>10, <1>13, <2>1 DEF SplitsFrom
<1> HIDE DEF q
<1>15. ASSUME NEW k \in 1..Len(q) PROVE q[k] \in Seq(D)
  <2> DEFINE x == q[k]
  <2>1. x \in Seq(A) /\ b \in A
    <3> DEFINE T == Seq(A)
    <3>1. q \in Seq(T)
      BY <1>14
    <3> HIDE DEF T
    <3>2. q[k] \in T
      BY <3>1, ElementOfSeq
    <3>3. QED
      BY <3>2 DEF T, A
  <2>2. Find(x, <<b>>) = NotFound
    BY <1>14 DEF e
  <2> HIDE DEF x
  <2>3. \A i \in 1..Len(x) : x[i] # b
    BY <2>1, <2>2, FoundNowhere
  <2>4. \A i \in 1..Len(x) : x[i] \in D
    BY <2>1, <2>3, ElementOfSeq DEF A
  <2>5. x \in Seq(D)
    BY <2>1, <2>4, SeqOver
  <2>6. QED
    BY <2>5 DEF x
<1>16. q \in Seq(Seq(D))
  BY <1>14, <1>15, SeqOver
<1>17. JoinsOnce(b, q, p)
  BY <1>6, <1>14, <1>16, JoinInjective
<1>18. q = p
  BY <1>14, <1>17 DEF JoinsOnce, v, e
<1>19. Replace(Replace(s, t, e), e, t) = Join(t, q)
  BY DEF Replace, q, v, p
<1>20. QED
  BY <1>6, <1>18, <1>19 DEF e

\* split, count, split_pair, join and replace agree on every string and separator.
LEMMA SplitsOne ==
    ASSUME NEW D, "|" \notin D, text \in Seq(D), NEW sep \in Seq(D), Len(sep) >= 1
    PROVE  SplitAgrees(sep)
<1> DEFINE L == Len(text)
           M == Len(sep)
           pieces == Split(text, sep)
           pair == SplitPair(text, sep)
           i == FindIn(text, sep, 0, L)
           x == Sub(text, 0, i)
           n == i + M
<1>1. L \in Nat /\ M \in Nat /\ 0 \in 0..L
  BY LenProperties
<1>2. PICK f : Split(text, sep) = f[0] /\ \A p \in 0..L : SplitsBy(f, text, sep, p)
  BY SplitDef
<1>3. PICK c : Count(text, sep) = c[0] /\ \A p \in 0..L : CountsBy(c, text, sep, p)
  BY CountDef
<1>4. \A p \in 0..L : SplitsFrom(text, sep, D, f, c, p)
  BY <1>2, <1>3, SplitClaim
<1>5. /\ pieces \in Seq(Seq(D)) /\ pieces # <<>>
      /\ Len(pieces) = Count(text, sep) + 1 /\ Join(sep, pieces) = text
      /\ \A k \in DOMAIN pieces : Find(pieces[k], sep) = NotFound
  <2>1. SplitsFrom(text, sep, D, f, c, 0)
    BY <1>1, <1>4
  <2>2. Part(text, 0, L) = text
    BY PartAll
  <2>3. /\ f[0] \in Seq(Seq(D)) /\ f[0] # <<>> /\ Len(f[0]) = c[0] + 1 /\ Join(sep, f[0]) = text
        /\ \A k \in 1..Len(f[0]) : Find(f[0][k], sep) = NotFound
    BY <2>1, <2>2 DEF SplitsFrom
  <2>4. DOMAIN f[0] = 1..Len(f[0])
    BY <2>3, LenProperties
  <2>5. QED
    BY <1>2, <1>3, <2>3, <2>4
<1>6. /\ pieces = IF i = NotFound THEN <<From(text, 0)>> ELSE <<x>> \o f[n]
      /\ pair = IF i = NotFound THEN <<text, nullstr>> ELSE <<x, From(text, n)>>
  <2>1. SplitsBy(f, text, sep, 0)
    BY <1>1, <1>2
  <2>2. f[0] = IF i = NotFound THEN <<From(text, 0)>> ELSE <<x>> \o f[n]
    BY <2>1 DEF SplitsBy
  <2>3. pair = IF i = NotFound THEN <<text, nullstr>> ELSE <<x, From(text, n)>>
    BY DEF SplitPair, Find
  <2>4. QED
    BY <1>2, <2>2, <2>3
<1>7. Finds(text, sep, 0, i)
  BY <1>1, FindInFinds
<1> HIDE DEF pieces, pair, i
<1>8. /\ pair[1] = pieces[1]
      /\ pair[2] = IF Len(pieces) = 1 THEN nullstr ELSE Join(sep, Tail(pieces))
  <2>1. CASE i = NotFound
    <3>1. From(text, 0) = text
      <4>1. From(text, 0) = Part(text, 0, L)
        BY <1>1, SubIsPart
      <4>2. QED
        BY <4>1, PartAll
    <3>2. pieces = <<text>> /\ pair = <<text, nullstr>>
      BY <1>6, <2>1, <3>1
    <3>3. QED
      BY <3>2
  <2>2. CASE i # NotFound
    <3> DEFINE r == f[n]
    <3>1. i \in 0..(L - M) /\ i \in Nat /\ n \in 0..L /\ n \in Nat
      BY <1>1, <1>7, <2>2 DEF Finds
    <3> HIDE DEF n
    <3>2. SplitsFrom(text, sep, D, f, c, n)
      BY <1>4, <3>1
    <3>3. r \in Seq(Seq(D)) /\ r # <<>> /\ Join(sep, r) = Part(text, n, L)
      BY <3>2 DEF SplitsFrom
    <3>4. From(text, n) = Part(text, n, L)
      BY <1>1, <3>1, SubIsPart
    <3>5. x \in Seq(D)
      <4>1. i \in 0..L
        BY <1>1, <3>1
      <4>2. Part(text, 0, i) \in Seq(D)
        BY <1>1, <4>1, PartType
      <4>3. x = Part(text, 0, i)
        BY <1>1, <3>1, SubIsPart
      <4>4. QED
        BY <4>2, <4>3
    <3> HIDE DEF r, x
    <3>6. Tail(<<x>> \o r) = r /\ Len(<<x>> \o r) # 1 /\ (<<x>> \o r)[1] = x
      <4> DEFINE T == Seq(D)
                 u == <<x>>
                 w == u \o r
                 m == Len(r)
                 y == Tail(w)
      <4>1. u \in Seq(T) /\ Len(u) = 1 /\ u[1] = x /\ r \in Seq(T)
        BY <3>3, <3>5
      <4> HIDE DEF T, u
      <4>2. /\ w \in Seq(T) /\ Len(w) = Len(u) + m
            /\ \A k \in 1..Len(u) + m : w[k] = IF k <= Len(u) THEN u[k] ELSE r[k - Len(u)]
        BY <4>1, ConcatProperties
      <4>3. m \in Nat /\ m # 0
        BY <3>3, <4>1, EmptySeq
      <4> HIDE DEF w, m
      <4>4. Len(w) = 1 + m /\ \A k \in 1..1 + m : w[k] = IF k <= 1 THEN u[k] ELSE r[k - 1]
        BY <4>1, <4>2
      <4>5. w[1] = x /\ w # <<>>
        <5>1. 1 \in 1..1 + m /\ 1 <= 1 /\ 1 + m # 0
          BY <4>3
        <5>2. QED
          BY <4>1, <4>4, <5>1
      <4>6. y \in Seq(T) /\ Len(y) = Len(w) - 1 /\ \A k \in 1..Len(y) : y[k] = w[k + 1]
        BY <4>2, <4>5, HeadTailProperties
      <4> HIDE DEF y
      <4>7. Len(y) = m
        BY <4>3, <4>4, <4>6
      <4>8. ASSUME NEW k \in 1..Len(y) PROVE y[k] = r[k]
        <5> DEFINE j == k + 1
        <5>1. j \in 1..1 + m /\ ~(j <= 1) /\ j - 1 = k
          BY <4>3, <4>7
        <5> HIDE DEF j
        <5>2. w[j] = r[k]
          BY <4>4, <5>1
        <5>3. QED
          BY <4>6, <5>2 DEF j
      <4>9. y = r
        BY <4>1, <4>6, <4>7, <4>8, SeqEqual DEF m
      <4>10. 1 + m # 1
        BY <4>3
      <4>11. QED
        BY <4>4, <4>5, <4>9, <4>10 DEF w, y, u
    <3>7. pieces = <<x>> \o r /\ pair = <<x, From(text, n)>>
      BY <1>6, <2>2 DEF r
    <3>8. pair[1] = x /\ pair[2] = From(text, n)
      BY <3>7
    <3>9. QED
      BY <3>3, <3>4, <3>6, <3>7, <3>8
  <2>3. QED
    BY <2>1, <2>2
<1>9. Replace(Replace(text, sep, <<"|">>), <<"|">>, sep) = text
  BY ReplaceBack
<1>10. QED
  BY <1>5, <1>8, <1>9 DEF SplitAgrees, pieces, pair

-----------------------------------------------------------------------------
(* split_lines.                                                            *)

\* The places behind p that end a line: not a \r before a \n.
Enders(s, p) == {i \in (p + 1)..Len(s) :
                    /\ s[i] \in {"\r", "\n"}
                    /\ ~(s[i] = "\r" /\ i < Len(s) /\ s[i + 1] = "\n")}

\* \r\n stands at e.
LEMMA PairAt ==
    ASSUME NEW D, NEW s \in Seq(D), NEW e \in Nat, {"\r", "\n"} \subseteq D
    PROVE  Occurs(s, <<"\r", "\n">>, e)
           <=> e + 2 <= Len(s) /\ s[e + 1] = "\r" /\ s[e + 2] = "\n"
<1> DEFINE t == <<"\r", "\n">>
           y == Part(s, e, e + 2)
<1>1. t \in Seq(D) /\ Len(t) = 2 /\ t[1] = "\r" /\ t[2] = "\n"
  OBVIOUS
<1>2. Len(s) \in Nat
  BY LenProperties
<1> HIDE DEF t
<1>3. Occurs(s, t, e) <=> e + 2 <= Len(s) /\ y = t
  BY <1>1, OccursAt
<1>4. ASSUME e + 2 <= Len(s) PROVE y = t <=> s[e + 1] = "\r" /\ s[e + 2] = "\n"
  <2> DEFINE q == e + 2
  <2>1. e \in 0..Len(s) /\ q \in e..Len(s) /\ q - e = 2
    BY <1>2, <1>4
  <2> HIDE DEF q
  <2>2. /\ Part(s, e, q) \in Seq(D) /\ Len(Part(s, e, q)) = q - e
        /\ \A k \in 1..(q - e) : Part(s, e, q)[k] = s[e + k]
    BY <2>1, PartType
  <2>3. y = Part(s, e, q)
    BY DEF q
  <2> HIDE DEF y
  <2>4. y \in Seq(D) /\ Len(y) = 2 /\ \A k \in 1..2 : y[k] = s[e + k]
    BY <2>1, <2>2, <2>3
  <2>5. y[1] = s[e + 1] /\ y[2] = s[e + 2]
    BY <2>4
  <2>6. ASSUME s[e + 1] = "\r", s[e + 2] = "\n" PROVE y = t
    <3>1. \A k \in 1..Len(y) : k = 1 \/ k = 2
      BY <2>4
    <3>2. \A k \in 1..Len(y) : y[k] = t[k]
      BY <1>1, <2>5, <2>6, <3>1
    <3>3. QED
      BY <1>1, <2>4, <3>2, SeqEqual
  <2>7. QED
    BY <1>1, <2>5, <2>6
<1>5. QED
  BY <1>3, <1>4 DEF t

\* Where a line ends and another starts behind it, one place is counted.
LEMMA LineEnders ==
    ASSUME NEW D, NEW s \in Seq(D), NEW p \in 0..Len(s), {"\r", "\n"} \subseteq D,
           LineEnd(s, p) # Len(s)
    PROVE  LET n == LineNext(s, p)
           IN  /\ n \in (p + 1)..Len(s) /\ s[n] \in {"\r", "\n"}
               /\ \A k \in (LineEnd(s, p) + 1)..n : s[k] \in {"\r", "\n"}
               /\ Enders(s, p) = Enders(s, n) \cup {n} /\ n \notin Enders(s, n)
<1> DEFINE L == Len(s)
           e == LineEnd(s, p)
           n == LineNext(s, p)
           ends == {"\r", "\n"}
<1>1. L \in Nat /\ p \in Nat /\ p <= L
  BY LenProperties
<1>2. /\ e \in p..(L - 1) /\ s[e + 1] \in ends /\ n \in (e + 1)..L
      /\ \A i \in p..(e - 1) : s[i + 1] \notin ends
  BY LineEnds
<1>3. n = IF Occurs(s, <<"\r", "\n">>, e) THEN e + 2 ELSE e + 1
  BY DEF LineNext
<1> HIDE DEF e, n, L
<1>4. e \in Nat /\ n \in Nat /\ n \in (p + 1)..L
  BY <1>1, <1>2
<1>5. Occurs(s, <<"\r", "\n">>, e) <=> e + 2 <= L /\ s[e + 1] = "\r" /\ s[e + 2] = "\n"
  BY <1>4, PairAt DEF L
<1>6. \A k \in (e + 1)..n : s[k] \in ends
  <2>1. \A k \in (e + 1)..n : k = e + 1 \/ (k = e + 2 /\ n = e + 2)
    BY <1>3, <1>4
  <2>2. n = e + 2 => s[e + 2] \in ends
    <3>1. e + 2 # e + 1
      BY <1>4
    <3>2. QED
      BY <1>3, <1>5, <3>1
  <2>3. QED
    BY <1>2, <2>1, <2>2
<1>7. s[n] \in ends
  <2>1. n \in (e + 1)..n
    BY <1>2, <1>4
  <2>2. QED
    BY <1>6, <2>1
<1>8. ~(s[n] = "\r" /\ n < L /\ s[n + 1] = "\n")
  <2>1. CASE n = e + 2
    <3>1. e + 2 # e + 1
      BY <1>4
    <3>2. QED
      BY <1>3, <1>5, <2>1, <3>1
  <2>2. CASE n = e + 1
    <3>1. e + 2 # e + 1 /\ n + 1 = e + 2 /\ (n < L => e + 2 <= L)
      BY <1>1, <1>4, <2>2
    <3>2. QED
      BY <1>3, <1>5, <2>2, <3>1
  <2>3. QED
    BY <1>3, <2>1, <2>2
<1>9. n \in Enders(s, p) /\ n \notin Enders(s, n)
  <2>1. ~(n \in (n + 1)..L)
    BY <1>4
  <2>2. QED
    BY <1>4, <1>7, <1>8, <2>1 DEF Enders, L
<1>10. \A i : i \in Enders(s, n) => i \in Enders(s, p)
  <2>1. \A i \in (n + 1)..L : i \in (p + 1)..L
    BY <1>4, <1>1
  <2>2. QED
    BY <2>1 DEF Enders, L
<1>11. ASSUME NEW i \in Enders(s, p), i # n PROVE i \in Enders(s, n)
  <2>1. /\ i \in (p + 1)..L /\ s[i] \in ends /\ ~(s[i] = "\r" /\ i < L /\ s[i + 1] = "\n")
    BY <1>11 DEF Enders, L
  <2>2. ~(i <= e)
    <3> DEFINE j == i - 1
    <3>1. ASSUME i <= e PROVE FALSE
      <4>1. j \in p..(e - 1) /\ j + 1 = i
        BY <1>1, <1>4, <2>1, <3>1
      <4> HIDE DEF j
      <4>2. QED
        BY <1>2, <2>1, <4>1
    <3>2. QED
      BY <3>1
  <2>4. ASSUME i = e + 1, n # e + 1 PROVE FALSE
    <3>1. e + 2 <= L /\ s[e + 1] = "\r" /\ s[e + 2] = "\n" /\ i < L /\ i + 1 = e + 2
      BY <1>1, <1>3, <1>4, <1>5, <2>4
    <3>2. QED
      BY <2>1, <2>4, <3>1
  <2>5. i \in (n + 1)..L
    BY <1>1, <1>3, <1>4, <1>11, <2>1, <2>2, <2>4
  <2>6. QED
    BY <2>1, <2>5 DEF Enders, L
<1>12. Enders(s, p) = Enders(s, n) \cup {n}
  BY <1>9, <1>10, <1>11
<1>13. QED
  BY <1>4, <1>6, <1>7, <1>9, <1>12 DEF e, n, L

\* What split_lines makes of s from p on: the rest of s without its line ends, a line for
\* each of them and one for what is behind the last.
LinesFrom(s, D, f, p) ==
    /\ f[p] \in Seq(Seq(D))
    /\ FlattenSeq(f[p]) = RemoveAll(Part(s, p, Len(s)), {"\r", "\n"})
    /\ IsFiniteSet(Enders(s, p))
    /\ Len(f[p]) = Cardinality(Enders(s, p))
                   + (IF p < Len(s) /\ s[Len(s)] \notin {"\r", "\n"} THEN 1 ELSE 0)

\* It does so from every place on.
LEMMA LinesClaim ==
    ASSUME NEW D, {"\r", "\n"} \subseteq D, NEW s \in Seq(D), NEW f,
           \A p \in 0..Len(s) : LinesBy(f, s, p)
    PROVE  \A p \in 0..Len(s) : LinesFrom(s, D, f, p)
<1> DEFINE L == Len(s)
           ends == {"\r", "\n"}
           S == {p \in 0..L : LinesFrom(s, D, f, p)}
           Open(p) == IF p < L /\ s[L] \notin ends THEN 1 ELSE 0
<1>1. L \in Nat
  BY LenProperties
<1>2. ASSUME NEW p \in 0..L, \A q \in (p + 1)..L : q \in S PROVE p \in S
  <2> DEFINE e == LineEnd(s, p)
             n == LineNext(s, p)
             x == Part(s, p, e)
  <2>1. /\ e \in p..L /\ \A i \in p..(e - 1) : s[i + 1] \notin ends
    BY LineEnds
  <2>2. p \in Nat /\ e \in Nat /\ p <= L
    BY <1>1, <2>1
  <2>3. f[p] = IF p = L THEN <<>> ELSE <<x>> \o (IF e = L THEN <<>> ELSE f[n])
    <3>1. LinesBy(f, s, p)
      OBVIOUS
    <3>2. Sub(s, p, e) = x
      BY <1>1, <2>2, SubIsPart
    <3>3. QED
      BY <3>1, <3>2 DEF LinesBy
  <2>4. x \in Seq(D) /\ <<x>> \in Seq(Seq(D)) /\ FlattenSeq(<<x>>) = x
    <3>1. x \in Seq(D)
      BY <2>1, PartType
    <3> HIDE DEF x
    <3>2. QED
      BY <3>1, FlattenSingle
  <2>5. RemoveAll(x, ends) = x
    <3>1. \A k \in 1..Len(x) : x[k] \notin ends
      <4> SUFFICES ASSUME NEW k \in 1..Len(x) PROVE x[k] \notin ends
        OBVIOUS
      <4> DEFINE j == p + k - 1
      <4>1. Len(x) = e - p /\ \A i \in 1..(e - p) : x[i] = s[p + i]
        BY <2>1, PartHas DEF HasOf
      <4>2. j \in p..(e - 1) /\ j + 1 = p + k /\ k \in 1..(e - p)
        BY <2>2, <4>1
      <4> HIDE DEF j, x, e
      <4>3. s[j + 1] \notin ends /\ x[k] = s[p + k]
        BY <2>1, <4>1, <4>2
      <4>4. QED
        BY <4>2, <4>3
    <3> HIDE DEF x
    <3>2. QED
      BY <2>4, <3>1, RemoveNone
  <2> HIDE DEF e, n, x, Open
  <2>6. CASE p = L
    <3>1. f[p] = <<>> /\ <<>> \in Seq(Seq(D)) /\ FlattenSeq(<<>>) = <<>>
      BY <2>3, <2>6, EmptySeq, FlattenType
    <3>2. Part(s, p, L) = <<>>
      BY <1>1, <2>6, PartAll
    <3>3. RemoveAll(<<>>, ends) = <<>>
      <4>1. <<>> \in Seq(D) /\ \A i \in 1..Len(<<>>) : <<>>[i] \notin ends
        BY EmptySeq
      <4>2. QED
        BY <4>1, RemoveNone
    <3>4. Enders(s, p) = {}
      <4>1. \A i : ~(i \in (p + 1)..L)
        BY <1>1, <2>6
      <4>2. QED
        BY <4>1 DEF Enders, L
    <3>5. Open(p) = 0 /\ Len(<<>>) = 0 + 0
      BY <1>1, <2>6 DEF Open
    <3>6. IsFiniteSet(Enders(s, p)) /\ Cardinality(Enders(s, p)) = 0
      BY <3>4, FS_EmptySet
    <3>7. Len(f[p]) = Cardinality(Enders(s, p)) + Open(p)
      BY <3>1, <3>5, <3>6
    <3>8. LinesFrom(s, D, f, p)
      BY <3>1, <3>2, <3>3, <3>6, <3>7 DEF LinesFrom, Open, L
    <3>9. QED
      BY <3>8
  <2>7. CASE p # L /\ e = L
    <3>1. f[p] = <<x>>
      <4>1. <<x>> \o <<>> = <<x>>
        BY <2>4, ConcatEmptySeq
      <4>2. QED
        BY <2>3, <2>7, <4>1
    <3>2. Part(s, p, L) = x
      BY <2>7 DEF x
    <3>3. \A i \in (p + 1)..L : s[i] \notin ends
      <4> SUFFICES ASSUME NEW i \in (p + 1)..L PROVE s[i] \notin ends
        OBVIOUS
      <4> DEFINE j == i - 1
      <4>1. j \in p..(e - 1) /\ j + 1 = i
        BY <1>1, <2>2, <2>7
      <4> HIDE DEF j
      <4>2. QED
        BY <2>1, <4>1
    <3>4. Enders(s, p) = {}
      BY <3>3 DEF Enders, L
    <3>5. L \in (p + 1)..L /\ p < L
      BY <1>1, <2>2, <2>7
    <3>6. Open(p) = 1
      BY <3>3, <3>5 DEF Open
    <3>7. IsFiniteSet(Enders(s, p)) /\ Cardinality(Enders(s, p)) = 0 /\ Len(<<x>>) = 0 + 1
      BY <3>4, FS_EmptySet
    <3>8. Len(f[p]) = Cardinality(Enders(s, p)) + Open(p)
      BY <3>1, <3>6, <3>7
    <3>9. LinesFrom(s, D, f, p)
      BY <2>4, <2>5, <3>1, <3>2, <3>7, <3>8 DEF LinesFrom, Open, L
    <3>10. QED
      BY <3>9
  <2>8. CASE p # L /\ e # L
    <3> DEFINE r == f[n]
               y == Part(s, n, L)
               z == Part(s, e, n)
    <3>1. /\ n \in (p + 1)..L /\ s[n] \in ends
          /\ \A k \in (e + 1)..n : s[k] \in ends
          /\ Enders(s, p) = Enders(s, n) \cup {n} /\ n \notin Enders(s, n)
      BY <2>8, LineEnders DEF e, n, L
    <3>2. n \in (e + 1)..L
      BY <2>8, LineEnds DEF e, n, L
    <3>3. n \in Nat /\ n \in 0..L /\ n \in e..L /\ n \in p..L /\ L \in n..L /\ e \in 0..L
      BY <1>1, <2>1, <2>2, <3>1, <3>2
    <3>4. LinesFrom(s, D, f, n)
      BY <1>2, <3>1
    <3>5. /\ r \in Seq(Seq(D)) /\ FlattenSeq(r) = RemoveAll(y, ends)
          /\ IsFiniteSet(Enders(s, n)) /\ Len(r) = Cardinality(Enders(s, n)) + Open(n)
      BY <3>4 DEF LinesFrom, Open, L
    <3>6. f[p] = <<x>> \o r
      BY <2>3, <2>8
    <3>7. y \in Seq(D) /\ z \in Seq(D) /\ Len(z) = n - e /\ \A k \in 1..(n - e) : z[k] = s[e + k]
      <4>1. y \in Seq(D)
        BY <3>3, PartType DEF L
      <4>2. z \in Seq(D) /\ Len(z) = n - e /\ \A k \in 1..(n - e) : z[k] = s[e + k]
        BY <3>3, PartType DEF L
      <4>3. QED
        BY <4>1, <4>2
    <3>8. Part(s, p, L) = x \o (z \o y)
      <4>1. z \o y = Part(s, e, L)
        BY <3>3, PartJoin DEF L
      <4>2. x \o Part(s, e, L) = Part(s, p, L)
        <5>1. L \in e..L
          BY <1>1, <2>1
        <5>2. QED
          BY <2>1, <5>1, PartJoin DEF x, L
      <4>3. QED
        BY <4>1, <4>2
    <3> HIDE DEF r, y, z
    <3>9. RemoveAll(z, ends) = <<>>
      <4>1. \A k \in 1..Len(z) : z[k] \in ends
        <5> SUFFICES ASSUME NEW k \in 1..Len(z) PROVE z[k] \in ends
          OBVIOUS
        <5> DEFINE j == e + k
        <5>1. k \in 1..(n - e) /\ j \in (e + 1)..n
          BY <2>2, <3>3, <3>7
        <5> HIDE DEF j
        <5>2. s[j] \in ends
          BY <3>1, <5>1
        <5>3. QED
          BY <3>7, <5>1, <5>2 DEF j
      <4>2. QED
        BY <3>7, <4>1, RemoveWhole
    <3>10. RemoveAll(Part(s, p, L), ends) = x \o RemoveAll(y, ends)
      <4> DEFINE w == z \o y
      <4>1. w \in Seq(D)
        BY <3>7, ConcatProperties
      <4>2. RemovesBoth(z, y, ends)
        BY <3>7, RemoveConcat
      <4>3. RemoveAll(w, ends) = RemoveAll(y, ends)
        <5>1. RemoveAll(w, ends) = <<>> \o RemoveAll(y, ends)
          BY <3>9, <4>2 DEF RemovesBoth
        <5>2. FlattenSeq(r) \in Seq(D)
          BY <3>5, FlattenType
        <5>3. <<>> \o RemoveAll(y, ends) = RemoveAll(y, ends)
          BY <3>5, <5>2, ConcatEmptySeq
        <5>4. QED
          BY <5>1, <5>3
      <4> HIDE DEF w
      <4>4. RemovesBoth(x, w, ends)
        BY <2>4, <4>1, RemoveConcat
      <4>5. RemoveAll(x \o w, ends) = x \o RemoveAll(y, ends)
        BY <2>5, <4>3, <4>4 DEF RemovesBoth
      <4>6. QED
        BY <3>8, <4>5 DEF w
    <3>11. f[p] \in Seq(Seq(D)) /\ FlattenSeq(f[p]) = x \o FlattenSeq(r)
      <4> DEFINE u == <<x>>
      <4>1. u \in Seq(Seq(D)) /\ FlattenSeq(u) = x /\ f[p] = u \o r
        BY <2>4, <3>6
      <4> HIDE DEF u
      <4>2. u \o r \in Seq(Seq(D)) /\ FlattenSeq(u \o r) = FlattenSeq(u) \o FlattenSeq(r)
        BY <3>5, <4>1, FlattenConcat
      <4>3. QED
        BY <4>1, <4>2
    <3>12. Len(f[p]) = 1 + Len(r)
      <4> DEFINE u == <<x>>
                 T == Seq(D)
      <4>1. u \in Seq(T) /\ Len(u) = 1 /\ f[p] = u \o r /\ r \in Seq(T)
        BY <2>4, <3>5, <3>6
      <4> HIDE DEF u, T
      <4>2. Len(u \o r) = Len(u) + Len(r)
        BY <4>1, ConcatProperties
      <4>3. QED
        BY <4>1, <4>2
    <3>13. IsFiniteSet(Enders(s, p)) /\ Cardinality(Enders(s, p)) = Cardinality(Enders(s, n)) + 1
      BY <3>1, <3>5, FS_AddElement
    <3>14. Open(p) = Open(n)
      <4>1. p < L
        BY <1>1, <2>2, <2>8
      <4>2. n < L \/ n = L
        BY <1>1, <3>3
      <4>3. QED
        BY <1>1, <3>1, <4>1, <4>2 DEF Open
    <3>15. Len(f[p]) = Cardinality(Enders(s, p)) + Open(p)
      <4>1. Cardinality(Enders(s, n)) \in Nat
        BY <3>5, FS_CardinalityType
      <4>2. Open(n) \in Nat
        BY DEF Open
      <4>3. QED
        BY <3>5, <3>12, <3>13, <3>14, <4>1, <4>2
    <3>16. LinesFrom(s, D, f, p)
      BY <3>5, <3>10, <3>11, <3>13, <3>15 DEF LinesFrom, Open, L
    <3>17. QED
      BY <3>16
  <2>9. QED
    BY <2>6, <2>7, <2>8
<1>3. \A p \in 0..L : p \in S
  <2> HIDE DEF S, L
  <2>1. QED
    BY <1>1, <1>2, DownInduction
<1>4. QED
  BY <1>3

\* The lines of every text hold all but its line ends, each counted once.
LEMMA LinesOne ==
    ASSUME NEW D, {"\r", "\n"} \subseteq D, text \in Seq(D)
    PROVE  LinesAgree
<1> DEFINE L == Len(text)
           ends == {"\r", "\n"}
           lines == SplitLines(text)
           marks == {i \in DOMAIN text : text[i] \in ends}
           pairs == {i \in marks : text[i] = "\r" /\ i < Len(text) /\ text[i + 1] = "\n"}
           open == text # <<>> /\ Last(text) \notin ends
<1>1. L \in Nat /\ DOMAIN text = 1..L /\ 0 \in 0..L /\ (text # <<>> <=> 0 < L)
  <2>1. L \in Nat /\ DOMAIN text = 1..L
    BY LenProperties
  <2>2. text # <<>> => L # 0
    BY EmptySeq
  <2>3. 0 < L => text # <<>>
    BY EmptySeq
  <2>4. QED
    BY <2>1, <2>2, <2>3
<1>2. PICK f : SplitLines(text) = f[0] /\ \A p \in 0..L : LinesBy(f, text, p)
  BY SplitLinesDef
<1>3. LinesFrom(text, D, f, 0)
  BY <1>1, <1>2, LinesClaim
<1>4. Part(text, 0, L) = text
  BY PartAll
<1>5. /\ FlattenSeq(lines) = RemoveAll(text, ends)
      /\ Len(lines) = Cardinality(Enders(text, 0))
                      + (IF 0 < L /\ text[L] \notin ends THEN 1 ELSE 0)
  BY <1>2, <1>3, <1>4 DEF LinesFrom
<1>6. Enders(text, 0) = marks \ pairs
  <2>1. 0 + 1 = 1
    OBVIOUS
  <2>2. Enders(text, 0) = {i \in 1..L : /\ text[i] \in ends
                                        /\ ~(text[i] = "\r" /\ i < L /\ text[i + 1] = "\n")}
    BY <2>1 DEF Enders
  <2>3. QED
    BY <1>1, <2>2
<1>7. open <=> 0 < L /\ text[L] \notin ends
  BY <1>1 DEF Last
<1> HIDE DEF L, lines, marks, pairs, open
<1>8. Len(lines) = Cardinality(marks \ pairs) + (IF open THEN 1 ELSE 0)
  BY <1>5, <1>6, <1>7
<1>9. QED
  BY <1>5, <1>8 DEF LinesAgree, lines, marks, pairs, open

-----------------------------------------------------------------------------
(* Texts of every length.                                                  *)

\* What is given is a text of the symbols of its kind.
InputInv ==
    /\ kind = "none" => text = <<>>
    /\ kind # "none" => kind \in DOMAIN Symbols /\ text \in Seq(Symbols[kind])

\* Inputs are texts of symbols of their kind.
LEMMA InputInvariant == InputSpec => []InputInv
<1>1. InputInit => InputInv
  BY DEF InputInit, InputInv
<1>2. InputInv /\ [InputNext]_inputVars => InputInv'
  <2> SUFFICES ASSUME InputInv, [InputNext]_inputVars PROVE InputInv'
    OBVIOUS
  <2>1. ASSUME NEW k \in DOMAIN Symbols, Begin(k) PROVE InputInv'
    <3>1. text' = <<>> /\ kind' = k /\ <<>> \in Seq(Symbols[k])
      BY <2>1, EmptySeq DEF InputInv, Begin
    <3>2. QED
      BY <3>1 DEF InputInv
  <2>2. ASSUME kind # "none", NEW c \in Symbols[kind], Extend(c) PROVE InputInv'
    <3>1. text \in Seq(Symbols[kind]) /\ kind \in DOMAIN Symbols
      BY <2>2 DEF InputInv
    <3>2. text' = Append(text, c) /\ kind' = kind
      BY <2>2 DEF Extend
    <3>3. text' \in Seq(Symbols[kind])
      BY <2>2, <3>1, <3>2, AppendProperties
    <3>4. QED
      BY <2>2, <3>1, <3>2, <3>3 DEF InputInv
  <2>3. CASE UNCHANGED inputVars
    BY <2>3 DEF inputVars, InputInv
  <2>4. QED
    BY <2>1, <2>2, <2>3 DEF InputNext
<1>3. QED
  BY <1>1, <1>2, PTL DEF InputSpec

\* The separators are strings of one or two characters.
LEMMA Separators ==
    ASSUME NEW D, NEW c \in D, NEW d \in D, NEW sep \in {<<c>>, <<c, c>>, <<c, d>>}
    PROVE  sep \in Seq(D) /\ Len(sep) >= 1
<1>1. <<c>> \in Seq(D) /\ Len(<<c>>) = 1
  OBVIOUS
<1>2. <<c, c>> \in Seq(D) /\ Len(<<c, c>>) = 2
  OBVIOUS
<1>3. <<c, d>> \in Seq(D) /\ Len(<<c, d>>) = 2
  OBVIOUS
<1>4. sep = <<c>> \/ sep = <<c, c>> \/ sep = <<c, d>>
  BY Zenon
<1>5. 1 >= 1 /\ 2 >= 1
  OBVIOUS
<1>6. CASE sep = <<c>>
  BY <1>1, <1>5, <1>6, Zenon
<1>7. CASE sep = <<c, c>>
  BY <1>2, <1>5, <1>7, Zenon
<1>8. CASE sep = <<c, d>>
  BY <1>3, <1>5, <1>8, Zenon
<1>9. QED
  BY <1>4, <1>6, <1>7, <1>8, Zenon

\* However long a text is, count, split, split_pair, find, join and replace agree on where
\* its separators are, and its lines hold all but the line ends, each counted once.
THEOREM SplitsAgreeHolds == InputSpec => []SplitsAgree
<1>1. InputInv => SplitsAgree
  <2> SUFFICES ASSUME InputInv PROVE SplitsAgree
    OBVIOUS
  <2>1. ASSUME kind = "str", NEW sep \in {<<",">>, <<",", ",">>, <<",", "a">>}
        PROVE  SplitAgrees(sep)
    <3> DEFINE D == Symbols["str"] \cup {",", "a"}
    <3>1. kind \in DOMAIN Symbols /\ text \in Seq(Symbols["str"])
      BY <2>1 DEF InputInv
    <3>2. text \in Seq(D)
      BY <3>1, SeqMonotonic
    <3>3. "|" \notin D
      BY <2>1, <3>1, StrAssumption
    <3>4. sep \in Seq(D) /\ Len(sep) >= 1
      <4>1. "," \in D /\ "a" \in D
        OBVIOUS
      <4> HIDE DEF D
      <4>2. QED
        BY <2>1, <4>1, Separators
    <3> HIDE DEF D
    <3>5. QED
      BY <3>2, <3>3, <3>4, SplitsOne
  <2>2. ASSUME kind = "lines" PROVE LinesAgree
    <3> DEFINE D == Symbols["lines"] \cup {"\r", "\n"}
    <3>1. text \in Seq(Symbols["lines"])
      BY <2>2 DEF InputInv
    <3>2. text \in Seq(D) /\ {"\r", "\n"} \subseteq D
      BY <3>1, SeqMonotonic
    <3> HIDE DEF D
    <3>3. QED
      BY <3>2, LinesOne
  <2>3. QED
    BY <2>1, <2>2 DEF SplitsAgree
<1>2. QED
  BY <1>1, InputInvariant, PTL
-----------------------------------------------------------------------------
(* StrShare: the state.                                                    *)

\* the types
ShareTypeOK ==
    /\ str \in [Strs -> Shared \cup {NoBuffer, NoStr}]
    /\ live \subseteq Shared
    /\ cnt \in [Shared -> 0..2^Width - 1]
    /\ lost \in [Shared -> Nat]
    /\ crowded \in BOOLEAN

\* the Strs whose buffer_ is b, in f
Within(f, b) == {t \in Strs : f[t] = b}

\* what b's count stands for
InUse(b) == Refs(b) + lost[b]

\* ... once s has left it
InUseAfter(s, b) == InUse(b) - (IF str[s] = b THEN 1 ELSE 0)

\* what a count says: the references, modulo its width
CountRight(b) == InUse(b) \in 1..2^Width /\ cnt[b] = InUse(b) % 2^Width

\* s is over a buffer that is allocated, or over none
Placed(s) == str[s] \in live \cup {NoBuffer, NoStr}

\* CountIsExact with the bound that Note watches: at 2^Width references the count
\* has wrapped to zero and is still right modulo its width.
ShareInv ==
    /\ ShareTypeOK
    /\ ~crowded => (\A b \in live : CountRight(b)) /\ (\A s \in Strs : Placed(s))
-----------------------------------------------------------------------------
(* The operators of the module.                                            *)

\* The remainders that a count of at most m references meets.
LEMMA Remainders ==
    ASSUME NEW m \in Nat, m > 1
    PROVE  /\ m % m = 0
           /\ \A n \in 0..m - 1 : n % m = n /\ (n + m) % m = n
           /\ \A n \in Nat : n % m \in 0..m - 1
  OBVIOUS

\* Counting one reference more or one less modulo m is counting modulo m.
LEMMA CountSteps ==
    ASSUME NEW m \in Nat, m > 1, NEW n \in 1..m
    PROVE  /\ n < m => ((n % m) + 1) % m = (n + 1) % m
           /\ ((n % m) + (m - 1)) % m = (n - 1) % m
           /\ (n - 1) % m = 0 <=> n = 1
<1> DEFINE k == n - 1
<1>1. k \in 0..m - 1 /\ n = k + 1
  OBVIOUS
<1>2. k % m = k /\ (k + m) % m = k /\ m % m = 0
  BY <1>1, Remainders
<1> HIDE DEF k
<1>3. CASE n = m
  <2>1. n % m = 0 /\ (n % m) + (m - 1) = k
    BY <1>1, <1>2, <1>3
  <2>2. QED
    BY <1>1, <1>2, <1>3, <2>1 DEF k
<1>4. CASE n < m
  <2>1. n \in 0..m - 1
    BY <1>4
  <2>2. n % m = n
    BY <2>1, Remainders
  <2>3. (n % m) + (m - 1) = k + m
    BY <1>1, <2>2
  <2>4. QED
    BY <1>1, <1>2, <2>2, <2>3 DEF k
<1>5. QED
  BY <1>3, <1>4

\* One Str changes its buffer: the buffer it leaves has one reference less, the one
\* it takes one more.
LEMMA RefsMove ==
    ASSUME NEW f \in [Strs -> Shared \cup {NoBuffer, NoStr}],
           NEW g \in [Strs -> Shared \cup {NoBuffer, NoStr}],
           NEW s \in Strs, \A u \in Strs \ {s} : g[u] = f[u], NEW b
    PROVE  /\ Cardinality(Within(f, b)) \in Nat
           /\ Cardinality(Within(g, b)) = Cardinality(Within(f, b))
                 - (IF f[s] = b THEN 1 ELSE 0) + (IF g[s] = b THEN 1 ELSE 0)
<1> DEFINE R == Within(f, b)
<1>1. IsFiniteSet(R) /\ Cardinality(R) \in Nat
  BY FS_Subset, FS_CardinalityType, StrShareAssumption DEF StrShareAssumption, Within
<1>2. s \in R <=> f[s] = b
  BY DEF Within
<1>3. Within(g, b) = IF g[s] = b THEN (R \ {s}) \cup {s} ELSE R \ {s}
  BY DEF Within
<1> HIDE DEF R
<1>4. IsFiniteSet(R \ {s}) /\ Cardinality(R \ {s}) = Cardinality(R) - (IF f[s] = b THEN 1 ELSE 0)
  BY <1>1, <1>2, FS_RemoveElement
<1>5. Cardinality((R \ {s}) \cup {s}) = Cardinality(R \ {s}) + 1
  BY <1>4, FS_AddElement
<1>6. QED
  BY <1>1, <1>3, <1>4, <1>5 DEF R

\* A buffer that two Strs are in has two references.
LEMMA RefsOfTwo ==
    ASSUME NEW f \in [Strs -> Shared \cup {NoBuffer, NoStr}], NEW s \in Strs, NEW u \in Strs,
           u # s, f[u] = f[s]
    PROVE  Cardinality(Within(f, f[s])) \in Nat \ {0, 1}
<1> DEFINE R == Within(f, f[s])
<1>1. IsFiniteSet(R) /\ Cardinality(R) \in Nat /\ s \in R /\ u \in R
  BY FS_Subset, FS_CardinalityType, StrShareAssumption DEF StrShareAssumption, Within
<1> HIDE DEF R
<1>2. IsFiniteSet(R \ {s}) /\ Cardinality(R \ {s}) = Cardinality(R) - 1
  BY <1>1, FS_RemoveElement
<1>3. Cardinality(R \ {s}) # 0 /\ Cardinality(R \ {s}) \in Nat
  BY <1>1, <1>2, FS_EmptySet, FS_CardinalityType, SMTT(30)
<1>4. QED
  BY <1>1, <1>2, <1>3 DEF R
-----------------------------------------------------------------------------
(* Giving a reference up: the first half of the destructor and of every    *)
(* assignment.                                                             *)

\* The count of a buffer after s has given its own up, and when it is freed.
LEMMA GiveUp ==
    ASSUME ShareInv, ~crowded, NEW s \in Strs, Sound(s), NEW b \in live
    PROVE  /\ InUseAfter(s, b) \in 0..2^Width
           /\ b \notin FreedBy(cnt, str[s]) => InUseAfter(s, b) \in 1..2^Width
           /\ GivenUp(cnt, str[s])[b] = InUseAfter(s, b) % 2^Width
           /\ b \in FreedBy(cnt, str[s]) <=> InUseAfter(s, b) = 0
<1> DEFINE m == 2^Width
<1>1. m \in Nat /\ m > 1 /\ InUse(b) \in 1..m /\ cnt[b] = InUse(b) % m
  BY StrShareAssumption DEF StrShareAssumption, ShareInv, CountRight
<1>2. cnt \in [Shared -> 0..m - 1] /\ b \in Shared /\ NoBuffer \notin Shared
  BY StrShareAssumption DEF StrShareAssumption, ShareInv, ShareTypeOK
<1>3. CASE str[s] = b
  <2>1. GivenUp(cnt, str[s])[b] = (cnt[b] + (m - 1)) % m
    BY <1>1, <1>2, <1>3 DEF GivenUp, Recount
  <2>2. GivenUp(cnt, str[s])[b] = (InUse(b) - 1) % m /\ ((InUse(b) - 1) % m = 0 <=> InUse(b) = 1)
    BY <1>1, <2>1, CountSteps
  <2>3. InUseAfter(s, b) = InUse(b) - 1
    BY <1>3 DEF InUseAfter
  <2>4. QED
    BY <1>1, <1>3, <2>2, <2>3 DEF FreedBy
<1>4. CASE str[s] # b
  <2>1. GivenUp(cnt, str[s])[b] = cnt[b]
    BY <1>2, <1>4 DEF GivenUp, Recount
  <2>2. InUseAfter(s, b) = InUse(b) /\ b \notin FreedBy(cnt, str[s])
    BY <1>1, <1>4 DEF FreedBy, InUseAfter
  <2>3. QED
    BY <1>1, <2>1, <2>2
<1>5. QED
  BY <1>3, <1>4

\* What s gives up is freed for no other Str.
LEMMA OthersStay ==
    ASSUME ShareInv, ~crowded, NEW s \in Strs, Sound(s), NEW u \in Strs, u # s
    PROVE  str[u] \in (live \ FreedBy(cnt, str[s])) \cup {NoBuffer, NoStr}
<1>1. CASE str[u] \in live /\ str[u] = str[s]
  <2>1. str \in [Strs -> Shared \cup {NoBuffer, NoStr}] /\ lost[str[s]] \in Nat
    BY <1>1 DEF ShareInv, ShareTypeOK
  <2>2. Refs(str[s]) \in Nat \ {0, 1}
    BY <1>1, <2>1, RefsOfTwo DEF Refs, Within
  <2>3. InUseAfter(s, str[s]) # 0
    BY <2>1, <2>2 DEF InUse, InUseAfter
  <2>4. str[s] \notin FreedBy(cnt, str[s])
    BY <1>1, <2>3, GiveUp
  <2>5. QED
    BY <1>1, <2>4
<1>2. CASE str[u] # str[s]
  BY <1>2 DEF FreedBy, ShareInv, Placed
<1>3. QED
  BY <1>1, <1>2 DEF ShareInv, Placed
-----------------------------------------------------------------------------
(* Types.                                                                  *)

\* Counting keeps a count in its width.
LEMMA RecountType ==
    ASSUME NEW c \in [Shared -> 0..2^Width - 1], NEW b \in Shared \cup {NoBuffer},
           NEW n \in Nat
    PROVE  Recount(c, b, n) \in [Shared -> 0..2^Width - 1]
<1> DEFINE m == 2^Width
<1>1. m \in Nat /\ m > 1
  BY StrShareAssumption DEF StrShareAssumption
<1>2. \A a \in Shared : c[a] + n \in Nat
  BY <1>1
<1>3. \A a \in Shared : (c[a] + n) % m \in 0..m - 1
  BY <1>1, <1>2, Remainders
<1>4. QED
  BY <1>3 DEF Recount

\* Every operation keeps the types.
LEMMA ShareTyping == ShareTypeOK /\ [ShareNext]_shareVars => ShareTypeOK'
<1> SUFFICES ASSUME ShareTypeOK, [ShareNext]_shareVars PROVE ShareTypeOK'
  OBVIOUS
<1> DEFINE Where == Shared \cup {NoBuffer, NoStr}
<1>1. 2^Width \in Nat /\ 2^Width > 1 /\ 2^Width - 1 \in Nat /\ NoStr \notin Shared \cup {NoBuffer}
  BY StrShareAssumption DEF StrShareAssumption
<1>2. ASSUME NEW t \in Strs, Sound(t)
      PROVE  /\ str[t] \in Shared \cup {NoBuffer}
             /\ Recount(cnt, str[t], 1) \in [Shared -> 0..2^Width - 1]
             /\ GivenUp(cnt, str[t]) \in [Shared -> 0..2^Width - 1]
  <2>1. str[t] \in Shared \cup {NoBuffer}
    BY <1>2 DEF Sound, ShareTypeOK
  <2>2. QED
    BY <1>1, <2>1, RecountType DEF ShareTypeOK, GivenUp
<1>3. Note => crowded' \in BOOLEAN
  BY DEF Note, ShareTypeOK
<1>4. CASE UNCHANGED shareVars
  BY <1>4 DEF shareVars, ShareTypeOK
<1>5. ASSUME NEW s \in Strs, NEW b \in Shared, Alloc(s, b) PROVE ShareTypeOK'
  BY <1>1, <1>3, <1>5 DEF Alloc, ShareTypeOK
<1>6. ASSUME NEW s \in Strs, Literal(s) PROVE ShareTypeOK'
  BY <1>6 DEF Literal, ShareTypeOK
<1>7. ASSUME NEW s \in Strs, NEW t \in Strs, Share(s, t) PROVE ShareTypeOK'
  BY <1>2, <1>3, <1>7 DEF Share, ShareTypeOK
<1>8. ASSUME NEW s \in Strs, NEW t \in Strs, MoveTo(s, t) PROVE ShareTypeOK'
  BY <1>2, <1>8 DEF MoveTo, ShareTypeOK
<1>9. ASSUME NEW s \in Strs, NEW t \in Strs, AssignCopy(s, t) PROVE ShareTypeOK'
  <2>1. str[t] \in Shared \cup {NoBuffer} /\ GivenUp(cnt, str[s]) \in [Shared -> 0..2^Width - 1]
    BY <1>2, <1>9 DEF AssignCopy
  <2>2. cnt' \in [Shared -> 0..2^Width - 1]
    BY <1>9, <2>1, RecountType DEF AssignCopy
  <2>3. QED
    BY <1>3, <1>9, <2>1, <2>2 DEF AssignCopy, ShareTypeOK
<1>10. ASSUME NEW s \in Strs, NEW t \in Strs, AssignMove(s, t) PROVE ShareTypeOK'
  BY <1>2, <1>10 DEF AssignMove, ShareTypeOK
<1>11. ASSUME NEW s \in Strs, AssignLiteral(s) PROVE ShareTypeOK'
  BY <1>11 DEF AssignLiteral, ShareTypeOK
<1>12. ASSUME NEW s \in Strs, Destroy(s) PROVE ShareTypeOK'
  BY <1>2, <1>12 DEF Destroy, ShareTypeOK
<1>13. QED
  BY <1>4, <1>5, <1>6, <1>7, <1>8, <1>9, <1>10, <1>11, <1>12 DEF ShareNext
-----------------------------------------------------------------------------
(* The invariant, one lemma for each kind of operation.                    *)

\* The references of a buffer after one Str was given another.
LEMMA RefsAfter ==
    ASSUME ShareTypeOK, ShareTypeOK', NEW s \in Strs,
           \A u \in Strs \ {s} : str'[u] = str[u], NEW b
    PROVE  /\ Refs(b) \in Nat
           /\ Refs(b)' = Refs(b) - (IF str[s] = b THEN 1 ELSE 0) + (IF str'[s] = b THEN 1 ELSE 0)
<1>1. /\ str \in [Strs -> Shared \cup {NoBuffer, NoStr}]
      /\ str' \in [Strs -> Shared \cup {NoBuffer, NoStr}]
  BY DEF ShareTypeOK
<1>2. Refs(b) = Cardinality(Within(str, b)) /\ Refs(b)' = Cardinality(Within(str', b))
  BY DEF Refs, Within
<1>3. QED
  BY <1>1, <1>2, RefsMove

\* ... and after s took the reference of t.
LEMMA RefsAfterMove ==
    ASSUME ShareTypeOK, ShareTypeOK', NEW s \in Strs, NEW t \in Strs, s # t,
           str'[s] = str[t], str'[t] = NoBuffer,
           \A u \in Strs \ {s, t} : str'[u] = str[u], NEW b \in Shared
    PROVE  Refs(b) \in Nat /\ Refs(b)' = Refs(b) - (IF str[s] = b THEN 1 ELSE 0)
<1> DEFINE g == [str EXCEPT ![s] = str[t]]
<1>1. /\ str \in [Strs -> Shared \cup {NoBuffer, NoStr}]
      /\ str' \in [Strs -> Shared \cup {NoBuffer, NoStr}] /\ b # NoBuffer
  BY StrShareAssumption DEF StrShareAssumption, ShareTypeOK
<1>2. g \in [Strs -> Shared \cup {NoBuffer, NoStr}] /\ g[s] = str[t] /\ g[t] = str[t]
  BY <1>1
<1>3. Refs(b) = Cardinality(Within(str, b)) /\ Refs(b)' = Cardinality(Within(str', b))
  BY DEF Refs, Within
<1>4. \A u \in Strs \ {s} : g[u] = str[u]
  BY <1>1
<1>5. \A u \in Strs \ {t} : str'[u] = g[u]
  BY <1>1, <1>2
<1> HIDE DEF g
<1>6. /\ Cardinality(Within(str, b)) \in Nat
      /\ Cardinality(Within(g, b)) = Cardinality(Within(str, b))
            - (IF str[s] = b THEN 1 ELSE 0) + (IF g[s] = b THEN 1 ELSE 0)
  BY <1>1, <1>2, <1>4, RefsMove
<1>7. /\ Cardinality(Within(g, b)) \in Nat
      /\ Cardinality(Within(str', b)) = Cardinality(Within(g, b))
            - (IF g[t] = b THEN 1 ELSE 0) + (IF str'[t] = b THEN 1 ELSE 0)
  BY <1>1, <1>2, <1>5, RefsMove
<1>8. Cardinality(Within(str', b)) = Cardinality(Within(str, b)) - (IF str[s] = b THEN 1 ELSE 0)
  BY <1>1, <1>2, <1>6, <1>7
<1>9. QED
  BY <1>3, <1>6, <1>8

\* A step that leaves crowded FALSE found it so, and left no buffer with more
\* references than its count can count.
LEMMA NoteBounds ==
    ASSUME Note, ~crowded'
    PROVE  ~crowded /\ \A b \in Shared : ~(InUse(b)' > 2^Width)
  BY DEF Note, InUse, Refs

\* alloc takes a buffer that no Str is in.
LEMMA AllocKeeps ==
    ASSUME ShareInv, ShareTypeOK', NEW s \in Strs, NEW b \in Shared, Alloc(s, b), ~crowded'
    PROVE  (\A a \in live : CountRight(a))' /\ (\A u \in Strs : Placed(u))'
<1>1. ~crowded /\ ShareTypeOK /\ 2^Width \in Nat /\ 2^Width > 1 /\ b # NoBuffer /\ b # NoStr
  BY NoteBounds, StrShareAssumption DEF StrShareAssumption, Alloc, ShareInv
<1>2. ASSUME NEW a \in live' PROVE CountRight(a)'
  <2>1. /\ a \in Shared /\ str[s] # a /\ str'[s] = b
        /\ \A u \in Strs \ {s} : str'[u] = str[u]
    BY <1>2, StrShareAssumption DEF StrShareAssumption, Alloc, ShareInv, ShareTypeOK
  <2>2. Refs(a) \in Nat /\ Refs(a)' = Refs(a) + (IF b = a THEN 1 ELSE 0)
    BY <1>1, <2>1, RefsAfter
  <2>3. CASE a = b
    <3>1. {u \in Strs : str[u] = b} = {}
      BY <1>1 DEF Alloc, ShareInv, Placed
    <3>2. Refs(b) = 0
      BY <3>1, FS_EmptySet DEF Refs
    <3>3. InUse(b)' = 1 /\ cnt'[b] = 1
      BY <1>1, <2>2, <2>3, <3>2 DEF Alloc, InUse, ShareTypeOK
    <3>4. 1 % 2^Width = 1
      BY <1>1, Remainders
    <3>5. QED
      BY <1>1, <2>3, <3>3, <3>4 DEF CountRight
  <2>4. CASE a # b
    <3>1. a \in live /\ InUse(a)' = InUse(a) /\ cnt'[a] = cnt[a]
      BY <1>1, <1>2, <2>1, <2>2, <2>4 DEF Alloc, InUse, ShareTypeOK
    <3>2. QED
      BY <1>1, <3>1 DEF CountRight, ShareInv
  <2>5. QED
    BY <2>3, <2>4
<1>3. ASSUME NEW u \in Strs PROVE Placed(u)'
  BY <1>1, <1>3 DEF Alloc, Placed, ShareInv, ShareTypeOK
<1>4. QED
  BY <1>2, <1>3

\* The copy constructor counts one reference more.
LEMMA ShareKeeps ==
    ASSUME ShareInv, ShareTypeOK', NEW s \in Strs, NEW t \in Strs, Share(s, t), ~crowded'
    PROVE  (\A a \in live : CountRight(a))' /\ (\A u \in Strs : Placed(u))'
<1>1. ~crowded /\ ShareTypeOK /\ 2^Width \in Nat /\ 2^Width > 1
  BY NoteBounds, StrShareAssumption DEF StrShareAssumption, Share, ShareInv
<1>2. ASSUME NEW a \in live' PROVE CountRight(a)'
  <2>1. /\ a \in live /\ a \in Shared /\ a # NoBuffer /\ str[s] # a /\ str'[s] = str[t]
        /\ \A u \in Strs \ {s} : str'[u] = str[u]
    BY <1>1, <1>2, StrShareAssumption DEF StrShareAssumption, Share, Sound, ShareTypeOK
  <2>2. Refs(a) \in Nat /\ Refs(a)' = Refs(a) + (IF str[t] = a THEN 1 ELSE 0)
    BY <1>1, <2>1, RefsAfter
  <2>3. InUse(a) \in 1..2^Width /\ cnt[a] = InUse(a) % 2^Width /\ lost[a] \in Nat /\ lost' = lost
    BY <1>1, <2>1 DEF ShareInv, CountRight, Share, ShareTypeOK
  <2>4. CASE str[t] = a
    <3>0. ~(InUse(a)' > 2^Width)
      BY <2>1, NoteBounds DEF Share
    <3>1. InUse(a)' = InUse(a) + 1 /\ InUse(a) < 2^Width
      BY <1>1, <2>2, <2>3, <2>4, <3>0 DEF InUse
    <3>2. cnt'[a] = (cnt[a] + 1) % 2^Width
      BY <1>1, <2>1, <2>4 DEF Share, Recount, ShareTypeOK
    <3>3. QED
      BY <1>1, <2>3, <3>1, <3>2, CountSteps DEF CountRight
  <2>5. CASE str[t] # a
    <3>1. InUse(a)' = InUse(a) /\ cnt'[a] = cnt[a]
      BY <1>1, <2>1, <2>2, <2>3, <2>5 DEF Share, Recount, InUse, ShareTypeOK
    <3>2. QED
      BY <2>3, <3>1 DEF CountRight
  <2>6. QED
    BY <2>4, <2>5
<1>3. ASSUME NEW u \in Strs PROVE Placed(u)'
  BY <1>1, <1>3 DEF Share, Sound, Placed, ShareInv, ShareTypeOK
<1>4. QED
  BY <1>2, <1>3

\* The move constructor only hands the reference on.
LEMMA MoveKeeps ==
    ASSUME ShareInv, ShareTypeOK', NEW s \in Strs, NEW t \in Strs, MoveTo(s, t), ~crowded'
    PROVE  (\A a \in live : CountRight(a))' /\ (\A u \in Strs : Placed(u))'
<1>1. /\ ~crowded /\ ShareTypeOK /\ str[s] = NoStr /\ s # t
      /\ str'[s] = str[t] /\ str'[t] = NoBuffer /\ \A u \in Strs \ {s, t} : str'[u] = str[u]
  BY StrShareAssumption DEF StrShareAssumption, MoveTo, Sound, ShareInv, ShareTypeOK
<1>2. ASSUME NEW a \in live' PROVE CountRight(a)'
  <2>1. a \in live /\ a \in Shared /\ str[s] # a /\ cnt'[a] = cnt[a] /\ lost'[a] = lost[a]
    BY <1>1, <1>2, StrShareAssumption DEF StrShareAssumption, MoveTo, ShareTypeOK
  <2>2. Refs(a)' = Refs(a)
    BY <1>1, <2>1, RefsAfterMove
  <2>3. InUse(a)' = InUse(a)
    BY <2>1, <2>2 DEF InUse
  <2>4. QED
    BY <1>1, <2>1, <2>3 DEF CountRight, ShareInv
<1>3. ASSUME NEW u \in Strs PROVE Placed(u)'
  BY <1>1, <1>3 DEF MoveTo, Sound, Placed, ShareInv, ShareTypeOK
<1>4. QED
  BY <1>2, <1>3

\* operator=(const Str&): the buffer that s leaves is freed only when no other Str,
\* t among them, is in it, and the one it takes counts it.
LEMMA AssignCopyKeeps ==
    ASSUME ShareInv, ShareTypeOK', NEW s \in Strs, NEW t \in Strs, AssignCopy(s, t), ~crowded'
    PROVE  (\A a \in live : CountRight(a))' /\ (\A u \in Strs : Placed(u))'
<1>1. ~crowded /\ ShareTypeOK /\ 2^Width \in Nat /\ 2^Width > 1 /\ Sound(s) /\ Sound(t) /\ s # t
  BY NoteBounds, StrShareAssumption DEF StrShareAssumption, AssignCopy, ShareInv
<1>2. str'[s] = str[t] /\ \A u \in Strs \ {s} : str'[u] = str[u]
  BY <1>1 DEF AssignCopy, ShareTypeOK
<1>3. ASSUME NEW a \in live' PROVE CountRight(a)'
  <2>1. /\ a \in live /\ a \in Shared /\ a # NoBuffer /\ a \notin FreedBy(cnt, str[s])
        /\ lost'[a] = lost[a] /\ lost[a] \in Nat
    BY <1>1, <1>3, StrShareAssumption DEF StrShareAssumption, AssignCopy, ShareTypeOK
  <2>2. InUseAfter(s, a) \in 1..2^Width /\ GivenUp(cnt, str[s])[a] = InUseAfter(s, a) % 2^Width
    BY <1>1, <2>1, GiveUp
  <2>3. /\ Refs(a) \in Nat
        /\ Refs(a)' = Refs(a) - (IF str[s] = a THEN 1 ELSE 0) + (IF str[t] = a THEN 1 ELSE 0)
    BY <1>1, <1>2, RefsAfter
  <2>4. InUse(a)' = InUseAfter(s, a) + (IF str[t] = a THEN 1 ELSE 0)
    BY <2>1, <2>3 DEF InUse, InUseAfter
  <2>5. ~(InUse(a)' > 2^Width)
    BY <2>1, NoteBounds DEF AssignCopy
  <2>6. GivenUp(cnt, str[s]) \in [Shared -> 0..2^Width - 1]
    <3>1. str[s] \in Shared \cup {NoBuffer} /\ 2^Width - 1 \in Nat
      BY <1>1 DEF Sound, ShareTypeOK
    <3>2. QED
      BY <1>1, <3>1, RecountType DEF GivenUp, ShareTypeOK
  <2>7. cnt'[a] = IF str[t] = a THEN ((InUseAfter(s, a) % 2^Width) + 1) % 2^Width
                  ELSE InUseAfter(s, a) % 2^Width
    BY <2>1, <2>2, <2>6 DEF AssignCopy, Recount
  <2>8. CASE str[t] = a
    <3>1. InUse(a)' = InUseAfter(s, a) + 1 /\ InUseAfter(s, a) < 2^Width
      BY <1>1, <2>2, <2>4, <2>5, <2>8
    <3>2. QED
      BY <1>1, <2>2, <2>7, <2>8, <3>1, CountSteps DEF CountRight
  <2>9. CASE str[t] # a
    BY <1>1, <2>2, <2>4, <2>7, <2>9 DEF CountRight
  <2>10. QED
    BY <2>8, <2>9
<1>4. ASSUME NEW u \in Strs PROVE Placed(u)'
  <2>1. \A v \in Strs \ {s} : str[v] \in (live \ FreedBy(cnt, str[s])) \cup {NoBuffer, NoStr}
    BY <1>1, OthersStay
  <2>2. live' = live \ FreedBy(cnt, str[s])
    BY DEF AssignCopy
  <2>3. QED
    BY <1>1, <1>2, <2>1, <2>2 DEF Placed
<1>5. QED
  BY <1>3, <1>4

\* operator=(Str&&) gives up the reference of s and hands on that of t.
LEMMA AssignMoveKeeps ==
    ASSUME ShareInv, ShareTypeOK', NEW s \in Strs, NEW t \in Strs, AssignMove(s, t), ~crowded'
    PROVE  (\A a \in live : CountRight(a))' /\ (\A u \in Strs : Placed(u))'
<1>1. ~crowded /\ ShareTypeOK /\ Sound(s) /\ Sound(t) /\ s # t
  BY DEF AssignMove, ShareInv
<1>2. str'[s] = str[t] /\ str'[t] = NoBuffer /\ \A u \in Strs \ {s, t} : str'[u] = str[u]
  BY <1>1 DEF AssignMove, ShareTypeOK
<1>3. ASSUME NEW a \in live' PROVE CountRight(a)'
  <2>1. /\ a \in live /\ a \in Shared /\ a \notin FreedBy(cnt, str[s])
        /\ lost'[a] = lost[a] /\ lost[a] \in Nat
    BY <1>1, <1>3 DEF AssignMove, ShareTypeOK
  <2>2. InUseAfter(s, a) \in 1..2^Width /\ cnt'[a] = InUseAfter(s, a) % 2^Width
    BY <1>1, <2>1, GiveUp DEF AssignMove
  <2>3. Refs(a) \in Nat /\ Refs(a)' = Refs(a) - (IF str[s] = a THEN 1 ELSE 0)
    BY <1>1, <1>2, <2>1, RefsAfterMove
  <2>4. InUse(a)' = InUseAfter(s, a)
    BY <2>1, <2>3 DEF InUse, InUseAfter
  <2>5. QED
    BY <2>2, <2>4 DEF CountRight
<1>4. ASSUME NEW u \in Strs PROVE Placed(u)'
  <2>1. \A v \in Strs \ {s} : str[v] \in (live \ FreedBy(cnt, str[s])) \cup {NoBuffer, NoStr}
    BY <1>1, OthersStay
  <2>2. live' = live \ FreedBy(cnt, str[s])
    BY DEF AssignMove
  <2>3. QED
    BY <1>1, <1>2, <2>1, <2>2 DEF Placed
<1>5. QED
  BY <1>3, <1>4

\* operator=(const char *) loses a reference, which the count keeps.
LEMMA AssignLiteralKeeps ==
    ASSUME ShareInv, ShareTypeOK', NEW s \in Strs, AssignLiteral(s), ~crowded'
    PROVE  (\A a \in live : CountRight(a))' /\ (\A u \in Strs : Placed(u))'
<1>1. ~crowded /\ ShareTypeOK
  BY DEF AssignLiteral, ShareInv
<1>2. str'[s] = NoBuffer /\ \A u \in Strs \ {s} : str'[u] = str[u]
  BY <1>1 DEF AssignLiteral, ShareTypeOK
<1>3. ASSUME NEW a \in live' PROVE CountRight(a)'
  <2>1. /\ a \in live /\ a \in Shared /\ a # NoBuffer /\ cnt'[a] = cnt[a] /\ lost[a] \in Nat
        /\ lost'[a] = lost[a] + (IF str[s] = a THEN 1 ELSE 0)
    BY <1>1, <1>3, StrShareAssumption DEF StrShareAssumption, AssignLiteral, ShareTypeOK
  <2>2. Refs(a) \in Nat /\ Refs(a)' = Refs(a) - (IF str[s] = a THEN 1 ELSE 0)
    BY <1>1, <1>2, <2>1, RefsAfter
  <2>3. InUse(a)' = InUse(a)
    BY <2>1, <2>2 DEF InUse
  <2>4. QED
    BY <1>1, <2>1, <2>3 DEF CountRight, ShareInv
<1>4. ASSUME NEW u \in Strs PROVE Placed(u)'
  BY <1>1, <1>2, <1>4 DEF AssignLiteral, Placed, ShareInv
<1>5. QED
  BY <1>3, <1>4

\* The destructor gives up the reference of s.
LEMMA DestroyKeeps ==
    ASSUME ShareInv, ShareTypeOK', NEW s \in Strs, Destroy(s), ~crowded'
    PROVE  (\A a \in live : CountRight(a))' /\ (\A u \in Strs : Placed(u))'
<1>1. ~crowded /\ ShareTypeOK /\ Sound(s)
  BY DEF Destroy, ShareInv
<1>2. str'[s] = NoStr /\ \A u \in Strs \ {s} : str'[u] = str[u]
  BY <1>1 DEF Destroy, ShareTypeOK
<1>3. ASSUME NEW a \in live' PROVE CountRight(a)'
  <2>1. /\ a \in live /\ a \in Shared /\ a # NoStr /\ a \notin FreedBy(cnt, str[s])
        /\ lost'[a] = lost[a] /\ lost[a] \in Nat
    BY <1>1, <1>3, StrShareAssumption DEF StrShareAssumption, Destroy, ShareTypeOK
  <2>2. InUseAfter(s, a) \in 1..2^Width /\ cnt'[a] = InUseAfter(s, a) % 2^Width
    BY <1>1, <2>1, GiveUp DEF Destroy
  <2>3. Refs(a) \in Nat /\ Refs(a)' = Refs(a) - (IF str[s] = a THEN 1 ELSE 0)
    BY <1>1, <1>2, <2>1, RefsAfter
  <2>4. InUse(a)' = InUseAfter(s, a)
    BY <2>1, <2>3 DEF InUse, InUseAfter
  <2>5. QED
    BY <2>2, <2>4 DEF CountRight
<1>4. ASSUME NEW u \in Strs PROVE Placed(u)'
  <2>1. \A v \in Strs \ {s} : str[v] \in (live \ FreedBy(cnt, str[s])) \cup {NoBuffer, NoStr}
    BY <1>1, OthersStay
  <2>2. live' = live \ FreedBy(cnt, str[s])
    BY DEF Destroy
  <2>3. QED
    BY <1>2, <2>1, <2>2 DEF Placed
<1>5. QED
  BY <1>3, <1>4
-----------------------------------------------------------------------------
\* The invariant is inductive.
LEMMA ShareInductive == ShareInv /\ [ShareNext]_shareVars => ShareInv'
<1> SUFFICES ASSUME ShareInv, [ShareNext]_shareVars PROVE ShareInv'
  OBVIOUS
<1>1. ShareTypeOK /\ ShareTypeOK'
  BY ShareTyping DEF ShareInv
<1> SUFFICES ASSUME ~crowded' PROVE (\A a \in live : CountRight(a))' /\ (\A u \in Strs : Placed(u))'
  BY <1>1 DEF ShareInv
<1>2. CASE UNCHANGED shareVars
  BY <1>2 DEF shareVars, ShareInv, CountRight, InUse, Refs, Placed
<1>3. ASSUME NEW s \in Strs, Literal(s)
      PROVE  (\A a \in live : CountRight(a))' /\ (\A u \in Strs : Placed(u))'
  <2>1. str'[s] = NoBuffer /\ str[s] = NoStr /\ \A u \in Strs \ {s} : str'[u] = str[u]
    BY <1>1, <1>3 DEF Literal, ShareTypeOK
  <2>2. UNCHANGED <<live, cnt, lost, crowded>> /\ NoBuffer \notin live /\ NoStr \notin live
    BY <1>1, <1>3, StrShareAssumption DEF StrShareAssumption, Literal, ShareTypeOK
  <2>3. \A a \in live : InUse(a)' = InUse(a)
    BY <1>1, <2>1, <2>2, RefsAfter DEF InUse
  <2>4. QED
    BY <2>1, <2>2, <2>3 DEF ShareInv, CountRight, Placed
<1>4. QED
  BY <1>1, <1>2, <1>3, AllocKeeps, ShareKeeps, MoveKeeps, AssignCopyKeeps, AssignMoveKeeps,
     AssignLiteralKeeps, DestroyKeeps DEF ShareNext

\* Counting in lib/string-inl.h is right: as long as no buffer has had more references
\* than its count can count, the count is the number of its Strs and of the references
\* that operator=(const char *) lost, no Str is in a freed buffer, and no buffer without
\* a Str or a lost reference stays allocated.
THEOREM CountIsExactHolds == ShareSpec => []CountIsExact
<1>1. ShareInit => ShareInv
  <2>1. 0 \in 0..2^Width - 1
    BY StrShareAssumption DEF StrShareAssumption
  <2> SUFFICES ASSUME ShareInit PROVE ShareInv
    OBVIOUS
  <2>2. cnt \in [Shared -> 0..2^Width - 1]
    BY <2>1 DEF ShareInit
  <2>3. ShareTypeOK
    BY <2>2 DEF ShareInit, ShareTypeOK
  <2>4. QED
    BY <2>3 DEF ShareInit, ShareInv, Placed
<1>2. ShareInv => CountIsExact
  BY StrShareAssumption DEF StrShareAssumption, ShareInv, CountRight, InUse, Placed, CountIsExact
<1>3. QED
  BY <1>1, <1>2, ShareInductive, PTL DEF ShareSpec
=============================================================================
