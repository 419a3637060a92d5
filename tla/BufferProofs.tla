---------------------------- MODULE BufferProofs ----------------------------
(***************************************************************************)
(* Theorems about Buffer: what the operations on the chunks do to the      *)
(* content, and that each is an operation of a byte queue.                 *)
(***************************************************************************)
EXTENDS Buffer, ChunkLemmas

-----------------------------------------------------------------------------
(* What the chunks hold.                                                   *)

\* The content is a sequence.
LEMMA ContentType ==
    ASSUME NEW D, NEW dq \in Seq(Seq(D))
    PROVE  Content(dq) \in Seq(D) /\ (dq = <<>> => Content(dq) = <<>>)
BY FlattenType DEF Content

\* One chunk more is so many bytes more at the end.
LEMMA ContentAppend ==
    ASSUME NEW D, NEW dq \in Seq(Seq(D)), NEW c \in Seq(D)
    PROVE  Content(Append(dq, c)) = Content(dq) \o c
BY FlattenAppend DEF Content

\* The content of chunks behind others stands behind theirs.
LEMMA ContentConcat ==
    ASSUME NEW D, NEW a \in Seq(Seq(D)), NEW b \in Seq(Seq(D))
    PROVE  a \o b \in Seq(Seq(D)) /\ Content(a \o b) = Content(a) \o Content(b)
BY FlattenConcat DEF Content

\* A chunk alone is what it holds.
LEMMA ContentSingle ==
    ASSUME NEW D, NEW c \in Seq(D)
    PROVE  <<c>> \in Seq(Seq(D)) /\ Content(<<c>>) = c
BY FlattenSingle DEF Content

\* The chunks before a place and those behind it hold the content together.
LEMMA SplitContent ==
    ASSUME NEW D, NEW dq \in Seq(Seq(D)), NEW k \in 0..Len(dq)
    PROVE  /\ First(dq, k) \in Seq(Seq(D)) /\ Rest(dq, k) \in Seq(Seq(D))
           /\ Content(dq) = Content(First(dq, k)) \o Content(Rest(dq, k))
           /\ Total(dq) = Total(First(dq, k)) + Total(Rest(dq, k))
           /\ Total(First(dq, k)) \in Nat /\ Total(Rest(dq, k)) \in Nat
           /\ Content(First(dq, k)) \in Seq(D) /\ Content(Rest(dq, k)) \in Seq(D)
<1>1. k \in Nat /\ k <= Len(dq)
  BY LenProperties
<1>2. First(dq, k) \in Seq(Seq(D)) /\ Rest(dq, k) \in Seq(Seq(D)) /\ dq = First(dq, k) \o Rest(dq, k)
  BY <1>1, RestType
<1>3. Content(dq) = Content(First(dq, k)) \o Content(Rest(dq, k))
  BY <1>2, ContentConcat
<1>4. Content(First(dq, k)) \in Seq(D) /\ Content(Rest(dq, k)) \in Seq(D)
  BY <1>2, ContentType
<1>5. QED
  BY <1>2, <1>3, <1>4, ConcatProperties, LenProperties DEF Total

\* The k-th chunk behind the ones before it.
LEMMA NextChunk ==
    ASSUME NEW D, NEW dq \in Seq(Seq(D)), NEW k \in 1..Len(dq)
    PROVE  /\ dq[k] \in Seq(D)
           /\ Content(First(dq, k)) = Content(First(dq, k - 1)) \o dq[k]
           /\ Total(First(dq, k)) = Total(First(dq, k - 1)) + Len(dq[k])
<1>1. /\ k - 1 \in 0..Len(dq) /\ k \in 1..Len(dq) /\ 1 \in 1..Len(dq) /\ k \in 1..Len(dq) /\ dq[k] \in Seq(D)
      /\ Len(dq) \in Nat
  BY LenProperties
<1>2. First(dq, k - 1) \in Seq(Seq(D)) /\ Content(First(dq, k - 1)) \in Seq(D)
  BY <1>1, SplitContent
<1>3. First(dq, k) = First(dq, k - 1) \o <<dq[k]>>
  BY <1>1, SubSeqRecursiveSecond DEF First
<1>4. First(dq, k) = Append(First(dq, k - 1), dq[k])
  BY <1>1, <1>2, <1>3, AppendIsConcat
<1>5. Content(First(dq, k)) = Content(First(dq, k - 1)) \o dq[k]
  BY <1>1, <1>2, <1>4, ContentAppend
<1>6. QED
  BY <1>1, <1>2, <1>5, ConcatProperties DEF Total

\* The first chunk with which n bytes are reached: the ones before it hold fewer.
LEMMA CutChunk ==
    ASSUME NEW D, NEW dq \in Seq(Seq(D)), NEW n \in Nat \ {0},
           NEW k \in 1..Len(dq), Total(First(dq, k)) >= n,
           \A j \in 1..Len(dq) : Total(First(dq, j)) >= n => k <= j
    PROVE  Total(First(dq, k - 1)) < n
<1>1. Len(dq) \in Nat /\ k - 1 \in 0..Len(dq)
  BY LenProperties
<1>2. Total(First(dq, k - 1)) \in Nat
  BY <1>1, SplitContent
<1>3. CASE k = 1
  <2>1. First(dq, 0) \in Seq(Seq(D)) /\ Len(First(dq, 0)) = 0
    BY <1>1, RestType
  <2>2. First(dq, 0) = <<>>
    BY <2>1, EmptySeq
  <2>3. Content(First(dq, 0)) = <<>>
    BY <2>1, <2>2, ContentType
  <2>4. Total(First(dq, 0)) = 0
    BY <2>3, EmptySeq DEF Total
  <2>5. k - 1 = 0
    BY <1>3
  <2>6. QED
    BY <2>4, <2>5
<1>4. CASE k # 1
  <2>1. k - 1 \in 1..Len(dq) /\ ~(k <= k - 1)
    BY <1>1, <1>4
  <2>2. ~(Total(First(dq, k - 1)) >= n)
    BY <2>1
  <2>3. QED
    BY <1>2, <2>2
<1>5. QED
  BY <1>3, <1>4

\* The chunks that are left hold what is left of the content.
LEMMA DroppedKeeps ==
    ASSUME NEW D, NEW dq \in Seq(Seq(D)), NEW n \in Nat
    PROVE  Dropped(dq, n) \in Seq(Seq(D)) /\ Content(Dropped(dq, n)) = Rest(Content(dq), n)
<1> DEFINE cut  == {i \in 1..Len(dq) : Total(SubSeq(dq, 1, i)) >= n}
           k    == CHOOSE i \in cut : \A j \in cut : i <= j
           over == Total(SubSeq(dq, 1, k)) - n
           c    == SubSeq(dq[k], Len(dq[k]) - over + 1, Len(dq[k]))
<1>1. Dropped(dq, n) = IF n = 0 THEN dq
                      ELSE IF cut = {} THEN <<>>
                      ELSE IF over = 0 THEN Rest(dq, k)
                      ELSE <<c>> \o Rest(dq, k)
  BY DEF Dropped, Rest
<1>2. Content(dq) \in Seq(D) /\ Len(dq) \in Nat /\ cut \subseteq Nat
  BY ContentType, LenProperties
<1>3. CASE n = 0
  <2>1. Dropped(dq, n) = dq
    BY <1>1, <1>3
  <2>2. QED
    BY <1>2, <1>3, <2>1, RestOfAll
<1>4. CASE n # 0 /\ cut = {}
  <2>1. Dropped(dq, n) = <<>>
    BY <1>1, <1>4
  <2>2. <<>> \in Seq(Seq(D)) /\ Content(<<>>) = <<>>
    <3>1. <<>> \in Seq(Seq(D))
      BY EmptySeq
    <3>2. QED
      BY <3>1, ContentType
  <2>3. Total(dq) \in Nat /\ Total(dq) < n
    <3>1. Total(dq) \in Nat
      BY <1>2, LenProperties DEF Total
    <3>2. CASE dq = <<>>
      <4>1. Content(dq) = <<>>
        BY <3>2, ContentType
      <4>2. Total(dq) = 0
        BY <4>1, EmptySeq DEF Total
      <4>3. QED
        BY <1>4, <4>2
    <3>3. CASE dq # <<>>
      <4>1. Len(dq) \in 1..Len(dq)
        BY <1>2, <3>3, EmptySeq
      <4>2. SubSeq(dq, 1, Len(dq)) = dq
        BY SubSeqFull
      <4>3. ~(Total(dq) >= n)
        BY <1>4, <4>1, <4>2
      <4>4. QED
        BY <3>1, <4>3
    <3>4. QED
      BY <3>2, <3>3
  <2>4. Rest(Content(dq), n) = <<>>
    BY <1>2, <2>3, RestOfAll DEF Total
  <2>5. QED
    BY <2>1, <2>2, <2>4
<1>5. CASE n # 0 /\ cut # {}
  <2>1. k \in cut /\ \A j \in cut : k <= j
    <3>1. \E i \in cut : \A j \in cut : i <= j
      BY <1>2, <1>5, LeastNumber
    <3>2. QED
      BY <3>1
  <2>2. k \in 1..Len(dq) /\ Total(First(dq, k)) >= n
    BY <2>1 DEF First
  <2>3. \A j \in 1..Len(dq) : Total(First(dq, j)) >= n => k <= j
    BY <2>1 DEF First
  <2>4. over = Total(First(dq, k)) - n
    BY DEF First
  <2>5. Dropped(dq, n) = IF over = 0 THEN Rest(dq, k) ELSE <<c>> \o Rest(dq, k)
    BY <1>1, <1>5
  <2> HIDE DEF cut, k, over
  <2>6. n \in Nat \ {0} /\ k \in 0..Len(dq) /\ k - 1 \in 0..Len(dq)
    BY <1>2, <1>5, <2>2
  <2>7. Total(First(dq, k - 1)) < n
    BY <2>2, <2>3, <2>6, CutChunk
  <2>8. /\ dq[k] \in Seq(D)
        /\ Content(First(dq, k)) = Content(First(dq, k - 1)) \o dq[k]
        /\ Total(First(dq, k)) = Total(First(dq, k - 1)) + Len(dq[k])
    BY <2>2, NextChunk
  <2>9. /\ Rest(dq, k) \in Seq(Seq(D))
        /\ Content(dq) = Content(First(dq, k)) \o Content(Rest(dq, k))
        /\ Content(First(dq, k)) \in Seq(D) /\ Content(Rest(dq, k)) \in Seq(D)
        /\ Total(First(dq, k)) \in Nat
    BY <2>6, SplitContent
  <2>10. Total(First(dq, k - 1)) \in Nat /\ Content(First(dq, k - 1)) \in Seq(D)
    BY <2>6, SplitContent
  <2> DEFINE w == Content(First(dq, k))
             v == Content(First(dq, k - 1))
             r == Content(Rest(dq, k))
  <2>11. /\ w \in Seq(D) /\ v \in Seq(D) /\ r \in Seq(D) /\ Content(dq) = w \o r /\ w = v \o dq[k]
         /\ Len(w) \in Nat /\ Len(v) \in Nat /\ Len(v) < n /\ n <= Len(w)
         /\ Len(w) = Len(v) + Len(dq[k]) /\ over = Len(w) - n
    BY <2>2, <2>4, <2>7, <2>8, <2>9, <2>10 DEF Total
  <2>12. Content(Rest(dq, k)) = r
    OBVIOUS
  <2> HIDE DEF w, v, r
  <2>13. n \in 0..Len(w)
    BY <2>11
  <2>14. Rest(Content(dq), n) = Rest(w, n) \o r /\ (n = Len(w) => Rest(Content(dq), n) = r)
    <3>1. w \in Seq(D) /\ r \in Seq(D) /\ Content(dq) = w \o r
      BY <2>11
    <3>2. QED
      BY <2>13, <3>1, RestOfConcat
  <2>15. CASE over = 0
    BY <2>5, <2>9, <2>11, <2>12, <2>14, <2>15
  <2>16. CASE over # 0
    <3>1. n >= Len(v) /\ Len(dq[k]) \in Nat
      BY <2>8, <2>11, LenProperties
    <3>2. Rest(w, n) = Rest(dq[k], n - Len(v))
      BY <2>8, <2>11, <3>1, RestBehind
    <3>3. Len(dq[k]) - over = n - Len(v) /\ n - Len(v) \in Nat
      BY <2>11, <3>1
    <3>4. c = Rest(dq[k], n - Len(v))
      BY <3>3 DEF Rest
    <3>5. c \in Seq(D)
      BY <2>8, <3>3, <3>4, RestType
    <3> HIDE DEF c
    <3>6. <<c>> \in Seq(Seq(D)) /\ Content(<<c>>) = c
      BY <3>5, ContentSingle
    <3>7. /\ <<c>> \o Rest(dq, k) \in Seq(Seq(D))
          /\ Content(<<c>> \o Rest(dq, k)) = Content(<<c>>) \o Content(Rest(dq, k))
      BY <2>9, <3>6, ContentConcat
    <3>8. QED
      BY <2>5, <2>12, <2>14, <2>16, <3>2, <3>4, <3>6, <3>7
  <2>17. QED
    BY <2>15, <2>16
<1>6. QED
  BY <1>3, <1>4, <1>5

\* The first chunk holds the first bytes.
LEMMA TopChunk ==
    ASSUME NEW D, NEW dq \in Seq(Seq(D)), dq # <<>>
    PROVE  /\ dq[1] \in Seq(D) /\ Tail(dq) \in Seq(Seq(D))
           /\ Content(dq) = dq[1] \o Content(Tail(dq))
           /\ Rest(Content(dq), Len(dq[1])) = Content(Tail(dq))
           /\ Total(dq) = Len(dq[1]) + Total(Tail(dq))
           /\ Len(dq[1]) \in Nat /\ Total(Tail(dq)) \in Nat
<1>1. 1 \in 1..Len(dq) /\ Len(dq) \in 1..Len(dq) /\ 1 + 1 = 2
  BY LenProperties, EmptySeq
<1>2. dq[1] \in Seq(D) /\ Len(dq[1]) \in Nat
  BY <1>1, LenProperties
<1>3. Tail(dq) \in Seq(Seq(D)) /\ Tail(dq) = SubSeq(dq, 1 + 1, Len(dq))
  BY <1>1, HeadTailProperties, TailIsSubSeq
<1>4. dq = <<dq[1]>> \o Tail(dq)
  <2>1. SubSeq(dq, 1, Len(dq)) = <<dq[1]>> \o SubSeq(dq, 1 + 1, Len(dq))
    BY <1>1, SubSeqRecursiveFirst
  <2>2. QED
    BY <1>3, <2>1, SubSeqFull
<1> DEFINE c == dq[1]
           t == Tail(dq)
<1>5. c \in Seq(D) /\ t \in Seq(Seq(D)) /\ dq = <<c>> \o t /\ Len(c) \in Nat
  BY <1>2, <1>3, <1>4
<1> HIDE DEF c, t
<1>6. <<c>> \in Seq(Seq(D)) /\ Content(<<c>>) = c
  BY <1>5, ContentSingle
<1>7. Content(dq) = c \o Content(t)
  BY <1>5, <1>6, ContentConcat
<1>8. Content(t) \in Seq(D)
  BY <1>5, ContentType
<1>9. Total(dq) = Len(c) + Total(t) /\ Total(t) \in Nat
  BY <1>5, <1>7, <1>8, ConcatProperties, LenProperties DEF Total
<1>10. Rest(Content(dq), Len(c)) = Content(t)
  <2>1. Len(c) \in 0..Len(c)
    BY <1>5
  <2>2. QED
    <3>1. Rest(c \o Content(t), Len(c)) = Content(t)
      BY <1>5, <1>8, <2>1, RestOfConcat
    <3>2. QED
      BY <1>7, <3>1
<1>11. QED
  BY <1>5, <1>7, <1>9, <1>10 DEF c, t

\* merge_prefix changes no byte and leaves the first n bytes, or all, in the top chunk.
LEMMA MergedKeeps ==
    ASSUME NEW D, NEW dq \in Seq(Seq(D)), NEW n \in Nat
    PROVE  LET r == Merged(dq, Total(dq), n)
           IN  /\ r \in Seq(Seq(D)) /\ r # <<>> /\ Content(r) = Content(dq)
               /\ n # 0 => Len(r[1]) = Smaller(n, Total(dq))
<1> DEFINE r == Merged(dq, Total(dq), n)
           m == Smaller(n, Total(dq))
           front == SubSeq(Content(dq), 1, m)
           kept == \/ n = 0
                   \/ Len(dq) = 1 /\ Len(dq[1]) <= n
                   \/ Len(dq[1]) = n
<1>1. r = IF dq = <<>> THEN << <<>> >>
          ELSE IF kept THEN dq
          ELSE <<front>> \o Dropped(dq, m)
  BY DEF Merged
<1>2. Content(dq) \in Seq(D) /\ Total(dq) \in Nat /\ Total(dq) = Len(Content(dq))
  BY ContentType, LenProperties DEF Total
<1>3. m \in Nat /\ m <= Total(dq) /\ m = IF n < Total(dq) THEN n ELSE Total(dq)
  BY <1>2 DEF Smaller
<1> HIDE DEF r, m
<1>4. CASE dq = <<>>
  <2>1. <<>> \in Seq(D) /\ Content(dq) = <<>>
    BY <1>4, EmptySeq, ContentType
  <2>2. << <<>> >> \in Seq(Seq(D)) /\ Content(<< <<>> >>) = <<>>
    BY <2>1, ContentSingle
  <2>3. r = << <<>> >>
    BY <1>1, <1>4
  <2>4. r # <<>> /\ r[1] = <<>>
    BY <2>3
  <2>5. Len(r[1]) = 0 /\ Total(dq) = 0
    BY <1>2, <2>1, <2>4, EmptySeq
  <2>6. m = 0
    BY <1>3, <2>5
  <2>7. QED
    BY <2>1, <2>2, <2>3, <2>4, <2>5, <2>6 DEF r, m
<1>5. CASE dq # <<>> /\ kept
  <2>1. r = dq
    BY <1>1, <1>5
  <2>2. /\ Tail(dq) \in Seq(Seq(D)) /\ Total(dq) = Len(dq[1]) + Total(Tail(dq))
        /\ Len(dq[1]) \in Nat /\ Total(Tail(dq)) \in Nat
    BY <1>5, TopChunk
  <2>3. ASSUME Len(dq) = 1 PROVE Total(Tail(dq)) = 0
    <3>1. Tail(dq) = <<>>
      <4>1. Len(Tail(dq)) = 0
        BY <1>5, <2>3, HeadTailProperties
      <4>2. QED
        BY <2>2, <4>1, EmptySeq
    <3>2. Content(Tail(dq)) = <<>>
      BY <2>2, <3>1, ContentType
    <3>3. QED
      BY <3>2, EmptySeq DEF Total
  <2>4. ASSUME n # 0 PROVE Len(dq[1]) = m
    BY <1>3, <1>5, <2>2, <2>3, <2>4
  <2>5. QED
    BY <1>5, <2>1, <2>4 DEF r, m
<1>6. CASE dq # <<>> /\ ~kept
  <2>1. r = <<front>> \o Dropped(dq, m)
    BY <1>1, <1>6
  <2>2. Dropped(dq, m) \in Seq(Seq(D)) /\ Content(Dropped(dq, m)) = Rest(Content(dq), m)
    BY <1>3, DroppedKeeps
  <2>3. /\ front \in Seq(D) /\ Len(front) = m
        /\ Content(dq) = front \o Rest(Content(dq), m)
    <3>1. m <= Len(Content(dq))
      BY <1>2, <1>3
    <3>2. /\ First(Content(dq), m) \in Seq(D) /\ Len(First(Content(dq), m)) = m
          /\ Content(dq) = First(Content(dq), m) \o Rest(Content(dq), m)
      BY <1>2, <1>3, <3>1, RestType
    <3>3. QED
      BY <3>2 DEF First
  <2> HIDE DEF front
  <2>4. <<front>> \in Seq(Seq(D)) /\ Content(<<front>>) = front
    BY <2>3, ContentSingle
  <2>5. r \in Seq(Seq(D)) /\ Content(r) = Content(dq)
    <3>1. /\ <<front>> \o Dropped(dq, m) \in Seq(Seq(D))
          /\ Content(<<front>> \o Dropped(dq, m)) = Content(<<front>>) \o Content(Dropped(dq, m))
      BY <2>2, <2>4, ContentConcat
    <3>2. QED
      BY <2>1, <2>2, <2>3, <2>4, <3>1
  <2>6. Len(<<front>>) = 1 /\ <<front>>[1] = front
    OBVIOUS
  <2>7. /\ Len(r) = 1 + Len(Dropped(dq, m)) /\ Len(Dropped(dq, m)) \in Nat
        /\ r[1] = front
    <3>1. /\ Len(r) = Len(<<front>>) + Len(Dropped(dq, m))
          /\ \A i \in 1..Len(<<front>>) + Len(Dropped(dq, m)) :
                r[i] = IF i <= Len(<<front>>) THEN <<front>>[i]
                       ELSE Dropped(dq, m)[i - Len(<<front>>)]
      BY <2>1, <2>2, <2>4, ConcatProperties
    <3>2. Len(Dropped(dq, m)) \in Nat
      BY <2>2, LenProperties
    <3>3. 1 \in 1..Len(<<front>>) + Len(Dropped(dq, m)) /\ 1 <= Len(<<front>>)
      BY <2>6, <3>2
    <3>4. r[1] = <<front>>[1]
      BY <3>1, <3>3
    <3>5. QED
      BY <2>6, <3>1, <3>2, <3>4
  <2>8. r # <<>>
    BY <2>7, EmptySeq
  <2>9. QED
    BY <2>3, <2>5, <2>7, <2>8 DEF r, m
<1>7. QED
  BY <1>4, <1>5, <1>6

-----------------------------------------------------------------------------
(* The inductive invariant: the state has its type, and size_ counts the   *)
(* bytes in the chunks.                                                    *)

BufferTypeOK ==
    /\ chunk_dq_ \in [Buffers -> Seq(Seq(Nat))]
    /\ size_ \in [Buffers -> Nat]
    /\ pushed \in Nat

BufferInv == BufferTypeOK /\ SizeIsTotal

\* What the invariant says of one buffer.
LEMMA BufferFacts ==
    ASSUME BufferInv, NEW b \in Buffers
    PROVE  /\ chunk_dq_[b] \in Seq(Seq(Nat)) /\ size_[b] \in Nat
           /\ size_[b] = Total(chunk_dq_[b]) /\ size_[b] = Len(Held(b)) /\ Held(b) \in Seq(Nat)
<1>1. chunk_dq_[b] \in Seq(Seq(Nat)) /\ size_[b] \in Nat /\ size_[b] = Total(chunk_dq_[b])
  BY DEF BufferInv, BufferTypeOK, SizeIsTotal
<1>2. QED
  BY <1>1, ContentType DEF Total, Held

\* Chunks put in the place of a buffer's that hold all but its first k bytes.
LEMMA Takes ==
    ASSUME BufferInv, NEW b \in Buffers, NEW k \in 0..size_[b], NEW dq \in Seq(Seq(Nat)),
           Content(dq) = Rest(Held(b), k),
           chunk_dq_' = [chunk_dq_ EXCEPT ![b] = dq],
           size_' = [size_ EXCEPT ![b] = @ - k],
           UNCHANGED pushed
    PROVE  BufferInv' /\ Queue!Next
<1>1. /\ chunk_dq_ \in [Buffers -> Seq(Seq(Nat))] /\ size_ \in [Buffers -> Nat] /\ pushed \in Nat
      /\ \A x \in Buffers : size_[x] = Total(chunk_dq_[x])
  BY DEF BufferInv, BufferTypeOK, SizeIsTotal
<1>2. Held(b) \in Seq(Nat) /\ Len(Held(b)) = size_[b]
  BY BufferFacts
<1>3. k \in Nat /\ k <= size_[b] /\ size_[b] - k \in Nat
  BY <1>1
<1>4. Total(dq) = size_[b] - k
  <2>1. Len(Rest(Held(b), k)) = Len(Held(b)) - k
    BY <1>2, <1>3, RestType
  <2>2. QED
    BY <1>2, <2>1 DEF Total
<1>5. chunk_dq_' \in [Buffers -> Seq(Seq(Nat))] /\ size_' \in [Buffers -> Nat] /\ pushed' \in Nat
  BY <1>1, <1>3
<1>6. ASSUME NEW x \in Buffers PROVE size_'[x] = Total(chunk_dq_'[x])
  BY <1>1, <1>4
<1>7. BufferInv'
  BY <1>5, <1>6 DEF BufferInv, BufferTypeOK, SizeIsTotal, Total
<1>8. [x \in Buffers |-> Held(x)]'
         = [[x \in Buffers |-> Held(x)] EXCEPT ![b] = SubSeq(@, k + 1, Len(@))]
  <2>1. ASSUME NEW x \in Buffers
        PROVE  Held(x)' = IF x = b THEN SubSeq(Held(b), k + 1, Len(Held(b))) ELSE Held(x)
    BY <1>1 DEF Held, Rest
  <2>2. QED
    BY <2>1
<1>9. Queue!Take(b, k) /\ k \in 0..Len([x \in Buffers |-> Held(x)][b])
  BY <1>2, <1>8 DEF Queue!Take
<1>10. QED
  BY <1>7, <1>9 DEF Queue!Next

\* push: the bytes stand behind the others.
LEMMA PushKeeps ==
    ASSUME BufferInv, NEW b \in Buffers, NEW n \in Nat, Push(b, n)
    PROVE  BufferInv' /\ Queue!Next
<1>1. /\ chunk_dq_ \in [Buffers -> Seq(Seq(Nat))] /\ size_ \in [Buffers -> Nat] /\ pushed \in Nat
      /\ \A x \in Buffers : size_[x] = Total(chunk_dq_[x])
  BY DEF BufferInv, BufferTypeOK, SizeIsTotal
<1>2. /\ chunk_dq_' = [chunk_dq_ EXCEPT ![b] = Append(@, Numbers(n))]
      /\ size_' = [size_ EXCEPT ![b] = @ + n] /\ pushed' = pushed + n
  BY DEF Push
<1> DEFINE c == Numbers(n)
           dq == chunk_dq_[b]
<1>3. c \in Seq(Nat) /\ Len(c) = n
  BY <1>1 DEF Numbers
<1> HIDE DEF c
<1>4. /\ dq \in Seq(Seq(Nat)) /\ Append(dq, c) \in Seq(Seq(Nat))
      /\ Content(Append(dq, c)) = Content(dq) \o c
      /\ Content(dq) \in Seq(Nat) /\ size_[b] = Len(Content(dq))
  <2>1. dq \in Seq(Seq(Nat)) /\ size_[b] = Len(Content(dq))
    BY <1>1 DEF Total
  <2> HIDE DEF dq
  <2>2. QED
    BY <1>3, <2>1, AppendProperties, ContentAppend, ContentType
<1>5. /\ Len(Content(dq) \o c) = Len(Content(dq)) + n /\ Len(Content(dq) \o c) >= Len(Content(dq))
      /\ SubSeq(Content(dq) \o c, 1, Len(Content(dq))) = Content(dq)
  BY <1>3, <1>4, FirstOfConcat
<1>6. Total(Append(dq, c)) = size_[b] + n
  BY <1>4, <1>5 DEF Total
<1>7. chunk_dq_' = [chunk_dq_ EXCEPT ![b] = Append(dq, c)]
  BY <1>2 DEF c
<1>8. chunk_dq_' \in [Buffers -> Seq(Seq(Nat))] /\ size_' \in [Buffers -> Nat] /\ pushed' \in Nat
  BY <1>1, <1>2, <1>4, <1>7
<1>9. ASSUME NEW x \in Buffers PROVE size_'[x] = Total(chunk_dq_'[x])
  BY <1>1, <1>2, <1>6, <1>7
<1>10. BufferInv'
  BY <1>8, <1>9 DEF BufferInv, BufferTypeOK, SizeIsTotal, Total
<1>11. Held(b) = Content(dq) /\ Held(b)' = Content(dq) \o c
  BY <1>1, <1>4, <1>7 DEF Held
<1>12. \A x \in Buffers \ {b} : Held(x)' = Held(x)
  BY <1>1, <1>7 DEF Held
<1>13. Queue!Add(b)
  <2>1. Len(Held(b)') >= Len(Held(b)) /\ SubSeq(Held(b)', 1, Len(Held(b))) = Held(b)
    BY <1>5, <1>11
  <2>2. QED
    BY <1>12, <2>1 DEF Queue!Add
<1>14. QED
  BY <1>10, <1>13 DEF Queue!Next

\* pop: the bytes of the top chunk are taken.
LEMMA PopKeeps ==
    ASSUME BufferInv, NEW b \in Buffers, Pop(b)
    PROVE  BufferInv' /\ Queue!Next
<1> DEFINE dq == chunk_dq_[b]
<1>1. /\ dq \in Seq(Seq(Nat)) /\ size_[b] = Total(dq) /\ Held(b) = Content(dq) /\ dq # <<>>
      /\ chunk_dq_' = [chunk_dq_ EXCEPT ![b] = Tail(dq)]
      /\ size_' = [size_ EXCEPT ![b] = @ - Len(dq[1])] /\ pushed' = pushed
  BY BufferFacts DEF Pop, Held
<1> HIDE DEF dq
<1>2. /\ Tail(dq) \in Seq(Seq(Nat)) /\ Content(Tail(dq)) = Rest(Held(b), Len(dq[1]))
      /\ Len(dq[1]) \in Nat /\ Total(dq) = Len(dq[1]) + Total(Tail(dq)) /\ Total(Tail(dq)) \in Nat
  BY <1>1, TopChunk
<1>3. Len(dq[1]) \in 0..size_[b]
  BY <1>1, <1>2
<1>4. QED
  BY <1>1, <1>2, <1>3, Takes

\* merge_prefix: no byte is taken.
LEMMA MergedTakesNone ==
    ASSUME BufferInv, NEW b \in Buffers, NEW n \in Nat,
           chunk_dq_' = [chunk_dq_ EXCEPT ![b] = Merged(@, size_[b], n)],
           UNCHANGED <<size_, pushed>>
    PROVE  BufferInv' /\ Queue!Next
<1> DEFINE dq == chunk_dq_[b]
           r == Merged(dq, Total(dq), n)
<1>1. /\ dq \in Seq(Seq(Nat)) /\ size_[b] = Total(dq) /\ Held(b) = Content(dq) /\ size_[b] \in Nat
      /\ chunk_dq_' = [chunk_dq_ EXCEPT ![b] = r]
      /\ Held(b) \in Seq(Nat) /\ size_ \in [Buffers -> Nat]
  BY BufferFacts DEF Held, BufferInv, BufferTypeOK
<1> HIDE DEF dq
<1>2. r \in Seq(Seq(Nat)) /\ Content(r) = Content(dq)
  BY <1>1, MergedKeeps
<1> HIDE DEF r
<1>3. Content(r) = Rest(Held(b), 0)
  BY <1>1, <1>2, RestOfAll
<1>4. size_' = [size_ EXCEPT ![b] = @ - 0]
  BY <1>1
<1>5. 0 \in 0..size_[b]
  BY <1>1
<1>6. QED
  BY <1>1, <1>2, <1>3, <1>4, <1>5, Takes

\* merge_prefix, where it is called.
LEMMA MergePrefixKeeps ==
    ASSUME BufferInv, NEW b \in Buffers, NEW n \in Nat, MergePrefix(b, n)
    PROVE  BufferInv' /\ Queue!Next
BY MergedTakesNone DEF MergePrefix

\* What double_prefix merges is a number of bytes.
LEMMA DoublePrefixKeeps ==
    ASSUME BufferInv, NEW b \in Buffers, DoublePrefix(b)
    PROVE  BufferInv' /\ Queue!Next
<1>1. chunk_dq_[b] \in Seq(Seq(Nat)) /\ 1 \in 1..Len(chunk_dq_[b]) /\ 2 \in 1..Len(chunk_dq_[b])
  BY BufferFacts, LenProperties DEF DoublePrefix
<1>2. chunk_dq_[b][1] \in Seq(Nat) /\ chunk_dq_[b][2] \in Seq(Nat)
  BY <1>1, LenProperties
<1>3. Len(chunk_dq_[b][1]) \in Nat /\ Len(chunk_dq_[b][2]) \in Nat
  BY <1>2, LenProperties
<1>4. Doubled(chunk_dq_[b]) \in Nat
  <2>1. \A i, j \in Nat : Larger(2 * i, i + j) \in Nat
    BY DEF Larger
  <2>2. QED
    BY <1>3, <2>1 DEF Doubled
<1>5. /\ chunk_dq_' = [chunk_dq_ EXCEPT ![b] = Merged(@, size_[b], Doubled(chunk_dq_[b]))]
      /\ UNCHANGED <<size_, pushed>>
  BY DEF DoublePrefix
<1>6. QED
  BY <1>4, <1>5, MergedTakesNone

\* remove_prefix: as many bytes are taken as there are, n at most.
LEMMA RemovePrefixKeeps ==
    ASSUME BufferInv, NEW b \in Buffers, NEW n \in Nat, RemovePrefix(b, n)
    PROVE  BufferInv' /\ Queue!Next
<1> DEFINE dq == chunk_dq_[b]
           k == Smaller(n, Total(dq))
<1>1. /\ dq \in Seq(Seq(Nat)) /\ size_[b] = Total(dq) /\ Held(b) = Content(dq) /\ size_[b] \in Nat
      /\ Held(b) \in Seq(Nat) /\ Len(Held(b)) = size_[b]
      /\ chunk_dq_' = [chunk_dq_ EXCEPT ![b] = Dropped(dq, n)]
      /\ size_' = [size_ EXCEPT ![b] = @ - k] /\ pushed' = pushed
  BY BufferFacts DEF Held, RemovePrefix
<1>2. k = IF n < size_[b] THEN n ELSE size_[b]
  BY <1>1 DEF Smaller
<1> HIDE DEF dq, k
<1>3. k \in 0..size_[b]
  BY <1>1, <1>2
<1>4. Dropped(dq, n) \in Seq(Seq(Nat)) /\ Content(Dropped(dq, n)) = Rest(Held(b), n)
  BY <1>1, DroppedKeeps
<1>5. Rest(Held(b), n) = Rest(Held(b), k)
  <2>1. CASE n < size_[b]
    BY <1>2, <2>1
  <2>2. CASE ~(n < size_[b])
    <3>1. n >= Len(Held(b)) /\ k >= Len(Held(b)) /\ k \in Nat
      BY <1>1, <1>2, <2>2
    <3>2. QED
      BY <1>1, <3>1, RestOfAll
  <2>3. QED
    BY <2>1, <2>2
<1>6. QED
  BY <1>1, <1>3, <1>4, <1>5, Takes

\* consume: the top chunk that merge_prefix leaves is taken, just the bytes asked for.
LEMMA ConsumeKeeps ==
    ASSUME BufferInv, NEW b \in Buffers, NEW loc \in Nat, Consume(b, loc)
    PROVE  /\ BufferInv' /\ Queue!Next
           /\ Content(chunk_dq_'[b]) = Rest(Held(b), loc)
<1> DEFINE dq == chunk_dq_[b]
           r == Merged(dq, Total(dq), loc)
<1>1. /\ dq \in Seq(Seq(Nat)) /\ size_[b] = Total(dq) /\ Held(b) = Content(dq) /\ size_[b] \in Nat
      /\ loc \in 1..size_[b]
      /\ chunk_dq_' = [chunk_dq_ EXCEPT ![b] = Tail(r)]
      /\ size_' = [size_ EXCEPT ![b] = @ - Len(r[1])] /\ pushed' = pushed
  BY BufferFacts DEF Held, Consume
<1>2. chunk_dq_ \in [Buffers -> Seq(Seq(Nat))]
  BY DEF BufferInv, BufferTypeOK
<1>3. Smaller(loc, Total(dq)) = loc /\ loc # 0
  BY <1>1 DEF Smaller
<1> HIDE DEF dq
<1>4. r \in Seq(Seq(Nat)) /\ r # <<>> /\ Content(r) = Content(dq) /\ Len(r[1]) = loc
  BY <1>1, <1>3, MergedKeeps
<1> HIDE DEF r
<1>5. Tail(r) \in Seq(Seq(Nat)) /\ Rest(Content(r), Len(r[1])) = Content(Tail(r))
  BY <1>4, TopChunk
<1>6. loc \in 0..size_[b] /\ Content(Tail(r)) = Rest(Held(b), loc)
  BY <1>1, <1>4, <1>5
<1>7. size_' = [size_ EXCEPT ![b] = @ - loc]
  BY <1>1, <1>4
<1>8. BufferInv' /\ Queue!Next
  BY <1>1, <1>5, <1>6, <1>7, Takes
<1>9. chunk_dq_'[b] = Tail(r)
  BY <1>1, <1>2
<1>10. QED
  BY <1>6, <1>8, <1>9

\* clear: all bytes are taken.
LEMMA ClearKeeps ==
    ASSUME BufferInv, NEW b \in Buffers, Clear(b)
    PROVE  BufferInv' /\ Queue!Next
<1>1. /\ size_[b] \in Nat /\ Held(b) \in Seq(Nat) /\ Len(Held(b)) = size_[b]
      /\ chunk_dq_' = [chunk_dq_ EXCEPT ![b] = <<>>]
      /\ size_' = [size_ EXCEPT ![b] = 0] /\ pushed' = pushed
  BY BufferFacts DEF Clear
<1>2. <<>> \in Seq(Seq(Nat))
  BY EmptySeq
<1>3. Content(<<>>) = Rest(Held(b), size_[b])
  <2>1. Content(<<>>) = <<>>
    BY <1>2, ContentType
  <2>2. size_[b] >= Len(Held(b))
    BY <1>1
  <2>3. Rest(Held(b), size_[b]) = <<>>
    BY <1>1, <2>2, RestOfAll
  <2>4. QED
    BY <2>1, <2>3
<1>4. size_' = [size_ EXCEPT ![b] = @ - size_[b]] /\ size_[b] \in 0..size_[b]
  <2>1. size_[b] - size_[b] = 0 /\ size_[b] \in 0..size_[b]
    BY <1>1
  <2>2. QED
    BY <1>1, <2>1
<1>5. QED
  BY <1>1, <1>2, <1>3, <1>4, Takes

\* Where merge stops: behind chunks that hold all bytes.
LEMMA MergeStops ==
    ASSUME NEW D, NEW dq \in Seq(Seq(D))
    PROVE  \E k \in 0..Len(dq) : /\ Total(SubSeq(dq, 1, k)) = Total(dq)
                                 /\ \A j \in 0..(k - 1) : Total(SubSeq(dq, 1, j)) < Total(dq)
<1> DEFINE S == {k \in 0..Len(dq) : Total(First(dq, k)) = Total(dq)}
<1>1. Len(dq) \in Nat
  BY LenProperties
<1>2. Len(dq) \in S
  <2>1. First(dq, Len(dq)) = dq
    BY SubSeqFull DEF First
  <2>2. QED
    BY <1>1, <2>1
<1>3. PICK k \in S : \A j \in S : k <= j
  <2>1. S \subseteq Nat /\ S # {}
    BY <1>2
  <2> HIDE DEF S
  <2>2. QED
    BY <2>1, LeastNumber
<1>4. ASSUME NEW j \in 0..(k - 1) PROVE Total(First(dq, j)) < Total(dq)
  <2>1. j \in 0..Len(dq) /\ ~(k <= j)
    BY <1>1, <1>3, <1>4
  <2>2. /\ Total(dq) = Total(First(dq, j)) + Total(Rest(dq, j))
        /\ Total(First(dq, j)) \in Nat /\ Total(Rest(dq, j)) \in Nat
    BY <2>1, SplitContent
  <2>3. Total(First(dq, j)) # Total(dq)
    BY <1>3, <2>1
  <2>4. QED
    BY <2>2, <2>3
<1>5. k \in 0..Len(dq) /\ Total(First(dq, k)) = Total(dq)
  BY <1>3
<1>6. QED
  BY <1>4, <1>5 DEF First

\* merge: all bytes of the other stand behind, in their order; what stays there are
\* empty chunks.
LEMMA MergeKeeps ==
    ASSUME BufferInv, NEW to \in Buffers, NEW from \in Buffers, Merge(to, from)
    PROVE  BufferInv' /\ Queue!Next
<1> DEFINE dq == chunk_dq_[from]
           dt == chunk_dq_[to]
           n == CHOOSE k \in 0..Len(dq) : /\ Total(SubSeq(dq, 1, k)) = size_[from]
                                          /\ \A j \in 0..(k - 1) : Total(SubSeq(dq, 1, j)) < size_[from]
<1>1. /\ dq \in Seq(Seq(Nat)) /\ size_[from] = Total(dq) /\ Held(from) = Content(dq)
      /\ dt \in Seq(Seq(Nat)) /\ size_[to] = Total(dt) /\ Held(to) = Content(dt)
      /\ size_[from] \in Nat /\ size_[to] \in Nat
  BY BufferFacts DEF Held
<1>2. /\ chunk_dq_ \in [Buffers -> Seq(Seq(Nat))] /\ size_ \in [Buffers -> Nat] /\ pushed \in Nat
      /\ \A x \in Buffers : size_[x] = Total(chunk_dq_[x])
  BY DEF BufferInv, BufferTypeOK, SizeIsTotal
<1>3. n \in 0..Len(dq) /\ Total(First(dq, n)) = Total(dq)
  <2>1. \E k \in 0..Len(dq) : /\ Total(SubSeq(dq, 1, k)) = size_[from]
                              /\ \A j \in 0..(k - 1) : Total(SubSeq(dq, 1, j)) < size_[from]
    BY <1>1, MergeStops
  <2>2. n \in 0..Len(dq) /\ Total(SubSeq(dq, 1, n)) = size_[from]
    BY <2>1
  <2>3. QED
    BY <1>1, <2>2 DEF First
<1>4. /\ to # from /\ pushed' = pushed
      /\ size_' = [size_ EXCEPT ![to] = @ + size_[from], ![from] = 0]
  BY DEF Merge
<1>5. chunk_dq_' = [chunk_dq_ EXCEPT ![to] = dt \o First(dq, n), ![from] = Rest(dq, n)]
  BY <1>2, <1>4 DEF Merge, First, Rest
<1> HIDE DEF n, dq, dt
<1>6. /\ First(dq, n) \in Seq(Seq(Nat)) /\ Rest(dq, n) \in Seq(Seq(Nat))
      /\ Content(dq) = Content(First(dq, n)) \o Content(Rest(dq, n))
      /\ Total(dq) = Total(First(dq, n)) + Total(Rest(dq, n))
      /\ Total(First(dq, n)) \in Nat /\ Total(Rest(dq, n)) \in Nat
      /\ Content(First(dq, n)) \in Seq(Nat) /\ Content(Rest(dq, n)) \in Seq(Nat)
  BY <1>1, <1>3, SplitContent
<1>7. Total(Rest(dq, n)) = 0
  BY <1>3, <1>6
<1>8. Content(Rest(dq, n)) = <<>>
  BY <1>6, <1>7, EmptySeq DEF Total
<1>9. Content(First(dq, n)) = Content(dq)
  BY <1>6, <1>8, ConcatEmptySeq
<1>10. dt \o First(dq, n) \in Seq(Seq(Nat)) /\ Content(dt \o First(dq, n)) = Content(dt) \o Content(dq)
  <2>1. /\ dt \o First(dq, n) \in Seq(Seq(Nat))
        /\ Content(dt \o First(dq, n)) = Content(dt) \o Content(First(dq, n))
    BY <1>1, <1>6, ContentConcat
  <2>2. QED
    BY <1>9, <2>1
<1>11. Total(dt \o First(dq, n)) = size_[to] + size_[from]
  <2>1. Content(dt) \in Seq(Nat) /\ Content(dq) \in Seq(Nat)
    BY <1>1, ContentType
  <2>2. Len(Content(dt) \o Content(dq)) = Len(Content(dt)) + Len(Content(dq))
    BY <2>1, ConcatProperties
  <2>3. QED
    BY <1>1, <1>10, <2>2 DEF Total
<1>12. chunk_dq_' \in [Buffers -> Seq(Seq(Nat))] /\ size_' \in [Buffers -> Nat] /\ pushed' \in Nat
  <2>1. chunk_dq_' \in [Buffers -> Seq(Seq(Nat))]
    BY <1>2, <1>5, <1>6, <1>10
  <2>2. size_' \in [Buffers -> Nat]
    <3>1. size_[to] + size_[from] \in Nat
      BY <1>1
    <3>2. QED
      BY <1>2, <1>4, <3>1
  <2>3. QED
    BY <1>2, <1>4, <2>1, <2>2
<1>13. ASSUME NEW x \in Buffers PROVE size_'[x] = Total(chunk_dq_'[x])
  <2>1. CASE x = from
    BY <1>2, <1>4, <1>5, <1>7, <2>1
  <2>2. CASE x = to
    BY <1>2, <1>4, <1>5, <1>11, <2>2
  <2>3. CASE x # from /\ x # to
    BY <1>2, <1>4, <1>5, <2>3
  <2>4. QED
    BY <2>1, <2>2, <2>3
<1>14. BufferInv'
  BY <1>12, <1>13 DEF BufferInv, BufferTypeOK, SizeIsTotal, Total
<1>15. [x \in Buffers |-> Held(x)]'
         = [[x \in Buffers |-> Held(x)] EXCEPT ![to] = @ \o [x \in Buffers |-> Held(x)][from], ![from] = <<>>]
  <2>1. Held(from)' = <<>>
    BY <1>2, <1>5, <1>8 DEF Held
  <2>2. Held(to)' = Held(to) \o Held(from)
    BY <1>1, <1>2, <1>4, <1>5, <1>10 DEF Held
  <2>3. \A x \in Buffers : x # from /\ x # to => Held(x)' = Held(x)
    BY <1>2, <1>5 DEF Held
  <2>4. QED
    BY <1>4, <2>1, <2>2, <2>3
<1>16. Queue!Move(to, from)
  BY <1>15 DEF Queue!Move
<1>17. QED
  BY <1>14, <1>16 DEF Queue!Next
-----------------------------------------------------------------------------
\* Empty buffers are empty queues.
LEMMA BufferStarts ==
    ASSUME BufferInit
    PROVE  BufferInv /\ Queue!Init
<1>1. chunk_dq_ = [b \in Buffers |-> <<>>] /\ size_ = [b \in Buffers |-> 0] /\ pushed = 0
  BY DEF BufferInit
<1>2. <<>> \in Seq(Seq(Nat)) /\ Len(<<>>) = 0
  BY EmptySeq
<1>3. Content(<<>>) = <<>>
  BY <1>2, ContentType
<1>4. BufferTypeOK
  BY <1>1, <1>2 DEF BufferTypeOK
<1>5. SizeIsTotal
  BY <1>1, <1>2, <1>3 DEF SizeIsTotal, Total
<1>6. Queue!Init
  BY <1>1, <1>3 DEF Queue!Init, Held
<1>7. QED
  BY <1>4, <1>5, <1>6 DEF BufferInv

\* Every operation keeps the invariant and is a step of the byte queue.
LEMMA BufferSteps ==
    ASSUME BufferInv, [BufferNext]_bufferVars
    PROVE  BufferInv' /\ [Queue!Next]_[b \in Buffers |-> Held(b)]
<1>1. CASE UNCHANGED bufferVars
  <2>1. chunk_dq_' = chunk_dq_ /\ size_' = size_ /\ pushed' = pushed
    BY <1>1 DEF bufferVars
  <2>2. BufferInv'
    BY <2>1 DEF BufferInv, BufferTypeOK, SizeIsTotal, Total
  <2>3. [b \in Buffers |-> Held(b)]' = [b \in Buffers |-> Held(b)]
    BY <2>1 DEF Held
  <2>4. QED
    BY <2>2, <2>3
<1>2. CASE BufferNext
  <2>1. 0..MaxBytes \subseteq Nat
    BY BufferAssumption
  <2>2. ASSUME NEW b \in Buffers, NEW n \in 0..MaxBytes,
               Push(b, n) \/ MergePrefix(b, n) \/ RemovePrefix(b, n) \/ Consume(b, n)
        PROVE  BufferInv' /\ Queue!Next
    BY <2>1, <2>2, PushKeeps, MergePrefixKeeps, RemovePrefixKeeps, ConsumeKeeps
  <2>3. ASSUME NEW b \in Buffers, Pop(b) \/ DoublePrefix(b) \/ Clear(b)
        PROVE  BufferInv' /\ Queue!Next
    BY <2>3, PopKeeps, DoublePrefixKeeps, ClearKeeps
  <2>4. ASSUME NEW to \in Buffers, NEW from \in Buffers, Merge(to, from)
        PROVE  BufferInv' /\ Queue!Next
    BY <2>4, MergeKeeps
  <2>5. QED
    BY <1>2, <2>2, <2>3, <2>4 DEF BufferNext
<1>3. QED
  BY <1>1, <1>2

\* The invariant holds in every reachable state, whatever Buffers there are and
\* however many bytes and chunks the bounds allow.
THEOREM BufferInvariant == BufferSpec => []BufferInv
<1>1. BufferInit => BufferInv
  BY BufferStarts
<1>2. BufferInv /\ [BufferNext]_bufferVars => BufferInv'
  BY BufferSteps
<1>3. QED
  BY <1>1, <1>2, PTL DEF BufferSpec

\* size_ is the number of bytes in the chunks, on which the loops of merge_prefix
\* and merge count.
THEOREM SizeIsTotalHolds == BufferSpec => []SizeIsTotal
<1>1. BufferInv => SizeIsTotal
  BY DEF BufferInv
<1>2. QED
  BY <1>1, BufferInvariant, PTL

\* merge_prefix(n) changes no byte and leaves the first n, or all, in the top chunk;
\* double_prefix makes it longer where no chunk is empty.
THEOREM MergeMakesPrefixHolds == BufferSpec => []MergeMakesPrefix
<1>1. ASSUME BufferInv PROVE MergeMakesPrefix
  <2>1. ASSUME NEW b \in Buffers, NEW n \in 1..MaxBytes
        PROVE  /\ Content(Merged(chunk_dq_[b], size_[b], n)) = Held(b)
               /\ Len(Merged(chunk_dq_[b], size_[b], n)[1]) = Smaller(n, Len(Held(b)))
    <3>1. chunk_dq_[b] \in Seq(Seq(Nat)) /\ size_[b] = Total(chunk_dq_[b]) /\ Len(Held(b)) = Total(chunk_dq_[b])
      BY <1>1, BufferFacts
    <3>2. n \in Nat /\ n # 0
      BY BufferAssumption
    <3>3. /\ Content(Merged(chunk_dq_[b], Total(chunk_dq_[b]), n)) = Content(chunk_dq_[b])
          /\ Len(Merged(chunk_dq_[b], Total(chunk_dq_[b]), n)[1]) = Smaller(n, Total(chunk_dq_[b]))
      BY <3>1, <3>2, MergedKeeps
    <3>4. QED
      BY <3>1, <3>3 DEF Held
  <2>2. ASSUME NEW b \in Buffers, Len(chunk_dq_[b]) > 1, <<>> \notin Range(chunk_dq_[b])
        PROVE  Len(Merged(chunk_dq_[b], size_[b], Doubled(chunk_dq_[b]))[1]) > Len(chunk_dq_[b][1])
    <3> DEFINE dq == chunk_dq_[b]
               d == Doubled(dq)
               t == Tail(dq)
    <3>1. dq \in Seq(Seq(Nat)) /\ size_[b] = Total(dq) /\ Len(dq) \in Nat /\ Len(dq) > 1
      BY <1>1, <2>2, BufferFacts, LenProperties
    <3>2. <<>> \notin Range(dq)
      BY <2>2
    <3> HIDE DEF dq
    <3>3. dq # <<>> /\ 1 \in DOMAIN dq /\ 2 \in DOMAIN dq /\ dq[1] \in Seq(Nat) /\ dq[2] \in Seq(Nat)
      BY <3>1, EmptySeq, LenProperties
    <3>4. dq[1] # <<>> /\ dq[2] # <<>>
      BY <3>2, <3>3 DEF Range
    <3>5. Len(dq[1]) \in Nat \ {0} /\ Len(dq[2]) \in Nat \ {0}
      BY <3>3, <3>4, EmptySeq, LenProperties
    <3>6. d \in Nat /\ d > Len(dq[1])
      <4>1. \A i, j \in Nat \ {0} : Larger(2 * i, i + j) \in Nat /\ Larger(2 * i, i + j) > i
        BY DEF Larger
      <4>2. QED
        BY <3>5, <4>1 DEF Doubled
    <3>7. t \in Seq(Seq(Nat)) /\ Total(dq) = Len(dq[1]) + Total(t)
      BY <3>1, <3>3, TopChunk
    <3>8. t # <<>> /\ t[1] = dq[2]
      <4>1. Len(t) = Len(dq) - 1 /\ \A i \in 1..Len(t) : t[i] = dq[i + 1]
        BY <3>1, <3>3, HeadTailProperties
      <4>2. 1 \in 1..Len(t) /\ 1 + 1 = 2
        BY <3>1, <4>1
      <4>3. QED
        BY <4>1, <4>2, EmptySeq, SMTT(30)
    <3> HIDE DEF t, d
    <3>9. Total(t) = Len(dq[2]) + Total(Tail(t)) /\ Total(Tail(t)) \in Nat
      BY <3>7, <3>8, TopChunk
    <3>10. Total(dq) > Len(dq[1]) /\ Total(dq) \in Nat
      BY <3>5, <3>7, <3>9
    <3>11. d # 0 /\ Smaller(d, Total(dq)) > Len(dq[1])
      BY <3>5, <3>6, <3>10 DEF Smaller
    <3>12. Len(Merged(dq, Total(dq), d)[1]) = Smaller(d, Total(dq))
      BY <3>1, <3>6, <3>11, MergedKeeps
    <3>13. Len(Merged(dq, size_[b], d)[1]) > Len(dq[1])
      BY <3>1, <3>11, <3>12
    <3>14. QED
      BY <3>13 DEF d, dq
  <2>3. QED
    BY <2>1, <2>2 DEF MergeMakesPrefix
<1>2. QED
  BY <1>1, BufferInvariant, PTL

\* consume hands out exactly the bytes that were asked for, and leaves all others.
THEOREM ConsumeIsExactHolds == BufferSpec => ConsumeIsExact
<1>1. ASSUME BufferInv, [BufferNext]_bufferVars,
             NEW b \in Buffers, NEW loc \in 1..MaxBytes, Consume(b, loc)
      PROVE  Content(chunk_dq_'[b]) = SubSeq(Held(b), loc + 1, Len(Held(b)))
  <2>1. loc \in Nat
    BY BufferAssumption
  <2>2. QED
    BY <1>1, <2>1, ConsumeKeeps DEF Rest
<1>2. BufferInv /\ [BufferNext]_bufferVars
        => [\A b \in Buffers, loc \in 1..MaxBytes :
              Consume(b, loc) => Content(chunk_dq_'[b]) = SubSeq(Held(b), loc + 1, Len(Held(b)))]_bufferVars
  BY <1>1
<1>3. QED
  BY <1>2, BufferInvariant, PTL DEF BufferSpec, ConsumeIsExact

\* A Buffer is a queue of bytes: what push appends is taken in front, in its order,
\* whatever the operations do to the chunks.
THEOREM ImplementsByteQueueHolds == BufferSpec => ImplementsByteQueue
<1>1. BufferInit => Queue!Init
  BY BufferStarts
<1>2. BufferInv /\ [BufferNext]_bufferVars => [Queue!Next]_[b \in Buffers |-> Held(b)]
  BY BufferSteps
<1>3. QED
  BY <1>1, <1>2, BufferInvariant, PTL DEF BufferSpec, ImplementsByteQueue, Queue!Spec
=============================================================================
