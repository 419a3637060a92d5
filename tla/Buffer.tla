------------------------------- MODULE Buffer -------------------------------
(***************************************************************************)
(* lib/buffer.cc: the chunked byte queue in which IOStream keeps what it   *)
(* has read and what it has to write, and GZip its output.  A chunk is the *)
(* sequence of its bytes; bytes are numbered in the order of their push.   *)
(***************************************************************************)
EXTENDS Naturals, Sequences, SequencesExt

CONSTANTS Buffers,   \* the Buffer objects
          MaxBytes,  \* bound: bytes pushed in all
          MaxChunks  \* bound: chunks of a buffer before it gets another

ASSUME BufferAssumption == MaxBytes \in Nat /\ MaxChunks \in Nat

VARIABLES chunk_dq_,  \* chunk_dq_[b], a sequence of chunks
          size_,      \* size_[b]
          pushed      \* history: number of the last byte pushed

bufferVars == <<chunk_dq_, size_, pushed>>

BufferInit ==
    /\ chunk_dq_ = [b \in Buffers |-> <<>>]
    /\ size_ = [b \in Buffers |-> 0]
    /\ pushed = 0
-----------------------------------------------------------------------------
(* The deque as a value.                                                   *)

Content(dq) == FlattenSeq(dq)
Total(dq)   == Len(Content(dq))
Smaller(m, n) == IF m < n THEN m ELSE n
Larger(m, n)  == IF m < n THEN n ELSE m

\* mutant: the rest of a chunk that was cut is not put back
DroppedWhole(dq, n) ==
    LET cut == {k \in 1..Len(dq) : Total(SubSeq(dq, 1, k)) >= n}
        k   == CHOOSE i \in cut : \A j \in cut : i <= j
    IN  IF n = 0 THEN dq
        ELSE IF cut = {} THEN <<>>
        ELSE SubSeq(dq, k + 1, Len(dq))

\* The chunks that are left when the first n bytes are taken: the chunk in which
\* the n-th byte lies is cut, the ones behind it stay, empty ones too.
Dropped(dq, n) ==
    LET cut == {k \in 1..Len(dq) : Total(SubSeq(dq, 1, k)) >= n}
        k   == CHOOSE i \in cut : \A j \in cut : i <= j
        over == Total(SubSeq(dq, 1, k)) - n
    IN  IF n = 0 THEN dq
        ELSE IF cut = {} THEN <<>>
        ELSE IF over = 0 THEN SubSeq(dq, k + 1, Len(dq))
        ELSE <<SubSeq(dq[k], Len(dq[k]) - over + 1, Len(dq[k]))>> \o SubSeq(dq, k + 1, Len(dq))

\* mutant: a first chunk that is too long is left alone
MergedUnsplit(dq, size, n) ==
    LET m == Smaller(n, size)
    IN  IF dq = <<>> THEN << <<>> >>
        ELSE IF n = 0 \/ Len(dq) = 1 \/ Len(dq[1]) >= n THEN dq
        ELSE <<SubSeq(Content(dq), 1, m)>> \o Dropped(dq, m)

\* merge_prefix, of a buffer whose size_ is size
Merged(dq, size, n) ==
    LET m == Smaller(n, size)
        kept == \/ n = 0
                \/ Len(dq) = 1 /\ Len(dq[1]) <= n
                \/ Len(dq[1]) = n
    IN  IF dq = <<>> THEN << <<>> >>
        ELSE IF kept THEN dq
        ELSE <<SubSeq(Content(dq), 1, m)>> \o Dropped(dq, m)
-----------------------------------------------------------------------------
Numbers(n) == [i \in 1..n |-> pushed + i]

Push(b, n) ==
    /\ pushed + n <= MaxBytes /\ Len(chunk_dq_[b]) < MaxChunks
    /\ size_' = [size_ EXCEPT ![b] = @ + n]
    /\ chunk_dq_' = [chunk_dq_ EXCEPT ![b] = Append(@, Numbers(n))]
    /\ pushed' = pushed + n

\* mutant: the chunk is taken from the wrong end
PopLast(b) ==
    /\ chunk_dq_[b] # <<>>
    /\ chunk_dq_' = [chunk_dq_ EXCEPT ![b] = Front(@)]
    /\ size_' = [size_ EXCEPT ![b] = @ - Len(Last(chunk_dq_[b]))]
    /\ UNCHANGED pushed

\* callers of pop and top have a chunk to take
Pop(b) ==
    /\ chunk_dq_[b] # <<>>
    /\ chunk_dq_' = [chunk_dq_ EXCEPT ![b] = Tail(@)]
    /\ size_' = [size_ EXCEPT ![b] = @ - Len(chunk_dq_[b][1])]
    /\ UNCHANGED pushed

MergePrefix(b, n) ==
    /\ Len(chunk_dq_[b]) < MaxChunks
    /\ chunk_dq_' = [chunk_dq_ EXCEPT ![b] = Merged(@, size_[b], n)]
    /\ UNCHANGED <<size_, pushed>>

Doubled(dq) == Larger(2 * Len(dq[1]), Len(dq[1]) + Len(dq[2]))

DoublePrefix(b) ==
    /\ Len(chunk_dq_[b]) \in 2..(MaxChunks - 1)
    /\ chunk_dq_' = [chunk_dq_ EXCEPT ![b] = Merged(@, size_[b], Doubled(@))]
    /\ UNCHANGED <<size_, pushed>>

\* mutant: size_ loses what was asked for, not what was there
RemovePrefixAsked(b, n) ==
    /\ chunk_dq_' = [chunk_dq_ EXCEPT ![b] = Dropped(@, n)]
    /\ size_' = [size_ EXCEPT ![b] = @ - n]
    /\ UNCHANGED pushed

RemovePrefix(b, n) ==
    /\ chunk_dq_' = [chunk_dq_ EXCEPT ![b] = Dropped(@, n)]
    /\ size_' = [size_ EXCEPT ![b] = @ - Smaller(n, Total(chunk_dq_[b]))]
    /\ UNCHANGED pushed

\* IOStream::consume, of bytes that the buffer has
Consume(b, loc) ==
    /\ loc \in 1..size_[b]
    /\ LET merged == Merged(chunk_dq_[b], size_[b], loc)
       IN  /\ chunk_dq_' = [chunk_dq_ EXCEPT ![b] = Tail(merged)]
           /\ size_' = [size_ EXCEPT ![b] = @ - Len(merged[1])]
    /\ UNCHANGED pushed

\* merge stops when the size of the other is 0, which can leave empty chunks there
Merge(to, from) ==
    /\ to # from
    /\ LET n == CHOOSE k \in 0..Len(chunk_dq_[from]) :
                   /\ Total(SubSeq(chunk_dq_[from], 1, k)) = size_[from]
                   /\ \A j \in 0..(k - 1) :
                         Total(SubSeq(chunk_dq_[from], 1, j)) < size_[from]
       IN  /\ Len(chunk_dq_[to]) + n <= MaxChunks
           /\ chunk_dq_' = [chunk_dq_ EXCEPT
                  ![to]   = @ \o SubSeq(chunk_dq_[from], 1, n),
                  ![from] = SubSeq(@, n + 1, Len(@))]
    /\ size_' = [size_ EXCEPT ![to] = @ + size_[from], ![from] = 0]
    /\ UNCHANGED pushed

Clear(b) ==
    /\ chunk_dq_' = [chunk_dq_ EXCEPT ![b] = <<>>]
    /\ size_' = [size_ EXCEPT ![b] = 0]
    /\ UNCHANGED pushed

BufferNext ==
    \/ \E b \in Buffers, n \in 0..MaxBytes :
          Push(b, n) \/ MergePrefix(b, n) \/ RemovePrefix(b, n) \/ Consume(b, n)
    \/ \E b \in Buffers : Pop(b) \/ DoublePrefix(b) \/ Clear(b)
    \/ \E to, from \in Buffers : Merge(to, from)

BufferSpec == BufferInit /\ [][BufferNext]_bufferVars
-----------------------------------------------------------------------------
(* Correctness.                                                            *)

Held(b) == Content(chunk_dq_[b])

\* size_ is the number of bytes in the chunks, whatever was merged, cut, or
\* removed beyond the end; the loops of merge_prefix and merge count on it.
SizeIsTotal == \A b \in Buffers : size_[b] = Total(chunk_dq_[b])

\* merge_prefix(n) changes no byte and leaves the first n of them, or all, in
\* the top chunk, with empty chunks anywhere; so BufferIO::get_value, which merges
\* size() bytes and returns the top chunk, returns all there is.  And double_prefix
\* makes the top chunk longer unless it is the only one, so that a search comes to
\* see the whole buffer: without empty chunks, as in IOStream's buffers; with one
\* behind the top chunk it can change nothing.
MergeMakesPrefix ==
    \A b \in Buffers :
       LET dq == chunk_dq_[b]
           merged(n) == Merged(dq, size_[b], n)
       IN  /\ \A n \in 1..MaxBytes :
                 /\ Content(merged(n)) = Held(b)
                 /\ Len(merged(n)[1]) = Smaller(n, Len(Held(b)))
           /\ Len(dq) > 1 /\ <<>> \notin Range(dq) => Len(merged(Doubled(dq))[1]) > Len(dq[1])

\* IOStream::consume hands out exactly the bytes it was asked for: a read of n
\* bytes or up to a delimiter neither takes bytes of the next one nor leaves any.
ConsumeIsExact ==
    [][\A b \in Buffers, loc \in 1..MaxBytes :
          Consume(b, loc) => Content(chunk_dq_'[b]) = SubSeq(Held(b), loc + 1, Len(Held(b)))]_bufferVars

Queue == INSTANCE ByteQueue WITH bytes <- [b \in Buffers |-> Held(b)]

\* Seen from outside, a Buffer is a queue of bytes: whatever the operations do
\* to the chunks, bytes are added behind, taken in front, and never reordered.
ImplementsByteQueue == Queue!Spec
=============================================================================
