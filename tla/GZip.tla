--------------------------------- MODULE GZip ---------------------------------
(***************************************************************************)
(* lib/gzip.cc: GZipCompressor and GZipDecompressor, which cut what zlib   *)
(* writes into blocks.  zlib is external: deflate takes all it is given    *)
(* and holds some of it back until it is flushed; inflate gives back what  *)
(* was deflated.  What a byte is compressed to is left out: the compressed *)
(* stream is the bytes between the header, marks and the trailer.          *)
(* flush(Z_NO_FLUSH), which nothing calls, and errors of zlib are left out. *)
(***************************************************************************)
EXTENDS Integers, Sequences, SequencesExt, FiniteSetsExt

CONSTANTS BLOCK_SIZE,   \* 1022 bytes
          MaxZipped,    \* bound: bytes that are compressed,
          MaxPiece,     \* and bytes in one call
          NoBlock       \* tmp_buf_ is null

\* what the compressed stream is made of
Items == {<<"header">>, <<"mark">>, <<"end">>} \cup {"byte", "trailer"} \X Nat

ASSUME GZipAssumption ==
    /\ BLOCK_SIZE \in Nat \ {0} /\ MaxZipped \in Nat /\ MaxPiece \in Nat
    /\ NoBlock \notin Seq(Items)

VARIABLES given,     \* bytes given to compress, whose crc_ and size_ these are
          held,      \* how many of them deflate holds back
          tmp,       \* the bytes in tmp_buf_; NoBlock with the faked full length
          zipped,    \* buffer_ of the compressor, block by block
          flushed,   \* the last call of deflate was a flush
          closed,    \* close has been called
          fed,       \* how many blocks the decompressor has got
          unzipped   \* buffer_ of the decompressor

gzipVars == <<given, held, tmp, zipped, flushed, closed, fed, unzipped>>

Header  == <<"header">>
Mark    == <<"mark">>
End     == <<"end">>
Trailer == <<"trailer", given>>
BytesOf(first, last) == [i \in 1..(last - first + 1) |-> <<"byte", first + i - 1>>]

GZipInit == /\ given = 0 /\ held = 0 /\ tmp = <<Header>> /\ zipped = <<>>
            /\ flushed = FALSE /\ closed = FALSE
            /\ fed = 0 /\ unzipped = <<>>
-----------------------------------------------------------------------------
(* GZipCompressor.                                                         *)

\* mutant: a block that is full is not kept
RoundForgets(c) ==
    LET full == c.tmp = NoBlock \/ Len(c.tmp) = BLOCK_SIZE
        buf  == IF full THEN <<>> ELSE c.tmp
        n    == Min({Len(c.out), BLOCK_SIZE - Len(buf)})
    IN  [c EXCEPT !.tmp = buf \o SubSeq(c.out, 1, n), !.out = SubSeq(@, n + 1, Len(@)),
                  !.done = n = 0 \/ Len(buf) + n < BLOCK_SIZE]

\* One round of the loops of compress and flush: a full block is pushed, and deflate
\* writes what fits in the new one.  The loop ends when there was room left, when
\* deflate could do nothing, and at the end of the stream.
Round(c) ==
    LET full == c.tmp = NoBlock \/ Len(c.tmp) = BLOCK_SIZE
        buf  == IF full THEN <<>> ELSE c.tmp
        n    == Min({Len(c.out), BLOCK_SIZE - Len(buf)})
    IN  [tmp    |-> buf \o SubSeq(c.out, 1, n),
         blocks |-> IF full /\ c.tmp # NoBlock THEN Append(c.blocks, c.tmp) ELSE c.blocks,
         out    |-> SubSeq(c.out, n + 1, Len(c.out)),
         done   |-> \/ n = 0 \/ Len(buf) + n < BLOCK_SIZE
                    \/ n = Len(c.out) /\ Last(c.out) = End]

\* the loop, with all of out to be written by deflate
Loop(out) ==
    LET round[i \in 0..(Len(out) + 2)] ==
           IF i = 0 THEN [tmp |-> tmp, blocks |-> zipped, out |-> out, done |-> FALSE]
           ELSE IF round[i - 1].done THEN round[i - 1] ELSE Round(round[i - 1])
    IN  round[Len(out) + 2]

\* n more bytes; deflate writes all but the last k
Compress(n, k) ==
    /\ ~closed /\ given + n <= MaxZipped
    /\ k <= held + n
    /\ given' = given + n /\ held' = k
    /\ LET c == Loop(BytesOf(given - held + 1, given + n - k))
       IN  tmp' = c.tmp /\ zipped' = c.blocks
    /\ flushed' = FALSE
    /\ UNCHANGED <<closed, fed, unzipped>>

\* what is in the block is pushed, full or not
FlushLoop(out) ==
    LET c == Loop(out)
    IN  [tmp    |-> IF c.tmp # <<>> THEN NoBlock ELSE c.tmp,
         blocks |-> IF c.tmp # <<>> THEN Append(c.blocks, c.tmp) ELSE c.blocks]

Unwritten == BytesOf(given - held + 1, given)

\* flush(Z_SYNC_FLUSH); deflate does nothing when it has just done it
Flush == /\ ~closed
         /\ LET c == FlushLoop(IF flushed THEN <<>> ELSE Append(Unwritten, Mark))
            IN  tmp' = c.tmp /\ zipped' = c.blocks
         /\ held' = 0 /\ flushed' = TRUE
         /\ UNCHANGED <<given, closed, fed, unzipped>>

Close == /\ ~closed
         /\ LET c == FlushLoop(Append(Unwritten, End))
            IN  tmp' = c.tmp /\ zipped' = Append(c.blocks, <<Trailer>>)
         /\ held' = 0 /\ flushed' = TRUE /\ closed' = TRUE
         /\ UNCHANGED <<given, fed, unzipped>>
-----------------------------------------------------------------------------
(* GZipDecompressor.                                                       *)

IsByte(x) == Head(x) = "byte"

\* the bytes in s
BytesIn(s) ==
    LET bytes[i \in 0..Len(s)] ==
           IF i = 0 THEN <<>>
           ELSE IF IsByte(s[i]) THEN Append(bytes[i - 1], s[i]) ELSE bytes[i - 1]
    IN  bytes[Len(s)]

\* out in blocks, the last of them not full, and pushed even when it is empty
InBlocks(out) == [i \in 1..(Len(out) \div BLOCK_SIZE + 1) |->
                     SubSeq(out, (i - 1) * BLOCK_SIZE + 1, Min({i * BLOCK_SIZE, Len(out)}))]

\* the next block of the stream; inflate gives all the bytes that are in it
Decompress == /\ fed < Len(zipped)
              /\ fed' = fed + 1
              /\ unzipped' = unzipped \o InBlocks(BytesIn(zipped[fed + 1]))
              /\ UNCHANGED <<given, held, tmp, zipped, flushed, closed>>

GZipNext == \/ \E n \in 1..MaxPiece : \E k \in 0..MaxZipped : Compress(n, k)
            \/ Flush \/ Close \/ Decompress

GZipSpec == GZipInit /\ [][GZipNext]_gzipVars
-----------------------------------------------------------------------------
Written == FlattenSeq(zipped) \o (IF tmp = NoBlock THEN <<>> ELSE tmp)

\* However the bytes come and are flushed, and wherever the blocks end among them:
\* what deflate has written is in the blocks once and in order, behind the header.
\* A flush leaves nothing of what was given in the compressor or in its last block;
\* close ends the stream with the trailer of all that was given; and the
\* decompressor has the bytes of the blocks it was fed.
GZipDelivers ==
    /\ BytesIn(Written) = BytesOf(1, given - held)
    /\ Head(Written) = Header
    /\ \A i \in DOMAIN zipped : Len(zipped[i]) \in 1..BLOCK_SIZE
    /\ flushed => BytesIn(FlattenSeq(zipped)) = BytesOf(1, given)
    /\ closed => /\ Last(zipped) = <<Trailer>>
                 /\ \A i \in DOMAIN Written : Written[i] = End <=> i = Len(Written) - 1
    /\ FlattenSeq(unzipped) = BytesIn(FlattenSeq(SubSeq(zipped, 1, fed)))
=============================================================================
