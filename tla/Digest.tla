-------------------------------- MODULE Digest --------------------------------
(***************************************************************************)
(* lib/hash/md5.c, hash/sha1.c and lib/hash.cc: how MD5 and SHA1 gather    *)
(* what they are given in pieces of any length into blocks, and            *)
(* create_signature.  What a block is transformed to is left out: a digest *)
(* is the sequence of the blocks it has gone through, so two digests are   *)
(* equal exactly when the same blocks were hashed.                         *)
(***************************************************************************)
EXTENDS Str

CONSTANTS BlockSize,   \* 64 bytes
          CountSize,   \* the bytes at the end of the last block that count, 8
          CountBits    \* width of the low word of the count, in bytes

ASSUME DigestAssumption ==
    /\ CountSize \in 1..(BlockSize - 1) /\ CountBits \in Nat
    /\ BlockSize \in Nat /\ 2^CountBits \in Nat \ {0} /\ 2^CountBits % BlockSize = 0
    /\ "digest" \in DOMAIN Symbols => Symbols["digest"] \subseteq Nat

Stale == <<"stale">>   \* a byte of the buffer that nobody has written
Zero  == <<"zero">>
One   == <<"0x80">>

Word == 2^CountBits
Clean == [i \in 1..BlockSize |-> Stale]

\* memcpy to the buffer behind the first used bytes
Copy(buffer, used, data) ==
    [i \in 1..BlockSize |-> IF i \in (used + 1)..(used + Len(data)) THEN data[i - used]
                            ELSE buffer[i]]

\* the whole blocks of data, and what is left of them
Blocks(data) == [i \in 1..(Len(data) \div BlockSize) |->
                    SubSeq(data, (i - 1) * BlockSize + 1, i * BlockSize)]
Left(data)   == SubSeq(data, BlockSize * (Len(data) \div BlockSize) + 1, Len(data))

\* mutant: the low word wraps without a carry
CountedLow(ctx, n) == [ctx EXCEPT !.lo = (@ + n) % Word, !.hi = @ + n \div Word]

\* the count of bytes, in two words, with the carry found as the code finds it
Counted(ctx, n) ==
    LET lo == (ctx.lo + n) % Word
    IN  [ctx EXCEPT !.lo = lo, !.hi = @ + (IF lo < ctx.lo THEN 1 ELSE 0) + n \div Word]
-----------------------------------------------------------------------------
(* MD5.                                                                    *)

DigestInit == [lo |-> 0, hi |-> 0, buffer |-> Clean, blocks |-> <<>>]

MD5Update(ctx, data) ==
    LET used  == ctx.lo % BlockSize
        avail == BlockSize - used
        first == Copy(ctx.buffer, used, Sub(data, 0, avail))
        rest  == From(data, avail)
        next  == Counted(ctx, Len(data))
    IN  IF used = 0
        THEN [next EXCEPT !.blocks = @ \o Blocks(data), !.buffer = Copy(@, 0, Left(data))]
        ELSE IF Len(data) < avail THEN [next EXCEPT !.buffer = Copy(@, used, data)]
        ELSE [next EXCEPT !.blocks = @ \o <<first>> \o Blocks(rest),
                          !.buffer = Copy(first, 0, Left(rest))]

Zeros(n) == [i \in 1..n |-> Zero]

\* the count at the end of a block
CountOf(ctx) == Append(Zeros(CountSize - 1), <<"count", ctx.hi, ctx.lo>>)

\* 0x80, zeros and the count, which gets a block of its own when it has no room
MD5Final(ctx) ==
    LET used   == (ctx.lo % BlockSize) + 1
        marked == Copy(ctx.buffer, used - 1, <<One>>)
        avail  == BlockSize - used
        filled == Copy(marked, used, Zeros(avail))
        start  == IF avail < CountSize THEN 0 ELSE used
        last   == Copy(Copy(marked, start, Zeros(BlockSize - CountSize - start)),
                       BlockSize - CountSize, CountOf(ctx))
    IN  ctx.blocks \o (IF avail < CountSize THEN <<filled>> ELSE <<>>) \o <<last>>

MD5Parts(parts) ==
    LET after[i \in 0..Len(parts)] ==
           IF i = 0 THEN DigestInit ELSE MD5Update(after[i - 1], parts[i])
    IN  MD5Final(after[Len(parts)])
-----------------------------------------------------------------------------
(* SHA1.                                                                   *)

SHA1Update(ctx, data) ==
    LET used  == ctx.lo % BlockSize
        first == Copy(ctx.buffer, used, Sub(data, 0, BlockSize - used))
        rest  == From(data, BlockSize - used)
        next  == Counted(ctx, Len(data))
    IN  IF used + Len(data) > BlockSize - 1
        THEN [next EXCEPT !.blocks = @ \o <<first>> \o Blocks(rest),
                          !.buffer = Copy(first, 0, Left(rest))]
        ELSE [next EXCEPT !.buffer = Copy(@, used, data)]

SHA1Pad(ctx) ==
    IF ctx.lo % BlockSize = BlockSize - CountSize THEN ctx ELSE SHA1Update(ctx, <<Zero>>)

\* 0x80 and zeros byte by byte until the count has its place, then the count
SHA1Final(ctx) ==
    LET pad[n \in 0..BlockSize] ==
           IF n = 0 THEN SHA1Update(ctx, <<One>>) ELSE SHA1Pad(pad[n - 1])
    IN  SHA1Update(pad[BlockSize], CountOf(ctx)).blocks
-----------------------------------------------------------------------------
(* hash.cc.                                                                *)

SHA1Parts(parts) ==
    LET after[i \in 0..Len(parts)] ==
           IF i = 0 THEN DigestInit ELSE SHA1Update(after[i - 1], parts[i])
    IN  SHA1Final(after[Len(parts)])

\* The key is the secret, filled up with zeros; one that is longer than a block is
\* hashed, and then only the bytes of its digest are written.
SignatureKey(secret) ==
    IF Len(secret) > BlockSize THEN Copy(Clean, 0, <<<<"sha1", SHA1Parts(<<secret>>)>>>>)
    ELSE Copy(Copy(Clean, 0, Zeros(BlockSize)), 0, secret)

Masked(key, mask) == [i \in DOMAIN key |-> Append(key[i], mask)]

create_signature(secret, parts) ==
    SHA1Parts(<<Masked(SignatureKey(secret), "0x5c"), Masked(SignatureKey(secret), "0x36")>>
              \o parts)
-----------------------------------------------------------------------------
(* Correctness.  A text is the lengths of the pieces that are hashed.      *)

Bytes(first, n) == [i \in 1..n |-> <<"byte", first + i>>]

SumOf(lengths) ==
    LET sum[i \in 0..Len(lengths)] == IF i = 0 THEN 0 ELSE sum[i - 1] + lengths[i]
    IN  sum[Len(lengths)]

Pieces(lengths) ==
    [i \in DOMAIN lengths |-> Bytes(SumOf(SubSeq(lengths, 1, i - 1)), lengths[i])]

\* the message with its padding, in blocks
Padded(data) ==
    LET zeros == (2 * BlockSize - CountSize - 1 - (Len(data) % BlockSize)) % BlockSize
    IN  Blocks(data \o <<One>> \o Zeros(zeros) \o Zeros(CountSize - 1)
               \o <<<<"count", Len(data) \div Word, Len(data) % Word>>>>)

Secret(size) == [i \in 1..size |-> <<"secret">>]

\* A digest depends on what was hashed, not on the pieces it came in: every byte
\* is hashed once and in order, the padding fills the last block, a block more
\* where the count has no room, the count carries into its high word, and no byte
\* is one that nobody wrote.  So a signature depends on its parts joined, and on no
\* other byte: with a secret that fits in a block (KeyIsPadded is about longer ones).
DigestsAgree ==
    kind = "digest" =>
       LET data   == Bytes(0, SumOf(text))
           pieces == Pieces(text)
       IN  /\ MD5Parts(pieces) = Padded(data)
           /\ SHA1Parts(pieces) = Padded(data)
           /\ \A size \in 0..BlockSize :
                 LET signed == create_signature(Secret(size), pieces)
                 IN  /\ signed = create_signature(Secret(size), <<data>>)
                     /\ \A i \in DOMAIN signed : \A j \in 1..BlockSize :
                           Head(signed[i][j]) # Head(Stale)

\* The comment on create_signature, "Based on HMAC algorithm described by RFC 2104",
\* which fills up the digest of a long secret with zeros: no byte of the key is
\* one that nobody wrote, however long the secret.
KeyIsPadded ==
    kind = "digest" => Stale \notin ToSet(SignatureKey(Bytes(0, SumOf(text))))
=============================================================================
