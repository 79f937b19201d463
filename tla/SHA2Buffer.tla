----------------------------- MODULE SHA2Buffer -----------------------------
(***************************************************************************)
(* The block buffering and final padding of LibCrypto's SHA-2 hashes      *)
(* (SHA2.cpp): update() copies input into m_data_buffer through            *)
(* update_buffer and runs transform() on every full block; peek() pads     *)
(* the partial block with 0x80, zeros and the big-endian bit length,       *)
(* spilling into a second block when the length does not fit, and          *)
(* transforms; digest() is peek() followed by reset().                     *)
(*                                                                         *)
(* transform() is abstracted to what it does to m_state: it folds one      *)
(* block in, so m_state is represented by the sequence of blocks absorbed  *)
(* since reset (two states differ exactly when their block sequences do,   *)
(* up to collisions of the compression function).  Bytes are integers;     *)
(* the message is drawn from a small set of byte values that includes the  *)
(* padding bytes 0x80 and 0x00.                                            *)
(***************************************************************************)
EXTENDS Naturals, Sequences, SequencesExt

CONSTANTS
    BlockSize256,        \* SHA256::BlockSize (64 bytes)
    LengthBytes256,      \* SHA256's trailing length field (8 bytes)
    BlockSize512,        \* SHA384/SHA512::BlockSize (128 bytes)
    LengthBytes512,      \* SHA384/SHA512's trailing length field (16 bytes)
    CounterBytes,        \* width of m_bit_length, a u64 in every class (8)
    Bytes,               \* byte values a message may contain
    MaxChunk,            \* longest input of one update() call
    MaxMessage,          \* bound on the bytes hashed between resets
    MaxBlocks            \* bound on the blocks absorbed between resets

ASSUME /\ CounterBytes = LengthBytes256
       /\ CounterBytes <= LengthBytes512
       /\ LengthBytes256 < BlockSize256 /\ LengthBytes512 < BlockSize512
       /\ Bytes \subseteq 0 .. 255

\* The three hash classes and their geometry; FinalBlockDataSize is
\* BlockSize minus the length field in each.  The digest sizes are the
\* real ones (FIPS 180-4 output lengths in bytes), the output is not scaled.
Hashes == {"SHA256", "SHA384", "SHA512"}

Geo(h) ==
    IF h = "SHA256"
    THEN [block |-> BlockSize256, field |-> LengthBytes256,
          final |-> BlockSize256 - LengthBytes256]
    ELSE [block |-> BlockSize512, field |-> LengthBytes512,
          final |-> BlockSize512 - LengthBytes512]

DigestSize == [SHA256 |-> 32, SHA384 |-> 48, SHA512 |-> 64]

Idx(h) == 0 .. Geo(h).block - 1

\* m_bit_length is a u64, kept modulo 256^CounterBytes.
BitModulus == 256 ^ CounterBytes

VARIABLES
    hash,         \* which class the object is: SHA256, SHA384 or SHA512
    buffer,       \* m_data_buffer: index -> byte
    dataLength,   \* m_data_length
    state,        \* m_state, as the blocks transform() has absorbed
    bitLength,    \* m_bit_length
    message,      \* the bytes passed to update() since the last reset
    peeked,       \* peek() ran since the last reset
    out           \* the last digest returned: taken with no earlier peek
                  \* since reset, and equal to the reference digest

vars == <<hash, buffer, dataLength, state, bitLength, message, peeked, out>>

NoOutput == [clean |-> FALSE, matches |-> FALSE]

\* The hash object as one record, so the helpers can thread it through.
Ctx == [h |-> hash, buf |-> buffer, len |-> dataLength, st |-> state,
        bits |-> bitLength]

\* reset(): the initial hash state, an empty buffer, a zero bit length.
ResetCtx(h) == [h |-> h, buf |-> [k \in Idx(h) |-> 0], len |-> 0, st |-> <<>>,
                bits |-> 0]

\* transform(m_data_buffer): the block is folded into m_state.
Transform(c) ==
    [c EXCEPT !.st = Append(@, [k \in 1 .. Geo(c.h).block |-> c.buf[k - 1]])]

\* Copy `copy` bytes of the input to the buffer at m_data_length.
CopyIn(c, input, copy) ==
    [c EXCEPT !.buf = [k \in Idx(c.h) |-> IF c.len <= k /\ k < c.len + copy
                                         THEN input[k - c.len + 1] ELSE @[k]],
              !.len = @ + copy]

\* Variant: the copy is not clamped to the room left in the block.
RECURSIVE UpdateBufferUnclamped(_, _)
UpdateBufferUnclamped(c, input) ==
    IF input = <<>> THEN c
    ELSE LET t == CopyIn(c, input, Len(input)) IN
         UpdateBufferUnclamped(
             IF t.len = Geo(c.h).block
             THEN [Transform(t) EXCEPT !.bits = (@ + Geo(c.h).block * 8) % BitModulus,
                                       !.len = 0]
             ELSE t,
             SubSeq(input, Len(input) + 1, Len(input)))

\* Variant: the update callback does not count the block's bits.
RECURSIVE UpdateBufferNoBitCount(_, _)
UpdateBufferNoBitCount(c, input) ==
    IF input = <<>> THEN c
    ELSE LET copy == Min({Len(input), Geo(c.h).block - c.len})
             t == CopyIn(c, input, copy)
         IN UpdateBufferNoBitCount(
                IF t.len = Geo(c.h).block THEN [Transform(t) EXCEPT !.len = 0] ELSE t,
                SubSeq(input, copy + 1, Len(input)))

\* update_buffer<BlockSize> with update()'s callback: copy as much of the
\* input as fits, and on a full block transform and count its bits.
RECURSIVE UpdateBuffer(_, _)
UpdateBuffer(c, input) ==
    IF input = <<>> THEN c
    ELSE LET copy == Min({Len(input), Geo(c.h).block - c.len})
             t == CopyIn(c, input, copy)
         IN UpdateBuffer(
                IF t.len = Geo(c.h).block
                THEN [Transform(t) EXCEPT !.bits = (@ + Geo(c.h).block * 8) % BitModulus,
                                          !.len = 0]
                ELSE t,
                SubSeq(input, copy + 1, Len(input)))

\* m_data_buffer[i] = 0x80, then zeros up to (excluding) index `to`.
PadFrom(buf, i, to) ==
    [k \in DOMAIN buf |-> IF k = i THEN 128 ELSE IF i < k /\ k < to THEN 0 ELSE buf[k]]

\* Byte k (0 = most significant) of an n-byte big-endian field holding v.
LengthByte(v, n, k) == (v \div 256 ^ (n - 1 - k)) % 256

\* The tail of SHA256::peek() once the padding is in place: add the
\* buffered bits, write the length big-endian into the last bytes, transform.
FinishPeek(c) ==
    LET bits == (c.bits + c.len * 8) % BitModulus
        B    == Geo(c.h).block
        buf  == [k \in Idx(c.h) |-> IF k >= B - CounterBytes
                                    THEN LengthByte(bits, CounterBytes, k - (B - CounterBytes))
                                    ELSE c.buf[k]]
    IN Transform([c EXCEPT !.buf = buf, !.bits = bits])

\* Variant: the wide tail writes the count but leaves the high half as is.
FinishPeekWideNoZero(c) ==
    LET lo == Geo(c.h).block - CounterBytes
        t  == [c EXCEPT !.bits = (@ + c.len * 8) % BitModulus]
    IN Transform([t EXCEPT !.buf = [k \in Idx(c.h) |->
                    IF k >= lo THEN LengthByte(t.bits, CounterBytes, k - lo) ELSE @[k]]])

\* The tail of SHA384/SHA512::peek(): the u64 bit count goes into the last
\* CounterBytes bytes and the bytes above it in the 16-byte field are
\* zeroed (the FIXME: the count is not a u128), then transform.
FinishPeekWide(c) ==
    LET B  == Geo(c.h).block
        lo == B - CounterBytes
        hi == B - Geo(c.h).field
        t  == [c EXCEPT !.bits = (@ + c.len * 8) % BitModulus]
    IN Transform([t EXCEPT !.buf = [k \in Idx(c.h) |->
                    IF k >= lo THEN LengthByte(t.bits, CounterBytes, k - lo)
                    ELSE IF k >= hi THEN 0 ELSE @[k]]])

\* The length-field tail each class's peek() ends with.
PeekTail(c) == IF c.h = "SHA256" THEN FinishPeek(c) ELSE FinishPeekWide(c)

\* Variant: the length is taken to fit when the data ends right at it.
PeekCtxInclusive(c) ==
    LET F == Geo(c.h).final IN
    IF c.len <= F
    THEN PeekTail([c EXCEPT !.buf = PadFrom(@, c.len, F)])
    ELSE LET spilled == Transform([c EXCEPT !.buf = PadFrom(@, c.len, Geo(c.h).block)])
         IN PeekTail([spilled EXCEPT !.buf = [k \in Idx(c.h) |->
                        IF k < F THEN 0 ELSE @[k]]])

\* peek(): pad in the current block if the length still fits after it,
\* else complete this block with padding, transform, and start a block
\* of zeros; then append the length.  m_data_length is left as it was.
PeekCtx(c) ==
    LET F == Geo(c.h).final IN
    IF c.len < F
    THEN PeekTail([c EXCEPT !.buf = PadFrom(@, c.len, F)])
    ELSE LET spilled == Transform([c EXCEPT !.buf = PadFrom(@, c.len, Geo(c.h).block)])
         IN PeekTail([spilled EXCEPT !.buf = [k \in Idx(c.h) |->
                        IF k < F THEN 0 ELSE @[k]]])

\* Variant: SHA384::peek() copies all eight state words, as SHA512's does.
SHA384DigestBytesUntruncated == 64

\* SHA384::peek()'s output loop: six of the eight u64 state words, big-endian.
SHA384DigestBytes == 6 * 8

\* The size of the digest each class's peek() writes: SHA256 eight u32
\* words, SHA384 six u64 words, SHA512 eight u64 words.
DigestBytesOf(h) ==
    CASE h = "SHA256" -> 8 * 4
      [] h = "SHA384" -> SHA384DigestBytes
      [] h = "SHA512" -> 8 * 8

-----------------------------------------------------------------------------
(* The reference: FIPS 180-4 padding of message m for hash h, split into  *)
(* blocks, and the digest size of h.                                      *)
RECURSIVE Chunks(_, _)
Chunks(s, B) ==
    IF s = <<>> THEN <<>>
    ELSE <<SubSeq(s, 1, B)>> \o Chunks(SubSeq(s, B + 1, Len(s)), B)

Padded(h, m) ==
    LET B == Geo(h).block
        L == Geo(h).field
        z == CHOOSE n \in 0 .. B - 1 : (Len(m) + 1 + n + L) % B = 0
    IN m \o <<128>> \o [k \in 1 .. z |-> 0]
         \o [k \in 1 .. L |-> LengthByte(Len(m) * 8, L, k - 1)]

Reference(h, m) == [blocks |-> Chunks(Padded(h, m), Geo(h).block),
                    size |-> DigestSize[h]]

-----------------------------------------------------------------------------
SetCtx(c) ==
    /\ buffer' = c.buf
    /\ dataLength' = c.len
    /\ state' = c.st
    /\ bitLength' = c.bits

\* A freshly constructed SHA256, SHA384 or SHA512 object.
Init ==
    /\ hash \in Hashes
    /\ buffer = ResetCtx(hash).buf
    /\ dataLength = 0
    /\ state = <<>>
    /\ bitLength = 0
    /\ message = <<>>
    /\ peeked = FALSE
    /\ out = NoOutput

\* The digest peek() returns, compared with the reference.
PeekOut(c) ==
    [clean |-> ~peeked,
     matches |-> [blocks |-> c.st, size |-> DigestBytesOf(c.h)] = Reference(c.h, message)]

\* update(message, length).
Update(chunk) ==
    /\ Len(message) + Len(chunk) <= MaxMessage
    /\ SetCtx(UpdateBuffer(Ctx, chunk))
    /\ message' = message \o chunk
    /\ UNCHANGED <<hash, peeked, out>>

\* peek(): the digest of what was hashed, without a reset.
Peek ==
    LET c == PeekCtx(Ctx) IN
    /\ Len(c.st) <= MaxBlocks
    /\ SetCtx(c)
    /\ out' = PeekOut(c)
    /\ peeked' = TRUE
    /\ UNCHANGED <<hash, message>>

\* digest(): peek(), then reset().
Digest ==
    LET c == PeekCtx(Ctx) IN
    /\ SetCtx(ResetCtx(hash))
    /\ out' = PeekOut(c)
    /\ message' = <<>>
    /\ peeked' = FALSE
    /\ UNCHANGED hash

Next ==
    \/ \E chunk \in BoundedSeq(Bytes, MaxChunk) : Update(chunk)
    \/ Peek
    \/ Digest

Spec == Init /\ [][Next]_vars

-----------------------------------------------------------------------------
TypeOK ==
    /\ hash \in Hashes
    /\ buffer \in [Idx(hash) -> 0 .. 255]
    /\ dataLength \in 0 .. Geo(hash).block - 1
    /\ bitLength \in 0 .. BitModulus - 1
    /\ peeked \in BOOLEAN

\* Between resets, and before any peek, the object holds exactly the
\* message: the absorbed blocks followed by the buffered bytes spell what
\* update() was given, and m_bit_length counts the absorbed blocks' bits.
StreamConsistent ==
    ~peeked =>
        /\ FlattenSeq(state) \o [k \in 1 .. dataLength |-> buffer[k - 1]] = message
        /\ bitLength = ((Len(message) - dataLength) * 8) % BitModulus

\* Whatever the class and the chunking of the input, a digest or peek
\* taken with no earlier peek since the reset has absorbed exactly the
\* FIPS 180-4 padded message (the 0x80 marker, the zeros and the 8- or
\* 16-byte length, in one block or spilled into a second) and returns a
\* digest of the class's size.
DigestMatchesReference ==
    out.clean => out.matches
=============================================================================
