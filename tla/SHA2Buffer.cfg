\* The three classes' shapes scaled down: SHA256 with 4-byte blocks whose
\* last 2 bytes hold the bit length, SHA384/SHA512 with 8-byte blocks and a
\* 4-byte length field whose upper half is zero above the 2-byte counter.
\* Messages of up to 9 bytes of 0x00 and 0x80 fed in chunks of up to 5
\* bytes, so data ends at every offset of a block, spills over blocks and
\* calls carry more than a block.
CONSTANTS
    BlockSize256 = 4
    LengthBytes256 = 2
    BlockSize512 = 8
    LengthBytes512 = 4
    CounterBytes = 2
    Bytes = {0, 128}
    MaxChunk = 5
    MaxMessage = 9
    MaxBlocks = 5
SPECIFICATION Spec
INVARIANTS
    TypeOK
    StreamConsistent
    DigestMatchesReference
