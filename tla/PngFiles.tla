------------------------------- MODULE PngFiles -------------------------------
(***************************************************************************)
(* The two programs that handle PNG files: the writer of avalanche images  *)
(* in crates/statelab-crypto/src/render.rs, and the Export Center          *)
(* (src/modules/export-center/exporters.ts), which walks the chunks of a   *)
(* PNG to embed its metadata before IEND and to read it back.              *)
(*                                                                         *)
(* A file is a sequence of bytes; a text is a sequence of character codes, *)
(* which may exceed a byte.  A probability is k/n.                         *)
(***************************************************************************)
EXTENDS CallState, Words

CONSTANTS MaxStored,  \* bytes of a stored DEFLATE block, 0xFFFF in the code
          Images,     \* avalanche matrices: [bits, n, k]
          Texts,      \* metadata texts, as character codes
          ByteStrings \* inputs of the checksums

ASSUME MaxStoredAssumption == MaxStored \in 1 .. 65535

Failed == <<-1>>

Signature == <<137, 80, 78, 71, 13, 10, 26, 10>>
Keyword == <<83, 116, 97, 116, 101, 76, 97, 98>>       \* StateLab
Tag == [IHDR |-> <<73, 72, 68, 82>>, IDAT |-> <<73, 68, 65, 84>>,
        IEND |-> <<73, 69, 78, 68>>, tEXt |-> <<116, 69, 88, 116>>]

WordBytes(x) == [k \in 1 .. 4 |-> Value(Shr(x, 8 * (4 - k)) \cap Positions(8))]
Be32(n) == <<(n \div 16777216) % 256, (n \div 65536) % 256, (n \div 256) % 256, n % 256>>
Le16(n) == <<n % 256, n \div 256>>

-----------------------------------------------------------------------------
(* Both checksums start from all ones and end with a complement. *)
CrcPolynomial == Limbs(<<60856, 33568>>)               \* 0xEDB88320

CrcShift(c, k) == IF 0 \in c THEN Xor(CrcPolynomial, Shr(c, 1)) ELSE Shr(c, 1)

Shifted8(c) == InTurn(CrcShift, c, <<1, 2, 3, 4, 5, 6, 7, 8>>)

(* render.rs, bit by bit *)
Crc32Bitwise(bytes) ==
    LET crc[i \in 0 .. Len(bytes)] ==
            IF i = 0 THEN Positions(32)
            ELSE [c \in Word(32) |-> Shifted8(Xor(c, WordOf(bytes[i], 8)))][crc[i - 1]]
    IN Complement(crc[Len(bytes)], 32)

(* exporters.ts, by a table of 256 *)
CrcTable == [n \in 0 .. 255 |-> Shifted8(WordOf(n, 8))]

Crc32ByTable(bytes) ==
    LET Step(c, byte) ==
            Xor(CrcTable[Value(Xor(c, WordOf(byte, 8)) \cap Positions(8))], Shr(c, 8))
        crc[i \in 0 .. Len(bytes)] ==
            IF i = 0 THEN Positions(32)
            ELSE [c \in Word(32) |-> Step(c, bytes[i])][crc[i - 1]]
    IN Complement(crc[Len(bytes)], 32)

Adler32(bytes) ==
    LET a[i \in 0 .. Len(bytes)] == IF i = 0 THEN 1 ELSE (a[i - 1] + bytes[i]) % 65521
        b[i \in 0 .. Len(bytes)] == IF i = 0 THEN 0 ELSE (b[i - 1] + a[i]) % 65521
        high == b[Len(bytes)]
        low == a[Len(bytes)]
    IN <<high \div 256, high % 256, low \div 256, low % 256>>

-----------------------------------------------------------------------------
(* render.rs *)
Colour(k, n) ==
    LET c == (1020 * (IF 2 * k < n THEN k ELSE n - k) + n) \div (2 * n)
    IN IF 2 * k < n THEN <<c, c, 255>> ELSE <<255, c, c>>

PngChunk(kind, data) == Be32(Len(data)) \o kind \o data \o WordBytes(Crc32Bitwise(kind \o data))

(* Mutation of IsLastBlock: a block that ends exactly is not the last. *)
IsLastUnlessExact(i, size) == i * MaxStored > size

IsLastBlock(i, size) == i * MaxStored >= size

StoredBlock(raw, i) ==
    LET block == SubSeq(raw, (i - 1) * MaxStored + 1, Min({i * MaxStored, Len(raw)}))
    IN <<IF IsLastBlock(i, Len(raw)) THEN 1 ELSE 0>>
         \o Le16(Len(block)) \o Le16(65535 - Len(block)) \o block

ZlibStored(raw) ==
    LET count == (Len(raw) + MaxStored - 1) \div MaxStored
    IN <<120, 1>>
         \o (IF raw = <<>> THEN <<1, 0, 0, 255, 255>> ELSE <<>>)
         \o FlattenSeq([i \in 1 .. count |-> StoredBlock(raw, i)])
         \o Adler32(raw)

(* A matrix m has m.bits rows and columns; m.k[i, j] of m.n samples flip.   *)
Scanline(m, y, scale) ==
    FlattenSeq([x \in 1 .. m.bits * scale |->
                  Colour(m.k[<<(y - 1) \div scale, (x - 1) \div scale>>], m.n)])

(* The part after the text header of the file. *)
MatrixToPpm(m, scale) ==
    LET s == Max({scale, 1})
    IN FlattenSeq([y \in 1 .. m.bits * s |-> Scanline(m, y, s)])

ImageData(m, s) ==
    ZlibStored(FlattenSeq([y \in 1 .. m.bits * s |-> <<0>> \o Scanline(m, y, s)]))

MatrixToPng(m, scale) ==
    LET s == Max({scale, 1})
        side == m.bits * s
    IN Signature \o PngChunk(Tag.IHDR, Be32(side) \o Be32(side) \o <<8, 2, 0, 0, 0>>)
         \o PngChunk(Tag.IDAT, ImageData(m, s)) \o PngChunk(Tag.IEND, <<>>)

-----------------------------------------------------------------------------
(* exporters.ts; offsets are those of the code, from 0. *)
Latin1(text) == [i \in DOMAIN text |-> text[i] % 256]

TextChunk(keyword, text) ==
    LET body == Tag.tEXt \o Latin1(keyword) \o <<0>> \o Latin1(text)
    IN Be32(Len(body) - 4) \o body \o WordBytes(Crc32ByTable(body))

Uint32At(png, offset) ==
    ((png[offset + 1] * 256 + png[offset + 2]) * 256 + png[offset + 3]) * 256 + png[offset + 4]

TypeAt(png, offset) == SubSeq(png, offset + 5, offset + 8)

DataAt(png, offset) ==
    SubSeq(png, offset + 9, Min({offset + 8 + Uint32At(png, offset), Len(png)}))

(* The offsets at which the walk finds chunks, up to IEND. *)
WalkFrom(png, offset) ==
    LET walk[o \in Nat] ==
            IF o + 8 > Len(png) THEN <<>>
            ELSE IF TypeAt(png, o) = Tag.IEND THEN <<o>>
            ELSE <<o>> \o walk[o + 12 + Uint32At(png, o)]
    IN walk[offset]

EmbedPngMetadata(png, text) ==
    LET walk == WalkFrom(png, 8)
        iend == Last(walk)
    IN IF \/ SubSeq(png, 1, Min({8, Len(png)})) # Signature
          \/ walk = <<>>
          \/ TypeAt(png, iend) # Tag.IEND
       THEN Failed
       ELSE SubSeq(png, 1, iend) \o TextChunk(Keyword, text) \o SubSeq(png, iend + 1, Len(png))

(* One text chunk's payload, or nothing when it has another keyword. *)
PayloadAt(png, offset, keyword) ==
    LET data == DataAt(png, offset)
        nuls == {i \in DOMAIN data : data[i] = 0}
    IN IF TypeAt(png, offset) = Tag.tEXt /\ nuls # {} /\ SubSeq(data, 1, Min(nuls) - 1) = keyword
       THEN {SubSeq(data, Min(nuls) + 1, Len(data))} ELSE {}

ReadPngTextChunk(png, keyword) ==
    LET walk == WalkFrom(png, 8)
        hits == {i \in DOMAIN walk : PayloadAt(png, walk[i], keyword) # {}}
    IN IF hits = {} THEN Failed
       ELSE CHOOSE text \in PayloadAt(png, walk[Min(hits)], keyword) : TRUE

-----------------------------------------------------------------------------
(* A matrix has no more flips than samples; a side and a chunk's length    *)
(* are 32 bits, to which both programs cut them.                           *)
FitsInU32(size) == size \div 16777216 < 256

ASSUME PngAssumption ==
    /\ \A m \in Images :
          /\ m.bits \in Nat /\ m.n \in Nat \ {0}
          /\ m.k \in [(0 .. m.bits - 1) \X (0 .. m.bits - 1) -> 0 .. m.n]
          /\ \A scale \in 1 .. 2 : /\ FitsInU32(m.bits * scale)
                                   /\ FitsInU32(Len(ImageData(m, scale)))
    /\ \A text \in Texts : text \in Seq(Nat) /\ FitsInU32(Len(Keyword) + 1 + Len(text))
    /\ \A bytes \in ByteStrings : bytes \in Seq(0 .. 255)

-----------------------------------------------------------------------------
Checks(bytes) ==
    call' = [op |-> "checksum", rust |-> Crc32Bitwise(bytes), page |-> Crc32ByTable(bytes),
             adler |-> Adler32(bytes), bytes |-> bytes]

Stamps(m, scale, text) ==
    LET png == MatrixToPng(m, scale)
    IN call' = [op |-> "png", image |-> m, scale |-> scale, text |-> text, png |-> png,
                stamped |-> EmbedPngMetadata(png, text)]

PngInit == call = None

PngNext ==
    /\ call = None
    /\ \/ \E bytes \in ByteStrings : Checks(bytes)
       \/ \E m \in Images, scale \in 0 .. 2, text \in Texts : Stamps(m, scale, text)

PngSpec == PngInit /\ [][PngNext]_call

-----------------------------------------------------------------------------
(* A stored block whose size stands in its header twice, the second time   *)
(* as its complement.                                                      *)
StoredSize(blocks, o) == blocks[o + 2] + 256 * blocks[o + 3]
StoredEnd(blocks, o) == o + 5 + StoredSize(blocks, o)
StoredData(blocks, o) == SubSeq(blocks, o + 6, StoredEnd(blocks, o))

StoredWhole(blocks, o) ==
    /\ o + 5 <= Len(blocks)
    /\ StoredEnd(blocks, o) <= Len(blocks)
    /\ StoredSize(blocks, o) + blocks[o + 4] + 256 * blocks[o + 5] = 65535

(* The bytes of stored blocks: Failed unless each is whole and only the     *)
(* last is marked as the last.                                             *)
InflatedFrom(blocks, offset) ==
    LET from[o \in Nat] ==
            IF ~ StoredWhole(blocks, o) THEN Failed
            ELSE IF blocks[o + 1] # 1 THEN StoredData(blocks, o) \o from[StoredEnd(blocks, o)]
            ELSE IF StoredEnd(blocks, o) = Len(blocks) THEN StoredData(blocks, o)
            ELSE Failed
    IN from[offset]

Chunk(png, offset) == [type |-> TypeAt(png, offset), data |-> DataAt(png, offset)]
ChunksOf(png) == LET walk == WalkFrom(png, 8) IN [k \in DOMAIN walk |-> Chunk(png, walk[k])]

ChunkIsWhole(png, offset) ==
    LET end == offset + 8 + Uint32At(png, offset)
    IN /\ end + 4 <= Len(png)
       /\ SubSeq(png, end + 1, end + 4) = WordBytes(Crc32ByTable(SubSeq(png, offset + 5, end)))

Pixels(png) ==
    LET data == Chunk(png, WalkFrom(png, 8)[2]).data
    IN InflatedFrom(SubSeq(data, 3, Len(data) - 4), 0)

(* The scanlines without their filter bytes. *)
Unfiltered(raw, width) ==
    FlattenSeq([y \in 1 .. Len(raw) \div width |-> SubSeq(raw, (y - 1) * width + 2, y * width)])

(* The image a report writes decodes to the pixels of its other format     *)
(* (render.rs:37, 94, 114), and a metadata text embedded in it by the      *)
(* Export Center is read back, in a file whose chunks all have the CRC the *)
(* other program computes and are otherwise as they were                   *)
(* (exporters.ts:178, 216).                                                *)
PngRoundTrip ==
    /\ call.op = "png" =>
         LET walk == WalkFrom(call.stamped, 8)
             chunks == ChunksOf(call.stamped)
             width == Uint32At(call.stamped, 16)
             height == Uint32At(call.stamped, 20)
         IN /\ \A k \in DOMAIN walk : ChunkIsWhole(call.stamped, walk[k])
            /\ walk[Len(walk)] + 12 = Len(call.stamped)
            /\ ReadPngTextChunk(call.stamped, Keyword) = Latin1(call.text)
            /\ ReadPngTextChunk(call.png, Keyword) = Failed
            /\ \E k \in DOMAIN chunks :
                  chunks[k].type = Tag.tEXt /\ RemoveAt(chunks, k) = ChunksOf(call.png)
            /\ width = call.image.bits * Max({call.scale, 1}) /\ height = width
            /\ Len(Pixels(call.stamped)) = height * (1 + 3 * width)
            /\ Unfiltered(Pixels(call.stamped), 1 + 3 * width) = MatrixToPpm(call.image, call.scale)
    /\ call.op = "checksum" => call.rust = call.page

(* Both checksums of 123456789 are the published ones.                     *)
ChecksumsMeetTheirVector ==
    call.op = "checksum" /\ call.bytes = <<49, 50, 51, 52, 53, 54, 55, 56, 57>> =>
        WordBytes(call.rust) = <<203, 244, 57, 38>> /\ call.adler = <<9, 30, 1, 222>>
=============================================================================
