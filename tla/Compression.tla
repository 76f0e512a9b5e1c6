----------------------------- MODULE Compression -----------------------------
(***************************************************************************)
(* stdlib_compress.c over sequences of bytes: a stream of DEFLATE in       *)
(* stored blocks, and its envelope, a file of gzip.  The checksum is a set *)
(* of bits; gunzip does not look at it.                                    *)
(***************************************************************************)
EXTENDS Integers, Sequences, SequencesExt, Text

CONSTANT MaxBlock   \* 65535

LittleEndian(n, width) == [i \in 1 .. width |-> (n \div 256 ^ (i - 1)) % 256]

Xor(a, b) == (a \ b) \cup (b \ a)
BitsOf(byte) == {b \in 0 .. 7 : (byte \div 2 ^ b) % 2 = 1}
ByteOf(bits) == SumSet({2 ^ b : b \in bits \cap 0 .. 7})
Shifted(c, n) == {b - n : b \in {x \in c : x >= n}}
Polynomial == {5, 8, 9, 15, 19, 20, 21, 23, 24, 26, 27, 29, 30, 31}
crc32_step(c, i) == IF 0 \in c THEN Xor(Polynomial, Shifted(c, 1)) ELSE Shifted(c, 1)
crc32_update(c, byte) == FoldLeft(crc32_step, Xor(c, BitsOf(byte)), [i \in 1 .. 8 |-> i])
crc32_compute(data) == Xor(FoldLeft(crc32_update, 0 .. 31, data), 0 .. 31)
crc32_bytes(data) == [i \in 1 .. 4 |-> ByteOf(Shifted(crc32_compute(data), 8 * (i - 1)))]

\* A block: whether it is the last one, its length, the complement, the data.
Block(data, last) ==
    <<IF last THEN 1 ELSE 0>> \o LittleEndian(Len(data), 2) \o LittleEndian(65535 - Len(data), 2) \o data
RECURSIVE deflate_stored(_)
deflate_stored(data) ==
    IF Len(data) <= MaxBlock THEN Block(data, TRUE)
    ELSE Block(Upto(data, MaxBlock), FALSE) \o deflate_stored(From(data, MaxBlock + 1))

\* What is cut off is left out without a word, and so is a block's type.
RECURSIVE inflate_stored(_)
inflate_stored(stream) ==
    LET len == stream[2] + 256 * stream[3] IN
    IF Len(stream) < 5 THEN <<>>
    ELSE IF Len(stream) < 5 + len THEN <<>>
    ELSE Cut(stream, 6, 6 + len)
         \o (IF stream[1] % 2 = 1 THEN <<>> ELSE inflate_stored(From(stream, 6 + len)))

native_compress_gzip(data) ==
    <<31, 139, 8, 0, 0, 0, 0, 0, 0, 255>> \o deflate_stored(data)
    \o crc32_bytes(data) \o LittleEndian(Len(data), 4)

\* The optional parts of a header, as other programs write them.
Has(flags, bit) == (flags \div bit) % 2 = 1
AfterExtra(file, at) ==
    IF Has(file[4], 4) THEN at + 2 + CodeAt(file, at) + 256 * CodeAt(file, at + 1) ELSE at
AfterText(file, at, bit) == IF Has(file[4], bit) THEN Until(file, at, {0}) + 1 ELSE at
Header(file) ==
    AfterText(file, AfterText(file, AfterExtra(file, 11), 8), 16) + (IF Has(file[4], 2) THEN 2 ELSE 0)
native_compress_gunzip(file) ==
    IF Len(file) < 18 \/ Upto(file, 3) # <<31, 139, 8>> THEN [ok |-> FALSE]
    ELSE IF Header(file) + 7 > Len(file) THEN [ok |-> FALSE]
    ELSE [ok |-> TRUE, data |-> inflate_stored(Cut(file, Header(file), Len(file) - 7))]

\* accept is the header Accept-Encoding, of codes: is "gzip" in it?
encode_response(body, accept) ==
    IF Find(<<103, 122, 105, 112>>, accept, 1) # 0
    THEN [body |-> native_compress_gzip(body), encoding |-> "gzip"]
    ELSE [body |-> body, encoding |-> "identity"]

\* Data come back whole, whatever the blocks are, through a header with all
\* the parts that gzip allows, and as the answer to any Accept-Encoding; of a
\* stream that was cut short comes a beginning of the data.  The checksum of
\* data with their checksum after them is the residue of CRC-32.
Residue == {2, 3, 4, 8, 9, 10, 11, 12, 14, 15, 18, 22, 24, 29}
CompressionLaw(data, extra, accept) ==
    LET file == native_compress_gzip(data)
        named == [Upto(file, 10) EXCEPT ![4] = 30] \o LittleEndian(Len(extra), 2) \o extra
                 \o <<110, 0>> \o <<0>> \o <<1, 2>> \o From(file, 11)
        answer == encode_response(data, accept)
    IN  /\ crc32_compute(data \o crc32_bytes(data)) = Residue
        /\ inflate_stored(deflate_stored(data)) = data
        /\ native_compress_gunzip(file) = [ok |-> TRUE, data |-> data]
        /\ native_compress_gunzip(named) = [ok |-> TRUE, data |-> data]
        /\ answer.encoding = "gzip" => native_compress_gunzip(answer.body) = [ok |-> TRUE, data |-> data]
        /\ answer.encoding # "gzip" => answer.body = data
        /\ \A n \in 0 .. Len(data) : IsPrefix(inflate_stored(Upto(deflate_stored(data), n)), data)
=============================================================================
