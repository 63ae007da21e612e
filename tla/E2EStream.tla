------------------------------ MODULE E2EStream ------------------------------
(***************************************************************************)
(* The client-side encryption format of client/e2e.go: a header that holds *)
(* the nonce prefix and the sealed metadata, and chunks numbered from 1,   *)
(* the last of them marked final.                                          *)
(*                                                                         *)
(* Abstractions: a cell stands for some bytes; a sealed chunk is one cell  *)
(* for each unit of its plaintext and one for the tag, and authenticates   *)
(* when all of its cells are there, in order, under the right nonce.  The  *)
(* fixed part of the header is one cell.  A stream is a record of key,     *)
(* prefix and name.                                                        *)
(***************************************************************************)
EXTENDS Naturals, Sequences

CONSTANT ChunkSize  \* e2eChunkSize, in units of plaintext

ASSUME StreamChunk == ChunkSize \in Nat \ {0}

CipherChunk == ChunkSize + 1

\* Places a and b of a sequence, counted from 0: from a up to before b.
Slice(s, a, b) == SubSeq(s, a + 1, IF b < Len(s) THEN b ELSE Len(s))
CeilDiv(n, d) == (n + d - 1) \div d
\* Pieces of the same size, the last one perhaps shorter, one after the other: length
\* in all.  pieces is indexed from 0.
EndToEnd(pieces, size, length) ==
    [j \in 1..length |-> LET c == (j - 1) \div size IN pieces[c][j - c * size]]

\* aead.Seal under e2eNonce(prefix, counter, final).
Seal(stream, counter, final, data) ==
    [i \in 1..Len(data) + 1 |->
        [i |-> i, seal |-> [key |-> stream.key, prefix |-> stream.prefix,
                            counter |-> counter, final |-> final, data |-> data]]]

\* E2EStream.header.
Header(stream) ==
    LET meta == Seal(stream, 0, FALSE, stream.name)
    IN  <<[meta[1] EXCEPT !.i = 0]>> \o meta

\* E2EStream.chunks: the last chunk is final, full or not, and an empty rest is
\* one empty chunk.
Chunks(stream, rest, counter) ==
    LET n == IF rest = <<>> THEN 1 ELSE CeilDiv(Len(rest), ChunkSize)
        chunks == [c \in 0..n - 1 |->
            Seal(stream, counter + c, c = n - 1, Slice(rest, c * ChunkSize, (c + 1) * ChunkSize))]
    IN  EndToEnd(chunks, CipherChunk, Len(rest) + n)

\* E2EStream.Reader and E2EEncryptedSize.
Ciphertext(stream, plain) == Header(stream) \o Chunks(stream, plain, 1)
EncryptedSize(n, name) ==
    LET full == n \div ChunkSize
        rest == n % ChunkSize
    IN  1 + Len(name) + 1 + full * CipherChunk
        + (IF rest > 0 \/ full = 0 THEN rest + 1 ELSE 0)

\* E2EStream.ReaderFrom: rewinds to the chunk the offset falls in and throws away
\* what precedes it.  Mutant: chunks are numbered from where it starts reading.
ReaderFromRenumbered(stream, plain, offset) ==
    LET header == Header(stream)
        index == (offset - Len(header)) \div CipherChunk
    IN  IF offset < Len(header)
        THEN Slice(Ciphertext(stream, plain), offset, Len(Ciphertext(stream, plain)))
        ELSE LET chunks == Chunks(stream, Slice(plain, index * ChunkSize, Len(plain)), 1)
             IN  Slice(chunks, offset - Len(header) - index * CipherChunk, Len(chunks))
ReaderFrom(stream, plain, offset) ==
    LET header == Header(stream)
        whole == Ciphertext(stream, plain)
        index == (offset - Len(header)) \div CipherChunk
        chunks == Chunks(stream, Slice(plain, index * ChunkSize, Len(plain)), index + 1)
    IN  IF offset < Len(header)
        THEN Slice(whole, offset, Len(whole))
        ELSE Slice(chunks, offset - Len(header) - index * CipherChunk, Len(chunks))

\* aead.Open: the cells are one whole seal, made with this key and nonce.
Opens(cells, key, prefix, counter, final) ==
    /\ cells # <<>>
    /\ cells = Seal([key |-> key, prefix |-> prefix], counter, final, cells[1].seal.data)

\* E2EDecrypt and e2eReader: the metadata first, so that a wrong key is found
\* before anything is written; then chunk after chunk, the last one final and
\* every other one not.
HeaderOpens(cipher, key) ==
    /\ cipher # <<>> /\ cipher[1].i = 0
    /\ LET seal == cipher[1].seal
       IN  Opens(Slice(cipher, 1, Len(seal.data) + 2), key, seal.prefix, 0, FALSE)
SealedName(cipher) == cipher[1].seal.data
Decrypt(cipher, key) ==
    LET name == SealedName(cipher)
        rest == Slice(cipher, Len(name) + 2, Len(cipher))
        n == CeilDiv(Len(rest), CipherChunk)
        Chunk(i) == Slice(rest, (i - 1) * CipherChunk, i * CipherChunk)
        data == [c \in 0..n - 1 |-> Chunk(c + 1)[1].seal.data]
    IN
    IF /\ HeaderOpens(cipher, key) /\ n > 0
       /\ \A i \in 1..n : Opens(Chunk(i), key, cipher[1].seal.prefix, i, i = n)
    THEN [ok |-> TRUE, name |-> name,
          plain |-> EndToEnd(data, ChunkSize, Len(rest) - n)]
    ELSE [ok |-> FALSE, name |-> <<>>, plain |-> <<>>]
===============================================================================
