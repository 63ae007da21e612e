------------------------------ MODULE ByteRange ------------------------------
(***************************************************************************)
(* What a GET answers: the Range header (storage/common.go), how the two   *)
(* backends apply it, the decryption of a server-encrypted upload, and the *)
(* validator that turns the answer into a 304 (caching.go, download.go).   *)
(*                                                                         *)
(* Integers have Width bits, uint64 in the code, and wrap.                 *)
(***************************************************************************)
EXTENDS Integers, Sequences

CONSTANTS
    Width,    \* bits of an integer
    OpenEnd,  \* the end of a range that has none: "bytes=5-"
    NoRange   \* no Range header, or one that is ignored

ASSUME RangeWidth == Width \in Nat \ {0}

Word == 2 ^ Width
From(s, n) == SubSeq(s, n + 1, Len(s))
FirstOf(s, n) == IF n < Len(s) THEN SubSeq(s, 1, n) ELSE s

\* ParseRange, of a header that has the form "bytes=start-finish"; limit 0 asks
\* for everything from start on.  Mutant: the last byte is not part of the range.
ParseRangeExclusive(header) ==
    IF header = NoRange THEN NoRange
    ELSE IF header.finish = OpenEnd THEN [start |-> header.start, limit |-> 0]
    ELSE IF header.finish < header.start THEN NoRange
    ELSE [start |-> header.start, limit |-> header.finish - header.start]
ParseRange(header) ==
    IF header = NoRange THEN NoRange
    ELSE IF header.finish = OpenEnd THEN [start |-> header.start, limit |-> 0]
    ELSE IF header.finish < header.start \/ (header.finish + 1) % Word = 0 THEN NoRange
    ELSE [start |-> header.start, limit |-> header.finish - header.start + 1]

\* Range.AcceptLength.  The subtraction wraps when start is past the end.
AcceptLength(rng, length) ==
    LET limit == IF rng.limit = 0 THEN (length - rng.start) % Word ELSE rng.limit
        accepted == rng.start <= length /\ limit <= length - rng.start
    IN  [accepted |-> accepted, limit |-> limit,
         length |-> IF accepted THEN limit ELSE length]

\* io.LimitReader(reader, int64(rng.Limit)) of getHandler, for a range that has been
\* accepted: 2^63 or more is a negative limit, after which there is nothing to read.
LimitReader(bytes, limit) ==
    IF limit = 0 THEN bytes ELSE IF limit >= Word \div 2 THEN <<>> ELSE FirstOf(bytes, limit)

\* What a backend's Get returns: whether it failed, the length it names, whether
\* the range has been accepted, and the bytes that getHandler reads of it.
Whole(bytes) == [fails |-> FALSE, length |-> Len(bytes), bytes |-> bytes, accepted |-> FALSE]

\* LocalStorage.Get seeks to start whether or not the range is accepted, and a
\* start of 2^63 or more is a negative offset.  A limit of 0 limits nothing.
LocalGet(bytes, rng) ==
    LET a == AcceptLength(rng, Len(bytes)) rest == From(bytes, rng.start) IN
    [fails |-> rng.start >= Word \div 2, length |-> a.length, accepted |-> a.accepted,
     bytes |-> IF a.accepted THEN LimitReader(rest, a.limit) ELSE rest]

\* GetObject answers an error for a start past the end and cuts a range that
\* reaches beyond it; only then is it limited here.
S3Get(bytes, rng) ==
    LET rest == From(bytes, rng.start)
        cut == IF rng.limit > 0 THEN FirstOf(rest, rng.limit) ELSE rest
    IN  [fails |-> rng.start >= Len(bytes), length |-> Len(cut), accepted |-> TRUE,
         bytes |-> LimitReader(cut, rng.limit)]

\* A server that knows no ranges, which the client has to expect.
Get(backend, bytes, header) ==
    LET rng == ParseRange(header) IN
    IF rng = NoRange \/ backend = "plain" THEN Whole(bytes)
    ELSE IF backend = "local" THEN LocalGet(bytes, rng)
    ELSE S3Get(bytes, rng)

\* attachDecryptionReader: nothing that starts midway can be decrypted, and what
\* stops midway ends with an error after part of the plaintext.
Decryptable(upload, bytes) == upload.encrypted /\ bytes # <<>> /\ bytes[1] = upload.bytes[1]
DecryptedBytes(upload, bytes) ==
    IF bytes = upload.bytes THEN upload.plain ELSE FirstOf(upload.plain, Len(bytes) - 1)

\* uploadETag: an upload is never rewritten, so its token stands for its bytes;
\* whether they are decrypted is part of it.
ETag(token, decrypting) == [token |-> token, decrypting |-> decrypting]

\* etagMatches: the header is a list of validators, which may hold a "*" that any
\* upload matches.
NoTags == [any |-> FALSE, tags |-> {}]
EtagMatches(ifNoneMatch, etag) == ifNoneMatch.any \/ etag \in ifNoneMatch.tags

\* getHandler for an upload that is there.
Reply(backend, upload, header, password, ifNoneMatch) ==
    LET got == Get(backend, upload.bytes, header)
        status == IF got.accepted THEN 206 ELSE 200
    IN
    IF EtagMatches(ifNoneMatch, ETag(upload.token, password))
    THEN [status |-> 304, length |-> 0, body |-> <<>>]
    ELSE IF got.fails \/ (password /\ ~Decryptable(upload, got.bytes))
    THEN [status |-> 500, length |-> 0, body |-> <<>>]
    ELSE IF password
    THEN [status |-> status, length |-> Len(upload.plain),
          body |-> DecryptedBytes(upload, got.bytes)]
    ELSE [status |-> status, length |-> got.length, body |-> got.bytes]

\* An answer whose connection ends before its declared length is an error to
\* whoever reads it.
Complete(reply) == Len(reply.body) = reply.length
===============================================================================
