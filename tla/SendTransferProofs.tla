-------------------------- MODULE SendTransferProofs --------------------------
(***************************************************************************)
(* Proofs about what the send command transfers: what an answer is good    *)
(* for (HeldFit: what another client holds is an upload as it was served), *)
(* that a stored upload decrypts (PutInv: a session holds a beginning of   *)
(* what its runs encrypt), and that get saves what it was asked for        *)
(* (GetInv: a partial file holds a beginning of the upload, or pieces that *)
(* open under no other key).  The format of client/e2e.go comes before the *)
(* last two: what is sealed opens (RoundTrip), a reader that starts midway *)
(* goes on in the same ciphertext (ReaderFromIs), and what opens under the *)
(* key of an upload is that upload (OpenedIsOwn).                          *)
(***************************************************************************)
EXTENDS Send, SequenceTheorems, TLAPS

-------------------------------------------------------------------------------
(* Sequences, whatever they are made of *)

LEMMA TableIsSeq ==
    ASSUME NEW n \in Nat, NEW f, f = [i \in 1..n |-> f[i]]
    PROVE  f \in Seq(Range(f)) /\ Len(f) = n /\ DOMAIN f = 1..n
<1>1. DOMAIN f = 1..n
  OBVIOUS
<1>2. \A i \in 1..n : f[i] \in Range(f)
  BY <1>1 DEF Range
<1>3. f \in [1..n -> Range(f)]
  BY <1>2
<1>4. f \in Seq(Range(f))
  BY <1>3
<1>. QED BY <1>1, <1>4

LEMMA SeqIsTable ==
    ASSUME NEW S, NEW s \in Seq(S)
    PROVE  Len(s) \in Nat /\ s = [i \in 1..Len(s) |-> s[i]] /\ s \in Seq(Range(s))
<1>1. Len(s) \in Nat /\ s = [i \in 1..Len(s) |-> s[i]]
  OBVIOUS
<1>. QED BY <1>1, TableIsSeq

IsSeq(s) == s \in Seq(Range(s))
\* u is s with t after it.
JoinOf(u, s, t) ==
    /\ IsSeq(u) /\ Len(s) \in Nat /\ Len(t) \in Nat /\ Len(u) = Len(s) + Len(t)
    /\ \A j \in 1..Len(s) : u[j] = s[j]
    /\ \A j \in 1..Len(t) : u[Len(s) + j] = t[j]

LEMMA JoinIs == ASSUME NEW s, NEW t, IsSeq(s), IsSeq(t) PROVE JoinOf(s \o t, s, t)
<1>. DEFINE S == Range(s) \cup Range(t)
<1>1. s \in Seq(S) /\ t \in Seq(S)
  BY DEF IsSeq
<1>. HIDE DEF S
<1>2. s \o t \in Seq(S) /\ Len(s \o t) = Len(s) + Len(t)
  BY <1>1
<1>3. /\ Len(s) \in Nat /\ Len(t) \in Nat
      /\ \A j \in 1..Len(s) : (s \o t)[j] = s[j]
      /\ \A j \in 1..Len(t) : (s \o t)[Len(s) + j] = t[j]
  BY <1>1
<1>4. IsSeq(s \o t)
  BY <1>2, SeqIsTable DEF IsSeq
<1>. QED BY <1>2, <1>3, <1>4 DEF JoinOf

\* Two sequences are the same when their cells are.
LEMMA SameCells ==
    ASSUME NEW S, NEW s \in Seq(S), NEW T, NEW t \in Seq(T), Len(s) = Len(t),
           \A j \in 1..Len(s) : s[j] = t[j]
    PROVE  s = t
<1>1. s = [j \in 1..Len(s) |-> s[j]] /\ t = [j \in 1..Len(t) |-> t[j]]
  BY SeqIsTable
<1>. QED BY <1>1

LEMMA PartIs ==
    ASSUME NEW S, NEW s \in Seq(S), NEW a \in Nat, NEW b \in Nat, a <= b, b <= Len(s)
    PROVE  /\ SubSeq(s, a + 1, b) \in Seq(S) /\ Len(SubSeq(s, a + 1, b)) = b - a
           /\ \A k \in 1..b - a : SubSeq(s, a + 1, b)[k] = s[a + k]
<1>1. \A i \in a + 1..b : s[i] \in S
  OBVIOUS
<1>. QED BY <1>1, SubSeqProperties

-------------------------------------------------------------------------------
(* What a GET answers *)

LEMMA FromIs ==
    ASSUME NEW S, NEW s \in Seq(S), NEW n \in Nat
    PROVE  /\ From(s, n) \in Seq(S)
           /\ Len(From(s, n)) = IF n < Len(s) THEN Len(s) - n ELSE 0
           /\ \A i \in 1..Len(s) - n : From(s, n)[i] = s[n + i]
           /\ n = 0 => From(s, n) = s
<1>1. \A i \in n + 1..Len(s) : s[i] \in S
  OBVIOUS
<1>2. n = 0 => From(s, n) = s
  BY SubSeqFull DEF From
<1>. QED BY <1>1, <1>2, SubSeqProperties DEF From

LEMMA FirstOfIs ==
    ASSUME NEW S, NEW s \in Seq(S), NEW n \in Nat
    PROVE  /\ FirstOf(s, n) \in Seq(S)
           /\ Len(FirstOf(s, n)) = IF n < Len(s) THEN n ELSE Len(s)
           /\ n >= Len(s) => FirstOf(s, n) = s
           /\ n > 0 /\ s # <<>> => FirstOf(s, n)[1] = s[1]
<1>1. CASE n < Len(s)
  <2>1. \A i \in 1..n : s[i] \in S
    BY <1>1
  <2>. QED BY <1>1, <2>1, SubSeqProperties DEF FirstOf
<1>2. CASE ~(n < Len(s))
  BY <1>2 DEF FirstOf
<1>. QED BY <1>1, <1>2

\* A range as asked for: what follows start, up to the end it names.
RangeOf(content, header) ==
    LET after == From(content, header.start) IN
    IF header.finish = OpenEnd THEN after
    ELSE FirstOf(after, header.finish - header.start + 1)

LEMMA SmallRemainder == ASSUME NEW n \in Nat, NEW w \in Int, n < w PROVE n % w = n
OBVIOUS

LEMMA HalfAWord ==
    ASSUME NEW w \in Int, NEW n \in Nat, n < w \div 2
    PROVE  n < w
OBVIOUS

LEMMA ParsedRange ==
    ASSUME NEW header \in Headers, ParseRange(header) # NoRange
    PROVE  /\ header \in [start : 0..Word - 1, finish : (0..Word - 1) \cup {OpenEnd}]
           /\ ParseRange(header) =
                 [start |-> header.start,
                  limit |-> IF header.finish = OpenEnd THEN 0
                            ELSE header.finish - header.start + 1]
           /\ header.start \in Nat
           /\ header.finish # OpenEnd =>
                 header.finish \in Nat /\ header.finish - header.start + 1 \in Nat \ {0}
BY HeaderAssumption DEF ParseRange

\* What is read of a range that has been accepted is the range, or nothing where a
\* length is named; one that has not names the length of all of it.
LEMMA BackendsReadTheRange ==
    ASSUME NEW u \in DOMAIN Offers, NEW b, NEW header \in Headers
    PROVE  LET bytes == Offers[u].bytes got == Get(b, bytes, header) IN
           /\ got.accepted \in BOOLEAN
           /\ got.accepted /\ ~got.fails =>
                 /\ header \in [start : 0..Word - 1, finish : (0..Word - 1) \cup {OpenEnd}]
                 /\ \/ got.bytes = RangeOf(bytes, header)
                    \/ got.bytes = <<>> /\ got.length # 0
           /\ ~got.accepted => /\ got.length = Len(bytes)
                               /\ \E n \in Nat : got.bytes = From(bytes, n)
<1>. DEFINE bytes == Offers[u].bytes
            rng == ParseRange(header)
<1>1. /\ bytes \in Seq(Range(bytes)) /\ Len(bytes) \in Nat /\ Word \in Int
      /\ Len(bytes) < Word \div 2 /\ Len(bytes) < Word
  <2>1. /\ bytes \in Seq(Range(bytes)) /\ Len(bytes) \in Nat /\ Word \in Int
        /\ Len(bytes) < Word \div 2
    BY OfferAssumption, RangeWidth DEF Word
  <2>. HIDE DEF bytes
  <2>. QED BY <2>1, HalfAWord
<1>. HIDE DEF bytes, rng
<1>2. CASE rng = NoRange \/ b = "plain"
  <2>1. Get(b, bytes, header) = Whole(bytes)
    BY <1>2 DEF Get, rng
  <2>2. bytes = From(bytes, 0)
    BY <1>1, FromIs
  <2>. QED BY <2>1, <2>2 DEF Whole, bytes
<1>3. CASE rng # NoRange /\ b # "plain"
  <2>. DEFINE start == header.start
              limit == IF header.finish = OpenEnd THEN 0 ELSE header.finish - start + 1
              rest == From(bytes, start)
  <2>1. /\ header \in [start : 0..Word - 1, finish : (0..Word - 1) \cup {OpenEnd}]
        /\ rng = [start |-> start, limit |-> limit] /\ start \in Nat /\ limit \in Nat
        /\ header.finish # OpenEnd => limit > 0
    BY <1>3, ParsedRange DEF rng
  <2>2. rest \in Seq(Range(bytes)) /\ Len(rest) = IF start < Len(bytes) THEN Len(bytes) - start ELSE 0
    <3>1. bytes \in Seq(Range(bytes)) /\ start \in Nat
      BY <1>1, <2>1
    <3>. HIDE DEF start
    <3>. QED BY <3>1, FromIs DEF rest
  <2>3. RangeOf(bytes, header) = IF limit = 0 THEN rest ELSE FirstOf(rest, limit)
    BY <2>1 DEF RangeOf
  <2>. HIDE DEF limit, rest, start
  <2>4. CASE b = "local"
    <3>. DEFINE a == AcceptLength(rng, Len(bytes))
    <3>1. Get(b, bytes, header) = LocalGet(bytes, rng)
      BY <1>3, <2>4 DEF Get, rng
    <3>2. /\ a.accepted \in BOOLEAN /\ (~a.accepted => a.length = Len(bytes))
          /\ a.accepted => start <= Len(bytes) /\ a.limit <= Len(bytes) - start
          /\ a.limit = IF limit = 0 THEN (Len(bytes) - start) % Word ELSE limit
      BY <2>1 DEF AcceptLength
    <3>3. ASSUME a.accepted
          PROVE  RangeOf(bytes, header) = LimitReader(rest, a.limit)
      <4>0. a.limit < Word \div 2
        <5>1. start \in Nat /\ a.limit <= Len(bytes) - start /\ Len(bytes) < Word \div 2
          BY <1>1, <2>1, <3>2, <3>3
        <5>2. a.limit \in Int
          BY <1>1, <2>1, <3>2
        <5>. HIDE DEF a
        <5>. QED BY <1>1, <5>1, <5>2
      <4>1. CASE limit # 0
        <5>1. a.limit = limit /\ ~(a.limit >= Word \div 2)
          BY <1>1, <2>1, <3>2, <4>0, <4>1
        <5>. HIDE DEF a
        <5>. QED BY <2>3, <4>1, <5>1 DEF LimitReader
      <4>2. CASE limit = 0
        <5>1. (Len(bytes) - start) % Word = Len(bytes) - start
          <6>1. Len(bytes) - start \in Nat /\ Len(bytes) - start < Word
            BY <1>1, <2>1, <3>2, <3>3
          <6>. QED BY <1>1, <6>1, SmallRemainder
        <5>2. a.limit = Len(bytes) - start /\ a.limit \in Nat /\ a.limit >= Len(rest)
          BY <1>1, <2>1, <2>2, <3>2, <3>3, <4>2, <5>1
        <5>3. FirstOf(rest, a.limit) = rest
          BY <2>2, <5>2, FirstOfIs
        <5>4. ~(a.limit >= Word \div 2)
          BY <1>1, <4>0, <5>2
        <5>. HIDE DEF a
        <5>. QED BY <2>3, <4>2, <5>3, <5>4 DEF LimitReader
      <4>. QED BY <4>1, <4>2
    <3>4. /\ LocalGet(bytes, rng).accepted = a.accepted
          /\ LocalGet(bytes, rng).length = a.length
          /\ LocalGet(bytes, rng).bytes =
                IF a.accepted THEN LimitReader(rest, a.limit) ELSE rest
      BY <2>1 DEF LocalGet, rest
    <3>. HIDE DEF a
    <3>. DEFINE got == Get(b, bytes, header)
    <3>5. got.accepted = a.accepted /\ (a.accepted => got.bytes = RangeOf(bytes, header))
      BY <3>1, <3>3, <3>4
    <3>6. ~a.accepted => got.length = Len(bytes) /\ got.bytes = From(bytes, start)
      BY <3>1, <3>2, <3>4 DEF rest
    <3>. HIDE DEF got
    <3>7. /\ got.accepted \in BOOLEAN
          /\ got.accepted => got.bytes = RangeOf(bytes, header)
          /\ ~got.accepted => /\ got.length = Len(bytes)
                              /\ \E n \in Nat : got.bytes = From(bytes, n)
      BY <2>1, <3>2, <3>5, <3>6, Zenon
    <3>. QED BY <2>1, <3>7 DEF bytes, got
  <2>5. CASE b # "local"
    <3>1. Get(b, bytes, header) = S3Get(bytes, rng)
      BY <1>3, <2>5 DEF Get, rng
    <3>. DEFINE cut == IF limit = 0 THEN rest ELSE FirstOf(rest, limit)
    <3>2. /\ S3Get(bytes, rng).accepted
          /\ S3Get(bytes, rng).fails = (start >= Len(bytes))
          /\ S3Get(bytes, rng).length = Len(cut)
          /\ S3Get(bytes, rng).bytes = LimitReader(cut, limit)
      BY <2>1 DEF S3Get, rest
    <3>3. ASSUME ~(start >= Len(bytes)) PROVE Len(cut) # 0
      <4>1. Len(rest) > 0 /\ Len(rest) \in Nat
        BY <1>1, <2>1, <2>2, <3>3
      <4>2. CASE limit = 0
        BY <4>1, <4>2
      <4>3. CASE limit # 0
        <5>1. Len(FirstOf(rest, limit)) = IF limit < Len(rest) THEN limit ELSE Len(rest)
          BY <2>1, <2>2, FirstOfIs
        <5>. QED BY <2>1, <4>1, <4>3, <5>1
      <4>. QED BY <4>2, <4>3
    <3>4. LimitReader(cut, limit) = cut \/ LimitReader(cut, limit) = <<>>
      <4>1. FirstOf(FirstOf(rest, limit), limit) = FirstOf(rest, limit)
        <5>1. /\ FirstOf(rest, limit) \in Seq(Range(bytes))
              /\ Len(FirstOf(rest, limit)) = IF limit < Len(rest) THEN limit ELSE Len(rest)
          BY <2>1, <2>2, FirstOfIs
        <5>2. limit >= Len(FirstOf(rest, limit))
          BY <2>1, <2>2, <5>1
        <5>. QED BY <2>1, <5>1, <5>2, FirstOfIs
      <4>. QED BY <4>1 DEF LimitReader
    <3>5. RangeOf(bytes, header) = cut
      BY <2>3
    <3>. HIDE DEF cut
    <3>. QED BY <2>1, <3>1, <3>2, <3>3, <3>4, <3>5 DEF bytes
  <2>. QED BY <2>4, <2>5
<1>. QED BY <1>2, <1>3

\* Only a range that says something is accepted.
LEMMA BackendsParsed ==
    ASSUME NEW b, NEW bytes, NEW header \in Headers, Get(b, bytes, header).accepted
    PROVE  /\ header.start \in Nat
           /\ header.finish # OpenEnd =>
                 header.finish \in Nat /\ header.finish - header.start + 1 \in Nat \ {0}
<1>1. ParseRange(header) # NoRange
  BY DEF Get, Whole
<1>. QED BY <1>1, ParsedRange

LEMMA RangeStarts ==
    ASSUME NEW S, NEW s \in Seq(S), NEW header, header.start \in Nat,
           header.finish # OpenEnd =>
              header.finish \in Nat /\ header.finish - header.start + 1 \in Nat \ {0}
    PROVE  /\ RangeOf(s, header) \in Seq(S)
           /\ RangeOf(s, header) # <<>> =>
                 /\ header.start < Len(s) /\ RangeOf(s, header)[1] = s[header.start + 1]
           /\ header.start = 0 /\ header.finish # OpenEnd =>
                 RangeOf(s, header) = FirstOf(s, header.finish + 1)
           /\ header.start = 0 /\ header.finish = OpenEnd => RangeOf(s, header) = s
<1>. DEFINE after == From(s, header.start)
            limit == header.finish - header.start + 1
<1>1. /\ after \in Seq(S) /\ Len(s) \in Nat
      /\ Len(after) = IF header.start < Len(s) THEN Len(s) - header.start ELSE 0
      /\ header.start < Len(s) => after[1] = s[header.start + 1]
      /\ header.start = 0 => after = s
  <2>1. /\ after \in Seq(S)
        /\ Len(after) = IF header.start < Len(s) THEN Len(s) - header.start ELSE 0
        /\ \A i \in 1..Len(s) - header.start : after[i] = s[header.start + i]
        /\ header.start = 0 => after = s
    <3>1. header.start \in Nat
      OBVIOUS
    <3>. QED BY <3>1, FromIs, Zenon
  <2>2. Len(s) \in Nat
    OBVIOUS
  <2>. HIDE DEF after
  <2>3. header.start < Len(s) => after[1] = s[header.start + 1]
    BY <2>1, <2>2
  <2>. QED BY <2>1, <2>2, <2>3
<1>2. RangeOf(s, header) = IF header.finish = OpenEnd THEN after ELSE FirstOf(after, limit)
  BY DEF RangeOf
<1>3. header.finish # OpenEnd =>
         /\ FirstOf(after, limit) \in Seq(S)
         /\ FirstOf(after, limit) # <<>> => after # <<>> /\ FirstOf(after, limit)[1] = after[1]
  <2>. SUFFICES ASSUME header.finish # OpenEnd
                PROVE  /\ FirstOf(after, limit) \in Seq(S)
                       /\ FirstOf(after, limit) # <<>> =>
                             after # <<>> /\ FirstOf(after, limit)[1] = after[1]
    OBVIOUS
  <2>. HIDE DEF after, limit
  <2>1. limit \in Nat /\ limit > 0
    BY DEF limit
  <2>2. FirstOf(after, limit) \in Seq(S) /\ (after # <<>> => FirstOf(after, limit)[1] = after[1])
    BY <1>1, <2>1, FirstOfIs
  <2>3. after = <<>> => FirstOf(after, limit) = <<>>
    BY <2>1 DEF FirstOf
  <2>. QED BY <2>2, <2>3
<1>4. header.start = 0 /\ header.finish # OpenEnd => limit = header.finish + 1
  <2>. SUFFICES ASSUME header.start = 0, header.finish # OpenEnd
                PROVE  header.finish - header.start + 1 = header.finish + 1
    OBVIOUS
  <2>. QED OBVIOUS
<1>. HIDE DEF after, limit
<1>5. after # <<>> => header.start < Len(s) /\ after[1] = s[header.start + 1]
  BY <1>1
<1>. QED BY <1>1, <1>2, <1>3, <1>4, <1>5

\* What comes out of a decryption as long as the plaintext is the plaintext.
LEMMA DecryptedWhole ==
    ASSUME NEW u \in DOMAIN Offers, Offers[u].encrypted, NEW S, NEW bytes \in Seq(S),
           bytes # <<>>,
           Len(DecryptedBytes(Offers[u], bytes)) = Len(Offers[u].plain)
    PROVE  /\ DecryptedBytes(Offers[u], bytes) = Offers[u].plain
           /\ Len(bytes) > Len(Offers[u].plain)
<1>. DEFINE plain == Offers[u].plain
<1>1. plain \in Seq(Range(plain)) /\ Len(plain) \in Nat /\ Len(plain) < Len(Offers[u].bytes)
  BY OfferAssumption
<1>2. CASE bytes = Offers[u].bytes
  BY <1>1, <1>2 DEF DecryptedBytes
<1>3. CASE bytes # Offers[u].bytes
  <2>1. Len(bytes) - 1 \in Nat
    OBVIOUS
  <2>2. DecryptedBytes(Offers[u], bytes) = FirstOf(plain, Len(bytes) - 1)
    BY <1>3 DEF DecryptedBytes
  <2>. HIDE DEF plain
  <2>3. Len(bytes) - 1 >= Len(plain) /\ FirstOf(plain, Len(bytes) - 1) = plain
    <3>1. Len(FirstOf(plain, Len(bytes) - 1)) = Len(plain)
      BY <2>2 DEF plain
    <3>2. Len(bytes) - 1 >= Len(plain)
      BY <1>1, <2>1, <3>1, FirstOfIs
    <3>. QED BY <1>1, <2>1, <3>2, FirstOfIs
  <2>. QED BY <1>1, <2>1, <2>2, <2>3 DEF plain
<1>. QED BY <1>2, <1>3

\* Only what starts at the beginning decrypts.
LEMMA DecryptsFromTheStart ==
    ASSUME NEW u \in DOMAIN Offers, NEW n \in Nat, Offers[u].encrypted,
           n < Len(Offers[u].bytes), Offers[u].bytes[n + 1] = Offers[u].bytes[1]
    PROVE  n = 0
BY OfferAssumption

LEMMA ReplyFits ==
    ASSUME NEW u \in DOMAIN Offers, NEW b, NEW header \in Headers, NEW password \in BOOLEAN,
           NEW tag
    PROVE  LET reply == Reply(b, Offers[u], header, password, tag)
               content == Content(u, password)
           IN  /\ reply.status = 200 /\ Complete(reply) => reply.body = content
               /\ reply.status = 206 /\ Complete(reply) =>
                     reply.body = RangeOf(content, header)
               /\ reply.status = 304 => EtagMatches(tag, ETag(Offers[u].token, password))
<1>. DEFINE upload == Offers[u]
            got == Get(b, upload.bytes, header)
            status == IF got.accepted THEN 206 ELSE 200
            reply == Reply(b, upload, header, password, tag)
<1>1. CASE EtagMatches(tag, ETag(upload.token, password))
  BY <1>1 DEF Reply
<1>2. CASE ~EtagMatches(tag, ETag(upload.token, password)) /\
           (got.fails \/ (password /\ ~Decryptable(upload, got.bytes)))
  BY <1>2 DEF Reply
<1>3. CASE ~EtagMatches(tag, ETag(upload.token, password)) /\ ~got.fails /\ ~password
  <2>1. reply = [status |-> status, length |-> got.length, body |-> got.bytes]
    BY <1>3 DEF Reply
  <2>2. Content(u, password) = upload.bytes
    BY <1>3 DEF Content
  <2>3. upload.bytes \in Seq(Range(upload.bytes))
    BY OfferAssumption
  <2>4. /\ got.accepted \in BOOLEAN
        /\ got.accepted /\ Len(got.bytes) = got.length => got.bytes = RangeOf(upload.bytes, header)
    <3>1. Len(<<>>) = 0
      OBVIOUS
    <3>2. /\ got.accepted \in BOOLEAN
          /\ got.accepted => \/ got.bytes = RangeOf(upload.bytes, header)
                             \/ got.bytes = <<>> /\ got.length # 0
      BY <1>3, BackendsReadTheRange
    <3>. HIDE DEF got
    <3>. QED BY <3>1, <3>2
  <2>5. ASSUME ~got.accepted, Len(got.bytes) = got.length PROVE got.bytes = upload.bytes
    <3>1. PICK n \in Nat : got.bytes = From(upload.bytes, n)
      BY <2>5, BackendsReadTheRange
    <3>2. Len(got.bytes) = Len(upload.bytes)
      BY <2>5, BackendsReadTheRange
    <3>. HIDE DEF got, upload
    <3>3. /\ Len(upload.bytes) \in Nat
          /\ Len(From(upload.bytes, n)) =
                IF n < Len(upload.bytes) THEN Len(upload.bytes) - n ELSE 0
          /\ From(upload.bytes, n) \in Seq(Range(upload.bytes))
          /\ n = 0 => From(upload.bytes, n) = upload.bytes
      <4>1. Len(upload.bytes) \in Nat
        BY <2>3
      <4>. QED BY <2>3, <4>1, FromIs, Zenon
    <3>4. n = 0 \/ Len(upload.bytes) = 0
      BY <3>1, <3>2, <3>3
    <3>. QED BY <2>3, <3>1, <3>2, <3>3, <3>4
  <2>. HIDE DEF got, reply, upload
  <2>6. /\ reply.status = status /\ reply.body = got.bytes /\ reply.length = got.length
    BY <2>1
  <2>. QED BY <2>2, <2>4, <2>5, <2>6 DEF Complete, reply, upload
<1>4. CASE /\ ~EtagMatches(tag, ETag(upload.token, password))
           /\ ~got.fails /\ password /\ Decryptable(upload, got.bytes)
  <2>1. reply = [status |-> status, length |-> Len(upload.plain),
                 body |-> DecryptedBytes(upload, got.bytes)]
    BY <1>4 DEF Reply
  <2>2. Content(u, password) = upload.plain
    BY <1>4 DEF Content
  <2>3. /\ upload.encrypted /\ got.bytes # <<>> /\ got.bytes[1] = upload.bytes[1]
        /\ upload.bytes \in Seq(Range(upload.bytes)) /\ upload.plain \in Seq(Range(upload.plain))
    BY <1>4, OfferAssumption DEF Decryptable
  <2>4. got.bytes \in Seq(Range(upload.bytes))
    <3>1. CASE got.accepted
      <4>1. /\ got.bytes = RangeOf(upload.bytes, header)
            /\ header \in [start : 0..Word - 1, finish : (0..Word - 1) \cup {OpenEnd}]
        <5>1. \/ got.bytes = RangeOf(upload.bytes, header)
              \/ got.bytes = <<>> /\ got.length # 0
          BY <1>4, <3>1, BackendsReadTheRange
        <5>2. header \in [start : 0..Word - 1, finish : (0..Word - 1) \cup {OpenEnd}]
          BY <1>4, <3>1, BackendsReadTheRange
        <5>. HIDE DEF got
        <5>. QED BY <2>3, <5>1, <5>2
      <4>2. /\ header.start \in Nat
            /\ header.finish # OpenEnd =>
                  header.finish \in Nat /\ header.finish - header.start + 1 \in Nat \ {0}
        BY <1>4, <3>1, BackendsParsed
      <4>3. RangeOf(upload.bytes, header) \in Seq(Range(upload.bytes))
        BY <2>3, <4>2, RangeStarts
      <4>. QED BY <4>1, <4>3
    <3>2. CASE ~got.accepted
      <4>1. PICK n \in Nat : got.bytes = From(upload.bytes, n)
        BY <3>2, BackendsReadTheRange
      <4>. QED BY <2>3, <4>1, FromIs
    <3>. QED BY <3>1, <3>2
  <2>5. ASSUME Complete(reply)
        PROVE  reply.body = upload.plain /\ Len(got.bytes) > Len(upload.plain)
    <3>1. Len(DecryptedBytes(upload, got.bytes)) = Len(upload.plain)
      BY <2>1, <2>5 DEF Complete
    <3>. QED BY <2>1, <2>3, <2>4, <3>1, DecryptedWhole
  <2>6. ASSUME Complete(reply), got.accepted
        PROVE  reply.body = RangeOf(upload.plain, header)
    <3>1. /\ got.bytes = RangeOf(upload.bytes, header) /\ header.start \in Nat
          /\ header.finish # OpenEnd =>
                header.finish \in Nat /\ header.finish - header.start + 1 \in Nat \ {0}
      <4>1. \/ got.bytes = RangeOf(upload.bytes, header)
            \/ got.bytes = <<>> /\ got.length # 0
        BY <1>4, <2>6, BackendsReadTheRange
      <4>2. /\ header.start \in Nat
            /\ header.finish # OpenEnd =>
                  header.finish \in Nat /\ header.finish - header.start + 1 \in Nat \ {0}
        BY <2>6, BackendsParsed
      <4>. HIDE DEF got
      <4>. QED BY <2>3, <4>1, <4>2
    <3>. HIDE DEF got, reply
    <3>2. header.start < Len(upload.bytes) /\ upload.bytes[header.start + 1] = upload.bytes[1]
      BY <2>3, <3>1, RangeStarts
    <3>3. header.start = 0
      BY <2>3, <3>1, <3>2, DecryptsFromTheStart
    <3>4. CASE header.finish = OpenEnd
      BY <2>3, <2>5, <2>6, <3>1, <3>3, <3>4, RangeStarts
    <3>5. CASE header.finish # OpenEnd
      <4>. DEFINE k == header.finish + 1
      <4>1. k \in Nat /\ got.bytes = FirstOf(upload.bytes, k)
        BY <2>3, <3>1, <3>3, <3>5, RangeStarts
      <4>2. RangeOf(upload.plain, header) = FirstOf(upload.plain, k)
        BY <2>3, <3>1, <3>3, <3>5, RangeStarts
      <4>. HIDE DEF k, upload
      <4>3. Len(got.bytes) <= k
        BY <2>3, <4>1, FirstOfIs
      <4>4. k >= Len(upload.plain)
        BY <2>3, <2>4, <2>5, <2>6, <4>1, <4>3
      <4>5. FirstOf(upload.plain, k) = upload.plain
        BY <2>3, <4>1, <4>4, FirstOfIs
      <4>. QED BY <2>5, <2>6, <4>2, <4>5
    <3>. QED BY <3>4, <3>5
  <2>7. got.accepted \in BOOLEAN
    BY BackendsReadTheRange
  <2>. HIDE DEF got, reply, upload
  <2>8. reply.status = status
    BY <2>1
  <2>. QED BY <2>2, <2>5, <2>6, <2>7, <2>8 DEF reply, upload
<1>. QED BY <1>1, <1>2, <1>3, <1>4

\* What the other client holds is an upload as it was served, under its validator.
HeldFit ==
    \A mine \in held : \E u \in DOMAIN Offers, decrypting \in BOOLEAN :
        mine = [etag |-> ETag(Offers[u].token, decrypting), body |-> Content(u, decrypting)]

LEMMA EtagsTellApart ==
    ASSUME NEW u \in DOMAIN Offers, NEW v \in DOMAIN Offers, NEW a, NEW b,
           ETag(Offers[u].token, a) = ETag(Offers[v].token, b)
    PROVE  u = v /\ a = b
<1>1. Offers[u].token = Offers[v].token /\ a = b
  BY DEF ETag
<1>. QED BY <1>1, OfferAssumption

LEMMA ProbeFits ==
    ASSUME HeldFit, NEW u \in DOMAIN Offers, NEW header \in Headers, NEW password \in BOOLEAN,
           Probe(u, header, password)
    PROVE  HeldFit' /\ AnswersFit'
<1>. DEFINE tags(mine, any) == [any |-> any, tags |-> {h.etag : h \in mine}]
            ask(mine, any) == Reply(backend, Offers[u], header, password, tags(mine, any))
            content == Content(u, password)
            etag == ETag(Offers[u].token, password)
<1>1. PICK mine \in SUBSET held, any \in BOOLEAN :
         /\ answer' = [of |-> u, header |-> header, password |-> password, mine |-> mine,
                       any |-> any, status |-> ask(mine, any).status,
                       body |-> ask(mine, any).body, whole |-> Complete(ask(mine, any))]
         /\ held' = IF ask(mine, any).status = 200 /\ Complete(ask(mine, any))
                    THEN held \cup {[etag |-> etag, body |-> ask(mine, any).body]}
                    ELSE held
  BY DEF Probe
<1>. DEFINE reply == ask(mine, any)
<1>2. /\ reply.status = 200 /\ Complete(reply) => reply.body = content
      /\ reply.status = 206 /\ Complete(reply) => reply.body = RangeOf(content, header)
      /\ reply.status = 304 => EtagMatches(tags(mine, any), etag)
  BY ReplyFits
<1>3. ASSUME reply.status = 304, ~any PROVE \E h \in mine : h.body = content
  <2>1. PICK h \in mine : h.etag = etag
    <3>1. EtagMatches(tags(mine, any), etag)
      BY <1>2, <1>3
    <3>. QED BY <1>3, <3>1 DEF EtagMatches
  <2>2. PICK v \in DOMAIN Offers, decrypting \in BOOLEAN :
           h = [etag |-> ETag(Offers[v].token, decrypting), body |-> Content(v, decrypting)]
    BY <2>1 DEF HeldFit
  <2>3. v = u /\ decrypting = password
    <3>1. ETag(Offers[v].token, decrypting) = ETag(Offers[u].token, password)
      BY <2>1, <2>2
    <3>. QED BY <3>1, EtagsTellApart
  <2>. QED BY <2>2, <2>3
<1>. HIDE DEF reply
<1>4. HeldFit'
  <2>1. CASE held' = held
    BY <2>1 DEF HeldFit
  <2>2. CASE held' = held \cup {[etag |-> etag, body |-> content]}
    BY <2>2 DEF HeldFit
  <2>. QED BY <1>1, <1>2, <2>1, <2>2 DEF reply
<1>5. /\ answer'.of = u /\ answer'.header = header /\ answer'.password = password
      /\ answer'.mine = mine /\ answer'.any = any /\ answer'.status = reply.status
      /\ answer'.body = reply.body /\ answer'.whole = Complete(reply)
  BY <1>1 DEF reply
<1>6. AnswersFit'
  BY <1>2, <1>3, <1>5 DEF AnswersFit, RangeOf
<1>. QED BY <1>4, <1>6

\* An answer that arrives complete is what was asked for: the upload or the
\* range of it, as stored or decrypted, and a 304 only for who names that content
\* among what it holds, or asks for one with "*".
\* For any uploads, widths, headers, backends and sequences of requests.
THEOREM AnswersAreFit == Spec => []AnswersFit
<1>1. Init => HeldFit /\ AnswersFit
  BY DEF Init, TransferInit, HeldFit, AnswersFit
<1>2. HeldFit /\ AnswersFit /\ [Next]_vars => (HeldFit /\ AnswersFit)'
  <2>. SUFFICES ASSUME HeldFit, AnswersFit, [Next]_vars PROVE HeldFit' /\ AnswersFit'
    OBVIOUS
  <2>1. CASE UNCHANGED <<answer, held>>
    BY <2>1 DEF HeldFit, AnswersFit
  <2>2. CASE \E u \in DOMAIN Offers, header \in Headers, password \in BOOLEAN :
                Probe(u, header, password)
    BY <2>2, ProbeFits
  <2>3. \/ UNCHANGED <<answer, held>>
        \/ \E u \in DOMAIN Offers, header \in Headers, password \in BOOLEAN :
              Probe(u, header, password)
    <3>1. CASE UNCHANGED vars
      BY <3>1 DEF vars, transferVars, probeVars
    <3>2. CASE Next
      BY <3>2 DEF Next, Transfer, Record, transferVars, probeVars, BeginGet, AnswerGet, Receive,
         EndGet, DecryptFile, BreakGet, PutWhole, ResumePut, StartPut, SendCells, CommitPut,
         FinishPut, BreakPut, EditFile, ForgetSession
    <3>. QED BY <3>1, <3>2
  <2>. QED BY <2>1, <2>2, <2>3
<1>. QED BY <1>1, <1>2, PTL DEF Spec

-------------------------------------------------------------------------------
(* The encrypted stream.  Every cell of it has a place: the k-th of chunk c, *)
(* counted from 0.                                                           *)

LEMMA Multiples ==
    ASSUME NEW d \in Nat, NEW a \in Int, NEW b \in Int, a < b
    PROVE  d * a + d <= d * b
<1>1. b - a - 1 \in Nat
  OBVIOUS
<1>2. d * (b - a - 1) >= 0
  BY <1>1
<1>3. d * (b - a - 1) = d * b - d * a - d
  OBVIOUS
<1>. QED BY <1>2, <1>3

LEMMA Quotient ==
    ASSUME NEW n \in Nat, NEW d \in Nat \ {0}
    PROVE  n \div d \in Nat /\ d * (n \div d) <= n /\ n < d * (n \div d) + d
OBVIOUS

LEMMA QuotientIs ==
    ASSUME NEW n \in Nat, NEW d \in Nat \ {0}, NEW q \in Nat, d * q <= n, n < d * q + d
    PROVE  n \div d = q
<1>. DEFINE r == n \div d
<1>1. r \in Nat /\ d * r <= n /\ n < d * r + d
  BY Quotient
<1>. HIDE DEF r
<1>2. ~(q < r)
  BY <1>1, Multiples
<1>3. ~(r < q)
  BY <1>1, Multiples
<1>4. r = q
  BY <1>1, <1>2, <1>3
<1>. QED BY <1>4 DEF r

NumChunks(plain) == IF plain = <<>> THEN 1 ELSE CeilDiv(Len(plain), ChunkSize)
Piece(plain, c) == Slice(plain, c * ChunkSize, (c + 1) * ChunkSize)

LEMMA NumChunksIs ==
    ASSUME NEW S, NEW plain \in Seq(S)
    PROVE  /\ NumChunks(plain) \in Nat \ {0}
           /\ ChunkSize * (NumChunks(plain) - 1) <= Len(plain)
           /\ Len(plain) <= ChunkSize * NumChunks(plain)
           /\ plain # <<>> => ChunkSize * (NumChunks(plain) - 1) < Len(plain)
<1>. USE StreamChunk
<1>1. CASE plain = <<>>
  BY <1>1 DEF NumChunks
<1>2. CASE plain # <<>>
  <2>. DEFINE m == Len(plain) + ChunkSize - 1
              q == m \div ChunkSize
  <2>1. Len(plain) \in Nat \ {0} /\ m \in Nat
    BY <1>2
  <2>2. q \in Nat /\ ChunkSize * q <= m /\ m < ChunkSize * q + ChunkSize
    BY <2>1, Quotient
  <2>3. NumChunks(plain) = q
    BY <1>2 DEF NumChunks, CeilDiv
  <2>. HIDE DEF q
  <2>4. q # 0
    BY <2>1, <2>2
  <2>5. ChunkSize * (q - 1) = ChunkSize * q - ChunkSize
    BY <2>2
  <2>. QED BY <2>1, <2>2, <2>3, <2>4, <2>5
<1>. QED BY <1>1, <1>2

\* The other way round: the number is the only one with these bounds.
LEMMA NumChunksOnly ==
    ASSUME NEW S, NEW plain \in Seq(S), plain # <<>>, NEW q \in Nat \ {0},
           ChunkSize * q - ChunkSize < Len(plain), Len(plain) <= ChunkSize * q
    PROVE  NumChunks(plain) = q
<1>. USE StreamChunk
<1>1. ChunkSize * q \in Int /\ Len(plain) + ChunkSize - 1 \in Nat
  OBVIOUS
<1>2. (Len(plain) + ChunkSize - 1) \div ChunkSize = q
  <2>. DEFINE m == Len(plain) + ChunkSize - 1
  <2>1. m \in Nat /\ ChunkSize * q <= m /\ m < ChunkSize * q + ChunkSize
    BY <1>1
  <2>. HIDE DEF m
  <2>2. m \div ChunkSize = q
    BY <2>1, QuotientIs
  <2>. QED BY <2>2 DEF m
<1>. QED BY <1>2 DEF NumChunks, CeilDiv

LEMMA PieceIs ==
    ASSUME NEW S, NEW plain \in Seq(S), NEW c \in 0..NumChunks(plain) - 1
    PROVE  /\ Piece(plain, c) \in Seq(S)
           /\ Len(Piece(plain, c)) = IF c = NumChunks(plain) - 1
                                     THEN Len(plain) - ChunkSize * c ELSE ChunkSize
           /\ Len(Piece(plain, c)) <= ChunkSize
           /\ ChunkSize * c + Len(Piece(plain, c)) <= Len(plain)
           /\ \A k \in 1..Len(Piece(plain, c)) : Piece(plain, c)[k] = plain[ChunkSize * c + k]
<1>. USE StreamChunk
<1>. DEFINE n == NumChunks(plain)
            low == ChunkSize * c
            high == IF low + ChunkSize < Len(plain) THEN low + ChunkSize ELSE Len(plain)
<1>1. /\ n \in Nat \ {0} /\ ChunkSize * (n - 1) <= Len(plain) /\ Len(plain) <= ChunkSize * n
      /\ Len(plain) \in Nat /\ c \in 0..n - 1
  BY NumChunksIs
<1>. HIDE DEF n
<1>2. low \in Nat /\ c * ChunkSize = low /\ (c + 1) * ChunkSize = low + ChunkSize
  BY <1>1
<1>3. ChunkSize * (n - 1) = ChunkSize * n - ChunkSize
  BY <1>1
<1>4. c # n - 1 => low + ChunkSize <= ChunkSize * (n - 1)
  BY <1>1, Multiples
<1>5. Piece(plain, c) = SubSeq(plain, low + 1, high)
  BY <1>2 DEF Piece, Slice
<1>6. low <= Len(plain) /\ (c = n - 1 => Len(plain) <= low + ChunkSize)
  BY <1>1, <1>2, <1>3, <1>4
<1>7. high = IF c = n - 1 THEN Len(plain) ELSE low + ChunkSize
  BY <1>1, <1>2, <1>4, <1>6
<1>. HIDE DEF low
<1>8. low + 1 \in Int /\ high \in Int /\ high <= Len(plain) /\ low <= high
  BY <1>1, <1>2, <1>6
<1>. HIDE DEF high
<1>10. /\ SubSeq(plain, low + 1, high) \in Seq(S)
       /\ Len(SubSeq(plain, low + 1, high)) = high - low
       /\ \A k \in 1..high - low : SubSeq(plain, low + 1, high)[k] = plain[low + k]
  BY <1>2, <1>8, PartIs
<1>11. Len(Piece(plain, c)) = high - low
  BY <1>2, <1>5, <1>8, <1>10
<1>12. \A k \in 1..Len(Piece(plain, c)) : Piece(plain, c)[k] = plain[low + k]
  BY <1>2, <1>5, <1>8, <1>10, <1>11
<1>13. Len(Piece(plain, c)) = IF c = n - 1 THEN Len(plain) - low ELSE ChunkSize
  BY <1>1, <1>2, <1>7, <1>11
<1>14. low + Len(Piece(plain, c)) <= Len(plain) /\ Len(Piece(plain, c)) <= ChunkSize
  BY <1>1, <1>2, <1>6, <1>8, <1>11, <1>13
<1>15. Piece(plain, c) \in Seq(S)
  BY <1>5, <1>10
<1>. QED BY <1>12, <1>13, <1>14, <1>15 DEF n, low

SealCell(stream, counter, final, data, k) ==
    [i |-> k, seal |-> [key |-> stream.key, prefix |-> stream.prefix,
                        counter |-> counter, final |-> final, data |-> data]]

\* Which chunk a place falls into, and where in it.
LEMMA PlaceOf ==
    ASSUME NEW S, NEW plain \in Seq(S), NEW j \in 1..Len(plain) + NumChunks(plain)
    PROVE  LET c == (j - 1) \div CipherChunk IN
           /\ c \in 0..NumChunks(plain) - 1
           /\ j - c * CipherChunk \in 1..Len(Piece(plain, c)) + 1
           /\ j = CipherChunk * c + (j - c * CipherChunk)
<1>. USE StreamChunk
<1>. DEFINE n == NumChunks(plain)
            c == (j - 1) \div CipherChunk
            low == ChunkSize * c
            k == j - c * CipherChunk
<1>1. /\ n \in Nat \ {0} /\ ChunkSize * (n - 1) <= Len(plain) /\ Len(plain) <= ChunkSize * n
      /\ Len(plain) \in Nat /\ j - 1 \in Nat /\ j <= Len(plain) + n
  BY NumChunksIs
<1>2. CipherChunk \in Nat \ {0} /\ CipherChunk = ChunkSize + 1
  BY DEF CipherChunk
<1>3. c \in Nat /\ CipherChunk * c <= j - 1 /\ j - 1 < CipherChunk * c + CipherChunk
  BY <1>1, <1>2, Quotient
<1>. HIDE DEF n, c
<1>4. low \in Nat /\ CipherChunk * c = low + c /\ c * CipherChunk = low + c
  BY <1>2, <1>3
<1>5. k \in 1..ChunkSize + 1 /\ k = j - low - c
  BY <1>1, <1>2, <1>3, <1>4
<1>6. ~(n <= c)
  <2>. SUFFICES ASSUME n <= c PROVE FALSE
    OBVIOUS
  <2>1. ChunkSize * n <= low
    <3>1. CASE n = c
      BY <3>1, <1>1, <1>4
    <3>2. CASE n < c
      BY <3>2, <1>1, <1>3, <1>4, Multiples
    <3>. QED BY <1>1, <1>3, <3>1, <3>2
  <2>. QED BY <1>1, <1>2, <1>3, <1>4, <2>1
<1>7. c \in 0..n - 1
  BY <1>1, <1>3, <1>6
<1>8. Len(Piece(plain, c)) = IF c = n - 1 THEN Len(plain) - low ELSE ChunkSize
  BY <1>7, PieceIs DEF n
<1>. HIDE DEF k, low
<1>9. k \in 1..Len(Piece(plain, c)) + 1
  BY <1>1, <1>4, <1>5, <1>7, <1>8
<1>10. j = CipherChunk * c + k
  BY <1>4, <1>5, <1>1, <1>3
<1>. QED BY <1>7, <1>9, <1>10 DEF n, c, k

LEMMA ChunksAre ==
    ASSUME NEW S, NEW plain \in Seq(S), NEW stream, NEW counter \in Nat
    PROVE  /\ Len(Chunks(stream, plain, counter)) = Len(plain) + NumChunks(plain)
           /\ Chunks(stream, plain, counter) \in Seq(Range(Chunks(stream, plain, counter)))
           /\ \A c \in 0..NumChunks(plain) - 1 : \A k \in 1..Len(Piece(plain, c)) + 1 :
                 /\ CipherChunk * c + k \in 1..Len(plain) + NumChunks(plain)
                 /\ Chunks(stream, plain, counter)[CipherChunk * c + k] =
                       SealCell(stream, counter + c, c = NumChunks(plain) - 1,
                                Piece(plain, c), k)
<1>. USE StreamChunk
<1>. DEFINE n == NumChunks(plain)
            chunks == [c \in 0..n - 1 |-> Seal(stream, counter + c, c = n - 1, Piece(plain, c))]
            all == Chunks(stream, plain, counter)
<1>1. /\ n \in Nat \ {0} /\ ChunkSize * (n - 1) <= Len(plain) /\ Len(plain) <= ChunkSize * n
      /\ Len(plain) \in Nat
  BY NumChunksIs
<1>2. all = [j \in 1..Len(plain) + n |->
                chunks[(j - 1) \div CipherChunk][j - ((j - 1) \div CipherChunk) * CipherChunk]]
  BY DEF Chunks, EndToEnd, NumChunks, Piece
<1>3. Len(all) = Len(plain) + n /\ all \in Seq(Range(all))
  <2>1. Len(plain) + n \in Nat
    BY <1>1
  <2>. HIDE DEF n, chunks
  <2>2. DOMAIN all = 1..Len(plain) + n /\ all = [j \in DOMAIN all |-> all[j]]
    BY <1>2
  <2>. HIDE DEF all
  <2>. QED BY <2>1, <2>2 DEF Range
<1>4. ASSUME NEW c \in 0..n - 1, NEW k \in 1..Len(Piece(plain, c)) + 1
      PROVE  /\ CipherChunk * c + k \in 1..Len(plain) + n
             /\ all[CipherChunk * c + k] =
                   SealCell(stream, counter + c, c = n - 1, Piece(plain, c), k)
  <2>. DEFINE low == ChunkSize * c
              j == low + c + k
              data == Piece(plain, c)
  <2>1. /\ Len(data) \in Nat /\ Len(data) <= ChunkSize
        /\ Len(data) = IF c = n - 1 THEN Len(plain) - low ELSE ChunkSize
        /\ low + Len(data) <= Len(plain)
    BY PieceIs
  <2>. HIDE DEF n, chunks, all, data
  <2>2. /\ low \in Nat /\ CipherChunk * c = low + c /\ c * CipherChunk = low + c
        /\ CipherChunk \in Nat \ {0} /\ CipherChunk = ChunkSize + 1 /\ c \in Nat /\ k \in Nat
    BY <1>1, <2>1 DEF CipherChunk
  <2>. HIDE DEF low
  <2>3. j \in 1..Len(plain) + n /\ k <= Len(data) + 1 /\ k >= 1
    BY <1>1, <2>1, <2>2 DEF data
  <2>4. (j - 1) \div CipherChunk = c
    <3>. DEFINE m == j - 1
    <3>1. /\ m \in Nat /\ CipherChunk * c <= m /\ m < CipherChunk * c + CipherChunk
      BY <2>1, <2>2, <2>3
    <3>. HIDE DEF m
    <3>2. m \div CipherChunk = c
      BY <2>2, <3>1, QuotientIs
    <3>. QED BY <3>2 DEF m
  <2>5. j - c * CipherChunk = k
    BY <2>2
  <2>. HIDE DEF j
  <2>6. all[j] = chunks[c][k]
    BY <1>2, <2>3, <2>4, <2>5
  <2>7. chunks[c][k] = SealCell(stream, counter + c, c = n - 1, data, k)
    BY <2>1, <2>3 DEF chunks, Seal, SealCell, data
  <2>8. j = CipherChunk * c + k
    BY <2>2 DEF j
  <2>. QED BY <2>3, <2>6, <2>7, <2>8 DEF data
<1>. QED BY <1>3, <1>4 DEF n, all

-------------------------------------------------------------------------------
(* The stream as a whole *)

LEMMA HeaderIs ==
    ASSUME NEW S, NEW stream, stream.name \in Seq(S)
    PROVE  LET header == Header(stream) n == Len(stream.name) IN
           /\ n \in Nat /\ Len(header) = n + 2 /\ header \in Seq(Range(header))
           /\ header[1].i = 0 /\ header[1] = [i |-> 0, seal |-> header[1].seal]
           /\ header[1].seal.data = stream.name
           /\ header[1].seal.prefix = stream.prefix /\ header[1].seal.key = stream.key
           /\ \A k \in 1..n + 1 : header[1 + k] = SealCell(stream, 0, FALSE, stream.name, k)
<1>. DEFINE n == Len(stream.name)
            meta == Seal(stream, 0, FALSE, stream.name)
            first == [meta[1] EXCEPT !.i = 0]
            header == Header(stream)
<1>1. n \in Nat
  OBVIOUS
<1>. HIDE DEF n
<1>2. /\ meta = [k \in 1..n + 1 |-> SealCell(stream, 0, FALSE, stream.name, k)]
      /\ meta \in Seq(Range(meta)) /\ Len(meta) = n + 1
  <2>1. meta = [k \in 1..n + 1 |-> SealCell(stream, 0, FALSE, stream.name, k)]
    BY DEF Seal, SealCell, n
  <2>. HIDE DEF meta
  <2>2. meta = [k \in 1..n + 1 |-> meta[k]] /\ n + 1 \in Nat
    BY <1>1, <2>1
  <2>. QED BY <2>1, <2>2, TableIsSeq
<1>. HIDE DEF meta
<1>3. meta[1] = SealCell(stream, 0, FALSE, stream.name, 1)
  <2>1. 1 \in 1..n + 1
    BY <1>1
  <2>. QED BY <1>2, <2>1
<1>4. /\ first = [i |-> 0, seal |-> first.seal] /\ first.i = 0
      /\ first.seal.data = stream.name /\ first.seal.prefix = stream.prefix
      /\ first.seal.key = stream.key
  <2>. DEFINE seal == [key |-> stream.key, prefix |-> stream.prefix, counter |-> 0,
                       final |-> FALSE, data |-> stream.name]
  <2>1. seal.data = stream.name /\ seal.prefix = stream.prefix /\ seal.key = stream.key
    OBVIOUS
  <2>. HIDE DEF seal
  <2>2. first = [[i |-> 1, seal |-> seal] EXCEPT !.i = 0]
    BY <1>3 DEF SealCell, seal
  <2>. HIDE DEF first
  <2>3. first = [i |-> 0, seal |-> seal]
    BY <2>2
  <2>. QED BY <2>1, <2>3
<1>. HIDE DEF first
<1>5. header = <<first>> \o meta
  BY DEF Header, meta, first
<1>. HIDE DEF header
<1>6. /\ Len(header) = n + 2 /\ header[1] = first /\ header \in Seq(Range(header))
      /\ \A k \in 1..n + 1 : header[1 + k] = meta[k]
  <2>. DEFINE one == <<first>>
  <2>1. Len(one) = 1 /\ one[1] = first
    OBVIOUS
  <2>2. IsSeq(one)
    <3>1. one \in Seq({first})
      OBVIOUS
    <3>. HIDE DEF one
    <3>. QED BY <3>1, SeqIsTable DEF IsSeq
  <2>3. IsSeq(meta)
    BY <1>2 DEF IsSeq
  <2>. HIDE DEF one
  <2>4. JoinOf(one \o meta, one, meta)
    BY <2>2, <2>3, JoinIs
  <2>5. JoinOf(header, one, meta)
    BY <2>4, <1>5 DEF one
  <2>6. /\ IsSeq(header) /\ Len(header) = 1 + (n + 1)
        /\ \A j \in 1..1 : header[j] = one[j]
        /\ \A j \in 1..n + 1 : header[1 + j] = meta[j]
    BY <1>2, <2>1, <2>5 DEF JoinOf
  <2>. QED BY <1>1, <2>1, <2>6 DEF IsSeq
<1>8. \A k \in 1..n + 1 : header[1 + k] = SealCell(stream, 0, FALSE, stream.name, k)
  BY <1>2, <1>6
<1>. QED BY <1>1, <1>4, <1>6, <1>8 DEF n, header

\* What the rest of the proofs needs of a ciphertext: its length and its cells.
CipherOf(whole, stream, plain) ==
    /\ IsSeq(whole) /\ Len(stream.name) \in Nat /\ Len(Chunks(stream, plain, 1)) \in Nat
    /\ Len(whole) = Len(stream.name) + 2 + Len(Chunks(stream, plain, 1))
    /\ \A j \in 1..Len(stream.name) + 2 : whole[j] = Header(stream)[j]
    /\ \A j \in 1..Len(Chunks(stream, plain, 1)) :
          whole[Len(stream.name) + 2 + j] = Chunks(stream, plain, 1)[j]

LEMMA CiphertextIs ==
    ASSUME NEW plain, IsSeq(plain), NEW stream, IsSeq(stream.name)
    PROVE  CipherOf(Ciphertext(stream, plain), stream, plain)
<1>. DEFINE chunks == Chunks(stream, plain, 1)
            header == Header(stream)
<1>1. chunks \in Seq(Range(chunks))
  BY ChunksAre DEF IsSeq
<1>2. /\ header \in Seq(Range(header)) /\ Len(header) = Len(stream.name) + 2
      /\ Len(stream.name) \in Nat
  BY HeaderIs DEF IsSeq
<1>3. Ciphertext(stream, plain) = header \o chunks
  BY DEF Ciphertext
<1>. HIDE DEF chunks, header
<1>4. JoinOf(header \o chunks, header, chunks)
  <2>1. IsSeq(header) /\ IsSeq(chunks)
    BY <1>1, <1>2 DEF IsSeq
  <2>. QED BY <2>1, JoinIs
<1>5. Len(stream.name) + 2 \in Nat
  BY <1>2
<1>6. JoinOf(Ciphertext(stream, plain), header, chunks)
  BY <1>3, <1>4
<1>. QED BY <1>2, <1>5, <1>6 DEF chunks, header, JoinOf, CipherOf

\* E2EEncryptedSize is the length of what Reader goes on to produce, which the
\* request or the session announces.
LEMMA SizeIsRight ==
    ASSUME NEW plain, IsSeq(plain), NEW stream, IsSeq(stream.name)
    PROVE  Len(Ciphertext(stream, plain)) = EncryptedSize(Len(plain), stream.name)
<1>. USE StreamChunk
<1>. DEFINE n == NumChunks(plain)
            full == Len(plain) \div ChunkSize
            rest == Len(plain) % ChunkSize
            low == ChunkSize * full
<1>1. /\ n \in Nat \ {0} /\ ChunkSize * (n - 1) <= Len(plain) /\ Len(plain) <= ChunkSize * n
      /\ Len(plain) \in Nat /\ (plain # <<>> => ChunkSize * (n - 1) < Len(plain))
  BY NumChunksIs DEF IsSeq
<1>2. Len(Ciphertext(stream, plain)) = Len(stream.name) + 2 + (Len(plain) + n)
  <2>1. Len(Chunks(stream, plain, 1)) = Len(plain) + n
    BY ChunksAre DEF IsSeq
  <2>2. Len(Ciphertext(stream, plain)) = Len(stream.name) + 2 + Len(Chunks(stream, plain, 1))
    BY CiphertextIs DEF CipherOf
  <2>. QED BY <2>1, <2>2
<1>3. /\ full \in Nat /\ rest \in Nat /\ Len(plain) = low + rest /\ rest < ChunkSize
  <2>. HIDE DEF n
  <2>. QED BY <1>1
<1>4. full * CipherChunk = low + full /\ low \in Nat
  <2>. HIDE DEF full
  <2>. QED BY <1>3 DEF CipherChunk
<1>5. n = IF rest > 0 \/ full = 0 THEN full + 1 ELSE full
  <2>. HIDE DEF full, rest, n
  <2>1. CASE plain = <<>>
    <3>1. Len(plain) = 0 /\ NumChunks(plain) = 1
      BY <2>1 DEF NumChunks
    <3>2. full = 0
      BY <1>3, <1>4, <2>1, <3>1, Multiples
    <3>. QED BY <3>1, <3>2 DEF n
  <2>2. CASE plain # <<>> /\ rest > 0
    <3>1. ChunkSize * (full + 1) = low + ChunkSize
      BY <1>3
    <3>2. NumChunks(plain) = full + 1
      BY <1>1, <1>3, <1>4, <2>2, <3>1, NumChunksOnly DEF IsSeq
    <3>. QED BY <1>3, <2>2, <3>2 DEF n
  <2>3. CASE plain # <<>> /\ rest = 0
    <3>1. Len(plain) > 0
      BY <2>3
    <3>2. full # 0
      BY <1>3, <2>3, <3>1
    <3>3. NumChunks(plain) = full
      BY <1>1, <1>3, <1>4, <2>3, <3>2, NumChunksOnly DEF IsSeq
    <3>. QED BY <1>3, <2>3, <3>2, <3>3 DEF n
  <2>. QED BY <1>3, <2>1, <2>2, <2>3
<1>6. EncryptedSize(Len(plain), stream.name) =
         1 + Len(stream.name) + 1 + full * CipherChunk
         + (IF rest > 0 \/ full = 0 THEN rest + 1 ELSE 0)
  BY DEF EncryptedSize
<1>7. Len(stream.name) \in Nat
  BY DEF IsSeq
<1>. HIDE DEF n, full, rest, low
<1>. DEFINE name == Len(stream.name)
            cells == full * CipherChunk
<1>8. Len(plain) + n = cells + (IF rest > 0 \/ full = 0 THEN rest + 1 ELSE 0)
  <2>. HIDE DEF cells
  <2>1. cells = low + full
    BY <1>4 DEF cells
  <2>. QED BY <1>1, <1>3, <1>4, <1>5, <2>1
<1>. HIDE DEF cells, name
<1>9. name \in Nat /\ cells \in Nat /\ Len(plain) + n \in Nat
  BY <1>1, <1>3, <1>4, <1>7 DEF name, cells
<1>10. Len(Ciphertext(stream, plain)) = name + 2 + (Len(plain) + n)
  BY <1>2 DEF name
<1>11. EncryptedSize(Len(plain), stream.name) =
          1 + name + 1 + cells + (IF rest > 0 \/ full = 0 THEN rest + 1 ELSE 0)
  BY <1>6 DEF name, cells
<1>. QED BY <1>3, <1>8, <1>9, <1>10, <1>11

\* cut is what s has from a up to b.
PartOf(cut, s, a, b) ==
    /\ IsSeq(cut) /\ Len(cut) = b - a
    /\ \A k \in 1..b - a : cut[k] = s[a + k]

LEMMA SliceIs ==
    ASSUME NEW s, IsSeq(s), NEW a \in Nat, NEW b \in Nat, a <= b, b <= Len(s)
    PROVE  PartOf(Slice(s, a, b), s, a, b)
<1>1. Len(s) \in Nat
  BY DEF IsSeq
<1>2. Slice(s, a, b) = SubSeq(s, a + 1, b)
  BY <1>1 DEF Slice
<1>3. /\ SubSeq(s, a + 1, b) \in Seq(Range(s)) /\ Len(SubSeq(s, a + 1, b)) = b - a
      /\ \A k \in 1..b - a : SubSeq(s, a + 1, b)[k] = s[a + k]
  BY PartIs DEF IsSeq
<1>4. IsSeq(SubSeq(s, a + 1, b))
  BY <1>3, SeqIsTable DEF IsSeq
<1>. QED BY <1>2, <1>3, <1>4 DEF PartOf

\* A slice stops where the sequence does.
LEMMA SliceStops ==
    ASSUME NEW s, IsSeq(s), NEW a \in Nat, NEW b \in Nat, a <= Len(s), Len(s) <= b
    PROVE  PartOf(Slice(s, a, b), s, a, Len(s))
<1>1. Len(s) \in Nat
  BY DEF IsSeq
<1>2. Slice(s, a, b) = Slice(s, a, Len(s))
  BY <1>1 DEF Slice
<1>. QED BY <1>1, <1>2, SliceIs

\* The seal that a run of cells is.
SealCells(cells, stream, counter, final, data) ==
    /\ IsSeq(cells) /\ IsSeq(data) /\ Len(cells) = Len(data) + 1
    /\ \A k \in 1..Len(data) + 1 : cells[k] = SealCell(stream, counter, final, data, k)

LEMMA SealIs ==
    ASSUME NEW stream, NEW counter, NEW final, NEW data, NEW cells,
           SealCells(cells, stream, counter, final, data)
    PROVE  /\ cells[1].seal.data = data
           /\ Opens(cells, stream.key, stream.prefix, counter, final)
<1>1. Len(data) + 1 \in Nat /\ 1 \in 1..Len(data) + 1
  BY DEF SealCells, IsSeq
<1>2. cells = [k \in 1..Len(data) + 1 |-> cells[k]]
  BY DEF SealCells, IsSeq
<1>3. cells = [k \in 1..Len(data) + 1 |-> SealCell(stream, counter, final, data, k)]
  BY <1>2 DEF SealCells
<1>4. cells = Seal([key |-> stream.key, prefix |-> stream.prefix], counter, final, data)
  BY <1>3 DEF Seal, SealCell
<1>5. cells[1].seal.data = data
  BY <1>1 DEF SealCells, SealCell
<1>6. cells # <<>>
  BY <1>1 DEF SealCells
<1>. QED BY <1>4, <1>5, <1>6 DEF Opens

\* Decrypting what has been encrypted: the header.
LEMMA HeaderOpensIt ==
    ASSUME NEW stream, NEW plain, IsSeq(stream.name), NEW cipher, CipherOf(cipher, stream, plain)
    PROVE  /\ HeaderOpens(cipher, stream.key) /\ SealedName(cipher) = stream.name
           /\ cipher[1].seal.prefix = stream.prefix
<1>. DEFINE n == Len(stream.name)
            cells == Slice(cipher, 1, n + 2)
<1>1. /\ n \in Nat /\ IsSeq(cipher) /\ Len(cipher) \in Nat
      /\ n + 2 <= Len(cipher) /\ \A j \in 1..n + 2 : cipher[j] = Header(stream)[j]
  BY DEF CipherOf
<1>2. /\ Header(stream)[1].i = 0 /\ Header(stream)[1].seal.data = stream.name
      /\ Header(stream)[1].seal.prefix = stream.prefix
      /\ \A k \in 1..n + 1 : Header(stream)[1 + k] = SealCell(stream, 0, FALSE, stream.name, k)
  BY HeaderIs DEF IsSeq
<1>3. /\ cipher[1].i = 0 /\ cipher[1].seal.data = stream.name /\ cipher # <<>>
      /\ cipher[1].seal.prefix = stream.prefix
  BY <1>1, <1>2
<1>4. SealCells(cells, stream, 0, FALSE, stream.name)
  <2>1. PartOf(cells, cipher, 1, n + 2)
    <3>. HIDE DEF n
    <3>. QED BY <1>1, SliceIs
  <2>. HIDE DEF cells, n
  <2>2. (n + 2) - 1 = n + 1 /\ \A k \in 1..n + 1 : 1 + k \in 1..n + 2
    BY <1>1
  <2>3. /\ IsSeq(cells) /\ Len(cells) = n + 1
        /\ \A k \in 1..n + 1 : cells[k] = cipher[1 + k]
    BY <2>1, <2>2 DEF PartOf
  <2>4. \A k \in 1..n + 1 : cells[k] = SealCell(stream, 0, FALSE, stream.name, k)
    BY <1>1, <1>2, <2>2, <2>3 DEF n
  <2>. QED BY <2>3, <2>4 DEF SealCells, n
<1>. HIDE DEF cells
<1>5. Opens(cells, stream.key, stream.prefix, 0, FALSE)
  BY <1>4, SealIs
<1>. QED BY <1>3, <1>5 DEF HeaderOpens, SealedName, cells, n

-------------------------------------------------------------------------------
(* What is encrypted, decrypts *)

\* Where chunk c of the ciphertext lies, counted from the header.
LEMMA ChunkLies ==
    ASSUME NEW S, NEW plain \in Seq(S), NEW c \in 0..NumChunks(plain) - 1
    PROVE  LET first == CipherChunk * c
               end == first + Len(Piece(plain, c)) + 1
           IN
           /\ first \in Nat /\ end \in Nat /\ c * CipherChunk = first
           /\ (c + 1) * CipherChunk = first + CipherChunk
           /\ first <= end /\ end <= Len(plain) + NumChunks(plain)
           /\ end = IF (c + 1) * CipherChunk < Len(plain) + NumChunks(plain)
                    THEN (c + 1) * CipherChunk ELSE Len(plain) + NumChunks(plain)
           /\ end <= (c + 1) * CipherChunk
<1>. USE StreamChunk
<1>. DEFINE n == NumChunks(plain)
            low == ChunkSize * c
            size == Len(Piece(plain, c))
<1>1. /\ n \in Nat \ {0} /\ ChunkSize * (n - 1) <= Len(plain) /\ Len(plain) <= ChunkSize * n
      /\ Len(plain) \in Nat /\ c \in 0..n - 1
  BY NumChunksIs
<1>2. /\ size \in Nat /\ size <= ChunkSize /\ low + size <= Len(plain)
      /\ size = IF c = n - 1 THEN Len(plain) - low ELSE ChunkSize
  BY PieceIs
<1>3. c # n - 1 => low + ChunkSize <= Len(plain)
  BY <1>2
<1>. HIDE DEF n, size
<1>4. /\ low \in Nat /\ CipherChunk * c = low + c /\ c * CipherChunk = low + c
      /\ (c + 1) * CipherChunk = low + c + ChunkSize + 1
  BY <1>1 DEF CipherChunk
<1>5. CipherChunk = ChunkSize + 1
  BY DEF CipherChunk
<1>. HIDE DEF low
<1>6. (low + c) + size + 1 =
         IF low + c + ChunkSize + 1 < Len(plain) + n
         THEN low + c + ChunkSize + 1 ELSE Len(plain) + n
  <2>1. CASE c = n - 1
    BY <2>1, <1>1, <1>2, <1>4
  <2>2. CASE c # n - 1
    BY <2>2, <1>1, <1>2, <1>3, <1>4
  <2>. QED BY <2>1, <2>2
<1>. DEFINE first == CipherChunk * c
            next == (c + 1) * CipherChunk
<1>7. /\ first = low + c /\ first \in Nat /\ c * CipherChunk = first
      /\ next = first + CipherChunk /\ next = low + c + ChunkSize + 1
  BY <1>1, <1>4, <1>5
<1>. HIDE DEF first, next
<1>8. /\ first + size + 1 \in Nat /\ first <= first + size + 1
      /\ first + size + 1 = IF next < Len(plain) + n THEN next ELSE Len(plain) + n
      /\ first + size + 1 <= next
  <2>1. c \in Nat /\ n \in Nat /\ Len(plain) \in Nat /\ size \in Nat /\ first \in Nat
    BY <1>1, <1>2, <1>7
  <2>2. first + size + 1 \in Nat /\ first <= first + size + 1
    BY <2>1
  <2>3. first + size + 1 = IF next < Len(plain) + n THEN next ELSE Len(plain) + n
    BY <1>6, <1>7
  <2>4. next \in Nat
    BY <1>5, <1>7, <2>1
  <2>5. first + size + 1 <= next
    BY <2>1, <2>3, <2>4
  <2>. QED BY <2>2, <2>3, <2>5
<1>9. first + size + 1 <= Len(plain) + n
  <2>1. c \in Nat /\ c + 1 <= n
    BY <1>1
  <2>2. /\ Len(plain) \in Nat /\ n \in Nat /\ size \in Nat /\ low \in Nat
        /\ low + size <= Len(plain) /\ first = low + c
    BY <1>1, <1>2, <1>4, <1>7
  <2>. QED BY <2>1, <2>2
<1>. QED BY <1>7, <1>8, <1>9 DEF n, size, first, next

LEMMA ChunkCount ==
    ASSUME NEW S, NEW plain \in Seq(S)
    PROVE  CeilDiv(Len(plain) + NumChunks(plain), CipherChunk) = NumChunks(plain)
<1>. USE StreamChunk
<1>. DEFINE n == NumChunks(plain)
            low == ChunkSize * n
            m == Len(plain) + n + CipherChunk - 1
<1>1. /\ n \in Nat \ {0} /\ ChunkSize * (n - 1) <= Len(plain) /\ Len(plain) <= low
      /\ Len(plain) \in Nat
  BY NumChunksIs
<1>. HIDE DEF n
<1>2. /\ ChunkSize * (n - 1) = low - ChunkSize /\ CipherChunk * n = low + n /\ low \in Nat
      /\ CipherChunk = ChunkSize + 1
  BY <1>1 DEF CipherChunk
<1>. HIDE DEF low
<1>3. m \in Nat /\ CipherChunk * n <= m /\ m < CipherChunk * n + CipherChunk
  BY <1>1, <1>2
<1>. HIDE DEF m
<1>4. m \div CipherChunk = n
  BY <1>1, <1>2, <1>3, QuotientIs
<1>. QED BY <1>4 DEF CeilDiv, m, n

\* The chunks of a ciphertext, found again.
LEMMA ChunkFound ==
    ASSUME NEW plain, IsSeq(plain), NEW stream, NEW counter \in Nat,
           NEW c \in 0..NumChunks(plain) - 1
    PROVE  SealCells(Slice(Chunks(stream, plain, counter), c * CipherChunk, (c + 1) * CipherChunk),
                     stream, counter + c, c = NumChunks(plain) - 1, Piece(plain, c))
<1>. USE StreamChunk
<1>. DEFINE n == NumChunks(plain)
            all == Chunks(stream, plain, counter)
            first == CipherChunk * c
            size == Len(Piece(plain, c))
            end == first + size + 1
            cut == Slice(all, c * CipherChunk, (c + 1) * CipherChunk)
            final == c = n - 1
<1>1. /\ first \in Nat /\ end \in Nat /\ c * CipherChunk = first /\ first <= end
      /\ end <= Len(plain) + n /\ end <= (c + 1) * CipherChunk
      /\ end = IF (c + 1) * CipherChunk < Len(plain) + n
               THEN (c + 1) * CipherChunk ELSE Len(plain) + n
  BY ChunkLies DEF IsSeq
<1>2. /\ Len(all) = Len(plain) + n /\ IsSeq(all)
      /\ \A k \in 1..size + 1 :
            all[first + k] = SealCell(stream, counter + c, final, Piece(plain, c), k)
  BY ChunksAre DEF IsSeq
<1>3. size \in Nat /\ IsSeq(Piece(plain, c))
  <2>1. Piece(plain, c) \in Seq(Range(plain))
    BY PieceIs DEF IsSeq
  <2>. HIDE DEF n
  <2>. QED BY <2>1, SeqIsTable DEF IsSeq
<1>4. /\ c * CipherChunk \in Nat /\ (c + 1) * CipherChunk \in Nat
      /\ Len(plain) + n \in Nat
  BY NumChunksIs DEF CipherChunk, IsSeq
<1>. HIDE DEF n, all
<1>5. PartOf(cut, all, first, end)
  <2>1. CASE (c + 1) * CipherChunk < Len(plain) + n
    <3>1. end = (c + 1) * CipherChunk
      BY <1>1, <2>1
    <3>. HIDE DEF end, first, size
    <3>2. PartOf(Slice(all, first, end), all, first, end)
      BY <1>1, <1>2, SliceIs
    <3>. QED BY <1>1, <3>1, <3>2
  <2>2. CASE ~((c + 1) * CipherChunk < Len(plain) + n)
    <3>1. end = Len(plain) + n /\ end <= (c + 1) * CipherChunk
      BY <1>1, <2>2
    <3>. DEFINE b == (c + 1) * CipherChunk
    <3>2. b \in Nat
      BY <1>4
    <3>. HIDE DEF end, first, size, b
    <3>3. end <= b
      BY <3>1 DEF b
    <3>4. PartOf(Slice(all, first, b), all, first, Len(all))
      BY <1>1, <1>2, <3>1, <3>2, <3>3, SliceStops
    <3>. QED BY <1>1, <1>2, <3>1, <3>4 DEF b
  <2>. QED BY <2>1, <2>2
<1>. HIDE DEF cut, first, final
<1>6. end - first = size + 1
  BY <1>1, <1>3
<1>. HIDE DEF end
<1>7. /\ IsSeq(cut) /\ Len(cut) = size + 1
      /\ \A k \in 1..size + 1 : cut[k] = all[first + k]
  BY <1>5, <1>6 DEF PartOf
<1>8. \A k \in 1..size + 1 : cut[k] = SealCell(stream, counter + c, final, Piece(plain, c), k)
  BY <1>2, <1>7
<1>9. SealCells(cut, stream, counter + c, final, Piece(plain, c))
  BY <1>3, <1>7, <1>8 DEF SealCells, size
<1>. QED BY <1>9 DEF cut, final, all, n

\* The pieces of a content are the content.
LEMMA PiecesJoin ==
    ASSUME NEW plain, IsSeq(plain), NEW data,
           \A c \in 0..NumChunks(plain) - 1 : data[c] = Piece(plain, c)
    PROVE  EndToEnd(data, ChunkSize, Len(plain)) = plain
<1>. USE StreamChunk
<1>. DEFINE n == NumChunks(plain)
<1>1. n \in Nat \ {0} /\ Len(plain) \in Nat
  BY NumChunksIs DEF IsSeq
<1>2. \A c \in 0..n - 1 : data[c] = Piece(plain, c)
  OBVIOUS
<1>3. ASSUME NEW j \in 1..Len(plain)
      PROVE  data[(j - 1) \div ChunkSize][j - ((j - 1) \div ChunkSize) * ChunkSize] = plain[j]
  <2>. DEFINE c == (j - 1) \div ChunkSize
              low == ChunkSize * c
              k == j - c * ChunkSize
  <2>0. j - 1 \in Nat
    BY <1>1
  <2>1. c \in Nat /\ low <= j - 1 /\ j - 1 < low + ChunkSize
    BY <2>0, Quotient
  <2>2. ChunkSize * (n - 1) <= Len(plain) /\ Len(plain) <= ChunkSize * n
    BY NumChunksIs DEF IsSeq
  <2>. HIDE DEF c, n
  <2>3. low \in Nat /\ c * ChunkSize = low
    BY <2>1
  <2>4. ~(n <= c)
    <3>. SUFFICES ASSUME n <= c PROVE FALSE
      OBVIOUS
    <3>1. ChunkSize * n <= low
      <4>1. CASE n = c
        BY <4>1, <1>1, <2>3
      <4>2. CASE n < c
        BY <4>2, <1>1, <2>1, <2>3, Multiples
      <4>. QED BY <1>1, <2>1, <4>1, <4>2
    <3>. QED BY <1>1, <2>1, <2>2, <2>3, <3>1
  <2>5. c \in 0..n - 1
    BY <1>1, <2>1, <2>4
  <2>6. /\ Len(Piece(plain, c)) = IF c = n - 1 THEN Len(plain) - low ELSE ChunkSize
        /\ \A x \in 1..Len(Piece(plain, c)) : Piece(plain, c)[x] = plain[low + x]
    BY <2>5, PieceIs DEF n, IsSeq
  <2>. HIDE DEF low, k
  <2>7. k \in 1..Len(Piece(plain, c)) /\ low + k = j
    <3>1. k = j - low
      BY <2>3 DEF k
    <3>. DEFINE size == Len(Piece(plain, c))
    <3>2. /\ low \in Nat /\ ChunkSize \in Nat /\ Len(plain) \in Nat /\ j <= Len(plain)
          /\ low <= j - 1 /\ j - 1 < low + ChunkSize
      BY <1>1, <2>1, <2>3
    <3>3. size = Len(plain) - low \/ size = ChunkSize
      BY <2>6
    <3>. HIDE DEF size
    <3>4. k \in 1..size /\ low + k = j
      BY <3>1, <3>2, <3>3
    <3>. QED BY <3>4 DEF size
  <2>8. data[c][k] = plain[j]
    BY <1>2, <2>5, <2>6, <2>7
  <2>. QED BY <2>8 DEF c, k
<1>4. plain = [j \in 1..Len(plain) |-> plain[j]]
  BY SeqIsTable DEF IsSeq
<1>5. [j \in 1..Len(plain) |->
         data[(j - 1) \div ChunkSize][j - ((j - 1) \div ChunkSize) * ChunkSize]] = plain
  BY <1>3, <1>4
<1>. QED BY <1>5 DEF EndToEnd

\* What CipherOf says, decrypts to what was encrypted.
LEMMA RoundTrip ==
    ASSUME NEW plain, IsSeq(plain), NEW stream, IsSeq(stream.name),
           NEW cipher, CipherOf(cipher, stream, plain)
    PROVE  Decrypt(cipher, stream.key) = [ok |-> TRUE, name |-> stream.name, plain |-> plain]
<1>. USE StreamChunk
<1>. DEFINE head == Len(stream.name) + 2
            chunks == Chunks(stream, plain, 1)
            n == NumChunks(plain)
            rest == Slice(cipher, head, Len(cipher))
            Chunk(i) == Slice(rest, (i - 1) * CipherChunk, i * CipherChunk)
            data == [c \in 0..n - 1 |-> Chunk(c + 1)[1].seal.data]
<1>1. /\ IsSeq(chunks) /\ Len(chunks) = Len(plain) + n /\ Len(plain) \in Nat
      /\ n \in Nat \ {0} /\ Len(plain) + n \in Nat
  BY ChunksAre, NumChunksIs DEF IsSeq
<1>2. /\ IsSeq(cipher) /\ Len(cipher) = head + Len(chunks) /\ head \in Nat
      /\ Len(chunks) \in Nat /\ Len(cipher) \in Nat /\ head <= Len(cipher)
      /\ \A j \in 1..Len(chunks) : cipher[head + j] = chunks[j]
  <2>. HIDE DEF chunks
  <2>1. /\ IsSeq(cipher) /\ Len(stream.name) \in Nat /\ Len(chunks) \in Nat
        /\ Len(cipher) = Len(stream.name) + 2 + Len(chunks)
        /\ \A j \in 1..Len(chunks) : cipher[Len(stream.name) + 2 + j] = chunks[j]
    BY DEF CipherOf, chunks
  <2>. QED BY <2>1
<1>3. rest = chunks
  <2>. HIDE DEF head, chunks, n
  <2>1. PartOf(rest, cipher, head, Len(cipher))
    BY <1>2, SliceIs
  <2>. HIDE DEF rest
  <2>2. /\ IsSeq(rest) /\ Len(rest) = Len(cipher) - head
        /\ \A k \in 1..Len(cipher) - head : rest[k] = cipher[head + k]
    BY <2>1 DEF PartOf
  <2>3. Len(rest) = Len(chunks) /\ Len(cipher) - head = Len(chunks)
    BY <1>2, <2>2
  <2>4. \A k \in 1..Len(rest) : rest[k] = chunks[k]
    BY <1>2, <2>2, <2>3
  <2>. QED BY <1>1, <2>2, <2>3, <2>4, SameCells DEF IsSeq
<1>4. CeilDiv(Len(rest), CipherChunk) = n
  <2>1. CeilDiv(Len(plain) + n, CipherChunk) = n
    BY ChunkCount DEF IsSeq
  <2>. QED BY <1>1, <1>3, <2>1
<1>5. ASSUME NEW c \in 0..n - 1
      PROVE  SealCells(Chunk(c + 1), stream, c + 1, c = n - 1, Piece(plain, c))
  <2>. DEFINE cut == Slice(chunks, c * CipherChunk, (c + 1) * CipherChunk)
  <2>1. SealCells(cut, stream, 1 + c, c = n - 1, Piece(plain, c))
    BY ChunkFound
  <2>2. 1 + c = c + 1 /\ (c + 1) - 1 = c
    BY <1>1
  <2>3. Chunk(c + 1) = cut
    BY <1>3, <2>2
  <2>. HIDE DEF Chunk, cut, n
  <2>. QED BY <2>1, <2>2, <2>3
<1>. HIDE DEF Chunk
<1>6. \A i \in 1..n : Opens(Chunk(i), stream.key, stream.prefix, i, i = n)
  <2>. HIDE DEF n
  <2>. SUFFICES ASSUME NEW i \in 1..n PROVE Opens(Chunk(i), stream.key, stream.prefix, i, i = n)
    OBVIOUS
  <2>1. /\ i - 1 \in 0..n - 1 /\ (i - 1) + 1 = i /\ (i - 1 = n - 1) = (i = n)
    BY <1>1
  <2>2. SealCells(Chunk((i - 1) + 1), stream, (i - 1) + 1, i - 1 = n - 1, Piece(plain, i - 1))
    BY <1>5, <2>1
  <2>3. SealCells(Chunk(i), stream, i, i = n, Piece(plain, i - 1))
    BY <2>1, <2>2
  <2>. QED BY <2>3, SealIs
<1>7. \A c \in 0..n - 1 : data[c] = Piece(plain, c)
  <2>. SUFFICES ASSUME NEW c \in 0..n - 1 PROVE Chunk(c + 1)[1].seal.data = Piece(plain, c)
    OBVIOUS
  <2>. HIDE DEF n
  <2>. QED BY <1>5, SealIs
<1>8. EndToEnd(data, ChunkSize, Len(rest) - n) = plain
  <2>1. Len(rest) - n = Len(plain)
    BY <1>1, <1>3
  <2>. HIDE DEF data
  <2>2. EndToEnd(data, ChunkSize, Len(plain)) = plain
    BY <1>7, PiecesJoin
  <2>. QED BY <2>1, <2>2
<1>9. /\ HeaderOpens(cipher, stream.key) /\ SealedName(cipher) = stream.name
      /\ cipher[1].seal.prefix = stream.prefix
  BY HeaderOpensIt
<1>10. /\ Slice(cipher, Len(SealedName(cipher)) + 2, Len(cipher)) = rest
       /\ n > 0
  BY <1>1, <1>9
<1>. HIDE DEF n, rest
<1>. QED BY <1>4, <1>6, <1>8, <1>9, <1>10 DEF Decrypt, data, Chunk

-------------------------------------------------------------------------------
(* What is resumed, continues *)

\* What is left from a chunk on has the chunks that are left.
LEMMA TailOf ==
    ASSUME NEW plain, IsSeq(plain), NEW c \in 0..NumChunks(plain) - 1
    PROVE  LET tail == Slice(plain, c * ChunkSize, Len(plain)) IN
           /\ PartOf(tail, plain, ChunkSize * c, Len(plain))
           /\ ChunkSize * c \in Nat /\ ChunkSize * c <= Len(plain)
           /\ NumChunks(tail) = NumChunks(plain) - c
<1>. USE StreamChunk
<1>. DEFINE n == NumChunks(plain)
            low == ChunkSize * c
            tail == Slice(plain, c * ChunkSize, Len(plain))
            q == n - c
<1>1. /\ n \in Nat \ {0} /\ ChunkSize * (n - 1) <= Len(plain) /\ Len(plain) <= ChunkSize * n
      /\ Len(plain) \in Nat /\ c \in 0..n - 1
      /\ plain # <<>> => ChunkSize * (n - 1) < Len(plain)
  BY NumChunksIs DEF IsSeq
<1>2. low + Len(Piece(plain, c)) <= Len(plain) /\ Len(Piece(plain, c)) \in Nat
  BY PieceIs DEF IsSeq
<1>3. plain = <<>> => n = 1
  BY DEF NumChunks
<1>. HIDE DEF n
<1>4. low \in Nat /\ c * ChunkSize = low /\ low <= Len(plain)
  BY <1>1, <1>2
<1>5. q \in Nat \ {0} /\ ChunkSize * q = ChunkSize * n - low /\ ChunkSize * n \in Nat
      /\ ChunkSize * (n - 1) = ChunkSize * n - ChunkSize
  BY <1>1
<1>. HIDE DEF low
<1>6. PartOf(tail, plain, low, Len(plain))
  <2>1. PartOf(Slice(plain, low, Len(plain)), plain, low, Len(plain))
    BY <1>1, <1>4, SliceIs
  <2>. QED BY <1>4, <2>1
<1>. HIDE DEF tail, q
<1>7. NumChunks(tail) = q
  <2>1. IsSeq(tail) /\ Len(tail) = Len(plain) - low
    BY <1>6 DEF PartOf
  <2>2. CASE plain = <<>>
    <3>1. n = 1 /\ c = 0 /\ q = 1
      BY <1>1, <1>3, <2>2 DEF q
    <3>2. Len(plain) = 0
      BY <2>2
    <3>3. Len(tail) = 0
      BY <1>4, <2>1, <3>2
    <3>4. tail = <<>>
      BY <2>1, <3>3 DEF IsSeq
    <3>. QED BY <3>1, <3>4 DEF NumChunks
  <2>3. CASE plain # <<>>
    <3>1. ChunkSize * q - ChunkSize < Len(tail) /\ Len(tail) <= ChunkSize * q
      BY <1>1, <1>4, <1>5, <2>1, <2>3
    <3>2. Len(tail) > 0
      <4>1. low <= ChunkSize * (n - 1)
        <5>1. CASE c = n - 1
          BY <5>1, <1>1, <1>4 DEF low
        <5>2. CASE c # n - 1
          <6>1. c < n - 1 /\ n - 1 \in Nat /\ c \in Nat
            BY <5>2, <1>1
          <6>2. ChunkSize * c + ChunkSize <= ChunkSize * (n - 1)
            BY <6>1, Multiples
          <6>. QED BY <1>1, <1>4, <1>5, <6>2 DEF low
        <5>. QED BY <5>1, <5>2
      <4>. QED BY <1>1, <1>4, <1>5, <2>1, <2>3, <4>1
    <3>3. tail # <<>> /\ tail \in Seq(Range(tail))
      BY <2>1, <3>2 DEF IsSeq
    <3>. QED BY <1>5, <3>1, <3>3, NumChunksOnly
  <2>. QED BY <2>2, <2>3
<1>. QED BY <1>4, <1>6, <1>7 DEF n, low, tail, q

LEMMA TailPiece ==
    ASSUME NEW plain, IsSeq(plain), NEW c \in 0..NumChunks(plain) - 1, NEW tail,
           PartOf(tail, plain, ChunkSize * c, Len(plain)), NumChunks(tail) = NumChunks(plain) - c,
           NEW d \in 0..NumChunks(tail) - 1
    PROVE  c + d \in 0..NumChunks(plain) - 1 /\ Piece(tail, d) = Piece(plain, c + d)
<1>. USE StreamChunk
<1>. DEFINE n == NumChunks(plain)
            low == ChunkSize * c
            skip == ChunkSize * d
            both == ChunkSize * (c + d)
            one == Piece(tail, d)
            other == Piece(plain, c + d)
<1>1. n \in Nat \ {0} /\ Len(plain) \in Nat
  BY NumChunksIs DEF IsSeq
<1>2. c + d \in 0..n - 1 /\ c \in Nat /\ d \in Nat /\ (d = NumChunks(tail) - 1) = (c + d = n - 1)
  BY <1>1
<1>3. /\ IsSeq(tail) /\ Len(tail) = Len(plain) - low
      /\ \A k \in 1..Len(plain) - low : tail[k] = plain[low + k]
  BY DEF PartOf
<1>4. /\ low \in Nat /\ skip \in Nat /\ both = low + skip
  BY <1>2
<1>5. /\ one \in Seq(Range(tail))
      /\ Len(one) = IF d = NumChunks(tail) - 1 THEN Len(tail) - skip ELSE ChunkSize
      /\ skip + Len(one) <= Len(tail)
      /\ \A k \in 1..Len(one) : one[k] = tail[skip + k]
  BY <1>3, PieceIs DEF IsSeq
<1>6. /\ other \in Seq(Range(plain))
      /\ Len(other) = IF c + d = n - 1 THEN Len(plain) - both ELSE ChunkSize
      /\ \A k \in 1..Len(other) : other[k] = plain[both + k]
  BY <1>2, PieceIs DEF IsSeq
<1>. HIDE DEF n, low, skip, both, one, other
<1>7. Len(one) = Len(other) /\ Len(one) \in Nat
  <2>1. Len(one) \in Nat /\ Len(tail) = Len(plain) - low
    BY <1>3, <1>5
  <2>. QED BY <1>1, <1>2, <1>4, <1>5, <1>6, <2>1
<1>8. ASSUME NEW k \in 1..Len(one) PROVE one[k] = other[k]
  <2>1. one[k] = tail[skip + k] /\ other[k] = plain[(low + skip) + k]
    BY <1>4, <1>5, <1>6, <1>7
  <2>2. skip + k \in 1..Len(plain) - low /\ low + (skip + k) = (low + skip) + k
    <3>1. Len(tail) = Len(plain) - low /\ skip + Len(one) <= Len(tail)
      BY <1>3, <1>5
    <3>. QED BY <1>1, <1>4, <1>7, <3>1
  <2>. QED BY <1>3, <2>1, <2>2
<1>9. one = other
  BY <1>5, <1>6, <1>7, <1>8, SameCells
<1>. QED BY <1>2, <1>9 DEF n, one, other

\* The chunks from c on are the chunks of what is left, numbered from where c was.
LEMMA TailChunks ==
    ASSUME NEW plain, IsSeq(plain), NEW stream, NEW c \in 0..NumChunks(plain) - 1, NEW tail,
           PartOf(tail, plain, ChunkSize * c, Len(plain)), NumChunks(tail) = NumChunks(plain) - c,
           ChunkSize * c \in Nat, ChunkSize * c <= Len(plain)
    PROVE  PartOf(Chunks(stream, tail, c + 1), Chunks(stream, plain, 1), CipherChunk * c,
                  Len(plain) + NumChunks(plain))
<1>. USE StreamChunk
<1>. DEFINE n == NumChunks(plain)
            m == NumChunks(tail)
            low == ChunkSize * c
            skip == CipherChunk * c
            all == Chunks(stream, plain, 1)
            some == Chunks(stream, tail, c + 1)
<1>1. /\ n \in Nat \ {0} /\ Len(plain) \in Nat /\ c \in Nat /\ m = n - c /\ m \in Nat \ {0}
      /\ c + 1 \in Nat /\ CipherChunk \in Nat \ {0}
  BY NumChunksIs DEF IsSeq, CipherChunk
<1>2. IsSeq(tail) /\ Len(tail) = Len(plain) - low /\ Len(tail) \in Nat
  BY DEF PartOf
<1>3. skip = low + c /\ skip \in Nat /\ low \in Nat
  BY <1>1 DEF CipherChunk
<1>4. /\ Len(some) = Len(tail) + m /\ IsSeq(some)
      /\ \A d \in 0..m - 1 : \A k \in 1..Len(Piece(tail, d)) + 1 :
            some[CipherChunk * d + k] =
               SealCell(stream, (c + 1) + d, d = m - 1, Piece(tail, d), k)
  BY <1>1, <1>2, ChunksAre DEF IsSeq
<1>5. \A d \in 0..n - 1 : \A k \in 1..Len(Piece(plain, d)) + 1 :
            all[CipherChunk * d + k] = SealCell(stream, 1 + d, d = n - 1, Piece(plain, d), k)
  BY ChunksAre DEF IsSeq
<1>6. \A d \in 0..m - 1 : c + d \in 0..n - 1 /\ Piece(tail, d) = Piece(plain, c + d)
  BY TailPiece
<1>7. ASSUME NEW j \in 1..Len(tail) + m PROVE some[j] = all[skip + j]
  <2>. DEFINE d == (j - 1) \div CipherChunk
              k == j - d * CipherChunk
              far == CipherChunk * (c + d)
  <2>1. d \in 0..m - 1 /\ k \in 1..Len(Piece(tail, d)) + 1 /\ j = CipherChunk * d + k
    BY <1>2, PlaceOf DEF IsSeq
  <2>. HIDE DEF d, k, n, m, all, some, skip, low
  <2>2. far = skip + CipherChunk * d /\ CipherChunk * d \in Nat /\ d \in Nat
    BY <1>1, <2>1 DEF skip
  <2>3. some[j] = SealCell(stream, (c + 1) + d, d = m - 1, Piece(tail, d), k)
    BY <1>4, <2>1
  <2>4. all[far + k] = SealCell(stream, 1 + (c + d), c + d = n - 1, Piece(tail, d), k)
    BY <1>5, <1>6, <2>1
  <2>5. (d = m - 1) = (c + d = n - 1) /\ (c + 1) + d = 1 + (c + d)
    BY <1>1, <2>2
  <2>. HIDE DEF far
  <2>6. far + k = skip + j
    <3>. DEFINE cc == CipherChunk * d
    <3>1. far = skip + cc /\ cc \in Nat /\ j = cc + k
      BY <2>1, <2>2
    <3>2. k \in Int
      <4>1. k \in Nat
        <5>1. Len(Piece(tail, d)) \in Nat
          BY <1>2, <2>1, PieceIs DEF IsSeq, m
        <5>. QED BY <2>1, <5>1
      <4>. QED BY <4>1
    <3>. HIDE DEF cc
    <3>. QED BY <1>3, <3>1, <3>2
  <2>. QED BY <2>3, <2>4, <2>5, <2>6
<1>. HIDE DEF n, m, all, some, skip, low
<1>8. Len(tail) + m = (Len(plain) + n) - skip
  BY <1>1, <1>2, <1>3
<1>9. PartOf(some, all, skip, Len(plain) + n)
  <2>1. IsSeq(some) /\ Len(some) = (Len(plain) + n) - skip
    BY <1>4, <1>8
  <2>2. \A j \in 1..(Len(plain) + n) - skip : some[j] = all[skip + j]
    BY <1>7, <1>8
  <2>. QED BY <2>1, <2>2 DEF PartOf
<1>. QED BY <1>9 DEF n, all, some, skip

\* A part of a part.
LEMMA PartOfPart ==
    ASSUME NEW s, NEW t, NEW u, NEW a \in Nat, NEW b \in Nat, NEW x \in Nat,
           PartOf(t, s, a, b), a + x <= b, PartOf(u, t, x, Len(t))
    PROVE  PartOf(u, s, a + x, b)
<1>1. Len(t) = b - a /\ \A k \in 1..b - a : t[k] = s[a + k]
  BY DEF PartOf
<1>2. IsSeq(u) /\ Len(u) = Len(t) - x /\ \A k \in 1..Len(t) - x : u[k] = t[x + k]
  BY DEF PartOf
<1>3. Len(t) - x = b - (a + x)
  BY <1>1
<1>4. ASSUME NEW k \in 1..b - (a + x) PROVE u[k] = s[(a + x) + k]
  <2>1. u[k] = t[x + k]
    BY <1>2, <1>3
  <2>2. x + k \in 1..b - a /\ a + (x + k) = (a + x) + k
    OBVIOUS
  <2>. QED BY <1>1, <2>1, <2>2
<1>. QED BY <1>2, <1>3, <1>4 DEF PartOf

\* ReaderFrom reads what Reader would have read from there on.
LEMMA ReaderFromIs ==
    ASSUME NEW plain, IsSeq(plain), NEW stream, IsSeq(stream.name), NEW offset \in Nat,
           offset < Len(Ciphertext(stream, plain))
    PROVE  PartOf(ReaderFrom(stream, plain, offset), Ciphertext(stream, plain),
                  offset, Len(Ciphertext(stream, plain)))
<1>. USE StreamChunk
<1>. DEFINE whole == Ciphertext(stream, plain)
            head == Len(Header(stream))
            n == NumChunks(plain)
            all == Chunks(stream, plain, 1)
            off == offset - head
            c == off \div CipherChunk
            tail == Slice(plain, c * ChunkSize, Len(plain))
            some == Chunks(stream, tail, c + 1)
            x == off - c * CipherChunk
<1>1. CipherOf(whole, stream, plain)
  BY CiphertextIs
<1>2. head = Len(stream.name) + 2 /\ Len(stream.name) \in Nat
  BY HeaderIs DEF IsSeq
<1>3. /\ IsSeq(all) /\ Len(all) = Len(plain) + n /\ Len(plain) \in Nat /\ n \in Nat \ {0}
  BY ChunksAre, NumChunksIs DEF IsSeq
<1>4. /\ IsSeq(whole) /\ Len(whole) = head + Len(all) /\ Len(all) \in Nat /\ head \in Nat
      /\ Len(whole) \in Nat /\ \A j \in 1..Len(all) : whole[head + j] = all[j]
  <2>. HIDE DEF whole, head, n, all
  <2>1. /\ IsSeq(whole) /\ Len(whole) = head + Len(all) /\ Len(all) \in Nat
        /\ \A j \in 1..Len(all) : whole[head + j] = all[j]
    BY <1>1, <1>2 DEF CipherOf, all
  <2>. QED BY <1>2, <2>1
<1>5. CASE offset < head
  <2>1. ReaderFrom(stream, plain, offset) = Slice(whole, offset, Len(whole))
    BY <1>5 DEF ReaderFrom
  <2>. HIDE DEF whole
  <2>2. PartOf(Slice(whole, offset, Len(whole)), whole, offset, Len(whole))
    BY <1>4, SliceIs DEF whole
  <2>. QED BY <2>1, <2>2 DEF whole
<1>6. CASE ~(offset < head)
  <2>1. ReaderFrom(stream, plain, offset) = Slice(some, x, Len(some))
    BY <1>6 DEF ReaderFrom
  <2>. HIDE DEF whole, head, n, all
  <2>2. off \in Nat /\ off + 1 \in 1..Len(plain) + n /\ (off + 1) - 1 = off /\ offset = head + off
    BY <1>3, <1>4, <1>6 DEF whole
  <2>. HIDE DEF off
  <2>3. c \in 0..n - 1 /\ (off + 1) - c * CipherChunk \in 1..Len(Piece(plain, c)) + 1
    <3>1. LET d == ((off + 1) - 1) \div CipherChunk IN
          d \in 0..n - 1 /\ (off + 1) - d * CipherChunk \in 1..Len(Piece(plain, d)) + 1
      <4>. DEFINE j == off + 1
      <4>1. j \in 1..Len(plain) + NumChunks(plain)
        BY <2>2 DEF n
      <4>. HIDE DEF j
      <4>2. LET d == (j - 1) \div CipherChunk IN
            d \in 0..NumChunks(plain) - 1 /\ j - d * CipherChunk \in 1..Len(Piece(plain, d)) + 1
        BY <4>1, PlaceOf DEF IsSeq
      <4>. QED BY <4>2 DEF j, n
    <3>. QED BY <2>2, <3>1
  <2>. HIDE DEF c
  <2>4. /\ CipherChunk * c \in Nat /\ c * CipherChunk = CipherChunk * c
        /\ Len(Piece(plain, c)) \in Nat
    BY <1>3, <2>3, ChunkLies, PieceIs DEF IsSeq, n
  <2>5. x \in Nat /\ CipherChunk * c + x = off
    <3>. DEFINE skip == CipherChunk * c
    <3>1. x = off - skip /\ skip \in Nat /\ (off + 1) - skip >= 1
      BY <2>2, <2>3, <2>4
    <3>. HIDE DEF skip, x
    <3>2. x \in Nat /\ skip + x = off
      BY <2>2, <3>1
    <3>. QED BY <3>2 DEF skip
  <2>6. PartOf(some, all, CipherChunk * c, Len(all))
    <3>1. /\ PartOf(tail, plain, ChunkSize * c, Len(plain))
          /\ ChunkSize * c \in Nat /\ ChunkSize * c <= Len(plain)
          /\ NumChunks(tail) = NumChunks(plain) - c
      BY <2>3, TailOf DEF n
    <3>. HIDE DEF tail
    <3>2. PartOf(some, all, CipherChunk * c, Len(plain) + NumChunks(plain))
      BY <2>3, <3>1, TailChunks DEF n, all
    <3>. QED BY <1>3, <3>2 DEF n
  <2>. HIDE DEF some, x
  <2>7. PartOf(Slice(some, x, Len(some)), some, x, Len(some))
    <3>1. IsSeq(some) /\ Len(some) = Len(all) - CipherChunk * c /\ Len(some) \in Nat
      BY <2>6 DEF PartOf, IsSeq
    <3>. DEFINE skip == CipherChunk * c
    <3>2. skip + x = off /\ skip \in Nat /\ Len(some) = Len(all) - skip
      BY <2>4, <2>5, <3>1
    <3>. HIDE DEF skip
    <3>3. x <= Len(some)
      BY <1>3, <1>4, <2>2, <2>5, <3>1, <3>2
    <3>. QED BY <2>5, <3>1, <3>3, SliceIs
  <2>8. PartOf(Slice(some, x, Len(some)), all, off, Len(all))
    <3>. DEFINE cut == Slice(some, x, Len(some))
                skip == CipherChunk * c
    <3>1. /\ skip + x = off /\ skip \in Nat /\ PartOf(some, all, skip, Len(all))
          /\ PartOf(cut, some, x, Len(some))
      BY <2>4, <2>5, <2>6, <2>7
    <3>2. off <= Len(all)
      BY <1>3, <1>4, <2>2
    <3>. HIDE DEF skip, cut
    <3>3. PartOf(cut, all, skip + x, Len(all))
      BY <1>4, <2>5, <3>1, <3>2, PartOfPart
    <3>. QED BY <3>1, <3>3 DEF cut
  <2>9. PartOf(all, whole, head, Len(whole))
    <3>1. Len(whole) - head = Len(all)
      BY <1>4
    <3>. QED BY <1>3, <1>4, <3>1 DEF PartOf
  <2>10. PartOf(Slice(some, x, Len(some)), whole, head + off, Len(whole))
    <3>. DEFINE cut == Slice(some, x, Len(some))
    <3>1. PartOf(cut, all, off, Len(all))
      BY <2>8
    <3>2. head + off <= Len(whole)
      BY <1>3, <1>4, <2>2
    <3>. HIDE DEF cut
    <3>3. PartOf(cut, whole, head + off, Len(whole))
      BY <1>4, <2>2, <2>9, <3>1, <3>2, PartOfPart
    <3>. QED BY <3>3 DEF cut
  <2>. QED BY <2>1, <2>2, <2>10 DEF whole
<1>. QED BY <1>5, <1>6

-------------------------------------------------------------------------------
(* What a put stores *)

\* The entries a run goes by: those in the file, and the one it has read.
Known == pending \cup (IF put.stage = "idle" THEN {} ELSE {put.entry})

\* What the upload of an entry is to become, if all of its runs had one name.
Target(entry, name) ==
    IF entry.key = Nil THEN Versions[entry.version]
    ELSE Ciphertext(StreamOf(entry, name), Versions[entry.version])
Begins(cells, target) ==
    /\ IsSeq(cells) /\ Len(cells) <= Len(target)
    /\ \A j \in 1..Len(cells) : cells[j] = target[j]

\* What the session of an entry has is the beginning of that, and the length it was
\* made with is the length of it.
SessionFits(session, entry) ==
    /\ session = [length |-> session.length, cells |-> session.cells, names |-> session.names]
    /\ session.names \subseteq PutNames /\ session.names # {}
    /\ \A name \in session.names : entry.key = Nil \/ session.names = {name} =>
          /\ session.length = Len(Target(entry, name))
          /\ Begins(session.cells, Target(entry, name))
EntryFits(entry) ==
    /\ entry.version \in DOMAIN Versions /\ entry.prefix = entry.key
    /\ entry.session \in 1..Len(sessions)
    /\ sessions[entry.session] # Nil => SessionFits(sessions[entry.session], entry)

\* No two entries share a session, and a run sends the version it has started with.
RunFits ==
    /\ put.stage \in {"idle", "sending", "stored"}
    /\ put.stage # "idle" =>
          /\ put = [stage |-> put.stage, entry |-> put.entry, stream |-> put.stream]
          /\ put.entry.version = file
          /\ \E name \in PutNames : put.stream = StreamOf(put.entry, name)
PutInv ==
    /\ IsSeq(sessions) /\ file \in DOMAIN Versions /\ keys \in Nat /\ RunFits
    /\ \A entry \in Known : EntryFits(entry)
    /\ \A entry, other \in Known : entry.session = other.session => entry = other

\* A piece of what comes next makes a longer beginning.
LEMMA BeginsOn ==
    ASSUME NEW target, IsSeq(target), NEW cells, Begins(cells, target), NEW rest,
           PartOf(rest, target, Len(cells), Len(target)), NEW k \in 1..Len(rest)
    PROVE  Begins(cells \o FirstOf(rest, k), target)
<1>. DEFINE next == FirstOf(rest, k)
            n == Len(cells)
<1>1. /\ IsSeq(cells) /\ n <= Len(target) /\ n \in Nat /\ Len(target) \in Nat
      /\ \A j \in 1..n : cells[j] = target[j]
  BY DEF Begins, IsSeq
<1>. HIDE DEF n
<1>2. /\ IsSeq(rest) /\ Len(rest) = Len(target) - n /\ Len(rest) \in Nat
      /\ \A j \in 1..Len(rest) : rest[j] = target[n + j]
  BY DEF PartOf, IsSeq, n
<1>3. k \in Nat /\ k <= Len(rest)
  BY <1>2
<1>4. /\ IsSeq(next) /\ Len(next) = k /\ \A j \in 1..k : next[j] = rest[j]
  <2>1. CASE k < Len(rest)
    <3>1. next = SubSeq(rest, 0 + 1, k)
      BY <2>1 DEF FirstOf
    <3>2. /\ SubSeq(rest, 0 + 1, k) \in Seq(Range(rest)) /\ Len(SubSeq(rest, 0 + 1, k)) = k - 0
          /\ \A j \in 1..k - 0 : SubSeq(rest, 0 + 1, k)[j] = rest[0 + j]
      BY <1>2, <1>3, PartIs DEF IsSeq
    <3>. HIDE DEF next
    <3>3. next \in Seq(Range(rest)) /\ Len(next) = k /\ \A j \in 1..k : next[j] = rest[j]
      BY <1>3, <3>1, <3>2
    <3>. QED BY <3>3, SeqIsTable DEF IsSeq
  <2>2. CASE ~(k < Len(rest))
    BY <1>2, <1>3, <2>2 DEF FirstOf
  <2>. QED BY <2>1, <2>2
<1>. HIDE DEF next
<1>5. JoinOf(cells \o next, cells, next)
  BY <1>1, <1>4, JoinIs
<1>6. /\ IsSeq(cells \o next) /\ Len(cells \o next) = n + k
      /\ \A j \in 1..n : (cells \o next)[j] = cells[j]
      /\ \A j \in 1..k : (cells \o next)[n + j] = next[j]
  BY <1>4, <1>5 DEF JoinOf, n
<1>. DEFINE both == cells \o next
<1>. HIDE DEF both
<1>7. ASSUME NEW j \in 1..n + k PROVE both[j] = target[j]
  <2>1. CASE j <= n
    <3>1. j \in 1..n
      BY <1>1, <1>3, <2>1
    <3>. QED BY <1>1, <1>6, <3>1 DEF both
  <2>2. CASE ~(j <= n)
    <3>1. j - n \in 1..k /\ n + (j - n) = j /\ j - n \in 1..Len(rest)
      BY <1>1, <1>2, <1>3, <2>2
    <3>2. both[n + (j - n)] = next[j - n]
      BY <1>6, <3>1 DEF both
    <3>3. next[j - n] = rest[j - n] /\ rest[j - n] = target[n + (j - n)]
      BY <1>2, <1>4, <3>1
    <3>. QED BY <3>1, <3>2, <3>3
  <2>. QED BY <2>1, <2>2
<1>8. Len(both) = n + k /\ n + k <= Len(target)
  BY <1>1, <1>2, <1>3, <1>6 DEF both
<1>. QED BY <1>6, <1>7, <1>8 DEF Begins, both, next

LEMMA WholeIsTarget ==
    ASSUME NEW target, IsSeq(target), NEW cells, Begins(cells, target), Len(cells) = Len(target)
    PROVE  cells = target
BY SameCells DEF Begins, IsSeq

\* The contents are sequences, and so is what they become.
LEMMA TargetIs ==
    ASSUME NEW entry, entry.version \in DOMAIN Versions, NEW name \in PutNames
    PROVE  /\ IsSeq(Versions[entry.version]) /\ IsSeq(name) /\ IsSeq(Target(entry, name))
           /\ Len(Target(entry, name)) \in Nat
<1>1. IsSeq(Versions[entry.version]) /\ IsSeq(name)
  BY VersionAssumption DEF IsSeq
<1>2. StreamOf(entry, name).name = name
  BY DEF StreamOf
<1>3. IsSeq(Ciphertext(StreamOf(entry, name), Versions[entry.version]))
  BY <1>1, <1>2, CiphertextIs DEF CipherOf
<1>4. IsSeq(Target(entry, name))
  BY <1>1, <1>3 DEF Target
<1>5. Len(Target(entry, name)) \in Nat
  BY <1>4 DEF IsSeq
<1>. QED BY <1>1, <1>4, <1>5

\* What is stored under the name of its runs decrypts to its version.
LEMMA StoredDecrypts ==
    ASSUME NEW entry, entry.version \in DOMAIN Versions, entry.prefix = entry.key,
           NEW name \in PutNames, entry.key # Nil
    PROVE  Decrypt(Target(entry, name), entry.key)
              = [ok |-> TRUE, name |-> name, plain |-> Versions[entry.version]]
<1>. DEFINE stream == StreamOf(entry, name)
            plain == Versions[entry.version]
            whole == Ciphertext(stream, plain)
<1>1. stream.name = name /\ stream.key = entry.key
  BY DEF StreamOf
<1>2. IsSeq(plain) /\ IsSeq(name)
  BY TargetIs
<1>3. Target(entry, name) = whole
  BY DEF Target
<1>. HIDE DEF stream, plain
<1>4. CipherOf(whole, stream, plain)
  BY <1>1, <1>2, CiphertextIs
<1>. HIDE DEF whole
<1>5. Decrypt(whole, stream.key) = [ok |-> TRUE, name |-> stream.name, plain |-> plain]
  BY <1>1, <1>2, <1>4, RoundTrip
<1>. QED BY <1>1, <1>3, <1>5 DEF plain

\* src(offset) reads what the upload goes on with.
LEMMA SourceContinues ==
    ASSUME NEW name \in PutNames, put.entry.version \in DOMAIN Versions,
           put.entry.version = file,
           put.entry.key = Nil \/ put.stream = StreamOf(put.entry, name),
           NEW offset \in Nat, offset < Len(Target(put.entry, name))
    PROVE  PartOf(Source(offset), Target(put.entry, name), offset, Len(Target(put.entry, name)))
<1>. DEFINE entry == put.entry
            plain == Versions[file]
            stream == StreamOf(entry, name)
<1>1. IsSeq(plain) /\ IsSeq(name) /\ stream.name = name
  BY TargetIs DEF StreamOf
<1>2. CASE entry.key = Nil
  <2>1. Source(offset) = From(plain, offset) /\ Target(entry, name) = plain
    BY <1>2 DEF Source, Target
  <2>. HIDE DEF plain
  <2>2. Len(plain) \in Nat /\ offset <= Len(plain)
    BY <1>1, <2>1 DEF IsSeq
  <2>3. From(plain, offset) = Slice(plain, offset, Len(plain))
    BY <2>2 DEF From, Slice
  <2>4. PartOf(Slice(plain, offset, Len(plain)), plain, offset, Len(plain))
    BY <1>1, <2>2, SliceIs
  <2>. QED BY <2>1, <2>3, <2>4
<1>3. CASE entry.key # Nil
  <2>1. Source(offset) = ReaderFrom(stream, plain, offset)
    BY <1>3 DEF Source
  <2>2. Target(entry, name) = Ciphertext(stream, plain)
    BY <1>3 DEF Target
  <2>. HIDE DEF plain, stream
  <2>3. offset < Len(Ciphertext(stream, plain))
    BY <2>2
  <2>4. PartOf(ReaderFrom(stream, plain, offset), Ciphertext(stream, plain), offset,
               Len(Ciphertext(stream, plain)))
    BY <1>1, <2>3, ReaderFromIs
  <2>. QED BY <2>1, <2>2, <2>4
<1>. QED BY <1>2, <1>3

\* Reading the file of sessions, or writing one cell of it.
LEMMA SessionsKept ==
    ASSUME IsSeq(sessions), NEW id \in 1..Len(sessions), NEW session
    PROVE  LET new == [sessions EXCEPT ![id] = session] IN
           /\ IsSeq(new) /\ Len(new) = Len(sessions) /\ new[id] = session
           /\ \A other \in 1..Len(sessions) : other # id => new[other] = sessions[other]
<1>. DEFINE new == [sessions EXCEPT ![id] = session]
            n == Len(sessions)
<1>1. n \in Nat /\ DOMAIN sessions = 1..n
  BY DEF IsSeq
<1>. HIDE DEF n
<1>2. /\ DOMAIN new = 1..n /\ new[id] = session
      /\ \A other \in 1..n : other # id => new[other] = sessions[other]
      /\ new = [j \in 1..n |-> new[j]]
  BY <1>1 DEF n
<1>. HIDE DEF new
<1>3. new \in Seq(Range(new)) /\ Len(new) = n
  BY <1>1, <1>2, TableIsSeq
<1>. QED BY <1>2, <1>3 DEF IsSeq, new, n

LEMMA SessionsGrow ==
    ASSUME IsSeq(sessions), NEW session
    PROVE  LET new == Append(sessions, session) IN
           /\ IsSeq(new) /\ Len(new) = Len(sessions) + 1 /\ new[Len(sessions) + 1] = session
           /\ \A other \in 1..Len(sessions) : new[other] = sessions[other]
<1>. DEFINE new == Append(sessions, session)
            S == Range(sessions) \cup {session}
<1>1. sessions \in Seq(S) /\ session \in S
  BY DEF IsSeq
<1>. HIDE DEF S
<1>2. /\ new \in Seq(S) /\ Len(new) = Len(sessions) + 1 /\ new[Len(sessions) + 1] = session
      /\ \A other \in 1..Len(sessions) : new[other] = sessions[other]
  BY <1>1
<1>. HIDE DEF new
<1>3. IsSeq(new)
  BY <1>2, SeqIsTable DEF IsSeq
<1>. QED BY <1>2, <1>3 DEF new

\* Steps that add no entry, and change sessions by ending some.
LEMMA PutsOn ==
    ASSUME PutInv, RunFits', Known' \subseteq Known, file' \in DOMAIN Versions, keys' \in Nat,
           IsSeq(sessions'), Len(sessions') = Len(sessions),
           \A id \in 1..Len(sessions) : sessions'[id] \in {Nil, sessions[id]}
    PROVE  PutInv'
<1>1. ASSUME NEW entry \in Known' PROVE EntryFits(entry)'
  <2>1. EntryFits(entry)
    BY <1>1 DEF PutInv
  <2>2. sessions'[entry.session] # Nil => sessions'[entry.session] = sessions[entry.session]
    BY <2>1 DEF EntryFits
  <2>. QED BY <2>1, <2>2 DEF EntryFits, SessionFits, Target, StreamOf
<1>2. \A entry, other \in Known' : entry.session = other.session => entry = other
  BY DEF PutInv
<1>. QED BY <1>1, <1>2 DEF PutInv

LEMMA StartsFit ==
    ASSUME PutInv, NEW e2e \in BOOLEAN, NEW name \in PutNames, StartPut(e2e, name)
    PROVE  PutInv'
<1>. DEFINE plain == Versions[file]
            size == Len(plain)
            length == IF e2e THEN EncryptedSize(size, name) ELSE size
            key == IF e2e THEN keys + 1 ELSE Nil
            id == Len(sessions) + 1
            added == [version |-> file, session |-> id, length |-> length,
                      key |-> key, prefix |-> key]
            session == [length |-> length, cells |-> <<>>, names |-> {name}]
<1>1. /\ IsSeq(sessions) /\ file \in DOMAIN Versions /\ keys \in Nat /\ Known = pending
      /\ \A old \in Known : EntryFits(old)
      /\ \A old, other \in Known : old.session = other.session => old = other
  BY DEF PutInv, StartPut, Known
<1>. PICK entry : entry = added
  OBVIOUS
<1>2. /\ sessions' = Append(sessions, session)
      /\ pending' = {old \in pending : ~SameKey(old)} \cup {entry}
      /\ put' = [stage |-> "sending", entry |-> entry, stream |-> StreamOf(entry, name)]
      /\ keys' = keys + 1 /\ file' = file
  BY DEF StartPut
<1>3. key = IF e2e THEN keys + 1 ELSE Nil
  OBVIOUS
<1>4. entry.version = file /\ entry.key = key /\ entry.prefix = key /\ entry.session = id
  OBVIOUS
<1>5. length = Len(Target(entry, name))
  <2>1. IsSeq(plain) /\ IsSeq(name) /\ StreamOf(entry, name).name = name
    BY <1>1, <1>4, TargetIs DEF StreamOf
  <2>2. CASE e2e
    <3>1. key # Nil
      BY <1>1, <2>2, NilAssumption
    <3>2. Target(entry, name) = Ciphertext(StreamOf(entry, name), plain)
      BY <1>4, <3>1 DEF Target
    <3>. HIDE DEF plain
    <3>3. Len(Ciphertext(StreamOf(entry, name), plain))
             = EncryptedSize(Len(plain), StreamOf(entry, name).name)
      BY <2>1, SizeIsRight
    <3>. QED BY <2>1, <2>2, <3>2, <3>3
  <2>3. CASE ~e2e
    BY <1>4, <2>3 DEF Target
  <2>. QED BY <2>2, <2>3
<1>. HIDE DEF length, key
<1>6. SessionFits(session, entry)
  <2>1. IsSeq(<<>>) /\ Len(<<>>) = 0
    BY DEF IsSeq
  <2>2. Len(Target(entry, name)) \in Nat
    BY <1>1, <1>4, TargetIs
  <2>3. Begins(<<>>, Target(entry, name))
    BY <2>1, <2>2 DEF Begins
  <2>4. /\ session.length = length /\ session.cells = <<>> /\ session.names = {name}
        /\ session = [length |-> session.length, cells |-> session.cells,
                      names |-> session.names]
    OBVIOUS
  <2>. HIDE DEF session
  <2>. QED BY <1>5, <2>3, <2>4 DEF SessionFits
<1>. HIDE DEF session
<1>7. /\ IsSeq(sessions') /\ Len(sessions') = id /\ sessions'[id] = session
      /\ \A other \in 1..Len(sessions) : sessions'[other] = sessions[other]
  BY <1>1, <1>2, SessionsGrow
<1>8. Known' = pending' /\ \A old \in pending' : old \in Known \/ old = entry
  BY <1>1, <1>2 DEF Known
<1>9. EntryFits(entry)'
  <2>1. id \in 1..Len(sessions') /\ entry.version \in DOMAIN Versions
    BY <1>1, <1>4, <1>7 DEF IsSeq
  <2>2. SessionFits(sessions'[entry.session], entry)
    BY <1>4, <1>6, <1>7 DEF SessionFits, Target, StreamOf
  <2>. QED BY <1>4, <2>1, <2>2 DEF EntryFits
<1>10. ASSUME NEW old \in Known PROVE EntryFits(old)' /\ old.session # id
  <2>1. EntryFits(old) /\ old.session \in 1..Len(sessions) /\ Len(sessions) \in Nat
    BY <1>1 DEF EntryFits, IsSeq
  <2>2. old.session \in 1..Len(sessions') /\ old.session # id
    BY <1>7, <2>1
  <2>3. sessions'[old.session] = sessions[old.session]
    BY <1>7, <2>1
  <2>. QED BY <2>1, <2>2, <2>3 DEF EntryFits, SessionFits, Target, StreamOf
<1>11. \A old \in Known' : EntryFits(old)'
  BY <1>8, <1>9, <1>10
<1>12. \A old, other \in Known' : old.session = other.session => old = other
  BY <1>1, <1>4, <1>8, <1>10
<1>13. RunFits'
  <2>1. put'.stage = "sending" /\ put'.entry = entry /\ put'.stream = StreamOf(entry, name)
    BY <1>2
  <2>2. put' = [stage |-> put'.stage, entry |-> put'.entry, stream |-> put'.stream]
    BY <1>2, <2>1
  <2>. QED BY <1>2, <1>4, <2>1, <2>2 DEF RunFits, StreamOf
<1>. QED BY <1>1, <1>2, <1>7, <1>11, <1>12, <1>13 DEF PutInv

LEMMA SendsFit ==
    ASSUME PutInv, SendCells
    PROVE  PutInv'
<1>. DEFINE entry == put.entry
            id == entry.session
            old == sessions[id]
            offset == Len(old.cells)
            rest == Source(offset)
<1>1. put.stage = "sending" /\ old # Nil /\ sessions[id] # Nil
  BY DEF SendCells
<1>2. PICK k \in 1..Len(rest) :
         /\ k <= old.length - offset
         /\ sessions' = [sessions EXCEPT ![id].cells = @ \o FirstOf(rest, k),
                                         ![id].names = @ \cup {put.stream.name}]
  BY DEF SendCells
<1>3. UNCHANGED <<file, pending, put, keys>>
  BY DEF SendCells
<1>4. PICK name \in PutNames : put.stream = StreamOf(entry, name)
  BY <1>1 DEF PutInv, RunFits
<1>5. /\ IsSeq(sessions) /\ entry \in Known /\ EntryFits(entry) /\ entry.version = file
      /\ file \in DOMAIN Versions /\ id \in 1..Len(sessions) /\ SessionFits(old, entry)
  BY <1>1 DEF PutInv, RunFits, Known, EntryFits
<1>6. put.stream.name = name
  BY <1>4 DEF StreamOf
<1>7. /\ old = [length |-> old.length, cells |-> old.cells, names |-> old.names]
      /\ old.names \subseteq PutNames /\ old.names # {}
      /\ \A n \in old.names : entry.key = Nil \/ old.names = {n} =>
            /\ old.length = Len(Target(entry, n)) /\ Begins(old.cells, Target(entry, n))
  BY <1>5 DEF SessionFits
<1>. DEFINE cells == old.cells \o FirstOf(rest, k)
            new == [length |-> old.length, cells |-> cells, names |-> old.names \cup {name}]
<1>8. sessions' = [sessions EXCEPT ![id] = new]
  <2>1. DOMAIN sessions = 1..Len(sessions)
    BY <1>5 DEF IsSeq
  <2>. HIDE DEF cells
  <2>2. sessions' = [sessions EXCEPT ![id] = [[old EXCEPT !.cells = cells]
                                                  EXCEPT !.names = @ \cup {name}]]
    BY <1>2, <1>5, <1>6, <2>1 DEF cells
  <2>3. [[old EXCEPT !.cells = cells] EXCEPT !.names = @ \cup {name}] = new
    <3>1. PICK l, c, ns : l = old.length /\ c = old.cells /\ ns = old.names
      OBVIOUS
    <3>2. old = [length |-> l, cells |-> c, names |-> ns]
      BY <1>7, <3>1
    <3>. HIDE DEF old, cells
    <3>. DEFINE ended == [[length |-> l, cells |-> c, names |-> ns] EXCEPT !.cells = cells]
    <3>3. ended = [length |-> l, cells |-> cells, names |-> ns]
      OBVIOUS
    <3>4. ended.names = ns
      BY <3>3
    <3>. HIDE DEF ended
    <3>. DEFINE more == ns \cup {name}
    <3>5. [ended EXCEPT !.names = @ \cup {name}] = [ended EXCEPT !.names = more]
      BY <3>4
    <3>. HIDE DEF more
    <3>6. [ended EXCEPT !.names = more] = [length |-> l, cells |-> cells, names |-> more]
      BY <3>3
    <3>. QED BY <3>1, <3>2, <3>5, <3>6 DEF ended, more
  <2>. QED BY <2>2, <2>3
<1>9. ASSUME NEW n \in old.names \cup {name}, entry.key = Nil \/ old.names \cup {name} = {n}
      PROVE  old.length = Len(Target(entry, n)) /\ Begins(cells, Target(entry, n))
  <2>. DEFINE target == Target(entry, n)
  <2>1. PICK m \in old.names : TRUE
    BY <1>7
  <2>2. entry.key = Nil \/ (m = n /\ name = n /\ old.names = {n})
    BY <1>9, <2>1
  <2>3. Target(entry, m) = target /\ (entry.key = Nil \/ old.names = {m}) /\ n \in PutNames
    BY <1>7, <2>1, <2>2 DEF Target
  <2>4. old.length = Len(target) /\ Begins(old.cells, target)
    BY <1>7, <2>1, <2>3
  <2>5. IsSeq(target) /\ Len(target) \in Nat /\ offset \in Nat
    <3>1. IsSeq(target) /\ Len(target) \in Nat
      BY <1>5, <2>3, TargetIs
    <3>. HIDE DEF target
    <3>2. IsSeq(old.cells)
      BY <2>4 DEF Begins
    <3>. QED BY <3>1, <3>2 DEF IsSeq
  <2>6. PartOf(rest, target, offset, Len(target))
    <3>1. offset < Len(target)
      <4>. HIDE DEF offset, target, rest
      <4>1. k >= 1
        OBVIOUS
      <4>. QED BY <1>2, <2>4, <2>5, <4>1
    <3>2. put.entry.key = Nil \/ put.stream = StreamOf(put.entry, n)
      BY <1>4, <2>2
    <3>. HIDE DEF offset
    <3>3. PartOf(Source(offset), Target(put.entry, n), offset, Len(Target(put.entry, n)))
      BY <1>5, <2>3, <2>5, <3>1, <3>2, SourceContinues
    <3>. QED BY <3>3
  <2>. HIDE DEF target, rest
  <2>7. Begins(cells, target)
    BY <2>4, <2>5, <2>6, BeginsOn
  <2>. QED BY <2>4, <2>7 DEF target
<1>. HIDE DEF cells, old
<1>10. SessionFits(new, entry)
  <2>1. /\ new.length = old.length /\ new.cells = cells /\ new.names = old.names \cup {name}
        /\ new = [length |-> new.length, cells |-> new.cells, names |-> new.names]
    OBVIOUS
  <2>. HIDE DEF new
  <2>. QED BY <1>7, <1>9, <2>1 DEF SessionFits
<1>. HIDE DEF new
<1>11. /\ IsSeq(sessions') /\ Len(sessions') = Len(sessions) /\ sessions'[id] = new
       /\ \A other \in 1..Len(sessions) : other # id => sessions'[other] = sessions[other]
  <2>. HIDE DEF id
  <2>. DEFINE more == [sessions EXCEPT ![id] = new]
  <2>1. /\ IsSeq(more) /\ Len(more) = Len(sessions) /\ more[id] = new
        /\ \A other \in 1..Len(sessions) : other # id => more[other] = sessions[other]
    BY <1>5, SessionsKept
  <2>2. sessions' = more
    BY <1>8
  <2>. HIDE DEF more
  <2>. QED BY <2>1, <2>2
<1>12. Known' = Known
  BY <1>3 DEF Known
<1>13. ASSUME NEW other \in Known PROVE EntryFits(other)'
  <2>1. EntryFits(other) /\ other.session \in 1..Len(sessions)
    BY DEF PutInv, EntryFits
  <2>2. CASE other = entry
    <3>1. SessionFits(sessions'[other.session], other)
      BY <1>10, <1>11, <2>2 DEF SessionFits, Target, StreamOf
    <3>. QED BY <1>11, <2>1, <3>1 DEF EntryFits
  <2>3. CASE other # entry
    <3>1. other.session # id
      BY <1>5, <2>3 DEF PutInv
    <3>2. sessions'[other.session] = sessions[other.session]
      BY <1>11, <2>1, <3>1
    <3>. QED BY <1>11, <2>1, <3>2 DEF EntryFits, SessionFits, Target, StreamOf
  <2>. QED BY <2>2, <2>3
<1>14. RunFits'
  BY <1>3 DEF PutInv, RunFits, StreamOf
<1>. QED BY <1>3, <1>11, <1>12, <1>13, <1>14 DEF PutInv

LEMMA CommitsFit ==
    ASSUME PutInv, UploadDecrypts, CommitPut
    PROVE  PutInv' /\ UploadDecrypts'
<1>. DEFINE entry == put.entry
            id == entry.session
            session == sessions[id]
            stored == [version |-> file, key |-> entry.key, names |-> session.names,
                       bytes |-> session.cells]
<1>1. /\ put.stage = "sending" /\ session # Nil /\ Len(session.cells) = session.length
      /\ sessions' = [sessions EXCEPT ![id] = Nil] /\ sent' = sent \cup {stored}
      /\ put' = [put EXCEPT !.stage = "stored"] /\ UNCHANGED <<keys, file, pending>>
  BY DEF CommitPut
<1>2. /\ IsSeq(sessions) /\ EntryFits(entry) /\ entry.version = file /\ file \in DOMAIN Versions
      /\ id \in 1..Len(sessions) /\ SessionFits(session, entry) /\ entry.prefix = entry.key
      /\ put = [stage |-> put.stage, entry |-> entry, stream |-> put.stream]
      /\ keys \in Nat
  BY <1>1 DEF PutInv, RunFits, Known, EntryFits
<1>3. PutInv'
  <2>. HIDE DEF id
  <2>. DEFINE less == [sessions EXCEPT ![id] = Nil]
  <2>1. /\ IsSeq(less) /\ Len(less) = Len(sessions) /\ less[id] = Nil
        /\ \A other \in 1..Len(sessions) : other # id => less[other] = sessions[other]
    BY <1>2, SessionsKept
  <2>2. sessions' = less
    BY <1>1
  <2>. HIDE DEF less
  <2>3. /\ put'.stage = "stored" /\ put'.entry = entry /\ put'.stream = put.stream
        /\ put' = [stage |-> put'.stage, entry |-> put'.entry, stream |-> put'.stream]
    <3>1. PICK e, s : e = entry /\ s = put.stream
      OBVIOUS
    <3>2. put' = [stage |-> "stored", entry |-> e, stream |-> s]
      BY <1>1, <1>2, <3>1
    <3>. QED BY <3>1, <3>2
  <2>4. RunFits'
    BY <1>1, <2>3 DEF PutInv, RunFits, StreamOf
  <2>5. Known' \subseteq Known
    BY <1>1, <2>3 DEF Known
  <2>6. \A other \in 1..Len(sessions) : sessions'[other] \in {Nil, sessions[other]}
    BY <2>1, <2>2
  <2>. QED BY <1>1, <1>2, <2>1, <2>2, <2>4, <2>5, <2>6, PutsOn
<1>4. /\ session.names \subseteq PutNames /\ session.names # {}
      /\ \A name \in session.names : entry.key = Nil \/ session.names = {name} =>
            /\ session.length = Len(Target(entry, name))
            /\ Begins(session.cells, Target(entry, name))
  BY <1>2 DEF SessionFits
<1>5. ASSUME NEW name \in session.names, entry.key = Nil \/ session.names = {name}
      PROVE  name \in PutNames /\ session.cells = Target(entry, name)
  <2>1. /\ name \in PutNames /\ Len(session.cells) = Len(Target(entry, name))
        /\ Begins(session.cells, Target(entry, name))
    BY <1>1, <1>4, <1>5
  <2>2. IsSeq(Target(entry, name))
    BY <1>2, <2>1, TargetIs
  <2>. HIDE DEF session, entry
  <2>. QED BY <2>1, <2>2, WholeIsTarget
<1>6. stored.version = file /\ stored.key = entry.key /\ stored.names = session.names
      /\ stored.bytes = session.cells
  OBVIOUS
<1>. HIDE DEF session, stored
<1>7. entry.key = Nil => stored.bytes = Versions[stored.version]
  <2>. SUFFICES ASSUME entry.key = Nil PROVE stored.bytes = Versions[stored.version]
    OBVIOUS
  <2>1. PICK name \in session.names : TRUE
    BY <1>4
  <2>. QED BY <1>2, <1>5, <1>6 DEF Target
<1>8. ASSUME entry.key # Nil, NEW name \in stored.names, stored.names = {name}
      PROVE  LET result == Decrypt(stored.bytes, stored.key)
             IN  result.ok /\ result.plain = Versions[stored.version] /\ result.name = name
  <2>1. name \in PutNames /\ stored.bytes = Target(entry, name)
    BY <1>5, <1>6, <1>8
  <2>2. Decrypt(Target(entry, name), entry.key)
           = [ok |-> TRUE, name |-> name, plain |-> Versions[entry.version]]
    BY <1>2, <1>8, <2>1, StoredDecrypts
  <2>3. Decrypt(stored.bytes, stored.key)
           = [ok |-> TRUE, name |-> name, plain |-> Versions[stored.version]]
    BY <1>2, <1>6, <2>1, <2>2
  <2>. DEFINE result == Decrypt(stored.bytes, stored.key)
  <2>4. result = [ok |-> TRUE, name |-> name, plain |-> Versions[stored.version]]
    BY <2>3
  <2>. HIDE DEF result
  <2>5. result.ok /\ result.plain = Versions[stored.version] /\ result.name = name
    BY <2>4
  <2>. QED BY <2>5 DEF result
<1>9. UploadDecrypts'
  BY <1>1, <1>6, <1>7, <1>8 DEF UploadDecrypts
<1>. QED BY <1>3, <1>9

LEMMA WholesFit ==
    ASSUME PutInv, UploadDecrypts, NEW e2e \in BOOLEAN, NEW name \in PutNames, PutWhole(e2e, name)
    PROVE  PutInv' /\ UploadDecrypts'
<1>. DEFINE key == IF e2e THEN keys + 1 ELSE Nil
            entry == [version |-> file, key |-> key, prefix |-> key]
            stream == [key |-> key, prefix |-> key, name |-> name]
            plain == Versions[file]
            bytes == IF e2e THEN Ciphertext(stream, plain) ELSE plain
            stored == [version |-> file, key |-> key, names |-> {name}, bytes |-> bytes]
<1>1. /\ sent' = sent \cup {stored} /\ keys' = keys + 1
      /\ UNCHANGED <<file, sessions, pending, put>>
  BY DEF PutWhole
<1>2. IsSeq(sessions) /\ file \in DOMAIN Versions /\ keys \in Nat /\ RunFits
  BY DEF PutInv
<1>3. PutInv'
  <2>1. RunFits'
    BY <1>1, <1>2 DEF RunFits, StreamOf
  <2>2. Known' \subseteq Known
    BY <1>1 DEF Known
  <2>. QED BY <1>1, <1>2, <2>1, <2>2, PutsOn
<1>4. entry.version = file /\ entry.key = key /\ entry.prefix = entry.key
      /\ StreamOf(entry, name) = stream
  BY DEF StreamOf
<1>5. stored.version = file /\ stored.key = key /\ stored.names = {name} /\ stored.bytes = bytes
  OBVIOUS
<1>6. key = Nil => bytes = plain
  BY <1>2, NilAssumption
<1>7. bytes = Target(entry, name)
  <2>1. CASE e2e
    <3>1. entry.key # Nil
      BY <1>2, <1>4, <2>1, NilAssumption
    <3>2. Target(entry, name) = Ciphertext(stream, plain)
      BY <1>4, <3>1 DEF Target
    <3>. HIDE DEF stream, plain, entry
    <3>. QED BY <2>1, <3>2
  <2>2. CASE ~e2e
    BY <1>4, <2>2 DEF Target
  <2>. QED BY <2>1, <2>2
<1>. HIDE DEF bytes, stored, key, entry
<1>8. ASSUME key # Nil
      PROVE  LET result == Decrypt(stored.bytes, stored.key)
             IN  result.ok /\ result.plain = Versions[stored.version] /\ result.name = name
  <2>1. Decrypt(Target(entry, name), entry.key)
           = [ok |-> TRUE, name |-> name, plain |-> Versions[entry.version]]
    BY <1>2, <1>4, <1>8, StoredDecrypts
  <2>. DEFINE result == Decrypt(stored.bytes, stored.key)
  <2>2. result = [ok |-> TRUE, name |-> name, plain |-> Versions[stored.version]]
    BY <1>4, <1>5, <1>7, <2>1
  <2>. HIDE DEF result
  <2>3. result.ok /\ result.plain = Versions[stored.version] /\ result.name = name
    BY <2>2
  <2>. QED BY <2>3 DEF result
<1>9. UploadDecrypts'
  BY <1>1, <1>5, <1>6, <1>8 DEF UploadDecrypts
<1>. QED BY <1>3, <1>9

\* The rest of put ends runs and sessions, and takes a run up where the entry says.
LEMMA OthersFit ==
    ASSUME PutInv,
           \/ \E e2e \in BOOLEAN, name \in PutNames : ResumePut(e2e, name)
           \/ FinishPut \/ BreakPut \/ EditFile \/ ForgetSession
    PROVE  PutInv'
<1>1. /\ IsSeq(sessions) /\ file \in DOMAIN Versions /\ keys \in Nat /\ RunFits
  BY DEF PutInv
<1>2. \A id \in 1..Len(sessions) : sessions[id] \in {Nil, sessions[id]}
  OBVIOUS
<1>3. ASSUME NEW e2e \in BOOLEAN, NEW name \in PutNames, ResumePut(e2e, name) PROVE PutInv'
  <2>1. PICK entry \in pending :
           /\ Resumable(entry, e2e)
           /\ put' = [stage |-> "sending", entry |-> entry, stream |-> StreamOf(entry, name)]
    BY <1>3 DEF ResumePut
  <2>2. UNCHANGED <<file, sessions, pending, keys>> /\ put.stage = "idle"
    BY <1>3 DEF ResumePut
  <2>3. put'.stage = "sending" /\ put'.entry = entry /\ put'.stream = StreamOf(entry, name)
        /\ put' = [stage |-> put'.stage, entry |-> put'.entry, stream |-> put'.stream]
    BY <2>1
  <2>4. entry.version = file
    BY <2>1 DEF Resumable, SameKey
  <2>5. RunFits'
    BY <2>2, <2>3, <2>4 DEF RunFits, StreamOf
  <2>6. Known' \subseteq Known
    BY <2>1, <2>2, <2>3 DEF Known
  <2>. QED BY <1>1, <1>2, <2>2, <2>5, <2>6, PutsOn
<1>4. CASE FinishPut \/ BreakPut
  <2>1. UNCHANGED <<file, sessions, keys>> /\ put' = NoPut /\ pending' \subseteq pending
    BY <1>4 DEF FinishPut, BreakPut
  <2>2. put'.stage = "idle"
    BY <2>1 DEF NoPut
  <2>3. RunFits' /\ Known' \subseteq Known
    BY <2>1, <2>2 DEF RunFits, Known
  <2>. QED BY <1>1, <1>2, <2>1, <2>3, PutsOn
<1>5. CASE EditFile
  <2>1. UNCHANGED <<put, sessions, keys, pending>> /\ put.stage = "idle" /\ file' = file + 1
        /\ file < Len(Versions)
    BY <1>5 DEF EditFile
  <2>2. file' \in DOMAIN Versions
    BY <1>1, <2>1, VersionAssumption
  <2>3. RunFits' /\ Known' \subseteq Known
    BY <2>1 DEF RunFits, Known
  <2>. QED BY <1>1, <1>2, <2>1, <2>2, <2>3, PutsOn
<1>6. CASE ForgetSession
  <2>1. PICK id \in DOMAIN sessions : sessions' = [sessions EXCEPT ![id] = Nil]
    BY <1>6 DEF ForgetSession
  <2>2. UNCHANGED <<put, file, keys, pending>>
    BY <1>6 DEF ForgetSession
  <2>3. id \in 1..Len(sessions)
    BY <1>1 DEF IsSeq
  <2>. DEFINE less == [sessions EXCEPT ![id] = Nil]
  <2>4. /\ IsSeq(less) /\ Len(less) = Len(sessions) /\ less[id] = Nil
        /\ \A other \in 1..Len(sessions) : other # id => less[other] = sessions[other]
    BY <1>1, <2>3, SessionsKept
  <2>5. sessions' = less
    BY <2>1
  <2>. HIDE DEF less
  <2>6. \A other \in 1..Len(sessions) : sessions'[other] \in {Nil, sessions[other]}
    BY <2>4, <2>5
  <2>7. RunFits' /\ Known' \subseteq Known
    BY <1>1, <2>2 DEF RunFits, Known, StreamOf
  <2>. QED BY <1>1, <2>2, <2>4, <2>5, <2>6, <2>7, PutsOn
<1>. QED BY <1>3, <1>4, <1>5, <1>6

LEMMA PutNext ==
    ASSUME [Next]_vars
    PROVE  \/ UNCHANGED putVars
           \/ SendCells \/ CommitPut
           \/ \E e2e \in BOOLEAN, name \in PutNames :
                 StartPut(e2e, name) \/ PutWhole(e2e, name) \/ ResumePut(e2e, name)
           \/ FinishPut \/ BreakPut \/ EditFile \/ ForgetSession
<1>1. CASE UNCHANGED vars
  BY <1>1 DEF vars, transferVars
<1>2. CASE Next
  BY <1>2 DEF Next, Transfer, Record, transferVars, BeginGet, AnswerGet, Receive,
     EndGet, DecryptFile, BreakGet, Probe
<1>. QED BY <1>1, <1>2

\* What a put has stored, over however many runs, sessions and versions of the file,
\* the key of its link turns back into the version its runs were sending, unless they
\* were given different names.  For any files, names, chunk size and sequences of runs.
THEOREM StoredUploadsDecrypt == Spec => []UploadDecrypts
<1>1. Init => PutInv /\ UploadDecrypts
  <2>. SUFFICES ASSUME Init PROVE PutInv /\ UploadDecrypts
    OBVIOUS
  <2>1. /\ file = 1 /\ sessions = <<>> /\ pending = {} /\ put = NoPut /\ keys = 0 /\ sent = {}
    BY DEF Init, TransferInit
  <2>2. put.stage = "idle" /\ Known = {}
    BY <2>1 DEF NoPut, Known
  <2>3. 1 \in DOMAIN Versions
    BY TransferAssumption, VersionAssumption
  <2>4. IsSeq(sessions)
    BY <2>1 DEF IsSeq
  <2>. QED BY <2>1, <2>2, <2>3, <2>4 DEF PutInv, RunFits, UploadDecrypts
<1>2. PutInv /\ UploadDecrypts /\ [Next]_vars => (PutInv /\ UploadDecrypts)'
  <2>. SUFFICES ASSUME PutInv, UploadDecrypts, [Next]_vars PROVE PutInv' /\ UploadDecrypts'
    OBVIOUS
  <2>1. CASE UNCHANGED putVars
    <3>1. UNCHANGED <<file, sessions, pending, put, keys, sent>>
      BY <2>1 DEF putVars
    <3>2. RunFits' /\ Known' \subseteq Known
      BY <3>1 DEF PutInv, RunFits, Known, StreamOf
    <3>3. \A id \in 1..Len(sessions) : sessions'[id] \in {Nil, sessions[id]}
      BY <3>1
    <3>4. file' \in DOMAIN Versions /\ keys' \in Nat /\ IsSeq(sessions')
      BY <3>1 DEF PutInv
    <3>. QED BY <3>1, <3>2, <3>3, <3>4, PutsOn DEF UploadDecrypts
  <2>2. CASE SendCells
    BY <2>2, SendsFit DEF SendCells, UploadDecrypts
  <2>3. CASE CommitPut
    BY <2>3, CommitsFit
  <2>4. ASSUME NEW e2e \in BOOLEAN, NEW name \in PutNames, StartPut(e2e, name)
        PROVE  PutInv' /\ UploadDecrypts'
    BY <2>4, StartsFit DEF StartPut, UploadDecrypts
  <2>5. ASSUME NEW e2e \in BOOLEAN, NEW name \in PutNames, PutWhole(e2e, name)
        PROVE  PutInv' /\ UploadDecrypts'
    BY <2>5, WholesFit
  <2>6. ASSUME \/ \E e2e \in BOOLEAN, name \in PutNames : ResumePut(e2e, name)
               \/ FinishPut \/ BreakPut \/ EditFile \/ ForgetSession
        PROVE  PutInv' /\ UploadDecrypts'
    <3>1. UNCHANGED sent
      BY <2>6 DEF ResumePut, FinishPut, BreakPut, EditFile, ForgetSession
    <3>. QED BY <2>6, <3>1, OthersFit DEF UploadDecrypts
  <2>. QED BY <2>1, <2>2, <2>3, <2>4, <2>5, <2>6, PutNext
<1>. QED BY <1>1, <1>2, PTL DEF Spec

-------------------------------------------------------------------------------
(* What get saves *)

\* A cell of a ciphertext names its key; only the fixed part of the header counts
\* from 0, and whatever is numbered is a piece of the content, the last one final.
LEMMA CellOf ==
    ASSUME NEW plain, IsSeq(plain), NEW stream, IsSeq(stream.name),
           NEW x \in Range(Ciphertext(stream, plain))
    PROVE  /\ x.seal.key = stream.key
           /\ x.i = 0 => x.seal.data = stream.name
           /\ x.i # 0 /\ x.seal.counter # 0 =>
                 \E c \in 0..NumChunks(plain) - 1 :
                    /\ x.seal.counter = c + 1 /\ x.seal.final = (c = NumChunks(plain) - 1)
                    /\ x.seal.data = Piece(plain, c)
<1>. DEFINE whole == Ciphertext(stream, plain)
            head == Len(stream.name) + 2
            all == Chunks(stream, plain, 1)
            n == NumChunks(plain)
            Fits(y) == /\ y.seal.key = stream.key
                       /\ y.i = 0 => y.seal.data = stream.name
                       /\ y.i # 0 /\ y.seal.counter # 0 =>
                             \E c \in 0..n - 1 :
                                /\ y.seal.counter = c + 1 /\ y.seal.final = (c = n - 1)
                                /\ y.seal.data = Piece(plain, c)
<1>1. /\ IsSeq(whole) /\ Len(stream.name) \in Nat /\ Len(all) \in Nat
      /\ Len(whole) = head + Len(all) /\ \A j \in 1..head : whole[j] = Header(stream)[j]
      /\ \A j \in 1..Len(all) : whole[head + j] = all[j]
  <2>1. CipherOf(whole, stream, plain)
    BY CiphertextIs
  <2>. HIDE DEF whole
  <2>. QED BY <2>1 DEF CipherOf
<1>2. PICK j \in 1..Len(whole) : x = whole[j]
  <2>1. x \in Range(whole)
    OBVIOUS
  <2>. HIDE DEF whole
  <2>2. DOMAIN whole = 1..Len(whole)
    BY <1>1 DEF IsSeq
  <2>. QED BY <2>1, <2>2 DEF Range
<1>3. /\ Header(stream)[1].i = 0 /\ Header(stream)[1].seal.data = stream.name
      /\ Header(stream)[1].seal.key = stream.key
      /\ \A k \in 1..Len(stream.name) + 1 :
            Header(stream)[1 + k] = SealCell(stream, 0, FALSE, stream.name, k)
  BY HeaderIs DEF IsSeq
<1>4. n \in Nat \ {0} /\ Len(plain) \in Nat /\ Len(all) = Len(plain) + n
  BY ChunksAre, NumChunksIs DEF IsSeq
<1>5. \A c \in 0..n - 1 : \A k \in 1..Len(Piece(plain, c)) + 1 :
            all[CipherChunk * c + k] = SealCell(stream, 1 + c, c = n - 1, Piece(plain, c), k)
  BY ChunksAre DEF IsSeq
<1>. HIDE DEF whole, all
<1>6. CASE j = 1
  <2>1. x = Header(stream)[1]
    BY <1>1, <1>2, <1>6
  <2>. QED BY <1>3, <2>1
<1>7. CASE j \in 2..head
  <2>1. PICK k \in 1..Len(stream.name) + 1 : j = 1 + k
    <3>1. j - 1 \in 1..Len(stream.name) + 1 /\ j = 1 + (j - 1)
      BY <1>1, <1>7
    <3>. QED BY <3>1
  <2>2. x = SealCell(stream, 0, FALSE, stream.name, k)
    <3>1. j \in 1..head
      BY <1>1, <1>7
    <3>2. x = Header(stream)[1 + k]
      BY <1>1, <1>2, <2>1, <3>1
    <3>. QED BY <1>3, <3>2
  <2>3. x.i = k /\ x.seal.counter = 0 /\ x.seal.key = stream.key /\ k # 0
    BY <1>1, <2>2 DEF SealCell
  <2>. QED BY <2>3
<1>8. CASE j \notin 1..head
  <2>. DEFINE o == j - head
              c == (o - 1) \div CipherChunk
              k == o - c * CipherChunk
  <2>1. o \in 1..Len(all) /\ head + o = j
    <3>1. head \in Nat /\ Len(all) \in Nat /\ Len(whole) = head + Len(all)
      BY <1>1
    <3>. HIDE DEF head
    <3>2. j \in 1..head + Len(all) /\ j \notin 1..head
      BY <1>2, <1>8, <3>1
    <3>. QED BY <3>1, <3>2
  <2>. HIDE DEF o, n
  <2>2. o \in 1..Len(plain) + NumChunks(plain)
    BY <1>4, <2>1 DEF n
  <2>3. c \in 0..n - 1 /\ k \in 1..Len(Piece(plain, c)) + 1 /\ o = CipherChunk * c + k
    BY <2>2, PlaceOf DEF IsSeq, n
  <2>. HIDE DEF c, k
  <2>4. x = SealCell(stream, 1 + c, c = n - 1, Piece(plain, c), k)
    BY <1>1, <1>2, <1>5, <2>1, <2>3
  <2>5. /\ x.i = k /\ x.seal.key = stream.key /\ x.seal.counter = 1 + c
        /\ x.seal.final = (c = n - 1) /\ x.seal.data = Piece(plain, c)
    BY <2>4 DEF SealCell
  <2>6. k # 0 /\ 1 + c = c + 1
    <3>1. c \in Nat /\ Len(Piece(plain, c)) \in Nat
      BY <1>4, <2>3, PieceIs DEF IsSeq, n
    <3>. QED BY <2>3, <3>1
  <2>7. Fits(x)
    BY <2>3, <2>5, <2>6
  <2>. QED BY <2>7 DEF n
<1>. QED BY <1>1, <1>2, <1>6, <1>7, <1>8

\* Two links with one file name, which share a partial file, are of sealed uploads with
\* a key each.
NamesApart ==
    \A u, v \in DOMAIN Offers : u # v /\ Offers[u].name = Offers[v].name =>
        Offers[u].key # Nil /\ Offers[v].key # Nil /\ Offers[u].key # Offers[v].key

Offered(x, n) == \E v \in DOMAIN Offers : Offers[v].name = n /\ x \in Range(Offers[v].bytes)
StreamOffered(u) ==
    [key |-> Offers[u].key, prefix |-> Offers[u].bytes[1].seal.prefix,
     name |-> SealedName(Offers[u].bytes)]

LEMMA OfferIs ==
    ASSUME NEW u \in DOMAIN Offers
    PROVE  /\ IsSeq(Offers[u].plain) /\ IsSeq(Offers[u].bytes) /\ Len(Offers[u].bytes) < Word \div 2
           /\ Offers[u].name \in Names
           /\ Offers[u].key = Nil => Offers[u].encrypted \/ Offers[u].bytes = Offers[u].plain
           /\ Offers[u].key # Nil =>
                 /\ ~Offers[u].encrypted /\ IsSeq(StreamOffered(u).name)
                 /\ StreamOffered(u).name \in Names /\ StreamOffered(u).key = Offers[u].key
                 /\ Offers[u].bytes = Ciphertext(StreamOffered(u), Offers[u].plain)
<1>1. IsSeq(Offers[u].plain) /\ IsSeq(Offers[u].bytes) /\ Len(Offers[u].bytes) < Word \div 2
  BY OfferAssumption DEF IsSeq
<1>2. Offers[u].name \in Names /\ \A name \in Names : IsSeq(name)
  BY SealAssumption DEF Names, IsSeq
<1>3. StreamOffered(u).key = Offers[u].key
  BY DEF StreamOffered
<1>4. \/ Offers[u].key = Nil /\ (Offers[u].encrypted \/ Offers[u].bytes = Offers[u].plain)
      \/ /\ Offers[u].key # Nil /\ ~Offers[u].encrypted
         /\ StreamOffered(u).name \in Names
         /\ Offers[u].bytes = Ciphertext(StreamOffered(u), Offers[u].plain)
  BY SealAssumption DEF StreamOffered
<1>. QED BY <1>1, <1>2, <1>3, <1>4

\* What get has of a sealed upload: a header that names a file, and under its own key
\* nothing but its own pieces.
LEMMA OwnCell ==
    ASSUME NamesApart, NEW u \in DOMAIN Offers, Offers[u].key # Nil,
           NEW x, Offered(x, Offers[u].name)
    PROVE  /\ x.i = 0 => x.seal.data \in Names /\ IsSeq(x.seal.data)
           /\ x.i # 0 /\ x.seal.counter # 0 /\ x.seal.key = Offers[u].key =>
                 \E c \in 0..NumChunks(Offers[u].plain) - 1 :
                    /\ x.seal.counter = c + 1
                    /\ x.seal.final = (c = NumChunks(Offers[u].plain) - 1)
                    /\ x.seal.data = Piece(Offers[u].plain, c)
<1>1. PICK v \in DOMAIN Offers : Offers[v].name = Offers[u].name /\ x \in Range(Offers[v].bytes)
  BY DEF Offered
<1>2. Offers[v].key # Nil /\ (Offers[v].key = Offers[u].key => v = u)
  BY <1>1 DEF NamesApart
<1>3. /\ IsSeq(Offers[v].plain) /\ IsSeq(StreamOffered(v).name)
      /\ StreamOffered(v).name \in Names /\ StreamOffered(v).key = Offers[v].key
      /\ Offers[v].bytes = Ciphertext(StreamOffered(v), Offers[v].plain)
  BY <1>2, OfferIs
<1>4. x \in Range(Ciphertext(StreamOffered(v), Offers[v].plain))
  BY <1>1, <1>3
<1>5. /\ x.seal.key = StreamOffered(v).key
      /\ x.i = 0 => x.seal.data = StreamOffered(v).name
      /\ x.i # 0 /\ x.seal.counter # 0 =>
            \E c \in 0..NumChunks(Offers[v].plain) - 1 :
               /\ x.seal.counter = c + 1
               /\ x.seal.final = (c = NumChunks(Offers[v].plain) - 1)
               /\ x.seal.data = Piece(Offers[v].plain, c)
  BY <1>3, <1>4, CellOf
<1>. QED BY <1>2, <1>3, <1>5

LEMMA CeilDivIs ==
    ASSUME NEW r \in Nat, NEW d \in Nat \ {0}
    PROVE  /\ CeilDiv(r, d) \in Nat /\ r <= d * CeilDiv(r, d) /\ d * CeilDiv(r, d) < r + d
           /\ r = 0 => CeilDiv(r, d) = 0
<1>. DEFINE m == r + d - 1
            q == m \div d
<1>1. m \in Nat
  OBVIOUS
<1>. HIDE DEF m
<1>2. q \in Nat /\ d * q <= m /\ m < d * q + d
  BY <1>1, Quotient
<1>. DEFINE dq == d * q
<1>. HIDE DEF q
<1>3. dq \in Nat
  BY <1>2
<1>4. r = 0 => q = 0
  <2>. SUFFICES ASSUME r = 0, q # 0 PROVE FALSE
    OBVIOUS
  <2>1. d * 0 + d <= d * q
    BY <1>2, Multiples
  <2>. QED BY <1>2, <2>1 DEF m
<1>5. r <= dq /\ dq < r + d
  <2>. HIDE DEF dq
  <2>1. dq <= m /\ m < dq + d
    BY <1>2 DEF dq
  <2>. QED BY <1>3, <2>1 DEF m
<1>. QED BY <1>2, <1>4, <1>5 DEF CeilDiv, m, q

\* A chunk that opens begins with its first cell, which names all of it.
LEMMA OpenChunk ==
    ASSUME NEW cells, IsSeq(cells), NEW key, NEW prefix, NEW i, NEW final,
           Opens(cells, key, prefix, i, final)
    PROVE  /\ cells[1].i = 1 /\ cells[1].seal.key = key /\ cells[1].seal.counter = i
           /\ cells[1].seal.final = final
           /\ IsSeq(cells[1].seal.data) => Len(cells) = Len(cells[1].seal.data) + 1
<1>. DEFINE data == cells[1].seal.data
            n == Len(data)
            cell == [i |-> 1, seal |-> [key |-> key, prefix |-> prefix, counter |-> i,
                                        final |-> final, data |-> data]]
<1>1. cells = [k \in 1..n + 1 |->
                 [i |-> k, seal |-> [key |-> key, prefix |-> prefix, counter |-> i,
                                     final |-> final, data |-> data]]]
  BY DEF Opens, Seal
<1>2. 1 \in DOMAIN cells /\ Len(cells) \in Nat /\ DOMAIN cells = 1..Len(cells)
  BY DEF Opens, IsSeq
<1>3. IsSeq(data) => n \in Nat
  BY DEF IsSeq
<1>. HIDE DEF n, data
<1>4. 1 \in 1..n + 1
  BY <1>1, <1>2
<1>5. cells[1] = cell
  BY <1>1, <1>4
<1>6. cells[1].i = 1 /\ cells[1].seal.key = key /\ cells[1].seal.counter = i
      /\ cells[1].seal.final = final
  BY <1>5
<1>7. ASSUME IsSeq(data) PROVE Len(cells) = n + 1
  <2>. DEFINE size == Len(cells)
  <2>1. size \in Nat /\ n \in Nat
    BY <1>2, <1>3, <1>7
  <2>2. DOMAIN cells = 1..size /\ DOMAIN cells = 1..n + 1 /\ 1 \in DOMAIN cells
    BY <1>1, <1>2
  <2>. HIDE DEF size
  <2>3. size \in 1..size
    BY <2>1, <2>2
  <2>4. n + 1 \in 1..n + 1
    BY <2>1
  <2>5. size \in 1..n + 1 /\ n + 1 \in 1..size
    BY <2>2, <2>3, <2>4, Zenon
  <2>6. size <= n + 1 /\ n + 1 <= size
    BY <2>5
  <2>. QED BY <2>1, <2>6 DEF size
<1>. QED BY <1>6, <1>7 DEF n, data

\* What opens under the key of an upload is that upload, whatever else is in the file.
LEMMA OpenedIsOwn ==
    ASSUME NamesApart, NEW u \in DOMAIN Offers, Offers[u].key # Nil,
           NEW p, IsSeq(p), \A j \in 1..Len(p) : Offered(p[j], Offers[u].name)
    PROVE  /\ HeaderOpens(p, Offers[u].key) => SealedName(p) \in Names
           /\ Decrypt(p, Offers[u].key).ok =>
                 Decrypt(p, Offers[u].key).plain = Offers[u].plain
<1>. USE StreamChunk
<1>. DEFINE key == Offers[u].key
            own == Offers[u].plain
            m == NumChunks(own)
            head == Len(SealedName(p)) + 2
            rest == Slice(p, head, Len(p))
            n == CeilDiv(Len(rest), CipherChunk)
            Chunk(i) == Slice(rest, (i - 1) * CipherChunk, i * CipherChunk)
            data == [c \in 0..n - 1 |-> Chunk(c + 1)[1].seal.data]
<1>1. Len(p) \in Nat /\ IsSeq(own) /\ Len(own) \in Nat /\ CipherChunk \in Nat \ {0}
      /\ m \in Nat \ {0}
  <2>1. IsSeq(own)
    BY OfferIs
  <2>2. m \in Nat \ {0}
    BY <2>1, NumChunksIs DEF IsSeq
  <2>. HIDE DEF m, own
  <2>. QED BY <2>1, <2>2 DEF IsSeq, CipherChunk
<1>2. ASSUME HeaderOpens(p, key) PROVE SealedName(p) \in Names /\ IsSeq(SealedName(p))
  <2>1. p # <<>> /\ p[1].i = 0
    BY <1>2 DEF HeaderOpens
  <2>2. 1 \in 1..Len(p)
    BY <1>1, <2>1 DEF IsSeq
  <2>3. Offered(p[1], Offers[u].name)
    BY <2>2
  <2>. QED BY <2>1, <2>3, OwnCell DEF SealedName
<1>3. ASSUME Decrypt(p, key).ok PROVE Decrypt(p, key).plain = own
  <2>1. /\ HeaderOpens(p, key) /\ n > 0
        /\ \A i \in 1..n : Opens(Chunk(i), key, p[1].seal.prefix, i, i = n)
        /\ Decrypt(p, key).plain = EndToEnd(data, ChunkSize, Len(rest) - n)
    <3>. DEFINE good == /\ HeaderOpens(p, key) /\ n > 0
                        /\ \A i \in 1..n : Opens(Chunk(i), key, p[1].seal.prefix, i, i = n)
                text == EndToEnd(data, ChunkSize, Len(rest) - n)
    <3>1. Decrypt(p, key) = IF good THEN [ok |-> TRUE, name |-> SealedName(p), plain |-> text]
                            ELSE [ok |-> FALSE, name |-> <<>>, plain |-> <<>>]
      BY DEF Decrypt
    <3>. HIDE DEF good, text
    <3>2. good /\ Decrypt(p, key).plain = text
      BY <1>3, <3>1
    <3>. QED BY <3>2 DEF good, text
  <2>2. head \in Nat
    BY <1>2, <2>1 DEF IsSeq
  <2>3. /\ IsSeq(rest) /\ Len(rest) \in Nat
        /\ \A j \in 1..Len(rest) : Offered(rest[j], Offers[u].name)
    <3>. HIDE DEF head
    <3>1. rest = From(p, head)
      BY <1>1 DEF Slice, From
    <3>2. /\ rest \in Seq(Range(p)) /\ Len(rest) = IF head < Len(p) THEN Len(p) - head ELSE 0
          /\ \A i \in 1..Len(p) - head : rest[i] = p[head + i]
      BY <2>2, <3>1, FromIs DEF IsSeq
    <3>. HIDE DEF rest
    <3>3. ASSUME NEW j \in 1..Len(rest) PROVE Offered(rest[j], Offers[u].name)
      <4>1. j \in 1..Len(p) - head /\ head + j \in 1..Len(p)
        BY <1>1, <2>2, <3>2
      <4>. QED BY <3>2, <4>1
    <3>. QED BY <1>1, <2>2, <3>2, <3>3, SeqIsTable DEF IsSeq
  <2>. HIDE DEF head, rest, m
  <2>4. n \in Nat /\ n > 0 /\ Len(rest) <= CipherChunk * n
        /\ CipherChunk * n < Len(rest) + CipherChunk
    BY <1>1, <2>1, <2>3, CeilDivIs
  <2>. HIDE DEF n
  <2>5. ASSUME NEW i \in 1..n
        PROVE  LET first == CipherChunk * (i - 1)
                   end == IF first + CipherChunk < Len(rest) THEN first + CipherChunk
                          ELSE Len(rest)
               IN  PartOf(Chunk(i), rest, first, end) /\ first \in Nat /\ first < Len(rest)
    <3>. DEFINE first == CipherChunk * (i - 1)
                next == first + CipherChunk
    <3>1. /\ first \in Nat /\ (i - 1) * CipherChunk = first /\ i * CipherChunk = next
          /\ CipherChunk * n \in Nat /\ CipherChunk * i = next
      BY <1>1, <2>4
    <3>2. next <= CipherChunk * n
      <4>1. CASE i = n
        BY <1>1, <2>4, <3>1, <4>1
      <4>2. CASE i < n
        <5>1. CipherChunk * i + CipherChunk <= CipherChunk * n
          BY <1>1, <2>4, <4>2, Multiples
        <5>. HIDE DEF first
        <5>. QED BY <1>1, <3>1, <5>1
      <4>. QED BY <2>4, <4>1, <4>2
    <3>. HIDE DEF first
    <3>3. first < Len(rest) /\ next \in Nat /\ first <= next
      BY <1>1, <2>3, <2>4, <3>1, <3>2
    <3>4. Chunk(i) = Slice(rest, first, next)
      BY <3>1
    <3>. HIDE DEF next, Chunk
    <3>5. CASE next < Len(rest)
      BY <2>3, <3>1, <3>3, <3>4, <3>5, SliceIs DEF next, first
    <3>6. CASE ~(next < Len(rest))
      BY <2>3, <3>1, <3>3, <3>4, <3>6, SliceStops DEF next, first
    <3>. QED BY <3>5, <3>6
  <2>. HIDE DEF Chunk
  <2>6. ASSUME NEW i \in 1..n
        PROVE  /\ i - 1 \in 0..m - 1 /\ (i = n) = (i - 1 = m - 1)
               /\ Chunk(i)[1].seal.data = Piece(own, i - 1)
               /\ Len(Chunk(i)) = Len(Piece(own, i - 1)) + 1
    <3>. DEFINE x == Chunk(i)[1]
                first == CipherChunk * (i - 1)
                end == IF first + CipherChunk < Len(rest) THEN first + CipherChunk
                       ELSE Len(rest)
    <3>1. PartOf(Chunk(i), rest, first, end) /\ first \in Nat /\ first < Len(rest)
      BY <2>5
    <3>2. Opens(Chunk(i), key, p[1].seal.prefix, i, i = n)
      BY <2>1
    <3>3. Offered(x, Offers[u].name)
      <4>. HIDE DEF first
      <4>1. first + 1 \in 1..Len(rest) /\ 1 \in 1..end - first
        BY <1>1, <2>3, <3>1
      <4>. HIDE DEF end
      <4>2. x = rest[first + 1]
        BY <3>1, <4>1 DEF PartOf
      <4>. QED BY <2>3, <4>1, <4>2
    <3>4. IsSeq(Chunk(i))
      BY <3>1 DEF PartOf
    <3>5. x.i = 1 /\ x.seal.key = key /\ x.seal.counter = i /\ x.seal.final = (i = n)
      BY <3>2, <3>4, OpenChunk
    <3>6. PICK c \in 0..m - 1 : /\ x.seal.counter = c + 1 /\ x.seal.final = (c = m - 1)
                                /\ x.seal.data = Piece(own, c)
      <4>1. x.i # 0 /\ x.seal.counter # 0
        BY <3>5
      <4>. HIDE DEF x
      <4>. QED BY <3>3, <3>5, <4>1, OwnCell DEF m
    <3>. HIDE DEF x
    <3>7. c = i - 1 /\ (i = n) = (c = m - 1)
      BY <1>1, <3>5, <3>6
    <3>8. IsSeq(x.seal.data)
      <4>1. Piece(own, c) \in Seq(Range(own))
        BY <1>1, PieceIs DEF IsSeq, m
      <4>2. IsSeq(Piece(own, c))
        BY <4>1, SeqIsTable DEF IsSeq
      <4>. QED BY <3>6, <4>2
    <3>9. Len(Chunk(i)) = Len(x.seal.data) + 1
      BY <3>2, <3>4, <3>8, OpenChunk DEF x
    <3>. QED BY <3>6, <3>7, <3>9 DEF x
  <2>7. n = m
    <3>1. n \in 1..n
      BY <2>4
    <3>2. (n = n) = (n - 1 = m - 1)
      BY <2>6, <3>1
    <3>. QED BY <1>1, <2>4, <3>2
  <2>8. Len(rest) - n = Len(own)
    <3>. DEFINE first == CipherChunk * (n - 1)
                low == ChunkSize * (n - 1)
                end == IF first + CipherChunk < Len(rest) THEN first + CipherChunk
                       ELSE Len(rest)
    <3>1. n \in 1..n
      BY <2>4
    <3>2. /\ PartOf(Chunk(n), rest, first, end) /\ first \in Nat
          /\ Len(Chunk(n)) = Len(Piece(own, n - 1)) + 1
      BY <2>5, <2>6, <3>1
    <3>3. first = CipherChunk * n - CipherChunk /\ CipherChunk * n \in Nat
          /\ first = low + (n - 1) /\ low \in Nat
      BY <1>1, <2>4 DEF CipherChunk
    <3>4. n - 1 \in 0..m - 1 /\ n - 1 = m - 1
      BY <2>4, <2>7
    <3>5. Len(Piece(own, n - 1)) = Len(own) - low
      BY <1>1, <3>4, PieceIs DEF IsSeq, m
    <3>. HIDE DEF first, low
    <3>6. end = Len(rest)
      <4>. DEFINE full == CipherChunk * n
      <4>1. first + CipherChunk = full /\ Len(rest) <= full /\ full \in Nat
        BY <1>1, <2>4, <3>3
      <4>. HIDE DEF full
      <4>. QED BY <2>3, <4>1
    <3>. HIDE DEF end
    <3>7. Len(Chunk(n)) = Len(rest) - first
      BY <3>2, <3>6 DEF PartOf
    <3>. QED BY <1>1, <2>3, <2>4, <3>2, <3>3, <3>5, <3>7
  <2>9. \A c \in 0..m - 1 : data[c] = Piece(own, c)
    <3>. SUFFICES ASSUME NEW c \in 0..m - 1 PROVE data[c] = Piece(own, c)
      OBVIOUS
    <3>1. c \in 0..n - 1 /\ c + 1 \in 1..n /\ (c + 1) - 1 = c
      BY <1>1, <2>7
    <3>2. Chunk(c + 1)[1].seal.data = Piece(own, c)
      BY <2>6, <3>1
    <3>. QED BY <3>1, <3>2
  <2>. HIDE DEF data
  <2>10. EndToEnd(data, ChunkSize, Len(own)) = own
    BY <1>1, <2>9, PiecesJoin DEF m
  <2>. QED BY <2>1, <2>8, <2>10
<1>. QED BY <1>2, <1>3

LEMMA FromPart ==
    ASSUME NEW s, IsSeq(s), NEW n \in Nat
    PROVE  /\ From(s, n) \in Seq(Range(s)) /\ Len(s) \in Nat
           /\ Len(From(s, n)) = IF n < Len(s) THEN Len(s) - n ELSE 0
           /\ \A i \in 1..Len(s) - n : From(s, n)[i] = s[n + i]
<1>. DEFINE S == Range(s)
<1>1. s \in Seq(S) /\ Len(s) \in Nat
  BY DEF IsSeq
<1>. HIDE DEF S
<1>2. /\ From(s, n) \in Seq(S)
      /\ Len(From(s, n)) = IF n < Len(s) THEN Len(s) - n ELSE 0
      /\ \A i \in 1..Len(s) - n : From(s, n)[i] = s[n + i]
  BY <1>1, FromIs
<1>. QED BY <1>1, <1>2 DEF S

\* What the backends read when everything from an offset on is asked for.
Asking(offset) == IF offset = 0 THEN NoRange ELSE [start |-> offset, finish |-> OpenEnd]

LEMMA AskedIsRead ==
    ASSUME NEW bytes, IsSeq(bytes), Len(bytes) < Word \div 2, NEW b, NEW offset \in Nat
    PROVE  LET got == Get(b, bytes, Asking(offset)) IN
           /\ got.bytes = bytes \/ got.bytes = From(bytes, offset)
           /\ b = "plain" => ~got.accepted
           /\ offset = 0 => got.bytes = bytes
           /\ b # "plain" /\ offset <= Len(bytes) => got.bytes = From(bytes, offset)
<1>. DEFINE header == Asking(offset)
            rng == ParseRange(header)
            asked == [start |-> offset, limit |-> 0]
            rest == From(bytes, offset)
            got == Get(b, bytes, header)
<1>0. \A r : LimitReader(r, 0) = r
  BY DEF LimitReader
<1>1. /\ Len(bytes) \in Nat /\ Word \in Int /\ Len(bytes) < Word /\ rest \in Seq(Range(bytes))
      /\ Len(rest) = IF offset < Len(bytes) THEN Len(bytes) - offset ELSE 0
      /\ offset = 0 => rest = bytes
  <2>1. Len(bytes) \in Nat /\ Word \in Int
    BY RangeWidth DEF IsSeq, Word
  <2>0. Len(bytes) < Word
    BY <2>1, HalfAWord
  <2>. HIDE DEF rest
  <2>2. /\ rest \in Seq(Range(bytes)) /\ (offset = 0 => rest = bytes)
        /\ Len(rest) = IF offset < Len(bytes) THEN Len(bytes) - offset ELSE 0
    BY FromIs DEF IsSeq, rest
  <2>. QED BY <2>0, <2>1, <2>2
<1>2. CASE rng = NoRange \/ b = "plain"
  <2>1. got = Whole(bytes)
    BY <1>2 DEF Get
  <2>2. got.bytes = bytes /\ ~got.accepted
    BY <2>1 DEF Whole
  <2>3. ASSUME b # "plain", offset <= Len(bytes) PROVE offset = 0
    <3>. SUFFICES ASSUME offset # 0 PROVE FALSE
      OBVIOUS
    <3>1. offset \in 0..Word - 1 /\ 0 \in 0..Word - 1
      BY <1>1, <2>3
    <3>2. header = [start |-> offset, finish |-> OpenEnd]
      BY DEF Asking
    <3>3. header # NoRange /\ asked # NoRange
      <4>1. /\ header \in [start : 0..Word - 1, finish : {OpenEnd}]
            /\ asked \in [start : 0..Word - 1, limit : 0..Word - 1]
        BY <3>1, <3>2
      <4>. HIDE DEF header, asked
      <4>. QED BY <4>1, HeaderAssumption
    <3>4. header.start = offset /\ header.finish = OpenEnd
      BY <3>2
    <3>. HIDE DEF header
    <3>5. rng = asked
      BY <3>3, <3>4 DEF ParseRange
    <3>. QED BY <1>2, <2>3, <3>3, <3>5
  <2>. HIDE DEF rest, header, got
  <2>. QED BY <1>1, <2>2, <2>3 DEF rest, header, got
<1>3. CASE rng # NoRange /\ b # "plain"
  <2>1. header = [start |-> offset, finish |-> OpenEnd]
    BY <1>3 DEF ParseRange, Asking
  <2>2. rng = asked
    <3>1. header.start = offset /\ header.finish = OpenEnd
      BY <2>1
    <3>. HIDE DEF header
    <3>. QED BY <1>3, <3>1 DEF ParseRange
  <2>3. rng.start = offset /\ rng.limit = 0
    BY <2>2
  <2>4. CASE b = "local"
    <3>. DEFINE a == AcceptLength(rng, Len(bytes))
    <3>1. got = LocalGet(bytes, rng)
      BY <1>3, <2>4 DEF Get
    <3>. HIDE DEF rng
    <3>2. /\ a.limit = (Len(bytes) - offset) % Word
          /\ a.accepted => offset <= Len(bytes)
      BY <2>3 DEF AcceptLength
    <3>3. got.bytes = IF a.accepted THEN LimitReader(rest, a.limit) ELSE rest
      BY <2>3, <3>1 DEF LocalGet
    <3>. HIDE DEF a, rest
    <3>4. ASSUME a.accepted PROVE LimitReader(rest, a.limit) = rest
      <4>1. Len(bytes) - offset \in Nat /\ Len(bytes) - offset < Word
        BY <1>1, <3>2, <3>4
      <4>2. a.limit = Len(bytes) - offset
        BY <1>1, <3>2, <4>1, SmallRemainder
      <4>3. a.limit \in Nat /\ a.limit >= Len(rest)
        BY <1>1, <4>1, <4>2
      <4>4. ~(a.limit >= Word \div 2)
        BY <1>1, <3>2, <4>1, <4>2
      <4>5. FirstOf(rest, a.limit) = rest
        BY <1>1, <4>3, FirstOfIs
      <4>. QED BY <4>4, <4>5 DEF LimitReader
    <3>5. got.bytes = rest
      BY <3>3, <3>4
    <3>. HIDE DEF got
    <3>. QED BY <1>1, <1>3, <3>5 DEF rest, got, header
  <2>5. CASE b # "local"
    <3>1. got = S3Get(bytes, rng)
      BY <1>3, <2>5 DEF Get
    <3>. HIDE DEF rng
    <3>2. got.bytes = rest
      BY <1>0, <2>3, <3>1 DEF S3Get
    <3>. HIDE DEF got, rest
    <3>. QED BY <1>1, <1>3, <3>2 DEF rest, got, header
  <2>. QED BY <2>4, <2>5
<1>. QED BY <1>2, <1>3

\* An answer to get: of a plain link the rest that was asked for.
Answers(reply, b, u, offset) ==
    LET upload == Offers[u] IN
    /\ IsSeq(reply.body)
    /\ upload.key # Nil => \A j \in 1..Len(reply.body) : reply.body[j] \in Range(upload.bytes)
    /\ upload.key = Nil /\ b = "plain" => reply.status # 206
    /\ upload.key = Nil /\ offset <= Len(upload.plain) /\ (b # "plain" \/ offset = 0) =>
          reply.body = From(upload.plain, offset)

LEMMA AnswersGet ==
    ASSUME NEW u \in DOMAIN Offers, NEW b, NEW offset \in Nat, NEW reply,
           reply = Reply(b, Offers[u], Asking(offset), Offers[u].encrypted, NoTags),
           reply.status \in {200, 206}
    PROVE  Answers(reply, b, u, offset)
<1>. DEFINE upload == Offers[u]
            bytes == upload.bytes
            content == upload.plain
            got == Get(b, bytes, Asking(offset))
            status == IF got.accepted THEN 206 ELSE 200
<1>1. /\ IsSeq(content) /\ IsSeq(bytes) /\ Len(bytes) < Word \div 2
      /\ upload.key = Nil => upload.encrypted \/ bytes = content
      /\ upload.key # Nil => ~upload.encrypted
  BY OfferIs
<1>2. /\ got.bytes = bytes \/ got.bytes = From(bytes, offset)
      /\ b = "plain" => ~got.accepted
      /\ offset = 0 => got.bytes = bytes
      /\ b # "plain" /\ offset <= Len(bytes) => got.bytes = From(bytes, offset)
  <2>. HIDE DEF bytes
  <2>. QED BY <1>1, AskedIsRead
<1>3. /\ From(bytes, offset) \in Seq(Range(bytes)) /\ Len(bytes) \in Nat
      /\ Len(From(bytes, offset)) = IF offset < Len(bytes) THEN Len(bytes) - offset ELSE 0
      /\ \A i \in 1..Len(bytes) - offset : From(bytes, offset)[i] = bytes[offset + i]
  <2>. HIDE DEF bytes
  <2>1. IsSeq(bytes)
    BY <1>1
  <2>2. From(bytes, offset) \in Seq(Range(bytes)) /\ Len(bytes) \in Nat
    BY <2>1, FromPart
  <2>3. Len(From(bytes, offset)) = IF offset < Len(bytes) THEN Len(bytes) - offset ELSE 0
    BY <2>1, FromPart
  <2>4. \A i \in 1..Len(bytes) - offset : From(bytes, offset)[i] = bytes[offset + i]
    BY <2>1, FromPart
  <2>. QED BY <2>2, <2>3, <2>4
<1>4. got.bytes \in Seq(Range(bytes)) /\ IsSeq(got.bytes)
  <2>. HIDE DEF bytes, got
  <2>1. got.bytes \in Seq(Range(bytes))
    BY <1>1, <1>2, <1>3 DEF IsSeq
  <2>. QED BY <2>1, SeqIsTable DEF IsSeq
<1>5. From(content, 0) = content
  <2>. HIDE DEF content
  <2>. QED BY <1>1, FromIs DEF IsSeq
<1>6. ~EtagMatches(NoTags, ETag(upload.token, upload.encrypted))
  BY DEF EtagMatches, NoTags
<1>7. ~got.fails /\ (upload.encrypted => Decryptable(upload, got.bytes))
  <2>. SUFFICES ASSUME got.fails \/ (upload.encrypted /\ ~Decryptable(upload, got.bytes))
                PROVE  reply = [status |-> 500, length |-> 0, body |-> <<>>]
    OBVIOUS
  <2>. QED BY <1>6 DEF Reply
<1>8. CASE ~upload.encrypted
  <2>1. reply = [status |-> status, length |-> got.length, body |-> got.bytes]
    BY <1>6, <1>7, <1>8 DEF Reply
  <2>2. upload.key = Nil => bytes = content
    BY <1>1, <1>8
  <2>. HIDE DEF got, upload
  <2>3. reply.status = status /\ reply.body = got.bytes
    BY <2>1
  <2>4. ASSUME upload.key # Nil, NEW j \in 1..Len(reply.body)
        PROVE  reply.body[j] \in Range(bytes)
    BY <1>4, <2>3, <2>4
  <2>5. ASSUME upload.key = Nil, offset <= Len(content), b # "plain" \/ offset = 0
        PROVE  reply.body = From(content, offset)
    BY <1>2, <1>5, <2>2, <2>3, <2>5
  <2>. QED BY <1>2, <1>4, <2>3, <2>4, <2>5 DEF upload, Answers
<1>9. CASE upload.encrypted
  <2>1. reply = [status |-> status, length |-> Len(content),
                 body |-> DecryptedBytes(upload, got.bytes)]
    BY <1>6, <1>7, <1>9 DEF Reply
  <2>2. /\ got.bytes # <<>> /\ got.bytes[1] = bytes[1] /\ upload.key = Nil
        /\ Len(content) < Len(bytes)
    BY <1>1, <1>7, <1>9, OfferAssumption DEF Decryptable
  <2>. HIDE DEF got
  <2>3. reply.status = status /\ reply.body = DecryptedBytes(upload, got.bytes)
    BY <2>1
  <2>4. got.bytes = bytes \/ (Len(got.bytes) - 1 \in Nat /\ got.bytes # bytes)
    <3>. HIDE DEF upload
    <3>. QED BY <1>4, <2>2 DEF IsSeq
  <2>5. IsSeq(reply.body)
    <3>1. CASE got.bytes = bytes
      BY <1>1, <2>3, <3>1 DEF DecryptedBytes
    <3>2. CASE Len(got.bytes) - 1 \in Nat /\ got.bytes # bytes
      <4>1. reply.body = FirstOf(content, Len(got.bytes) - 1)
        BY <2>3, <3>2 DEF DecryptedBytes
      <4>. HIDE DEF content
      <4>2. FirstOf(content, Len(got.bytes) - 1) \in Seq(Range(content))
        BY <1>1, <3>2, FirstOfIs DEF IsSeq
      <4>. QED BY <4>1, <4>2, SeqIsTable DEF IsSeq
    <3>. QED BY <2>4, <3>1, <3>2
  <2>6. ASSUME offset <= Len(content), b # "plain" \/ offset = 0
        PROVE  reply.body = From(content, offset)
    <3>1. offset = 0
      <4>. SUFFICES ASSUME offset # 0 PROVE FALSE
        OBVIOUS
      <4>1. offset < Len(bytes) /\ got.bytes = From(bytes, offset)
        BY <1>1, <1>2, <2>2, <2>6 DEF IsSeq
      <4>2. 1 \in 1..Len(bytes) - offset
        BY <1>3, <4>1
      <4>3. bytes[offset + 1] = bytes[1]
        BY <1>3, <2>2, <4>1, <4>2
      <4>. QED BY <1>9, <4>1, <4>3, DecryptsFromTheStart
    <3>2. reply.body = content
      BY <1>2, <2>3, <3>1 DEF DecryptedBytes
    <3>. QED BY <1>5, <3>1, <3>2
  <2>. HIDE DEF upload
  <2>. QED BY <1>2, <2>2, <2>3, <2>5, <2>6 DEF upload, Answers
<1>. QED BY <1>8, <1>9

\* What a partial file of that name holds: of a plain link, a beginning of it, unless the
\* server knows no ranges; of a sealed one, cells of links that have the name.
PartFits(b, n, p) ==
    /\ IsSeq(p)
    /\ \A u \in DOMAIN Offers : Offers[u].name = n =>
          /\ Offers[u].key # Nil => \A j \in 1..Len(p) : Offered(p[j], n)
          /\ Offers[u].key = Nil /\ b # "plain" => Begins(p, Offers[u].plain)

\* What is still to arrive goes on where the file ends, or the server has started over.
Arriving(b, g, p) ==
    LET upload == Offers[g.of] IN
    /\ g = [stage |-> "receiving", of |-> g.of, offset |-> g.offset, resumed |-> g.resumed,
            whole |-> g.whole, rest |-> g.rest]
    /\ g.offset \in Nat /\ IsSeq(g.rest)
    /\ upload.key # Nil => \A j \in 1..Len(g.rest) : Offered(g.rest[j], upload.name)
    /\ upload.key = Nil =>
          /\ b = "plain" => ~g.resumed
          /\ b # "plain" \/ g.offset = 0 => JoinOf(upload.plain, p, g.rest)

GetFits(b, g, p) ==
    /\ g.of \in DOMAIN Offers /\ PartFits(b, Offers[g.of].name, p)
    /\ g.stage = "asking" =>
          /\ g = [stage |-> "asking", of |-> g.of, offset |-> g.offset]
          /\ g.offset = Len(p)
    /\ g.stage = "receiving" => Arriving(b, g, p)
    /\ g.stage = "decrypting" =>
          /\ g = [stage |-> "decrypting", of |-> g.of, to |-> g.to]
          /\ Offers[g.of].key # Nil /\ g.to \in Names

PartOfGet == part[Offers[get.of].name]
GetInv ==
    /\ DOMAIN part = Names /\ DOMAIN dest = Names
    /\ \A n \in Names : part[n] = Absent \/ PartFits(backend, n, part[n])
    /\ get.stage \in {"idle", "asking", "receiving", "decrypting", "saved", "failed"}
    /\ get.stage \in {"asking", "receiving", "decrypting"} => GetFits(backend, get, PartOfGet)

LEMMA JoinBegins == ASSUME NEW u, NEW s, NEW t, IsSeq(s), JoinOf(u, s, t) PROVE Begins(s, u)
BY DEF JoinOf, Begins

LEMMA JoinWhole ==
    ASSUME NEW u, NEW s, IsSeq(s), NEW t, t = <<>>, JoinOf(u, s, t)
    PROVE  s = u
<1>1. IsSeq(u) /\ Len(u) = Len(s) /\ \A j \in 1..Len(s) : u[j] = s[j]
  BY DEF JoinOf
<1>. QED BY <1>1, SameCells DEF IsSeq

LEMMA OneArrives ==
    ASSUME NEW p, IsSeq(p), NEW rest, IsSeq(rest), rest # <<>>
    PROVE  /\ IsSeq(Append(p, Head(rest))) /\ IsSeq(Tail(rest))
           /\ \A j \in 1..Len(Append(p, Head(rest))) :
                 Append(p, Head(rest))[j] = IF j <= Len(p) THEN p[j] ELSE rest[1]
           /\ \A j \in 1..Len(Tail(rest)) : j + 1 \in 1..Len(rest) /\ Tail(rest)[j] = rest[j + 1]
           /\ \A u : JoinOf(u, p, rest) => JoinOf(u, Append(p, Head(rest)), Tail(rest))
<1>. DEFINE S == Range(p) \cup Range(rest)
            q == Append(p, Head(rest))
            t == Tail(rest)
<1>1. /\ Len(p) \in Nat /\ Len(rest) \in Nat /\ Len(rest) # 0
      /\ p \in Seq(S) /\ rest \in Seq(S)
  BY DEF IsSeq
<1>. HIDE DEF S
<1>2. q \in Seq(S) /\ Len(q) = Len(p) + 1
      /\ \A j \in 1..Len(q) : q[j] = IF j <= Len(p) THEN p[j] ELSE rest[1]
  BY <1>1
<1>3. t \in Seq(S) /\ Len(t) = Len(rest) - 1
      /\ \A j \in 1..Len(t) : j + 1 \in 1..Len(rest) /\ t[j] = rest[j + 1]
  BY <1>1
<1>. HIDE DEF q, t
<1>4. IsSeq(q) /\ IsSeq(t)
  BY <1>2, <1>3, SeqIsTable DEF IsSeq
<1>5. ASSUME NEW u, JoinOf(u, p, rest) PROVE JoinOf(u, q, t)
  <2>1. /\ IsSeq(u) /\ Len(u) = Len(p) + Len(rest)
        /\ \A j \in 1..Len(p) : u[j] = p[j]
        /\ \A j \in 1..Len(rest) : u[Len(p) + j] = rest[j]
    BY <1>5 DEF JoinOf
  <2>2. Len(q) \in Nat /\ Len(t) \in Nat /\ Len(u) = Len(q) + Len(t)
    BY <1>1, <1>2, <1>3, <2>1
  <2>3. ASSUME NEW j \in 1..Len(q) PROVE u[j] = q[j]
    <3>1. CASE j <= Len(p)
      BY <1>1, <1>2, <2>1, <3>1
    <3>2. CASE ~(j <= Len(p))
      <4>1. j = Len(p) + 1 /\ 1 \in 1..Len(rest)
        BY <1>1, <1>2, <3>2
      <4>2. u[Len(p) + 1] = rest[1]
        BY <2>1, <4>1
      <4>. QED BY <1>2, <3>2, <4>1, <4>2
    <3>. QED BY <3>1, <3>2
  <2>4. ASSUME NEW j \in 1..Len(t) PROVE u[Len(q) + j] = t[j]
    <3>1. j + 1 \in 1..Len(rest) /\ t[j] = rest[j + 1]
      BY <1>3
    <3>2. Len(q) + j = Len(p) + (j + 1)
      BY <1>1, <1>2
    <3>. QED BY <2>1, <3>1, <3>2
  <2>. QED BY <2>1, <2>2, <2>3, <2>4 DEF JoinOf
<1>. QED BY <1>2, <1>3, <1>4, <1>5 DEF q, t

\* What get reads now, for a file that is this far.
LEMMA AnswersArrive ==
    ASSUME NEW u \in DOMAIN Offers, NEW b, NEW p, PartFits(b, Offers[u].name, p),
           NEW offset, offset = Len(p), NEW reply,
           reply = Reply(b, Offers[u], Asking(offset), Offers[u].encrypted, NoTags),
           reply.status \in {200, 206}
    PROVE  Arriving(b, [stage |-> "receiving", of |-> u, offset |-> offset,
                        resumed |-> reply.status = 206, whole |-> Complete(reply),
                        rest |-> reply.body], p)
<1>1. /\ IsSeq(p) /\ offset = Len(p) /\ offset \in Nat
      /\ Offers[u].key = Nil /\ b # "plain" => Begins(p, Offers[u].plain)
  BY DEF PartFits, IsSeq
<1>2. Answers(reply, b, u, offset)
  BY <1>1, AnswersGet
<1>3. /\ IsSeq(reply.body)
      /\ Offers[u].key # Nil =>
            \A j \in 1..Len(reply.body) : reply.body[j] \in Range(Offers[u].bytes)
      /\ Offers[u].key = Nil /\ b = "plain" => reply.status # 206
      /\ Offers[u].key = Nil /\ offset <= Len(Offers[u].plain) /\ (b # "plain" \/ offset = 0) =>
            reply.body = From(Offers[u].plain, offset)
  BY <1>2 DEF Answers
<1>4. ASSUME Offers[u].key = Nil, b # "plain" \/ offset = 0
      PROVE  JoinOf(Offers[u].plain, p, reply.body)
  <2>. DEFINE content == Offers[u].plain
              rest == reply.body
  <2>1. IsSeq(content)
    BY OfferIs
  <2>. HIDE DEF content
  <2>2. Begins(p, content) /\ Len(content) \in Nat
    <3>1. Len(content) \in Nat
      BY <2>1 DEF IsSeq
    <3>2. CASE b # "plain"
      BY <1>1, <1>4, <3>1, <3>2 DEF content
    <3>3. CASE offset = 0
      BY <1>1, <3>1, <3>3 DEF Begins
    <3>. QED BY <1>4, <3>1, <3>2, <3>3
  <2>3. rest = From(content, offset)
    BY <1>1, <1>3, <1>4, <2>2 DEF Begins, content
  <2>4. /\ Len(From(content, offset)) =
              IF offset < Len(content) THEN Len(content) - offset ELSE 0
        /\ \A i \in 1..Len(content) - offset : From(content, offset)[i] = content[offset + i]
    BY <2>1, FromPart
  <2>. HIDE DEF rest
  <2>5. Len(rest) \in Nat /\ Len(content) = Len(p) + Len(rest)
        /\ \A i \in 1..Len(rest) : content[Len(p) + i] = rest[i]
    BY <1>1, <2>2, <2>3, <2>4 DEF Begins
  <2>6. \A j \in 1..Len(p) : content[j] = p[j]
    BY <2>2 DEF Begins
  <2>. QED BY <1>1, <2>1, <2>5, <2>6 DEF JoinOf, content, rest
<1>5. ASSUME Offers[u].key # Nil, NEW j \in 1..Len(reply.body)
      PROVE  Offered(reply.body[j], Offers[u].name)
  BY <1>3, <1>5 DEF Offered
<1>. DEFINE next == [stage |-> "receiving", of |-> u, offset |-> offset,
                     resumed |-> reply.status = 206, whole |-> Complete(reply),
                     rest |-> reply.body]
<1>6. /\ next.of = u /\ next.offset = offset /\ next.rest = reply.body
      /\ next.resumed = (reply.status = 206) /\ next.whole = Complete(reply)
  OBVIOUS
<1>7. next = [stage |-> "receiving", of |-> next.of, offset |-> next.offset,
               resumed |-> next.resumed, whole |-> next.whole, rest |-> next.rest]
  OBVIOUS
<1>8. Arriving(b, next, p)
  <2>. HIDE DEF next
  <2>1. b = "plain" /\ Offers[u].key = Nil => reply.status # 206
    BY <1>3
  <2>2. b = "plain" /\ Offers[u].key = Nil => ~next.resumed
    BY <1>6, <2>1, Zenon
  <2>3. next.offset \in Nat /\ IsSeq(next.rest)
    BY <1>3, <1>6
  <2>4. Offers[u].key = Nil /\ (b # "plain" \/ next.offset = 0) =>
           JoinOf(Offers[u].plain, p, next.rest)
    BY <1>4, <1>6
  <2>5. Offers[u].key # Nil => \A j \in 1..Len(next.rest) : Offered(next.rest[j], Offers[u].name)
    BY <1>5, <1>6
  <2>. QED BY <1>6, <1>7, <2>2, <2>3, <2>4, <2>5, Zenon DEF Arriving
<1>. QED BY <1>8

LEMMA GetBegins ==
    ASSUME GetInv, NEW u \in DOMAIN Offers, NEW noResume \in BOOLEAN, BeginGet(u, noResume)
    PROVE  GetInv' /\ get.stage' # "saved"
<1>. DEFINE n == Offers[u].name
            first == IF noResume \/ part[n] = Absent THEN <<>> ELSE part[n]
<1>1. PICK start : start = first
  OBVIOUS
<1>2. /\ part' = [part EXCEPT ![n] = start] /\ UNCHANGED <<backend, dest>>
      /\ get' = [stage |-> "asking", of |-> u, offset |-> Len(start)]
  BY <1>1 DEF BeginGet, putVars, probeVars
<1>3. n \in Names /\ \A v \in DOMAIN Offers : IsSeq(Offers[v].plain)
  BY OfferIs
<1>4. PartFits(backend, n, start)
  <2>1. CASE start = <<>>
    <3>1. /\ IsSeq(start) /\ Len(start) = 0
      BY <2>1 DEF IsSeq
    <3>2. \A v \in DOMAIN Offers : Begins(start, Offers[v].plain)
      BY <1>3, <3>1 DEF Begins, IsSeq
    <3>. QED BY <3>1, <3>2 DEF PartFits
  <2>2. CASE start # <<>>
    BY <1>1, <1>3, <2>2 DEF GetInv
  <2>. QED BY <2>1, <2>2
<1>5. DOMAIN part' = Names /\ part'[n] = start
      /\ \A m \in Names : m # n => part'[m] = part[m]
  BY <1>2, <1>3 DEF GetInv
<1>6. /\ get.stage' = "asking" /\ get.of' = u /\ get.offset' = Len(start)
      /\ get' = [stage |-> "asking", of |-> get.of', offset |-> get.offset']
  BY <1>2
<1>7. PartOfGet' = start
  BY <1>5, <1>6 DEF PartOfGet
<1>8. GetFits(backend, get', start)
  BY <1>4, <1>6 DEF GetFits
<1>9. \A m \in Names : part'[m] = Absent \/ PartFits(backend, m, part'[m])
  BY <1>4, <1>5 DEF GetInv
<1>. QED BY <1>2, <1>5, <1>6, <1>7, <1>8, <1>9 DEF GetInv

LEMMA GetAnswers ==
    ASSUME GetInv, AnswerGet
    PROVE  GetInv' /\ get.stage' # "saved"
<1>1. PICK u, offset, p : u = get.of /\ offset = get.offset /\ p = PartOfGet
  OBVIOUS
<1>2. PICK reply : reply = Reply(backend, Offers[u], Asking(offset), Offers[u].encrypted, NoTags)
  OBVIOUS
<1>3. /\ UNCHANGED <<backend, part, dest>> /\ get.stage = "asking"
      /\ get' = IF u \in live /\ reply.status \in {200, 206}
                THEN [stage |-> "receiving", of |-> u, offset |-> offset,
                      resumed |-> reply.status = 206, whole |-> Complete(reply),
                      rest |-> reply.body]
                ELSE [stage |-> "failed", of |-> u]
  BY <1>1, <1>2 DEF AnswerGet, Requested, Asking
<1>4. /\ u \in DOMAIN Offers /\ PartFits(backend, Offers[u].name, p) /\ offset = Len(p)
  BY <1>1, <1>3 DEF GetInv, GetFits
<1>5. CASE u \in live /\ reply.status \in {200, 206}
  <2>1. PICK next : next = [stage |-> "receiving", of |-> u, offset |-> offset,
                            resumed |-> reply.status = 206, whole |-> Complete(reply),
                            rest |-> reply.body]
    OBVIOUS
  <2>2. get' = next /\ next.stage = "receiving" /\ next.of = u
    BY <1>3, <1>5, <2>1
  <2>3. Arriving(backend, next, p)
    BY <1>2, <1>4, <1>5, <2>1, AnswersArrive
  <2>4. GetFits(backend, next, p)
    BY <1>4, <2>2, <2>3 DEF GetFits
  <2>5. PartOfGet' = p
    BY <1>1, <1>3, <2>2 DEF PartOfGet
  <2>. QED BY <1>3, <2>2, <2>4, <2>5 DEF GetInv
<1>6. CASE ~(u \in live /\ reply.status \in {200, 206})
  <2>1. get.stage' = "failed"
    BY <1>3, <1>6
  <2>. QED BY <1>3, <2>1 DEF GetInv
<1>. QED BY <1>5, <1>6

LEMMA GetReceives ==
    ASSUME NamesApart, GetInv, Receive
    PROVE  GetInv' /\ get.stage' # "saved"
<1>1. PICK u, p, g : u = get.of /\ p = PartOfGet /\ g = get
  OBVIOUS
<1>2. PICK n : n = Offers[u].name
  OBVIOUS
<1>3. PICK q, t : q = Append(p, Head(g.rest)) /\ t = Tail(g.rest)
  OBVIOUS
<1>4. /\ UNCHANGED <<backend, dest>> /\ g.stage = "receiving" /\ g.rest # <<>>
      /\ part' = [part EXCEPT ![n] = q] /\ get' = [g EXCEPT !.rest = t]
  BY <1>1, <1>2, <1>3 DEF Receive, PartOfGet
<1>5. u \in DOMAIN Offers /\ PartFits(backend, n, p) /\ Arriving(backend, g, p) /\ g.of = u
  BY <1>1, <1>2, <1>4 DEF GetInv, GetFits
<1>6. PICK next : next = [stage |-> "receiving", of |-> u, offset |-> g.offset,
                          resumed |-> g.resumed, whole |-> g.whole, rest |-> t]
  OBVIOUS
<1>7. /\ next.stage = "receiving" /\ next.of = u /\ next.offset = g.offset /\ next.rest = t
      /\ next.resumed = g.resumed
      /\ next = [stage |-> "receiving", of |-> next.of, offset |-> next.offset,
                 resumed |-> next.resumed, whole |-> next.whole, rest |-> next.rest]
  BY <1>6
<1>8. get' = next
  <2>1. g = [stage |-> "receiving", of |-> u, offset |-> g.offset, resumed |-> g.resumed,
             whole |-> g.whole, rest |-> g.rest]
    BY <1>5 DEF Arriving
  <2>. QED BY <1>4, <1>6, <2>1
<1>9. IsSeq(p) /\ IsSeq(g.rest) /\ g.rest # <<>>
  BY <1>4, <1>5 DEF PartFits, Arriving
<1>10. /\ IsSeq(q) /\ IsSeq(t)
       /\ \A j \in 1..Len(q) : q[j] = IF j <= Len(p) THEN p[j] ELSE g.rest[1]
       /\ \A j \in 1..Len(t) : j + 1 \in 1..Len(g.rest) /\ t[j] = g.rest[j + 1]
       /\ \A c : JoinOf(c, p, g.rest) => JoinOf(c, q, t)
  BY <1>3, <1>9, OneArrives
<1>11. ASSUME Offers[u].key # Nil
       PROVE  /\ \A j \in 1..Len(q) : Offered(q[j], n)
              /\ \A j \in 1..Len(t) : Offered(t[j], n)
  <2>1. /\ \A j \in 1..Len(p) : Offered(p[j], n)
        /\ \A j \in 1..Len(g.rest) : Offered(g.rest[j], n)
    BY <1>2, <1>5, <1>11 DEF PartFits, Arriving
  <2>2. Len(g.rest) \in Nat /\ Len(g.rest) # 0 /\ Len(p) \in Nat /\ Len(q) \in Nat
    BY <1>9, <1>10 DEF IsSeq
  <2>3. ASSUME NEW j \in 1..Len(q) PROVE Offered(q[j], n)
    <3>1. CASE j <= Len(p)
      <4>1. j \in 1..Len(p) /\ q[j] = p[j]
        BY <1>10, <2>2, <3>1
      <4>. QED BY <2>1, <4>1
    <3>2. CASE ~(j <= Len(p))
      <4>1. 1 \in 1..Len(g.rest) /\ q[j] = g.rest[1]
        BY <1>10, <2>2, <3>2
      <4>. QED BY <2>1, <4>1
    <3>. QED BY <3>1, <3>2
  <2>4. ASSUME NEW j \in 1..Len(t) PROVE Offered(t[j], n)
    <3>1. j + 1 \in 1..Len(g.rest) /\ t[j] = g.rest[j + 1]
      BY <1>10
    <3>. QED BY <2>1, <3>1
  <2>. QED BY <2>3, <2>4
<1>12. Arriving(backend, next, q)
  <2>1. next.offset \in Nat /\ IsSeq(next.rest)
    BY <1>5, <1>7, <1>10 DEF Arriving
  <2>2. Offers[u].key # Nil => \A j \in 1..Len(next.rest) : Offered(next.rest[j], n)
    BY <1>7, <1>11
  <2>3. Offers[u].key = Nil =>
           /\ backend = "plain" => ~next.resumed
           /\ backend # "plain" \/ next.offset = 0 => JoinOf(Offers[u].plain, q, next.rest)
    BY <1>5, <1>7, <1>10 DEF Arriving
  <2>. QED BY <1>2, <1>7, <2>1, <2>2, <2>3 DEF Arriving
<1>13. PartFits(backend, n, q)
  <2>1. ASSUME NEW v \in DOMAIN Offers, Offers[v].name = n, Offers[v].key # Nil,
               NEW j \in 1..Len(q)
        PROVE  Offered(q[j], n)
    BY <1>2, <1>5, <1>11, <2>1 DEF NamesApart
  <2>2. ASSUME NEW v \in DOMAIN Offers, Offers[v].name = n, Offers[v].key = Nil,
               backend # "plain"
        PROVE  Begins(q, Offers[v].plain)
    <3>1. v = u
      BY <1>2, <1>5, <2>2 DEF NamesApart
    <3>2. JoinOf(Offers[u].plain, q, t)
      BY <1>7, <1>12, <2>2, <3>1 DEF Arriving
    <3>. QED BY <1>10, <3>1, <3>2, JoinBegins
  <2>. QED BY <1>10, <2>1, <2>2 DEF PartFits
<1>14. n \in Names
  BY <1>2, <1>5, OfferIs
<1>15. DOMAIN part' = Names /\ part'[n] = q /\ \A m \in Names : m # n => part'[m] = part[m]
  BY <1>4, <1>14 DEF GetInv
<1>16. PartOfGet' = q
  BY <1>2, <1>7, <1>8, <1>15 DEF PartOfGet
<1>17. GetFits(backend, next, q)
  BY <1>2, <1>5, <1>7, <1>12, <1>13 DEF GetFits
<1>18. \A m \in Names : part'[m] = Absent \/ PartFits(backend, m, part'[m])
  BY <1>13, <1>15 DEF GetInv
<1>. QED BY <1>4, <1>7, <1>8, <1>15, <1>16, <1>17, <1>18 DEF GetInv

\* The body is there: of a plain link the partial file is all of it, or the server has
\* started over and it is dropped.
LEMMA GetEnds ==
    ASSUME NamesApart, GetInv, EndGet
    PROVE  GetInv' /\ (get.stage' = "saved" => dest'[get.to'] = Offers[get.of'].plain)
<1>1. PICK u, p, g : u = get.of /\ p = PartOfGet /\ g = get
  OBVIOUS
<1>2. PICK n : n = Offers[u].name
  OBVIOUS
<1>3. UNCHANGED backend /\ g.stage = "receiving" /\ g.rest = <<>>
  BY <1>1 DEF EndGet
<1>4. u \in DOMAIN Offers /\ PartFits(backend, n, p) /\ Arriving(backend, g, p) /\ g.of = u
  BY <1>1, <1>2, <1>3 DEF GetInv, GetFits
<1>5. n \in Names /\ part[n] = p
  BY <1>1, <1>2, <1>4, OfferIs DEF PartOfGet
<1>6. CASE get' = [stage |-> "failed", of |-> u] /\ UNCHANGED <<part, dest>>
  <2>1. get.stage' = "failed"
    BY <1>6
  <2>. QED BY <1>3, <1>6, <2>1 DEF GetInv
<1>7. CASE /\ get' = [stage |-> "failed", of |-> u] /\ part' = [part EXCEPT ![n] = Absent]
           /\ UNCHANGED dest
  <2>1. get.stage' = "failed"
    BY <1>7
  <2>2. DOMAIN part' = Names /\ \A m \in Names : part'[m] = IF m = n THEN Absent ELSE part[m]
    BY <1>7 DEF GetInv
  <2>. QED BY <1>3, <1>7, <2>1, <2>2 DEF GetInv
<1>8. CASE /\ g.whole /\ ~Restarted /\ Offers[u].key = Nil
           /\ get' = [stage |-> "saved", of |-> u, to |-> n]
           /\ part' = [part EXCEPT ![n] = Absent] /\ dest' = [dest EXCEPT ![n] = p]
  <2>1. get.stage' = "saved" /\ get.of' = u /\ get.to' = n
    BY <1>8
  <2>2. DOMAIN part' = Names /\ \A m \in Names : part'[m] = IF m = n THEN Absent ELSE part[m]
    BY <1>8 DEF GetInv
  <2>3. DOMAIN dest' = Names /\ dest'[n] = p
    BY <1>5, <1>8 DEF GetInv
  <2>4. backend # "plain" \/ g.offset = 0
    BY <1>1, <1>4, <1>8 DEF Arriving, Restarted
  <2>5. JoinOf(Offers[u].plain, p, g.rest)
    BY <1>4, <1>8, <2>4 DEF Arriving
  <2>6. p = Offers[u].plain
    BY <1>3, <1>4, <2>5, JoinWhole DEF PartFits
  <2>. QED BY <1>3, <2>1, <2>2, <2>3, <2>6 DEF GetInv
<1>9. CASE /\ Offers[u].key # Nil /\ HeaderOpens(p, Offers[u].key) /\ UNCHANGED part
           /\ get' = [stage |-> "decrypting", of |-> u, to |-> SealedName(p)]
           /\ dest' = [dest EXCEPT ![SealedName(p)] = <<>>]
  <2>1. PICK next : next = [stage |-> "decrypting", of |-> u, to |-> SealedName(p)]
    OBVIOUS
  <2>2. /\ get' = next /\ next.stage = "decrypting" /\ next.of = u /\ next.to = SealedName(p)
        /\ next = [stage |-> "decrypting", of |-> next.of, to |-> next.to]
    BY <1>9, <2>1
  <2>3. IsSeq(p) /\ \A j \in 1..Len(p) : Offered(p[j], Offers[u].name)
    BY <1>2, <1>4, <1>9 DEF PartFits
  <2>4. SealedName(p) \in Names
    BY <1>4, <1>9, <2>3, OpenedIsOwn
  <2>5. DOMAIN dest' = Names /\ PartOfGet' = p
    BY <1>2, <1>5, <1>9, <2>2 DEF GetInv, PartOfGet
  <2>6. GetFits(backend, next, p)
    BY <1>2, <1>4, <1>9, <2>2, <2>4 DEF GetFits
  <2>. QED BY <1>3, <1>9, <2>2, <2>5, <2>6 DEF GetInv
<1>. QED BY <1>1, <1>2, <1>5, <1>6, <1>7, <1>8, <1>9 DEF EndGet

LEMMA GetDecrypts ==
    ASSUME NamesApart, GetInv, DecryptFile
    PROVE  GetInv' /\ (get.stage' = "saved" => dest'[get.to'] = Offers[get.of'].plain)
<1>1. PICK u, p, g : u = get.of /\ p = PartOfGet /\ g = get
  OBVIOUS
<1>2. PICK n, result : n = Offers[u].name /\ result = Decrypt(p, Offers[u].key)
  OBVIOUS
<1>3. /\ UNCHANGED backend /\ g.stage = "decrypting" /\ p = part[n]
      /\ \/ /\ result.ok /\ get' = [g EXCEPT !.stage = "saved"]
            /\ dest' = [dest EXCEPT ![g.to] = result.plain]
            /\ part' = [part EXCEPT ![n] = Absent]
         \/ /\ get' = [g EXCEPT !.stage = "failed"]
            /\ dest' = [dest EXCEPT ![g.to] = Absent] /\ UNCHANGED part
  BY <1>1, <1>2 DEF DecryptFile, PartOfGet
<1>4. /\ u \in DOMAIN Offers /\ PartFits(backend, n, p) /\ g.of = u
      /\ g = [stage |-> "decrypting", of |-> u, to |-> g.to]
      /\ Offers[u].key # Nil /\ g.to \in Names
  BY <1>1, <1>2, <1>3 DEF GetInv, GetFits
<1>5. CASE /\ result.ok /\ get' = [g EXCEPT !.stage = "saved"]
           /\ dest' = [dest EXCEPT ![g.to] = result.plain]
           /\ part' = [part EXCEPT ![n] = Absent]
  <2>1. get' = [stage |-> "saved", of |-> u, to |-> g.to]
    BY <1>4, <1>5
  <2>2. get.stage' = "saved" /\ get.of' = u /\ get.to' = g.to
    BY <2>1
  <2>3. DOMAIN part' = Names /\ \A m \in Names : part'[m] = IF m = n THEN Absent ELSE part[m]
    BY <1>5 DEF GetInv
  <2>4. DOMAIN dest' = Names /\ dest'[g.to] = result.plain
    BY <1>4, <1>5 DEF GetInv
  <2>5. IsSeq(p) /\ \A j \in 1..Len(p) : Offered(p[j], Offers[u].name)
    BY <1>2, <1>4 DEF PartFits
  <2>6. result.plain = Offers[u].plain
    BY <1>2, <1>4, <1>5, <2>5, OpenedIsOwn
  <2>. QED BY <1>3, <2>2, <2>3, <2>4, <2>6 DEF GetInv
<1>6. CASE /\ get' = [g EXCEPT !.stage = "failed"]
           /\ dest' = [dest EXCEPT ![g.to] = Absent] /\ UNCHANGED part
  <2>1. get' = [stage |-> "failed", of |-> u, to |-> g.to]
    BY <1>4, <1>6
  <2>2. get.stage' = "failed" /\ DOMAIN dest' = Names
    BY <1>6, <2>1 DEF GetInv
  <2>. QED BY <1>3, <1>6, <2>2 DEF GetInv
<1>. QED BY <1>3, <1>5, <1>6

LEMMA GetNext ==
    ASSUME [Next]_vars
    PROVE  \/ UNCHANGED <<backend, getVars>>
           \/ \E u \in DOMAIN Offers, noResume \in BOOLEAN : BeginGet(u, noResume)
           \/ AnswerGet \/ Receive \/ EndGet \/ DecryptFile \/ BreakGet
<1>1. CASE UNCHANGED vars
  BY <1>1 DEF vars, transferVars
<1>2. CASE Next
  <2>1. \A u, header, password :
            Probe(u, header, password) => UNCHANGED <<backend, getVars>>
    BY DEF Probe
  <2>. QED BY <1>2, <2>1 DEF Next, Transfer, Record, transferVars, SendCells, CommitPut,
           StartPut, PutWhole, ResumePut, FinishPut, BreakPut, EditFile, ForgetSession
<1>. QED BY <1>1, <1>2

\* When links that share a file name are of sealed uploads with a key each, what get says
\* it saved is the plaintext of the link it was given, over however many runs that
\* continue, break and fail, and on every backend (cmd/send/main.go, runGet).
THEOREM SavedIsAsked == ASSUME NamesApart PROVE Spec => []SavedIsRequested
<1>. DEFINE Inv == GetInv /\ SavedIsRequested
<1>1. Init => Inv
  <2>. SUFFICES ASSUME Init PROVE GetInv /\ SavedIsRequested
    OBVIOUS
  <2>1. /\ part = [n \in Names |-> Absent] /\ dest = [n \in Names |-> Absent]
        /\ get = [stage |-> "idle"]
    BY DEF Init, TransferInit, NoGet
  <2>2. get.stage = "idle"
    BY <2>1
  <2>. QED BY <2>1, <2>2 DEF GetInv, SavedIsRequested
<1>2. Inv /\ [Next]_vars => Inv'
  <2>. SUFFICES ASSUME GetInv, SavedIsRequested, [Next]_vars
                PROVE  GetInv' /\ SavedIsRequested'
    OBVIOUS
  <2>1. CASE UNCHANGED <<backend, getVars>>
    BY <2>1 DEF getVars, GetInv, PartOfGet, SavedIsRequested
  <2>2. CASE \E u \in DOMAIN Offers, noResume \in BOOLEAN : BeginGet(u, noResume)
    BY <2>2, GetBegins DEF SavedIsRequested
  <2>3. CASE AnswerGet
    BY <2>3, GetAnswers DEF SavedIsRequested
  <2>4. CASE Receive
    BY <2>4, GetReceives DEF SavedIsRequested
  <2>5. CASE EndGet
    BY <2>5, GetEnds DEF SavedIsRequested
  <2>6. CASE DecryptFile
    BY <2>6, GetDecrypts DEF SavedIsRequested
  <2>7. CASE BreakGet
    <3>1. UNCHANGED <<backend, part, dest>> /\ get' = [stage |-> "failed", of |-> get.of]
      BY <2>7 DEF BreakGet
    <3>2. get.stage' = "failed"
      BY <3>1
    <3>. QED BY <3>1, <3>2 DEF GetInv, SavedIsRequested
  <2>. QED BY <2>1, <2>2, <2>3, <2>4, <2>5, <2>6, <2>7, GetNext
<1>3. Inv => SavedIsRequested
  OBVIOUS
<1>. QED BY <1>1, <1>2, <1>3, PTL DEF Spec

===============================================================================
