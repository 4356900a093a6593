----------------------------- MODULE TransferProofs ----------------------------
(***************************************************************************)
(* Theorems about Transfer: the bytes that arrive are the file's, at their *)
(* place, both ends agree on what is left, and a complete file is whole,   *)
(* for every size of the file and of the chunks.                           *)
(***************************************************************************)
EXTENDS Transfer, SequenceTheorems, TLAPS

Served == response.status \in {200, 206}

\* TypeOK, with the shape of the records and of the sequences.
Shape ==
    /\ version \in {"same", "other", "unknown"}
    /\ size \in 0..MaxSize /\ length \in 0..size
    /\ shareable \in BOOLEAN /\ told \in BOOLEAN
    /\ server \in [at : {"request", "headers", "body", "closed"},
                   pos : 0..MaxSize, left : 0..MaxSize]
    /\ client \in [at : {"waiting", "reading", "failed", "complete"},
                   offset : 0..(MaxSize + 1), until : 0..MaxSize]
    /\ local \in Seq(Nat) /\ stream \in Seq(Nat)
    /\ Len(local) >= client.offset

\* Nothing is in flight before the request is answered, or after a refusal.
Answered ==
    /\ server.at = "request" => response = NoResponse
    /\ Served => version = "same"
    /\ ~Served => /\ server.at \in {"request", "closed"}
                  /\ stream = <<>>
                  /\ client.at \in {"waiting", "failed"}

\* What the headers say to a client that has not read them, and what it made
\* of them.
Agreed ==
    /\ Served /\ client.at = "waiting" =>
          /\ ClientFrom(response) = client.offset
          /\ ClientUntil(response) = size
          /\ client.offset <= size
    /\ client.at = "reading" => client.until = size /\ client.offset <= size

\* The server's place in the file, and the bytes in flight behind it.
InFlight ==
    /\ Served => server.pos + server.left = size
    /\ Served /\ client.at \in {"waiting", "reading"} =>
          /\ server.pos = client.offset + Len(stream)
          /\ \A j \in 1..Len(stream) : stream[j] = client.offset + j

IInv == Shape /\ Answered /\ Agreed /\ InFlight /\ Aligned /\ CompleteIsWhole

-----------------------------------------------------------------------------
(* Ranges and sequences *)

\* The range a client asks for is refused when it has more than the file, and
\* otherwise answered with the rest of it, from where the client stands.
LEMMA RangeAnswer ==
  ASSUME NEW have \in Nat, NEW n \in Nat
  PROVE  LET r == FileResponse(RequestedRange(have), n)
         IN  /\ r # NoResponse
             /\ r.status \in {200, 206} =>
                   /\ have <= n
                   /\ r.length = n - have
                   /\ ClientFrom(r) = have
                   /\ ClientUntil(r) = n
<1> DEFINE asked == RequestedRange(have)
<1>1. asked.offset = have /\ ~asked.bounded /\ asked.length = None
  <2>1. CASE have = 0
    <3>1. asked = ByteRange(None, None)
      BY <2>1 DEF RequestedRange
    <3>2. asked.offset = have /\ asked.length = None
      BY <2>1, <3>1 DEF ByteRange
    <3>3. asked.bounded = (None \notin {None, 0})
      BY <3>1 DEF ByteRange
    <3>4. (None \notin {None, 0}) = FALSE
      OBVIOUS
    <3>5. ~asked.bounded
      BY <3>3, <3>4, Zenon
    <3> QED  BY <3>2, <3>5
  <2>2. CASE have # 0
    <3>1. asked = ByteRange(have, None)
      BY <2>2 DEF RequestedRange
    <3>2. have # None
      BY DEF None
    <3>3. asked.offset = have /\ asked.length = None
      BY <2>2, <3>1, <3>2 DEF ByteRange
    <3>4. asked.bounded = (None \notin {None, 0})
      BY <3>1 DEF ByteRange
    <3>5. (None \notin {None, 0}) = FALSE
      OBVIOUS
    <3>6. ~asked.bounded
      BY <3>4, <3>5, Zenon
    <3> QED  BY <3>3, <3>6
  <2> QED  BY <2>1, <2>2
<1>2. EffectiveLength(asked, n) = IF have > n THEN Invalid ELSE n - have
  BY <1>1 DEF EffectiveLength, CalcRangeLen
<1> HIDE DEF asked
<1>3. CASE have > n
  <2>1. FileResponse(asked, n) = [status |-> 416, length |-> None, from |-> None, full |-> None]
    BY <1>2, <1>3 DEF FileResponse, Refusal
  <2> QED  BY <2>1 DEF NoResponse, asked
<1>4. CASE have <= n
  <2>1. EffectiveLength(asked, n) = n - have /\ n - have # Invalid
    BY <1>2, <1>4 DEF Invalid
  <2>2. CASE have = 0
    <3>1. FileResponse(asked, n) = [status |-> 200, length |-> n, from |-> None, full |-> None]
      BY <2>1, <2>2 DEF FileResponse
    <3> QED  BY <2>2, <3>1 DEF NoResponse, asked, ClientFrom, ClientUntil
  <2>3. CASE have # 0
    <3>1. FileResponse(asked, n) = [status |-> 206, length |-> n - have, from |-> have, full |-> n]
      BY <1>1, <2>1, <2>3 DEF FileResponse
    <3> QED  BY <1>4, <2>3, <3>1 DEF NoResponse, asked, ClientFrom, ClientUntil, None
  <2> QED  BY <2>2, <2>3
<1> QED
  BY <1>3, <1>4

\* Any interval that a Range header may name, with either end absent or 0: an
\* answer of 200 is the whole file, one of 206 lies within it, and exactly the
\* intervals that turn round or leave the file are refused.
THEOREM RangesStayInside ==
  ASSUME NEW start \in Nat \union {None}, NEW end \in Nat \union {None}, NEW n \in Nat
  PROVE  LET first == IF start = None THEN 0 ELSE start
             last  == IF end \in {None, 0} THEN n ELSE end
             r     == FileResponse(ByteRange(start, end), n)
         IN  IF first <= last /\ last <= n
             THEN /\ r.status = IF first = 0 /\ last = n THEN 200 ELSE 206
                  /\ r.length = last - first
                  /\ ClientFrom(r) = first
                  /\ ClientUntil(r) = n
             ELSE r = Refusal(416)
<1> DEFINE first == IF start = None THEN 0 ELSE start
           last  == IF end \in {None, 0} THEN n ELSE end
           asked == ByteRange(start, end)
           inside == first <= last /\ last <= n
<1>1. first \in Nat /\ last \in Nat
  BY DEF None
<1>2. asked.offset = first /\ asked.length = IF end \in {None, 0} THEN None ELSE end - first
  BY DEF ByteRange
<1>3. asked.bounded <=> end \notin {None, 0}
  BY Zenon DEF ByteRange
<1> HIDE DEF asked
<1>4. EffectiveLength(asked, n) = IF inside THEN last - first ELSE Invalid
  <2>1. CASE end \in {None, 0}
    <3>1. ~asked.bounded /\ asked.length = None /\ last = n
      BY <1>2, <1>3, <2>1
    <3>2. EffectiveLength(asked, n) = CalcRangeLen(n, first, None)
      BY <1>2, <3>1 DEF EffectiveLength
    <3> QED  BY <1>1, <3>1, <3>2 DEF CalcRangeLen
  <2>2. CASE end \notin {None, 0}
    <3>1. asked.bounded /\ asked.length = end - first /\ last = end /\ end \in Nat
      BY <1>2, <1>3, <2>2
    <3>2. EffectiveLength(asked, n) = IF end - first < 0 THEN Invalid
                                      ELSE CalcRangeLen(n, first, end - first)
      BY <1>2, <3>1 DEF EffectiveLength
    <3>3. end - first >= 0 => end - first # None
      BY <1>1, <3>1 DEF None
    <3> QED  BY <1>1, <3>1, <3>2, <3>3 DEF CalcRangeLen
  <2> QED  BY <2>1, <2>2
<1>5. CASE ~inside
  <2>1. FileResponse(asked, n) = Refusal(416)
    BY <1>4, <1>5 DEF FileResponse
  <2> QED  BY <1>5, <2>1 DEF asked
<1>6. CASE inside
  <2>1. EffectiveLength(asked, n) = last - first /\ last - first # Invalid
    BY <1>1, <1>4, <1>6 DEF Invalid
  <2>2. CASE first = 0 /\ last = n
    <3>1. FileResponse(asked, n) = [status |-> 200, length |-> n, from |-> None, full |-> None]
      BY <1>1, <2>1, <2>2 DEF FileResponse
    <3> QED  BY <1>1, <1>6, <2>2, <3>1 DEF ClientFrom, ClientUntil, asked
  <2>3. CASE ~(first = 0 /\ last = n)
    <3>1. last - first # n
      BY <1>1, <1>6, <2>3
    <3>2. FileResponse(asked, n) = [status |-> 206, length |-> last - first,
                                    from |-> first, full |-> n]
      BY <1>2, <2>1, <3>1 DEF FileResponse
    <3>3. first # None
      BY <1>1 DEF None
    <3> QED  BY <1>6, <2>3, <3>2, <3>3 DEF ClientFrom, ClientUntil, asked
  <2> QED  BY <2>2, <2>3
<1> QED
  BY <1>5, <1>6

\* Bytes written at an offset land there, and nothing else moves.
LEMMA OverwrittenHas ==
  ASSUME NEW file \in Seq(Nat), NEW bytes \in Seq(Nat), NEW offset \in Nat,
         offset <= Len(file)
  PROVE  /\ Overwritten(file, offset, bytes) \in Seq(Nat)
         /\ Len(Overwritten(file, offset, bytes)) >= offset + Len(bytes)
         /\ \A i \in 1..offset : Overwritten(file, offset, bytes)[i] = file[i]
         /\ \A i \in (offset + 1)..(offset + Len(bytes)) :
               Overwritten(file, offset, bytes)[i] = bytes[i - offset]
<1> DEFINE m == IF offset + Len(bytes) > Len(file) THEN offset + Len(bytes) ELSE Len(file)
           f == [i \in 1..m |-> IF i \in (offset + 1)..(offset + Len(bytes))
                                THEN bytes[i - offset] ELSE file[i]]
<1>1. m \in Nat /\ m >= offset + Len(bytes) /\ m >= Len(file)
  BY LenProperties
<1>2. \A i \in 1..m : i \notin (offset + 1)..(offset + Len(bytes)) => i \in 1..Len(file)
  BY LenProperties
<1>3. \A i \in (offset + 1)..(offset + Len(bytes)) : i - offset \in 1..Len(bytes)
  BY LenProperties
<1>4. f \in [1..m -> Nat]
  BY <1>2, <1>3, ElementOfSeq
<1>5. f \in Seq(Nat) /\ Len(f) = m
  BY <1>1, <1>4
<1>6. f = Overwritten(file, offset, bytes)
  BY DEF Overwritten
<1>7. \A i \in 1..offset : i \in 1..m /\ f[i] = file[i]
  BY <1>1, LenProperties
<1>8. \A i \in (offset + 1)..(offset + Len(bytes)) : i \in 1..m /\ f[i] = bytes[i - offset]
  BY <1>1, LenProperties
<1> QED
  BY <1>1, <1>5, <1>6, <1>7, <1>8

\* The file cut at an offset keeps what is before it.
LEMMA CutHas ==
  ASSUME NEW file \in Seq(Nat), NEW n \in Nat, n <= Len(file)
  PROVE  /\ SubSeq(file, 1, n) \in Seq(Nat)
         /\ Len(SubSeq(file, 1, n)) = n
         /\ \A i \in 1..n : SubSeq(file, 1, n)[i] = file[i]
<1>1. \A i \in 1..n : file[i] \in Nat
  BY ElementOfSeq, LenProperties
<1> QED
  BY <1>1, SubSeqProperties
\* What is behind the first bytes of a stream.
LEMMA RestHas ==
  ASSUME NEW s \in Seq(Nat), NEW n \in Nat, n <= Len(s)
  PROVE  /\ SubSeq(s, n + 1, Len(s)) \in Seq(Nat)
         /\ Len(SubSeq(s, n + 1, Len(s))) = Len(s) - n
         /\ \A j \in 1..(Len(s) - n) : SubSeq(s, n + 1, Len(s))[j] = s[n + j]
<1>1. Len(s) \in Nat /\ \A i \in 1..Len(s) : s[i] \in Nat
  BY ElementOfSeq, LenProperties
<1> DEFINE m == n + 1
           l == Len(s)
<1>2. m \in Int /\ l \in Int /\ m = n + 1 /\ l = Len(s) /\ \A i \in m..l : s[i] \in Nat
  BY <1>1
<1> HIDE DEF m, l
<1>3. /\ SubSeq(s, m, l) \in Seq(Nat)
      /\ Len(SubSeq(s, m, l)) = IF m <= l THEN l - m + 1 ELSE 0
      /\ \A i \in 1..(l - m + 1) : SubSeq(s, m, l)[i] = s[m + i - 1]
  BY <1>2, SubSeqProperties
<1>4. \A j \in 1..(Len(s) - n) : j \in 1..(l - m + 1) /\ m + j - 1 = n + j
  BY <1>1, <1>2
<1>5. l - m + 1 = Len(s) - n /\ (m <= l \/ Len(s) - n = 0)
  BY <1>1, <1>2
<1>6. SubSeq(s, n + 1, Len(s)) = SubSeq(s, m, l)
  BY <1>2
<1> QED
  BY <1>2, <1>3, <1>4, <1>5, <1>6

-----------------------------------------------------------------------------
(* The invariant is inductive *)

LEMMA InitHolds == Init => IInv
<1> SUFFICES ASSUME Init  PROVE IInv
  OBVIOUS
<1> USE TransferConstants
<1>1. PICK have \in 0..(MaxSize + 1), old \in 0..1 :
          /\ local = Prefix(have) \o [i \in 1..old |-> 0]
          /\ client = [at |-> "waiting", offset |-> have, until |-> 0]
  BY DEF Init
<1>2. Prefix(have) \in Seq(Nat) /\ Len(Prefix(have)) = have
  BY DEF Prefix
<1>3. [i \in 1..old |-> 0] \in Seq(Nat) /\ Len([i \in 1..old |-> 0]) = old
  OBVIOUS
<1>4. /\ local \in Seq(Nat)
      /\ Len(local) = have + old
      /\ \A i \in 1..have : local[i] = Prefix(have)[i]
  BY <1>1, <1>2, <1>3, ConcatProperties
<1>5. \A i \in 1..have : local[i] = i
  BY <1>4 DEF Prefix
<1>6. stream = <<>> /\ stream \in Seq(Nat) /\ response = NoResponse /\ ~Served
  BY DEF Init, NoResponse, Served
<1>7. client.at = "waiting" /\ client.offset = have
  BY <1>1
<1>8. Shape
  <2>1. have \in Nat /\ have <= MaxSize + 1 /\ old \in Nat /\ Len(local) >= client.offset
    BY <1>4, <1>7
  <2>2. client \in [at : {"waiting", "reading", "failed", "complete"},
                   offset : 0..(MaxSize + 1), until : 0..MaxSize]
    BY <1>1
  <2>3. server \in [at : {"request", "headers", "body", "closed"},
                   pos : 0..MaxSize, left : 0..MaxSize]
    BY DEF Init
  <2>4. size \in 0..MaxSize /\ length \in 0..size
    BY DEF Init
  <2>5. shareable \in BOOLEAN /\ told \in BOOLEAN
    BY Zenon DEF Init
  <2>6. version \in {"same", "other", "unknown"}
    BY DEF Init
  <2> QED  BY <1>4, <1>6, <2>1, <2>2, <2>3, <2>4, <2>5, <2>6 DEF Shape
<1>9. Answered /\ Agreed /\ InFlight
  BY <1>6, <1>7 DEF Init, Answered, Agreed, InFlight
<1>10. Aligned /\ CompleteIsWhole
  BY <1>5, <1>7 DEF Aligned, CompleteIsWhole
<1> QED
  BY <1>8, <1>9, <1>10 DEF IInv

\* The headers, and the byte where the server will begin.
LEMMA HandleRequestHolds ==
  ASSUME IInv, HandleRequest
  PROVE  IInv'
<1> USE TransferConstants
<1> DEFINE r == Answer(RequestedRange(client.offset), version, size)
<1>1. /\ response' = r
      /\ server' = IF r.status \in {200, 206}
                   THEN [at |-> "headers", pos |-> client.offset, left |-> r.length]
                   ELSE [server EXCEPT !.at = "closed"]
  BY DEF HandleRequest
<1>2. UNCHANGED <<version, size, length, shareable, told, stream, client, local>>
  BY DEF HandleRequest
<1>3. size \in Nat /\ size <= MaxSize /\ client.offset \in Nat
  BY DEF IInv, Shape
<1>4. server.at = "request" /\ response = NoResponse /\ ~Served
  BY DEF HandleRequest, IInv, Answered, Served, NoResponse
<1>5. stream = <<>> /\ client.at \in {"waiting", "failed"} /\ Len(stream) = 0
  BY <1>4 DEF IInv, Answered
<1>6. r.status \in {200, 206} =>
          /\ version = "same"
          /\ client.offset <= size
          /\ r.length = size - client.offset
          /\ ClientFrom(r) = client.offset
          /\ ClientUntil(r) = size
  <2>1. CASE version = "same"
    <3>1. r = FileResponse(RequestedRange(client.offset), size)
      BY <2>1 DEF Answer
    <3> QED  BY <1>3, <2>1, <3>1, RangeAnswer
  <2>2. CASE version # "same"
    <3>1. version \in {"other", "unknown"}
      BY <2>2 DEF IInv, Shape
    <3>2. r.status \in {404, 412}
      BY <3>1 DEF Answer, Refusal
    <3> QED  BY <3>2
  <2> QED  BY <2>1, <2>2
<1> HIDE DEF r
<1>7. Served' <=> r.status \in {200, 206}
  BY <1>1 DEF Served
<1>8. /\ Served' => server' = [at |-> "headers", pos |-> client.offset, left |-> r.length]
      /\ ~Served' => server' = [server EXCEPT !.at = "closed"]
  BY <1>1, <1>7
<1>9. server' \in [at : {"request", "headers", "body", "closed"},
                   pos : 0..MaxSize, left : 0..MaxSize]
  <2>1. CASE Served'
    BY <1>3, <1>6, <1>7, <1>8, <2>1
  <2>2. CASE ~Served'
    <3>1. server \in [at : {"request", "headers", "body", "closed"},
                     pos : 0..MaxSize, left : 0..MaxSize]
      BY DEF IInv, Shape
    <3> QED  BY <1>8, <2>2, <3>1
  <2> QED  BY <2>1, <2>2
<1>10. Shape'
  BY <1>2, <1>9 DEF IInv, Shape
<1>11. Answered'
  BY <1>2, <1>5, <1>6, <1>7, <1>8, <1>9 DEF IInv, Shape, Answered
<1>12. Agreed'
  BY <1>1, <1>2, <1>5, <1>6, <1>7 DEF Agreed
<1>13. InFlight'
  <2>1. Served' => /\ server'.pos = client.offset
                   /\ server'.left = size - client.offset
    BY <1>6, <1>7, <1>8
  <2>2. stream' = <<>> /\ Len(stream') = 0 /\ client' = client /\ size' = size
    BY <1>2, <1>5
  <2> QED  BY <1>3, <2>1, <2>2 DEF InFlight
<1>14. Aligned' /\ CompleteIsWhole'
  BY <1>2, <1>5 DEF IInv, Aligned, CompleteIsWhole
<1> QED
  BY <1>10, <1>11, <1>12, <1>13, <1>14 DEF IInv

\* The server enters its body, or gives up: no byte moves.
LEMMA ServerMoves ==
  ASSUME IInv, server.at # "request",
         NEW at \in {"body", "closed"}, at = "body" => Served,
         server' = [server EXCEPT !.at = at],
         UNCHANGED <<version, size, length, shareable, told, response, stream, client, local>>
  PROVE  IInv'
<1>1. /\ server'.at = at /\ server'.pos = server.pos /\ server'.left = server.left
      /\ server' \in [at : {"request", "headers", "body", "closed"},
                      pos : 0..MaxSize, left : 0..MaxSize]
  BY DEF IInv, Shape
<1> QED
  BY <1>1 DEF IInv, Shape, Answered, Agreed, InFlight, Aligned, CompleteIsWhole, Served

LEMMA StartBodyHolds == ASSUME IInv, StartBody  PROVE IInv'
  BY ServerMoves DEF StartBody, IInv, Answered

LEMMA EndBodyHolds == ASSUME IInv, EndBody  PROVE IInv'
  BY ServerMoves DEF EndBody

LEMMA SendTimeoutHolds == ASSUME IInv, SendTimeout  PROVE IInv'
  BY ServerMoves DEF SendTimeout

\* A chunk: the bytes from the server's place on go behind those in flight.
LEMMA SendChunkHolds == ASSUME IInv, SendChunk  PROVE IInv'
<1> USE TransferConstants
<1> DEFINE n == AtMost(AtMost(ChunkSize, server.left),
                       IF length > server.pos THEN length - server.pos ELSE 0)
           chunk == Bytes(server.pos, n)
<1>1. /\ server.at = "body" /\ server.left > 0
      /\ IF n = 0
         THEN server' = [server EXCEPT !.at = "closed"] /\ UNCHANGED stream
         ELSE /\ stream' = stream \o chunk
              /\ server' = [server EXCEPT !.pos = @ + n, !.left = @ - n]
  BY DEF SendChunk
<1>2. UNCHANGED <<version, size, length, shareable, told, response, client, local>>
  BY DEF SendChunk
<1>3. /\ server.pos \in Nat /\ server.left \in Nat /\ length \in Nat
      /\ client.offset \in Nat /\ stream \in Seq(Nat) /\ Len(stream) \in Nat
  BY LenProperties DEF IInv, Shape
<1>4. n \in Nat /\ n <= server.left
  BY <1>3 DEF AtMost
<1> HIDE DEF n
<1>5. CASE n = 0
  BY <1>1, <1>2, <1>5, ServerMoves
<1>6. CASE n # 0
  <2>1. Served /\ version = "same" /\ server.pos + server.left = size
    BY <1>1 DEF IInv, Answered, InFlight
  <2>2. /\ chunk \in Seq(Nat) /\ Len(chunk) = n
        /\ \A i \in 1..n : chunk[i] = server.pos + i
    <3>1. chunk = [i \in 1..n |-> server.pos + i]
      BY <2>1 DEF Bytes
    <3> HIDE DEF chunk
    <3> QED  BY <1>3, <1>4, <3>1
  <2>3. stream' = stream \o chunk
    BY <1>1, <1>6
  <2> HIDE DEF chunk
  <2>4. /\ stream' \in Seq(Nat) /\ Len(stream') = Len(stream) + n
        /\ \A j \in 1..(Len(stream) + n) :
              stream'[j] = IF j <= Len(stream) THEN stream[j] ELSE chunk[j - Len(stream)]
    BY <1>3, <2>2, <2>3, ConcatProperties
  <2>5. server' = [at |-> "body", pos |-> server.pos + n, left |-> server.left - n]
    BY <1>1, <1>6 DEF IInv, Shape
  <2>6. Served'
    BY <1>2, <2>1 DEF Served
  <2>7. Shape'
    BY <1>2, <1>3, <1>4, <2>1, <2>4, <2>5 DEF IInv, Shape
  <2>8. Answered' /\ Agreed'
    BY <1>2, <2>5, <2>6 DEF IInv, Answered, Agreed, Served
  <2>9. ASSUME client.at \in {"waiting", "reading"}, NEW j \in 1..(Len(stream) + n)
        PROVE  stream'[j] = client.offset + j
    <3>1. /\ server.pos = client.offset + Len(stream)
          /\ \A k \in 1..Len(stream) : stream[k] = client.offset + k
      BY <2>1, <2>9 DEF IInv, InFlight
    <3>2. CASE j <= Len(stream)
      BY <1>3, <2>4, <3>1, <3>2
    <3>3. CASE j > Len(stream)
      <4>1. j - Len(stream) \in 1..n
        BY <1>3, <1>4, <3>3
      <4>2. chunk[j - Len(stream)] = server.pos + (j - Len(stream))
        BY <2>2, <4>1
      <4> QED  BY <1>3, <1>4, <2>4, <3>1, <3>3, <4>2
    <3> QED  BY <1>3, <1>4, <3>2, <3>3
  <2>10. InFlight'
    <3>1. server'.pos = server.pos + n /\ server'.left = server.left - n
      BY <2>5
    <3>2. client.at \in {"waiting", "reading"} => server.pos = client.offset + Len(stream)
      BY <2>1 DEF IInv, InFlight
    <3> QED  BY <1>2, <1>3, <1>4, <2>1, <2>4, <2>9, <3>1, <3>2 DEF InFlight
  <2>11. Aligned' /\ CompleteIsWhole'
    BY <1>2 DEF IInv, Aligned, CompleteIsWhole
  <2> QED
    BY <2>7, <2>8, <2>10, <2>11 DEF IInv
<1> QED
  BY <1>5, <1>6
\* The client gives up: no byte moves.
LEMMA ClientFails ==
  ASSUME IInv, client.at \in {"waiting", "reading"},
         client' = [client EXCEPT !.at = "failed"],
         UNCHANGED <<version, size, length, shareable, told, server, response, stream, local>>
  PROVE  IInv'
<1>1. /\ client'.at = "failed" /\ client'.offset = client.offset
      /\ client' \in [at : {"waiting", "reading", "failed", "complete"},
                      offset : 0..(MaxSize + 1), until : 0..MaxSize]
  BY DEF IInv, Shape
<1> QED
  BY <1>1 DEF IInv, Shape, Answered, Agreed, InFlight, Aligned, CompleteIsWhole, Served

LEMMA ReceiveBreaksHolds == ASSUME IInv, ReceiveBreaks  PROVE IInv'
  BY ClientFails DEF ReceiveBreaks

\* The client learns where it resumes: where it asked to.
LEMMA ReadResponseHolds == ASSUME IInv, ReadResponse  PROVE IInv'
<1>1. /\ client.at = "waiting"
      /\ client' = IF Served
                   THEN [at |-> "reading", offset |-> ClientFrom(response),
                         until |-> ClientUntil(response)]
                   ELSE [client EXCEPT !.at = "failed"]
  BY DEF ReadResponse, Served
<1>2. UNCHANGED <<version, size, length, shareable, told, server, response, stream, local>>
  BY DEF ReadResponse
<1>3. client.offset \in Nat /\ size \in 0..MaxSize
  BY DEF IInv, Shape
<1>4. CASE Served
  <2>1. client' = [at |-> "reading", offset |-> client.offset, until |-> size]
    BY <1>1, <1>4 DEF IInv, Agreed
  <2>2. client.offset <= size
    BY <1>1, <1>4 DEF IInv, Agreed
  <2>3. client' \in [at : {"waiting", "reading", "failed", "complete"},
                    offset : 0..(MaxSize + 1), until : 0..MaxSize]
    BY TransferConstants, <1>3, <2>1, <2>2
  <2>4. client'.at = "reading" /\ client'.offset = client.offset /\ client'.until = size
    BY <2>1
  <2>5. Shape' /\ Answered'
    BY <1>2, <1>4, <2>3, <2>4 DEF IInv, Shape, Answered, Served
  <2>6. Agreed' /\ InFlight'
    BY <1>1, <1>2, <1>4, <2>2, <2>4 DEF IInv, Agreed, InFlight, Served
  <2>7. Aligned' /\ CompleteIsWhole'
    BY <1>2, <2>4 DEF IInv, Aligned, CompleteIsWhole
  <2> QED  BY <2>5, <2>6, <2>7 DEF IInv
<1>5. CASE ~Served
  <2>1. client' = [client EXCEPT !.at = "failed"]
    BY <1>1, <1>5
  <2> QED  BY <1>1, <1>2, <2>1, ClientFails
<1> QED
  BY <1>4, <1>5

\* Bytes taken from the front of the stream land at the client's offset.
LEMMA ReadBytesHolds ==
  ASSUME IInv, NEW n \in 1..ChunkSize, ReadBytes(n)
  PROVE  IInv'
<1> USE TransferConstants
<1> DEFINE bytes == SubSeq(stream, 1, n)
<1>1. /\ client.at = "reading" /\ client.offset < client.until
      /\ n <= Len(stream) /\ n <= client.until - client.offset
      /\ local' = Overwritten(local, client.offset, bytes)
      /\ stream' = SubSeq(stream, n + 1, Len(stream))
      /\ client' = [client EXCEPT !.offset = @ + n]
  BY DEF ReadBytes
<1>2. UNCHANGED <<version, size, length, shareable, told, server, response>>
  BY DEF ReadBytes
<1>3. /\ n \in Nat /\ n > 0 /\ Len(stream) \in Nat /\ stream \in Seq(Nat)
      /\ local \in Seq(Nat) /\ Len(local) >= client.offset
      /\ client.offset \in Nat /\ client.until \in 0..MaxSize /\ size \in 0..MaxSize
  BY LenProperties DEF IInv, Shape
<1>4. /\ bytes \in Seq(Nat) /\ Len(bytes) = n
      /\ \A i \in 1..n : bytes[i] = stream[i]
  BY <1>1, <1>3, CutHas
<1>5. /\ stream' \in Seq(Nat) /\ Len(stream') = Len(stream) - n
      /\ \A j \in 1..(Len(stream) - n) : stream'[j] = stream[n + j]
  BY <1>1, <1>3, RestHas
<1> HIDE DEF bytes
<1>6. /\ client'.at = "reading" /\ client'.offset = client.offset + n
      /\ client'.until = client.until
      /\ client' \in [at : {"waiting", "reading", "failed", "complete"},
                      offset : 0..(MaxSize + 1), until : 0..MaxSize]
  <2>1. client \in [at : {"waiting", "reading", "failed", "complete"},
                   offset : 0..(MaxSize + 1), until : 0..MaxSize]
    BY DEF IInv, Shape
  <2>2. client' = [at |-> "reading", offset |-> client.offset + n, until |-> client.until]
    BY <1>1, <2>1
  <2>3. client.offset + n \in 0..(MaxSize + 1)
    <3>1. client.offset + n <= client.until /\ client.until <= MaxSize
      BY <1>1, <1>3
    <3> QED  BY <1>3, <3>1
  <2> QED  BY <1>3, <2>2, <2>3
<1>7. /\ local' \in Seq(Nat) /\ Len(local') >= client.offset + n
      /\ \A i \in 1..client.offset : local'[i] = local[i]
      /\ \A i \in (client.offset + 1)..(client.offset + n) :
            local'[i] = bytes[i - client.offset]
  <2>1. local' = Overwritten(local, client.offset, bytes)
    BY <1>1
  <2>2. /\ local' \in Seq(Nat) /\ Len(local') >= client.offset + Len(bytes)
        /\ \A i \in 1..client.offset : local'[i] = local[i]
        /\ \A i \in (client.offset + 1)..(client.offset + Len(bytes)) :
              local'[i] = bytes[i - client.offset]
    <3> DEFINE old == local
               new == local'
               offset == client.offset
    <3>1. offset <= Len(old)
      BY <1>3, LenProperties
    <3>2. old \in Seq(Nat) /\ bytes \in Seq(Nat) /\ offset \in Nat
      BY <1>3, <1>4
    <3>3. new = Overwritten(old, offset, bytes)
      BY <2>1
    <3> HIDE DEF old, new, offset
    <3> DEFINE written == Overwritten(old, offset, bytes)
    <3>4. /\ written \in Seq(Nat) /\ Len(written) >= offset + Len(bytes)
          /\ \A i \in 1..offset : written[i] = old[i]
          /\ \A i \in (offset + 1)..(offset + Len(bytes)) : written[i] = bytes[i - offset]
      BY <3>1, <3>2, OverwrittenHas, Zenon
    <3> HIDE DEF written
    <3>5. new = written
      BY <3>3 DEF written
    <3> QED  BY <3>4, <3>5 DEF old, new, offset
  <2> QED  BY <1>4, <2>2
<1>8. Served /\ client.until = size
  BY <1>1 DEF IInv, Answered, Agreed
<1>9. /\ server.pos = client.offset + Len(stream)
      /\ \A j \in 1..Len(stream) : stream[j] = client.offset + j
      /\ server.pos + server.left = size
  BY <1>1, <1>8 DEF IInv, InFlight
<1>10. Shape'
  BY <1>2, <1>5, <1>6, <1>7 DEF IInv, Shape
<1>11. Answered' /\ Agreed'
  BY <1>1, <1>2, <1>3, <1>6, <1>8 DEF IInv, Answered, Agreed, Served
<1>12. InFlight'
  <2>1. \A j \in 1..Len(stream') : stream'[j] = (client.offset + n) + j
    <3>1. SUFFICES ASSUME NEW j \in 1..(Len(stream) - n)
                   PROVE  stream'[j] = (client.offset + n) + j
      BY <1>5
    <3>2. n + j \in 1..Len(stream)
      <4>1. n \in Nat /\ Len(stream) \in Nat /\ n <= Len(stream)
        BY <1>1, <1>3
      <4> QED  BY <4>1
    <3>3. stream'[j] = stream[n + j]
      BY <1>5
    <3>4. stream[n + j] = client.offset + (n + j)
      BY <1>9, <3>2
    <3> QED  BY <1>3, <3>3, <3>4
  <2>2. server.pos = (client.offset + n) + Len(stream')
    BY <1>3, <1>5, <1>9
  <2> QED  BY <1>2, <1>6, <1>9, <2>1, <2>2 DEF InFlight
<1>13. Aligned'
  <2>1. ASSUME NEW i \in 1..(client.offset + n)  PROVE local'[i] = i
    <3>1. CASE i <= client.offset
      <4>1. i \in 1..client.offset
        BY <1>3, <3>1
      <4>2. local'[i] = local[i]
        BY <1>7, <4>1
      <4>3. local[i] = i
        BY <4>1 DEF IInv, Aligned
      <4> QED  BY <4>2, <4>3
    <3>2. CASE i > client.offset
      <4>1. i \in (client.offset + 1)..(client.offset + n) /\ i - client.offset \in 1..n
        BY <1>3, <3>2
      <4>2. local'[i] = bytes[i - client.offset]
        BY <1>7, <4>1
      <4>3. bytes[i - client.offset] = stream[i - client.offset]
        BY <1>4, <4>1
      <4>4. i - client.offset \in 1..Len(stream)
        BY <1>1, <1>3, <4>1
      <4>5. stream[i - client.offset] = client.offset + (i - client.offset)
        BY <1>9, <4>4
      <4> QED  BY <1>3, <4>2, <4>3, <4>5
    <3> QED  BY <1>3, <3>1, <3>2
  <2> QED  BY <1>6, <2>1 DEF Aligned
<1>14. CompleteIsWhole'
  BY <1>6 DEF CompleteIsWhole
<1> QED
  BY <1>10, <1>11, <1>12, <1>13, <1>14 DEF IInv

\* The file is cut where the client stopped, and complete only if that is its end.
LEMMA LeaveLoopHolds == ASSUME IInv, LeaveLoop  PROVE IInv'
<1> USE TransferConstants
<1>1. /\ client.at = "reading"
      /\ local' = SubSeq(local, 1, client.offset)
      /\ client' = [client EXCEPT !.at = Outcome(client.offset, client.until)]
  BY DEF LeaveLoop
<1>2. UNCHANGED <<version, size, length, shareable, told, server, response, stream>>
  BY DEF LeaveLoop
<1>3. /\ local \in Seq(Nat) /\ client.offset \in Nat /\ client.offset <= Len(local)
      /\ client.until \in Nat /\ size \in Nat
  BY DEF IInv, Shape
<1>4. /\ local' \in Seq(Nat) /\ Len(local') = client.offset
      /\ \A i \in 1..client.offset : local'[i] = local[i]
  BY <1>1, <1>3, CutHas
<1>5. Served /\ client.until = size /\ client.offset <= size
  BY <1>1 DEF IInv, Answered, Agreed
<1>6. /\ client'.offset = client.offset
      /\ client'.at = Outcome(client.offset, client.until)
      /\ client'.at \in {"failed", "complete"}
      /\ client' \in [at : {"waiting", "reading", "failed", "complete"},
                      offset : 0..(MaxSize + 1), until : 0..MaxSize]
  BY <1>1 DEF IInv, Shape, Outcome
<1>7. \A i \in 1..client.offset : local'[i] = i
  BY <1>4 DEF IInv, Aligned
<1>8. Shape'
  BY <1>2, <1>3, <1>4, <1>6 DEF IInv, Shape
<1>9. Answered' /\ Agreed' /\ InFlight'
  BY <1>2, <1>5, <1>6 DEF IInv, Answered, Agreed, InFlight, Served
<1>10. Aligned'
  BY <1>6, <1>7 DEF Aligned
<1>11. CompleteIsWhole'
  <2>1. SUFFICES ASSUME client'.at = "complete"  PROVE local' = Prefix(size)
    BY <1>2 DEF CompleteIsWhole
  <2>2. client.offset = size
    BY <1>3, <1>5, <1>6, <2>1 DEF Outcome
  <2>3. Prefix(size) \in Seq(Nat) /\ Len(Prefix(size)) = size
        /\ \A i \in 1..size : Prefix(size)[i] = i
    BY <1>3 DEF Prefix
  <2> QED  BY <1>4, <1>7, <2>2, <2>3, SeqEqual
<1> QED
  BY <1>8, <1>9, <1>10, <1>11 DEF IInv

\* The file changes on the server's disk, or is no longer shared.
LEMMA FileChangesHolds == ASSUME IInv, FileShrinks \/ FileLost  PROVE IInv'
<1>1. UNCHANGED <<version, size, server, response, stream, client, local>>
  BY DEF FileShrinks, FileLost
<1>2. length' \in 0..size
  BY DEF FileShrinks, FileLost, IInv, Shape
<1>3. shareable' \in BOOLEAN /\ told' \in BOOLEAN
  BY Zenon DEF FileShrinks, FileLost, IInv, Shape
<1> QED
  BY <1>1, <1>2, <1>3 DEF IInv, Shape, Answered, Agreed, InFlight, Aligned, CompleteIsWhole, Served

LEMMA StepHolds == IInv /\ [Next]_vars => IInv'
<1> SUFFICES ASSUME IInv, [Next]_vars  PROVE IInv'
  OBVIOUS
<1>1. CASE ServerStep
  BY <1>1, HandleRequestHolds, StartBodyHolds, SendChunkHolds, EndBodyHolds DEF ServerStep
<1>2. CASE ClientStep \/ StopReceiving
  BY <1>2, ReadResponseHolds, ReadBytesHolds, LeaveLoopHolds
  DEF ClientStep, EndContent, StopReceiving
<1>3. CASE SendTimeout
  BY <1>3, SendTimeoutHolds
<1>4. CASE FileShrinks \/ FileLost
  BY <1>4, FileChangesHolds
<1>5. CASE ReceiveBreaks
  BY <1>5, ReceiveBreaksHolds
<1>6. CASE UNCHANGED vars
  BY <1>6 DEF vars, IInv, Shape, Answered, Agreed, InFlight, Aligned, CompleteIsWhole, Served
<1> QED
  BY <1>1, <1>2, <1>3, <1>4, <1>5, <1>6 DEF Next

LEMMA Inductive == Spec => []IInv
  BY InitHolds, StepHolds, PTL DEF Spec

-----------------------------------------------------------------------------
(* Theorems *)

\* No length the server announces or counts down, and no offset of the client,
\* leaves the file.
THEOREM TypeCorrect == Spec => []TypeOK
<1>1. IInv => TypeOK
  BY DEF IInv, Shape, TypeOK
<1> QED
  BY <1>1, Inductive, PTL

\* FileResponse and handle_content agree where a resumed download goes on.
THEOREM BytesAreAligned == Spec => []Aligned
<1>1. IInv => Aligned
  BY DEF IInv
<1> QED
  BY <1>1, Inductive, PTL

\* Neither end of _write_body and handle_content waits for bytes that the
\* other does not mean to send.
THEOREM BytesAreConserved == Spec => []Conserved
<1>1. IInv => Conserved
  <2>1. SUFFICES ASSUME IInv, client.at = "reading"
                 PROVE  client.offset + Len(stream) + server.left = client.until
    BY DEF Conserved
  <2>2. Served /\ client.until = size
    BY <2>1 DEF IInv, Answered, Agreed
  <2>3. server.pos = client.offset + Len(stream) /\ server.pos + server.left = size
    BY <2>1, <2>2 DEF IInv, InFlight
  <2> QED  BY <2>2, <2>3
<1> QED
  BY <1>1, Inductive, PTL

\* What handle_content takes for a whole file is one.
THEOREM WholeWhenComplete == Spec => []CompleteIsWhole
<1>1. IInv => CompleteIsWhole
  BY DEF IInv
<1> QED
  BY <1>1, Inductive, PTL

-----------------------------------------------------------------------------
(* Every step counts *)

Measured ==
    /\ ToSend \in Nat /\ ToRead \in Nat /\ Len(stream) \in Nat
    /\ server.left \in Nat /\ server.left <= MaxSize

LEMMA RestIsMeasured == ASSUME IInv  PROVE Measured
<1>1. server.left \in 0..MaxSize /\ Len(stream) \in Nat
  BY LenProperties DEF IInv, Shape
<1>2. server.at \in {"request", "headers", "body", "closed"}
  BY DEF IInv, Shape
<1>3. client.at \in {"waiting", "reading", "failed", "complete"}
  BY DEF IInv, Shape
<1>4. ToSend \in Nat
  BY <1>1, <1>2, TransferConstants DEF ToSend
<1>5. ToRead \in Nat
  BY <1>3 DEF ToRead
<1> QED
  BY <1>1, <1>4, <1>5, TransferConstants DEF Measured

\* A step of the server takes from what it has to send, and puts at most that
\* in flight.
LEMMA ServerCounts ==
  ASSUME IInv, Measured', ServerStep \/ SendTimeout
  PROVE  Rest' < Rest
<1> USE TransferConstants
<1>1. /\ ToSend \in Nat /\ ToRead \in Nat /\ Len(stream) \in Nat
      /\ server.left \in Nat /\ server.left <= MaxSize
  BY RestIsMeasured DEF Measured
<1>2. /\ ToSend' \in Nat /\ Len(stream') \in Nat
      /\ server'.left \in Nat /\ server'.left <= MaxSize
  BY DEF Measured
<1>3. server \in [at : {"request", "headers", "body", "closed"},
                 pos : 0..MaxSize, left : 0..MaxSize]
  BY DEF IInv, Shape
<1>4. client' = client /\ ToRead' = ToRead
  BY DEF ServerStep, HandleRequest, StartBody, SendChunk, EndBody, SendTimeout, ToRead
<1>5. SUFFICES ToSend' + Len(stream') < ToSend + Len(stream)
  BY <1>1, <1>2, <1>4 DEF Rest
<1>6. ASSUME server'.at = "closed", server.at # "closed", stream' = stream
      PROVE  ToSend' + Len(stream') < ToSend + Len(stream)
  BY <1>1, <1>3, <1>6 DEF ToSend
<1>7. CASE HandleRequest
  <2>1. server.at = "request" /\ stream' = stream
    BY <1>7 DEF HandleRequest
  <2>2. server'.at \in {"headers", "closed"}
    BY <1>3, <1>7 DEF HandleRequest
  <2>3. CASE server'.at = "headers"
    BY <1>1, <1>2, <2>1, <2>3 DEF ToSend
  <2> QED  BY <1>6, <2>1, <2>2, <2>3
<1>8. CASE StartBody
  <2>1. server.at = "headers" /\ stream' = stream /\ server'.left = server.left
    BY <1>3, <1>8 DEF StartBody
  <2>2. server'.at \in {"body", "closed"}
    BY <1>3, <1>8 DEF StartBody
  <2>3. CASE server'.at = "body"
    BY <1>1, <2>1, <2>3 DEF ToSend
  <2> QED  BY <1>6, <2>1, <2>2, <2>3
<1>9. CASE SendChunk
  <2> DEFINE n == AtMost(AtMost(ChunkSize, server.left),
                         IF length > server.pos THEN length - server.pos ELSE 0)
             chunk == Bytes(server.pos, n)
  <2>1. /\ server.at = "body"
        /\ IF n = 0
           THEN server' = [server EXCEPT !.at = "closed"] /\ UNCHANGED stream
           ELSE /\ stream' = stream \o chunk
                /\ server' = [server EXCEPT !.pos = @ + n, !.left = @ - n]
    BY <1>9 DEF SendChunk
  <2>2. n \in Nat /\ n <= server.left
    <3>1. server.pos \in Nat /\ length \in Nat
      BY <1>3 DEF IInv, Shape
    <3> QED  BY <1>1, <3>1 DEF AtMost
  <2> HIDE DEF n
  <2>3. CASE n = 0
    <3>1. server' = [server EXCEPT !.at = "closed"] /\ stream' = stream
      BY <2>1, <2>3
    <3>2. server'.at = "closed"
      BY <1>3, <3>1
    <3> QED  BY <1>6, <2>1, <3>1, <3>2
  <2>4. CASE n # 0
    <3>1. chunk \in Seq(Nat) /\ Len(chunk) = n
      <4>1. server.pos \in Nat
        BY <1>3
      <4>2. chunk = [i \in 1..n |-> IF version = "same" THEN server.pos + i ELSE 0]
        BY DEF Bytes
      <4> HIDE DEF chunk
      <4> QED  BY <2>2, <4>1, <4>2
    <3>2. Len(stream') = Len(stream) + n
      <4>1. stream' = stream \o chunk /\ stream \in Seq(Nat)
        BY <2>1, <2>4 DEF IInv, Shape
      <4> HIDE DEF chunk
      <4> QED  BY <3>1, <4>1, ConcatProperties
    <3>3. server'.at = "body" /\ server'.left = server.left - n
      BY <1>3, <2>1, <2>4
    <3>4. ToSend = 2 * server.left + 1
      BY <2>1 DEF ToSend
    <3>5. ToSend' = 2 * (server.left - n) + 1
      BY <3>3 DEF ToSend
    <3>6. n \in Nat /\ n # 0 /\ server.left \in Nat /\ Len(stream) \in Nat
      BY <1>1, <2>2, <2>4
    <3> HIDE DEF chunk
    <3> QED  BY <3>2, <3>4, <3>5, <3>6
  <2> QED  BY <2>3, <2>4
<1>10. CASE EndBody \/ SendTimeout
  <2>1. server.at = "body" /\ stream' = stream /\ server'.at = "closed"
    BY <1>3, <1>10 DEF EndBody, SendTimeout
  <2> QED  BY <1>6, <2>1
<1> QED
  BY <1>7, <1>8, <1>9, <1>10 DEF ServerStep

\* A step of the client takes from what is in flight, or is one of its last two.
LEMMA ClientCounts ==
  ASSUME IInv, Measured', ClientStep \/ StopReceiving \/ ReceiveBreaks
  PROVE  Rest' < Rest
<1> USE TransferConstants
<1>1. ToSend \in Nat /\ ToRead \in Nat /\ Len(stream) \in Nat
  BY RestIsMeasured DEF Measured
<1>2. ToSend' = ToSend
  BY DEF ClientStep, ReadResponse, ReadBytes, EndContent, StopReceiving, LeaveLoop,
         ReceiveBreaks, ToSend
<1>3. client \in [at : {"waiting", "reading", "failed", "complete"},
                 offset : 0..(MaxSize + 1), until : 0..MaxSize]
  BY DEF IInv, Shape
<1>4. CASE ReadResponse
  <2>1. client.at = "waiting" /\ stream' = stream
    BY <1>4 DEF ReadResponse
  <2>2. client'.at \in {"reading", "failed"}
    BY <1>3, <1>4 DEF ReadResponse
  <2>3. ToRead = 2 /\ ToRead' \in {0, 1}
    BY <2>1, <2>2 DEF ToRead
  <2> QED  BY <1>1, <1>2, <2>1, <2>3 DEF Rest
<1>5. ASSUME NEW n \in 1..ChunkSize, ReadBytes(n)
      PROVE  Rest' < Rest
  <2>1. /\ n \in Nat /\ n <= Len(stream)
        /\ stream' = SubSeq(stream, n + 1, Len(stream))
    BY <1>5 DEF ReadBytes
  <2>2. Len(stream') = Len(stream) - n
    <3>1. stream \in Seq(Nat)
      BY DEF IInv, Shape
    <3> QED  BY <2>1, <3>1, RestHas
  <2>3. ToRead' = ToRead
    <3>1. client'.at = client.at
      BY <1>3, <1>5 DEF ReadBytes
    <3> QED  BY <3>1 DEF ToRead
  <2> QED  BY <1>1, <1>2, <1>5, <2>1, <2>2, <2>3 DEF Rest
<1>6. CASE LeaveLoop \/ ReceiveBreaks
  <2>1. client.at \in {"waiting", "reading"} /\ stream' = stream
    BY <1>6 DEF LeaveLoop, ReceiveBreaks
  <2>2. client'.at \in {"failed", "complete"}
    BY <1>3, <1>6 DEF LeaveLoop, ReceiveBreaks, Outcome
  <2>3. ToRead \in {1, 2} /\ ToRead' = 0
    BY <2>1, <2>2 DEF ToRead
  <2> QED  BY <1>1, <1>2, <2>1, <2>3 DEF Rest
<1> QED
  BY <1>4, <1>5, <1>6 DEF ClientStep, EndContent, StopReceiving

\* Each turn of _write_body and of handle_content uses up a part of the
\* transfer, which nothing else gives back: whatever the size of the file and
\* of the chunks, the two loops end.
THEOREM TransfersRunOut == Spec => EveryStepCounts
<1>1. ASSUME IInv, Measured', [Next]_vars
      PROVE  [ /\ Rest' <= Rest
               /\ ServerStep \/ ClientStep => Rest' < Rest ]_vars
  <2>1. Rest \in Int
    BY <1>1, RestIsMeasured DEF Rest, Measured
  <2>2. CASE ServerStep \/ SendTimeout \/ ClientStep \/ StopReceiving \/ ReceiveBreaks
    <3>1. Rest' < Rest
      BY <1>1, <2>2, ServerCounts, ClientCounts
    <3>2. Rest' \in Int
      BY <1>1 DEF Rest, Measured
    <3> QED  BY <2>1, <3>1, <3>2
  <2>3. CASE ~(ServerStep \/ ClientStep) /\ (FileShrinks \/ FileLost)
    <3>1. UNCHANGED <<server, stream, client>>
      BY <2>3 DEF FileShrinks, FileLost
    <3>2. Rest' = Rest
      BY <3>1 DEF Rest, ToSend, ToRead
    <3> QED  BY <2>1, <2>3, <3>2
  <2> QED  BY <1>1, <2>2, <2>3 DEF Next
<1>2. IInv => Measured
  BY RestIsMeasured
<1> QED
  BY <1>1, <1>2, Inductive, PTL DEF Spec, EveryStepCounts

-----------------------------------------------------------------------------
(* The refinement of Fetch *)

FirstPart == SubSeq(local, 1, client.offset)

Mapped == IF client.at \in {"failed", "complete"} THEN client.at ELSE "running"

Counted == FirstPart = F!FirstBytes(client.offset)

\* What is counted is the first part of the file.
LEMMA CountedIsPrefix ==
  ASSUME NEW held \in Seq(Nat), NEW k \in Nat, k <= Len(held),
         \A i \in 1..k : held[i] = i
  PROVE  /\ SubSeq(held, 1, k) = F!FirstBytes(k)
         /\ Len(F!FirstBytes(k)) = k
<1>1. /\ SubSeq(held, 1, k) \in Seq(Nat) /\ Len(SubSeq(held, 1, k)) = k
      /\ \A i \in 1..k : SubSeq(held, 1, k)[i] = held[i]
  BY CutHas
<1>2. /\ F!FirstBytes(k) \in Seq(Nat) /\ Len(F!FirstBytes(k)) = k
      /\ \A i \in 1..k : F!FirstBytes(k)[i] = i
  BY DEF F!FirstBytes
<1> DEFINE cut == SubSeq(held, 1, k)
<1> HIDE DEF cut
<1>3. cut = F!FirstBytes(k)
  BY <1>1, <1>2, SeqEqual DEF cut
<1> QED
  BY <1>2, <1>3 DEF cut

LEMMA FirstPartCounted ==
  ASSUME IInv
  PROVE  Counted /\ Len(FirstPart) = client.offset
<1> DEFINE held == local
           k == client.offset
<1>1. held \in Seq(Nat) /\ Len(held) >= k
  BY DEF IInv, Shape
<1>2. k \in Nat
  BY TransferConstants DEF IInv, Shape
<1>3. \A i \in 1..k : held[i] = i
  BY DEF IInv, Aligned
<1>4. k <= Len(held)
  BY <1>1, <1>2, LenProperties
<1> HIDE DEF held, k
<1>5. SubSeq(held, 1, k) = F!FirstBytes(k) /\ Len(F!FirstBytes(k)) = k
  BY <1>1, <1>2, <1>3, <1>4, CountedIsPrefix
<1> QED
  BY <1>5 DEF Counted, FirstPart, held, k

LEMMA StartsAsFetch == Init => F!Init
<1> SUFFICES ASSUME Init  PROVE F!Init
  OBVIOUS
<1>1. IInv
  BY InitHolds
<1>2. client.at = "waiting" /\ client.offset \in 0..(MaxSize + 1) /\ size \in 0..MaxSize
  BY DEF Init
<1>3. FirstPart = F!FirstBytes(client.offset)
  BY <1>1, FirstPartCounted DEF Counted
<1>4. Mapped = "running"
  BY <1>2 DEF Mapped
<1> QED
  BY <1>2, <1>3, <1>4 DEF F!Init, FirstPart, Mapped

LEMMA StepsAsFetch ==
  ASSUME IInv, Counted', [Next]_vars
  PROVE  [F!Next]_(F!fetchVars)
<1>1. /\ FirstPart = F!FirstBytes(client.offset)
      /\ Len(FirstPart) = client.offset
      /\ client.offset \in Nat /\ size \in Nat
  BY FirstPartCounted, TransferConstants DEF Counted, IInv, Shape
<1>2. FirstPart' = F!FirstBytes(client'.offset)
  BY DEF Counted
<1>3. client \in [at : {"waiting", "reading", "failed", "complete"},
                  offset : 0..(MaxSize + 1), until : 0..MaxSize]
  BY DEF IInv, Shape
<1>4. ASSUME UNCHANGED <<size, client>>
      PROVE  UNCHANGED F!fetchVars
  <2>1. FirstPart' = FirstPart /\ Mapped' = Mapped
    BY <1>1, <1>2, <1>4 DEF Mapped
  <2> QED  BY <1>4, <2>1 DEF F!fetchVars, FirstPart, Mapped
<1>5. CASE ServerStep \/ SendTimeout \/ FileShrinks \/ FileLost \/ UNCHANGED vars
  <2>1. UNCHANGED <<size, client>>
    BY <1>5 DEF ServerStep, HandleRequest, StartBody, SendChunk, EndBody, SendTimeout,
                FileShrinks, FileLost, vars
  <2> QED  BY <1>4, <2>1
<1>6. ASSUME size' = size, client'.offset = client.offset,
             client.at \in {"waiting", "reading"}, client'.at = "failed"
      PROVE  F!Fail
  <2>1. FirstPart' = FirstPart
    BY <1>1, <1>2, <1>6
  <2>2. Mapped = "running" /\ Mapped' = "failed"
    BY <1>6 DEF Mapped
  <2> QED  BY <1>6, <2>1, <2>2 DEF F!Fail, FirstPart, Mapped
<1>7. CASE ReceiveBreaks
  <2>1. client' = [client EXCEPT !.at = "failed"] /\ size' = size
    BY <1>7 DEF ReceiveBreaks
  <2> QED  BY <1>3, <1>6, <1>7, <2>1 DEF ReceiveBreaks, F!Next
<1>8. CASE ReadResponse
  <2>1. client.at = "waiting" /\ size' = size
    BY <1>8 DEF ReadResponse
  <2>2. CASE response.status \in {200, 206}
    <3>1. /\ client' = [at |-> "reading", offset |-> ClientFrom(response),
                        until |-> ClientUntil(response)]
          /\ ClientFrom(response) = client.offset
      BY <1>8, <2>1, <2>2 DEF ReadResponse, IInv, Agreed, Served
    <3>2. FirstPart' = FirstPart /\ Mapped' = Mapped
      BY <1>1, <1>2, <2>1, <3>1 DEF Mapped
    <3> QED  BY <2>1, <3>2 DEF F!fetchVars, FirstPart, Mapped
  <2>3. CASE response.status \notin {200, 206}
    <3>1. client' = [client EXCEPT !.at = "failed"]
      BY <1>8, <2>3 DEF ReadResponse
    <3> QED  BY <1>3, <1>6, <2>1, <3>1 DEF F!Next
  <2> QED  BY <2>2, <2>3
<1>9. ASSUME NEW n \in 1..ChunkSize, ReadBytes(n)
      PROVE  F!Grow
  <2>1. /\ client.at = "reading" /\ client.offset < client.until
        /\ n <= client.until - client.offset
        /\ client' = [client EXCEPT !.offset = @ + n] /\ size' = size
    BY <1>9 DEF ReadBytes
  <2>2. client'.offset = client.offset + n /\ client'.at = "reading"
    BY <1>3, <2>1
  <2>3. client.until = size
    BY <2>1 DEF IInv, Agreed
  <2>4. client'.offset \in (Len(FirstPart) + 1)..size
    BY <1>1, <1>2, <2>1, <2>2, <2>3, TransferConstants
  <2>5. Mapped = "running" /\ Mapped' = "running"
    BY <2>1, <2>2 DEF Mapped
  <2> QED  BY <1>2, <2>1, <2>4, <2>5 DEF F!Grow, FirstPart, Mapped
<1>10. CASE LeaveLoop
  <2>1. /\ client.at = "reading" /\ size' = size
        /\ client' = [client EXCEPT !.at = Outcome(client.offset, client.until)]
    BY <1>10 DEF LeaveLoop
  <2>2. client'.at = Outcome(client.offset, client.until) /\ client'.offset = client.offset
    BY <1>3, <2>1
  <2>3. client.until = size /\ client.offset <= size
    BY <2>1 DEF IInv, Agreed
  <2>4. CASE client.offset < client.until
    BY <1>6, <2>1, <2>2, <2>4 DEF Outcome, F!Next
  <2>5. CASE ~(client.offset < client.until)
    <3>1. client'.at = "complete" /\ client.offset = size
      BY <1>1, <2>2, <2>3, <2>5 DEF Outcome
    <3>2. FirstPart' = FirstPart /\ Mapped = "running" /\ Mapped' = "complete"
      BY <1>1, <1>2, <2>1, <2>2, <3>1 DEF Mapped
    <3> QED  BY <1>1, <2>1, <3>1, <3>2 DEF F!Complete, F!Next, FirstPart, Mapped
  <2> QED  BY <2>4, <2>5
<1> QED
  BY <1>5, <1>7, <1>8, <1>9, <1>10
  DEF Next, ClientStep, EndContent, StopReceiving, F!Next

\* One TCP transfer, with its headers, ranges, chunks and broken connections,
\* is a Fetch: what context.update reports only grows, by the right bytes.
THEOREM TransferIsFetch == Spec => Fetches
<1>1. IInv => Counted
  BY FirstPartCounted
<1>2. IInv /\ Counted' /\ [Next]_vars => [F!Next]_(F!fetchVars)
  BY StepsAsFetch
<1> QED
  BY <1>1, <1>2, StartsAsFetch, Inductive, PTL DEF Spec, Fetches, F!Spec

=============================================================================
