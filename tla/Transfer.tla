-------------------------------- MODULE Transfer -------------------------------
(***************************************************************************)
(* One transfer of a file over one TCP connection: ServerHandler and       *)
(* FileResponse on the serving node, ClientHandler on the downloading one. *)
(*                                                                         *)
(* A byte is known by its position in the served file, so what the client  *)
(* writes tells where it came from.  The stream is reliable and in order   *)
(* until an end closes or the connection breaks; the client reads what has *)
(* arrived, in pieces of any size.  While it is served, the file may       *)
(* shrink on disk, be removed from the repository or become unshareable.   *)
(***************************************************************************)
EXTENDS Ranges, Sequences

CONSTANTS
    MaxSize,    \* bounds the size of the file
    ChunkSize   \* FILE_CHUNK_SIZE of both ends

ASSUME TransferConstants == MaxSize \in Nat /\ ChunkSize \in Nat \ {0}

VARIABLES
    version,    \* what the server has under the name: the file with the digest
                \* that the client asks for, an "other" one, or none
    size,       \* FileMetadata.size at the server
    length,     \* what is on the server's disk
    shareable,  \* can_share at the server
    told,       \* the consumer context was told to stop
    server,     \* the serving coroutine
    response,   \* the headers in flight
    stream,     \* the body bytes in flight
    client,     \* the downloading coroutine
    local       \* the client's file: at each position, the byte it holds, or
                \* 0 for one it did not get from the served file

vars == <<version, size, length, shareable, told, server, response, stream, client, local>>

-----------------------------------------------------------------------------

NoResponse == [status |-> 0, length |-> None, from |-> None, full |-> None]

AtMost(m, n) == IF m < n THEN m ELSE n

Prefix(n) == [i \in 1..n |-> i]

\* n bytes of what the server has under the name.
Bytes(pos, n) == [i \in 1..n |-> IF version = "same" THEN pos + i ELSE 0]

\* What the client writes at an offset that is not past the end of its file.
Overwritten(file, offset, bytes) ==
    [i \in 1..(IF offset + Len(bytes) > Len(file) THEN offset + Len(bytes) ELSE Len(file)) |->
        IF i \in (offset + 1)..(offset + Len(bytes)) THEN bytes[i - offset] ELSE file[i]]

-----------------------------------------------------------------------------
(* The server *)

\* handle_request and the headers.  An error status comes without a body.
HandleRequest ==
    /\ server.at = "request"
    /\ LET r == Answer(RequestedRange(client.offset), version, size)
       IN  /\ response' = r
           /\ server' = IF r.status \in {200, 206}
                        THEN [at |-> "headers", pos |-> client.offset, left |-> r.length]
                        ELSE [server EXCEPT !.at = "closed"]
    /\ UNCHANGED <<version, size, length, shareable, told, stream, client, local>>

\* _write_body enters the consumer context: can_share is tested only now.
StartBody ==
    /\ server.at = "headers"
    /\ server' = [server EXCEPT !.at = IF shareable THEN "body" ELSE "closed"]
    /\ UNCHANGED <<version, size, length, shareable, told, response, stream, client, local>>

Resending ==    \* mutant: to_read is not counted down
    /\ server.at = "body"
    /\ server.left > 0 /\ ~told
    /\ LET n == AtMost(AtMost(ChunkSize, server.left), length)
       IN  IF n = 0
           THEN /\ server' = [server EXCEPT !.at = "closed"]
                /\ UNCHANGED stream
           ELSE /\ Len(stream) < 2 * MaxSize    \* mutant's bound
                /\ stream' = stream \o Bytes(0, n)
                /\ UNCHANGED server
    /\ UNCHANGED <<version, size, length, shareable, told, response, client, local>>

\* One chunk, or what the disk has of it; nothing read is an inconsistent file.
SendChunk ==
    /\ server.at = "body"
    /\ server.left > 0 /\ ~told
    /\ LET n == AtMost(AtMost(ChunkSize, server.left),
                       IF length > server.pos THEN length - server.pos ELSE 0)
       IN  IF n = 0
           THEN /\ server' = [server EXCEPT !.at = "closed"]
                /\ UNCHANGED stream
           ELSE /\ stream' = stream \o Bytes(server.pos, n)
                /\ server' = [server EXCEPT !.pos = @ + n, !.left = @ - n]
    /\ UNCHANGED <<version, size, length, shareable, told, response, client, local>>

\* Everything is sent, or the context was told to stop, or the send times out.
EndBody ==
    /\ server.at = "body"
    /\ server.left = 0 \/ told
    /\ server' = [server EXCEPT !.at = "closed"]
    /\ UNCHANGED <<version, size, length, shareable, told, response, stream, client, local>>

SendTimeout ==
    /\ server.at = "body"
    /\ stream # <<>>
    /\ server' = [server EXCEPT !.at = "closed"]
    /\ UNCHANGED <<version, size, length, shareable, told, response, stream, client, local>>

\* The rest of the serving node.
FileShrinks ==
    /\ length > 0
    /\ length' \in 0..(length - 1)
    /\ UNCHANGED <<version, size, shareable, told, server, response, stream, client, local>>

FileLost ==
    /\ shareable
    /\ shareable' = FALSE
    /\ told' \in {told, server.at = "body"}
    /\ UNCHANGED <<version, size, length, server, response, stream, client, local>>

-----------------------------------------------------------------------------
(* The client *)

\* The response is read, and the file opened and positioned, unless it has an
\* error status.
ReadResponse ==
    /\ client.at = "waiting"
    /\ response # NoResponse
    /\ client' = IF response.status \in {200, 206}
                 THEN [at |-> "reading", offset |-> ClientFrom(response),
                       until |-> ClientUntil(response)]
                 ELSE [client EXCEPT !.at = "failed"]
    /\ UNCHANGED <<version, size, length, shareable, told, server, response, stream, local>>

\* One turn of the loop: n bytes are read and written.
ReadBytes(n) ==
    /\ client.at = "reading"
    /\ client.offset < client.until
    /\ n <= Len(stream) /\ n <= client.until - client.offset
    /\ local' = Overwritten(local, client.offset, SubSeq(stream, 1, n))
    /\ stream' = SubSeq(stream, n + 1, Len(stream))
    /\ client' = [client EXCEPT !.offset = @ + n]
    /\ UNCHANGED <<version, size, length, shareable, told, server, response>>

\* After the loop: the file is cut, and a short one is an error.
AlwaysComplete(offset, until) == "complete"    \* mutant: no "Expected n bytes"

Outcome(offset, until) == IF offset < until THEN "failed" ELSE "complete"

LeaveLoop ==
    /\ client.at = "reading"
    /\ local' = SubSeq(local, 1, client.offset)
    /\ client' = [client EXCEPT !.at = Outcome(client.offset, client.until)]
    /\ UNCHANGED <<version, size, length, shareable, told, server, response, stream>>

EndAtRange ==    \* mutant: an empty read does not end the loop
    client.offset >= client.until /\ LeaveLoop

\* The end of the range, or of the stream.
EndContent ==
    /\ \/ client.offset >= client.until
       \/ stream = <<>> /\ server.at = "closed"
    /\ LeaveLoop

\* should_stop, which a removal of the file at this node sets at any time: the
\* loop ends before its next turn, as far as it has come.
StopReceiving == LeaveLoop

\* A read that times out or a connection that breaks: the file is not cut.
ReceiveBreaks ==
    /\ client.at \in {"waiting", "reading"}
    /\ client' = [client EXCEPT !.at = "failed"]
    /\ UNCHANGED <<version, size, length, shareable, told, server, response, stream, local>>

-----------------------------------------------------------------------------
(* Specification *)

\* The client has a part of the file, or more than the whole of it, and may
\* have other bytes after it: current_size goes back to 0 on a wrong file, and
\* a broken download does not cut the file.
Init ==
    /\ version \in {"same", "other", "unknown"}
    /\ size \in 0..MaxSize
    /\ length = size
    /\ shareable \in BOOLEAN
    /\ told = FALSE
    /\ server = [at |-> "request", pos |-> 0, left |-> 0]
    /\ response = NoResponse
    /\ stream = <<>>
    /\ \E have \in 0..(MaxSize + 1), old \in 0..1 :
          /\ local = Prefix(have) \o [i \in 1..old |-> 0]
          /\ client = [at |-> "waiting", offset |-> have, until |-> 0]

ServerStep ==
    \/ HandleRequest \/ StartBody \/ SendChunk \/ EndBody

ClientStep ==
    \/ ReadResponse
    \/ \E n \in 1..ChunkSize : ReadBytes(n)
    \/ EndContent

Next ==
    \/ ServerStep \/ SendTimeout \/ FileShrinks \/ FileLost
    \/ ClientStep \/ StopReceiving \/ ReceiveBreaks

Fairness == WF_vars(ServerStep) /\ WF_vars(ClientStep)

Spec == Init /\ [][Next]_vars /\ Fairness

-----------------------------------------------------------------------------
(* Properties *)

\* The sizes stay in their ranges: no length the server announces or counts
\* down, and no offset of the client, leaves the file.
TypeOK ==
    /\ version \in {"same", "other", "unknown"}
    /\ size \in 0..MaxSize /\ length \in 0..size
    /\ shareable \in BOOLEAN /\ told \in BOOLEAN
    /\ server.at \in {"request", "headers", "body", "closed"}
    /\ server.pos \in 0..MaxSize /\ server.left \in 0..MaxSize
    /\ client.at \in {"waiting", "reading", "failed", "complete"}
    /\ client.offset \in 0..(MaxSize + 1) /\ client.until \in 0..MaxSize
    /\ Len(local) >= client.offset

\* Every byte the client counts is the byte at that place of the file it asked
\* for: the server refuses another version, and both agree where a resumed
\* download goes on.
Aligned == \A i \in 1..client.offset : local[i] = i

\* What the client still expects is what is in flight and what the server has
\* yet to read: neither end waits for bytes the other does not mean to send.
Conserved ==
    client.at = "reading" /\ server.at \in {"headers", "body"} =>
        client.offset + Len(stream) + server.left = client.until

\* A transfer that the client takes for complete has given it the whole file,
\* however it was cut, stopped or shortened on the way.
CompleteIsWhole == client.at = "complete" => local = Prefix(size)

\* The client ends, whatever the server does with the file meanwhile.
ClientEnds == client.at = "waiting" ~> client.at \in {"failed", "complete"}

\* What a transfer can still do: the server's answer, its body and each byte
\* of it, every byte in flight, and the client's own two steps.
ToSend ==
    CASE server.at = "request" -> 2 * MaxSize + 3
      [] server.at = "headers" -> 2 * server.left + 2
      [] server.at = "body"    -> 2 * server.left + 1
      [] server.at = "closed"  -> 0

ToRead ==
    CASE client.at = "waiting" -> 2
      [] client.at = "reading" -> 1
      [] OTHER                 -> 0

Rest == ToSend + Len(stream) + ToRead

\* Neither end of write_body and handle_content can go on for ever: each turn
\* of either loop uses up a part of the transfer, and nothing that happens to
\* the file or to the connection gives it back.
EveryStepCounts ==
    [][ /\ Rest' <= Rest
        /\ ServerStep \/ ClientStep => Rest' < Rest ]_vars

\* Headers, ranges, chunks and the stream implement what Fetch says of them:
\* a resumed, interrupted or shortened transfer never takes back, repeats or
\* skips a byte of what context.update has reported.
F == INSTANCE Fetch WITH
        full <- size,
        counted <- SubSeq(local, 1, client.offset),
        outcome <- IF client.at \in {"failed", "complete"} THEN client.at
                                                           ELSE "running"

Fetches == F!Spec

=============================================================================
