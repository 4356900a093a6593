-------------------------------- MODULE Ranges --------------------------------
(***************************************************************************)
(* The arithmetic of byte ranges: how the server reads a Range header and  *)
(* describes its answer, and where the client resumes.  io_utils.py,       *)
(* ByteRange and FileResponse of models.py, ClientHandler of client.py.    *)
(*                                                                         *)
(* An absent bound is None; a range that raises InvalidRangeError has the  *)
(* length Invalid.  Both are negative, so no length is one of them.        *)
(***************************************************************************)
EXTENDS Integers

None == -1
Invalid == -2

\* calc_range_len, for a range of num bytes, or up to the end of the file.
UncheckedLen(actualSize, offset, num) ==    \* mutant: no offset is refused
    IF num = None THEN actualSize - offset ELSE num

CalcRangeLen(actualSize, offset, num) ==
    IF offset > actualSize THEN Invalid
    ELSE IF num = None THEN actualSize - offset
    ELSE IF num > actualSize - offset THEN Invalid
    ELSE num

\* ByteRange.from_interval.  An end of 0 is falsy, so it is an absent end.
ByteRange(start, end) ==
    LET offset == IF start = None THEN 0 ELSE start
    IN  [offset |-> offset,
         bounded |-> end \notin {None, 0},
         length |-> IF end \in {None, 0} THEN None ELSE end - offset]

\* ByteRange.__init__ refuses negative lengths, get_effective_length the rest.
EffectiveLength(range, size) ==
    IF range.bounded /\ range.length < 0 THEN Invalid
    ELSE CalcRangeLen(size, range.offset, range.length)

Refusal(status) ==
    [status |-> status, length |-> None, from |-> None, full |-> None]

\* FileResponse: status and headers for a file of that size.
FileResponse(range, size) ==
    LET length == EffectiveLength(range, size)
    IN  IF length = Invalid
        THEN Refusal(416)
        ELSE IF length # size
        THEN [status |-> 206, length |-> length, from |-> range.offset, full |-> size]
        ELSE [status |-> 200, length |-> length, from |-> None, full |-> None]

AnyVersion(range, version, size) ==    \* mutant: if-digest is ignored
    IF version = "unknown" THEN Refusal(404) ELSE FileResponse(range, size)

\* handle_request: what the name stands for at the server, and whether it has
\* the digest of the if-digest header.
Answer(range, version, size) ==
    IF version = "unknown" THEN Refusal(404)
    ELSE IF version = "other" THEN Refusal(412)
    ELSE FileResponse(range, size)

\* The header of handle_connection for a file of which "have" bytes are here.
RequestedRange(have) ==
    IF have = 0 THEN ByteRange(None, None) ELSE ByteRange(have, None)

\* handle_content: where the client writes first, and where it stops.
FromTheStart(response) == 0               \* mutant: Content-Range is ignored
UntilLength(response) == response.length  \* mutant: the wrong header bounds it

ClientFrom(response) == IF response.from = None THEN 0 ELSE response.from
ClientUntil(response) == IF response.from = None THEN response.length ELSE response.full

=============================================================================
