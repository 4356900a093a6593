--------------------------------- MODULE Uploads ---------------------------------
(***************************************************************************)
(* The uploads of one file name, composed with its downloads: the consumer *)
(* registry of FileStateContext, ServerHandler and FileResponse.           *)
(*                                                                         *)
(* A request looks the name up three times: in handle_request, where the   *)
(* response is made from the metadata of that moment; when the body begins *)
(* and the consumer context is entered; and when the context is left.  The *)
(* coroutine waits for its peer in between, and the shell may remove the   *)
(* file and put another under the name.  As in Downloads, no other program *)
(* touches the file on disk: what is READY and whole changes only by what  *)
(* this node does.                                                         *)
(***************************************************************************)
EXTENDS Downloads

CONSTANT Uploaders    \* slots for upload coroutines: bounds those alive

VARIABLES
    upload,     \* the upload coroutines
    consumers,  \* FileStateContext._consumers of each incarnation
    halted      \* uploads whose context has _should_stop set

uploadVars == <<upload, consumers, halted>>

allVars == <<vars, uploadVars>>

-----------------------------------------------------------------------------

NoUpload == [at |-> "idle", pos |-> 0, left |-> 0]

CanShare(m) == m.status = "READY" /\ IsValid(m)

Serving(u) == upload[u].at = "serving"

\* handle_request: the name is known, and the range is one of the file's.
Request(u, from) ==
    /\ upload[u] = NoUpload
    /\ entry # 0
    /\ upload' = [upload EXCEPT ![u] = [at |-> "accepted", pos |-> from,
                                        left |-> Size - from]]
    /\ UNCHANGED <<vars, consumers, halted>>

\* __enter__, after the headers: add_consumer in whatever the name stands for.
Enter(u) ==
    /\ upload[u].at = "accepted"
    /\ IF entry # 0 /\ CanShare(metas[entry])
       THEN /\ upload' = [upload EXCEPT ![u].at = "serving"]
            /\ consumers' = [consumers EXCEPT ![entry] = @ \cup {u}]
       ELSE /\ upload' = [upload EXCEPT ![u] = NoUpload]
            /\ UNCHANGED consumers
    /\ UNCHANGED <<vars, halted>>

Send(u) ==
    /\ Serving(u)
    /\ upload[u].left > 0 /\ u \notin halted
    /\ upload[u].pos < Len(disk)
    /\ upload' = [upload EXCEPT ![u] = [at |-> "serving", pos |-> @.pos + 1,
                                        left |-> @.left - 1]]
    /\ UNCHANGED <<vars, consumers, halted>>

\* remove_consumer looks the name up first, and then the list of what it finds.
Forgetful(u, corrupted) ==    \* mutant: an __exit__ that returns early
    IF corrupted THEN consumers ELSE [consumers EXCEPT ![entry] = @ \ {u}]

Unregistered(u, corrupted) == [consumers EXCEPT ![entry] = @ \ {u}]

\* __exit__: an upload that ends inconsistent invalidates the name, the others
\* only leave the list; nothing of it happens when the name is gone.
Exit(u, corrupted) ==
    /\ upload' = [upload EXCEPT ![u] = NoUpload]
    /\ halted' = halted \ {u}
    /\ IF entry = 0
       THEN UNCHANGED <<consumers, invalidate>>
       ELSE /\ consumers' = Unregistered(u, corrupted)
            /\ invalidate' = (invalidate \/ corrupted)
    /\ UNCHANGED <<metas, listed, entry, provider, stopped, tasks, disk, shell,
                   results, faults>>

Sent(u) == Serving(u) /\ upload[u].left = 0 /\ Exit(u, FALSE)

\* Told to stop, or at the end of a file that is too short:
\* InconsistentFileStateError either way.
Uncounted(u) ==    \* mutant: the bytes still due are not looked at
    /\ Serving(u)
    /\ u \in halted \/ upload[u].pos >= Len(disk)
    /\ Exit(u, TRUE)

NotEmpty(u) ==    \* mutant: an empty read does not end the loop
    /\ Serving(u) /\ upload[u].left > 0
    /\ u \in halted
    /\ Exit(u, TRUE)

CutOff(u) ==
    /\ Serving(u) /\ upload[u].left > 0
    /\ u \in halted \/ upload[u].pos >= Len(disk)
    /\ Exit(u, TRUE)

\* The peer goes away or does not read.
ConnectionLost(u) ==
    \/ Serving(u) /\ Exit(u, FALSE)
    \/ /\ upload[u].at = "accepted"
       /\ upload' = [upload EXCEPT ![u] = NoUpload]
       /\ UNCHANGED <<vars, consumers, halted>>

\* clear() tells the provider and every consumer listed at that moment.
ClearConsumers ==
    /\ ClearState
    /\ halted' = halted \cup consumers[entry]
    /\ UNCHANGED <<upload, consumers>>

\* stop() tells every context before it empties the table: a consumer that
\* notices in between is an upload that ends inconsistent.
QueuedAtStop == invalidate \/ (entry # 0 /\ consumers[entry] # {})

RestartUploads(found) ==
    /\ Restart(found, QueuedAtStop)
    /\ upload' = [u \in Uploaders |-> NoUpload]
    /\ consumers' = [i \in 1..MaxIncarnations |-> {}]
    /\ halted' = {}

-----------------------------------------------------------------------------
(* Specification *)

UploadsInit ==
    /\ Init
    /\ upload = [u \in Uploaders |-> NoUpload]
    /\ consumers = [i \in 1..MaxIncarnations |-> {}]
    /\ halted = {}

Serve(u) == Enter(u) \/ Send(u) \/ Sent(u) \/ CutOff(u)

UploadsNext ==
    \/ Step /\ UNCHANGED uploadVars
    \/ ClearConsumers
    \/ \E found \in BOOLEAN : RestartUploads(found)
    \/ \E u \in Uploaders :
          Serve(u) \/ ConnectionLost(u) \/ \E from \in 0..Size : Request(u, from)

\* Each read is of a local file, and each send has a timeout.
UploadsSpec ==
    /\ UploadsInit
    /\ [][UploadsNext]_allVars
    /\ Fairness
    /\ \A u \in Uploaders : WF_allVars(Serve(u))

-----------------------------------------------------------------------------
(* Properties *)

\* The variables keep their shapes; only uploads in progress are told to stop.
UploadsTypeOK ==
    /\ upload \in [Uploaders -> [at : {"idle", "accepted", "serving"},
                                 pos : 0..Size, left : 0..Size]]
    /\ consumers \in [1..MaxIncarnations -> SUBSET Uploaders]
    /\ halted \subseteq {u \in Uploaders : Serving(u)}

\* The list of an entry holds uploads in progress only, however they end and
\* whatever the name stood for when they began: remove_consumer works by name
\* and raises when it does not find its context, but leaves nobody in the list
\* of the file that is shared.
ConsumersAreServed ==
    entry # 0 => \A u \in consumers[entry] : Serving(u)

\* An upload ends, whatever becomes of its file.
UploadEnds == \A u \in Uploaders : Serving(u) ~> ~Serving(u)

\* A READY file that nobody has asked to invalidate.
Offered == entry = 1 /\ metas[1].status = "READY" /\ ~invalidate

\* What the name stands for first since the launch stays on offer until the
\* user removes it: neither its uploads, however they end, nor the monitor, nor
\* a late attempt of its download, nor a launch after a crash puts it in doubt.
\* Only a stop in the middle of an upload may.  (Publish is table and metadata
\* file at once here; a crash between the two is Repository's subject.)
FirstStaysOffered ==
    [][Offered /\ shell = "idle" =>
          \/ Offered'
          \/ /\ \E u \in Uploaders : Serving(u)
             /\ \E found \in BOOLEAN : RestartUploads(found)]_allVars

\* What the comment of controller.py:292 says of the end of an upload: a file
\* becomes INVALID when its state is corrupted.
InvalidMeansCorrupted ==
    [][\A i \in Incarnations :
          metas[i].status = "READY" /\ Invalidate /\ metas'[i].status = "INVALID"
              => disk # Content(metas[i].version)]_allVars

=============================================================================
