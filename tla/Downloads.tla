------------------------------- MODULE Downloads -------------------------------
(***************************************************************************)
(* The life of one file name in a node that downloads it: Controller and   *)
(* FileStateContext of simple_p2p/core/controller.py, Repository, and the  *)
(* client side of a transfer (simple_p2p/file_transfer/client.py).         *)
(*                                                                         *)
(* The shell schedules and removes downloads in its own thread; the        *)
(* controller loop runs the monitor and the download coroutines, which     *)
(* interleave at their awaits; an executor runs the jobs that read the     *)
(* file or write its state.  The coroutines keep the FileMetadata object   *)
(* they started with, but the controller and the repository look the name  *)
(* up at each call, and may find what a later download has put there.  So  *)
(* each object put under the name is an incarnation, numbered from 1.      *)
(*                                                                         *)
(* A file is a sequence of chunks, which no other program touches.  A peer *)
(* is not modelled beyond what it answers: it may fail in every way,       *)
(* "Faults" times in all.                                                  *)
(***************************************************************************)
EXTENDS Naturals, Sequences

CONSTANTS
    Versions,         \* contents the network has under the name
    Tasks,            \* slots for download coroutines: bounds those alive
    Size,             \* chunks in each content
    Leftovers,        \* what may be at the path before anything is downloaded
    MaxIncarnations,  \* bounds how often the user downloads the name
    Faults            \* bounds the failures of peers and network, and crashes

ASSUME DownloadConstants ==
    /\ Size \in Nat \ {0}
    /\ MaxIncarnations \in Nat
    /\ Faults \in Nat
    /\ "junk" \notin Versions
    /\ "none" \notin Tasks
    /\ Leftovers \subseteq Seq(Versions \cup {"junk"})

VARIABLES
    metas,      \* FileMetadata of the incarnations so far
    listed,     \* Repository._files[name]: an incarnation, or 0
    entry,      \* Controller._state[name]: an incarnation, or 0
    provider,   \* FileStateContext._provider of each incarnation
    stopped,    \* tasks whose provider context has _should_stop set
    tasks,      \* the download coroutines
    disk,       \* the file at the repository path
    shell,      \* what the shell thread is doing
    results,    \* the name has an entry in UdpController._search_results
    invalidate, \* a change_state(name, "INVALID") job is queued
    faults      \* failures so far

vars == <<metas, listed, entry, provider, stopped, tasks, disk, shell,
          results, invalidate, faults>>

-----------------------------------------------------------------------------
(* Data *)

Chunks == Versions \cup {"junk"}

Incarnations == 1..Len(metas)

NoTask == "none"

Content(v) == [i \in 1..Size |-> v]

\* A write at an offset; what it skips past the end of the file reads as zeros.
Written(d, offset, chunk) ==
    [i \in 1..(IF offset + 1 > Len(d) THEN offset + 1 ELSE Len(d)) |->
        CASE i = offset + 1 -> chunk
          [] i <= Len(d) /\ i # offset + 1 -> d[i]
          [] OTHER -> "junk"]

\* truncate() cuts the file or extends it with zeros.
Truncated(d, size) ==
    [i \in 1..size |-> IF i <= Len(d) THEN d[i] ELSE "junk"]

\* FileMetadata; "matches" is digest = current_digest.
Meta == [version : Versions, status : {"DOWNLOADING", "READY", "INVALID"},
         size : Nat, matches : BOOLEAN]

\* __update_metadata: size and hash of what is on disk.
Updated(m) == [m EXCEPT !.size = Len(disk),
                        !.matches = (disk = Content(m.version))]

SizeOnly(m) == m.size = Size    \* mutant: a resumed file is not hashed

IsValid(m) == m.size = Size /\ m.matches

Unused == [at |-> "unused", inc |-> 0, offset |-> 0]

Phases == {"spawned", "searching", "connecting", "waiting", "reading",
           "stat", "checking", "publishing", "leaving"}

\* Inside the "with FileProviderContext" block.
Holding(t) == tasks[t].at \in {"waiting", "reading", "stat", "checking",
                               "publishing", "leaving"}

Move(t, phase) == tasks' = [tasks EXCEPT ![t].at = phase]

End(t) == tasks' = [tasks EXCEPT ![t] = Unused]

NotReleased == provider    \* mutant: an __exit__ that forgets the provider

\* remove_provider clears the provider of whatever the name now stands for.
Released ==
    IF entry = 0 THEN provider ELSE [provider EXCEPT ![entry] = NoTask]

\* An exception inside the block, or its end: __exit__ runs.
Leave(t) ==
    /\ provider' = Released
    /\ stopped' = stopped \ {t}
    /\ End(t)

Fault ==
    /\ faults < Faults
    /\ faults' = faults + 1

-----------------------------------------------------------------------------
(* The shell *)

\* The shell's own search for the name is over; schedule_download: init_meta
\* puts the metadata in the repository ...
InitMeta(v) ==
    /\ shell = "idle"
    /\ ~results
    /\ listed = 0
    /\ Len(metas) < MaxIncarnations
    /\ metas' = Append(metas, Updated([version |-> v, status |-> "DOWNLOADING",
                                       size |-> 0, matches |-> FALSE]))
    /\ provider' = Append(provider, NoTask)
    /\ listed' = Len(metas')
    /\ shell' = "adding"
    /\ UNCHANGED <<entry, stopped, tasks, disk, results, invalidate, faults>>

\* ... _add_file in the controller, and the download is started.
AddFile(t) ==
    /\ shell = "adding"
    /\ tasks[t] = Unused
    /\ entry' = Len(metas)
    /\ tasks' = [tasks EXCEPT ![t] = [at |-> "connecting", inc |-> Len(metas),
                                      offset |-> 0]]
    /\ shell' = "idle"
    /\ UNCHANGED <<metas, listed, provider, stopped, disk, results, invalidate,
                   faults>>

\* do_add: add_file lists a file of the user's that lies whole at the path, ...
AddLocal(v) ==
    /\ shell = "idle"
    /\ listed = 0
    /\ Len(metas) < MaxIncarnations
    /\ disk = Content(v)
    /\ metas' = Append(metas, [version |-> v, status |-> "READY", size |-> Size,
                               matches |-> TRUE])
    /\ provider' = Append(provider, NoTask)
    /\ listed' = Len(metas')
    /\ shell' = "registering"
    /\ UNCHANGED <<entry, stopped, tasks, disk, results, invalidate, faults>>

\* ... and the controller's add_file registers it.
Register ==
    /\ shell = "registering"
    /\ entry' = Len(metas)
    /\ shell' = "idle"
    /\ UNCHANGED <<metas, listed, provider, stopped, tasks, disk, results,
                   invalidate, faults>>

\* remove_file holds the controller's lock over its three steps, but the
\* lookups of the coroutines and jobs do not take that lock.
RemoveFromRepository ==
    /\ shell = "idle"
    /\ entry # 0
    /\ listed' = 0
    /\ shell' = "unlisted"
    /\ UNCHANGED <<metas, entry, provider, stopped, tasks, disk, results,
                   invalidate, faults>>

ClearAnyProvider ==    \* mutant: clear() without its test for a provider
    /\ shell = "unlisted"
    /\ stopped' = stopped \cup {provider[entry]}
    /\ shell' = "cleared"
    /\ UNCHANGED <<metas, listed, entry, provider, tasks, disk, results,
                   invalidate, faults>>

ClearState ==
    /\ shell = "unlisted"
    /\ stopped' = stopped \cup ({provider[entry]} \ {NoTask})
    /\ shell' = "cleared"
    /\ UNCHANGED <<metas, listed, entry, provider, tasks, disk, results,
                   invalidate, faults>>

DeleteState ==
    /\ shell = "cleared"
    /\ entry' = 0
    /\ shell' = "idle"
    /\ UNCHANGED <<metas, listed, provider, stopped, tasks, disk, results,
                   invalidate, faults>>

-----------------------------------------------------------------------------
(* The monitor *)

LockFree == shell \in {"idle", "adding", "registering"}

\* The offset a retry resumes from: the start if the file is complete but wrong.
ResumeAlways(m) == m.size    \* mutant: no "Truncating download"

ResumeFrom(m) == IF m.size >= Size /\ ~m.matches THEN 0 ELSE m.size

\* A file is downloading and no task provides it.
MonitorRetries(t) ==
    /\ LockFree
    /\ entry # 0
    /\ metas[entry].status = "DOWNLOADING"
    /\ provider[entry] = NoTask
    /\ tasks[t] = Unused
    /\ metas' = [metas EXCEPT ![entry].size = ResumeFrom(metas[entry])]
    /\ Move(t, "spawned")
    /\ UNCHANGED <<listed, entry, provider, stopped, disk, shell, results,
                   invalidate, faults>>

\* One flag stands for any number of queued jobs: they all do the same.
MonitorInvalidates ==
    /\ LockFree
    /\ entry # 0
    /\ metas[entry].status = "READY"
    /\ ~IsValid(metas[entry])
    /\ ~invalidate
    /\ invalidate' = TRUE
    /\ UNCHANGED <<metas, listed, entry, provider, stopped, tasks, disk, shell,
                   results, faults>>

\* The queued job; change_state raises when the name is gone.
Invalidate ==
    /\ invalidate
    /\ invalidate' = FALSE
    /\ metas' = IF listed = 0 THEN metas
                ELSE [metas EXCEPT ![listed].status = "INVALID"]
    /\ UNCHANGED <<listed, entry, provider, stopped, tasks, disk, shell,
                   results, faults>>

-----------------------------------------------------------------------------
(* A download coroutine *)

\* retry_download looks the name up and searches for it, unless the name is
\* gone or has an entry of an earlier search (udp_controller.py:190): the
\* exception ends the task.
StartSearch(t) ==
    /\ tasks[t].at = "spawned"
    /\ IF entry = 0 \/ results
       THEN End(t) /\ UNCHANGED results
       ELSE /\ tasks' = [tasks EXCEPT ![t] = [@ EXCEPT !.at = "searching",
                                                       !.inc = entry]]
            /\ results' = TRUE
    /\ UNCHANGED <<metas, listed, entry, provider, stopped, disk, shell,
                   invalidate, faults>>

PeerFound(t) ==
    /\ tasks[t].at = "searching"
    /\ Move(t, "connecting")
    /\ results' = FALSE
    /\ UNCHANGED <<metas, listed, entry, provider, stopped, disk, shell,
                   invalidate, faults>>

\* The user searches for the name at this moment, no host has the digest, the
\* chosen one has been forgotten, or it refuses.
NoConnection(t) ==
    /\ tasks[t].at \in {"spawned", "searching", "connecting"}
    /\ Fault
    /\ End(t)
    /\ results' = (results /\ tasks[t].at # "searching")
    /\ UNCHANGED <<metas, listed, entry, provider, stopped, disk, shell,
                   invalidate>>

\* KeyError for a silent peer that is gone already: the entry stays, whoever
\* searches next.
SearchRaises(t) ==
    /\ tasks[t].at = "searching"
    /\ Fault
    /\ End(t)
    /\ UNCHANGED <<metas, listed, entry, provider, stopped, disk, shell,
                   results, invalidate>>

AnyProviderAccepted == entry # 0    \* mutant: a setter without the check

\* The provider setter accepts a provider only where there is none.
ProviderAccepted == entry # 0 /\ provider[entry] = NoTask

\* Connected: the context enters, and the request asks for what is missing.
Connect(t) ==
    /\ tasks[t].at = "connecting"
    /\ IF ProviderAccepted
       THEN /\ provider' = [provider EXCEPT ![entry] = t]
            /\ tasks' = [tasks EXCEPT ![t] =
                            [@ EXCEPT !.at = "waiting",
                                      !.offset = metas[tasks[t].inc].size]]
       ELSE End(t) /\ UNCHANGED provider
    /\ UNCHANGED <<metas, listed, entry, stopped, disk, shell, results,
                   invalidate, faults>>

\* The head of the receiving loop, then what follows the loop: the file is cut
\* at the offset, and the download is complete or fails.
Receiving(t, offset, d) ==
    IF offset < Size /\ t \notin stopped
    THEN /\ tasks' = [tasks EXCEPT ![t] = [@ EXCEPT !.at = "reading",
                                                    !.offset = offset]]
         /\ disk' = d
         /\ UNCHANGED <<provider, stopped>>
    ELSE /\ disk' = Truncated(d, offset)
         /\ IF offset < Size
            THEN Leave(t)
            ELSE Move(t, "stat") /\ UNCHANGED <<provider, stopped>>

\* A range past the end of the peer's file is an error, any other is granted.
Respond(t) ==
    /\ tasks[t].at = "waiting"
    /\ IF tasks[t].offset > Size
       THEN Leave(t) /\ UNCHANGED disk
       ELSE Receiving(t, tasks[t].offset, disk)
    /\ UNCHANGED <<metas, listed, entry, shell, results, invalidate, faults>>

\* A chunk is read, written and reported to the controller, by name.
Receive(t, chunk) ==
    /\ tasks[t].at = "reading"
    /\ chunk = "junk" => faults < Faults
    /\ faults' = IF chunk = "junk" THEN faults + 1 ELSE faults
    /\ LET d == Written(disk, tasks[t].offset, chunk)
           offset == tasks[t].offset + 1
       IN  IF entry = 0
           THEN Leave(t) /\ disk' = d /\ UNCHANGED metas
           ELSE Receiving(t, offset, d)
                /\ metas' = [metas EXCEPT ![entry].size = offset]
    /\ UNCHANGED <<listed, entry, shell, results, invalidate>>

\* The peer closes early: the loop breaks and the file is cut.
CutShort(t) ==
    /\ tasks[t].at = "reading"
    /\ Fault
    /\ disk' = Truncated(disk, tasks[t].offset)
    /\ Leave(t)
    /\ UNCHANGED <<metas, listed, entry, shell, results, invalidate>>

\* An error status, a reset connection or a timeout.
Break(t) ==
    /\ tasks[t].at \in {"waiting", "reading"}
    /\ Fault
    /\ Leave(t)
    /\ UNCHANGED <<metas, listed, entry, disk, shell, results, invalidate>>

\* The update_stat job measures the file for whatever the name stands for.
UpdateStat(t) ==
    /\ tasks[t].at = "stat"
    /\ IF listed = 0
       THEN Leave(t) /\ UNCHANGED metas
       ELSE /\ metas' = [metas EXCEPT ![listed] = Updated(@)]
            /\ Move(t, "checking")
            /\ UNCHANGED <<provider, stopped>>
    /\ UNCHANGED <<listed, entry, disk, shell, results, invalidate, faults>>

\* The check of the task's own metadata.
CheckValid(t) ==
    /\ tasks[t].at = "checking"
    /\ IF IsValid(metas[tasks[t].inc])
       THEN Move(t, "publishing") /\ UNCHANGED <<provider, stopped>>
       ELSE Leave(t)
    /\ UNCHANGED <<metas, listed, entry, disk, shell, results, invalidate,
                   faults>>

\* The change_state(name, "READY") job.
Publish(t) ==
    /\ tasks[t].at = "publishing"
    /\ metas' = IF listed = 0 THEN metas
                ELSE [metas EXCEPT ![listed].status = "READY"]
    /\ Move(t, "leaving")
    /\ UNCHANGED <<listed, entry, provider, stopped, disk, shell, results,
                   invalidate, faults>>

LeaveBlock(t) ==
    /\ tasks[t].at = "leaving"
    /\ Leave(t)
    /\ UNCHANGED <<metas, listed, entry, disk, shell, results, invalidate,
                   faults>>

-----------------------------------------------------------------------------
(* Stop, crash and launch *)

\* The statuses that load corrects, after it has measured the file.
Loaded(m) ==
    LET u == Updated(m)
    IN  [u EXCEPT !.status =
            CASE @ = "READY" /\ ~IsValid(u) -> "INVALID"
              [] @ = "INVALID" /\ IsValid(u) -> "READY"
              [] OTHER -> @]

\* A launch after a crash, or start after stop: the coroutines are gone and the
\* table is what the metadata files and the disk say.  A file that is not there
\* (nothing was received yet) is forgotten.  A new process knows no search and
\* no job; stop, a command of the shell, leaves the entry of a search that now
\* never wakes, and jobs: what is "queued" may still be to come.
Restart(found, queued) ==
    /\ Fault
    /\ disk # <<>> => found
    /\ metas' = IF listed # 0 /\ found THEN <<Loaded(metas[listed])>> ELSE <<>>
    /\ provider' = [i \in 1..Len(metas') |-> NoTask]
    /\ listed' = Len(metas')
    /\ entry' = Len(metas')
    /\ stopped' = {}
    /\ tasks' = [t \in Tasks |-> Unused]
    /\ shell' = "idle"
    /\ \/ results' = FALSE /\ invalidate' = FALSE
       \/ /\ shell = "idle"
          /\ invalidate' \in {FALSE, queued}
          /\ UNCHANGED results
    /\ UNCHANGED disk

-----------------------------------------------------------------------------
(* Specification *)

Init ==
    /\ metas = <<>>
    /\ listed = 0
    /\ entry = 0
    /\ provider = <<>>
    /\ stopped = {}
    /\ tasks = [t \in Tasks |-> Unused]
    /\ disk \in Leftovers
    /\ shell = "idle"
    /\ results = FALSE
    /\ invalidate = FALSE
    /\ faults = 0

\* What a task does when its peer serves it.
Advance(t) ==
    \/ StartSearch(t)
    \/ PeerFound(t)
    \/ Connect(t)
    \/ Respond(t)
    \/ tasks[t].inc # 0 /\ Receive(t, metas[tasks[t].inc].version)
    \/ UpdateStat(t)
    \/ CheckValid(t)
    \/ Publish(t)
    \/ LeaveBlock(t)

\* All but the two steps that reach other coroutines than their own.
Step ==
    \/ \E v \in Versions : InitMeta(v) \/ AddLocal(v)
    \/ Register
    \/ \E t \in Tasks : AddFile(t) \/ MonitorRetries(t) \/ Advance(t)
    \/ RemoveFromRepository
    \/ DeleteState
    \/ MonitorInvalidates
    \/ Invalidate
    \/ \E t \in Tasks :
          \/ NoConnection(t) \/ SearchRaises(t)
          \/ Receive(t, "junk") \/ CutShort(t) \/ Break(t)

Next == Step \/ ClearState \/ \E found \in BOOLEAN : Restart(found, invalidate)

\* The shell finishes its commands, the monitor wakes every 5 s, the executor
\* runs its jobs, and a peer that does not fail answers.
Fairness ==
    /\ \A t \in Tasks : WF_vars(Advance(t))
    /\ WF_vars(\E t \in Tasks : MonitorRetries(t))
    /\ WF_vars(\E t \in Tasks : AddFile(t))
    /\ WF_vars(ClearState \/ DeleteState \/ Register)
    /\ WF_vars(MonitorInvalidates)
    /\ WF_vars(Invalidate)

Spec == Init /\ [][Next]_vars /\ Fairness

-----------------------------------------------------------------------------
(* Properties *)

\* The variables of the file, its tasks and its commands keep their shapes.
FileTyped ==
    /\ metas \in Seq(Meta) /\ Len(metas) <= MaxIncarnations
    /\ listed \in 0..Len(metas)
    /\ entry \in 0..Len(metas)
    /\ provider \in [Incarnations -> Tasks \cup {NoTask}]
    /\ stopped \subseteq Tasks
    /\ tasks \in [Tasks -> [at : Phases \cup {"unused"}, inc : 0..Len(metas),
                            offset : Nat]]
    /\ disk \in Seq(Chunks)
    /\ shell \in {"idle", "adding", "registering", "unlisted", "cleared"}
    /\ invalidate \in BOOLEAN
    /\ faults \in 0..Faults

\* The variables keep their shapes.  Only contexts that exist are told to stop.
TypeOK == FileTyped /\ results \in BOOLEAN

\* An entry never keeps the provider of a task that is over: the monitor
\* would take it for a running download and never retry the file.
NoDeadProvider ==
    entry # 0 /\ provider[entry] # NoTask => Holding(provider[entry])

\* What the setter's "Provider already exists" says (controller.py:52): two
\* tasks never receive the current download of the name at the same time, save
\* one told to stop.
OneReceiver ==
    \A t, u \in Tasks :
        /\ Holding(t) /\ Holding(u)
        /\ tasks[t].inc = entry /\ tasks[u].inc = entry
        /\ {t, u} \cap stopped = {}
        => t = u

\* It holds of what the name stood for first since the launch: attempts of one
\* download compete as they may, but only one gets the provider.
FirstHasOneReceiver == entry = 1 => OneReceiver

\* The first file since the launch is READY only with the whole content it was
\* listed for, whatever lay at the path, failed, came corrupted, was retried or
\* crashed in between.
FirstReadyIsWhole ==
    entry = 1 /\ metas[1].status = "READY" => disk = Content(metas[1].version)

\* What the first download since the launch counts as received is on disk, and
\* who receives is there: the next attempt resumes where the last one stopped,
\* and never past it, where a write would leave zeros in between.
FirstLeavesNoGap ==
    entry = 1 =>
        /\ metas[1].size <= Len(disk)
        /\ \A t \in Tasks : tasks[t].at \in {"waiting", "reading"} =>
              tasks[t].offset = metas[1].size

\* An entry of _search_results that no search of this process will remove: the
\* retries of the name are refused until the next launch.
Blocked == results /\ \A t \in Tasks : tasks[t].at # "searching"

\* The first download since the launch ends unless the user removes it, once its
\* peers stop failing: it does not stay DOWNLOADING, whatever lies at the path,
\* save where an exception or a stop has left the entry of a search behind.
DownloadEnds ==
    entry = 1 ~> \/ entry # 1
                 \/ metas[1].status # "DOWNLOADING"
                 \/ Blocked

=============================================================================
