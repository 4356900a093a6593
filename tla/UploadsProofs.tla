------------------------------ MODULE UploadsProofs ------------------------------
(***************************************************************************)
(* Theorems about Uploads: what is proved of the downloads alone holds of  *)
(* them beside uploads, and the list of consumers of an entry holds        *)
(* uploads in progress only, for any number of tasks, uploads,             *)
(* incarnations, failures and chunks.                                      *)
(***************************************************************************)
EXTENDS Uploads, DownloadsFirstProofs

\* Nobody consumes an incarnation before it is the entry.
Fresh ==
    /\ \A i \in 1..MaxIncarnations : i \notin DOMAIN metas => consumers[i] = {}
    /\ shell \in {"adding", "registering"} => consumers[listed] = {}

\* What an upload has sent and what it has left make the file.
Progress == \A u \in Uploaders : upload[u] # NoUpload => upload[u].pos + upload[u].left = Size

UInv == IInv /\ UploadsTypeOK /\ ConsumersAreServed /\ Fresh /\ Progress

-----------------------------------------------------------------------------
(* The steps of the downloads *)

\* A step of the downloads keeps the entry and the table's shape, ...
Keeps ==
    /\ UNCHANGED <<entry, shell, listed>>
    /\ DOMAIN metas' = DOMAIN metas

\* ... or creates an incarnation, makes it the entry, or removes the entry.
Creates ==
    /\ shell' \in {"adding", "registering"}
    /\ \E m \in Meta : metas' = Append(metas, m)
    /\ listed' = Len(metas')
    /\ UNCHANGED entry

Registers ==
    /\ shell \in {"adding", "registering"} /\ shell' = "idle"
    /\ entry' = Len(metas)
    /\ UNCHANGED metas

Removes ==
    /\ shell' \in {"unlisted", "cleared", "idle"}
    /\ entry' \in {0, entry} /\ (shell = "cleared" => entry' = 0)
    /\ UNCHANGED metas

LEMMA AdvanceShape == ASSUME NEW t \in Tasks, Advance(t)  PROVE Keeps
<1>1. CASE StartSearch(t) \/ PeerFound(t) \/ Connect(t) \/ Respond(t)
  BY <1>1 DEF StartSearch, PeerFound, Connect, Respond, Keeps
<1>2. CASE Receive(t, metas[tasks[t].inc].version)
  BY <1>2 DEF Receive, Keeps
<1>3. CASE UpdateStat(t) \/ CheckValid(t)
  BY <1>3 DEF UpdateStat, CheckValid, Keeps
<1>4. CASE Publish(t) \/ LeaveBlock(t)
  BY <1>4 DEF Publish, LeaveBlock, Keeps
<1> QED
  BY <1>1, <1>2, <1>3, <1>4 DEF Advance

LEMMA StepShape ==
  ASSUME IInv, Step
  PROVE  Keeps \/ Creates \/ Registers \/ Removes
<1>1. CASE \E v \in Versions : InitMeta(v) \/ AddLocal(v)
  <2>1. PICK v \in Versions : InitMeta(v) \/ AddLocal(v)
    BY <1>1
  <2>2. CASE InitMeta(v)
    <3> DEFINE old == [version |-> v, status |-> "DOWNLOADING", size |-> 0, matches |-> FALSE]
               m == Updated(old)
    <3>1. metas' = Append(metas, m) /\ listed' = Len(metas') /\ shell' = "adding" /\ UNCHANGED entry
      BY <2>2 DEF InitMeta
    <3>2. old \in Meta /\ disk \in Seq(Chunks)
      BY DEF Meta, IInv, FileTyped
    <3>3. m \in Meta
      BY <3>2, UpdatedTyped
    <3> HIDE DEF m
    <3> QED  BY <3>1, <3>3 DEF Creates
  <2>3. CASE AddLocal(v)
    <3> DEFINE m == [version |-> v, status |-> "READY", size |-> Size, matches |-> TRUE]
    <3>1. metas' = Append(metas, m) /\ listed' = Len(metas') /\ shell' = "registering" /\ UNCHANGED entry
      BY <2>3 DEF AddLocal
    <3>2. m \in Meta
      BY DownloadConstants DEF Meta
    <3> HIDE DEF m
    <3> QED  BY <3>1, <3>2 DEF Creates
  <2> QED  BY <2>1, <2>2, <2>3
<1>2. CASE Register \/ \E t \in Tasks : AddFile(t)
  BY <1>2 DEF Register, AddFile, Registers
<1>3. CASE RemoveFromRepository \/ DeleteState
  BY <1>3 DEF RemoveFromRepository, DeleteState, Removes
<1>4. CASE \E t \in Tasks : MonitorRetries(t)
  BY <1>4 DEF MonitorRetries, Keeps
<1>5. CASE \E t \in Tasks : Advance(t)
  BY <1>5, AdvanceShape
<1>6. CASE MonitorInvalidates \/ Invalidate
  BY <1>6 DEF MonitorInvalidates, Invalidate, Keeps
<1>7. CASE \E t \in Tasks : \/ NoConnection(t) \/ SearchRaises(t)
                           \/ Receive(t, "junk") \/ CutShort(t) \/ Break(t)
  BY <1>7 DEF NoConnection, SearchRaises, Receive, CutShort, Break, Keeps
<1> QED
  BY <1>1, <1>2, <1>3, <1>4, <1>5, <1>6, <1>7 DEF Step

LEMMA DownloadStepHolds ==
  ASSUME UInv, Step, UNCHANGED uploadVars
  PROVE  UInv'
<1>1. IInv'
  BY StepHolds DEF UInv, Next
<1>2. UploadsTypeOK'
  BY DEF UInv, uploadVars, UploadsTypeOK, Serving
<1>9. Progress'
  BY DEF UInv, uploadVars, Progress
<1>3. /\ UNCHANGED <<upload, consumers>> /\ ConsumersAreServed /\ Fresh
      /\ Len(metas) \in Nat /\ DOMAIN metas = 1..Len(metas)
      /\ metas \in Seq(Meta)
  BY LenProperties DEF UInv, IInv, FileTyped, uploadVars
<1>4. ASSUME Keeps  PROVE ConsumersAreServed' /\ Fresh'
  BY <1>3, <1>4 DEF Keeps, ConsumersAreServed, Fresh, Serving
<1>5. ASSUME Creates  PROVE ConsumersAreServed' /\ Fresh'
  <2>1. PICK m \in Meta : metas' = Append(metas, m)
    BY <1>5 DEF Creates
  <2>2. Len(metas') = Len(metas) + 1 /\ DOMAIN metas' = 1..Len(metas')
    BY <1>3, <2>1, AppendProperties, LenProperties
  <2>3. listed' \in 1..MaxIncarnations /\ listed' \notin DOMAIN metas
    <3>1. Len(metas') <= MaxIncarnations
      BY <1>1 DEF IInv, FileTyped
    <3> QED  BY <1>3, <1>5, <2>2, <3>1, DownloadConstants DEF Creates
  <2>4. consumers'[listed'] = {}
    BY <1>3, <2>3 DEF Fresh
  <2>5. \A i \in 1..MaxIncarnations : i \notin DOMAIN metas' => consumers'[i] = {}
    BY <1>3, <2>2 DEF Fresh
  <2> QED  BY <1>3, <1>5, <2>4, <2>5 DEF Creates, ConsumersAreServed, Fresh, Serving
<1>6. ASSUME Registers  PROVE ConsumersAreServed' /\ Fresh'
  <2>1. consumers[Len(metas)] = {}
    BY <1>3, <1>6 DEF Registers, Fresh, UInv, IInv, ShellAt
  <2> QED  BY <1>3, <1>6, <2>1 DEF Registers, ConsumersAreServed, Fresh
<1>7. ASSUME Removes  PROVE ConsumersAreServed' /\ Fresh'
  BY <1>3, <1>7 DEF Removes, ConsumersAreServed, Fresh, Serving
<1>8. ConsumersAreServed' /\ Fresh'
  <2>1. Keeps \/ Creates \/ Registers \/ Removes
    BY StepShape DEF UInv
  <2> QED  BY <1>4, <1>5, <1>6, <1>7, <2>1
<1> QED
  BY <1>1, <1>2, <1>8, <1>9 DEF UInv

-----------------------------------------------------------------------------
(* The steps of the uploads *)

\* The state of the downloads, but for the queued invalidation, is as it was.
LEMMA DownloadsUntouched ==
  ASSUME IInv, invalidate' \in BOOLEAN,
         UNCHANGED <<metas, listed, entry, provider, stopped, tasks, disk, shell, faults>>
  PROVE  IInv'
<1>1. FileTyped'
  BY DEF IInv, FileTyped, Incarnations
<1> QED
  BY <1>1 DEF IInv, ShellAt, Started, NoDeadProvider, Holding

\* clear() tells consumers of the entry, and those are uploads in progress.
LEMMA ClearHolds == ASSUME UInv, ClearConsumers  PROVE UInv'
<1>1. /\ ClearState /\ UNCHANGED <<upload, consumers, metas, entry, listed>>
      /\ halted' = halted \cup consumers[entry]
      /\ entry # 0 /\ shell' = "cleared"
  BY DEF ClearConsumers, ClearState, UInv, IInv, ShellAt
<1>2. IInv'
  BY <1>1, StepHolds DEF UInv, Next
<1>3. consumers[entry] \subseteq {u \in Uploaders : Serving(u)}
  <2>1. entry \in 1..MaxIncarnations
    <3>1. Len(metas) \in Nat
      BY LenProperties DEF UInv, IInv, FileTyped
    <3> QED  BY <1>1, <3>1, DownloadConstants DEF UInv, IInv, FileTyped
  <2>2. consumers[entry] \subseteq Uploaders
    BY <2>1 DEF UInv, UploadsTypeOK
  <2> QED  BY <1>1, <2>2 DEF UInv, ConsumersAreServed
<1>4. UploadsTypeOK'
  BY <1>1, <1>3 DEF UInv, UploadsTypeOK, Serving
<1>5. ConsumersAreServed' /\ Fresh' /\ Progress'
  BY <1>1 DEF UInv, ConsumersAreServed, Fresh, Serving, Progress
<1> QED
  BY <1>2, <1>4, <1>5 DEF UInv

Upload == [at : {"idle", "accepted", "serving"}, pos : 0..Size, left : 0..Size]

LEMMA RestartUploadsHolds ==
  ASSUME UInv, NEW found \in BOOLEAN, RestartUploads(found)
  PROVE  UInv'
<1>1. /\ Restart(found, QueuedAtStop)
      /\ upload' = [u \in Uploaders |-> NoUpload]
      /\ consumers' = [i \in 1..MaxIncarnations |-> {}]
      /\ halted' = {}
  BY DEF RestartUploads
<1>2. IInv'
  <2>1. QueuedAtStop \in BOOLEAN
    BY DEF QueuedAtStop, UInv, IInv, FileTyped
  <2> QED  BY <1>1, <2>1, RestartHolds DEF UInv
<1>3. NoUpload \in Upload
  BY DownloadConstants DEF NoUpload, Upload
<1>4. UploadsTypeOK'
  BY <1>1, <1>3 DEF UploadsTypeOK, Upload
<1>5. (\A i \in 1..MaxIncarnations : consumers'[i] = {}) /\ shell' = "idle"
  BY <1>1 DEF Restart
<1>6. entry' # 0 => entry' \in 1..MaxIncarnations
  <2>1. metas' \in Seq(Meta) /\ entry' \in 0..Len(metas') /\ Len(metas') <= MaxIncarnations
    BY <1>2 DEF IInv, FileTyped
  <2>2. Len(metas') \in Nat
    BY <2>1, LenProperties
  <2> QED  BY <2>1, <2>2, DownloadConstants
<1>7. ConsumersAreServed' /\ Fresh' /\ Progress'
  <2>1. Progress'
    BY <1>1 DEF Progress
  <2> QED  BY <1>5, <1>6, <2>1 DEF ConsumersAreServed, Fresh
<1> QED
  BY <1>2, <1>4, <1>7 DEF UInv

\* A coroutine that stays out of the lists, or stays in them.
LEMMA UploadMoves ==
  ASSUME UInv, NEW u \in Uploaders, NEW r \in Upload,
         upload' = [upload EXCEPT ![u] = r],
         Serving(u) => r.at = "serving",
         r # NoUpload => r.pos + r.left = Size,
         UNCHANGED <<vars, consumers, halted>>
  PROVE  UInv'
<1>1. upload \in [Uploaders -> Upload]
  BY DEF UInv, UploadsTypeOK, Upload
<1>2. /\ upload' \in [Uploaders -> Upload]
      /\ \A w \in Uploaders : Serving(w) => Serving(w)'
  BY <1>1 DEF Serving
<1>3. IInv'
  <2>1. invalidate' \in BOOLEAN
    BY Zenon DEF UInv, IInv, FileTyped, vars
  <2> QED  BY <2>1, DownloadsUntouched DEF UInv, vars
<1>4. UploadsTypeOK'
  BY <1>2 DEF UInv, UploadsTypeOK, Upload
<1>5. Fresh' /\ Progress'
  BY <1>1 DEF UInv, Fresh, Progress, vars
<1>6. ConsumersAreServed'
  <2>1. entry # 0 => consumers[entry] \subseteq Uploaders
    <3>1. Len(metas) \in Nat
      BY LenProperties DEF UInv, IInv, FileTyped
    <3>2. entry # 0 => entry \in 1..MaxIncarnations
      BY <3>1, DownloadConstants DEF UInv, IInv, FileTyped
    <3> QED  BY <3>2 DEF UInv, UploadsTypeOK
  <2> QED  BY <1>2, <2>1 DEF UInv, ConsumersAreServed, vars
<1> QED
  BY <1>3, <1>4, <1>5, <1>6 DEF UInv

LEMMA RequestHolds ==
  ASSUME UInv, NEW u \in Uploaders, NEW from \in 0..Size, Request(u, from)
  PROVE  UInv'
<1> DEFINE r == [at |-> "accepted", pos |-> from, left |-> Size - from]
<1>1. /\ upload[u] = NoUpload /\ upload' = [upload EXCEPT ![u] = r]
      /\ UNCHANGED <<vars, consumers, halted>>
  BY DEF Request
<1>2. r \in Upload
  BY DownloadConstants DEF Upload
<1>3. ~Serving(u) /\ r.pos + r.left = Size
  BY <1>1, DownloadConstants DEF Serving, NoUpload
<1> HIDE DEF r
<1> QED
  BY <1>1, <1>2, <1>3, UploadMoves

LEMMA SendHolds ==
  ASSUME UInv, NEW u \in Uploaders, Send(u)
  PROVE  UInv'
<1> DEFINE r == [at |-> "serving", pos |-> upload[u].pos + 1, left |-> upload[u].left - 1]
<1>1. /\ upload' = [upload EXCEPT ![u] = r] /\ upload[u].left > 0 /\ Serving(u)
      /\ UNCHANGED <<vars, consumers, halted>>
  BY DEF Send
<1>2. /\ upload[u].pos \in 0..Size /\ upload[u].left \in 0..Size
      /\ upload[u].pos + upload[u].left = Size
  BY <1>1 DEF UInv, UploadsTypeOK, Progress, Serving, NoUpload
<1>3. r \in Upload /\ r.at = "serving" /\ r.pos + r.left = Size
  BY <1>1, <1>2, DownloadConstants DEF Upload
<1> HIDE DEF r
<1> QED
  BY <1>1, <1>3, UploadMoves

\* The one step that lists a consumer: it is served from then on.
LEMMA EnterHolds ==
  ASSUME UInv, NEW u \in Uploaders, Enter(u)
  PROVE  UInv'
<1>1. upload[u].at = "accepted" /\ UNCHANGED <<vars, halted>>
  BY DEF Enter
<1>2. upload \in [Uploaders -> Upload]
  BY DEF UInv, UploadsTypeOK, Upload
<1>3. ~Serving(u)
  BY <1>1 DEF Serving
<1>4. CASE ~(entry # 0 /\ CanShare(metas[entry]))
  <2>1. upload' = [upload EXCEPT ![u] = NoUpload] /\ UNCHANGED consumers
    BY <1>4 DEF Enter
  <2>2. NoUpload \in Upload
    BY DownloadConstants DEF NoUpload, Upload
  <2> HIDE DEF NoUpload
  <2> QED  BY <1>1, <1>3, <2>1, <2>2, UploadMoves
<1>5. CASE entry # 0 /\ CanShare(metas[entry])
  <2> DEFINE r == [upload[u] EXCEPT !.at = "serving"]
  <2>1. /\ upload' = [upload EXCEPT ![u] = r]
        /\ consumers' = [consumers EXCEPT ![entry] = consumers[entry] \cup {u}]
    BY <1>5 DEF Enter
  <2>2. r \in Upload /\ r.at = "serving" /\ r.pos = upload[u].pos /\ r.left = upload[u].left
    BY <1>2 DEF Upload
  <2>3. upload[u].pos + upload[u].left = Size
    BY <1>1 DEF UInv, Progress, NoUpload
  <2> HIDE DEF r
  <2>4. /\ upload' \in [Uploaders -> Upload] /\ upload'[u] = r
        /\ \A w \in Uploaders : w # u => upload'[w] = upload[w]
    BY <1>2, <2>1, <2>2
  <2>5. entry \in 1..MaxIncarnations /\ entry \in DOMAIN metas
    <3>1. Len(metas) \in Nat /\ DOMAIN metas = 1..Len(metas)
      BY LenProperties DEF UInv, IInv, FileTyped
    <3> QED  BY <1>5, <3>1, DownloadConstants DEF UInv, IInv, FileTyped
  <2>6. consumers \in [1..MaxIncarnations -> SUBSET Uploaders]
    BY DEF UInv, UploadsTypeOK
  <2>7. /\ consumers' \in [1..MaxIncarnations -> SUBSET Uploaders]
        /\ consumers'[entry] = consumers[entry] \cup {u}
        /\ \A i \in 1..MaxIncarnations : i # entry => consumers'[i] = consumers[i]
    BY <2>1, <2>5, <2>6
  <2>8. IInv'
    <3>1. invalidate' \in BOOLEAN
      BY <1>1, Zenon DEF UInv, IInv, FileTyped, vars
    <3> QED  BY <1>1, <3>1, DownloadsUntouched DEF UInv, vars
  <2>9. UploadsTypeOK'
    BY <1>1, <1>3, <2>4, <2>7 DEF UInv, UploadsTypeOK, Upload, Serving
  <2>10. ConsumersAreServed'
    BY <1>1, <2>2, <2>4, <2>5, <2>6, <2>7 DEF UInv, ConsumersAreServed, Serving, vars
  <2>11. Fresh'
    <3>1. shell \notin {"adding", "registering"}
      BY <1>5 DEF UInv, IInv, ShellAt
    <3> QED  BY <1>1, <2>5, <2>7, <3>1 DEF UInv, Fresh, vars
  <2>12. Progress'
    BY <2>2, <2>3, <2>4 DEF UInv, Progress
  <2> QED  BY <2>8, <2>9, <2>10, <2>11, <2>12 DEF UInv
<1> QED
  BY <1>4, <1>5

\* However an upload ends, it leaves the list of the entry.
LEMMA ExitHolds ==
  ASSUME UInv, NEW u \in Uploaders, NEW corrupted \in BOOLEAN, Exit(u, corrupted)
  PROVE  UInv'
<1>1. /\ upload' = [upload EXCEPT ![u] = NoUpload] /\ halted' = halted \ {u}
      /\ UNCHANGED <<metas, listed, entry, provider, stopped, tasks, disk, shell, faults>>
  BY DEF Exit
<1>2. invalidate' \in BOOLEAN
  <2>1. invalidate \in BOOLEAN
    BY DEF UInv, IInv, FileTyped
  <2>2. invalidate' = invalidate \/ invalidate' = (invalidate \/ corrupted)
    BY Zenon DEF Exit
  <2> QED  BY <2>1, <2>2, Zenon
<1>3. IInv'
  BY <1>1, <1>2, DownloadsUntouched DEF UInv
<1>4. /\ upload \in [Uploaders -> Upload] /\ NoUpload \in Upload
      /\ NoUpload.at # "serving"
  BY DownloadConstants DEF UInv, UploadsTypeOK, Upload, NoUpload
<1> HIDE DEF NoUpload
<1>5. /\ upload' \in [Uploaders -> Upload] /\ upload'[u] = NoUpload
      /\ \A w \in Uploaders : w # u => upload'[w] = upload[w]
  BY <1>1, <1>4
<1>6. entry # 0 => entry \in 1..MaxIncarnations
  <2>1. Len(metas) \in Nat
    BY LenProperties DEF UInv, IInv, FileTyped
  <2> QED  BY <2>1, DownloadConstants DEF UInv, IInv, FileTyped
<1>7. consumers \in [1..MaxIncarnations -> SUBSET Uploaders]
  BY DEF UInv, UploadsTypeOK
<1>8. /\ consumers' \in [1..MaxIncarnations -> SUBSET Uploaders]
      /\ \A i \in 1..MaxIncarnations : consumers'[i] \subseteq consumers[i]
      /\ entry # 0 => u \notin consumers'[entry]
  <2>1. CASE entry = 0
    <3>1. UNCHANGED consumers
      BY <2>1 DEF Exit
    <3> QED  BY <1>7, <2>1, <3>1
  <2>2. CASE entry # 0
    <3>1. consumers' = [consumers EXCEPT ![entry] = consumers[entry] \ {u}]
      BY <2>2 DEF Exit, Unregistered
    <3> QED  BY <1>6, <1>7, <2>2, <3>1
  <2> QED  BY <2>1, <2>2
<1>9. UploadsTypeOK'
  BY <1>1, <1>5, <1>8 DEF UInv, UploadsTypeOK, Upload, Serving
<1>10. ConsumersAreServed'
  <2>1. SUFFICES ASSUME entry # 0, NEW w \in consumers'[entry]
                 PROVE  upload'[w].at = "serving"
    BY <1>1 DEF ConsumersAreServed, Serving
  <2>2. w \in consumers[entry] /\ w # u /\ w \in Uploaders
    BY <1>6, <1>7, <1>8, <2>1
  <2> QED  BY <1>5, <2>1, <2>2 DEF UInv, ConsumersAreServed, Serving
<1>11. Fresh'
  <2>1. shell \in {"adding", "registering"} => listed \in 1..MaxIncarnations
    <3>1. Len(metas) \in Nat
      BY LenProperties DEF UInv, IInv, FileTyped
    <3> QED  BY <3>1, DownloadConstants DEF UInv, IInv, FileTyped, ShellAt
  <2> QED  BY <1>1, <1>8, <2>1 DEF UInv, Fresh
<1>12. Progress'
  BY <1>5 DEF UInv, Progress
<1> QED
  BY <1>3, <1>9, <1>10, <1>11, <1>12 DEF UInv

LEMMA ConnectionLostHolds ==
  ASSUME UInv, NEW u \in Uploaders, ConnectionLost(u)
  PROVE  UInv'
<1>1. CASE Exit(u, FALSE)
  BY <1>1, ExitHolds
<1>2. CASE /\ upload[u].at = "accepted"
           /\ upload' = [upload EXCEPT ![u] = NoUpload]
           /\ UNCHANGED <<vars, consumers, halted>>
  <2>1. NoUpload \in Upload /\ ~Serving(u)
    BY <1>2, DownloadConstants DEF NoUpload, Upload, Serving
  <2> HIDE DEF NoUpload
  <2> QED  BY <1>2, <2>1, UploadMoves
<1> QED
  BY <1>1, <1>2 DEF ConnectionLost

-----------------------------------------------------------------------------
(* The invariant is inductive *)

LEMMA UploadsInitHolds == UploadsInit => UInv
<1> SUFFICES ASSUME UploadsInit  PROVE UInv
  OBVIOUS
<1>1. IInv /\ entry = 0 /\ shell = "idle"
  BY InitHolds DEF UploadsInit, Init
<1>2. /\ upload = [u \in Uploaders |-> NoUpload]
      /\ consumers = [i \in 1..MaxIncarnations |-> {}] /\ halted = {}
  BY DEF UploadsInit
<1>3. NoUpload \in Upload
  BY DownloadConstants DEF NoUpload, Upload
<1>4. UploadsTypeOK
  BY <1>2, <1>3 DEF UploadsTypeOK, Upload
<1>5. ConsumersAreServed /\ Fresh /\ Progress
  BY <1>1, <1>2 DEF ConsumersAreServed, Fresh, Progress
<1> QED
  BY <1>1, <1>4, <1>5 DEF UInv

LEMMA UploadsStepHolds == UInv /\ [UploadsNext]_allVars => UInv'
<1> SUFFICES ASSUME UInv, [UploadsNext]_allVars  PROVE UInv'
  OBVIOUS
<1>1. CASE Step /\ UNCHANGED uploadVars
  BY <1>1, DownloadStepHolds
<1>2. CASE ClearConsumers
  BY <1>2, ClearHolds
<1>3. CASE \E found \in BOOLEAN : RestartUploads(found)
  BY <1>3, RestartUploadsHolds
<1>4. ASSUME NEW u \in Uploaders,
             Serve(u) \/ ConnectionLost(u) \/ \E from \in 0..Size : Request(u, from)
      PROVE  UInv'
  <2>1. CASE Sent(u) \/ CutOff(u)
    <3>1. Exit(u, FALSE) \/ Exit(u, TRUE)
      BY <2>1 DEF Sent, CutOff
    <3> QED  BY <3>1, ExitHolds
  <2> QED
    BY <1>4, <2>1, EnterHolds, SendHolds, ConnectionLostHolds, RequestHolds DEF Serve
<1>5. CASE UNCHANGED allVars
  <2>1. UNCHANGED vars /\ UNCHANGED uploadVars
    BY <1>5 DEF allVars
  <2>2. IInv'
    BY <2>1, StepHolds DEF UInv
  <2> QED
    BY <2>1, <2>2 DEF UInv, vars, uploadVars, UploadsTypeOK, ConsumersAreServed, Fresh,
       Progress, Serving
<1> QED
  BY <1>1, <1>2, <1>3, <1>4, <1>5 DEF UploadsNext

LEMMA UploadsInductive == UploadsSpec => []UInv
  BY UploadsInitHolds, UploadsStepHolds, PTL DEF UploadsSpec

\* An upload changes nothing that the first download's invariant speaks of.
LEMMA FirstBesideUploads == UInv /\ FInv /\ [UploadsNext]_allVars => FInv'
<1> SUFFICES ASSUME UInv, FInv, [UploadsNext]_allVars  PROVE FInv'
  OBVIOUS
<1>1. IInv
  BY DEF UInv
<1>2. CASE [Next]_vars
  BY <1>1, <1>2, FirstStepHolds
<1>3. CASE UNCHANGED <<metas, entry, provider, tasks, disk, shell>>
  BY <1>3 DEF FInv, EntryIsLast, Quiet, Early, Alone, Judged, Whole, Holding
<1>4. ASSUME NEW u \in Uploaders,
             Serve(u) \/ ConnectionLost(u) \/ \E from \in 0..Size : Request(u, from)
      PROVE  UNCHANGED <<metas, entry, provider, tasks, disk, shell>>
  BY <1>4 DEF Serve, Enter, Send, Sent, CutOff, ConnectionLost, Request, Exit, vars
<1>5. CASE (Step /\ UNCHANGED uploadVars) \/ ClearConsumers
  BY <1>2, <1>5 DEF Next, ClearConsumers
<1>6. CASE \E found \in BOOLEAN : RestartUploads(found)
  <2>1. QueuedAtStop \in BOOLEAN
    BY <1>1 DEF QueuedAtStop, IInv, FileTyped
  <2> QED  BY <1>1, <1>6, <2>1, RestartKeeps DEF RestartUploads
<1>7. CASE UNCHANGED allVars
  BY <1>2, <1>7 DEF allVars
<1> QED
  BY <1>3, <1>4, <1>5, <1>6, <1>7 DEF UploadsNext

LEMMA GapBesideUploads == UInv /\ FInv /\ GapFree /\ [UploadsNext]_allVars => GapFree'
<1> SUFFICES ASSUME UInv, FInv, GapFree, [UploadsNext]_allVars  PROVE GapFree'
  OBVIOUS
<1>1. IInv
  BY DEF UInv
<1>2. CASE [Next]_vars
  BY <1>1, <1>2, GapStepHolds
<1>3. ASSUME NEW u \in Uploaders,
             Serve(u) \/ ConnectionLost(u) \/ \E from \in 0..Size : Request(u, from)
      PROVE  UNCHANGED <<metas, tasks, disk>>
  BY <1>3 DEF Serve, Enter, Send, Sent, CutOff, ConnectionLost, Request, Exit, vars
<1>4. CASE UNCHANGED <<metas, tasks, disk>>
  BY <1>4 DEF GapFree, Early
<1>5. CASE (Step /\ UNCHANGED uploadVars) \/ ClearConsumers
  BY <1>2, <1>5 DEF Next, ClearConsumers
<1>6. CASE \E found \in BOOLEAN : RestartUploads(found)
  <2>1. QueuedAtStop \in BOOLEAN
    BY <1>1 DEF QueuedAtStop, IInv, FileTyped
  <2> QED  BY <1>1, <1>6, <2>1, GapRestart DEF RestartUploads
<1>7. CASE UNCHANGED allVars
  BY <1>2, <1>7 DEF allVars
<1> QED
  BY <1>3, <1>4, <1>5, <1>6, <1>7 DEF UploadsNext

LEMMA ResultsBesideUploads ==
  SearchTyped /\ [UploadsNext]_allVars => SearchTyped'
<1> SUFFICES ASSUME results \in BOOLEAN, [UploadsNext]_allVars  PROVE results' \in BOOLEAN
  BY DEF SearchTyped
<1>1. CASE [Next]_vars
  BY <1>1, ResultsTyped DEF SearchTyped
<1>2. ASSUME NEW u \in Uploaders,
             Serve(u) \/ ConnectionLost(u) \/ \E from \in 0..Size : Request(u, from)
      PROVE  results' = results
  BY <1>2, Zenon DEF Serve, Enter, Send, Sent, CutOff, ConnectionLost, Request, Exit, vars
<1>3. CASE results' = results
  BY <1>3, Zenon
<1>4. CASE (Step /\ UNCHANGED uploadVars) \/ ClearConsumers
  BY <1>1, <1>4 DEF Next, ClearConsumers
<1>5. CASE \E found \in BOOLEAN : RestartUploads(found)
  BY <1>5, ResultsOfRestart DEF RestartUploads
<1>6. CASE UNCHANGED allVars
  BY <1>1, <1>6 DEF allVars
<1> QED
  BY <1>2, <1>3, <1>4, <1>5, <1>6 DEF UploadsNext

-----------------------------------------------------------------------------
(* The offer of the first file *)

\* Until the first file is removed, nobody has told an upload to stop.
NotRemoved ==
    \/ Len(metas) = 0
    \/ Early /\ shell \in {"adding", "registering"}
    \/ entry = 1 /\ shell # "cleared"

NoneHalted == NotRemoved => halted = {}

LEMMA SameInterval == ASSUME NEW m \in Nat, NEW n \in Nat, 1..m = 1..n  PROVE m = n
<1>1. ~(m < n)
  <2>1. m < n => n \in 1..n /\ n \notin 1..m
    OBVIOUS
  <2> QED  BY <2>1
<1>2. ~(n < m)
  <2>1. n < m => m \in 1..m /\ m \notin 1..n
    OBVIOUS
  <2> QED  BY <2>1
<1> QED
  BY <1>1, <1>2

LEMMA NoneHaltedKept ==
  ASSUME UInv, UInv', NoneHalted, [UploadsNext]_allVars  PROVE NoneHalted'
<1>1. /\ Len(metas) \in Nat /\ DOMAIN metas = 1..Len(metas) /\ metas \in Seq(Meta)
      /\ Len(metas') \in Nat /\ DOMAIN metas' = 1..Len(metas')
      /\ entry \in 0..Len(metas)
  BY LenProperties DEF UInv, IInv, FileTyped
<1>2. CASE Step /\ UNCHANGED uploadVars
  <2>1. UNCHANGED halted /\ (Keeps \/ Creates \/ Registers \/ Removes)
    BY <1>2, StepShape DEF UInv, uploadVars
  <2>2. CASE Keeps
    <3>1. Len(metas') = Len(metas)
      BY <1>1, <2>2, SameInterval DEF Keeps
    <3> QED  BY <2>1, <2>2, <3>1 DEF Keeps, NoneHalted, NotRemoved, Early
  <2>3. CASE Creates
    <3>1. PICK m \in Meta : metas' = Append(metas, m)
      BY <2>3 DEF Creates
    <3>2. Len(metas') = Len(metas) + 1
      BY <1>1, <3>1, AppendProperties
    <3>3. entry' = 0
      BY <2>3 DEF Creates, UInv, IInv, ShellAt
    <3> QED  BY <1>1, <2>1, <3>2, <3>3 DEF NoneHalted, NotRemoved, Early
  <2>4. CASE Registers
    BY <1>1, <2>1, <2>4 DEF Registers, NoneHalted, NotRemoved, Early
  <2>5. CASE Removes
    BY <1>1, <2>1, <2>5 DEF Removes, NoneHalted, NotRemoved, Early
  <2> QED  BY <2>1, <2>2, <2>3, <2>4, <2>5
<1>3. CASE ClearConsumers
  <2>1. entry # 0 /\ shell' = "cleared" /\ UNCHANGED metas
    BY <1>3 DEF ClearConsumers, ClearState, UInv, IInv, ShellAt
  <2> QED  BY <1>1, <2>1 DEF NoneHalted, NotRemoved
<1>4. CASE \E found \in BOOLEAN : RestartUploads(found)
  BY <1>4 DEF RestartUploads, NoneHalted
<1>5. ASSUME halted' \subseteq halted, UNCHANGED <<metas, entry, shell>>
      PROVE  NoneHalted'
  BY <1>5 DEF NoneHalted, NotRemoved, Early
<1>6. ASSUME NEW u \in Uploaders,
             Serve(u) \/ ConnectionLost(u) \/ \E from \in 0..Size : Request(u, from)
      PROVE  halted' \subseteq halted /\ UNCHANGED <<metas, entry, shell>>
  BY <1>6 DEF Serve, Enter, Send, Sent, CutOff, ConnectionLost, Request, Exit, vars
<1>7. CASE UNCHANGED allVars
  BY <1>5, <1>7 DEF allVars, vars, uploadVars
<1> QED
  BY <1>2, <1>3, <1>4, <1>5, <1>6, <1>7 DEF UploadsNext

\* A READY file is neither written nor judged again, except by a task that
\* measures it and finds it whole.
LEMMA OfferKeptByStep ==
  ASSUME IInv, FInv, Offered, shell = "idle", Step  PROVE Offered'
<1>1. /\ Early /\ entry = 1 /\ listed = 1 /\ metas[1].status = "READY" /\ ~invalidate
      /\ metas \in Seq(Meta) /\ metas[1] \in Meta /\ disk \in Seq(Chunks)
  <2>1. Early /\ entry = 1 /\ listed = 1
    BY LenProperties DEF Offered, IInv, FileTyped, ShellAt, FInv, EntryIsLast, Early
  <2> QED  BY <2>1, EarlyTyped DEF Offered
<1>2. IsValid(metas[1]) /\ \A t \in Tasks : tasks[t].at # "reading"
  BY <1>1 DEF FInv, Whole, IsWhole, Calm
<1>3. ASSUME UNCHANGED <<metas, entry, invalidate>>  PROVE Offered'
  BY <1>3 DEF Offered
<1>4. ASSUME NEW m \in Meta, m.status = "READY", metas' = [metas EXCEPT ![1] = m],
             UNCHANGED <<entry, invalidate>>
      PROVE  Offered'
  <2>1. metas'[1] = m
    BY <1>1, <1>4, FirstExcept
  <2> QED  BY <1>4, <2>1 DEF Offered
<1>5. ASSUME NEW t \in Tasks, UpdateStat(t)  PROVE Offered'
  <2> DEFINE m == Updated(metas[1])
  <2>1. metas' = [metas EXCEPT ![1] = m] /\ UNCHANGED <<entry, invalidate>>
    BY <1>1, <1>5 DEF UpdateStat
  <2>2. m \in Meta /\ m.status = "READY"
    BY <1>1, UpdatedTyped, UpdatedHas
  <2> HIDE DEF m
  <2> QED  BY <1>4, <2>1, <2>2
<1>6. ASSUME NEW t \in Tasks, Publish(t)  PROVE Offered'
  <2> DEFINE m == [metas[1] EXCEPT !.status = "READY"]
  <2>1. metas' = [metas EXCEPT ![1] = m] /\ UNCHANGED <<entry, invalidate>>
    BY <1>1, <1>6 DEF Publish
  <2>2. m \in Meta /\ m.status = "READY"
    BY <1>1 DEF Meta
  <2> HIDE DEF m
  <2> QED  BY <1>4, <2>1, <2>2
<1>7. ASSUME NEW t \in Tasks, Advance(t)  PROVE Offered'
  <2>1. ~Receive(t, metas[tasks[t].inc].version)
    BY <1>2 DEF Receive
  <2>2. CASE StartSearch(t) \/ PeerFound(t) \/ Connect(t) \/ Respond(t)
    BY <1>3, <2>2 DEF StartSearch, PeerFound, Connect, Respond
  <2>3. CASE CheckValid(t) \/ LeaveBlock(t)
    BY <1>3, <2>3 DEF CheckValid, LeaveBlock
  <2> QED  BY <1>5, <1>6, <1>7, <2>1, <2>2, <2>3 DEF Advance
<1>8. ~(\E v \in Versions : InitMeta(v) \/ AddLocal(v)) /\ ~Register /\ ~DeleteState
      /\ ~(\E t \in Tasks : AddFile(t) \/ MonitorRetries(t))
  BY <1>1 DEF InitMeta, AddLocal, Register, DeleteState, AddFile, MonitorRetries
<1>9. ~MonitorInvalidates /\ ~Invalidate
  BY <1>1, <1>2 DEF MonitorInvalidates, Invalidate
<1>10. CASE RemoveFromRepository
  BY <1>3, <1>10 DEF RemoveFromRepository
<1>11. CASE \E t \in Tasks : \/ NoConnection(t) \/ SearchRaises(t)
                           \/ Receive(t, "junk") \/ CutShort(t) \/ Break(t)
  BY <1>2, <1>3, <1>11 DEF NoConnection, SearchRaises, Receive, CutShort, Break
<1> QED
  BY <1>7, <1>8, <1>9, <1>10, <1>11 DEF Step

\* A launch finds the file as it is recorded, and without an upload to cut off
\* stop leaves no job that would invalidate it.
LEMMA OfferKeptByRestart ==
  ASSUME UInv, FInv, Offered, shell = "idle", ~ \E u \in Uploaders : Serving(u),
         NEW found \in BOOLEAN, RestartUploads(found)
  PROVE  Offered'
<1> DEFINE m == Loaded(metas[1])
<1>1. /\ Early /\ entry = 1 /\ listed = 1 /\ metas[1].status = "READY" /\ ~invalidate
      /\ metas[1] \in Meta /\ disk \in Seq(Chunks) /\ IsWhole(metas[1], disk)
  <2>1. Early /\ entry = 1 /\ listed = 1
    BY LenProperties DEF Offered, UInv, IInv, FileTyped, ShellAt, FInv, EntryIsLast, Early
  <2> QED  BY <2>1, EarlyTyped DEF Offered, UInv, FInv, Whole
<1>2. Len(disk) = Size /\ Size # 0
  BY <1>1, ContentHas, DownloadConstants DEF IsWhole
<1>3. found
  BY <1>1, <1>2 DEF RestartUploads, Restart
<1>4. metas' = <<m>> /\ entry' = Len(metas')
  BY <1>1, <1>3 DEF RestartUploads, Restart
<1>5. m.status = "READY"
  <2> DEFINE u == Updated(metas[1])
  <2>1. u \in Meta /\ u.status = "READY" /\ IsValid(u)
    BY <1>1, <1>2, UpdatedTyped, UpdatedHas DEF IsWhole, IsValid
  <2>2. m = [u EXCEPT !.status = "READY"]
    <3> HIDE DEF u
    <3>1. m = [u EXCEPT !.status = CASE u.status = "READY" /\ ~IsValid(u) -> "INVALID"
                                     [] u.status = "INVALID" /\ IsValid(u) -> "READY"
                                     [] OTHER -> u.status]
      BY DEF Loaded, u
    <3> QED  BY <2>1, <3>1
  <2> HIDE DEF u, m
  <2> QED  BY <2>1, <2>2 DEF Meta
<1>6. ~QueuedAtStop
  <2>1. consumers[1] \subseteq Uploaders
    <3>1. 1 \in 1..MaxIncarnations
      BY <1>1, DownloadConstants DEF UInv, IInv, FileTyped, Early
    <3> QED  BY <3>1 DEF UInv, UploadsTypeOK
  <2>2. consumers[1] = {}
    BY <1>1, <2>1 DEF UInv, ConsumersAreServed
  <2> QED  BY <1>1, <2>2 DEF QueuedAtStop
<1>7. ~invalidate'
  BY <1>6 DEF RestartUploads, Restart
<1> HIDE DEF m
<1>8. metas'[1] = m /\ entry' = 1
  BY <1>4
<1> QED
  BY <1>5, <1>7, <1>8 DEF Offered

\* An upload of a file that is whole is not cut off: it has nothing left to
\* send when it reaches the end.
LEMMA OfferKeptByUploads ==
  ASSUME UInv, FInv, NoneHalted, Offered, shell = "idle", NEW u \in Uploaders,
         Serve(u) \/ ConnectionLost(u) \/ \E from \in 0..Size : Request(u, from)
  PROVE  Offered'
<1>1. Early /\ entry = 1 /\ ~invalidate /\ Len(disk) = Size /\ halted = {}
  <2>1. Early /\ entry = 1
    BY LenProperties DEF Offered, UInv, IInv, FileTyped, FInv, EntryIsLast, Early
  <2>2. IsWhole(metas[1], disk) /\ disk \in Seq(Chunks)
    BY <2>1 DEF Offered, UInv, IInv, FileTyped, FInv, Whole
  <2> QED  BY <2>1, <2>2, ContentHas DEF Offered, IsWhole, NoneHalted, NotRemoved
<1>2. ~CutOff(u)
  <2> SUFFICES ASSUME CutOff(u)  PROVE FALSE
    OBVIOUS
  <2>1. /\ upload[u].pos \in 0..Size /\ upload[u].left \in 0..Size
        /\ upload[u].pos + upload[u].left = Size
    BY DEF CutOff, UInv, UploadsTypeOK, Progress, Serving, NoUpload
  <2> QED  BY <1>1, <2>1, DownloadConstants DEF CutOff
<1>3. CASE Exit(u, FALSE)
  <2>1. UNCHANGED <<metas, entry>> /\ ~invalidate'
    BY <1>1, <1>3 DEF Exit
  <2> QED  BY <2>1 DEF Offered
<1>4. CASE UNCHANGED vars
  BY <1>4 DEF Offered, vars
<1>5. Exit(u, FALSE) \/ UNCHANGED vars
  BY <1>2 DEF Serve, Enter, Send, Sent, ConnectionLost, Request
<1> QED
  BY <1>3, <1>4, <1>5

LEMMA OfferKept ==
  ASSUME UInv, FInv, NoneHalted, [UploadsNext]_allVars, Offered, shell = "idle"
  PROVE  \/ Offered'
         \/ /\ \E u \in Uploaders : Serving(u)
            /\ \E found \in BOOLEAN : RestartUploads(found)
<1>1. CASE Step /\ UNCHANGED uploadVars
  BY <1>1, OfferKeptByStep DEF UInv
<1>2. ~ClearConsumers
  BY DEF ClearConsumers, ClearState
<1>3. CASE \E found \in BOOLEAN : RestartUploads(found)
  BY <1>3, OfferKeptByRestart
<1>4. CASE \E u \in Uploaders :
              Serve(u) \/ ConnectionLost(u) \/ \E from \in 0..Size : Request(u, from)
  BY <1>4, OfferKeptByUploads
<1>5. CASE UNCHANGED allVars
  BY <1>5 DEF allVars, vars, Offered
<1> QED
  BY <1>1, <1>2, <1>3, <1>4, <1>5 DEF UploadsNext

-----------------------------------------------------------------------------
(* Theorems *)

\* The variables of the uploads keep their shapes, and clear() tells only
\* uploads in progress to stop.
THEOREM UploadsTypeCorrect == UploadsSpec => []UploadsTypeOK
<1>1. UInv => UploadsTypeOK
  BY DEF UInv
<1> QED
  BY <1>1, UploadsInductive, PTL

\* What holds of the downloads of a name alone holds of them beside its
\* uploads, which share the table, the queued jobs and the lookups by name.
THEOREM DownloadsCompose ==
    UploadsSpec => [](/\ TypeOK /\ NoDeadProvider
                      /\ FirstHasOneReceiver /\ FirstReadyIsWhole /\ FirstLeavesNoGap)
<1>1. UploadsInit => FInv /\ GapFree
  BY FirstInitHolds, GapInit DEF UploadsInit
<1>2. IInv /\ FInv /\ GapFree =>
         /\ FileTyped /\ NoDeadProvider
         /\ FirstHasOneReceiver /\ FirstReadyIsWhole /\ FirstLeavesNoGap
  BY FirstImplies, GapImplies DEF IInv
<1>3. UInv => IInv
  BY DEF UInv
<1>4. UploadsInit => SearchTyped
  BY Zenon DEF UploadsInit, Init, SearchTyped
<1>5. FileTyped /\ SearchTyped => TypeOK
  BY DEF TypeOK, SearchTyped
<1> QED
  BY <1>1, <1>2, <1>3, <1>4, <1>5, ResultsBesideUploads, FirstBesideUploads,
     GapBesideUploads, UploadsInductive, PTL DEF UploadsSpec

\* The consumers listed for the entry are uploads in progress, though
\* remove_consumer looks the name up again: it may find another incarnation,
\* but never leaves an upload that is over in the list of the current one.
THEOREM ConsumersAreAlive == UploadsSpec => []ConsumersAreServed
<1>1. UInv => ConsumersAreServed
  BY DEF UInv
<1> QED
  BY <1>1, UploadsInductive, PTL

\* What the name stands for first since the launch, once READY, stays on offer
\* until the user removes it or stops the node in the middle of an upload: an
\* upload of it that ends early has been told so or has a peer to blame, and a
\* launch after a crash finds the file it left, once Publish has come to its end
\* on disk (Repository has the steps of that).
THEOREM FirstOfferStays == UploadsSpec => FirstStaysOffered
<1>1. UploadsInit => FInv /\ NoneHalted
  BY FirstInitHolds DEF UploadsInit, NoneHalted
<1>2. UInv /\ UInv' /\ NoneHalted /\ [UploadsNext]_allVars => NoneHalted'
  BY NoneHaltedKept
<1>3. UInv /\ FInv /\ NoneHalted /\ [UploadsNext]_allVars
        => [Offered /\ shell = "idle" =>
              \/ Offered'
              \/ /\ \E u \in Uploaders : Serving(u)
                 /\ \E found \in BOOLEAN : RestartUploads(found)]_allVars
  BY OfferKept
<1> QED
  BY <1>1, <1>2, <1>3, FirstBesideUploads, UploadsInductive, PTL
  DEF UploadsSpec, FirstStaysOffered

=============================================================================
