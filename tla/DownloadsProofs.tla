---------------------------- MODULE DownloadsProofs ----------------------------
(***************************************************************************)
(* Theorems about Downloads: its variables keep their shape, and an entry  *)
(* never keeps the provider of a task that is over, for any number of      *)
(* tasks, incarnations, failures and chunks.                               *)
(***************************************************************************)
EXTENDS Downloads, SequenceTheorems, TLAPS

Task == [at : Phases \cup {"unused"}, inc : 0..Len(metas), offset : Nat]

InBlock == {"waiting", "reading", "stat", "checking", "publishing", "leaving"}

\* What the commands of the shell leave between their steps.
ShellAt ==
    /\ shell = "idle" => listed = entry
    /\ shell \in {"adding", "registering"} =>
          /\ entry = 0
          /\ Len(metas) # 0
          /\ listed = Len(metas)
          /\ provider[Len(metas)] = NoTask
    /\ shell \in {"unlisted", "cleared"} => entry # 0 /\ listed = 0

\* A task knows its metadata, unless it has yet to look the name up.
Started == \A t \in Tasks : tasks[t].at \in {"unused", "spawned"} \/ tasks[t].inc # 0

IInv == FileTyped /\ ShellAt /\ Started /\ NoDeadProvider

-----------------------------------------------------------------------------
(* Data *)

LEMMA UpdatedTyped ==
  ASSUME disk \in Seq(Chunks), NEW m \in Meta
  PROVE  Updated(m) \in Meta
<1>1. Len(disk) \in Nat
  BY LenProperties
<1>2. (disk = Content(m.version)) \in BOOLEAN
  OBVIOUS
<1> DEFINE b == disk = Content(m.version)
           l == Len(disk)
<1>3. l \in Nat /\ b \in BOOLEAN
  BY <1>1, <1>2
<1> DEFINE e == [[m EXCEPT !.size = l] EXCEPT !.matches = b]
<1>4. Updated(m) = e
  BY DEF Updated
<1> HIDE DEF b, l
<1>5. [m EXCEPT !.size = l] \in Meta
  BY <1>3 DEF Meta
<1>6. e \in Meta
  BY <1>3, <1>5 DEF Meta
<1> QED
  BY <1>4, <1>6

\* Metadata changed in place leaves the sequence as long as it was.
LEMMA MetasExcept ==
  ASSUME metas \in Seq(Meta), NEW i \in Incarnations, NEW m \in Meta
  PROVE  /\ [metas EXCEPT ![i] = m] \in Seq(Meta)
         /\ Len([metas EXCEPT ![i] = m]) = Len(metas)
  BY ExceptSeq DEF Incarnations

LEMMA MetasSized ==
  ASSUME metas \in Seq(Meta), NEW i \in Incarnations, NEW n \in Nat
  PROVE  /\ [metas EXCEPT ![i].size = n] \in Seq(Meta)
         /\ Len([metas EXCEPT ![i].size = n]) = Len(metas)
<1>1. metas[i] \in Meta
  BY ElementOfSeq DEF Incarnations
<1>2. [metas[i] EXCEPT !.size = n] \in Meta
  BY <1>1 DEF Meta
<1> QED
  BY <1>2, MetasExcept

LEMMA MetasMarked ==
  ASSUME metas \in Seq(Meta), NEW i \in Incarnations, NEW s \in {"READY", "INVALID"}
  PROVE  /\ [metas EXCEPT ![i].status = s] \in Seq(Meta)
         /\ Len([metas EXCEPT ![i].status = s]) = Len(metas)
<1>1. metas[i] \in Meta
  BY ElementOfSeq DEF Incarnations
<1>2. [metas[i] EXCEPT !.status = s] \in Meta
  BY <1>1 DEF Meta
<1> QED
  BY <1>2, MetasExcept

LEMMA WrittenTyped ==
  ASSUME NEW d \in Seq(Chunks), NEW offset \in Nat, NEW chunk \in Chunks
  PROVE  Written(d, offset, chunk) \in Seq(Chunks)
<1> DEFINE n == IF offset + 1 > Len(d) THEN offset + 1 ELSE Len(d)
           f == [i \in 1..n |-> CASE i = offset + 1 -> chunk
                                  [] i <= Len(d) /\ i # offset + 1 -> d[i]
                                  [] OTHER -> "junk"]
<1>1. n \in Nat /\ "junk" \in Chunks
  BY LenProperties DEF Chunks
<1>2. \A i \in 1..n : i <= Len(d) => d[i] \in Chunks
  BY LenProperties, ElementOfSeq
<1>3. ASSUME NEW i \in 1..n  PROVE f[i] \in Chunks
  BY <1>1, <1>2
<1>4. f \in [1..n -> Chunks]
  BY <1>3
<1> HIDE DEF f, n
<1>5. f \in Seq(Chunks)
  BY <1>1, <1>4
<1> QED
  BY <1>5 DEF Written, f, n

LEMMA TruncatedTyped ==
  ASSUME NEW d \in Seq(Chunks), NEW n \in Nat
  PROVE  Truncated(d, n) \in Seq(Chunks)
<1> DEFINE f == [i \in 1..n |-> IF i <= Len(d) THEN d[i] ELSE "junk"]
<1>1. "junk" \in Chunks
  BY DEF Chunks
<1>2. \A i \in 1..n : i <= Len(d) => d[i] \in Chunks
  BY LenProperties, ElementOfSeq
<1>3. f \in [1..n -> Chunks]
  BY <1>1, <1>2
<1>4. f \in Seq(Chunks)
  BY <1>3
<1> QED
  BY <1>4 DEF Truncated

\* remove_provider leaves the current entry without a provider.
LEMMA ReleasedHas ==
  ASSUME FileTyped
  PROVE  /\ Released \in [Incarnations -> Tasks \cup {NoTask}]
         /\ entry # 0 => Released[entry] = NoTask
         /\ entry = 0 => Released = provider
  BY DEF FileTyped, Released, Incarnations

\* A task in its next phase, and ...
LEMMA TaskAt ==
  ASSUME NEW r \in Task, NEW p \in Phases
  PROVE  LET q == [r EXCEPT !.at = p] IN q \in Task /\ q.at = p /\ q.inc = r.inc
  BY DEF Task

\* ... at an offset.
LEMMA TaskAtOffset ==
  ASSUME NEW r \in Task, NEW p \in Phases, NEW n \in Nat
  PROVE  LET q == [[r EXCEPT !.at = p] EXCEPT !.offset = n]
         IN  q \in Task /\ q.at = p /\ q.inc = r.inc
  BY DEF Task

LEMMA UnusedTyped == ASSUME FileTyped  PROVE Unused \in Task /\ Unused.at = "unused"
<1>1. Len(metas) \in Nat
  BY LenProperties DEF FileTyped
<1> QED
  BY <1>1 DEF Task, Unused

-----------------------------------------------------------------------------
(* The steps of a task *)

\* What every step of a task may rely on.
LEMMA Typed ==
  ASSUME IInv, NEW t \in Tasks
  PROVE  /\ tasks[t] \in Task
         /\ tasks[t].at \in {"unused", "spawned"} \/ tasks[t].inc \in Incarnations
         /\ metas \in Seq(Meta) /\ disk \in Seq(Chunks) /\ faults \in 0..Faults
         /\ stopped \subseteq Tasks
         /\ entry # 0 => entry \in Incarnations
         /\ listed # 0 => listed \in Incarnations
         /\ Len(metas) \in Nat
<1>1. metas \in Seq(Meta) /\ Len(metas) \in Nat
  BY LenProperties DEF IInv, FileTyped
<1>2. tasks[t] \in Task
  BY DEF IInv, FileTyped, Task
<1>3. tasks[t].at \in {"unused", "spawned"} \/ tasks[t].inc \in Incarnations
  BY <1>1, <1>2 DEF IInv, Started, Task, Incarnations
<1> QED
  BY <1>1, <1>2, <1>3 DEF IInv, FileTyped, Incarnations

\* Of such a step matters whether the task gives up its place as provider: it
\* does, by leaving the block, or stays in the block, or was never in it.
LEMMA TaskStep ==
  ASSUME IInv, NEW t \in Tasks, NEW r \in Task,
         tasks' = [tasks EXCEPT ![t] = r],
         r.at \in {"unused", "spawned"} \/ r.inc # 0,
         UNCHANGED <<entry, listed, shell, invalidate>>,
         metas' \in Seq(Meta), Len(metas') = Len(metas),
         disk' \in Seq(Chunks), faults' \in 0..Faults, stopped' \subseteq Tasks,
         \/ UNCHANGED provider /\ (tasks[t].at \in InBlock => r.at \in InBlock)
         \/ provider' = Released
  PROVE  IInv'
<1>1. tasks \in [Tasks -> Task] /\ tasks' \in [Tasks -> Task]
  BY DEF IInv, FileTyped, Task
<1>2. tasks'[t] = r /\ \A u \in Tasks : u # t => tasks'[u] = tasks[u]
  BY <1>1
<1>3. provider' \in [Incarnations -> Tasks \cup {NoTask}]
  BY ReleasedHas DEF IInv, FileTyped
<1>4. FileTyped'
  <2>1. Incarnations' = Incarnations /\ Task' = Task
    BY DEF Incarnations, Task
  <2>2. tasks' \in [Tasks -> Task]'
    BY <1>1, <2>1
  <2>3. provider' \in [Incarnations -> Tasks \cup {NoTask}]'
    BY <1>3, <2>1
  <2> QED  BY <2>2, <2>3 DEF IInv, FileTyped, Task
<1>5. ShellAt'
  <2>1. entry = 0 => provider' = provider
    BY ReleasedHas DEF IInv
  <2> QED  BY <2>1 DEF IInv, ShellAt
<1>6. Started'
  BY <1>2 DEF IInv, Started
<1>7. NoDeadProvider'
  <2>1. CASE provider' = Released
    BY <2>1, ReleasedHas DEF IInv, NoDeadProvider
  <2>2. CASE UNCHANGED provider /\ (tasks[t].at \in InBlock => r.at \in InBlock)
    <3>1. SUFFICES ASSUME entry # 0, provider[entry] # NoTask
                   PROVE  tasks'[provider[entry]].at \in InBlock
      BY <2>2 DEF NoDeadProvider, Holding, InBlock
    <3>2. tasks[provider[entry]].at \in InBlock
      BY <3>1 DEF IInv, NoDeadProvider, Holding, InBlock
    <3>3. provider[entry] \in Tasks
      <4>1. entry \in Incarnations
        BY <3>1, Typed
      <4> QED  BY <3>1, <4>1 DEF IInv, FileTyped
    <3> QED  BY <1>2, <2>2, <3>2, <3>3
  <2> QED  BY <2>1, <2>2
<1> QED
  BY <1>4, <1>5, <1>6, <1>7 DEF IInv

\* A failure, if one is left.
LEMMA FaultTyped == ASSUME FileTyped, Fault  PROVE faults' \in 0..Faults
  BY DownloadConstants DEF FileTyped, Fault

\* A coroutine that ends outside its block, and ...
LEMMA EndHolds ==
  ASSUME IInv, NEW t \in Tasks, End(t), tasks[t].at \notin InBlock,
         UNCHANGED <<metas, listed, entry, provider, stopped, disk, shell, invalidate>>,
         faults' \in 0..Faults
  PROVE  IInv'
<1>1. tasks' = [tasks EXCEPT ![t] = Unused]
  BY DEF End
<1>2. Unused \in Task /\ Unused.at = "unused"
  BY UnusedTyped DEF IInv
<1> HIDE DEF Unused
<1> QED
  BY <1>1, <1>2, TaskStep, Typed

\* ... one that leaves it.
LEMMA LeaveHolds ==
  ASSUME IInv, NEW t \in Tasks, Leave(t),
         UNCHANGED <<listed, entry, shell, invalidate>>,
         metas' \in Seq(Meta), Len(metas') = Len(metas),
         disk' \in Seq(Chunks), faults' \in 0..Faults
  PROVE  IInv'
<1>1. tasks' = [tasks EXCEPT ![t] = Unused] /\ provider' = Released /\ stopped' \subseteq Tasks
  BY Typed DEF Leave, End
<1>2. Unused \in Task /\ Unused.at = "unused"
  BY UnusedTyped DEF IInv
<1> QED
  BY <1>1, <1>2, TaskStep

\* A phase that follows another, both inside the block or both before it.
LEMMA MoveHolds ==
  ASSUME IInv, NEW t \in Tasks, NEW p \in Phases, Move(t, p),
         tasks[t].at \in InBlock => p \in InBlock,
         tasks[t].at \notin {"unused", "spawned"} \/ p = "spawned",
         UNCHANGED <<listed, entry, provider, stopped, shell, invalidate>>,
         metas' \in Seq(Meta), Len(metas') = Len(metas),
         disk' \in Seq(Chunks), faults' \in 0..Faults
  PROVE  IInv'
<1> DEFINE q == [tasks[t] EXCEPT !.at = p]
<1>1. tasks' = [tasks EXCEPT ![t] = q]
  BY DEF Move
<1>2. q \in Task /\ q.at = p /\ q.inc = tasks[t].inc
  BY Typed, TaskAt
<1>3. q.at \in {"unused", "spawned"} \/ q.inc # 0
  BY <1>2 DEF IInv, Started
<1> HIDE DEF q
<1> QED
  BY <1>1, <1>2, <1>3, TaskStep, Typed

LEMMA StartSearchHolds ==
  ASSUME IInv, NEW t \in Tasks, StartSearch(t)
  PROVE  IInv'
<1>1. /\ tasks[t].at = "spawned"
      /\ UNCHANGED <<metas, listed, entry, provider, stopped, disk, shell, invalidate, faults>>
  BY DEF StartSearch
<1>2. tasks[t].at \notin InBlock /\ faults' \in 0..Faults /\ "searching" \in Phases
  BY <1>1, Typed DEF InBlock, Phases
<1>3. CASE End(t)
  BY <1>1, <1>2, <1>3, EndHolds
<1>4. CASE ~End(t)
  <2> DEFINE q == [[tasks[t] EXCEPT !.at = "searching"] EXCEPT !.inc = entry]
  <2>1. tasks' = [tasks EXCEPT ![t] = q] /\ entry # 0
    BY <1>4 DEF StartSearch
  <2>2. entry \in 0..Len(metas)
    BY DEF IInv, FileTyped
  <2>3. q \in Task /\ q.at = "searching" /\ q.inc = entry
    <3> DEFINE r == [tasks[t] EXCEPT !.at = "searching"]
    <3>1. r \in Task /\ r.at = "searching"
      BY <1>2, Typed, TaskAt
    <3>2. q = [r EXCEPT !.inc = entry]
      OBVIOUS
    <3> HIDE DEF r, q
    <3> QED  BY <2>2, <3>1, <3>2 DEF Task
  <2> HIDE DEF q
  <2> QED  BY <1>1, <1>2, <2>1, <2>3, TaskStep, Typed
<1> QED
  BY <1>3, <1>4

LEMMA PeerFoundHolds ==
  ASSUME IInv, NEW t \in Tasks, PeerFound(t)
  PROVE  IInv'
<1>1. "connecting" \in Phases
  BY DEF Phases
<1> QED
  BY <1>1, MoveHolds, Typed DEF PeerFound, InBlock

LEMMA NoConnectionHolds ==
  ASSUME IInv, NEW t \in Tasks, NoConnection(t) \/ SearchRaises(t)
  PROVE  IInv'
<1>1. tasks[t].at \notin InBlock /\ faults' \in 0..Faults
  BY FaultTyped DEF NoConnection, SearchRaises, InBlock, IInv
<1> QED
  BY <1>1, EndHolds DEF NoConnection, SearchRaises

\* The one step that makes a provider: it is in the block from then on.
LEMMA ConnectHolds ==
  ASSUME IInv, NEW t \in Tasks, Connect(t)
  PROVE  IInv'
<1>1. /\ tasks[t].at = "connecting"
      /\ UNCHANGED <<metas, listed, entry, stopped, disk, shell, invalidate, faults>>
  BY DEF Connect
<1>2. CASE ~ProviderAccepted
  <2>1. End(t) /\ UNCHANGED provider
    BY <1>2 DEF Connect
  <2>2. tasks[t].at \notin InBlock /\ faults' \in 0..Faults
    BY <1>1, Typed DEF InBlock
  <2> QED  BY <1>1, <2>1, <2>2, EndHolds
<1>3. CASE ProviderAccepted
  <2> DEFINE n == metas[tasks[t].inc].size
             q == [[tasks[t] EXCEPT !.at = "waiting"] EXCEPT !.offset = n]
  <2>1. /\ provider' = [provider EXCEPT ![entry] = t]
        /\ tasks' = [tasks EXCEPT ![t] = q]
        /\ entry # 0
    BY <1>3 DEF Connect, ProviderAccepted
  <2>2. entry \in Incarnations /\ tasks[t].inc \in Incarnations /\ tasks[t] \in Task
    BY <1>1, <2>1, Typed
  <2>3. n \in Nat
    <3>1. metas[tasks[t].inc] \in Meta
      BY <2>2, Typed, ElementOfSeq DEF Incarnations
    <3> QED  BY <3>1 DEF Meta
  <2>4. "waiting" \in Phases /\ "waiting" \in InBlock
    BY DEF Phases, InBlock
  <2> HIDE DEF n
  <2>5. q \in Task /\ q.at = "waiting" /\ q.inc = tasks[t].inc
    <3> DEFINE r == [tasks[t] EXCEPT !.at = "waiting"]
    <3>1. r \in Task /\ r.at = "waiting" /\ r.inc = tasks[t].inc
      BY <2>2, <2>4, TaskAt
    <3>2. q = [r EXCEPT !.offset = n]
      OBVIOUS
    <3> HIDE DEF r, q
    <3> QED  BY <2>3, <3>1, <3>2 DEF Task
  <2> HIDE DEF q
  <2>6. tasks \in [Tasks -> Task] /\ provider \in [Incarnations -> Tasks \cup {NoTask}]
    BY DEF IInv, FileTyped, Task
  <2>7. /\ tasks' \in [Tasks -> Task] /\ tasks'[t] = q
        /\ \A u \in Tasks : u # t => tasks'[u] = tasks[u]
    BY <2>1, <2>5, <2>6
  <2>8. provider' \in [Incarnations -> Tasks \cup {NoTask}] /\ provider'[entry] = t
    BY <2>1, <2>2, <2>6
  <2>9. FileTyped'
    <3>1. Task' = Task /\ Incarnations' = Incarnations
      BY <1>1 DEF Task, Incarnations
    <3>2. tasks' \in [Tasks -> Task]'
      BY <2>7, <3>1
    <3>3. provider' \in [Incarnations -> Tasks \cup {NoTask}]'
      BY <2>8, <3>1
    <3> QED  BY <1>1, <3>2, <3>3 DEF IInv, FileTyped, Task
  <2>10. ShellAt' /\ Started'
    <3>1. shell # "adding"
      BY <2>1 DEF IInv, ShellAt
    <3>2. 0 \notin Incarnations
      BY Typed DEF Incarnations
    <3> QED  BY <1>1, <2>2, <2>5, <2>7, <3>1, <3>2 DEF IInv, ShellAt, Started
  <2>11. NoDeadProvider'
    BY <1>1, <2>4, <2>5, <2>7, <2>8 DEF NoDeadProvider, Holding, InBlock
  <2> QED  BY <2>9, <2>10, <2>11 DEF IInv
<1> QED
  BY <1>2, <1>3

\* The loop of handle_content, and what follows it.
LEMMA ReceivingHolds ==
  ASSUME IInv, NEW t \in Tasks, NEW n \in Nat, NEW d \in Seq(Chunks),
         tasks[t].at \in {"waiting", "reading"}, Receiving(t, n, d),
         UNCHANGED <<listed, entry, shell, invalidate>>,
         metas' \in Seq(Meta), Len(metas') = Len(metas), faults' \in 0..Faults
  PROVE  IInv'
<1>1. Truncated(d, n) \in Seq(Chunks)
  BY TruncatedTyped
<1>2. "reading" \in Phases /\ "stat" \in Phases /\ "reading" \in InBlock /\ "stat" \in InBlock
  BY DEF Phases, InBlock
<1>3. CASE n < Size /\ t \notin stopped
  <2> DEFINE q == [[tasks[t] EXCEPT !.at = "reading"] EXCEPT !.offset = n]
  <2>1. tasks' = [tasks EXCEPT ![t] = q] /\ disk' = d /\ UNCHANGED <<provider, stopped>>
    BY <1>3 DEF Receiving
  <2>2. q \in Task /\ q.at = "reading" /\ q.inc = tasks[t].inc
    <3>1. tasks[t] \in Task
      BY Typed
    <3> QED  BY <1>2, <3>1, TaskAtOffset
  <2>3. q.inc # 0
    BY <2>2 DEF IInv, Started
  <2> HIDE DEF q
  <2> QED  BY <1>2, <2>1, <2>2, <2>3, TaskStep, Typed
<1>4. CASE ~(n < Size /\ t \notin stopped) /\ n < Size
  <2>1. Leave(t) /\ disk' \in Seq(Chunks)
    BY <1>1, <1>4 DEF Receiving
  <2> QED  BY <2>1, LeaveHolds
<1>5. CASE ~(n < Size /\ t \notin stopped) /\ ~(n < Size)
  <2>1. Move(t, "stat") /\ UNCHANGED <<provider, stopped>> /\ disk' \in Seq(Chunks)
    BY <1>1, <1>5 DEF Receiving
  <2> QED  BY <1>2, <2>1, MoveHolds
<1> QED
  BY <1>3, <1>4, <1>5

LEMMA RespondHolds ==
  ASSUME IInv, NEW t \in Tasks, Respond(t)
  PROVE  IInv'
<1>1. /\ tasks[t].at = "waiting"
      /\ UNCHANGED <<metas, listed, entry, shell, invalidate, faults>>
      /\ (Leave(t) /\ UNCHANGED disk) \/ Receiving(t, tasks[t].offset, disk)
  BY DEF Respond
<1>2. /\ tasks[t].offset \in Nat /\ disk \in Seq(Chunks)
      /\ metas' \in Seq(Meta) /\ Len(metas') = Len(metas) /\ faults' \in 0..Faults
  BY <1>1, Typed DEF Task
<1> QED
  BY <1>1, <1>2, LeaveHolds, ReceivingHolds

LEMMA ReceiveHolds ==
  ASSUME IInv, NEW t \in Tasks, NEW chunk \in Chunks, Receive(t, chunk)
  PROVE  IInv'
<1> DEFINE d == Written(disk, tasks[t].offset, chunk)
           n == tasks[t].offset + 1
<1>1. /\ tasks[t].at = "reading"
      /\ UNCHANGED <<listed, entry, shell, invalidate>>
      /\ IF entry = 0
         THEN Leave(t) /\ disk' = d /\ UNCHANGED metas
         ELSE Receiving(t, n, d) /\ metas' = [metas EXCEPT ![entry].size = n]
  BY DEF Receive
<1>2. n \in Nat /\ d \in Seq(Chunks)
  <2>1. tasks[t].offset \in Nat /\ disk \in Seq(Chunks)
    BY Typed DEF Task
  <2>2. n \in Nat
    BY <2>1
  <2>3. d \in Seq(Chunks)
    BY <2>1, WrittenTyped, Zenon
  <2> QED  BY <2>2, <2>3
<1>3. faults' \in 0..Faults
  BY DownloadConstants DEF Receive, IInv, FileTyped
<1> HIDE DEF d, n
<1>4. CASE entry = 0
  BY <1>1, <1>2, <1>3, <1>4, Typed, LeaveHolds
<1>5. CASE entry # 0
  <2>1. metas' = [metas EXCEPT ![entry].size = n] /\ Receiving(t, n, d)
    BY <1>1, <1>5
  <2>2. metas' \in Seq(Meta) /\ Len(metas') = Len(metas)
    BY <1>2, <1>5, <2>1, Typed, MetasSized
  <2> QED  BY <1>1, <1>2, <1>3, <2>1, <2>2, ReceivingHolds
<1> QED
  BY <1>4, <1>5

LEMMA FailHolds ==
  ASSUME IInv, NEW t \in Tasks, CutShort(t) \/ Break(t)
  PROVE  IInv'
<1>1. /\ tasks[t].offset \in Nat /\ disk \in Seq(Chunks)
      /\ metas \in Seq(Meta) /\ Len(metas) \in Nat
  BY Typed DEF Task
<1>2. faults' \in 0..Faults
  BY FaultTyped DEF CutShort, Break, IInv
<1>3. disk' \in Seq(Chunks)
  BY <1>1, TruncatedTyped DEF CutShort, Break
<1>4. Leave(t) /\ UNCHANGED <<metas, listed, entry, shell, invalidate>>
  BY DEF CutShort, Break
<1> QED
  BY <1>1, <1>2, <1>3, <1>4, LeaveHolds

\* After the last byte.
LEMMA UpdateStatHolds ==
  ASSUME IInv, NEW t \in Tasks, UpdateStat(t)
  PROVE  IInv'
<1>1. /\ tasks[t].at = "stat"
      /\ UNCHANGED <<listed, entry, disk, shell, invalidate, faults>>
      /\ IF listed = 0
         THEN Leave(t) /\ UNCHANGED metas
         ELSE /\ metas' = [metas EXCEPT ![listed] = Updated(metas[listed])]
              /\ Move(t, "checking")
              /\ UNCHANGED <<provider, stopped>>
  BY DEF UpdateStat
<1>2. faults' \in 0..Faults /\ disk' \in Seq(Chunks) /\ stopped \subseteq Tasks
  BY <1>1, Typed
<1>3. CASE listed = 0
  <2>1. metas' \in Seq(Meta) /\ Len(metas') = Len(metas)
    BY <1>1, <1>3, Typed
  <2> QED  BY <1>1, <1>2, <1>3, <2>1, LeaveHolds
<1>4. CASE listed # 0
  <2>1. metas[listed] \in Meta /\ listed \in Incarnations
    BY <1>4, Typed, ElementOfSeq DEF Incarnations
  <2>2. Updated(metas[listed]) \in Meta
    BY <2>1, Typed, UpdatedTyped
  <2>3. metas' \in Seq(Meta) /\ Len(metas') = Len(metas)
    BY <1>1, <1>4, <2>1, <2>2, Typed, MetasExcept
  <2>4. "checking" \in Phases /\ "checking" \in InBlock
    BY DEF Phases, InBlock
  <2>5. tasks[t].at \notin {"unused", "spawned"}
    BY <1>1
  <2>6. Move(t, "checking") /\ UNCHANGED <<listed, entry, provider, stopped, shell, invalidate>>
    BY <1>1, <1>4
  <2> QED  BY <1>2, <2>3, <2>4, <2>5, <2>6, MoveHolds
<1> QED
  BY <1>3, <1>4

LEMMA CheckValidHolds ==
  ASSUME IInv, NEW t \in Tasks, CheckValid(t)
  PROVE  IInv'
<1>1. /\ tasks[t].at = "checking"
      /\ UNCHANGED <<metas, listed, entry, disk, shell, invalidate, faults>>
      /\ Leave(t) \/ (Move(t, "publishing") /\ UNCHANGED <<provider, stopped>>)
  BY DEF CheckValid
<1>2. /\ metas' \in Seq(Meta) /\ Len(metas') = Len(metas)
      /\ faults' \in 0..Faults /\ disk' \in Seq(Chunks)
  BY <1>1, Typed
<1>3. "publishing" \in Phases /\ "publishing" \in InBlock
  BY DEF Phases, InBlock
<1> QED
  BY <1>1, <1>2, <1>3, LeaveHolds, MoveHolds

LEMMA PublishHolds ==
  ASSUME IInv, NEW t \in Tasks, Publish(t)
  PROVE  IInv'
<1>1. /\ tasks[t].at = "publishing" /\ Move(t, "leaving")
      /\ UNCHANGED <<listed, entry, provider, stopped, disk, shell, invalidate, faults>>
      /\ metas' = IF listed = 0 THEN metas ELSE [metas EXCEPT ![listed].status = "READY"]
  BY DEF Publish
<1>2. metas' \in Seq(Meta) /\ Len(metas') = Len(metas)
  BY <1>1, Typed, MetasMarked
<1>3. "leaving" \in Phases /\ "leaving" \in InBlock
  BY DEF Phases, InBlock
<1>4. faults' \in 0..Faults /\ disk' \in Seq(Chunks)
  BY <1>1, Typed
<1> QED
  BY <1>1, <1>2, <1>3, <1>4, MoveHolds

LEMMA LeaveBlockHolds ==
  ASSUME IInv, NEW t \in Tasks, LeaveBlock(t)
  PROVE  IInv'
  BY Typed, LeaveHolds DEF LeaveBlock

-----------------------------------------------------------------------------
(* The monitor and its jobs *)

LEMMA MonitorRetriesHolds ==
  ASSUME IInv, NEW t \in Tasks, MonitorRetries(t)
  PROVE  IInv'
<1> DEFINE n == ResumeFrom(metas[entry])
<1>1. /\ entry # 0 /\ tasks[t] = Unused /\ Move(t, "spawned")
      /\ metas' = [metas EXCEPT ![entry].size = n]
      /\ UNCHANGED <<listed, entry, provider, stopped, disk, shell, invalidate, faults>>
  BY DEF MonitorRetries
<1>2. n \in Nat
  <2>1. metas[entry] \in Meta
    BY <1>1, Typed, ElementOfSeq DEF Incarnations
  <2> QED  BY <2>1 DEF ResumeFrom, Meta
<1> HIDE DEF n
<1>3. metas' \in Seq(Meta) /\ Len(metas') = Len(metas)
  BY <1>1, <1>2, Typed, MetasSized
<1>4. tasks[t].at \notin InBlock /\ "spawned" \in Phases
  BY <1>1 DEF Unused, InBlock, Phases
<1>5. faults' \in 0..Faults /\ disk' \in Seq(Chunks)
  BY <1>1, Typed
<1> QED
  BY <1>1, <1>3, <1>4, <1>5, MoveHolds

\* The job of the monitor's other branch, queued or run.
LEMMA InvalidationHolds == ASSUME IInv, MonitorInvalidates \/ Invalidate  PROVE IInv'
<1>1. UNCHANGED <<listed, entry, provider, stopped, tasks, disk, shell, faults>>
  BY DEF MonitorInvalidates, Invalidate
<1>2. metas' \in Seq(Meta) /\ Len(metas') = Len(metas)
  <2>1. metas \in Seq(Meta) /\ (listed # 0 => listed \in Incarnations)
    <3>1. Len(metas) \in Nat
      BY LenProperties DEF IInv, FileTyped
    <3> QED  BY <3>1 DEF IInv, FileTyped, Incarnations
  <2>2. metas' = metas \/ (listed # 0 /\ metas' = [metas EXCEPT ![listed].status = "INVALID"])
    BY DEF MonitorInvalidates, Invalidate
  <2>3. CASE metas' = metas
    BY <2>1, <2>3
  <2>4. CASE listed # 0 /\ metas' = [metas EXCEPT ![listed].status = "INVALID"]
    <3>1. /\ [metas EXCEPT ![listed].status = "INVALID"] \in Seq(Meta)
          /\ Len([metas EXCEPT ![listed].status = "INVALID"]) = Len(metas)
      BY <2>1, <2>4, MetasMarked
    <3> QED  BY <2>4, <3>1
  <2> QED  BY <2>2, <2>3, <2>4
<1>3. invalidate' \in BOOLEAN
  BY Zenon DEF MonitorInvalidates, Invalidate
<1>4. FileTyped'
  <2>1. Incarnations' = Incarnations
    BY <1>2 DEF Incarnations
  <2>2. UNCHANGED provider /\ provider' \in [Incarnations' -> Tasks \cup {NoTask}]
    BY <1>1, <2>1 DEF IInv, FileTyped
  <2> QED  BY <1>1, <1>2, <1>3, <2>2 DEF IInv, FileTyped
<1> QED
  BY <1>1, <1>2, <1>4 DEF IInv, ShellAt, Started, NoDeadProvider, Holding

-----------------------------------------------------------------------------
(* The shell *)

\* A new incarnation: nobody provides it, and it is not the entry yet.
LEMMA NewIncarnation ==
  ASSUME IInv, NEW m \in Meta,
         shell = "idle", listed = 0, Len(metas) < MaxIncarnations,
         metas' = Append(metas, m), provider' = Append(provider, NoTask),
         listed' = Len(metas'), shell' \in {"adding", "registering"},
         UNCHANGED <<entry, stopped, tasks, disk, invalidate, faults>>
  PROVE  IInv'
<1>1. /\ shell = "idle" /\ listed = 0 /\ Len(metas) < MaxIncarnations
      /\ metas' = Append(metas, m)
      /\ provider' = Append(provider, NoTask)
      /\ listed' = Len(metas') /\ shell' \in {"adding", "registering"}
  OBVIOUS
<1>2. UNCHANGED <<entry, stopped, tasks, disk, invalidate, faults>>
  OBVIOUS
<1>3. m \in Meta
  OBVIOUS
<1>4. metas \in Seq(Meta) /\ Len(metas) \in Nat /\ entry = 0
  BY <1>1, LenProperties DEF IInv, FileTyped, ShellAt
<1>5. metas' \in Seq(Meta) /\ Len(metas') = Len(metas) + 1
  BY <1>1, <1>3, <1>4, AppendProperties
<1>6. provider \in Seq(Tasks \cup {NoTask}) /\ Len(provider) = Len(metas)
  <2> DEFINE n == Len(metas)
             S == Tasks \cup {NoTask}
  <2>1. n \in Nat /\ provider \in [1..n -> S]
    BY <1>4 DEF IInv, FileTyped, Incarnations
  <2> HIDE DEF n, S
  <2>2. provider \in Seq(S) /\ Len(provider) = n
    BY <2>1
  <2> QED  BY <2>2 DEF n, S
<1>7. /\ provider' \in Seq(Tasks \cup {NoTask}) /\ Len(provider') = Len(metas) + 1
      /\ provider'[Len(metas) + 1] = NoTask
  BY <1>1, <1>6, AppendProperties
<1>8. FileTyped'
  <2>1. provider' \in [Incarnations' -> Tasks \cup {NoTask}]
    BY <1>5, <1>7, LenProperties DEF Incarnations
  <2>2. tasks' \in [Tasks -> [at : Phases \cup {"unused"}, inc : 0..Len(metas'), offset : Nat]]
    <3>1. tasks \in [Tasks -> Task] /\ 0..Len(metas) \subseteq 0..Len(metas')
      BY <1>4, <1>5 DEF IInv, FileTyped, Task
    <3>2. ASSUME NEW r \in Task
          PROVE  r \in [at : Phases \cup {"unused"}, inc : 0..Len(metas'), offset : Nat]
      BY <3>1, <3>2 DEF Task
    <3> QED  BY <1>2, <3>1, <3>2
  <2>3. Len(metas') <= MaxIncarnations /\ listed' \in 0..Len(metas') /\ entry' \in 0..Len(metas')
    BY <1>1, <1>2, <1>4, <1>5, DownloadConstants
  <2>4. stopped' \subseteq Tasks /\ disk' \in Seq(Chunks) /\ faults' \in 0..Faults
    BY <1>2 DEF IInv, FileTyped
  <2>5. invalidate' \in BOOLEAN /\ shell' \in {"idle", "adding", "registering", "unlisted", "cleared"}
    BY <1>1, <1>2 DEF IInv, FileTyped
  <2> QED  BY <1>5, <2>1, <2>2, <2>3, <2>4, <2>5 DEF FileTyped
<1>9. ShellAt'
  BY <1>1, <1>2, <1>4, <1>5, <1>7 DEF ShellAt
<1>10. Started' /\ NoDeadProvider'
  BY <1>2, <1>4 DEF IInv, Started, NoDeadProvider
<1> QED
  BY <1>8, <1>9, <1>10 DEF IInv

LEMMA InitMetaHolds ==
  ASSUME IInv, NEW v \in Versions, InitMeta(v)
  PROVE  IInv'
<1> DEFINE old == [version |-> v, status |-> "DOWNLOADING", size |-> 0, matches |-> FALSE]
           m == Updated(old)
<1>1. /\ shell = "idle" /\ listed = 0 /\ Len(metas) < MaxIncarnations
      /\ metas' = Append(metas, m)
      /\ provider' = Append(provider, NoTask)
      /\ listed' = Len(metas') /\ shell' = "adding"
      /\ UNCHANGED <<entry, stopped, tasks, disk, invalidate, faults>>
  BY DEF InitMeta
<1>2. m \in Meta
  <2>1. old \in Meta
    BY DEF Meta
  <2>2. disk \in Seq(Chunks)
    BY DEF IInv, FileTyped
  <2> QED  BY <2>1, <2>2, UpdatedTyped
<1> HIDE DEF m
<1> QED
  BY <1>1, <1>2, NewIncarnation

LEMMA AddLocalHolds ==
  ASSUME IInv, NEW v \in Versions, AddLocal(v)
  PROVE  IInv'
<1> DEFINE m == [version |-> v, status |-> "READY", size |-> Size, matches |-> TRUE]
<1>1. /\ shell = "idle" /\ listed = 0 /\ Len(metas) < MaxIncarnations
      /\ metas' = Append(metas, m)
      /\ provider' = Append(provider, NoTask)
      /\ listed' = Len(metas') /\ shell' = "registering"
      /\ UNCHANGED <<entry, stopped, tasks, disk, invalidate, faults>>
  BY DEF AddLocal
<1>2. m \in Meta
  BY DownloadConstants DEF Meta
<1> HIDE DEF m
<1> QED
  BY <1>1, <1>2, NewIncarnation

\* A file of the user's becomes the entry; nobody downloads it.
LEMMA RegisterHolds == ASSUME IInv, Register  PROVE IInv'
<1>1. /\ shell = "registering" /\ entry' = Len(metas) /\ shell' = "idle"
      /\ UNCHANGED <<metas, listed, provider, stopped, tasks, disk, invalidate, faults>>
  BY DEF Register
<1>2. /\ Len(metas) \in Nat /\ listed = Len(metas) /\ provider[Len(metas)] = NoTask
  BY <1>1, LenProperties DEF IInv, FileTyped, ShellAt
<1>3. FileTyped'
  <2>1. provider' \in [Incarnations' -> Tasks \cup {NoTask}]
    BY <1>1 DEF IInv, FileTyped, Incarnations
  <2> QED  BY <1>1, <1>2, <2>1 DEF IInv, FileTyped
<1>4. ShellAt' /\ Started' /\ NoDeadProvider'
  BY <1>1, <1>2 DEF IInv, ShellAt, Started, NoDeadProvider
<1> QED
  BY <1>3, <1>4 DEF IInv

\* The new incarnation becomes the entry, and is downloaded.
LEMMA AddFileHolds ==
  ASSUME IInv, NEW t \in Tasks, AddFile(t)
  PROVE  IInv'
<1> DEFINE r == [at |-> "connecting", inc |-> Len(metas), offset |-> 0]
<1>1. /\ shell = "adding" /\ entry' = Len(metas) /\ shell' = "idle"
      /\ tasks' = [tasks EXCEPT ![t] = r]
      /\ UNCHANGED <<metas, listed, provider, stopped, disk, invalidate, faults>>
  BY DEF AddFile
<1>2. /\ Len(metas) \in Nat /\ Len(metas) # 0 /\ listed = Len(metas)
      /\ provider[Len(metas)] = NoTask
  BY <1>1, LenProperties DEF IInv, FileTyped, ShellAt
<1>3. r \in Task /\ r.inc = Len(metas)
  BY <1>2 DEF Task, Phases
<1> HIDE DEF r
<1>4. tasks \in [Tasks -> Task]
  BY DEF IInv, FileTyped, Task
<1>5. /\ tasks' \in [Tasks -> Task] /\ tasks'[t] = r
      /\ \A u \in Tasks : u # t => tasks'[u] = tasks[u]
  BY <1>1, <1>3, <1>4
<1>6. FileTyped'
  <2>1. Task' = Task /\ Incarnations' = Incarnations
    BY <1>1 DEF Task, Incarnations
  <2>2. tasks' \in [Tasks -> Task]'
    BY <1>5, <2>1
  <2>3. provider' \in [Incarnations -> Tasks \cup {NoTask}]'
    BY <1>1, <2>1 DEF IInv, FileTyped
  <2> QED  BY <1>1, <1>2, <2>2, <2>3 DEF IInv, FileTyped, Task
<1>7. ShellAt'
  BY <1>1, <1>2 DEF ShellAt
<1>8. Started'
  BY <1>2, <1>3, <1>5 DEF IInv, Started
<1>9. NoDeadProvider'
  BY <1>1, <1>2 DEF NoDeadProvider
<1> QED
  BY <1>6, <1>7, <1>8, <1>9 DEF IInv

\* The three steps of remove_file.
LEMMA RemoveHolds ==
  ASSUME IInv, RemoveFromRepository \/ ClearState \/ DeleteState
  PROVE  IInv'
<1>1. UNCHANGED <<metas, provider, tasks, disk, invalidate, faults>>
  BY DEF RemoveFromRepository, ClearState, DeleteState
<1>2. Len(metas) \in Nat
  BY LenProperties DEF IInv, FileTyped
<1>3. /\ shell' \in {"idle", "unlisted", "cleared"}
      /\ shell' = "idle" => listed = 0 /\ UNCHANGED listed /\ entry' = 0
      /\ shell' \in {"unlisted", "cleared"} => UNCHANGED entry /\ entry # 0 /\ listed' = 0
  BY DEF RemoveFromRepository, ClearState, DeleteState, IInv, ShellAt
<1>4. listed' \in 0..Len(metas) /\ entry' \in 0..Len(metas)
  BY <1>2, <1>3 DEF IInv, FileTyped
<1>5. stopped' \subseteq Tasks
  <2>1. CASE ClearState
    <3>1. entry \in Incarnations
      BY <1>2, <2>1 DEF ClearState, IInv, FileTyped, ShellAt, Incarnations
    <3>2. provider[entry] \in Tasks \cup {NoTask}
      BY <3>1 DEF IInv, FileTyped
    <3> QED  BY <2>1, <3>2 DEF ClearState, IInv, FileTyped
  <2>2. CASE RemoveFromRepository \/ DeleteState
    BY <2>2 DEF RemoveFromRepository, DeleteState, IInv, FileTyped
  <2> QED  BY <2>1, <2>2
<1>6. FileTyped'
  <2>1. provider' \in [Incarnations' -> Tasks \cup {NoTask}]
    BY <1>1 DEF IInv, FileTyped, Incarnations
  <2> QED  BY <1>1, <1>3, <1>4, <1>5, <2>1 DEF IInv, FileTyped
<1>7. ShellAt'
  BY <1>3 DEF ShellAt
<1>8. Started' /\ NoDeadProvider'
  BY <1>1, <1>3 DEF IInv, Started, NoDeadProvider, Holding
<1> QED
  BY <1>6, <1>7, <1>8 DEF IInv

-----------------------------------------------------------------------------
(* Stop, crash and launch *)

LEMMA LoadedTyped ==
  ASSUME disk \in Seq(Chunks), NEW m \in Meta
  PROVE  Loaded(m) \in Meta
<1> DEFINE u == Updated(m)
           s == CASE u.status = "READY" /\ ~IsValid(u) -> "INVALID"
                  [] u.status = "INVALID" /\ IsValid(u) -> "READY"
                  [] OTHER -> u.status
<1>1. u \in Meta
  BY UpdatedTyped
<1>2. Loaded(m) = [u EXCEPT !.status = s]
  BY DEF Loaded
<1> HIDE DEF u
<1>3. s \in {"DOWNLOADING", "READY", "INVALID"}
  <2>1. u.status \in {"DOWNLOADING", "READY", "INVALID"}
    BY <1>1 DEF Meta
  <2> QED  BY <2>1
<1> HIDE DEF s
<1> QED
  BY <1>1, <1>2, <1>3 DEF Meta

\* After a launch there is at most one incarnation, and no coroutine.
LEMMA RestartHolds ==
  ASSUME IInv, NEW found \in BOOLEAN, NEW queued \in BOOLEAN,
         Restart(found, queued)
  PROVE  IInv'
<1> DEFINE kept == listed # 0 /\ found
<1>1. /\ metas' = IF kept THEN <<Loaded(metas[listed])>> ELSE <<>>
      /\ provider' = [i \in 1..Len(metas') |-> NoTask]
      /\ listed' = Len(metas') /\ entry' = Len(metas')
      /\ stopped' = {} /\ tasks' = [t \in Tasks |-> Unused]
      /\ shell' = "idle" /\ UNCHANGED disk
  BY DEF Restart
<1>2. faults' \in 0..Faults /\ invalidate' \in BOOLEAN
  <2>1. faults' \in 0..Faults
    BY FaultTyped DEF Restart, IInv
  <2>2. invalidate' \in BOOLEAN
    BY Zenon DEF Restart, IInv, FileTyped
  <2> QED  BY <2>1, <2>2
<1>3. metas' \in Seq(Meta) /\ Len(metas') \in 0..1 /\ Len(metas') <= MaxIncarnations
  <2>1. /\ metas \in Seq(Meta) /\ Len(metas) \in Nat /\ Len(metas) <= MaxIncarnations
        /\ listed \in 0..Len(metas) /\ disk \in Seq(Chunks)
    BY LenProperties DEF IInv, FileTyped
  <2>2. CASE kept
    <3> DEFINE m == Loaded(metas[listed])
    <3>1. metas[listed] \in Meta
      BY <2>1, <2>2, ElementOfSeq
    <3>2. m \in Meta
      BY <2>1, <3>1, LoadedTyped
    <3>3. metas' = <<m>>
      BY <1>1, <2>2
    <3> HIDE DEF m
    <3>4. metas' \in Seq(Meta) /\ Len(metas') = 1
      BY <3>2, <3>3
    <3>5. 1 <= MaxIncarnations
      BY <2>1, <2>2, DownloadConstants
    <3> QED  BY <3>4, <3>5
  <2>3. CASE ~kept
    <3>1. metas' = <<>>
      BY <1>1, <2>3
    <3> QED  BY <3>1, DownloadConstants
  <2> QED  BY <2>2, <2>3
<1>4. Len(metas') \in Nat
  BY <1>3
<1>5. \A t \in Tasks : tasks'[t] = Unused
  BY <1>1
<1>6. FileTyped'
  <2>1. Unused \in [at : Phases \cup {"unused"}, inc : 0..Len(metas'), offset : Nat]
    BY <1>4 DEF Unused
  <2>2. tasks' \in [Tasks -> [at : Phases \cup {"unused"}, inc : 0..Len(metas'), offset : Nat]]
    BY <1>1, <2>1
  <2>3. provider' \in [Incarnations' -> Tasks \cup {NoTask}]
    BY <1>1 DEF Incarnations
  <2>4. disk' \in Seq(Chunks) /\ stopped' \subseteq Tasks
    BY <1>1 DEF IInv, FileTyped
  <2>5. listed' \in 0..Len(metas') /\ entry' \in 0..Len(metas')
    BY <1>1, <1>4
  <2> QED  BY <1>1, <1>2, <1>3, <2>2, <2>3, <2>4, <2>5 DEF FileTyped
<1>7. ShellAt'
  BY <1>1 DEF ShellAt
<1>8. Started'
  BY <1>5 DEF Started, Unused
<1>9. NoDeadProvider'
  <2>1. entry' # 0 => provider'[entry'] = NoTask
    BY <1>1, <1>4
  <2> QED  BY <2>1 DEF NoDeadProvider
<1> QED
  BY <1>6, <1>7, <1>8, <1>9 DEF IInv

-----------------------------------------------------------------------------
(* The invariant is inductive *)

LEMMA InitHolds == Init => IInv
<1> SUFFICES ASSUME Init  PROVE IInv
  OBVIOUS
<1>1. /\ metas = <<>> /\ listed = 0 /\ entry = 0 /\ provider = <<>> /\ stopped = {}
      /\ tasks = [t \in Tasks |-> Unused] /\ disk \in Leftovers
      /\ shell = "idle" /\ invalidate = FALSE /\ faults = 0
  BY DEF Init
<1>2. metas \in Seq(Meta) /\ Len(metas) = 0
  BY <1>1
<1>3. provider \in [Incarnations -> Tasks \cup {NoTask}]
  BY <1>1, <1>2 DEF Incarnations
<1>4. Unused \in Task /\ Unused.at = "unused"
  BY <1>2 DEF Unused, Task
<1>5. disk \in Seq(Chunks)
  BY <1>1, DownloadConstants DEF Chunks
<1>6. invalidate \in BOOLEAN
  BY <1>1, Zenon
<1>7. tasks \in [Tasks -> Task] /\ \A t \in Tasks : tasks[t].at = "unused"
  BY <1>1, <1>4
<1>8. FileTyped
  BY <1>1, <1>2, <1>3, <1>5, <1>6, <1>7, DownloadConstants DEF FileTyped, Task
<1>9. ShellAt /\ Started /\ NoDeadProvider
  BY <1>1, <1>7 DEF ShellAt, Started, NoDeadProvider
<1> QED
  BY <1>8, <1>9 DEF IInv

LEMMA StepHolds == IInv /\ [Next]_vars => IInv'
<1> SUFFICES ASSUME IInv, [Next]_vars  PROVE IInv'
  OBVIOUS
<1>1. CASE \E v \in Versions : InitMeta(v) \/ AddLocal(v)
  BY <1>1, InitMetaHolds, AddLocalHolds
<1>2. CASE \E t \in Tasks : AddFile(t) \/ MonitorRetries(t)
  BY <1>2, AddFileHolds, MonitorRetriesHolds
<1>3. ASSUME NEW t \in Tasks, Advance(t)  PROVE IInv'
  <2>1. CASE tasks[t].inc # 0 /\ Receive(t, metas[tasks[t].inc].version)
    <3>1. tasks[t].inc \in Incarnations
      <4>1. tasks[t] \in Task /\ Len(metas) \in Nat
        BY Typed
      <4> QED  BY <2>1, <4>1 DEF Task, Incarnations
    <3>2. metas[tasks[t].inc] \in Meta
      BY <3>1, Typed, ElementOfSeq DEF Incarnations
    <3>3. metas[tasks[t].inc].version \in Chunks
      BY <3>2 DEF Meta, Chunks
    <3> QED  BY <2>1, <3>3, ReceiveHolds
  <2> QED
    BY <1>3, <2>1, StartSearchHolds, PeerFoundHolds, ConnectHolds, RespondHolds,
       UpdateStatHolds, CheckValidHolds, PublishHolds, LeaveBlockHolds DEF Advance
<1>4. CASE RemoveFromRepository \/ ClearState \/ DeleteState
  BY <1>4, RemoveHolds
<1>8. CASE Register
  BY <1>8, RegisterHolds
<1>9. CASE \E found \in BOOLEAN : Restart(found, invalidate)
  <2>1. invalidate \in BOOLEAN
    BY DEF IInv, FileTyped
  <2> QED  BY <1>9, <2>1, RestartHolds
<1>5. CASE MonitorInvalidates \/ Invalidate
  BY <1>5, InvalidationHolds
<1>6. CASE \E t \in Tasks : \/ NoConnection(t) \/ SearchRaises(t)
                           \/ Receive(t, "junk") \/ CutShort(t) \/ Break(t)
  <2>1. "junk" \in Chunks
    BY DEF Chunks
  <2> QED  BY <1>6, <2>1, NoConnectionHolds, ReceiveHolds, FailHolds
<1>7. CASE UNCHANGED vars
  BY <1>7 DEF vars, IInv, FileTyped, Incarnations, ShellAt, Started, NoDeadProvider, Holding
<1> QED
  BY <1>1, <1>2, <1>3, <1>4, <1>5, <1>6, <1>7, <1>8, <1>9 DEF Next, Step

LEMMA Inductive == Spec => []IInv
  BY InitHolds, StepHolds, PTL DEF Spec

SearchTyped == results \in BOOLEAN

\* No step makes of the entry of the searches anything but a Boolean, ...
LEMMA ResultsOfAdvance ==
  ASSUME results \in BOOLEAN, NEW t \in Tasks, Advance(t)
  PROVE  results' \in BOOLEAN
<1>1. CASE StartSearch(t) \/ PeerFound(t) \/ Connect(t) \/ Respond(t)
  <2>1. results' \in {TRUE, FALSE, results}
    BY <1>1, Zenon DEF StartSearch, PeerFound, Connect, Respond
  <2> QED  BY <2>1, Zenon
<1>2. CASE Receive(t, metas[tasks[t].inc].version) \/ UpdateStat(t) \/ CheckValid(t)
           \/ Publish(t) \/ LeaveBlock(t)
  <2>1. results' = results
    BY <1>2, Zenon DEF Receive, UpdateStat, CheckValid, Publish, LeaveBlock
  <2> QED  BY <2>1, Zenon
<1> QED
  BY <1>1, <1>2 DEF Advance

\* ... a launch included.
LEMMA ResultsOfRestart ==
  ASSUME results \in BOOLEAN, NEW found, NEW queued, Restart(found, queued)
  PROVE  results' \in BOOLEAN
<1>1. results' \in {FALSE, results}
  BY Zenon DEF Restart
<1> QED
  BY <1>1, Zenon

LEMMA ResultsTyped == SearchTyped /\ [Next]_vars => SearchTyped'
<1> SUFFICES ASSUME results \in BOOLEAN, [Next]_vars  PROVE results' \in BOOLEAN
  BY DEF SearchTyped
<1>1. CASE \E t \in Tasks : Advance(t)
  BY <1>1, ResultsOfAdvance
<1>2. CASE \E found \in BOOLEAN : Restart(found, invalidate)
  BY <1>2, ResultsOfRestart
<1>3. ASSUME NEW t \in Tasks, NoConnection(t)  PROVE results' \in BOOLEAN
  BY <1>3, Zenon DEF NoConnection
<1>4. ASSUME UNCHANGED results  PROVE results' \in BOOLEAN
  BY <1>4, Zenon
<1>5. CASE \/ \E v \in Versions : InitMeta(v) \/ AddLocal(v)
           \/ Register \/ RemoveFromRepository \/ ClearState \/ DeleteState
           \/ MonitorInvalidates \/ Invalidate
  <2>1. UNCHANGED results
    BY <1>5, Zenon DEF InitMeta, AddLocal, Register, RemoveFromRepository, ClearState,
       DeleteState, MonitorInvalidates, Invalidate
  <2> QED  BY <1>4, <2>1
<1>6. CASE \E t \in Tasks : \/ AddFile(t) \/ MonitorRetries(t) \/ SearchRaises(t)
                           \/ Receive(t, "junk") \/ CutShort(t) \/ Break(t)
  <2>1. UNCHANGED results
    BY <1>6, Zenon DEF AddFile, MonitorRetries, SearchRaises, Receive, CutShort, Break
  <2> QED  BY <1>4, <2>1
<1>7. CASE UNCHANGED vars
  BY <1>4, <1>7 DEF vars
<1> QED
  BY <1>1, <1>2, <1>3, <1>5, <1>6, <1>7 DEF Next, Step

-----------------------------------------------------------------------------
(* Theorems *)

\* The variables keep their shapes, and remove_file tells only contexts that
\* exist to stop.
THEOREM TypeCorrect == Spec => []TypeOK
<1>1. IInv => FileTyped
  BY DEF IInv
<1>2. Init => SearchTyped
  BY Zenon DEF Init, SearchTyped
<1>3. FileTyped /\ SearchTyped => TypeOK
  BY DEF TypeOK, SearchTyped
<1> QED
  BY <1>1, <1>2, <1>3, ResultsTyped, Inductive, PTL DEF Spec

\* The entry of a name never keeps the provider of a task that is over, though
\* __exit__ and remove_provider work by name and across removals: the monitor,
\* which passes over files with a provider, passes over no abandoned download.
THEOREM ProviderIsAlive == Spec => []NoDeadProvider
<1>1. IInv => NoDeadProvider
  BY DEF IInv
<1> QED
  BY <1>1, Inductive, PTL

=============================================================================
