-------------------------- MODULE DownloadsFirstProofs --------------------------
(***************************************************************************)
(* Theorems about what the name stands for first since the launch: its     *)
(* download has one receiver, and it is READY only with its whole content, *)
(* for any number of attempts, failures, crashes, chunks and leftovers.    *)
(* Once a file has been removed, an attempt of before may be alive, and    *)
(* neither need hold (the run downloads_two_receivers).                    *)
(***************************************************************************)
EXTENDS DownloadsProofs

Early == Len(metas) = 1

\* The next incarnation is made when the one before has been removed.
EntryIsLast == entry \in {0, Len(metas)}

\* Nobody works on the name before it is an entry.
Quiet ==
    Len(metas) = 0 \/ (Early /\ shell \in {"adding", "registering"}) =>
        \A t \in Tasks : tasks[t].at = "unused"

\* One task is in the block, the provider of the entry.
Alone ==
    /\ \A t, u \in Tasks : Holding(t) /\ Holding(u) => t = u
    /\ entry # 0 => \A t \in Tasks : Holding(t) => provider[entry] = t

IsWhole(m, d) == d = Content(m.version) /\ IsValid(m)

\* What a task has found out about the file it received is still true, ...
Justified(r, m, d) ==
    /\ r.at = "checking" /\ m.matches => d = Content(m.version)
    /\ r.at = "publishing" => IsWhole(m, d)

Judged == \A t \in Tasks : Justified(tasks[t], metas[1], disk)

\* ... and nobody is to write a file that is READY.
Calm(r) == r.at # "reading" /\ (r.at = "waiting" => r.offset >= Size)

Whole ==
    metas[1].status = "READY" =>
        IsWhole(metas[1], disk) /\ \A t \in Tasks : Calm(tasks[t])

FInv == EntryIsLast /\ Quiet /\ (Early => Alone /\ Judged /\ Whole)

-----------------------------------------------------------------------------
(* Data *)

LEMMA ContentHas ==
  ASSUME NEW v, NEW d \in Seq(Chunks), d = Content(v)
  PROVE  Len(d) = Size
<1> DEFINE n == Size
           c == [i \in 1..n |-> v]
<1>1. n \in Nat
  BY DownloadConstants
<1>2. d = c
  BY DEF Content
<1> HIDE DEF n
<1>3. c \in Seq({v}) /\ Len(c) = n
  BY <1>1
<1> QED
  BY <1>2, <1>3 DEF n

\* To measure a file changes nothing but what is measured.
LEMMA UpdatedHas ==
  ASSUME disk \in Seq(Chunks), NEW m \in Meta
  PROVE  /\ Updated(m).version = m.version
         /\ Updated(m).status = m.status
         /\ Updated(m).size = Len(disk)
         /\ Updated(m).matches <=> disk = Content(m.version)
<1> DEFINE b == disk = Content(m.version)
           l == Len(disk)
           e == [[m EXCEPT !.size = l] EXCEPT !.matches = b]
<1>1. Updated(m) = e
  BY DEF Updated
<1>2. b \in BOOLEAN
  OBVIOUS
<1>3. e.matches <=> b
  <2> HIDE DEF b, l
  <2>1. e.matches = b
    BY DEF Meta
  <2> QED  BY <2>1, Zenon
<1>4. e.version = m.version /\ e.status = m.status /\ e.size = l
  <2> HIDE DEF b, l
  <2> QED  BY DEF Meta
<1> HIDE DEF e
<1> QED
  BY <1>1, <1>3, <1>4

LEMMA TruncatedAtEnd ==
  ASSUME NEW d \in Seq(Chunks)
  PROVE  Truncated(d, Len(d)) = d
<1>1. DOMAIN d = 1..Len(d)
  BY LenProperties
<1>2. d = [i \in 1..Len(d) |-> d[i]]
  BY <1>1
<1>3. Truncated(d, Len(d)) = [i \in 1..Len(d) |-> d[i]]
  BY DEF Truncated
<1> QED
  BY <1>2, <1>3

LEMMA EarlyTyped ==
  ASSUME IInv, Early
  PROVE  /\ metas \in Seq(Meta) /\ metas[1] \in Meta /\ disk \in Seq(Chunks)
         /\ Incarnations = {1}
         /\ entry \in {0, 1} /\ listed \in {0, 1}
         /\ provider \in [{1} -> Tasks \cup {NoTask}]
         /\ tasks \in [Tasks -> Task]
         /\ \A t \in Tasks : tasks[t].at \notin {"unused", "spawned"} => tasks[t].inc = 1
<1>1. metas \in Seq(Meta) /\ Len(metas) = 1 /\ disk \in Seq(Chunks)
  BY DEF IInv, FileTyped, Early
<1>2. metas[1] \in Meta
  <2>1. 1 \in 1..Len(metas)
    BY <1>1
  <2> QED  BY <1>1, <2>1, ElementOfSeq
<1>3. Incarnations = {1}
  BY <1>1 DEF Incarnations
<1>4. entry \in {0, 1} /\ listed \in {0, 1}
  BY <1>1 DEF IInv, FileTyped
<1>5. provider \in [{1} -> Tasks \cup {NoTask}]
  BY <1>3 DEF IInv, FileTyped
<1>6. tasks \in [Tasks -> Task]
  BY DEF IInv, FileTyped, Task
<1>7. \A t \in Tasks : tasks[t].at \notin {"unused", "spawned"} => tasks[t].inc = 1
  BY <1>1, <1>6 DEF IInv, Started, Task
<1> QED
  BY <1>1, <1>2, <1>3, <1>4, <1>5, <1>6, <1>7

-----------------------------------------------------------------------------
(* The steps of a task *)

\* A step may leave the block with the provider, or enter it without one.
Places(t, r) ==
    \/ UNCHANGED provider /\ (r.at \in InBlock => Holding(t))
    \/ Holding(t) /\ r.at \notin InBlock /\ provider' = Released
    \/ /\ entry # 0 /\ provider[entry] = NoTask
       /\ provider' = [provider EXCEPT ![entry] = t]

\* Who writes the file or its metadata is in the block, or nobody is.
Writes(t, r) ==
    \/ /\ UNCHANGED <<metas, disk>>
       /\ Justified(r, metas[1], disk)
       /\ metas[1].status = "READY" => Calm(r)
    \/ /\ Holding(t) \/ (entry # 0 /\ provider[entry] = NoTask)
       /\ Justified(r, metas'[1], disk')
       /\ metas'[1].status = "READY" => IsWhole(metas'[1], disk') /\ Calm(r)

LEMMA AloneKept ==
  ASSUME IInv, Early, Alone, NEW t \in Tasks, NEW r \in Task,
         tasks' = [tasks EXCEPT ![t] = r], UNCHANGED entry, Places(t, r)
  PROVE  Alone'
<1>1. tasks'[t] = r /\ \A u \in Tasks : u # t => tasks'[u] = tasks[u]
  BY EarlyTyped
<1>2. NoTask \notin Tasks
  BY DownloadConstants DEF NoTask
<1>3. CASE UNCHANGED provider /\ (r.at \in InBlock => Holding(t))
  BY <1>1, <1>3 DEF Alone, Holding, InBlock
<1>4. CASE Holding(t) /\ r.at \notin InBlock /\ provider' = Released
  <2>1. \A u \in Tasks : ~Holding(u)'
    BY <1>1, <1>4 DEF Alone, Holding, InBlock
  <2> QED  BY <2>1 DEF Alone
<1>5. CASE /\ entry # 0 /\ provider[entry] = NoTask
           /\ provider' = [provider EXCEPT ![entry] = t]
  <2>1. \A u \in Tasks : ~Holding(u)
    BY <1>2, <1>5 DEF Alone
  <2>2. \A u \in Tasks : Holding(u)' => u = t
    BY <1>1, <2>1 DEF Holding
  <2>3. provider'[entry] = t
    BY <1>5, EarlyTyped
  <2> QED  BY <2>2, <2>3 DEF Alone
<1> QED
  BY <1>3, <1>4, <1>5 DEF Places

LEMMA ContentsKept ==
  ASSUME IInv, Early, Alone, Judged, Whole, NEW t \in Tasks, NEW r \in Task,
         tasks' = [tasks EXCEPT ![t] = r], Writes(t, r)
  PROVE  Judged' /\ Whole'
<1>1. tasks'[t] = r /\ \A u \in Tasks : u # t => tasks'[u] = tasks[u]
  BY EarlyTyped
<1>2. CASE /\ UNCHANGED <<metas, disk>>
           /\ Justified(r, metas[1], disk)
           /\ metas[1].status = "READY" => Calm(r)
  <2>1. Judged'
    BY <1>1, <1>2 DEF Judged
  <2>2. Whole'
    BY <1>1, <1>2 DEF Whole
  <2> QED  BY <2>1, <2>2
<1>3. CASE /\ Holding(t) \/ (entry # 0 /\ provider[entry] = NoTask)
           /\ Justified(r, metas'[1], disk')
           /\ metas'[1].status = "READY" => IsWhole(metas'[1], disk') /\ Calm(r)
  <2>1. NoTask \notin Tasks
    BY DownloadConstants DEF NoTask
  <2>2. \A u \in Tasks : u # t => ~Holding(u)
    BY <1>3, <2>1 DEF Alone
  <2>3. \A u \in Tasks : u # t => tasks'[u].at \notin InBlock
    BY <1>1, <2>2 DEF Holding, InBlock
  <2>4. \A u \in Tasks : u # t =>
           Justified(tasks'[u], metas'[1], disk') /\ Calm(tasks'[u])
    BY <2>3 DEF Justified, Calm, InBlock
  <2>5. Judged'
    BY <1>1, <1>3, <2>4 DEF Judged
  <2>6. Whole'
    BY <1>1, <1>3, <2>4 DEF Whole
  <2> QED  BY <2>5, <2>6
<1> QED
  BY <1>2, <1>3 DEF Writes

LEMMA TaskKeeps ==
  ASSUME IInv, FInv, NEW t \in Tasks, NEW r \in Task,
         tasks' = [tasks EXCEPT ![t] = r],
         tasks[t].at # "unused" \/ entry # 0,
         UNCHANGED <<entry, shell>>, Len(metas') = Len(metas),
         Early => Places(t, r) /\ Writes(t, r)
  PROVE  FInv'
<1>1. EntryIsLast'
  BY DEF FInv, EntryIsLast
<1>2. ~(Len(metas) = 0 \/ (Early /\ shell \in {"adding", "registering"}))
  <2>1. CASE tasks[t].at # "unused"
    BY <2>1 DEF FInv, Quiet
  <2>2. CASE entry # 0
    BY <2>2 DEF FInv, EntryIsLast, IInv, ShellAt
  <2> QED  BY <2>1, <2>2
<1>3. Quiet'
  BY <1>2 DEF Quiet, Early
<1>4. ASSUME Early'  PROVE Alone' /\ Judged' /\ Whole'
  <2>1. Early
    BY <1>4 DEF Early
  <2> QED  BY <2>1, AloneKept, ContentsKept DEF FInv
<1> QED
  BY <1>1, <1>3, <1>4 DEF FInv

\* A step outside the block, or before it.
LEMMA OutsideKeeps ==
  ASSUME IInv, FInv, NEW t \in Tasks, NEW r \in Task,
         tasks' = [tasks EXCEPT ![t] = r],
         r.at \in {"unused", "searching", "connecting"}, tasks[t].at # "unused",
         UNCHANGED <<metas, entry, provider, disk, shell>>
  PROVE  FInv'
<1>1. Places(t, r)
  BY DEF Places, InBlock
<1>2. Writes(t, r)
  BY DEF Writes, Justified, Calm
<1> QED
  BY <1>1, <1>2, TaskKeeps

\* The end of the block, with a file that is whole if it is READY.
LEMMA LeaveKeeps ==
  ASSUME IInv, FInv, NEW t \in Tasks, Holding(t), Leave(t),
         UNCHANGED <<entry, shell>>, Len(metas') = Len(metas),
         Early /\ metas'[1].status = "READY" => IsWhole(metas'[1], disk')
  PROVE  FInv'
<1>1. Unused \in Task /\ Unused.at = "unused"
  BY UnusedTyped DEF IInv
<1>2. tasks' = [tasks EXCEPT ![t] = Unused] /\ provider' = Released
  BY DEF Leave, End
<1> HIDE DEF Unused
<1>3. Places(t, Unused)
  BY <1>1, <1>2 DEF Places, InBlock
<1>4. Early => Writes(t, Unused)
  BY <1>1 DEF Writes, Justified, Calm
<1>5. tasks[t].at # "unused"
  BY DEF Holding
<1> QED
  BY <1>1, <1>2, <1>3, <1>4, <1>5, TaskKeeps

\* A step inside it.
LEMMA InsideKeeps ==
  ASSUME IInv, FInv, NEW t \in Tasks, Holding(t), NEW r \in Task,
         tasks' = [tasks EXCEPT ![t] = r], r.at \in InBlock,
         UNCHANGED <<entry, provider, shell>>, Len(metas') = Len(metas),
         Early => Writes(t, r)
  PROVE  FInv'
<1>1. Places(t, r)
  BY DEF Places
<1>2. tasks[t].at # "unused"
  BY DEF Holding
<1> QED
  BY <1>1, <1>2, TaskKeeps

LEMMA StartSearchKeeps ==
  ASSUME IInv, FInv, NEW t \in Tasks, StartSearch(t)  PROVE FInv'
<1>1. /\ tasks[t].at = "spawned"
      /\ UNCHANGED <<metas, entry, provider, disk, shell>>
  BY DEF StartSearch
<1>2. CASE End(t)
  <2>1. Unused \in Task /\ Unused.at = "unused"
    BY UnusedTyped DEF IInv
  <2> QED  BY <1>1, <1>2, <2>1, OutsideKeeps DEF End
<1>3. CASE ~End(t)
  <2> DEFINE r == [tasks[t] EXCEPT !.at = "searching"]
             q == [r EXCEPT !.inc = entry]
  <2>1. tasks' = [tasks EXCEPT ![t] = q]
    BY <1>3 DEF StartSearch
  <2>2. r \in Task
    BY Typed, TaskAt DEF Phases
  <2>3. r.at = "searching"
    BY Typed, TaskAt DEF Phases
  <2>4. entry \in 0..Len(metas)
    BY DEF IInv, FileTyped
  <2> HIDE DEF r
  <2>5. q \in Task /\ q.at = "searching"
    BY <2>2, <2>3, <2>4 DEF Task
  <2> HIDE DEF q
  <2> QED  BY <1>1, <2>1, <2>5, OutsideKeeps
<1> QED
  BY <1>2, <1>3

LEMMA PeerFoundKeeps ==
  ASSUME IInv, FInv, NEW t \in Tasks, PeerFound(t)  PROVE FInv'
<1> DEFINE q == [tasks[t] EXCEPT !.at = "connecting"]
<1>1. /\ tasks[t].at = "searching" /\ tasks' = [tasks EXCEPT ![t] = q]
      /\ UNCHANGED <<metas, entry, provider, disk, shell>>
  BY DEF PeerFound, Move
<1>2. q \in Task /\ q.at = "connecting"
  BY Typed, TaskAt DEF Phases
<1> HIDE DEF q
<1> QED
  BY <1>1, <1>2, OutsideKeeps

LEMMA NoConnectionKeeps ==
  ASSUME IInv, FInv, NEW t \in Tasks, NoConnection(t) \/ SearchRaises(t)  PROVE FInv'
<1>1. /\ tasks[t].at \in {"spawned", "searching", "connecting"}
      /\ tasks' = [tasks EXCEPT ![t] = Unused]
      /\ UNCHANGED <<metas, entry, provider, disk, shell>>
  BY DEF NoConnection, SearchRaises, End
<1>2. Unused \in Task /\ Unused.at = "unused"
  BY UnusedTyped DEF IInv
<1> QED
  BY <1>1, <1>2, OutsideKeeps

\* Of a file that is READY nothing is asked: it has its full size.
LEMMA ConnectKeeps ==
  ASSUME IInv, FInv, NEW t \in Tasks, Connect(t)  PROVE FInv'
<1>1. /\ tasks[t].at = "connecting"
      /\ UNCHANGED <<metas, listed, entry, stopped, disk, shell>>
  BY DEF Connect
<1>2. CASE ~ProviderAccepted
  <2>1. tasks' = [tasks EXCEPT ![t] = Unused] /\ UNCHANGED provider
    BY <1>2 DEF Connect, End
  <2>2. Unused \in Task /\ Unused.at = "unused"
    BY UnusedTyped DEF IInv
  <2> QED  BY <1>1, <2>1, <2>2, OutsideKeeps
<1>3. CASE ProviderAccepted
  <2> DEFINE n == metas[tasks[t].inc].size
             q == [[tasks[t] EXCEPT !.at = "waiting"] EXCEPT !.offset = n]
  <2>1. /\ entry # 0 /\ provider[entry] = NoTask
        /\ provider' = [provider EXCEPT ![entry] = t]
        /\ tasks' = [tasks EXCEPT ![t] = q]
    BY <1>3 DEF Connect, ProviderAccepted
  <2>2. tasks[t] \in Task /\ tasks[t].inc \in Incarnations
    BY <1>1, Typed
  <2>3. metas[tasks[t].inc] \in Meta
    BY <2>2, Typed, ElementOfSeq DEF Incarnations
  <2>4. n \in Nat /\ "waiting" \in Phases
    BY <2>3 DEF Meta, Phases
  <2>5. Early => n = metas[1].size
    BY <1>1, EarlyTyped
  <2> HIDE DEF n
  <2>6. q \in Task /\ q.at = "waiting"
    BY <2>2, <2>4, TaskAtOffset
  <2>7. q.offset = n
    BY <2>2 DEF Task
  <2> HIDE DEF q
  <2>8. Places(t, q)
    BY <2>1 DEF Places
  <2>9. Early => Writes(t, q)
    <3> SUFFICES ASSUME Early  PROVE Writes(t, q)
      OBVIOUS
    <3>1. metas[1].status = "READY" => q.offset >= Size
      BY <2>5, <2>7, DownloadConstants DEF FInv, Whole, IsWhole, IsValid
    <3> QED  BY <1>1, <2>6, <3>1 DEF Writes, Justified, Calm
  <2> QED  BY <1>1, <2>1, <2>6, <2>8, <2>9, TaskKeeps
<1> QED
  BY <1>2, <1>3

\* The receiving loop, at an offset; a file that is READY is not written.
LEMMA ReceivingKeeps ==
  ASSUME IInv, FInv, NEW t \in Tasks, NEW n \in Nat, NEW d \in Seq(Chunks),
         tasks[t].at \in {"waiting", "reading"}, Receiving(t, n, d),
         UNCHANGED <<entry, shell>>, Len(metas') = Len(metas),
         Early /\ metas'[1].status = "READY" => n = Size /\ IsWhole(metas'[1], d)
  PROVE  FInv'
<1>1. Holding(t) /\ tasks[t] \in Task /\ {"reading", "stat"} \subseteq Phases
      /\ {"reading", "stat"} \subseteq InBlock
  BY Typed DEF Holding, Phases, InBlock
<1>2. Size \in Nat
  BY DownloadConstants
<1>3. CASE n < Size /\ t \notin stopped
  <2> DEFINE q == [[tasks[t] EXCEPT !.at = "reading"] EXCEPT !.offset = n]
  <2>1. tasks' = [tasks EXCEPT ![t] = q] /\ UNCHANGED provider
    BY <1>3 DEF Receiving
  <2>2. q \in Task /\ q.at = "reading"
    BY <1>1, TaskAtOffset
  <2> HIDE DEF q
  <2>3. Early => Writes(t, q)
    BY <1>1, <1>2, <1>3, <2>2 DEF Writes, Justified
  <2> QED  BY <1>1, <2>1, <2>2, <2>3, InsideKeeps
<1>4. CASE ~(n < Size /\ t \notin stopped) /\ n < Size
  <2>1. Leave(t)
    BY <1>4 DEF Receiving
  <2>2. ~(Early /\ metas'[1].status = "READY")
    BY <1>2, <1>4
  <2> QED  BY <1>1, <2>1, <2>2, LeaveKeeps
<1>5. CASE ~(n < Size /\ t \notin stopped) /\ ~(n < Size)
  <2> DEFINE q == [tasks[t] EXCEPT !.at = "stat"]
  <2>1. /\ tasks' = [tasks EXCEPT ![t] = q] /\ UNCHANGED provider
        /\ disk' = Truncated(d, n)
    BY <1>5 DEF Receiving, Move
  <2>2. q \in Task /\ q.at = "stat"
    BY <1>1, TaskAt
  <2> HIDE DEF q
  <2>3. Early => Writes(t, q)
    <3> SUFFICES ASSUME Early  PROVE Writes(t, q)
      OBVIOUS
    <3>1. metas'[1].status = "READY" => IsWhole(metas'[1], disk')
      <4> SUFFICES ASSUME metas'[1].status = "READY"  PROVE IsWhole(metas'[1], disk')
        OBVIOUS
      <4>1. n = Size /\ IsWhole(metas'[1], d)
        OBVIOUS
      <4>2. Len(d) = n
        BY <4>1, ContentHas DEF IsWhole
      <4>3. disk' = d
        BY <2>1, <4>2, TruncatedAtEnd
      <4> QED  BY <4>1, <4>3
    <3> QED  BY <1>1, <2>2, <3>1 DEF Writes, Justified, Calm
  <2> QED  BY <1>1, <2>1, <2>2, <2>3, InsideKeeps
<1> QED
  BY <1>3, <1>4, <1>5

LEMMA RespondKeeps ==
  ASSUME IInv, FInv, NEW t \in Tasks, Respond(t)  PROVE FInv'
<1> DEFINE n == tasks[t].offset
<1>1. /\ tasks[t].at = "waiting" /\ UNCHANGED <<metas, entry, shell>>
      /\ IF n > Size THEN Leave(t) /\ UNCHANGED disk ELSE Receiving(t, n, disk)
  BY DEF Respond
<1>2. n \in Nat /\ disk \in Seq(Chunks) /\ Holding(t) /\ Size \in Nat
  BY <1>1, Typed, DownloadConstants DEF Task, Holding
<1>3. Early /\ metas[1].status = "READY" => IsWhole(metas[1], disk) /\ n >= Size
  BY <1>1 DEF FInv, Whole, Calm
<1> HIDE DEF n
<1>4. CASE n > Size
  <2>1. Leave(t) /\ UNCHANGED disk
    BY <1>1, <1>4
  <2> QED  BY <1>1, <1>2, <1>3, <2>1, LeaveKeeps
<1>5. CASE ~(n > Size)
  <2>1. Receiving(t, n, disk)
    BY <1>1, <1>5
  <2>2. Early /\ metas'[1].status = "READY" => n = Size /\ IsWhole(metas'[1], disk)
    BY <1>1, <1>2, <1>3, <1>5
  <2> QED  BY <1>1, <1>2, <2>1, <2>2, ReceivingKeeps
<1> QED
  BY <1>4, <1>5

LEMMA ReceiveKeeps ==
  ASSUME IInv, FInv, NEW t \in Tasks, NEW chunk \in Chunks, Receive(t, chunk)
  PROVE  FInv'
<1> DEFINE d == Written(disk, tasks[t].offset, chunk)
           n == tasks[t].offset + 1
<1>1. /\ tasks[t].at = "reading" /\ UNCHANGED <<entry, shell>>
      /\ IF entry = 0
         THEN Leave(t) /\ disk' = d /\ UNCHANGED metas
         ELSE Receiving(t, n, d) /\ metas' = [metas EXCEPT ![entry].size = n]
  BY DEF Receive
<1>2. n \in Nat /\ d \in Seq(Chunks)
  <2>1. tasks[t].offset \in Nat /\ disk \in Seq(Chunks)
    BY Typed DEF Task
  <2>2. n \in Nat
    BY <2>1
  <2>3. d \in Seq(Chunks)
    BY <2>1, WrittenTyped, Zenon
  <2> QED  BY <2>2, <2>3
<1>3. Early => metas[1].status # "READY"
  BY <1>1 DEF FInv, Whole, Calm
<1>4. Holding(t)
  BY <1>1 DEF Holding
<1> HIDE DEF d, n
<1>5. CASE entry = 0
  <2>1. Leave(t) /\ UNCHANGED metas
    BY <1>1, <1>5
  <2> QED  BY <1>1, <1>3, <1>4, <2>1, LeaveKeeps
<1>6. CASE entry # 0
  <2>1. Receiving(t, n, d) /\ metas' = [metas EXCEPT ![entry].size = n]
    BY <1>1, <1>6
  <2>2. Len(metas') = Len(metas)
    BY <1>2, <1>6, <2>1, Typed, MetasSized
  <2>3. Early => metas'[1].status # "READY"
    <3> SUFFICES ASSUME Early  PROVE metas'[1].status # "READY"
      OBVIOUS
    <3>1. entry = 1 /\ metas[1] \in Meta /\ metas \in Seq(Meta) /\ 1 \in DOMAIN metas
      BY <1>6, EarlyTyped, LenProperties DEF Early
    <3>2. metas'[1] = [metas[1] EXCEPT !.size = n]
      BY <2>1, <3>1
    <3> QED  BY <1>3, <3>1, <3>2 DEF Meta
  <2> QED  BY <1>1, <1>2, <2>1, <2>2, <2>3, ReceivingKeeps
<1> QED
  BY <1>5, <1>6

LEMMA FailKeeps ==
  ASSUME IInv, FInv, NEW t \in Tasks, CutShort(t) \/ Break(t)  PROVE FInv'
<1>1. Leave(t) /\ UNCHANGED <<metas, entry, shell>> /\ Holding(t)
  BY DEF CutShort, Break, Holding
<1>2. CASE CutShort(t)
  <2>1. Early => metas[1].status # "READY"
    BY <1>2 DEF CutShort, FInv, Whole, Calm
  <2> QED  BY <1>1, <2>1, LeaveKeeps
<1>3. CASE Break(t)
  <2>1. UNCHANGED disk
    BY <1>3 DEF Break
  <2> QED  BY <1>1, <2>1, LeaveKeeps DEF FInv, Whole
<1> QED
  BY <1>2, <1>3

\* What an assignment in place does to the first metadata.
LEMMA FirstExcept ==
  ASSUME IInv, Early, NEW m \in Meta, metas' = [metas EXCEPT ![1] = m]
  PROVE  metas'[1] = m /\ Len(metas') = Len(metas)
<1>1. metas \in Seq(Meta) /\ 1 \in Incarnations
  BY EarlyTyped
<1>2. 1 \in DOMAIN metas
  BY <1>1, LenProperties DEF Incarnations
<1> QED
  BY <1>1, <1>2, MetasExcept

\* The file is measured: the result is true, and a READY file stays whole.
LEMMA UpdateStatKeeps ==
  ASSUME IInv, FInv, NEW t \in Tasks, UpdateStat(t)  PROVE FInv'
<1> DEFINE m == Updated(metas[listed])
           q == [tasks[t] EXCEPT !.at = "checking"]
<1>1. /\ tasks[t].at = "stat" /\ UNCHANGED <<entry, disk, shell>>
      /\ IF listed = 0
         THEN Leave(t) /\ UNCHANGED metas
         ELSE /\ metas' = [metas EXCEPT ![listed] = m]
              /\ tasks' = [tasks EXCEPT ![t] = q]
              /\ UNCHANGED provider
  BY DEF UpdateStat, Move
<1>2. Holding(t)
  BY <1>1 DEF Holding
<1>3. CASE listed = 0
  <2>1. Leave(t) /\ UNCHANGED metas
    BY <1>1, <1>3
  <2> QED  BY <1>1, <1>2, <2>1, LeaveKeeps DEF FInv, Whole
<1>4. CASE listed # 0
  <2>1. metas[listed] \in Meta /\ listed \in Incarnations /\ disk \in Seq(Chunks)
    BY <1>4, Typed, ElementOfSeq DEF Incarnations
  <2>2. m \in Meta
    BY <2>1, UpdatedTyped
  <2>3. /\ m.version = metas[listed].version /\ m.status = metas[listed].status
        /\ m.size = Len(disk)
        /\ m.matches <=> disk = Content(metas[listed].version)
    BY <2>1, UpdatedHas
  <2>4. q \in Task /\ q.at = "checking" /\ "checking" \in InBlock
    BY Typed, TaskAt DEF Phases, InBlock
  <2>5. tasks' = [tasks EXCEPT ![t] = q] /\ metas' = [metas EXCEPT ![listed] = m]
        /\ UNCHANGED provider
    BY <1>1, <1>4
  <2> HIDE DEF m, q
  <2>6. Len(metas') = Len(metas)
    BY <2>1, <2>2, <2>5, Typed, MetasExcept
  <2>7. ASSUME Early  PROVE Writes(t, q)
    <3>1. listed = 1
      BY <1>4, <2>7, EarlyTyped
    <3>2. metas'[1] = m
      BY <2>2, <2>5, <2>7, <3>1, FirstExcept
    <3>3. Justified(q, metas'[1], disk')
      BY <1>1, <2>3, <2>4, <3>2 DEF Justified
    <3>4. m.status = "READY" => IsWhole(m, disk)
      <4> SUFFICES ASSUME m.status = "READY"  PROVE IsWhole(m, disk)
        OBVIOUS
      <4>1. IsWhole(metas[1], disk)
        BY <2>3, <2>7, <3>1 DEF FInv, Whole
      <4>2. Len(disk) = Size
        BY <2>1, <4>1, ContentHas DEF IsWhole
      <4>3. disk = Content(m.version) /\ m.size = Size
        BY <2>3, <3>1, <4>1, <4>2 DEF IsWhole
      <4>4. m.matches
        BY <2>3, <2>7, <3>1, <4>1 DEF IsWhole
      <4> QED  BY <4>3, <4>4 DEF IsWhole, IsValid
    <3>5. Calm(q)
      BY <2>4 DEF Calm
    <3> QED  BY <1>1, <1>2, <3>2, <3>3, <3>4, <3>5 DEF Writes
  <2> QED  BY <1>1, <1>2, <2>4, <2>5, <2>6, <2>7, InsideKeeps
<1> QED
  BY <1>3, <1>4

LEMMA CheckValidKeeps ==
  ASSUME IInv, FInv, NEW t \in Tasks, CheckValid(t)  PROVE FInv'
<1> DEFINE q == [tasks[t] EXCEPT !.at = "publishing"]
           m == metas[tasks[t].inc]
<1>1. /\ tasks[t].at = "checking" /\ UNCHANGED <<metas, entry, disk, shell>>
      /\ IF IsValid(m)
         THEN tasks' = [tasks EXCEPT ![t] = q] /\ UNCHANGED provider
         ELSE Leave(t)
  BY DEF CheckValid, Move
<1>2. Holding(t)
  BY <1>1 DEF Holding
<1>3. CASE ~IsValid(m)
  <2>1. Leave(t)
    BY <1>1, <1>3
  <2> QED  BY <1>1, <1>2, <2>1, LeaveKeeps DEF FInv, Whole
<1>4. CASE IsValid(m)
  <2>1. q \in Task /\ q.at = "publishing" /\ "publishing" \in InBlock
    BY Typed, TaskAt DEF Phases, InBlock
  <2>2. tasks' = [tasks EXCEPT ![t] = q] /\ UNCHANGED provider
    BY <1>1, <1>4
  <2> HIDE DEF q
  <2>3. ASSUME Early  PROVE Writes(t, q)
    <3>1. m = metas[1]
      BY <1>1, <2>3, EarlyTyped
    <3>2. IsWhole(metas[1], disk)
      <4>1. Justified(tasks[t], metas[1], disk)
        BY <2>3 DEF FInv, Judged
      <4>2. metas[1].matches
        BY <1>4, <3>1 DEF IsValid
      <4> QED  BY <1>1, <1>4, <3>1, <4>1, <4>2 DEF Justified, IsWhole
    <3>3. Justified(q, metas[1], disk) /\ Calm(q)
      BY <2>1, <3>2 DEF Justified, Calm
    <3> QED  BY <1>1, <3>3 DEF Writes
  <2> QED  BY <1>1, <1>2, <2>1, <2>2, <2>3, InsideKeeps
<1> QED
  BY <1>3, <1>4

\* The only step of a task that makes a file READY.
LEMMA PublishKeeps ==
  ASSUME IInv, FInv, NEW t \in Tasks, Publish(t)  PROVE FInv'
<1> DEFINE q == [tasks[t] EXCEPT !.at = "leaving"]
           m == [metas[1] EXCEPT !.status = "READY"]
<1>1. /\ tasks[t].at = "publishing" /\ tasks' = [tasks EXCEPT ![t] = q]
      /\ metas' = IF listed = 0 THEN metas ELSE [metas EXCEPT ![listed].status = "READY"]
      /\ UNCHANGED <<entry, provider, disk, shell>>
  BY DEF Publish, Move
<1>2. q \in Task /\ q.at = "leaving" /\ "leaving" \in InBlock
  BY Typed, TaskAt DEF Phases, InBlock
<1>3. Len(metas') = Len(metas)
  BY <1>1, Typed, MetasMarked
<1>4. Holding(t)
  BY <1>1 DEF Holding
<1> HIDE DEF q
<1>5. ASSUME Early  PROVE Writes(t, q)
  <2>1. IsWhole(metas[1], disk) /\ metas[1] \in Meta /\ listed \in {0, 1}
    BY <1>1, <1>5, EarlyTyped DEF FInv, Judged, Justified
  <2>2. Justified(q, metas'[1], disk') /\ Calm(q)
    BY <1>2 DEF Justified, Calm
  <2>3. IsWhole(metas'[1], disk)
    <3>1. CASE listed = 0
      BY <1>1, <2>1, <3>1
    <3>2. CASE listed = 1
      <4>1. /\ m \in Meta /\ m.size = metas[1].size /\ m.version = metas[1].version
            /\ m.matches = metas[1].matches
        BY <2>1 DEF Meta
      <4>2. metas' = [metas EXCEPT ![1] = m]
        BY <1>1, <3>2
      <4> HIDE DEF m
      <4>3. metas'[1] = m
        BY <1>5, <4>1, <4>2, FirstExcept
      <4> QED  BY <2>1, <4>1, <4>3 DEF IsWhole, IsValid
    <3> QED  BY <2>1, <3>1, <3>2
  <2> QED  BY <1>1, <1>4, <2>2, <2>3 DEF Writes
<1> QED
  BY <1>1, <1>2, <1>3, <1>4, <1>5, InsideKeeps

LEMMA LeaveBlockKeeps ==
  ASSUME IInv, FInv, NEW t \in Tasks, LeaveBlock(t)  PROVE FInv'
<1>1. Leave(t) /\ Holding(t) /\ UNCHANGED <<metas, entry, disk, shell>>
  BY DEF LeaveBlock, Holding
<1> QED
  BY <1>1, LeaveKeeps DEF FInv, Whole

-----------------------------------------------------------------------------
(* The monitor and its jobs *)

\* Nobody provides the file, so nobody relies on its size.
LEMMA MonitorRetriesKeeps ==
  ASSUME IInv, FInv, NEW t \in Tasks, MonitorRetries(t)  PROVE FInv'
<1> DEFINE n == ResumeFrom(metas[entry])
           q == [tasks[t] EXCEPT !.at = "spawned"]
           m == [metas[1] EXCEPT !.size = n]
<1>1. /\ entry # 0 /\ metas[entry].status = "DOWNLOADING" /\ provider[entry] = NoTask
      /\ tasks' = [tasks EXCEPT ![t] = q]
      /\ metas' = [metas EXCEPT ![entry].size = n]
      /\ UNCHANGED <<entry, provider, disk, shell>>
  BY DEF MonitorRetries, Move
<1>2. n \in Nat
  <2>1. metas[entry] \in Meta
    BY <1>1, Typed, ElementOfSeq DEF Incarnations
  <2> QED  BY <2>1 DEF ResumeFrom, Meta
<1>3. q \in Task /\ q.at = "spawned"
  BY Typed, TaskAt DEF Phases
<1> HIDE DEF n, q
<1>4. Len(metas') = Len(metas)
  BY <1>1, <1>2, Typed, MetasSized
<1>5. Places(t, q)
  BY <1>1, <1>3 DEF Places, InBlock
<1>6. ASSUME Early  PROVE Writes(t, q)
  <2>1. entry = 1 /\ metas[1] \in Meta
    BY <1>1, <1>6, EarlyTyped
  <2>2. m \in Meta /\ m.status = "DOWNLOADING"
    BY <1>1, <1>2, <2>1 DEF Meta
  <2>3. metas' = [metas EXCEPT ![1] = m]
    BY <1>1, <2>1
  <2> HIDE DEF m
  <2>4. metas'[1] = m
    BY <1>6, <2>2, <2>3, FirstExcept
  <2> QED  BY <1>1, <1>3, <2>2, <2>4 DEF Writes, Justified
<1> QED
  BY <1>1, <1>3, <1>4, <1>5, <1>6, TaskKeeps

\* INVALID promises nothing.
LEMMA InvalidationKeeps ==
  ASSUME IInv, FInv, MonitorInvalidates \/ Invalidate  PROVE FInv'
<1> DEFINE m == [metas[1] EXCEPT !.status = "INVALID"]
<1>1. /\ UNCHANGED <<entry, provider, tasks, disk, shell>>
      /\ metas' = metas \/ (listed # 0 /\ metas' = [metas EXCEPT ![listed].status = "INVALID"])
  BY DEF MonitorInvalidates, Invalidate
<1>2. CASE metas' = metas
  BY <1>1, <1>2 DEF FInv, EntryIsLast, Quiet, Early, Alone, Judged, Whole, Holding
<1>3. CASE listed # 0 /\ metas' = [metas EXCEPT ![listed].status = "INVALID"]
  <2>1. Len(metas') = Len(metas)
    <3>1. metas \in Seq(Meta) /\ listed \in Incarnations
      BY <1>3, LenProperties DEF IInv, FileTyped, Incarnations
    <3> QED  BY <1>3, <3>1, MetasMarked
  <2>2. EntryIsLast' /\ Quiet'
    BY <1>1, <2>1 DEF FInv, EntryIsLast, Quiet, Early
  <2>3. ASSUME Early'  PROVE Alone' /\ Judged' /\ Whole'
    <3>1. Early
      BY <2>1, <2>3 DEF Early
    <3>2. Alone'
      BY <1>1, <3>1 DEF FInv, Alone, Holding
    <3>3. metas[1] \in Meta /\ metas' = [metas EXCEPT ![1] = m]
      BY <1>3, <3>1, EarlyTyped
    <3>4. /\ m \in Meta /\ m.status = "INVALID" /\ m.version = metas[1].version
          /\ m.size = metas[1].size /\ m.matches = metas[1].matches
      BY <3>3 DEF Meta
    <3> HIDE DEF m
    <3>5. metas'[1] = m
      BY <3>1, <3>3, <3>4, FirstExcept
    <3>6. \A t \in Tasks : Justified(tasks[t], m, disk)
      BY <3>1, <3>4 DEF FInv, Judged, Justified, IsWhole, IsValid
    <3>7. Judged' /\ Whole'
      BY <1>1, <3>4, <3>5, <3>6 DEF Judged, Whole
    <3> QED  BY <3>2, <3>7
  <2> QED  BY <2>2, <2>3 DEF FInv
<1> QED
  BY <1>1, <1>2, <1>3

-----------------------------------------------------------------------------
(* The shell *)

\* The first incarnation finds nobody at work; a later one is not the first.
LEMMA NewIncarnationKeeps ==
  ASSUME IInv, FInv, NEW m \in Meta,
         shell = "idle", listed = 0, metas' = Append(metas, m),
         UNCHANGED <<entry, tasks, disk>>,
         m.status = "READY" => IsWhole(m, disk)
  PROVE  FInv'
<1>1. /\ metas \in Seq(Meta) /\ Len(metas) \in Nat /\ entry = 0
      /\ Len(metas') = Len(metas) + 1
  BY LenProperties, AppendProperties DEF IInv, FileTyped, ShellAt
<1>2. EntryIsLast'
  BY <1>1 DEF EntryIsLast
<1>3. CASE Len(metas) = 0
  <2>1. metas'[1] = m
    BY <1>1, <1>3, AppendProperties
  <2>2. \A t \in Tasks : tasks'[t].at = "unused"
    BY <1>3 DEF FInv, Quiet
  <2>3. Quiet' /\ Alone'
    BY <2>2 DEF Quiet, Alone, Holding
  <2>4. Judged' /\ Whole'
    BY <2>1, <2>2 DEF Judged, Whole, Justified, Calm
  <2> QED  BY <1>2, <2>3, <2>4 DEF FInv
<1>4. CASE Len(metas) # 0
  BY <1>1, <1>2, <1>4 DEF FInv, Quiet, Early
<1> QED
  BY <1>3, <1>4

LEMMA InitMetaKeeps ==
  ASSUME IInv, FInv, NEW v \in Versions, InitMeta(v)  PROVE FInv'
<1> DEFINE old == [version |-> v, status |-> "DOWNLOADING", size |-> 0, matches |-> FALSE]
           m == Updated(old)
<1>1. /\ shell = "idle" /\ listed = 0 /\ metas' = Append(metas, m)
      /\ UNCHANGED <<entry, tasks, disk>>
  BY DEF InitMeta
<1>2. old \in Meta /\ old.status = "DOWNLOADING" /\ disk \in Seq(Chunks)
  BY DEF Meta, IInv, FileTyped
<1> HIDE DEF old
<1>3. m \in Meta /\ m.status = "DOWNLOADING"
  BY <1>2, UpdatedTyped, UpdatedHas
<1> HIDE DEF m
<1> QED
  BY <1>1, <1>3, NewIncarnationKeeps

LEMMA AddLocalKeeps ==
  ASSUME IInv, FInv, NEW v \in Versions, AddLocal(v)  PROVE FInv'
<1> DEFINE m == [version |-> v, status |-> "READY", size |-> Size, matches |-> TRUE]
<1>1. /\ shell = "idle" /\ listed = 0 /\ disk = Content(v)
      /\ metas' = Append(metas, m)
      /\ UNCHANGED <<entry, tasks, disk>>
  BY DEF AddLocal
<1>2. m \in Meta /\ IsWhole(m, disk)
  BY <1>1, DownloadConstants DEF Meta, IsWhole, IsValid
<1> HIDE DEF m
<1> QED
  BY <1>1, <1>2, NewIncarnationKeeps

\* The new incarnation becomes the entry, and one attempt at most begins.
LEMMA EntryKeeps ==
  ASSUME IInv, FInv, Register \/ \E t \in Tasks : AddFile(t)
  PROVE  FInv'
<1>1. /\ shell \in {"adding", "registering"} /\ shell' = "idle"
      /\ entry' = Len(metas) /\ UNCHANGED <<metas, provider, disk>>
  BY DEF Register, AddFile
<1>2. Len(metas) # 0
  BY <1>1 DEF IInv, ShellAt
<1>3. EntryIsLast' /\ Quiet'
  BY <1>1, <1>2 DEF EntryIsLast, Quiet, Early
<1>4. ASSUME Early'  PROVE Alone' /\ Judged' /\ Whole'
  <2>1. Early
    BY <1>1, <1>4 DEF Early
  <2>2. \A t \in Tasks : tasks[t].at = "unused"
    BY <1>1, <2>1 DEF FInv, Quiet
  <2>3. \A t \in Tasks : tasks'[t].at \in {"unused", "connecting"}
    <3>1. CASE Register
      BY <2>2, <3>1 DEF Register
    <3>2. CASE \E t \in Tasks : AddFile(t)
      <4>1. PICK t \in Tasks : AddFile(t)
        BY <3>2
      <4> DEFINE r == [at |-> "connecting", inc |-> Len(metas), offset |-> 0]
      <4>2. tasks' = [tasks EXCEPT ![t] = r] /\ r.at = "connecting"
        BY <4>1 DEF AddFile
      <4> HIDE DEF r
      <4> QED  BY <2>1, <2>2, <4>2, EarlyTyped
    <3> QED  BY <3>1, <3>2
  <2>4. Alone'
    BY <2>3 DEF Alone, Holding
  <2>5. Judged' /\ Whole'
    BY <1>1, <2>1, <2>3 DEF FInv, Judged, Whole, Justified, Calm
  <2> QED  BY <2>4, <2>5
<1> QED
  BY <1>3, <1>4 DEF FInv

LEMMA RemoveKeeps ==
  ASSUME IInv, FInv, RemoveFromRepository \/ ClearState \/ DeleteState
  PROVE  FInv'
<1>1. /\ UNCHANGED <<metas, provider, tasks, disk>>
      /\ entry' \in {0, entry} /\ shell' \in {"idle", "unlisted", "cleared"}
      /\ Len(metas) # 0
  BY DEF RemoveFromRepository, ClearState, DeleteState, IInv, ShellAt, FInv, EntryIsLast
<1>2. EntryIsLast' /\ Quiet'
  BY <1>1 DEF FInv, EntryIsLast, Quiet, Early
<1>3. ASSUME Early'  PROVE Alone' /\ Judged' /\ Whole'
  BY <1>1, <1>3 DEF FInv, Early, Alone, Judged, Whole, Holding
<1> QED
  BY <1>2, <1>3 DEF FInv

-----------------------------------------------------------------------------
(* Launch *)

\* What load says of a file is what it has measured.
LEMMA LoadedHas ==
  ASSUME disk \in Seq(Chunks), NEW m \in Meta, Loaded(m).status = "READY"
  PROVE  IsWhole(Loaded(m), disk)
<1> DEFINE u == Updated(m)
           s == CASE u.status = "READY" /\ ~IsValid(u) -> "INVALID"
                  [] u.status = "INVALID" /\ IsValid(u) -> "READY"
                  [] OTHER -> u.status
           e == [u EXCEPT !.status = s]
<1>1. u \in Meta /\ u.version = m.version /\ (u.matches <=> disk = Content(m.version))
  BY UpdatedTyped, UpdatedHas
<1>2. Loaded(m) = e
  BY DEF Loaded
<1> HIDE DEF u
<1>3. s = "READY" => IsValid(u)
  <2>1. u.status \in {"DOWNLOADING", "READY", "INVALID"}
    BY <1>1 DEF Meta
  <2> QED  BY <2>1
<1> HIDE DEF s
<1>4. e.status = s /\ e.version = u.version /\ e.size = u.size /\ e.matches = u.matches
  BY <1>1 DEF Meta
<1>5. IsValid(u)
  BY <1>2, <1>3, <1>4
<1>6. disk = Content(m.version)
  BY <1>1, <1>5 DEF IsValid
<1> QED
  BY <1>1, <1>2, <1>4, <1>5, <1>6 DEF IsWhole, IsValid

LEMMA RestartKeeps ==
  ASSUME IInv, FInv, NEW found \in BOOLEAN, NEW queued \in BOOLEAN,
         Restart(found, queued)
  PROVE  FInv'
<1> DEFINE kept == listed # 0 /\ found
<1>1. /\ metas' = IF kept THEN <<Loaded(metas[listed])>> ELSE <<>>
      /\ entry' = Len(metas') /\ tasks' = [t \in Tasks |-> Unused]
      /\ shell' = "idle" /\ UNCHANGED disk
  BY DEF Restart
<1>2. \A t \in Tasks : tasks'[t].at = "unused"
  BY <1>1 DEF Unused
<1>3. EntryIsLast' /\ Quiet' /\ Alone'
  BY <1>1, <1>2 DEF EntryIsLast, Quiet, Alone, Holding
<1>4. Judged'
  BY <1>2 DEF Judged, Justified
<1>5. ASSUME Early'  PROVE Whole'
  <2> DEFINE m == Loaded(metas[listed])
  <2>1. kept
    BY <1>1, <1>5 DEF Early
  <2>2. metas'[1] = m
    BY <1>1, <2>1
  <2>3. metas[listed] \in Meta /\ disk \in Seq(Chunks)
    <3>1. metas \in Seq(Meta) /\ Len(metas) \in Nat /\ listed \in 0..Len(metas)
      BY LenProperties DEF IInv, FileTyped
    <3>2. listed \in 1..Len(metas)
      BY <2>1, <3>1
    <3> QED  BY <3>1, <3>2, ElementOfSeq DEF IInv, FileTyped
  <2>4. m.status = "READY" => IsWhole(m, disk)
    BY <2>3, LoadedHas
  <2> HIDE DEF m
  <2> QED  BY <1>1, <1>2, <2>2, <2>4 DEF Whole, Calm
<1> QED
  BY <1>3, <1>4, <1>5 DEF FInv

-----------------------------------------------------------------------------
(* The invariant is inductive *)

LEMMA FirstInitHolds == Init => FInv
<1> SUFFICES ASSUME Init  PROVE FInv
  OBVIOUS
<1>1. Len(metas) = 0 /\ entry = 0 /\ \A t \in Tasks : tasks[t].at = "unused"
  BY DEF Init, Unused
<1> QED
  BY <1>1 DEF FInv, EntryIsLast, Quiet, Early

LEMMA FirstStepHolds == IInv /\ FInv /\ [Next]_vars => FInv'
<1> SUFFICES ASSUME IInv, FInv, [Next]_vars  PROVE FInv'
  OBVIOUS
<1>1. CASE \E v \in Versions : InitMeta(v) \/ AddLocal(v)
  BY <1>1, InitMetaKeeps, AddLocalKeeps
<1>2. CASE Register \/ \E t \in Tasks : AddFile(t)
  BY <1>2, EntryKeeps
<1>3. CASE \E t \in Tasks : MonitorRetries(t)
  BY <1>3, MonitorRetriesKeeps
<1>4. ASSUME NEW t \in Tasks, Advance(t)  PROVE FInv'
  <2>1. CASE tasks[t].inc # 0 /\ Receive(t, metas[tasks[t].inc].version)
    <3>1. tasks[t].inc \in Incarnations
      <4>1. tasks[t] \in Task /\ Len(metas) \in Nat
        BY Typed
      <4> QED  BY <2>1, <4>1 DEF Task, Incarnations
    <3>2. metas[tasks[t].inc] \in Meta
      BY <3>1, Typed, ElementOfSeq DEF Incarnations
    <3>3. metas[tasks[t].inc].version \in Chunks
      BY <3>2 DEF Meta, Chunks
    <3> QED  BY <2>1, <3>3, ReceiveKeeps
  <2> QED
    BY <1>4, <2>1, StartSearchKeeps, PeerFoundKeeps, ConnectKeeps, RespondKeeps,
       UpdateStatKeeps, CheckValidKeeps, PublishKeeps, LeaveBlockKeeps DEF Advance
<1>5. CASE RemoveFromRepository \/ ClearState \/ DeleteState
  BY <1>5, RemoveKeeps
<1>6. CASE MonitorInvalidates \/ Invalidate
  BY <1>6, InvalidationKeeps
<1>7. CASE \E t \in Tasks : \/ NoConnection(t) \/ SearchRaises(t)
                           \/ Receive(t, "junk") \/ CutShort(t) \/ Break(t)
  <2>1. "junk" \in Chunks
    BY DEF Chunks
  <2> QED  BY <1>7, <2>1, NoConnectionKeeps, ReceiveKeeps, FailKeeps
<1>8. CASE \E found \in BOOLEAN : Restart(found, invalidate)
  <2>1. invalidate \in BOOLEAN
    BY DEF IInv, FileTyped
  <2> QED  BY <1>8, <2>1, RestartKeeps
<1>9. CASE UNCHANGED vars
  BY <1>9 DEF vars, FInv, EntryIsLast, Quiet, Early, Alone, Judged, Whole, Holding
<1> QED
  BY <1>1, <1>2, <1>3, <1>4, <1>5, <1>6, <1>7, <1>8, <1>9 DEF Next, Step

LEMMA FirstInductive == Spec => []FInv
  BY Inductive, FirstInitHolds, FirstStepHolds, PTL DEF Spec

\* An entry 1 is the only incarnation there is.
LEMMA FirstImplies == IInv /\ FInv => FirstHasOneReceiver /\ FirstReadyIsWhole
<1> SUFFICES ASSUME IInv, FInv  PROVE FirstHasOneReceiver /\ FirstReadyIsWhole
  OBVIOUS
<1>1. entry = 1 => Early
  BY LenProperties DEF IInv, FileTyped, FInv, EntryIsLast, Early
<1>2. FirstHasOneReceiver
  BY <1>1 DEF FInv, Alone, FirstHasOneReceiver, OneReceiver
<1>3. FirstReadyIsWhole
  BY <1>1 DEF FInv, Whole, IsWhole, FirstReadyIsWhole
<1> QED
  BY <1>2, <1>3

-----------------------------------------------------------------------------
(* No gap: what counts as received is on disk *)

\* Who receives is at the end of what is counted.
Reached(r, m) == r.at \in {"waiting", "reading"} => r.offset = m.size

GapFree ==
    Early => /\ metas[1].size <= Len(disk)
             /\ \A t \in Tasks : Reached(tasks[t], metas[1])

LEMMA TruncatedLen ==
  ASSUME NEW d \in Seq(Chunks), NEW n \in Nat
  PROVE  Len(Truncated(d, n)) = n
<1>1. Truncated(d, n) \in Seq(Chunks) /\ DOMAIN Truncated(d, n) = 1..n
  BY TruncatedTyped DEF Truncated
<1> QED
  BY <1>1, LenProperties

LEMMA WrittenLen ==
  ASSUME NEW d \in Seq(Chunks), NEW n \in Nat, NEW chunk \in Chunks
  PROVE  n + 1 <= Len(Written(d, n, chunk)) /\ Len(d) <= Len(Written(d, n, chunk))
<1> DEFINE l == IF n + 1 > Len(d) THEN n + 1 ELSE Len(d)
<1>1. Len(d) \in Nat /\ l \in Nat /\ n + 1 <= l /\ Len(d) <= l
  BY LenProperties
<1>2. Written(d, n, chunk) \in Seq(Chunks)
  BY WrittenTyped, Zenon
<1>3. DOMAIN Written(d, n, chunk) = 1..l
  BY DEF Written
<1> HIDE DEF l
<1> QED
  BY <1>1, <1>2, <1>3, LenProperties

\* The size of the first metadata, assigned in place.
LEMMA FirstSized ==
  ASSUME IInv, Early, NEW n \in Nat, metas' = [metas EXCEPT ![1].size = n]
  PROVE  metas'[1].size = n /\ Len(metas') = Len(metas)
<1> DEFINE m == [metas[1] EXCEPT !.size = n]
<1>1. m \in Meta /\ m.size = n /\ metas' = [metas EXCEPT ![1] = m]
  BY EarlyTyped DEF Meta
<1> HIDE DEF m
<1> QED
  BY <1>1, FirstExcept

\* The step of a task: it is in the block, or nobody is, if it touches the
\* file or its metadata.
LEMMA GapStep ==
  ASSUME IInv, FInv, GapFree, NEW t \in Tasks, NEW r \in Task,
         tasks' = [tasks EXCEPT ![t] = r], Len(metas') = Len(metas),
         Early => \/ UNCHANGED <<metas, disk>> /\ Reached(r, metas[1])
                  \/ /\ Holding(t) \/ (entry # 0 /\ provider[entry] = NoTask)
                     /\ metas'[1].size <= Len(disk')
                     /\ Reached(r, metas'[1])
  PROVE  GapFree'
<1> SUFFICES ASSUME Early  PROVE GapFree'
  BY DEF GapFree, Early
<1>1. tasks'[t] = r /\ \A u \in Tasks : u # t => tasks'[u] = tasks[u]
  BY EarlyTyped
<1>2. CASE UNCHANGED <<metas, disk>> /\ Reached(r, metas[1])
  BY <1>1, <1>2 DEF GapFree, Early
<1>3. CASE /\ Holding(t) \/ (entry # 0 /\ provider[entry] = NoTask)
           /\ metas'[1].size <= Len(disk')
           /\ Reached(r, metas'[1])
  <2>1. NoTask \notin Tasks
    BY DownloadConstants DEF NoTask
  <2>2. \A u \in Tasks : u # t => ~Holding(u)
    BY <1>3, <2>1 DEF FInv, Alone
  <2>3. \A u \in Tasks : u # t => Reached(tasks'[u], metas'[1])
    BY <1>1, <2>2 DEF Holding, Reached
  <2> QED  BY <1>1, <1>3, <2>3 DEF GapFree
<1> QED
  BY <1>2, <1>3

\* The end of the block, with the file cut where the count ends, or not cut.
LEMMA GapLeave ==
  ASSUME IInv, FInv, GapFree, NEW t \in Tasks, Holding(t), Leave(t),
         Len(metas') = Len(metas),
         Early => metas'[1].size <= Len(disk')
  PROVE  GapFree'
<1>1. Unused \in Task /\ Unused.at = "unused"
  BY UnusedTyped DEF IInv
<1>2. tasks' = [tasks EXCEPT ![t] = Unused]
  BY DEF Leave, End
<1> HIDE DEF Unused
<1>3. Reached(Unused, metas'[1])
  BY <1>1 DEF Reached
<1> QED
  BY <1>2, <1>1, <1>3, GapStep

\* A step that leaves the file and its metadata alone, and does not receive.
LEMMA GapApart ==
  ASSUME IInv, FInv, GapFree, NEW t \in Tasks, NEW r \in Task,
         tasks' = [tasks EXCEPT ![t] = r], UNCHANGED <<metas, disk>>,
         r.at \notin {"waiting", "reading"}
  PROVE  GapFree'
  BY GapStep DEF Reached

LEMMA GapOutside ==
  ASSUME IInv, FInv, GapFree, NEW t \in Tasks,
         StartSearch(t) \/ PeerFound(t) \/ NoConnection(t) \/ SearchRaises(t)
  PROVE  GapFree'
<1>1. UNCHANGED <<metas, disk>>
  BY DEF StartSearch, PeerFound, NoConnection, SearchRaises
<1>2. CASE End(t)
  <2>1. Unused \in Task /\ Unused.at = "unused"
    BY UnusedTyped DEF IInv
  <2> QED  BY <1>1, <1>2, <2>1, GapApart DEF End
<1>3. CASE StartSearch(t) /\ ~End(t)
  <2> DEFINE r == [tasks[t] EXCEPT !.at = "searching"]
             q == [r EXCEPT !.inc = entry]
  <2>1. tasks' = [tasks EXCEPT ![t] = q]
    BY <1>3 DEF StartSearch
  <2>2. r \in Task /\ r.at = "searching"
    BY Typed, TaskAt DEF Phases
  <2>3. entry \in 0..Len(metas)
    BY DEF IInv, FileTyped
  <2> HIDE DEF r
  <2>4. q \in Task /\ q.at = "searching"
    BY <2>2, <2>3 DEF Task
  <2> HIDE DEF q
  <2> QED  BY <1>1, <2>1, <2>4, GapApart
<1>4. CASE PeerFound(t)
  <2> DEFINE q == [tasks[t] EXCEPT !.at = "connecting"]
  <2>1. tasks' = [tasks EXCEPT ![t] = q]
    BY <1>4 DEF PeerFound, Move
  <2>2. q \in Task /\ q.at = "connecting"
    BY Typed, TaskAt DEF Phases
  <2> HIDE DEF q
  <2> QED  BY <1>1, <2>1, <2>2, GapApart
<1> QED
  BY <1>2, <1>3, <1>4 DEF NoConnection, SearchRaises

\* The request starts where the count ends.
LEMMA GapConnect ==
  ASSUME IInv, FInv, GapFree, NEW t \in Tasks, Connect(t)  PROVE GapFree'
<1>1. tasks[t].at = "connecting" /\ UNCHANGED <<metas, disk>>
  BY DEF Connect
<1>2. CASE ~ProviderAccepted
  <2>1. tasks' = [tasks EXCEPT ![t] = Unused]
    BY <1>2 DEF Connect, End
  <2>2. Unused \in Task /\ Unused.at = "unused"
    BY UnusedTyped DEF IInv
  <2> QED  BY <1>1, <2>1, <2>2, GapApart
<1>3. CASE ProviderAccepted
  <2> DEFINE n == metas[tasks[t].inc].size
             q == [[tasks[t] EXCEPT !.at = "waiting"] EXCEPT !.offset = n]
  <2>1. tasks' = [tasks EXCEPT ![t] = q]
    BY <1>3 DEF Connect
  <2>2. tasks[t] \in Task /\ tasks[t].inc \in Incarnations
    BY <1>1, Typed
  <2>3. metas[tasks[t].inc] \in Meta
    BY <2>2, Typed, ElementOfSeq DEF Incarnations
  <2>4. n \in Nat /\ "waiting" \in Phases
    BY <2>3 DEF Meta, Phases
  <2>5. Early => n = metas[1].size
    BY <1>1, EarlyTyped
  <2> HIDE DEF n
  <2>6. q \in Task
    BY <2>2, <2>4, TaskAtOffset
  <2>7. q.offset = n
    BY <2>2 DEF Task
  <2> HIDE DEF q
  <2> QED  BY <1>1, <2>1, <2>5, <2>6, <2>7, GapStep DEF Reached
<1> QED
  BY <1>2, <1>3

\* The receiving loop at an offset the metadata knows, if it goes on there.
LEMMA GapReceiving ==
  ASSUME IInv, FInv, GapFree, NEW t \in Tasks, NEW n \in Nat, NEW d \in Seq(Chunks),
         tasks[t].at \in {"waiting", "reading"}, Receiving(t, n, d),
         Len(metas') = Len(metas),
         Early => metas'[1].size = n /\ n <= Len(d)
  PROVE  GapFree'
<1>1. Holding(t) /\ tasks[t] \in Task /\ {"reading", "stat"} \subseteq Phases
  BY Typed DEF Holding, Phases
<1>2. CASE n < Size /\ t \notin stopped
  <2> DEFINE q == [[tasks[t] EXCEPT !.at = "reading"] EXCEPT !.offset = n]
  <2>1. tasks' = [tasks EXCEPT ![t] = q] /\ disk' = d
    BY <1>2 DEF Receiving
  <2>2. q \in Task
    BY <1>1, TaskAtOffset
  <2>3. q.offset = n
    BY <1>1 DEF Task
  <2> HIDE DEF q
  <2> QED  BY <1>1, <2>1, <2>2, <2>3, GapStep DEF Reached
<1>3. CASE ~(n < Size /\ t \notin stopped)
  <2>1. disk' = Truncated(d, n)
    BY <1>3 DEF Receiving
  <2>2. Len(disk') = n
    BY <2>1, TruncatedLen
  <2>3. Early => metas'[1].size <= Len(disk')
    BY <2>2
  <2>4. CASE n < Size
    <3>1. Leave(t)
      BY <1>3, <2>4 DEF Receiving
    <3> QED  BY <1>1, <2>3, <3>1, GapLeave
  <2>5. CASE ~(n < Size)
    <3> DEFINE q == [tasks[t] EXCEPT !.at = "stat"]
    <3>1. tasks' = [tasks EXCEPT ![t] = q]
      BY <1>3, <2>5 DEF Receiving, Move
    <3>2. q \in Task /\ q.at = "stat"
      BY <1>1, TaskAt
    <3> HIDE DEF q
    <3> QED  BY <1>1, <2>3, <3>1, <3>2, GapStep DEF Reached
  <2> QED  BY <2>4, <2>5
<1> QED
  BY <1>2, <1>3

LEMMA GapRespond ==
  ASSUME IInv, FInv, GapFree, NEW t \in Tasks, Respond(t)  PROVE GapFree'
<1> DEFINE n == tasks[t].offset
<1>1. /\ tasks[t].at = "waiting" /\ UNCHANGED metas
      /\ IF n > Size THEN Leave(t) /\ UNCHANGED disk ELSE Receiving(t, n, disk)
  BY DEF Respond
<1>2. n \in Nat /\ disk \in Seq(Chunks) /\ Holding(t)
  BY <1>1, Typed DEF Task, Holding
<1>3. Early => metas[1].size = n /\ n <= Len(disk)
  BY <1>1 DEF GapFree, Reached
<1> HIDE DEF n
<1>4. CASE n > Size
  BY <1>1, <1>2, <1>3, <1>4, GapLeave
<1>5. CASE ~(n > Size)
  BY <1>1, <1>2, <1>3, <1>5, GapReceiving
<1> QED
  BY <1>4, <1>5

\* The chunk is on disk when it is counted.
LEMMA GapReceive ==
  ASSUME IInv, FInv, GapFree, NEW t \in Tasks, NEW chunk \in Chunks, Receive(t, chunk)
  PROVE  GapFree'
<1> DEFINE o == tasks[t].offset
           d == Written(disk, o, chunk)
           n == o + 1
<1>1. /\ tasks[t].at = "reading"
      /\ IF entry = 0
         THEN Leave(t) /\ disk' = d /\ UNCHANGED metas
         ELSE Receiving(t, n, d) /\ metas' = [metas EXCEPT ![entry].size = n]
  BY DEF Receive
<1>2. o \in Nat /\ disk \in Seq(Chunks) /\ Holding(t)
  BY <1>1, Typed DEF Task, Holding
<1> HIDE DEF o
<1>3. n \in Nat /\ d \in Seq(Chunks) /\ n <= Len(d) /\ Len(disk) <= Len(d)
  <2>1. n \in Nat
    BY <1>2
  <2>2. d \in Seq(Chunks)
    BY <1>2, WrittenTyped, Zenon
  <2> QED  BY <1>2, <2>1, <2>2, WrittenLen
<1> HIDE DEF d, n
<1>4. CASE entry = 0
  <2>1. Leave(t) /\ disk' = d /\ UNCHANGED metas
    BY <1>1, <1>4
  <2>2. Early => metas'[1].size <= Len(disk')
    <3> SUFFICES ASSUME Early  PROVE metas'[1].size <= Len(disk')
      OBVIOUS
    <3>1. metas[1].size <= Len(disk)
      BY DEF GapFree
    <3>2. metas[1].size \in Nat
      BY EarlyTyped DEF Meta
    <3>3. Len(disk) \in Nat /\ Len(d) \in Nat
      BY <1>2, <1>3, LenProperties
    <3> QED  BY <1>3, <2>1, <3>1, <3>2, <3>3
  <2> QED  BY <1>2, <2>1, <2>2, GapLeave
<1>5. CASE entry # 0
  <2>1. Receiving(t, n, d) /\ metas' = [metas EXCEPT ![entry].size = n]
    BY <1>1, <1>5
  <2>2. Len(metas') = Len(metas)
    BY <1>3, <1>5, <2>1, Typed, MetasSized
  <2>3. Early => metas'[1].size = n
    BY <1>3, <1>5, <2>1, EarlyTyped, FirstSized
  <2> QED  BY <1>1, <1>3, <2>1, <2>2, <2>3, GapReceiving
<1> QED
  BY <1>4, <1>5

\* A connection that ends early: the file is cut where the count ends.
LEMMA GapFail ==
  ASSUME IInv, FInv, GapFree, NEW t \in Tasks, CutShort(t) \/ Break(t)
  PROVE  GapFree'
<1>1. Leave(t) /\ UNCHANGED metas /\ Holding(t)
  BY DEF CutShort, Break, Holding
<1>2. CASE CutShort(t)
  <2>1. tasks[t].at = "reading" /\ disk' = Truncated(disk, tasks[t].offset)
    BY <1>2 DEF CutShort
  <2>2. Len(disk') = tasks[t].offset /\ tasks[t].offset \in Nat
    BY <2>1, Typed, TruncatedLen DEF Task
  <2>3. Early => metas'[1].size <= Len(disk')
    BY <1>1, <2>1, <2>2 DEF GapFree, Reached
  <2> QED  BY <1>1, <2>3, GapLeave
<1>3. CASE Break(t)
  BY <1>1, <1>3, GapLeave DEF Break, GapFree
<1> QED
  BY <1>2, <1>3

LEMMA GapUpdateStat ==
  ASSUME IInv, FInv, GapFree, NEW t \in Tasks, UpdateStat(t)  PROVE GapFree'
<1> DEFINE m == Updated(metas[listed])
           q == [tasks[t] EXCEPT !.at = "checking"]
<1>1. /\ tasks[t].at = "stat" /\ UNCHANGED disk
      /\ IF listed = 0
         THEN Leave(t) /\ UNCHANGED metas
         ELSE metas' = [metas EXCEPT ![listed] = m] /\ tasks' = [tasks EXCEPT ![t] = q]
  BY DEF UpdateStat, Move
<1>2. Holding(t)
  BY <1>1 DEF Holding
<1>3. CASE listed = 0
  BY <1>1, <1>2, <1>3, GapLeave DEF GapFree
<1>4. CASE listed # 0
  <2>1. metas[listed] \in Meta /\ listed \in Incarnations /\ disk \in Seq(Chunks)
    BY <1>4, Typed, ElementOfSeq DEF Incarnations
  <2>2. m \in Meta /\ m.size = Len(disk)
    BY <2>1, UpdatedTyped, UpdatedHas
  <2>3. q \in Task /\ q.at = "checking"
    BY Typed, TaskAt DEF Phases
  <2>4. tasks' = [tasks EXCEPT ![t] = q] /\ metas' = [metas EXCEPT ![listed] = m]
    BY <1>1, <1>4
  <2> HIDE DEF m, q
  <2>5. Len(metas') = Len(metas)
    BY <2>1, <2>2, <2>4, Typed, MetasExcept
  <2>6. Early => metas'[1] = m
    BY <1>4, <2>2, <2>4, EarlyTyped, FirstExcept
  <2>7. Early => metas'[1].size <= Len(disk')
    BY <1>1, <2>1, <2>2, <2>6, LenProperties
  <2> QED  BY <1>2, <2>3, <2>4, <2>5, <2>7, GapStep DEF Reached
<1> QED
  BY <1>3, <1>4

LEMMA GapCheckValid ==
  ASSUME IInv, FInv, GapFree, NEW t \in Tasks, CheckValid(t) \/ LeaveBlock(t)
  PROVE  GapFree'
<1> DEFINE q == [tasks[t] EXCEPT !.at = "publishing"]
<1>1. Holding(t) /\ UNCHANGED <<metas, disk>>
  BY DEF CheckValid, LeaveBlock, Holding
<1>2. CASE Leave(t)
  BY <1>1, <1>2, GapLeave DEF GapFree
<1>3. CASE ~Leave(t)
  <2>1. tasks' = [tasks EXCEPT ![t] = q]
    BY <1>3 DEF CheckValid, LeaveBlock, Move
  <2>2. q \in Task /\ q.at = "publishing"
    BY Typed, TaskAt DEF Phases
  <2> HIDE DEF q
  <2> QED  BY <1>1, <2>1, <2>2, GapApart
<1> QED
  BY <1>2, <1>3

\* A status says nothing of the size.
LEMMA GapMarked ==
  ASSUME IInv, Early, listed # 0, NEW s \in {"READY", "INVALID"},
         metas' = [metas EXCEPT ![listed].status = s]
  PROVE  metas'[1].size = metas[1].size
<1> DEFINE m == [metas[1] EXCEPT !.status = s]
<1>1. m \in Meta /\ m.size = metas[1].size /\ metas' = [metas EXCEPT ![1] = m]
  BY EarlyTyped DEF Meta
<1> HIDE DEF m
<1> QED
  BY <1>1, FirstExcept

LEMMA GapPublish ==
  ASSUME IInv, FInv, GapFree, NEW t \in Tasks, Publish(t)  PROVE GapFree'
<1> DEFINE q == [tasks[t] EXCEPT !.at = "leaving"]
<1>1. /\ tasks[t].at = "publishing" /\ tasks' = [tasks EXCEPT ![t] = q]
      /\ metas' = IF listed = 0 THEN metas ELSE [metas EXCEPT ![listed].status = "READY"]
      /\ UNCHANGED disk
  BY DEF Publish, Move
<1>2. q \in Task /\ q.at = "leaving"
  BY Typed, TaskAt DEF Phases
<1>3. Len(metas') = Len(metas) /\ Holding(t)
  BY <1>1, Typed, MetasMarked DEF Holding
<1> HIDE DEF q
<1>4. Early => metas'[1].size = metas[1].size
  BY <1>1, GapMarked
<1> QED
  BY <1>1, <1>2, <1>3, <1>4, GapStep DEF Reached, GapFree

LEMMA GapInvalidate ==
  ASSUME IInv, GapFree, MonitorInvalidates \/ Invalidate  PROVE GapFree'
<1>1. /\ UNCHANGED <<tasks, disk>>
      /\ metas' = metas \/ (listed # 0 /\ metas' = [metas EXCEPT ![listed].status = "INVALID"])
  BY DEF MonitorInvalidates, Invalidate
<1>2. CASE metas' = metas
  BY <1>1, <1>2 DEF GapFree, Early
<1>3. CASE listed # 0 /\ metas' = [metas EXCEPT ![listed].status = "INVALID"]
  <2>1. Len(metas') = Len(metas)
    BY <1>3, MetasMarked, LenProperties DEF IInv, FileTyped, Incarnations
  <2>2. Early => metas'[1].size = metas[1].size
    BY <1>3, GapMarked
  <2> QED  BY <1>1, <2>1, <2>2 DEF GapFree, Early, Reached
<1> QED
  BY <1>1, <1>2, <1>3

\* The monitor makes a count smaller only where nobody receives.
LEMMA GapMonitorRetries ==
  ASSUME IInv, FInv, GapFree, NEW t \in Tasks, MonitorRetries(t)  PROVE GapFree'
<1> DEFINE n == ResumeFrom(metas[entry])
           q == [tasks[t] EXCEPT !.at = "spawned"]
<1>1. /\ entry # 0 /\ provider[entry] = NoTask
      /\ tasks' = [tasks EXCEPT ![t] = q]
      /\ metas' = [metas EXCEPT ![entry].size = n]
      /\ UNCHANGED disk
  BY DEF MonitorRetries, Move
<1>2. metas[entry] \in Meta
  BY <1>1, Typed, ElementOfSeq DEF Incarnations
<1>3. n \in Nat /\ n <= metas[entry].size
  BY <1>2 DEF ResumeFrom, Meta
<1>4. q \in Task /\ q.at = "spawned"
  BY Typed, TaskAt DEF Phases
<1>5. metas[entry].size \in Nat /\ Len(disk) \in Nat
  BY <1>2, Typed, LenProperties DEF Meta
<1> HIDE DEF n, q
<1>6. Len(metas') = Len(metas)
  BY <1>1, <1>3, Typed, MetasSized
<1>7. Early => metas'[1].size <= Len(disk')
  <2> SUFFICES ASSUME Early  PROVE metas'[1].size <= Len(disk')
    OBVIOUS
  <2>1. entry = 1
    BY <1>1, EarlyTyped
  <2>2. metas'[1].size = n
    BY <1>1, <1>3, <2>1, FirstSized
  <2>3. metas[1].size <= Len(disk)
    BY DEF GapFree
  <2> QED  BY <1>1, <1>3, <1>5, <2>1, <2>2, <2>3
<1> QED
  BY <1>1, <1>4, <1>6, <1>7, GapStep DEF Reached

\* The first metadata is measured, or is of a file that lies there whole.
LEMMA GapNew ==
  ASSUME IInv, FInv, NEW v \in Versions, InitMeta(v) \/ AddLocal(v)
  PROVE  GapFree'
<1> DEFINE old == [version |-> v, status |-> "DOWNLOADING", size |-> 0, matches |-> FALSE]
           own == [version |-> v, status |-> "READY", size |-> Size, matches |-> TRUE]
<1>1. PICK m \in Meta : metas' = Append(metas, m) /\ m.size = Len(disk)
  <2>1. CASE InitMeta(v)
    <3>1. old \in Meta /\ disk \in Seq(Chunks) /\ metas' = Append(metas, Updated(old))
      BY <2>1 DEF Meta, IInv, FileTyped, InitMeta
    <3> HIDE DEF old
    <3> QED  BY <3>1, UpdatedTyped, UpdatedHas
  <2>2. CASE AddLocal(v)
    <3>1. own \in Meta /\ own.size = Size /\ metas' = Append(metas, own)
      BY <2>2, DownloadConstants DEF Meta, AddLocal
    <3> HIDE DEF own
    <3>2. Len(disk) = Size
      BY <2>2, ContentHas DEF IInv, FileTyped, AddLocal
    <3> QED  BY <3>1, <3>2
  <2> QED  BY <2>1, <2>2
<1>2. UNCHANGED <<tasks, disk>>
  BY DEF InitMeta, AddLocal
<1> SUFFICES ASSUME Early'  PROVE GapFree'
  BY DEF GapFree
<1>3. Len(metas) = 0 /\ metas'[1] = m
  BY <1>1, AppendProperties, LenProperties DEF IInv, FileTyped, Early
<1>4. \A t \in Tasks : tasks[t].at = "unused"
  BY <1>3 DEF FInv, Quiet
<1>5. Len(disk) \in Nat
  BY LenProperties DEF IInv, FileTyped
<1> QED
  BY <1>1, <1>2, <1>3, <1>4, <1>5 DEF GapFree, Reached

LEMMA GapShell ==
  ASSUME IInv, FInv, GapFree,
         \/ Register \/ RemoveFromRepository \/ ClearState \/ DeleteState
         \/ \E t \in Tasks : AddFile(t)
  PROVE  GapFree'
<1>1. CASE Register \/ RemoveFromRepository \/ ClearState \/ DeleteState
  BY <1>1 DEF Register, RemoveFromRepository, ClearState, DeleteState, GapFree, Early
<1>2. ASSUME NEW t \in Tasks, AddFile(t)  PROVE GapFree'
  <2> DEFINE r == [at |-> "connecting", inc |-> Len(metas), offset |-> 0]
  <2>1. tasks' = [tasks EXCEPT ![t] = r] /\ UNCHANGED <<metas, disk>>
    BY <1>2 DEF AddFile
  <2>2. r \in Task /\ r.at = "connecting"
    BY Typed DEF Task, Phases
  <2> HIDE DEF r
  <2> QED  BY <2>1, <2>2, GapApart
<1> QED
  BY <1>1, <1>2

\* A launch measures the file.
LEMMA GapRestart ==
  ASSUME IInv, NEW found \in BOOLEAN, NEW queued \in BOOLEAN, Restart(found, queued)
  PROVE  GapFree'
<1> DEFINE kept == listed # 0 /\ found
<1>1. /\ metas' = IF kept THEN <<Loaded(metas[listed])>> ELSE <<>>
      /\ tasks' = [t \in Tasks |-> Unused] /\ UNCHANGED disk
  BY DEF Restart
<1> SUFFICES ASSUME Early'  PROVE GapFree'
  BY DEF GapFree
<1>2. kept
  BY <1>1 DEF Early
<1>3. metas[listed] \in Meta /\ disk \in Seq(Chunks) /\ Len(disk) \in Nat
  BY <1>2, Typed, ElementOfSeq, LenProperties DEF IInv, FileTyped, Incarnations
<1>4. Loaded(metas[listed]).size = Len(disk)
  BY <1>3, UpdatedTyped, UpdatedHas DEF Loaded, Meta
<1>5. metas'[1].size <= Len(disk')
  BY <1>1, <1>2, <1>3, <1>4
<1>6. \A t \in Tasks : tasks'[t].at = "unused"
  BY <1>1 DEF Unused
<1> QED
  BY <1>5, <1>6 DEF GapFree, Reached

LEMMA GapInit == Init => GapFree
  BY DEF Init, GapFree, Early

LEMMA GapStepHolds == IInv /\ FInv /\ GapFree /\ [Next]_vars => GapFree'
<1> SUFFICES ASSUME IInv, FInv, GapFree, [Next]_vars  PROVE GapFree'
  OBVIOUS
<1>1. CASE \E v \in Versions : InitMeta(v) \/ AddLocal(v)
  BY <1>1, GapNew
<1>2. CASE \/ Register \/ RemoveFromRepository \/ ClearState \/ DeleteState
           \/ \E t \in Tasks : AddFile(t)
  BY <1>2, GapShell
<1>3. CASE \E t \in Tasks : MonitorRetries(t)
  BY <1>3, GapMonitorRetries
<1>4. ASSUME NEW t \in Tasks, Advance(t)  PROVE GapFree'
  <2>1. CASE tasks[t].inc # 0 /\ Receive(t, metas[tasks[t].inc].version)
    <3>1. tasks[t].inc \in Incarnations
      BY <2>1, Typed DEF Task, Incarnations
    <3>2. metas[tasks[t].inc] \in Meta
      BY <3>1, Typed, ElementOfSeq DEF Incarnations
    <3>3. metas[tasks[t].inc].version \in Chunks
      BY <3>2 DEF Meta, Chunks
    <3> QED  BY <2>1, <3>3, GapReceive
  <2> QED
    BY <1>4, <2>1, GapOutside, GapConnect, GapRespond, GapUpdateStat,
       GapCheckValid, GapPublish DEF Advance
<1>5. CASE MonitorInvalidates \/ Invalidate
  BY <1>5, GapInvalidate
<1>6. CASE \E t \in Tasks : \/ NoConnection(t) \/ SearchRaises(t)
                           \/ Receive(t, "junk") \/ CutShort(t) \/ Break(t)
  <2>1. "junk" \in Chunks
    BY DEF Chunks
  <2> QED  BY <1>6, <2>1, GapOutside, GapReceive, GapFail
<1>7. CASE \E found \in BOOLEAN : Restart(found, invalidate)
  <2>1. invalidate \in BOOLEAN
    BY DEF IInv, FileTyped
  <2> QED  BY <1>7, <2>1, GapRestart
<1>8. CASE UNCHANGED vars
  BY <1>8 DEF vars, GapFree, Early
<1> QED
  BY <1>1, <1>2, <1>3, <1>4, <1>5, <1>6, <1>7, <1>8 DEF Next, Step

LEMMA GapInductive == Spec => []GapFree
  BY Inductive, FirstInductive, GapInit, GapStepHolds, PTL DEF Spec

LEMMA GapImplies == IInv /\ FInv /\ GapFree => FirstLeavesNoGap
<1> SUFFICES ASSUME IInv, FInv, GapFree, entry = 1
             PROVE  /\ metas[1].size <= Len(disk)
                    /\ \A t \in Tasks : tasks[t].at \in {"waiting", "reading"} =>
                          tasks[t].offset = metas[1].size
  BY DEF FirstLeavesNoGap
<1>1. Early
  BY LenProperties DEF IInv, FileTyped, FInv, EntryIsLast, Early
<1> QED
  BY <1>1 DEF GapFree, Reached

-----------------------------------------------------------------------------
(* Theorems *)

\* Of the attempts at the first download since the launch, one at most is
\* between connect and the end of its block: the setter of the provider admits
\* no second, and nobody is left who could take the first one's place away.
THEOREM FirstReceives == Spec => []FirstHasOneReceiver
  BY FirstImplies, Inductive, FirstInductive, PTL

\* The first file since the launch is READY only with the content its digest
\* promises, whatever was on disk, and however often its download was resumed.
THEOREM FirstReadyMeansWhole == Spec => []FirstReadyIsWhole
  BY FirstImplies, Inductive, FirstInductive, PTL

\* What the first download since the launch counts as received is on disk, and
\* who receives is at its end: however often it fails, is stopped, retried or
\* launched again, no attempt writes past the end of the file.
THEOREM FirstResumesWithoutGap == Spec => []FirstLeavesNoGap
  BY GapImplies, Inductive, FirstInductive, GapInductive, PTL

=============================================================================
