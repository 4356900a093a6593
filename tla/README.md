# simple_p2p in TLA+

`simple_p2p` is a file-sharing node for a local network. A node announces
itself by UDP broadcast, asks its peers for a file by name with another
broadcast, collects their answers by UDP unicast, and fetches the file from one
of them over TCP. This directory holds a TLA+ specification of its parts, the
configurations that model-check them, and machine-checked proofs about some of
them. `PROJECT.json` lists runs, mutants, theorems and, definition by
definition, the source lines each definition stands for.

## The system

Threads: the *shell* (the main thread, `cmd.Cmd`; a search runs there in an
event loop of its own), the *controller loop* (TCP server, download coroutines,
file monitor), the *UDP loop* (datagram callbacks, alive agent), and an
*executor* pool that measures files and writes their state. They share objects
under three locks: `_known_peers_lock`, `_search_lock` and `Controller._lock`,
besides the repository's and one per `FileStateContext`. Nothing ties two locks
together: what is read under one may be stale when it is used under another.

| part | source | state | operations |
|---|---|---|---|
| search and peer table | `udp/udp_controller.py` | `_known_peers`, `_search_results` | `search`, the five datagram callbacks, alive agent, `remove_peer`, `start`, `stop` |
| downloads | `core/controller.py`, `file_transfer/client.py`, `context.py` | `_state`: name -> `FileStateContext` (provider, consumers) | `schedule_download`, `_download_from`, `retry_download`, `_monitor_files`, `add_provider`, `remove_provider`, `remove_file` |
| uploads | `file_transfer/server.py`, `models.py`, `context.py` | consumers of a `FileStateContext` | `handle_request`, `FileResponse._write_body`, `add_consumer`, `remove_consumer` |
| transfer | `file_transfer/*` | one TCP connection, two files | request, response, body, ranges |
| repository | `repository/repository.py` | `_files`, metadata files on disk | `load`, `init_meta`, `add_file`, `change_state`, `update_stat`, `remove_file` |
| background tasks | `common/tasks.py` | `tasks`, `tasks_lock` | `coro_in_background`, done callbacks |
| discovery, sockets | `udp_controller.py`, `udp/udp_socket.py` | age of each peer, drop counter | HELLO, HERE, alive agent, cleanup, send, receive, drop |
| datagram format | `udp/datagrams.py`, `structs.py` | none | encode, decode |
| shell | `core/simple_shell.py` | none of its own | commands |
| lifecycle | `core/main.py`, `Controller.start/stop` | loops, server, sockets | start, stop, exit |

How they meet. The shell's `download` runs a search and then
`schedule_download`, which puts metadata in the repository and in `_state` and
starts a download coroutine. The monitor looks at `_state` every 5 s and starts
`retry_download` for each downloading file without a provider; a retry searches
by digest and then downloads. A download reports progress and registers itself
*by name*, so the call lands on whatever the name stands for at that moment. A
failed download removes its peer from the table a search may be using. The peer
on the other side serves the request with a consumer context, which
`remove_file` or `stop` tells to stop; the end of a stopped upload invalidates,
again by name. Nodes learn of each other only by broadcasts that may be lost,
every 10 s, and forget who was silent for 30 s.

What is hard in it: searches and removals that interleave over the peer table;
exceptions that leave a coroutine in the middle of a protocol; identity by name
across remove and download again; a non-reentrant lock around a callback;
metadata written in place; resuming a file of unknown origin; peers that are
alive but not heard. `PROJECT.json`
lists these as hazards, each at its line.

What makes each part correct:

- search: one search per name, the entry there as long as it runs and gone
  afterwards, an offer never lost, peers given up only after the last try, an
  end in every case;
- downloads: one receiver per file, no dead provider, no gap between what is
  counted and what is on disk, READY only with the content promised, an end;
- uploads: a consumer list of the shared file that holds uploads in progress
  only, an end for each of them, a whole file that stays on offer;
- transfer: bytes at their place, both ends agreeing on what is left, complete
  meaning whole, an end; for the download, a prefix that only grows;
- discovery: no entry older than the cleanup period allows, no live peer removed
  that was heard in time, nodes that find each other again;
- repository: metadata files that say what the table says, whatever crash, and
  launches that show what was kept;
- background tasks: futures kept while they run and no longer, calls that return.

## Modules

| module | what | checked by |
|---|---|---|
| `PeerSearch` | `UdpController`: table, search, callbacks, agent, restarts | `MCPeerSearch`, `search_*` |
| `Board` | the abstract searches: polls and their sheets | implemented by `PeerSearch` |
| `PeerSearchProofs` | theorems about `PeerSearch` | TLAPS |
| `Downloads` | one name's downloads: `Controller`, `FileStateContext`, client, repository table | `MCDownloads`, `downloads_*` |
| `DownloadsProofs` | theorems about `Downloads` | TLAPS |
| `DownloadsFirstProofs` | theorems about the first download since the launch | TLAPS |
| `Uploads` | the name's uploads, composed with `Downloads` | `MCUploads`, `uploads*` |
| `UploadsProofs` | theorems about `Uploads`; builds on the two above | TLAPS |
| `Repository` | table and metadata files, with crashes | `MCRepository`, `repository` |
| `Ledger` | the abstract repository: a page that is shown, a book that is kept | implemented by `Repository` |
| `RepositoryProofs` | theorems about `Repository` | TLAPS |
| `Ranges` | byte ranges: `calc_range_len`, `ByteRange`, `FileResponse` headers, where the client writes | through `Transfer` |
| `Transfer` | one TCP transfer, both ends | `transfer` |
| `Fetch` | the abstract transfer: a prefix that grows until it is the file | implemented by `Transfer` |
| `TransferProofs` | theorems about `Transfer` | TLAPS |
| `Discovery` | peer tables of several nodes, HELLO and HERE, alive agent, drop counter | `discovery` |
| `DiscoveryProofs` | theorems about `Discovery` | TLAPS |
| `Background` | `common/tasks.py` | `background*` |
| `BackgroundProofs` | theorems about `Background` | TLAPS |

### PeerSearch

`known` holds the keys of `_known_peers`; `aged` those older than 30 s (the only
thing the timestamps decide); `results` is `_search_results`; `search[s]` holds
the locals of one search coroutine, at one of its awaits or between two uses of
a lock. An action is what runs between two acquisitions of a lock, or between
two awaits. `Begin`/`Refuse` are the critical section at lines 189-197;
`FirstTry`, `Retry` and `Settle` the loop of lines 214-236; `DropPeer` and
`DropMissingKey` one iteration of lines 239-241, where `dict.pop` may raise;
`Finish` the pop of line 245. Background searches share one thread (`CanRun`),
the shell's search does not. `ReplyReceived` and `ReplyRecorded` are the two
halves of `found_callback` and `not_found_callback`: the peer check takes one
lock and the recording another. Datagrams are not stored one by one: `asked`
remembers each FIND, and any reply to it may arrive at any time, any number of
times, or never. `OnWire` is what the name field of a datagram keeps of a name:
it holds 32 bytes, while `MAX_FILENAME_LENGTH` counts 32 characters, so for a
name in `Overflow` the peers read another name or none, and the search for it
ends without answers. `DownloadFailed`, `DeleteOldPeers` and `LoopsReplaced` are
what the rest of the program does to the table meanwhile. An exception in the
shell's search ends the process (`Relaunch`); one in a retry ends in a future.

`Board` is what the dictionary is for: a poll of a name opens a sheet, answers
are posted on it, and its end takes it down; an offer gives way to nothing but
another offer. `PeerSearch` implements it (`PollsAndPosts`) with the running
searches as polls and `_search_results` as the sheets; broadcasts, tries, the
peer table and the agent stutter. A search that ends with an exception, or whose
loop is replaced, is `Abandon`: its sheet stays up and blocks the name. The
Board has that step because the code does (see the findings).

### Downloads

Each `FileMetadata`/`FileStateContext` put under the name is an *incarnation*,
numbered from 1; `listed` and `entry` say which one the repository and the
controller have under the name. A task remembers its incarnation, as the
coroutine keeps its `meta`, but `Released`, `Receive`, `UpdateStat` and
`Publish` act on the current one, as the code does by name. A file is a sequence
of chunks, so a resumed file may be a mixture, `disk = Content(v)` stands for
the digest test, and metadata is only as fresh as the last measurement
(`Updated`). `Downloads` and `Uploads` assume that no other program touches the
file once the node runs: what lies there before is `Leftovers`, and a file that
changes under the program is a subject of `Repository` and `Transfer`. A file also comes under the name when the user adds one that lies
whole at the path (`AddLocal`, `Register`). `Restart` is a crash, or stop and
start: it loses the coroutines and makes table and entry again from the metadata
and the disk, correcting READY and INVALID as `load` does (`Loaded`); metadata
whose file is not there, as of a download that has received nothing, is
forgotten. `Publish` and the other changes of a status are table and metadata
file at once: the steps on disk, and crashes between them, are `Repository`'s. A
job queued before a stop survives it (`queued`), as the executor does.

`results` says whether the name has an entry in `_search_results`. A retry
inserts one (`StartSearch`) and is refused when there is one already; its search
takes the entry away when it ends with an answer (`PeerFound`) or without
(`NoConnection`), but not when it ends with a `KeyError` (`SearchRaises`). A new
process starts without an entry; `stop`, which keeps the `UdpController` object,
leaves the entry of a search asleep at line 230 behind, and that is the second
branch of `Restart`. An entry that nobody will take away is `Blocked`: every
later retry of the name is refused, and its download stays DOWNLOADING until the
next launch although peers have the file. `PeerSearch` has the same steps in
detail (`DropMissingKey`, `LoopsReplaced`, `Refuse`). The shell's own search of
the name while it is downloading is one of the reasons of a `NoConnection`.

`Faults` bounds failures of peers and network, and restarts; a task slot is free again
when its coroutine has ended. `Step` collects the actions that reach no
coroutine but their own, for `Uploads` to compose with.

### Uploads

`Uploads` extends `Downloads` with upload coroutines and the consumer list of
each incarnation. A request looks the name up three times (`Request`, `Enter`,
`Exit`), with awaits in between, and each time gets whatever the name stands
for. `ClearConsumers` is the `clear()` of `remove_file` for providers and
consumers at once, and `RestartUploads` drops them with the process. `stop`
tells them before it empties the table, so that an upload may still end
inconsistent and queue an invalidation by name (`QueuedAtStop`). The bytes
sent are `Transfer`'s subject; here only their number and the length of the file
on disk matter.

### Repository

An operation is a first step in memory, and then `Open` (the file is emptied),
`Dump`, or `Unlink`; `op` is the operation that holds the lock, and `Crash` may
come between any two steps. `load` reads the metadata files in any order.
`UpdateStat` is the one writer that takes no lock. The order of table and file
differs by operation, as in the code: `init_meta` saves first, `add_file` and
`change_state` change the table first.

`Ledger` is what the rest of the program may rely on. The page is the table, the
book the metadata files, the pen a metadata file that is emptied and not yet
written; `Content` is the digest of a record, which no launch may change. A
launch (`Open`) shows exactly what the book has, and page and book differ in one
name at most. `Repository` implements it (`KeepsALedger`); `load` corrects
records with `Blot` and `Write` while the ledger is closed, a crash is `Close`,
and changes of the files themselves, `update_stat` and the jobs stutter.

### Ranges and Transfer

`Ranges` is the arithmetic; `Transfer` runs it. A byte is its position in the
served file, so `local` shows where each byte came from. The served file may
shrink, be removed or become unshareable at any time. The client resumes at the
offset of the response and not at its own, which `Aligned` and `Conserved` are
about. The server may have another version under the name by the time it reads
the request (`version`): `Answer` is the order in which `handle_request` refuses,
an unknown name before a wrong digest before a range. `StopReceiving` is the
client's `should_stop`: when its download is removed, it leaves the loop at any
turn, with what it has.

`Fetch` is what the download relies on. `Transfer` implements it under the
mapping: `full` is the size of the file, `counted` the client's file up to its
offset (the rest of an old file does not count until it is overwritten), and the
outcome is the client's. The whole server, headers, stream and every fault map
to stuttering steps.

`Rest` counts what a transfer can still do: the bytes to be sent, twice (a byte
sent has yet to be read), the bytes in flight, and the steps that open and close
each end. `EveryStepCounts` says that every step of either loop uses up a part of
it, and that nothing gives it back: the safety half of `ClientEnds`.

### Discovery

Several nodes, each with a table of ages in ticks, an agent and a drop counter.
A datagram is in `net` until it arrives, is dropped by the counter, or is lost,
all within a tick; a round of an agent starts at most `Lateness` ticks after its
sleep. `AgentRound` sends HERE, or fails to, and removes what is too old either
way; `Drop` is the branch of `datagram_received` that simulates loss: at zero, by
chance, a new series begins, and otherwise the series goes on. `Start` may find
the table of before (`start` after `stop`) or an empty one (a new process).
`unheard` is history: rounds of a peer that a node has missed in a row.

### Background

`Enlist` is the append under the lock, `Register` and `RegisterLate` the
`add_done_callback` call on a running and on a finished future.
`run_coroutine_threadsafe` has already handed the coroutine to the loop by then,
so it may end (`Complete`) before its future is listed.

## Runs

| run | instance | what it shows |
|---|---|---|
| `search_safety` | 2 peers, 1 file, 2 digests, the shell and 2 retries, the real 3 tries | type invariant, exclusion, entry, answers, giving up; `PeerSearch` implements `Board` |
| `search_ends` | 1 peer, 2 files of which one name is too long for a datagram, the shell and a retry, 2 tries | searches side by side, one of them under a name that its peers read as the other's; every search ends |
| `search_keyerror` | 1 peer, 1 file, 3 searches | `KeyError` leaves the entry behind, which then refuses the name (finding) |
| `downloads` | 2 incarnations, 2 concurrent attempts, 2 chunks, 6 leftovers, 2 failures or restarts | one receiver, no gap and READY is whole until the first removal, no dead provider ever, the first download ends unless the entry of a search is left behind |
| `downloads_two_receivers` | 2 incarnations of 2 versions, 3 attempts, 2 chunks, 1 failure | two tasks write one file (finding) |
| `uploads` | 2 attempts, 1 upload, 2 incarnations, 1 chunk, 1 failure or restart | uploads beside downloads: the consumer list, each upload ends, the first file stays on offer |
| `uploads_invalidate` | same | the end of a stopped upload makes a whole file INVALID (finding) |
| `repository` | 2 names, 2 contents | metadata files are the table but for the one being written, through crashes; launches offer no wrong file; `Repository` implements `Ledger` |
| `transfer` | file of up to 4 bytes, chunks of 2 | alignment, conservation, completeness, end, a measure that every turn lowers; `Transfer` implements `Fetch` |
| `discovery` | 2 nodes, period 2, cleanup 6, lateness 1, drops of 2 in a row, 1 stop | tables stay fresh, live peers are kept, nodes find each other again |
| `background` | loop and shell, 4 futures | futures are kept while they run, and no longer |
| `background_shell` | loop and shell, 1 future | the call can block for ever (finding) |

Why the bounds are enough. Searches interact through one name and the peer
table, so three of them (the shell's, whose thread is its own, and two that
share a loop) show every pairwise interaction and a third bystander; two peers
make one answer and the other stay silent or vanish; two digests separate
answers to a search by name from those to a search by digest. A file of 2 chunks
has a first one and a rest to resume at; leftovers are empty, a right prefix,
the whole, a wrong prefix, wrong with the full length, and one that begins with
the file and is longer. Two attempts at a
time are what compete for a provider, and a slot is free again when its attempt
has ended, so a third may follow; two failures are a crash in a download that
has failed before. Two incarnations are what any clash across a removal needs,
and one chunk is enough where only the incarnations matter (`uploads`). Two
names are needed for `load` to stop half way. Files of 0 to 4 bytes in chunks of
2 give empty, partial, whole and odd last chunks, and a client may have one byte
more than the file. Tables of two nodes do not influence each other but through
HELLO, which a third node would answer as the second does; periods of 2 and 6
are the real 10 s and 30 s in the same ratio, with a round that may be late by
half a period, so that two silent rounds fit into the cleanup period and a third
does not. A series of 2 drops has a first and a last one. Symmetry (peers,
digests, retries, tasks, names, contents) is used in safety runs only.

Runs that say `CHECK_DEADLOCK FALSE` are of systems that may stop: a finished or
removed download, a finished transfer, no coroutine left to start.

Each property of a passing run has a mutant in `PROJECT.json`: a plausible bug,
written as an operator beside the one it replaces, that breaks the property.

## Fairness

- `PeerSearch`: strong fairness of each search's own steps. A loop serves its
  ready coroutines in order, and a sleeping one becomes ready when its timer
  ends, but a background search competes for the loop with others and so is
  enabled again and again rather than for ever. Nothing is assumed of datagrams,
  peers, the user or the agent.
- `Downloads`: weak fairness of each attempt's progress when its peer serves it,
  of the monitor (5 s period), of the executor and of a shell command that has
  begun. Failures and restarts are bounded by `Faults`: without that a download
  need not end. Even so it does not always end: `DownloadEnds` excepts the state
  in which an exception or a stop has left the entry of a search behind
  (`Blocked`), because the code then refuses every retry, and no fairness would
  help. `DownloadEnds` speaks of the first download since the launch:
  after a removal, the two receivers of `downloads_two_receivers` may take turns
  for ever in undoing each other's reset of `current_size`. That a connected
  peer answers at all is an assumption, since `Response.read_from` has no
  timeout (client.py:81).
- `Transfer`: weak fairness of server and client steps; every wait of the body
  has a timeout in the code.
- `Uploads`: in addition, weak fairness of each upload: its reads are local, and
  `FileResponse` waits for its peer with a timeout.
- `Discovery`: weak fairness of the clock and of the arrival or loss of
  datagrams. For `Rediscovered` also strong fairness of a round whose HERE is
  sent, and of a HERE that is heard, or counted while a series of drops goes on:
  losses, failing sends and new series of drops may come at any time, but of a
  peer's rounds without end not all are lost.
- `Background`: strong fairness of a thread inside a call, since a lock is
  granted in the end to who waits for it. Coroutines need not end.

## Findings

Four statements of the repository that the code does not keep, each with the run
that shows it:

- a search that ends with its entry left: `udp_controller.py:241` raises
  `KeyError` for a peer that is gone, against the comment at 243
  (`search_keyerror`). The entry refuses every later search of the name, retries
  included, so an unfinished download of it stays DOWNLOADING until the next
  launch (`Blocked` in `Downloads`). A stop and start under a sleeping search
  has the same effect without an exception (`LoopsReplaced`);
- two receivers of one file: `controller.py:304` clears the provider of a later
  download, against the setter's message at 52 (`downloads_two_receivers`);
- a whole file made INVALID: `controller.py:293` invalidates by name after a
  stopped upload, against the comment at 292 (`uploads_invalidate`). A removal
  and a stop of the daemon both lead there; for the first file since the launch
  `FirstStaysOffered` says that nothing else does;
- a background call that blocks on its own lock: `tasks.py:19`, against the
  docstring at 24 (`background_shell`).

## Proofs

Safety theorems hold for every value of the constants that satisfies the
module's `ASSUME`: any number of peers, files, searches, tasks, threads, names,
and every size of file and chunk. Each `*Proofs` module proves that an invariant
is inductive, action by action, and draws its theorems from it. No proof uses
fairness. The assumptions say that counts are naturals and that the values that
stand for "none" are not among those they are told from (`NoThread` no thread,
`NoFuture` no future, `"junk"` no version).

`PeerSearchProofs`:

- `TypeCorrect`: `TypeOK` is inductive by itself.
- `SearchesExclude`, `EntryPresent`: neither is inductive alone. The exclusion
  of two searches of a file rests on the entry being there for as long as one
  runs (then a second `Begin` is disabled), and the entry stays because only
  `Finish` removes one, and it removes that of its own file, which by exclusion
  no other search uses. `Exclusive` is their conjunction, and inductive given
  `TypeOK`. The same argument makes `LoopsReplaced` harmless to exclusion: it
  ends every search.
- `GivenUpLast`: `HeardOrGivenUp` is inductive given `TypeOK` and `Exclusive`;
  the exclusion is needed because the answers of a waiting search must not be
  reset by another's `Begin`.
- `OffersStay`: an action property, from `TypeOK` alone.
- `SearchesAreABoard`: every step is a step of `Board` or a stutter. It rests on
  `Exclusive`: `Close` takes down the sheet of its own poll only because the
  entry is there and no other search has it.

`DownloadsProofs` (`TypeCorrect`, `ProviderIsAlive`): `remove_provider` clears
the provider of whatever the name stands for, so a task that ends may clear
another's, and leave its own name behind in an incarnation that is no longer the
entry. Neither makes a dead provider of the entry: a task that leaves its block
leaves the *entry* without a provider, whoever it was, and an old incarnation
never becomes the entry again. The last needs `ShellAt`: between `init_meta` and
`_add_file` there is no entry, and the new incarnation has no provider, since
`Connect` makes one for entries only. `Started` (a task past its lookup has an
incarnation) is what `TypeOK` needs; the entry of the searches is apart from all
this (`ResultsTyped`). `TaskStep` states what a step of a task may
change, and each action is shown to be such a step.

`DownloadsFirstProofs` (`FirstReceives`, `FirstReadyMeansWhole`,
`FirstResumesWithoutGap`): all hold as long as nothing has been removed since
the launch, and the proof shows why that is needed. While there is one
incarnation, at most one task is in its block, and it is the provider of the
entry (`Alone`): the setter admits it only when there is none, and the name it
works by can stand for nothing else. So nobody writes the file between a
measurement and what is concluded from it (`Judged`), and a file that is READY
is whole and has nobody who would still write it (`Whole`); a late attempt asks
for the bytes after its end, and truncates it where it ends. `Places` and
`Writes` state what a step of a task may do to the provider and to the file, and
each action is shown to be such a step. Neither the number of attempts nor that
of failures and restarts is bounded by the proof. `GapFree` rests on the same
exclusion: only a task in its block, or the monitor when there is none, changes
the count or the file, and each does so in the order that keeps the count on
disk: a chunk is written before it is reported, the file is cut at the offset
that was reported last, and the monitor only lowers a count that nobody uses.
One receiver is needed: a second one, at an offset of its own, cuts the file
under the first.

`UploadsProofs` (`UploadsTypeCorrect`, `ConsumersAreAlive`, `DownloadsCompose`,
`FirstOfferStays`): a step of the downloads keeps the entry, creates an
incarnation, makes it the entry or removes it (`StepShape`), and a new
incarnation has no consumers (`Fresh`); an upload enters the list of the entry
only when it begins to serve, and leaves the list of the entry, whichever it is,
when it ends. Old lists may keep uploads that are over, but an old incarnation
never becomes the entry again. `DownloadsCompose` carries the invariants of the
two modules above over to the composition: an upload changes nothing they speak
of. `FirstOfferStays` goes through every step that could make the first file
INVALID or have it invalidated: until it is removed no upload is told to stop
(`NoneHalted`), and a READY file is whole, so no upload meets its end early, the
monitor finds it valid, and a late attempt and `load` measure what was measured
before. What is left is the stop.

`TransferProofs` (`TypeCorrect`, `BytesAreAligned`, `BytesAreConserved`,
`WholeWhenComplete`, `TransferIsFetch`, `TransfersRunOut`, `RangesStayInside`):
the invariant follows a byte from the
server's disk to the client's file. `RangeAnswer` evaluates the arithmetic of
`Ranges` for the one kind of range a client asks for; with it `Agreed` says that
the client resumes where the server begins. `InFlight` says that the bytes in
the stream are the file's, from the client's offset to the server's place, and
that the server's place and what it has left add up to the file. `Overwritten`
and `SubSeq` keep what is before the offset (`OverwrittenHas`, `CutHas`,
`RestHas`). A client that stops at its end has then the bytes 1 to `size`. For
the refinement, what is counted is the first `offset` bytes of the file
(`CountedIsPrefix`): a step that reads is a `Grow` of `Fetch`, the last one
`Complete`, an error `Fail`, and all others stutter. `TransfersRunOut` needs that
what `Rest` adds up are naturals (`Measured`), and that neither a chunk nor a
read is empty. `RangesStayInside` is not about a run: it evaluates `ByteRange`
and `FileResponse` for every interval a header can name, those included that
this program's client never asks for.

`RepositoryProofs` (`TypeCorrect`, `MetadataIsTheTable`,
`LaunchOffersValidFiles`, `RepositoryIsALedger`): between two operations files
and table agree, so within one only the name it works on may differ
(`UpAgrees`); `Shape` says which steps an operation may be at, and with what.
During a launch each metadata file agrees with the table, or is still to be read
(`LoadAgrees`), and a READY entry had, when the launch measured it, the content
its digest promises (`LoadChecked`). `Recorded` adds that no metadata file
promises another content than the table. For the refinement, `Reread` says that
the record a launch is about to write back promises what its metadata file does.

`DiscoveryProofs` (`DiscoveryTypeCorrect`, `TablesAreFresh`, `LivePeersStay`):
an entry for a running peer is no older than the rounds that went unheard make
it (`Explained`): each adds at most a period and its lateness, and as many as
fit into the cleanup period (`Tolerated`) cannot make it old. With the type
invariant and `NoStalePeers` this is inductive, for any periods.

`BackgroundProofs` (`TypeCorrect`, `RunningKept`, `FinishedForgotten`): a future
is *busy* while a call or a callback works on it, and with at most one (`Busy`).
A future that is not busy is in the list exactly while it runs (`Settled`), and
`Fresh` keeps one that has not been submitted out of everybody's hands.

## Checked and not proved

Liveness (`SearchEnds`, `DownloadEnds`, `UploadEnds`, `ClientEnds`,
`Rediscovered`) is out of the prover's reach and stays with TLC; of `ClientEnds`
the safety half is proved (`TransfersRunOut`). Every safety property of a passing
run, the three refinements included, is a theorem as well. What `Board` and
`Ledger` leave open by their `Abandon` and `Close` steps is what the code leaves
open: that a name is not blocked, and that a launch succeeds, is not promised.

## Not modelled, and why

- Parsing of headers, tables and prompts, and of the datagram format all but the
  length of the name: codecs and output without state; their effect on what is
  exchanged is data. With them goes the prompt of `do_download`, which may
  outlive the peer it offers (`simple_shell.py:142`).
- HEAD requests, the 400 and 500 answers: the program's own client sends no
  HEAD, and both answers end a transfer as any refusal does.
- The operating system's part of the transport: a TCP stream is a sequence until
  it breaks, a UDP network may do anything with datagrams.
- Real time, but for the periods of `Discovery`: timeouts are choices of when a
  step happens; only the order matters to the properties.
- Executor jobs (READY, `update_stat`) that are still running across a stop and
  start. The invalidation queued before is modelled.
- A start that fails half way, as when HELLO cannot be sent: the exception ends
  the program or is printed by the shell, and nothing more is promised.
- Drops of FIND datagrams by the drop counter; to a search they are losses. A
  configured series of 0 or less, which the counter does not survive.
- Empty files in `Repository` and `Downloads`, where a size of 0 is replaced by
  that of a leftover (`repository.py:210`); `Transfer` has them.
- `UdpController._search` (lines 93-174), a second copy of `search` that nothing
  calls.
- Peers' ports, and a response without `Content-Length`: configuration and
  malformed input.

## Order of the work, and what could follow

1. The core: `PeerSearch`, `Downloads`, `Transfer`, `Background`, `Repository`,
   each with its proofs.
2. `Uploads`, composed with `Downloads`; `Discovery` on a small clock; restarts
   in `Downloads`; names that do not fit into a datagram; `Fetch` and its
   refinement; the first download's theorems, and their composition.
3. What the searches and the repository promise the rest, as `Board` and
   `Ledger`; no gap in the first download, its file on offer beside uploads and
   restarts; the measure of a transfer, and ranges in general.
4. Open: executor jobs that outlive a stop; the download as an implementation of
   a write-once register per incarnation; a bound on how often a retry starts
   over once a second receiver exists.
