------------------------------ MODULE PeerSearch ------------------------------
(***************************************************************************)
(* The peer table and the file search of one node: class UdpController of  *)
(* simple_p2p/udp/udp_controller.py.                                       *)
(*                                                                         *)
(* Three kinds of threads share its two dictionaries.  The UDP loop runs   *)
(* the datagram callbacks and the alive agent.  The controller loop runs   *)
(* the searches of the download retries and the removal of a peer whose    *)
(* download failed.  The shell thread runs the user's searches.  Each      *)
(* dictionary has a lock held for one short access, so an action here is   *)
(* what runs between two acquisitions of a lock or two awaits.             *)
(*                                                                         *)
(* The network may lose, delay, duplicate and reorder datagrams: "asked"   *)
(* holds every FIND this node has broadcast, and any reply to one of them  *)
(* may arrive at any later time, any number of times, or never.            *)
(***************************************************************************)
EXTENDS Naturals, FiniteSets

CONSTANTS
    Peers,          \* the addresses of the other nodes
    Files,          \* file names
    Overflow,       \* for the names of more than 32 bytes: what the first 32
                    \* are, another name or a broken character, "cut"
    Digests,        \* SHA-256 digests of file contents
    Searchers,      \* coroutines that run UdpController.search
    Shell,          \* the one the interactive shell runs
    SearchRetries   \* SEARCH_RETRIES of common/config.py

\* Answers share a set with the two marks, so no digest is one of the marks.
ASSUME SearchConstants ==
    /\ Shell \in Searchers
    /\ SearchRetries \in Nat
    /\ "cut" \notin Files
    /\ DOMAIN Overflow \subseteq Files
    /\ \A f \in DOMAIN Overflow : Overflow[f] \in Files \cup {"cut"}
    /\ Digests \cap {"", "silent", "notfound"} = {}

VARIABLES
    known,      \* keys of _known_peers
    aged,       \* peers whose last_updated is more than 30 s old
    results,    \* _search_results: file name -> peer -> its recorded answer
    asked,      \* every FIND datagram broadcast so far
    callback,   \* a reply between its peer check and its recording (or {})
    search      \* the locals of each search coroutine

vars == <<known, aged, results, asked, callback, search>>

-----------------------------------------------------------------------------
(* Data *)

NoDigest == ""

\* The shell searches by name alone, a retry also by the digest it resumes.
TargetsOf(s) == IF s = Shell THEN {NoDigest} ELSE Digests

\* FoundResponse.is_found with its digest, or a negative answer.
Answer == Digests \cup {"notfound"}

\* An inner dictionary of _search_results: peers that did not answer are
\* "silent".
NoAnswers == [p \in Peers |-> "silent"]

\* The name in a datagram.  The struct keeps 32 bytes of it, where
\* MAX_FILENAME_LENGTH counts characters.
OnWire(f) == IF f \in DOMAIN Overflow THEN Overflow[f] ELSE f

Find == [file : Files \cup {"cut"}, target : Digests \cup {NoDigest}]

Reply == [peer : Peers, file : Files, answer : Answer]

\* What find_callback of a peer may send back for a FIND datagram: the
\* peer's repository is arbitrary, a digest asked for must match.  A name that
\* cannot be decoded raises again while the answer is logged: no reply.
AnswersTo(q) ==
    {"notfound"} \cup (IF q.target = NoDigest THEN Digests ELSE {q.target})

Replies(p) ==
    UNION {{[peer |-> p, file |-> q.file, answer |-> a] : a \in AnswersTo(q)} :
              q \in {find \in asked : find.file # "cut"}}

Idle == [at |-> "idle", file |-> "", target |-> NoDigest, available |-> {},
         missing |-> {}, dropped |-> {}, tries |-> 0]

Started ==
    [at : {"begun", "asleep", "dropping", "raised", "refused"},
     file : Files, target : Digests \cup {NoDigest},
     available : SUBSET Peers, missing : SUBSET Peers,
     dropped : SUBSET Peers, tries : 0..(SearchRetries + 1)]

\* Between the insertion of the entry and its removal.
Active(s) == search[s].at \in {"begun", "asleep", "dropping"}

\* A search of f is in progress when _search_results has a key f.
InProgressOnceAnswered(f) ==    \* mutant: tests the value, and {} is falsy
    f \in DOMAIN results /\ \E p \in Peers : results[f][p] # "silent"

InProgress(f) == f \in DOMAIN results

\* get_missing_peers: peers of the snapshot without a recorded answer.
Missing(s) ==
    {p \in search[s].available : results[search[s].file][p] = "silent"}

\* The background searches share the controller loop, one thread: each keeps
\* it from a resumption to its next await.
HoldingLoop ==
    {s \in Searchers \ {Shell} : search[s].at \in {"begun", "dropping"}}

CanRun(s) == s = Shell \/ HoldingLoop = {}

-----------------------------------------------------------------------------
(* The search coroutine *)

\* Check-and-insert of the entry under _search_lock.
Begin(s, f, d) ==
    /\ search[s].at = "idle"
    /\ CanRun(s)
    /\ ~InProgress(f)
    /\ results' = [g \in DOMAIN results \cup {f} |->
                      IF g = f THEN NoAnswers ELSE results[g]]
    /\ search' = [search EXCEPT ![s] =
                      [Idle EXCEPT !.at = "begun", !.file = f, !.target = d]]
    /\ UNCHANGED <<known, aged, asked, callback>>

\* The same critical section when the name has an entry: LogicError.
Refuse(s, f) ==
    /\ search[s].at = "idle"
    /\ CanRun(s)
    /\ InProgress(f)
    /\ search' = [search EXCEPT ![s] =
                      [Idle EXCEPT !.at = "refused", !.file = f]]
    /\ UNCHANGED <<known, aged, results, asked, callback>>

\* A broadcast whose send fails is logged and counts as a try all the same.
Broadcast(s) ==
    \/ asked' = asked \cup {[file |-> OnWire(search[s].file),
                             target |-> search[s].target]}
    \/ UNCHANGED asked

\* Snapshot of the known peers, first FIND, sleep of FINDING_TIME.
FirstTry(s) ==
    /\ search[s].at = "begun"
    /\ Broadcast(s)
    /\ search' = [search EXCEPT ![s].at = "asleep",
                                ![s].available = known,
                                ![s].tries = 1]
    /\ UNCHANGED <<known, aged, results, callback>>

\* range(SEARCH_RETRIES + 1) has another element.
OneTryTooMany(s) == search[s].tries <= SearchRetries + 1    \* mutant
OneTryTooFew(s) == search[s].tries < SearchRetries          \* mutant

TriesLeft(s) == search[s].tries < SearchRetries + 1

\* Waking with answers missing: another FIND, while tries are left.
Retry(s) ==
    /\ search[s].at = "asleep"
    /\ CanRun(s)
    /\ Missing(s) # {}
    /\ TriesLeft(s)
    /\ Broadcast(s)
    /\ search' = [search EXCEPT ![s].missing = Missing(s),
                                ![s].tries = @ + 1]
    /\ UNCHANGED <<known, aged, results, callback>>

\* Waking with every answer, or after the last try.
SettleAnswered(s) ==    \* mutant: waits for every peer, however long
    /\ search[s].at = "asleep"
    /\ CanRun(s)
    /\ Missing(s) = {}
    /\ search' = [search EXCEPT ![s].at = "dropping", ![s].missing = {}]
    /\ UNCHANGED <<known, aged, results, asked, callback>>

Settle(s) ==
    /\ search[s].at = "asleep"
    /\ CanRun(s)
    /\ Missing(s) = {} \/ ~TriesLeft(s)
    /\ search' = [search EXCEPT ![s].at = "dropping",
                                ![s].missing = Missing(s)]
    /\ UNCHANGED <<known, aged, results, asked, callback>>

\* One iteration of the loop that deletes the unresponsive peers; remove_peer
\* takes _known_peers_lock each time.
DropPeer(s, p) ==
    /\ search[s].at = "dropping"
    /\ p \in search[s].missing \ search[s].dropped
    /\ p \in known
    /\ known' = known \ {p}
    /\ aged' = aged \ {p}
    /\ search' = [search EXCEPT ![s].dropped = @ \cup {p}]
    /\ UNCHANGED <<results, asked, callback>>

\* dict.pop of a peer somebody else has removed: KeyError leaves the search.
DropMissingKey(s, p) ==
    /\ search[s].at = "dropping"
    /\ p \in search[s].missing \ search[s].dropped
    /\ p \notin known
    /\ search' = [search EXCEPT ![s].at = "raised"]
    /\ UNCHANGED <<known, aged, results, asked, callback>>

\* The entry is popped and the answers are handed to the caller.
Finish(s) ==
    /\ search[s].at = "dropping"
    /\ search[s].missing = search[s].dropped
    /\ results' = [g \in DOMAIN results \ {search[s].file} |-> results[g]]
    /\ search' = [search EXCEPT ![s] = Idle]
    /\ UNCHANGED <<known, aged, asked, callback>>

\* Mutant: a "finally" that pops the entry whoever inserted it.
UnwindAndClear(s) ==
    /\ s # Shell
    /\ search[s].at \in {"raised", "refused"}
    /\ search' = [search EXCEPT ![s] = Idle]
    /\ results' = [g \in DOMAIN results \ {search[s].file} |-> results[g]]
    /\ UNCHANGED <<known, aged, asked, callback>>

\* An exception of a background search ends in its future; the next retry
\* reuses the slot.
Unwind(s) ==
    /\ s # Shell
    /\ search[s].at \in {"raised", "refused"}
    /\ search' = [search EXCEPT ![s] = Idle]
    /\ UNCHANGED <<known, aged, results, asked, callback>>

\* _do_search catches no exception of the search, so one of the shell's own
\* searches ends the process; the user launches it again.
Relaunch ==
    /\ search[Shell].at \in {"raised", "refused"}
    /\ known' = {}
    /\ aged' = {}
    /\ results' = [g \in {} |-> NoAnswers]
    /\ callback' = {}
    /\ search' = [s \in Searchers |-> Idle]
    /\ UNCHANGED asked

-----------------------------------------------------------------------------
(* The UDP loop: one thread, so one callback at a time *)

HereReceived(p) ==
    /\ callback = {}
    /\ known' = known \cup {p}
    /\ aged' = aged \ {p}
    /\ UNCHANGED <<results, asked, callback, search>>

\* found_callback and not_found_callback look the sender up ...
ReplyReceived(r) ==
    /\ callback = {}
    /\ r.peer \in known
    /\ callback' = {r}
    /\ UNCHANGED <<known, aged, results, asked, search>>

\* ... and record the answer under another lock.  A positive answer replaces
\* what is there, a negative one only fills a gap.
LastAnswer(old, answer) == answer    \* mutant: the last datagram wins

Recorded(old, answer) ==
    IF answer = "notfound" /\ old # "silent" THEN old ELSE answer

ReplyRecorded(r) ==
    /\ callback = {r}
    /\ callback' = {}
    /\ results' = IF InProgress(r.file)
                  THEN [results EXCEPT ![r.file][r.peer] = Recorded(@, r.answer)]
                  ELSE results
    /\ UNCHANGED <<known, aged, asked, search>>

\* Time passes without a HERE from p.
PeerAges(p) ==
    /\ p \in known \ aged
    /\ aged' = aged \cup {p}
    /\ UNCHANGED <<known, results, asked, callback, search>>

\* _delete_old_peers, run by the alive agent every 10 s.
DeleteOldPeers ==
    /\ callback = {}
    /\ aged # {}
    /\ known' = known \ aged
    /\ aged' = {}
    /\ UNCHANGED <<results, asked, callback, search>>

-----------------------------------------------------------------------------
(* The rest of the controller *)

\* _download_from removes the peer of a failed download.
DownloadFailed(p) ==
    /\ HoldingLoop = {}
    /\ p \in known
    /\ known' = known \ {p}
    /\ aged' = aged \ {p}
    /\ UNCHANGED <<results, asked, callback, search>>

\* Controller.stop and start: the old loops leave run_forever between two
\* callbacks, so the background searches asleep then never wake.  The two
\* dictionaries survive.
LoopsReplaced ==
    /\ callback = {}
    /\ search[Shell].at = "idle"
    /\ \A s \in Searchers \ {Shell} : search[s].at \in {"idle", "asleep"}
    /\ \E s \in Searchers : search[s].at = "asleep"
    /\ search' = [s \in Searchers |-> Idle]
    /\ UNCHANGED <<known, aged, results, asked, callback>>

-----------------------------------------------------------------------------
(* Specification *)

Init ==
    /\ known = {}
    /\ aged = {}
    /\ results = [f \in {} |-> NoAnswers]
    /\ asked = {}
    /\ callback = {}
    /\ search = [s \in Searchers |-> Idle]

\* What a started search does by itself.
Continue(s) ==
    \/ FirstTry(s)
    \/ Retry(s)
    \/ Settle(s)
    \/ \E p \in Peers : DropPeer(s, p) \/ DropMissingKey(s, p)
    \/ Finish(s)
    \/ Unwind(s)

Next ==
    \/ \E s \in Searchers, f \in Files :
          \/ \E d \in TargetsOf(s) : Begin(s, f, d)
          \/ Refuse(s, f)
    \/ \E s \in Searchers : Continue(s)
    \/ Relaunch
    \/ \E p \in Peers :
          \/ HereReceived(p)
          \/ \E r \in Replies(p) : ReplyReceived(r)
          \/ PeerAges(p)
          \/ DownloadFailed(p)
    \/ \E r \in callback : ReplyRecorded(r)
    \/ DeleteOldPeers
    \/ LoopsReplaced

\* A loop serves its coroutines first come, first served, so a search whose
\* sleep is over gets the loop in the end; the locks are held for bounded
\* sections.  Nothing is assumed of the network, the peers or the user.
Fairness == \A s \in Searchers : SF_vars(Continue(s))

Spec == Init /\ [][Next]_vars /\ Fairness

-----------------------------------------------------------------------------
(* Properties *)

\* The variables keep their shapes; in particular no search broadcasts more
\* than SEARCH_RETRIES + 1 times.
TypeOK ==
    /\ known \subseteq Peers
    /\ aged \subseteq known
    /\ DOMAIN results \subseteq Files
    /\ results \in [DOMAIN results -> [Peers -> Answer \cup {"silent"}]]
    /\ asked \subseteq Find
    /\ callback \subseteq Reply
    /\ search \in [Searchers -> Started \cup {Idle}]

\* The entry of _search_results is a lock on the file name: a shell search
\* and a background retry of one file never run together, whatever the
\* callbacks, failures and restarts in between.
OneSearchPerFile ==
    \A s, t \in Searchers :
        Active(s) /\ Active(t) /\ search[s].file = search[t].file => s = t

\* A running search finds its own entry at each use, so neither
\* get_missing_peers (line 204) nor the final pop (line 245) can raise: no
\* other search, callback, exception or restart takes the entry away.
EntryWhileSearching ==
    \A s \in Searchers : Active(s) => InProgress(search[s].file)

\* A peer of the search's snapshot has answered by the time the search stops
\* waiting, or it is given up; and peers are given up only after every one of
\* the SEARCH_RETRIES + 1 broadcasts.  A late answer cannot undo this.
HeardOrGivenUp ==
    \A s \in Searchers :
      /\ search[s].at \in {"begun", "asleep"} => search[s].dropped = {}
      /\ search[s].at = "dropping" =>
        /\ search[s].dropped \subseteq search[s].missing
        /\ \A p \in search[s].available \ search[s].missing :
              results[search[s].file][p] # "silent"
        /\ search[s].missing # {} => search[s].tries = SearchRetries + 1

\* While a search runs, a peer that offered the file stays an offer: a late,
\* repeated or reordered NOTFOUND never takes it back.
OffersKept ==
    \A f \in DOMAIN results \cap DOMAIN results', p \in Peers :
       results[f][p] \in Digests => results'[f][p] \in Digests

AnswerPrecedence == [][OffersKept]_vars

\* The dictionary is a board of polls (module Board): no interleaving of the
\* shell's search, the retries, the callbacks, exceptions, stops and launches
\* makes a search share its entry, lose it, or take down one it did not insert.
B == INSTANCE Board
     WITH poll <- [s \in {t \in Searchers : Active(t)} |-> search[s].file],
          posted <- results

PollsAndPosts == B!Spec

\* Every search that starts ends, with its answers or with an exception,
\* even when every datagram is lost.
SearchEnds ==
    \A s \in Searchers : search[s].at = "begun" ~> ~Active(s)

\* What the comment of line 243 says: an entry tells that a search is not over.
\* A search that ends with a KeyError leaves its entry behind.
EntryClearedAtTheEnd ==
    \A s \in Searchers : search[s].at = "raised" => ~InProgress(search[s].file)

=============================================================================
