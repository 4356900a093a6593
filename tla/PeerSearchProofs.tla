--------------------------- MODULE PeerSearchProofs ---------------------------
(***************************************************************************)
(* Theorems about the peer table and the search, for any sets of peers,    *)
(* files, digests and searchers and any number of retries.                 *)
(***************************************************************************)
EXTENDS PeerSearch, TLAPS

-----------------------------------------------------------------------------
(* Typing *)

LEMMA RetriesNat == SearchRetries \in Nat
  BY SearchConstants

LEMMA FirstTries == {0, 1} \subseteq 0..(SearchRetries + 1)
  BY RetriesNat

LEMMA InitTyped == Init => TypeOK
  BY DEF Init, TypeOK, NoAnswers

LEMMA IdleIsIdle == Idle.at = "idle"
  BY DEF Idle

LEMMA StartedTyped ==
  ASSUME TypeOK, NEW s \in Searchers, search[s].at # "idle"
  PROVE  search[s] \in Started
<1>1. search[s] \in Started \cup {Idle}
  BY DEF TypeOK
<1> QED BY <1>1, IdleIsIdle

\* A search that leaves "idle" starts from clean locals.
LEMMA FreshTyped ==
  ASSUME NEW f \in Files
  PROVE  /\ \A d \in Digests \cup {NoDigest} :
               [Idle EXCEPT !.at = "begun", !.file = f, !.target = d] \in Started
         /\ [Idle EXCEPT !.at = "refused", !.file = f] \in Started
  BY FirstTries DEF Started, Idle, NoDigest

LEMMA SearchTyped ==
  ASSUME TypeOK, NEW s \in Searchers, NEW c \in Started \cup {Idle},
         search' = [search EXCEPT ![s] = c]
  PROVE  search' \in [Searchers -> Started \cup {Idle}]
  BY DEF TypeOK

LEMMA MissingTyped ==
  ASSUME NEW s \in Searchers, search[s] \in Started
  PROVE  Missing(s) \subseteq search[s].available /\ Missing(s) \in SUBSET Peers
  BY DEF Missing, Started

LEMMA BroadcastTyped ==
  ASSUME TypeOK, NEW s \in Searchers, search[s] \in Started, Broadcast(s)
  PROVE  asked' \subseteq Find
<1>1. search[s].file \in Files /\ search[s].target \in Digests \cup {NoDigest}
  BY DEF Started
<1>2. OnWire(search[s].file) \in Files \cup {"cut"}
  BY <1>1, SearchConstants DEF OnWire
<1> HIDE DEF OnWire
<1>3. [file |-> OnWire(search[s].file), target |-> search[s].target] \in Find
  BY <1>1, <1>2 DEF Find
<1> QED  BY <1>3 DEF Broadcast, TypeOK

\* The steps a search takes by itself keep the types.
LEMMA ContinueTyped ==
  ASSUME TypeOK, NEW s \in Searchers, Continue(s)
  PROVE  TypeOK'
<1> DEFINE c == search[s]
<1>1. c \in Started
  BY StartedTyped DEF Continue, FirstTry, Retry, Settle, DropPeer,
                      DropMissingKey, Finish, Unwind
<1>2. CASE FirstTry(s)
  <2> DEFINE d == [c EXCEPT !.at = "asleep", !.available = known, !.tries = 1]
  <2>1. d \in Started
    BY <1>1, FirstTries DEF Started, TypeOK
  <2>2. search' = [search EXCEPT ![s] = d]
    BY <1>2 DEF FirstTry
  <2> QED BY <1>1, <1>2, <2>1, <2>2, SearchTyped, BroadcastTyped
          DEF FirstTry, TypeOK
<1>3. CASE Retry(s)
  <2> DEFINE d == [c EXCEPT !.missing = Missing(s), !.tries = @ + 1]
  <2>1. c.tries + 1 \in 0..(SearchRetries + 1)
    BY <1>1, <1>3, RetriesNat DEF Retry, TriesLeft, Started
  <2>2. d \in Started
    BY <1>1, <2>1, MissingTyped DEF Started
  <2>3. search' = [search EXCEPT ![s] = d]
    BY <1>3 DEF Retry
  <2> QED BY <1>1, <1>3, <2>2, <2>3, SearchTyped, BroadcastTyped
          DEF Retry, TypeOK
<1>4. CASE Settle(s)
  <2> DEFINE d == [c EXCEPT !.at = "dropping", !.missing = Missing(s)]
  <2>1. d \in Started
    BY <1>1, MissingTyped DEF Started
  <2>2. search' = [search EXCEPT ![s] = d]
    BY <1>4 DEF Settle
  <2> QED BY <1>4, <2>1, <2>2, SearchTyped DEF Settle, TypeOK
<1>5. ASSUME NEW p \in Peers, DropPeer(s, p) PROVE TypeOK'
  <2> DEFINE d == [c EXCEPT !.dropped = @ \cup {p}]
  <2>1. d \in Started
    BY <1>1 DEF Started
  <2>2. search' = [search EXCEPT ![s] = d]
    BY <1>5 DEF DropPeer
  <2> QED BY <1>5, <2>1, <2>2, SearchTyped DEF DropPeer, TypeOK
<1>6. ASSUME NEW p \in Peers, DropMissingKey(s, p) PROVE TypeOK'
  <2> DEFINE d == [c EXCEPT !.at = "raised"]
  <2>1. d \in Started
    BY <1>1 DEF Started
  <2>2. search' = [search EXCEPT ![s] = d]
    BY <1>6 DEF DropMissingKey
  <2> QED BY <1>6, <2>1, <2>2, SearchTyped DEF DropMissingKey, TypeOK
<1>7. CASE Finish(s)
  BY <1>7 DEF Finish, TypeOK
<1>8. CASE Unwind(s)
  BY <1>8 DEF Unwind, TypeOK
<1> QED BY <1>2, <1>3, <1>4, <1>5, <1>6, <1>7, <1>8 DEF Continue

LEMMA NextTyped == TypeOK /\ [Next]_vars => TypeOK'
<1> SUFFICES ASSUME TypeOK, [Next]_vars PROVE TypeOK'
  OBVIOUS
<1>1. ASSUME NEW s \in Searchers, NEW f \in Files, NEW d \in TargetsOf(s),
             Begin(s, f, d)
      PROVE  TypeOK'
  <2>1. search' \in [Searchers -> Started \cup {Idle}]
    BY <1>1, FreshTyped, SearchTyped DEF Begin, TargetsOf
  <2> QED BY <1>1, <2>1 DEF Begin, NoAnswers, TypeOK
<1>2. ASSUME NEW s \in Searchers, NEW f \in Files, Refuse(s, f) PROVE TypeOK'
  <2>1. search' \in [Searchers -> Started \cup {Idle}]
    BY <1>2, FreshTyped, SearchTyped DEF Refuse
  <2> QED BY <1>2, <2>1 DEF Refuse, TypeOK
<1>3. ASSUME NEW s \in Searchers, Continue(s) PROVE TypeOK'
  BY <1>3, ContinueTyped
<1>4. CASE Relaunch
  BY <1>4 DEF Relaunch, TypeOK
<1>5. ASSUME NEW p \in Peers, HereReceived(p) PROVE TypeOK'
  BY <1>5 DEF HereReceived, TypeOK
<1>6. ASSUME NEW p \in Peers, NEW r \in Replies(p), ReplyReceived(r)
      PROVE  TypeOK'
  <2>1. PICK q \in Find : /\ q.file # "cut"
                          /\ \E a \in AnswersTo(q) :
                                r = [peer |-> p, file |-> q.file, answer |-> a]
    BY <1>6 DEF Replies, TypeOK
  <2>2. AnswersTo(q) \subseteq Answer
    BY <2>1 DEF AnswersTo, Find, Answer
  <2>3. q.file \in Files
    BY <2>1 DEF Find
  <2>4. r \in Reply
    BY <2>1, <2>2, <2>3 DEF Reply
  <2> QED BY <1>6, <2>4 DEF ReplyReceived, TypeOK
<1>7. ASSUME NEW p \in Peers, PeerAges(p) PROVE TypeOK'
  BY <1>7 DEF PeerAges, TypeOK
<1>8. ASSUME NEW p \in Peers, DownloadFailed(p) PROVE TypeOK'
  BY <1>8 DEF DownloadFailed, TypeOK
<1>9. ASSUME NEW r \in callback, ReplyRecorded(r) PROVE TypeOK'
  BY <1>9 DEF ReplyRecorded, Recorded, InProgress, TypeOK, Reply, Answer
<1>10. CASE DeleteOldPeers
  BY <1>10 DEF DeleteOldPeers, TypeOK
<1>11. CASE LoopsReplaced
  BY <1>11 DEF LoopsReplaced, TypeOK
<1>12. CASE UNCHANGED vars
  BY <1>12 DEF vars, TypeOK
<1> QED BY <1>1, <1>2, <1>3, <1>4, <1>5, <1>6, <1>7, <1>8, <1>9, <1>10,
           <1>11, <1>12 DEF Next

\* The variables keep their shapes, and no search broadcasts more than
\* SEARCH_RETRIES + 1 times.
THEOREM TypeCorrect == Spec => []TypeOK
  BY InitTyped, NextTyped, PTL DEF Spec

-----------------------------------------------------------------------------
(* The entry of a file is the lock of its search *)

\* OneSearchPerFile is inductive only with EntryWhileSearching, which makes
\* the check of a new search see a running one; EntryWhileSearching only with
\* OneSearchPerFile, which makes the entry a search pops its own.
Exclusive == OneSearchPerFile /\ EntryWhileSearching

LEMMA InitExclusive == Init => Exclusive
  BY IdleIsIdle
     DEF Init, Exclusive, OneSearchPerFile, EntryWhileSearching, Active

\* A step that only moves search s, keeps its file, does not start it and
\* keeps the entries.
LEMMA MoveExclusive ==
  ASSUME Exclusive, NEW s \in Searchers,
         DOMAIN results \subseteq DOMAIN results',
         \A t \in Searchers \ {s} : search'[t] = search[t],
         Active(s)' => Active(s) /\ search'[s].file = search[s].file
  PROVE  Exclusive'
  BY DEF Exclusive, OneSearchPerFile, EntryWhileSearching, Active, InProgress

LEMMA NextExclusive == TypeOK /\ Exclusive /\ [Next]_vars => Exclusive'
<1> SUFFICES ASSUME TypeOK, Exclusive, [Next]_vars PROVE Exclusive'
  OBVIOUS
<1>a. \A s \in Searchers : search[s] \in Started \cup {Idle} /\ s \in DOMAIN search
  BY DEF TypeOK
<1>1. ASSUME NEW s \in Searchers, NEW f \in Files, NEW d \in TargetsOf(s),
             Begin(s, f, d)
      PROVE  Exclusive'
  <2>1. search'[s].file = f /\ ~InProgress(f) /\ DOMAIN results' = DOMAIN results \cup {f}
    BY <1>1, <1>a DEF Begin, Idle
  <2>2. \A t \in Searchers \ {s} : search'[t] = search[t]
    BY <1>1, <1>a DEF Begin
  <2>3. \A t \in Searchers : Active(t) => search[t].file # f
    BY <2>1 DEF Exclusive, EntryWhileSearching
  <2> QED BY <2>1, <2>2, <2>3
          DEF Exclusive, OneSearchPerFile, EntryWhileSearching, Active, InProgress
<1>2. ASSUME NEW s \in Searchers, NEW f \in Files, Refuse(s, f) PROVE Exclusive'
  <2>1. ~Active(s)'
    BY <1>2, <1>a DEF Refuse, Active, Idle
  <2> QED BY <1>2, <1>a, <2>1, MoveExclusive DEF Refuse
<1>3. ASSUME NEW s \in Searchers, FirstTry(s) \/ Retry(s) \/ Settle(s)
      PROVE  Exclusive'
  <2>1. Active(s) /\ search[s] \in Started
    BY <1>3, StartedTyped DEF FirstTry, Retry, Settle, Active
  <2>2. search'[s].file = search[s].file
    BY <1>3, <1>a, <2>1 DEF FirstTry, Retry, Settle, Started
  <2> QED BY <1>3, <1>a, <2>1, <2>2, MoveExclusive DEF FirstTry, Retry, Settle
<1>4. ASSUME NEW s \in Searchers, NEW p \in Peers,
             DropPeer(s, p) \/ DropMissingKey(s, p)
      PROVE  Exclusive'
  <2>1. Active(s) /\ search[s] \in Started
    BY <1>4, StartedTyped DEF DropPeer, DropMissingKey, Active
  <2>2. search'[s].file = search[s].file
    BY <1>4, <1>a, <2>1 DEF DropPeer, DropMissingKey, Started
  <2> QED BY <1>4, <1>a, <2>1, <2>2, MoveExclusive DEF DropPeer, DropMissingKey
<1>5. ASSUME NEW s \in Searchers, Finish(s) PROVE Exclusive'
  <2>1. Active(s) /\ ~Active(s)' /\ DOMAIN results' = DOMAIN results \ {search[s].file}
    BY <1>5, <1>a DEF Finish, Active, Idle
  <2>2. \A t \in Searchers \ {s} : search'[t] = search[t]
    BY <1>5, <1>a DEF Finish
  <2> QED BY <2>1, <2>2
          DEF Exclusive, OneSearchPerFile, EntryWhileSearching, Active, InProgress
<1>6. ASSUME NEW s \in Searchers, Unwind(s) PROVE Exclusive'
  <2>1. ~Active(s)'
    BY <1>6, <1>a DEF Unwind, Active, Idle
  <2> QED BY <1>6, <1>a, <2>1, MoveExclusive DEF Unwind
<1>7. CASE Relaunch \/ LoopsReplaced
  BY <1>7, IdleIsIdle DEF Relaunch, LoopsReplaced, Exclusive,
                          OneSearchPerFile, EntryWhileSearching, Active
<1>8. ASSUME NEW r \in callback, ReplyRecorded(r) PROVE Exclusive'
  <2>1. UNCHANGED search /\ DOMAIN results' = DOMAIN results
    BY <1>8 DEF ReplyRecorded
  <2> QED BY <2>1 DEF Exclusive, OneSearchPerFile, EntryWhileSearching,
                      Active, InProgress
<1>9. CASE UNCHANGED <<results, search>>
  BY <1>9 DEF Exclusive, OneSearchPerFile, EntryWhileSearching, Active, InProgress
<1> QED BY <1>1, <1>2, <1>3, <1>4, <1>5, <1>6, <1>7, <1>8, <1>9
        DEF Next, Continue, vars, HereReceived, ReplyReceived, PeerAges,
            DownloadFailed, DeleteOldPeers

\* A shell search and a background retry of one file never run together.
THEOREM SearchesExclude == Spec => []OneSearchPerFile
<1>1. TypeOK /\ Exclusive /\ [Next]_vars => Exclusive'
  BY NextExclusive
<1>2. Exclusive => OneSearchPerFile
  BY DEF Exclusive
<1> QED BY <1>1, <1>2, InitExclusive, TypeCorrect, PTL DEF Spec

\* The uses of a search's own entry of _search_results raise no KeyError.
THEOREM EntryPresent == Spec => []EntryWhileSearching
<1>1. TypeOK /\ Exclusive /\ [Next]_vars => Exclusive'
  BY NextExclusive
<1>2. Exclusive => EntryWhileSearching
  BY DEF Exclusive
<1> QED BY <1>1, <1>2, InitExclusive, TypeCorrect, PTL DEF Spec

-----------------------------------------------------------------------------
(* Answers stay, and only silence is given up *)

LEMMA MarksAreNoDigests == "silent" \notin Answer /\ "notfound" \notin Digests
  BY SearchConstants DEF Answer

\* No step takes a recorded answer out of an entry that stays.
AnswersKept ==
    \A f \in DOMAIN results \cap DOMAIN results', p \in Peers :
       results[f][p] # "silent" => results'[f][p] # "silent"

LEMMA StepKeepsAnswers ==
  ASSUME TypeOK, [Next]_vars
  PROVE  AnswersKept /\ OffersKept
<1>1. ASSUME NEW s \in Searchers, NEW f \in Files, NEW d \in TargetsOf(s),
             Begin(s, f, d)
      PROVE  AnswersKept /\ OffersKept
  BY <1>1 DEF Begin, InProgress, AnswersKept, OffersKept
<1>2. ASSUME NEW s \in Searchers, Finish(s)
      PROVE  AnswersKept /\ OffersKept
  BY <1>2 DEF Finish, AnswersKept, OffersKept
<1>3. CASE Relaunch
  BY <1>3 DEF Relaunch, AnswersKept, OffersKept
<1>4. ASSUME NEW r \in callback, ReplyRecorded(r)
      PROVE  AnswersKept /\ OffersKept
  <2>1. r.answer \in Digests \cup {"notfound"}
    BY <1>4 DEF TypeOK, Reply, Answer
  <2>2. \A a \in Answer \cup {"silent"} :
           /\ a # "silent" => Recorded(a, r.answer) # "silent"
           /\ a \in Digests => Recorded(a, r.answer) \in Digests
    BY <2>1, MarksAreNoDigests DEF Recorded, Answer
  <2>3. \A f \in DOMAIN results, p \in Peers :
           results'[f][p] \in {results[f][p], Recorded(results[f][p], r.answer)}
    BY <1>4 DEF ReplyRecorded, InProgress, TypeOK
  <2>4. \A f \in DOMAIN results, p \in Peers :
           results[f][p] \in Answer \cup {"silent"}
    BY DEF TypeOK
  <2> QED BY <2>2, <2>3, <2>4 DEF AnswersKept, OffersKept
<1>5. CASE UNCHANGED results
  BY <1>5 DEF AnswersKept, OffersKept
<1> QED BY <1>1, <1>2, <1>3, <1>4, <1>5
        DEF Next, Continue, vars, Refuse, FirstTry, Retry, Settle, DropPeer,
            DropMissingKey, Unwind, HereReceived, ReplyReceived, PeerAges,
            DownloadFailed, DeleteOldPeers, LoopsReplaced

\* A late or repeated NOTFOUND never takes an offer back.
THEOREM OffersStay == Spec => AnswerPrecedence
<1>1. TypeOK /\ [Next]_vars => [OffersKept]_vars
  BY StepKeepsAnswers
<1> QED BY <1>1, TypeCorrect, PTL DEF Spec, AnswerPrecedence

\* The part of HeardOrGivenUp about one search.
Heard(s) ==
    /\ search[s].at \in {"begun", "asleep"} => search[s].dropped = {}
    /\ search[s].at = "dropping" =>
      /\ search[s].dropped \subseteq search[s].missing
      /\ \A p \in search[s].available \ search[s].missing :
            results[search[s].file][p] # "silent"
      /\ search[s].missing # {} => search[s].tries = SearchRetries + 1

\* What the rest of the node does to the entries does not disturb a search.
LEMMA HeardUnmoved ==
  ASSUME TypeOK, Exclusive, Exclusive', AnswersKept,
         NEW s \in Searchers, search'[s] = search[s], Heard(s)
  PROVE  Heard(s)'
<1>1. SUFFICES ASSUME search[s].at = "dropping",
                      NEW p \in search[s].available \ search[s].missing
               PROVE  results'[search[s].file][p] # "silent"
  BY DEF Heard
<1>2. search[s].file \in DOMAIN results \cap DOMAIN results'
  BY <1>1 DEF Exclusive, EntryWhileSearching, Active, InProgress
<1>3. search[s].available \subseteq Peers
  BY <1>1, StartedTyped DEF Started
<1> QED BY <1>1, <1>2, <1>3 DEF Heard, AnswersKept

LEMMA InitHeard == Init => HeardOrGivenUp
  BY IdleIsIdle DEF Init, HeardOrGivenUp

LEMMA NextHeard ==
  TypeOK /\ Exclusive /\ HeardOrGivenUp /\ [Next]_vars => HeardOrGivenUp'
<1> SUFFICES ASSUME TypeOK, Exclusive, HeardOrGivenUp, [Next]_vars,
                    NEW s \in Searchers
             PROVE  Heard(s)'
  BY DEF HeardOrGivenUp, Heard
<1>a. Heard(s) /\ s \in DOMAIN search
  BY DEF HeardOrGivenUp, Heard, TypeOK
<1>b. Exclusive' /\ AnswersKept
  BY NextExclusive, StepKeepsAnswers
<1>c. search[s] \in Started \/ search[s] = Idle
  BY DEF TypeOK
<1>1. CASE search'[s] = search[s]
  BY <1>1, <1>a, <1>b, HeardUnmoved
<1>2. ASSUME NEW f \in Files, NEW d \in TargetsOf(s), Begin(s, f, d)
      PROVE  Heard(s)'
  BY <1>2, <1>a DEF Begin, Idle, Heard
<1>3. CASE search'[s].at \notin {"begun", "asleep", "dropping"}
  BY <1>3 DEF Heard
<1>4. CASE FirstTry(s)
  <2>1. search[s] \in Started
    BY <1>4, <1>c, IdleIsIdle DEF FirstTry
  <2>2. search'[s].at = "asleep" /\ search'[s].dropped = search[s].dropped
    BY <1>4, <1>a, <2>1 DEF FirstTry, Started
  <2> QED BY <1>4, <1>a, <2>2 DEF FirstTry, Heard
<1>5. CASE Retry(s)
  <2>1. search[s] \in Started
    BY <1>5, <1>c, IdleIsIdle DEF Retry
  <2>2. search'[s].at = "asleep" /\ search'[s].dropped = search[s].dropped
    BY <1>5, <1>a, <2>1 DEF Retry, Started
  <2> QED BY <1>5, <1>a, <2>2 DEF Retry, Heard
<1>6. CASE Settle(s)
  <2>1. search[s] \in Started
    BY <1>6, <1>c, IdleIsIdle DEF Settle
  <2>2. /\ search'[s].at = "dropping"
        /\ search'[s].missing = Missing(s)
        /\ search'[s].dropped = {}
        /\ search'[s].available = search[s].available
        /\ search'[s].file = search[s].file
        /\ search'[s].tries = search[s].tries
    BY <1>6, <1>a, <2>1 DEF Settle, Started, Heard
  <2>3. Missing(s) # {} => search[s].tries = SearchRetries + 1
    BY <1>6, <2>1, RetriesNat DEF Settle, TriesLeft, Started
  <2>4. \A p \in search[s].available \ Missing(s) :
           results[search[s].file][p] # "silent"
    BY DEF Missing
  <2> QED BY <1>6, <2>2, <2>3, <2>4 DEF Settle, Heard
<1>7. ASSUME NEW p \in Peers, DropPeer(s, p) PROVE Heard(s)'
  <2>1. search[s] \in Started
    BY <1>7, <1>c, IdleIsIdle DEF DropPeer
  <2>2. /\ search'[s].at = search[s].at
        /\ search'[s].missing = search[s].missing
        /\ search'[s].dropped = search[s].dropped \cup {p}
        /\ search'[s].available = search[s].available
        /\ search'[s].file = search[s].file
        /\ search'[s].tries = search[s].tries
    BY <1>7, <1>a, <2>1 DEF DropPeer, Started
  <2> QED BY <1>7, <1>a, <2>2 DEF DropPeer, Heard
<1>8. ASSUME NEW p \in Peers, DropMissingKey(s, p)
      PROVE  search'[s].at = "raised"
  <2>1. search[s] \in Started
    BY <1>8, <1>c, IdleIsIdle DEF DropMissingKey
  <2> QED BY <1>8, <1>a, <2>1 DEF DropMissingKey, Started
<1>9. ASSUME NEW f \in Files, Refuse(s, f) PROVE search'[s].at = "refused"
  BY <1>9, <1>a DEF Refuse, Idle
<1>10. CASE Finish(s) \/ Unwind(s) \/ Relaunch \/ LoopsReplaced
  <2>1. search'[s].at = "idle"
    BY <1>10, <1>a, IdleIsIdle DEF Finish, Unwind, Relaunch, LoopsReplaced
  <2> QED BY <2>1 DEF Heard
<1>11. ASSUME NEW t \in Searchers \ {s},
              \/ Continue(t)
              \/ \E f \in Files : Refuse(t, f) \/ \E d \in TargetsOf(t) : Begin(t, f, d)
       PROVE  search'[s] = search[s]
  BY <1>11, <1>a DEF Continue, FirstTry, Retry, Settle, DropPeer,
                     DropMissingKey, Finish, Unwind, Refuse, Begin
<1>12. CASE UNCHANGED search
  BY <1>1, <1>12
<1>13. ASSUME NEW t \in Searchers, Continue(t) PROVE Heard(s)'
  <2>1. CASE t = s
    BY <2>1, <1>13, <1>3, <1>4, <1>5, <1>6, <1>7, <1>8, <1>10 DEF Continue
  <2>2. CASE t # s
    BY <2>2, <1>13, <1>11, <1>1
  <2> QED BY <2>1, <2>2
<1>14. ASSUME NEW t \in Searchers, NEW f \in Files,
              Refuse(t, f) \/ \E d \in TargetsOf(t) : Begin(t, f, d)
       PROVE  Heard(s)'
  <2>1. CASE t = s
    BY <2>1, <1>14, <1>2, <1>3, <1>9
  <2>2. CASE t # s
    BY <2>2, <1>14, <1>11, <1>1
  <2> QED BY <2>1, <2>2
<1> QED BY <1>10, <1>12, <1>13, <1>14
        DEF Next, vars, HereReceived, ReplyReceived, PeerAges,
            DownloadFailed, ReplyRecorded, DeleteOldPeers

\* Peers are given up only after every broadcast, and only if silent when the
\* search stopped waiting.
THEOREM GivenUpLast == Spec => []HeardOrGivenUp
<1>1. TypeOK /\ Exclusive /\ [Next]_vars => Exclusive'
  BY NextExclusive
<1>2. TypeOK /\ Exclusive /\ HeardOrGivenUp /\ [Next]_vars => HeardOrGivenUp'
  BY NextHeard
<1> QED BY <1>1, <1>2, InitExclusive, InitHeard, TypeCorrect, PTL DEF Spec

-----------------------------------------------------------------------------
(* The dictionary is a board of polls *)

Poll == [s \in {t \in Searchers : Active(t)} |-> search[s].file]

LEMMA StartsAsBoard == Init => B!Init
<1> SUFFICES ASSUME Init  PROVE B!Init
  OBVIOUS
<1>1. {t \in Searchers : Active(t)} = {}
  BY IdleIsIdle DEF Init, Active
<1>2. Poll = B!Nothing /\ results = B!Nothing
  BY <1>1 DEF Init, Poll, B!Nothing
<1> QED
  BY <1>2 DEF B!Init, Poll

\* A step that starts no search, ends none and leaves the entries alone.
LEMMA Unposted ==
  ASSUME UNCHANGED results,
         \A t \in Searchers : Active(t)' <=> Active(t),
         \A t \in Searchers : Active(t) => search'[t].file = search[t].file
  PROVE  UNCHANGED B!boardVars
<1>1. {t \in Searchers : Active(t)}' = {t \in Searchers : Active(t)}
  OBVIOUS
<1>2. Poll' = Poll
  BY <1>1 DEF Poll
<1> QED
  BY <1>2 DEF B!boardVars, Poll

\* Searches that end with an exception, or with their loop.
LEMMA AbandonedAs ==
  ASSUME UNCHANGED results, NEW S \in SUBSET Searchers,
         \A t \in S : ~Active(t)',
         \A t \in Searchers \ S : search'[t] = search[t]
  PROVE  B!Abandon(S)
<1>1. {t \in Searchers : Active(t)}' = {t \in Searchers : Active(t)} \ S
  BY DEF Active
<1>2. Poll' = B!Without(Poll, S)
  BY <1>1 DEF Poll, B!Without
<1> QED
  BY <1>2 DEF B!Abandon, Poll

LEMMA BeginAs ==
  ASSUME TypeOK, NEW s \in Searchers, NEW f \in Files, NEW d \in TargetsOf(s),
         Begin(s, f, d)
  PROVE  B!Open(s, f)
<1>1. /\ search[s].at = "idle" /\ f \notin DOMAIN results
      /\ search'[s].at = "begun" /\ search'[s].file = f
      /\ \A t \in Searchers \ {s} : search'[t] = search[t]
      /\ results' = [g \in DOMAIN results \cup {f} |->
                        IF g = f THEN NoAnswers ELSE results[g]]
  BY DEF Begin, TypeOK, Idle, InProgress
<1>2. {t \in Searchers : Active(t)}' = {t \in Searchers : Active(t)} \cup {s}
  BY <1>1 DEF Active
<1>3. ~Active(s) /\ s \notin DOMAIN Poll
  BY <1>1 DEF Active, Poll
<1>4. Poll' = [t \in DOMAIN Poll \cup {s} |-> IF t = s THEN f ELSE Poll[t]]
  BY <1>1, <1>2, <1>3 DEF Poll
<1> QED
  BY <1>1, <1>3, <1>4 DEF B!Open, Poll, NoAnswers

\* The entry a search pops is there, and is its own.
LEMMA FinishAs ==
  ASSUME TypeOK, Exclusive, NEW s \in Searchers, Finish(s)
  PROVE  B!Close(s)
<1>1. /\ Active(s) /\ ~Active(s)' /\ search[s].file \in DOMAIN results
      /\ \A t \in Searchers \ {s} : search'[t] = search[t]
      /\ results' = [g \in DOMAIN results \ {search[s].file} |-> results[g]]
  BY IdleIsIdle DEF Finish, TypeOK, Active, Exclusive, EntryWhileSearching, InProgress
<1>2. {t \in Searchers : Active(t)}' = {t \in Searchers : Active(t)} \ {s}
  BY <1>1 DEF Active
<1>3. s \in DOMAIN Poll /\ Poll[s] = search[s].file
  BY <1>1 DEF Poll
<1>4. Poll' = B!Without(Poll, {s})
  BY <1>1, <1>2 DEF Poll, B!Without
<1>5. results' = B!Without(results, {Poll[s]})
  BY <1>1, <1>3 DEF B!Without
<1> QED
  BY <1>1, <1>3, <1>4, <1>5 DEF B!Close, Poll

LEMMA RecordedAs ==
  ASSUME TypeOK, NEW r \in callback, ReplyRecorded(r)
  PROVE  (\E f \in Files, p \in Peers, a \in Digests \cup {"notfound"} : B!Post(f, p, a))
            \/ UNCHANGED B!boardVars
<1>1. UNCHANGED search /\ r.file \in Files /\ r.peer \in Peers /\ r.answer \in Answer
  BY DEF ReplyRecorded, TypeOK, Reply
<1>2. UNCHANGED Poll
  BY <1>1 DEF Poll, Active
<1>3. CASE ~InProgress(r.file)
  <2>1. UNCHANGED results
    BY <1>3 DEF ReplyRecorded
  <2> QED  BY <1>2, <2>1 DEF B!boardVars, Poll
<1>4. CASE InProgress(r.file)
  <2> DEFINE old == results[r.file][r.peer]
             a == Recorded(old, r.answer)
  <2>1. results' = [results EXCEPT ![r.file][r.peer] = a] /\ r.file \in DOMAIN results
    BY <1>4 DEF ReplyRecorded, InProgress
  <2>2. CASE r.answer = "notfound" /\ old # "silent"
    <3>1. a = old
      BY <2>2 DEF Recorded
    <3>2. results' = results
      BY <1>1, <2>1, <3>1 DEF TypeOK
    <3> QED  BY <1>2, <3>2 DEF B!boardVars, Poll
  <2>3. CASE ~(r.answer = "notfound" /\ old # "silent")
    <3>1. a = r.answer
      BY <2>3 DEF Recorded
    <3>2. B!Post(r.file, r.peer, r.answer)
      BY <1>1, <1>2, <2>1, <2>3, <3>1 DEF B!Post, Poll, Answer
    <3> QED  BY <1>1, <3>2 DEF Answer
  <2> QED  BY <2>2, <2>3
<1> QED
  BY <1>3, <1>4

LEMMA StepsAsBoard == TypeOK /\ Exclusive /\ [Next]_vars => [B!Next]_(B!boardVars)
<1> SUFFICES ASSUME TypeOK, Exclusive, [Next]_vars
             PROVE  B!Next \/ UNCHANGED B!boardVars
  OBVIOUS
<1>a. \A s \in Searchers : search[s] \in Started \cup {Idle} /\ s \in DOMAIN search
  BY DEF TypeOK
<1>1. ASSUME NEW s \in Searchers, NEW f \in Files, NEW d \in TargetsOf(s),
             Begin(s, f, d)
      PROVE  B!Next
  BY <1>1, BeginAs DEF B!Next
<1>2. ASSUME NEW s \in Searchers, Finish(s)  PROVE B!Next
  BY <1>2, FinishAs DEF B!Next
<1>3. ASSUME NEW s \in Searchers, UNCHANGED results,
             \A t \in Searchers \ {s} : search'[t] = search[t],
             Active(s)' <=> Active(s),
             Active(s) => search'[s].file = search[s].file
      PROVE  UNCHANGED B!boardVars
  <2>1. \A t \in Searchers : Active(t)' <=> Active(t)
    BY <1>3 DEF Active
  <2> QED  BY <1>3, <2>1, Unposted
<1>4. ASSUME NEW s \in Searchers, FirstTry(s) \/ Retry(s) \/ Settle(s)
      PROVE  UNCHANGED B!boardVars
  <2>1. search[s] \in Started
    BY <1>4, StartedTyped DEF FirstTry, Retry, Settle
  <2>2. Active(s) /\ Active(s)' /\ search'[s].file = search[s].file
    BY <1>4, <1>a, <2>1 DEF FirstTry, Retry, Settle, Started, Active
  <2> QED  BY <1>3, <1>4, <1>a, <2>2 DEF FirstTry, Retry, Settle
<1>5. ASSUME NEW s \in Searchers, NEW p \in Peers, DropPeer(s, p)
      PROVE  UNCHANGED B!boardVars
  <2>1. search[s] \in Started
    BY <1>5, StartedTyped DEF DropPeer
  <2>2. Active(s) /\ Active(s)' /\ search'[s].file = search[s].file
    BY <1>5, <1>a, <2>1 DEF DropPeer, Started, Active
  <2> QED  BY <1>3, <1>5, <1>a, <2>2 DEF DropPeer
<1>6. ASSUME NEW s \in Searchers, NEW p \in Peers, DropMissingKey(s, p)
      PROVE  B!Next
  <2>1. search[s] \in Started
    BY <1>6, StartedTyped DEF DropMissingKey
  <2>2. ~Active(s)'
    BY <1>6, <1>a, <2>1 DEF DropMissingKey, Started, Active
  <2>3. UNCHANGED results /\ \A t \in Searchers \ {s} : search'[t] = search[t]
    BY <1>6, <1>a DEF DropMissingKey
  <2>4. B!Abandon({s})
    BY <2>2, <2>3, AbandonedAs
  <2> QED  BY <2>4 DEF B!Next
<1>7. ASSUME NEW s \in Searchers, Unwind(s) \/ \E f \in Files : Refuse(s, f)
      PROVE  UNCHANGED B!boardVars
  <2>1. ~Active(s) /\ ~Active(s)' /\ UNCHANGED results
    BY <1>7, <1>a, IdleIsIdle DEF Unwind, Refuse, Active, Idle
  <2>2. \A t \in Searchers \ {s} : search'[t] = search[t]
    BY <1>7, <1>a DEF Unwind, Refuse
  <2> QED  BY <1>3, <2>1, <2>2
<1>8. CASE Relaunch
  <2>1. {t \in Searchers : Active(t)}' = {}
    BY <1>8, IdleIsIdle DEF Relaunch, Active
  <2>2. Poll' = B!Nothing /\ results' = B!Nothing
    BY <1>8, <2>1 DEF Relaunch, Poll, B!Nothing
  <2> QED  BY <2>2 DEF B!Next, B!Reset, Poll
<1>9. ASSUME NEW r \in callback, ReplyRecorded(r)
      PROVE  B!Next \/ UNCHANGED B!boardVars
  BY <1>9, RecordedAs DEF B!Next
<1>10. CASE LoopsReplaced
  <2>1. UNCHANGED results /\ \A t \in Searchers : ~Active(t)'
    BY <1>10, IdleIsIdle DEF LoopsReplaced, Active
  <2>2. B!Abandon(Searchers)
    BY <2>1, AbandonedAs
  <2> QED  BY <2>2 DEF B!Next
<1>11. CASE UNCHANGED <<results, search>>
  BY <1>11, Unposted DEF Active
<1> QED
  BY <1>1, <1>2, <1>4, <1>5, <1>6, <1>7, <1>8, <1>9, <1>10, <1>11
     DEF Next, Continue, vars, HereReceived, ReplyReceived, PeerAges,
         DownloadFailed, DeleteOldPeers

\* The dictionary under its lock, shared by three kinds of threads whose
\* searches time out, raise and are stopped, is a board of polls: an entry is
\* opened once, filled with answers and taken down by the search that opened it.
THEOREM SearchesAreABoard == Spec => PollsAndPosts
<1>1. TypeOK /\ Exclusive /\ [Next]_vars => Exclusive'
  BY NextExclusive
<1>2. TypeOK /\ Exclusive /\ [Next]_vars => [B!Next]_(B!boardVars)
  BY StepsAsBoard
<1> QED
  BY <1>1, <1>2, InitExclusive, StartsAsBoard, TypeCorrect, PTL
  DEF Spec, PollsAndPosts, B!Spec

=============================================================================
