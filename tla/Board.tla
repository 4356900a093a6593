--------------------------------- MODULE Board ---------------------------------
(***************************************************************************)
(* What the searches of a node and the replies of its peers make of the    *)
(* dictionary they share, without datagrams, retries, timeouts or threads: *)
(* one poll of a name at a time, whose sheet only its own end takes down,  *)
(* and on which an offer gives way to nothing but another offer.  A poll   *)
(* that is abandoned leaves its sheet behind, and the name blocked.        *)
(***************************************************************************)
CONSTANTS Peers, Files, Digests, Searchers

VARIABLES
    poll,     \* searcher -> the name it asks for, of those in progress
    posted    \* name -> peer -> a digest, "notfound", or "silent"

boardVars == <<poll, posted>>

Nothing == [x \in {} |-> x]

Without(f, S) == [x \in DOMAIN f \ S |-> f[x]]

Init == poll = Nothing /\ posted = Nothing

Open(s, f) ==
    /\ s \notin DOMAIN poll
    /\ f \notin DOMAIN posted
    /\ poll' = [t \in DOMAIN poll \cup {s} |-> IF t = s THEN f ELSE poll[t]]
    /\ posted' = [g \in DOMAIN posted \cup {f} |->
                     IF g = f THEN [p \in Peers |-> "silent"] ELSE posted[g]]

Post(f, p, answer) ==
    /\ f \in DOMAIN posted
    /\ answer \in Digests \/ (answer = "notfound" /\ posted[f][p] = "silent")
    /\ posted' = [posted EXCEPT ![f][p] = answer]
    /\ UNCHANGED poll

Close(s) ==
    /\ s \in DOMAIN poll
    /\ poll[s] \in DOMAIN posted
    /\ poll' = Without(poll, {s})
    /\ posted' = Without(posted, {poll[s]})

\* The search ends with an exception, or its loop is stopped.
Abandon(S) ==
    /\ poll' = Without(poll, S)
    /\ UNCHANGED posted

\* The process ends.
Reset == poll' = Nothing /\ posted' = Nothing

Next ==
    \/ \E s \in Searchers, f \in Files : Open(s, f)
    \/ \E f \in Files, p \in Peers, a \in Digests \cup {"notfound"} : Post(f, p, a)
    \/ \E s \in Searchers : Close(s)
    \/ \E S \in SUBSET Searchers : Abandon(S)
    \/ Reset

Spec == Init /\ [][Next]_boardVars

=============================================================================
