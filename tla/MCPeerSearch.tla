----------------------------- MODULE MCPeerSearch -----------------------------
(* Small instances of PeerSearch for TLC. *)
EXTENDS PeerSearch, TLC

\* Addresses, digests and retries are interchangeable; the shell is not.  Not
\* used where liveness is checked.
Symmetry ==
    Permutations(Peers) \cup Permutations(Digests) \cup
        Permutations(Searchers \ {Shell})

\* Every name fits in a datagram.
AllFit == [f \in {} |-> f]

\* Of the names, one fits; the others are cut to it.
OthersAsFirst ==
    LET first == CHOOSE f \in Files : TRUE
    IN  [f \in Files \ {first} |-> first]

=============================================================================
