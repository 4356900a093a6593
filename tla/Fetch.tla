--------------------------------- MODULE Fetch ---------------------------------
(***************************************************************************)
(* What a transfer promises the download that started it, without headers, *)
(* ranges, streams or a server: the part of the file that is counted only  *)
(* grows, and only by the bytes that come next, until it is the whole file *)
(* or the transfer gives up.                                               *)
(***************************************************************************)
EXTENDS Naturals, Sequences

CONSTANT MaxSize

VARIABLES
    full,      \* the size of the file
    counted,   \* the bytes counted by the downloading node, by position
    outcome    \* "running", "failed" or "complete"

fetchVars == <<full, counted, outcome>>

\* The first n bytes of a file.
FirstBytes(n) == [i \in 1..n |-> i]

\* More than the whole file may be here, from a download of something longer.
Init ==
    /\ full \in 0..MaxSize
    /\ \E have \in 0..(MaxSize + 1) : counted = FirstBytes(have)
    /\ outcome = "running"

Grow ==
    /\ outcome = "running"
    /\ \E n \in (Len(counted) + 1)..full : counted' = FirstBytes(n)
    /\ UNCHANGED <<full, outcome>>

Complete ==
    /\ outcome = "running"
    /\ Len(counted) = full
    /\ outcome' = "complete"
    /\ UNCHANGED <<full, counted>>

Fail ==
    /\ outcome = "running"
    /\ outcome' = "failed"
    /\ UNCHANGED <<full, counted>>

Next == Grow \/ Complete \/ Fail

Spec == Init /\ [][Next]_fetchVars

=============================================================================
