------------------------------ MODULE MCDownloads ------------------------------
(* Small instances of Downloads for TLC. *)
EXTENDS Downloads, TLC

CONSTANTS v1, v2

Symmetry == Permutations(Tasks)

\* Nothing, a part of the content, the whole of it, other files shorter than it
\* and of its size, and a longer one that begins with it.
AnyLeftover ==
    {<<>>, <<v1>>, <<v1, v1>>, <<"junk">>, <<"junk", "junk">>, <<v1, v1, "junk">>}

NoLeftover == {<<>>}

OneVersion == {v1}

=============================================================================
