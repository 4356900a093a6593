----------------------------- MODULE MCRepository -----------------------------
(* Small instances of Repository for TLC. *)
EXTENDS Repository, TLC

\* Names and contents are interchangeable.
Symmetry == Permutations(Names) \cup Permutations(Contents)

=============================================================================
