------------------------------ MODULE MCUploads ------------------------------
(* Small instances of Uploads for TLC. *)
EXTENDS Uploads, TLC

CONSTANTS v1, v2

OneVersion == {v1}

NoLeftover == {<<>>}

=============================================================================
