--------------------------- MODULE MCDocPublisher ---------------------------
(* Small instances of DocPublisher for TLC. *)
EXTENDS DocPublisher
=============================================================================
