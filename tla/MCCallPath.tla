----------------------------- MODULE MCCallPath -----------------------------
(* CallPath, for TLC. *)
EXTENDS CallPath
=============================================================================
