------------------------------- MODULE MCIndex -------------------------------
(* Small instances of Index for TLC. *)
EXTENDS Index
=============================================================================
