---------------------------- MODULE MCRunClient ----------------------------
(* Small instances of RunClient for TLC. *)
EXTENDS RunClient
=============================================================================
