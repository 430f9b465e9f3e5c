---------------------------- MODULE MCOpenRouter ----------------------------
(* Small instances of OpenRouter for TLC. *)
EXTENDS OpenRouter
=============================================================================
