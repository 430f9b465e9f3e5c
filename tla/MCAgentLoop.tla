---------------------------- MODULE MCAgentLoop ----------------------------
(* Small instances of AgentLoop for TLC. *)
EXTENDS AgentLoop

\* A short answer, and one with output and reasoning tokens.
TwoUsages == {[prompt |-> 1, completion |-> 0, reasoning |-> 0],
              [prompt |-> 1, completion |-> 1, reasoning |-> 1]}
OneUsage  == {[prompt |-> 1, completion |-> 1, reasoning |-> 0]}
=============================================================================
