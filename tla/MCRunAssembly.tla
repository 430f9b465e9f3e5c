---- MODULE MCRunAssembly ----
(* Instances of RunAssembly: every valid template with up to MaxChecks checks. *)
EXTENDS RunAssembly
====
