---- MODULE MCChecks ----
(* Instances of Checks: every valid list of up to MaxChecks checks; ports are interchangeable. *)
EXTENDS Checks, TLC

Symmetry == Permutations(Ports)
====
