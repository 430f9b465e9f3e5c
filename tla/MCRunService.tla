---- MODULE MCRunService ----
(* Instances of RunService: few runs and reader threads. *)
EXTENDS RunService, TLC

CONSTANTS t1, t2

\* The run list shows one run; another client asks for two.
LimitOfReader == t1 :> 1 @@ t2 :> 2
====
