------------------------------ MODULE Template ------------------------------
(***************************************************************************)
(* What a run is given (templates/models.py): the list of checks and the   *)
(* network of the sandbox.  Neither changes.  Checks walks through the     *)
(* list, Sandbox sets up the network.                                      *)
(*                                                                         *)
(* Checks are named by their position in the list.                         *)
(***************************************************************************)
EXTENDS Naturals, Sequences

CONSTANTS
  Ports,
  MaxChecks    \* bound on the length of the list

ASSUME TemplateAssumption == MaxChecks \in Nat

VARIABLES
  checks,    \* Template.checks
  mode       \* Workspace.network

template == <<checks, mode>>

CheckType ==
  [kind : {"serve", "playwright"}, port : Ports, required : BOOLEAN]
    \cup [kind : {"command"}, required : BOOLEAN]

NetworkMode == {"none", "bridge", "internal"}

\* _validate_consistency: something serves the port of every browser check, somewhere in
\* the list.
Valid(list) ==
  \A i \in DOMAIN list : list[i].kind = "playwright" =>
    \E j \in DOMAIN list : list[j].kind = "serve" /\ list[j].port = list[i].port

TemplateInit ==
  /\ checks \in UNION {[1..n -> CheckType] : n \in 0..MaxChecks}
  /\ Valid(checks)
  /\ mode \in NetworkMode

TemplateTypeOK ==
  /\ checks \in Seq(CheckType)
  /\ mode \in NetworkMode
=============================================================================
