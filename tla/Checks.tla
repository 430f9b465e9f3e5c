------------------------------- MODULE Checks -------------------------------
(***************************************************************************)
(* The checks of a template after a run: run_checks (checks/runner.py)     *)
(* walks through the list of the Template.  A step is one check; a         *)
(* command, a server or a browser is only whether it succeeded.            *)
(***************************************************************************)
EXTENDS Template, FiniteSets

VARIABLES
  next,      \* position of the next check
  served,    \* ports whose last serve check passed
  outcomes,  \* CheckReport.outcomes
  skipped,   \* CheckReport.skipped
  phase      \* "running", "reported", "raised"

report     == <<next, served, outcomes, skipped, phase>>
checksVars == <<template, report>>

ChecksInit ==
  /\ TemplateInit
  /\ next = 1
  /\ served = {}
  /\ outcomes = <<>> /\ skipped = <<>>
  /\ phase = "running"

\* CheckReport.passed: no required check that was run has failed.
Blocking(o) == ~o.passed /\ checks[o.check].required
Passed == \A i \in DOMAIN outcomes : ~Blocking(outcomes[i])

Current(kind) ==
  /\ phase = "running"
  /\ next <= Len(checks)
  /\ checks[next].kind = kind

Advance ==
  /\ next' = next + 1
  /\ UNCHANGED <<template, phase>>

Skip ==
  /\ skipped' = Append(skipped, next)
  /\ UNCHANGED <<served, outcomes>>
  /\ Advance

Record(passed) ==
  /\ outcomes' = Append(outcomes, [check |-> next, passed |-> passed])
  /\ UNCHANGED skipped
  /\ Advance

\* After a blocking failure the remaining checks are skipped.
Blocked == phase = "running" /\ next <= Len(checks) /\ ~Passed

RunCommand(passed) ==
  /\ Current("command")
  /\ ~Blocked
  /\ UNCHANGED served
  /\ Record(passed)

\* Fault: a port stays marked as served.
FaultyRunServe(passed) ==
  /\ Current("serve")
  /\ ~Blocked
  /\ served' = IF passed THEN served \cup {checks[next].port} ELSE served
  /\ Record(passed)

RunServe(passed) ==
  /\ Current("serve")
  /\ ~Blocked
  /\ served' = IF passed THEN served \cup {checks[next].port} ELSE served \ {checks[next].port}
  /\ Record(passed)

Unserved == Current("playwright") /\ checks[next].port \notin served

\* The sandbox has a network to share in mode "internal" only; without it the checker has no
\* way to the application, and the check fails unrun.
RunPlaywright(passed) ==
  /\ Current("playwright")
  /\ ~Blocked /\ ~Unserved
  /\ passed => mode = "internal"
  /\ UNCHANGED served
  /\ Record(passed)

\* Fault: the skipped check is not reported.
FaultySkipCheck ==
  /\ Blocked \/ Unserved
  /\ UNCHANGED <<served, outcomes, skipped>>
  /\ Advance

SkipCheck == (Blocked \/ Unserved) /\ Skip

\* An exception that run_checks does not catch: the network cannot be attached, the server
\* not started, the checker not created.  There is no report then.
Raise ==
  /\ phase = "running"
  /\ next <= Len(checks)
  /\ ~Blocked
  /\ phase' = "raised"
  /\ UNCHANGED <<template, next, served, outcomes, skipped>>

Finish ==
  /\ phase = "running"
  /\ next > Len(checks)
  /\ phase' = "reported"
  /\ UNCHANGED <<template, next, served, outcomes, skipped>>

ChecksNext ==
  \/ \E passed \in BOOLEAN : RunCommand(passed) \/ RunServe(passed) \/ RunPlaywright(passed)
  \/ SkipCheck
  \/ Raise
  \/ Finish

ChecksSpec == ChecksInit /\ [][ChecksNext]_checksVars

-----------------------------------------------------------------------------
(* Properties *)

\* Every variable has its type.
ChecksTypeOK ==
  /\ TemplateTypeOK
  /\ next \in 1..Len(checks) + 1
  /\ served \subseteq Ports
  /\ outcomes \in Seq([check : DOMAIN checks, passed : BOOLEAN])
  /\ skipped \in Seq(DOMAIN checks)
  /\ phase \in {"running", "reported", "raised"}

Ran          == {outcomes[i].check : i \in DOMAIN outcomes}
IsSkipped    == {skipped[i] : i \in DOMAIN skipped}
FailedChecks == {outcomes[i].check : i \in {j \in DOMAIN outcomes : ~outcomes[j].passed}}

\* The report accounts for every check so far exactly once, in the order of the template.
ReportIsComplete ==
  /\ Ran \cup IsSkipped = 1..next - 1
  /\ Ran \cap IsSkipped = {}
  /\ \A i, j \in DOMAIN outcomes : i < j => outcomes[i].check < outcomes[j].check
  /\ \A i, j \in DOMAIN skipped : i < j => skipped[i] < skipped[j]

\* The last server before check i on its port came up.
Serves(i) ==
  LET before == {j \in 1..i - 1 : checks[j].kind = "serve" /\ checks[j].port = checks[i].port}
  IN  \E j \in before : j \in Ran \ FailedChecks /\ \A k \in before : k <= j

\* Only two things keep a check from being run: a required check before it that failed, and
\* for a browser check that no server is up on its port; and they always do
\* (runner.py:78-95).
SkipsAreJustified ==
  \A i \in 1..next - 1 :
    i \in IsSkipped <=>
      \/ \E j \in 1..i - 1 : j \in FailedChecks /\ checks[j].required
      \/ checks[i].kind = "playwright" /\ ~Serves(i)

\* "A Playwright check without a server started on the same port would only fail inside the
\* container - here it surfaces immediately" (models.py:152-153): a report that passed has
\* run every required check.
PassedRanRequired ==
  phase = "reported" /\ Passed => \A i \in IsSkipped : ~checks[i].required
=============================================================================
