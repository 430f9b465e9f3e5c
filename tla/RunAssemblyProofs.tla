-------------------------- MODULE RunAssemblyProofs --------------------------
(***************************************************************************)
(* Proofs about RunAssembly, with Sandbox and Checks, for any template of  *)
(* any length and any number of calls of the daemon that fail.             *)
(***************************************************************************)
EXTENDS RunAssembly, TLAPS

-----------------------------------------------------------------------------
(* The check phase *)

LEMMA InitIsChecks == Init => ChecksInit
  BY DEF Init

\* Every step is one of Checks, or leaves its variables alone.
LEMMA StepIsChecks == [Next]_vars => [ChecksNext]_checksVars
<1> SUFFICES ASSUME [Next]_vars PROVE [ChecksNext]_checksVars
  OBVIOUS
<1>1. CASE UNCHANGED <<template, report>>
  BY <1>1 DEF checksVars
<1>2. CASE Create \/ CancelCreate \/ WriteStarter \/ AttachAgent \/ RunAgent \/ DetachAgent
           \/ List \/ Destroy \/ Unlink \/ Crash
  BY <1>1, <1>2 DEF Create, CancelCreate, WriteStarter, AttachAgent, RunAgent, DetachAgent, List,
                    Destroy, Unlink, Crash, config
<1>3. CASE PassOver \/ FinishChecks \/ StartServer \/ FailUnreachable
  BY <1>3 DEF PassOver, FinishChecks, StartServer, FailUnreachable, LeaveChecks, ChecksNext
<1>4. CASE StartCommand
  BY <1>1, <1>4 DEF StartCommand, LeaveChecks, ChecksNext, config
<1>5. CASE RaiseCommand \/ \E passed \in BOOLEAN : ReturnCommand(passed)
  BY <1>5 DEF RaiseCommand, ReturnCommand, LeaveChecks, ChecksNext
<1>6. CASE StartChecker
  BY <1>1, <1>6 DEF StartChecker, LeaveChecks, ChecksNext, config
<1>7. CASE AwaitChecker
  BY <1>1, <1>7 DEF AwaitChecker, LeaveChecks, ChecksNext, config
<1>8. CASE RunSpec \/ CancelChecker
  BY <1>8 DEF RunSpec, CancelChecker, LeaveChecks, ChecksNext
<1>9. CASE Thread
  BY <1>1, <1>9 DEF Thread, config
<1>10. CASE UNCHANGED vars
  BY <1>1, <1>10 DEF vars, config
<1> QED
  BY <1>2, <1>3, <1>4, <1>5, <1>6, <1>7, <1>8, <1>9, <1>10 DEF Next, TaskStep

\* Nothing changes the template.
LEMMA TemplateStays == [Next]_vars => UNCHANGED <<checks, mode>>
  BY StepIsChecks DEF ChecksNext, checksVars, template, RunCommand, RunServe, RunPlaywright,
                      SkipCheck, Skip, Record, Advance, Raise, Finish

\* Where the steps of a run touch the report they are written as those of Checks, so what is
\* proved of ChecksSpec holds of a run.
LEMMA RunIsChecks == Spec => ChecksSpec
  BY InitIsChecks, StepIsChecks, PTL DEF Spec, ChecksSpec

LEMMA ChecksTypeInit == ChecksInit => ChecksTypeOK
<1> SUFFICES ASSUME ChecksInit PROVE ChecksTypeOK
  OBVIOUS
<1>1. \E n \in Nat : checks \in [1..n -> CheckType]
  BY TemplateAssumption DEF ChecksInit, TemplateInit
<1>2. checks \in Seq(CheckType)
  BY <1>1
<1> QED BY <1>2 DEF ChecksInit, TemplateInit, ChecksTypeOK, TemplateTypeOK

LEMMA ChecksTypeStep == ChecksTypeOK /\ [ChecksNext]_checksVars => ChecksTypeOK'
<1> SUFFICES ASSUME ChecksTypeOK, [ChecksNext]_checksVars PROVE ChecksTypeOK'
  OBVIOUS
<1>1. next \in 1..Len(checks) + 1 /\ Len(checks) \in Nat /\ DOMAIN checks = 1..Len(checks)
  BY DEF ChecksTypeOK, TemplateTypeOK
<1>2. ASSUME NEW passed \in BOOLEAN, next <= Len(checks), Record(passed), served' \subseteq Ports
      PROVE  ChecksTypeOK'
  <2>1. [check |-> next, passed |-> passed] \in [check : DOMAIN checks, passed : BOOLEAN]
    BY <1>1, <1>2
  <2>2. outcomes' \in Seq([check : DOMAIN checks, passed : BOOLEAN])
    BY <1>2, <2>1 DEF Record, ChecksTypeOK, TemplateTypeOK
  <2> QED BY <1>1, <1>2, <2>2 DEF Record, Advance, template, ChecksTypeOK, TemplateTypeOK
<1>3. ASSUME NEW passed \in BOOLEAN, RunCommand(passed) \/ RunPlaywright(passed) PROVE ChecksTypeOK'
  BY <1>2, <1>3 DEF RunCommand, RunPlaywright, Current, ChecksTypeOK, TemplateTypeOK
<1>4. ASSUME NEW passed \in BOOLEAN, RunServe(passed) PROVE ChecksTypeOK'
  <2>1. checks[next] \in CheckType /\ checks[next].kind = "serve" /\ next <= Len(checks)
    BY <1>1, <1>4 DEF RunServe, Current, ChecksTypeOK, TemplateTypeOK
  <2>2. checks[next].port \in Ports
    BY <2>1 DEF CheckType
  <2>3. served' \subseteq Ports
    BY <1>4, <2>2 DEF RunServe, ChecksTypeOK, TemplateTypeOK
  <2> QED BY <1>2, <1>4, <2>1, <2>3 DEF RunServe
<1>5. CASE SkipCheck
  <2>1. next \in DOMAIN checks
    BY <1>1, <1>5 DEF SkipCheck, Blocked, Unserved, Current
  <2>2. skipped' \in Seq(DOMAIN checks)
    BY <1>5, <2>1 DEF SkipCheck, Skip, ChecksTypeOK, TemplateTypeOK
  <2> QED BY <1>1, <1>5, <2>1, <2>2 DEF SkipCheck, Skip, Advance, template, ChecksTypeOK, TemplateTypeOK
<1>6. CASE Raise \/ Finish
  BY <1>6 DEF Raise, Finish, template, report, ChecksTypeOK, TemplateTypeOK
<1>7. CASE UNCHANGED checksVars
  BY <1>7 DEF checksVars, template, report, ChecksTypeOK, TemplateTypeOK
<1> QED BY <1>3, <1>4, <1>5, <1>6, <1>7 DEF ChecksNext

-----------------------------------------------------------------------------
(* The report of the check phase *)

LEMMA Positions ==
  ASSUME ChecksTypeOK
  PROVE  /\ next \in Nat /\ next >= 1 /\ Len(checks) \in Nat
         /\ 1..(next + 1) - 1 = (1..next - 1) \cup {next}
         /\ next \notin 1..next - 1
         /\ FailedChecks \subseteq Ran
<1>1. next \in Nat /\ next >= 1 /\ Len(checks) \in Nat
  BY DEF ChecksTypeOK, TemplateTypeOK
<1>2. FailedChecks \subseteq Ran
  BY DEF FailedChecks, Ran
<1> QED BY <1>1, <1>2

\* A check that runs joins those that ran, and those that failed if it did.
LEMMA RecordEffect ==
  ASSUME ChecksTypeOK, NEW passed \in BOOLEAN, Record(passed)
  PROVE  /\ next' = next + 1 /\ checks' = checks
         /\ Ran' = Ran \cup {next}
         /\ FailedChecks' = FailedChecks \cup (IF passed THEN {} ELSE {next})
         /\ IsSkipped' = IsSkipped
<1> DEFINE o == [check |-> next, passed |-> passed]
<1>1. /\ outcomes' = Append(outcomes, o) /\ skipped' = skipped /\ next' = next + 1
      /\ checks' = checks
  BY DEF Record, Advance, template
<1>2. outcomes \in Seq([check : DOMAIN checks, passed : BOOLEAN]) /\ Len(outcomes) \in Nat
  BY DEF ChecksTypeOK, TemplateTypeOK
<1>3. o.check = next /\ o.passed = passed
  OBVIOUS
<1> HIDE DEF o
<1>4. /\ DOMAIN outcomes' = DOMAIN outcomes \cup {Len(outcomes) + 1}
      /\ \A i \in DOMAIN outcomes : outcomes'[i] = outcomes[i]
      /\ outcomes'[Len(outcomes) + 1] = o
  BY <1>1, <1>2
<1>5. Ran' = Ran \cup {next}
  BY <1>3, <1>4 DEF Ran
<1>6. FailedChecks' = FailedChecks \cup (IF passed THEN {} ELSE {next})
  <2>1. CASE passed
    <3>1. {j \in DOMAIN outcomes' : ~outcomes'[j].passed} = {j \in DOMAIN outcomes : ~outcomes[j].passed}
      BY <1>3, <1>4, <2>1
    <3>2. \A j \in {j \in DOMAIN outcomes : ~outcomes[j].passed} : outcomes'[j] = outcomes[j]
      BY <1>4
    <3> QED BY <2>1, <3>1, <3>2 DEF FailedChecks
  <2>2. CASE ~passed
    <3>1. {j \in DOMAIN outcomes' : ~outcomes'[j].passed} =
            {j \in DOMAIN outcomes : ~outcomes[j].passed} \cup {Len(outcomes) + 1}
      BY <1>3, <1>4, <2>2
    <3>2. \A j \in {j \in DOMAIN outcomes : ~outcomes[j].passed} : outcomes'[j] = outcomes[j]
      BY <1>4
    <3> QED BY <1>3, <1>4, <2>2, <3>1, <3>2 DEF FailedChecks
  <2> QED BY <2>1, <2>2
<1>7. IsSkipped' = IsSkipped
  BY <1>1 DEF IsSkipped
<1> QED BY <1>1, <1>5, <1>6, <1>7

LEMMA SkipEffect ==
  ASSUME ChecksTypeOK, Skip
  PROVE  /\ next' = next + 1 /\ checks' = checks /\ served' = served
         /\ Ran' = Ran /\ FailedChecks' = FailedChecks
         /\ IsSkipped' = IsSkipped \cup {next}
<1>1. /\ skipped' = Append(skipped, next) /\ outcomes' = outcomes /\ next' = next + 1
      /\ checks' = checks /\ served' = served
  BY DEF Skip, Advance, template
<1>2. skipped \in Seq(DOMAIN checks) /\ Len(skipped) \in Nat
  BY DEF ChecksTypeOK, TemplateTypeOK
<1>3. /\ DOMAIN skipped' = DOMAIN skipped \cup {Len(skipped) + 1}
      /\ \A i \in DOMAIN skipped : skipped'[i] = skipped[i]
      /\ skipped'[Len(skipped) + 1] = next
  BY <1>1, <1>2
<1>4. IsSkipped' = IsSkipped \cup {next}
  BY <1>3 DEF IsSkipped
<1>5. Ran' = Ran /\ FailedChecks' = FailedChecks
  BY <1>1 DEF Ran, FailedChecks
<1> QED BY <1>1, <1>4, <1>5

LEMMA ReportInit == ChecksInit => ReportIsComplete
<1> SUFFICES ASSUME ChecksInit PROVE ReportIsComplete
  OBVIOUS
<1>1. outcomes = <<>> /\ skipped = <<>> /\ next = 1
  BY DEF ChecksInit
<1>2. DOMAIN outcomes = {} /\ DOMAIN skipped = {} /\ 1..next - 1 = {}
  BY <1>1
<1> QED BY <1>2 DEF ReportIsComplete, Ran, IsSkipped

\* What is done with a check is the last thing in its list.
LEMMA ReportStep ==
  ASSUME ChecksTypeOK, ReportIsComplete, [ChecksNext]_checksVars
  PROVE  ReportIsComplete'
<1>0. /\ outcomes \in Seq([check : DOMAIN checks, passed : BOOLEAN]) /\ Len(outcomes) \in Nat
      /\ skipped \in Seq(DOMAIN checks) /\ Len(skipped) \in Nat
  BY DEF ChecksTypeOK, TemplateTypeOK
<1>1. /\ Ran \cup IsSkipped = 1..next - 1 /\ Ran \cap IsSkipped = {}
      /\ \A i, j \in DOMAIN outcomes : i < j => outcomes[i].check < outcomes[j].check
      /\ \A i, j \in DOMAIN skipped : i < j => skipped[i] < skipped[j]
  BY DEF ReportIsComplete
<1>2. /\ next \in Nat /\ next \notin 1..next - 1
      /\ 1..(next + 1) - 1 = (1..next - 1) \cup {next}
      /\ \A k \in 1..next - 1 : k < next
  BY Positions
<1>3. ASSUME NEW passed \in BOOLEAN, Record(passed) PROVE ReportIsComplete'
  <2>1. /\ next' = next + 1
        /\ Ran' = Ran \cup {next} /\ IsSkipped' = IsSkipped
    BY <1>3, RecordEffect
  <2>2. Ran' \cup IsSkipped' = 1..next' - 1 /\ Ran' \cap IsSkipped' = {}
    BY <1>1, <1>2, <2>1
  <2> DEFINE o == [check |-> next, passed |-> passed]
  <2>3. outcomes' = Append(outcomes, o) /\ skipped' = skipped /\ o.check = next
    BY <1>3 DEF Record
  <2> HIDE DEF o
  <2>4. /\ DOMAIN outcomes' = DOMAIN outcomes \cup {Len(outcomes) + 1}
        /\ \A i \in DOMAIN outcomes : outcomes'[i] = outcomes[i] /\ i \in Nat /\ i < Len(outcomes) + 1
        /\ outcomes'[Len(outcomes) + 1] = o
    BY <1>0, <2>3
  <2>5. \A i \in DOMAIN outcomes : outcomes[i].check < next
    BY <1>1, <1>2 DEF Ran
  <2>6. ASSUME NEW i \in DOMAIN outcomes', NEW j \in DOMAIN outcomes', i < j
        PROVE  outcomes'[i].check < outcomes'[j].check
    <3>1. CASE j \in DOMAIN outcomes
      <4>1. i \in DOMAIN outcomes
        BY <1>0, <2>4, <2>6, <3>1
      <4> QED BY <1>1, <2>4, <2>6, <3>1, <4>1
    <3>2. CASE j = Len(outcomes) + 1
      <4>1. i \in DOMAIN outcomes
        BY <1>0, <2>4, <2>6, <3>2
      <4> QED BY <2>3, <2>4, <2>5, <3>2, <4>1
    <3> QED BY <2>4, <3>1, <3>2
  <2>7. \A i, j \in DOMAIN skipped' : i < j => skipped'[i] < skipped'[j]
    BY <1>1, <2>3
  <2> QED BY <2>2, <2>6, <2>7 DEF ReportIsComplete
<1>4. ASSUME Skip PROVE ReportIsComplete'
  <2>1. /\ next' = next + 1
        /\ Ran' = Ran /\ IsSkipped' = IsSkipped \cup {next}
    BY <1>4, SkipEffect
  <2>2. Ran' \cup IsSkipped' = 1..next' - 1 /\ Ran' \cap IsSkipped' = {}
    BY <1>1, <1>2, <2>1
  <2>3. skipped' = Append(skipped, next) /\ outcomes' = outcomes
    BY <1>4 DEF Skip
  <2>4. /\ DOMAIN skipped' = DOMAIN skipped \cup {Len(skipped) + 1}
        /\ \A i \in DOMAIN skipped : skipped'[i] = skipped[i] /\ i \in Nat /\ i < Len(skipped) + 1
        /\ skipped'[Len(skipped) + 1] = next
    BY <1>0, <2>3
  <2>5. \A i \in DOMAIN skipped : skipped[i] < next
    BY <1>1, <1>2 DEF IsSkipped
  <2>6. ASSUME NEW i \in DOMAIN skipped', NEW j \in DOMAIN skipped', i < j
        PROVE  skipped'[i] < skipped'[j]
    <3>1. CASE j \in DOMAIN skipped
      <4>1. i \in DOMAIN skipped
        BY <1>0, <2>4, <2>6, <3>1
      <4> QED BY <1>1, <2>4, <2>6, <3>1, <4>1
    <3>2. CASE j = Len(skipped) + 1
      <4>1. i \in DOMAIN skipped
        BY <1>0, <2>4, <2>6, <3>2
      <4> QED BY <2>4, <2>5, <3>2, <4>1
    <3> QED BY <2>4, <3>1, <3>2
  <2>7. \A i, j \in DOMAIN outcomes' : i < j => outcomes'[i].check < outcomes'[j].check
    BY <1>1, <2>3
  <2> QED BY <2>2, <2>6, <2>7 DEF ReportIsComplete
<1>5. CASE Raise \/ Finish \/ UNCHANGED checksVars
  <2>1. next' = next /\ outcomes' = outcomes /\ skipped' = skipped
    BY <1>5 DEF Raise, Finish, checksVars, template, report
  <2> QED BY <2>1 DEF ReportIsComplete, Ran, IsSkipped
<1> QED BY <1>3, <1>4, <1>5 DEF ChecksNext, RunCommand, RunServe, RunPlaywright, SkipCheck

\* The last server on port p among the first n checks came up.
IsServe(k, p) == checks[k].kind = "serve" /\ checks[k].port = p
Up(p, n) ==
  \E j \in 1..n : /\ IsServe(j, p) /\ j \in Ran \ FailedChecks
                  /\ \A k \in 1..n : IsServe(k, p) => k <= j

\* A required check failed among the first n.
Stopped(n) == \E j \in 1..n : j \in FailedChecks /\ checks[j].required

\* Until a required check fails, `served` is what the servers so far left up.
ServedInv == Passed => \A p \in Ports : p \in served <=> Up(p, next - 1)

LEMMA PassedIs ==
  ASSUME ChecksTypeOK, ReportIsComplete
  PROVE  Passed <=> ~Stopped(next - 1)
<1>1. FailedChecks \subseteq 1..next - 1
  BY Positions DEF ReportIsComplete
<1>2. Passed <=> \A j \in FailedChecks : ~checks[j].required
  BY DEF Passed, Blocking, FailedChecks
<1> QED BY <1>1, <1>2 DEF Stopped

LEMMA ServesIs ==
  ASSUME NEW i \in Nat
  PROVE  Serves(i) <=> Up(checks[i].port, i - 1)
  BY DEF Serves, Up, IsServe

\* What is said of the checks before the current one does not change with it.
LEMMA EarlierStays ==
  ASSUME ChecksTypeOK, checks' = checks,
         Ran' \in {Ran, Ran \cup {next}},
         FailedChecks' \in {FailedChecks, FailedChecks \cup {next}}
  PROVE  \A n \in Nat : n < next => /\ Stopped(n)' <=> Stopped(n)
                                    /\ \A p : Up(p, n)' <=> Up(p, n)
<1> SUFFICES ASSUME NEW n \in Nat, n < next
             PROVE  (Stopped(n)' <=> Stopped(n)) /\ \A p : Up(p, n)' <=> Up(p, n)
  OBVIOUS
<1>1. \A j \in 1..n : j # next
  BY Positions
<1>2. \A j \in 1..n : (j \in Ran' <=> j \in Ran) /\ (j \in FailedChecks' <=> j \in FailedChecks)
  BY <1>1
<1>3. Stopped(n)' <=> Stopped(n)
  BY <1>2 DEF Stopped
<1>4. \A p : Up(p, n)' <=> Up(p, n)
  BY <1>2 DEF Up, IsServe
<1> QED BY <1>3, <1>4

LEMMA SkipsInit == ChecksInit => ServedInv /\ SkipsAreJustified
<1> SUFFICES ASSUME ChecksInit PROVE ServedInv /\ SkipsAreJustified
  OBVIOUS
<1>1. served = {} /\ next = 1 /\ 1..next - 1 = {}
  BY DEF ChecksInit
<1> QED BY <1>1 DEF ServedInv, Up, SkipsAreJustified

\* Another server on a port decides over it, and over no other.
LEMMA ServerDecides ==
  ASSUME ChecksTypeOK, ReportIsComplete, NEW passed \in BOOLEAN, Record(passed), next <= Len(checks),
         Passed, served' = (IF IsServe(next, checks[next].port)
                              THEN IF passed THEN served \cup {checks[next].port}
                                             ELSE served \ {checks[next].port}
                              ELSE served),
         ServedInv
  PROVE  \A p \in Ports : p \in served' <=> Up(p, next - 1)'
<1>1. /\ next' = next + 1 /\ checks' = checks
      /\ Ran' = Ran \cup {next}
      /\ FailedChecks' = FailedChecks \cup (IF passed THEN {} ELSE {next})
  BY RecordEffect
<1>2. /\ next \in Nat /\ next >= 1 /\ next' - 1 = next /\ next - 1 \in Nat /\ next - 1 < next
      /\ 1..next = (1..next - 1) \cup {next} /\ next \notin 1..next - 1
      /\ \A k \in 1..next - 1 : k <= next /\ ~(next <= k)
      /\ Ran \subseteq 1..next - 1 /\ FailedChecks \subseteq 1..next - 1
  <2>1. next \in Nat /\ next >= 1
    BY Positions
  <2>2. Ran \subseteq 1..next - 1 /\ FailedChecks \subseteq 1..next - 1
    BY Positions DEF ReportIsComplete
  <2> QED BY <1>1, <2>1, <2>2
<1> SUFFICES ASSUME NEW p \in Ports PROVE p \in served' <=> Up(p, next - 1)'
  OBVIOUS
<1>3. p \in served <=> Up(p, next - 1)
  BY DEF ServedInv
<1>4. Up(p, next - 1)' <=>
        \E j \in 1..next : /\ IsServe(j, p) /\ j \in Ran' \ FailedChecks'
                           /\ \A k \in 1..next : IsServe(k, p) => k <= j
  BY <1>1, <1>2 DEF Up, IsServe
<1>5. CASE IsServe(next, p)
  <2>1. p = checks[next].port /\ IsServe(next, checks[next].port)
    BY <1>5 DEF IsServe
  <2>2. p \in served' <=> passed
    BY <2>1
  <2>3. (\E j \in 1..next : /\ IsServe(j, p) /\ j \in Ran' \ FailedChecks'
                            /\ \A k \in 1..next : IsServe(k, p) => k <= j)
        <=> next \in Ran' \ FailedChecks'
    BY <1>2, <1>5
  <2>4. next \in Ran' \ FailedChecks' <=> passed
    BY <1>1, <1>2
  <2> QED BY <1>4, <2>2, <2>3, <2>4
<1>6. CASE ~IsServe(next, p)
  <2>1. p \in served' <=> p \in served
    BY <1>6 DEF IsServe
  <2>2. \A j \in 1..next - 1 : j \in Ran' \ FailedChecks' <=> j \in Ran \ FailedChecks
    BY <1>1, <1>2
  <2>3. (\E j \in 1..next : /\ IsServe(j, p) /\ j \in Ran' \ FailedChecks'
                            /\ \A k \in 1..next : IsServe(k, p) => k <= j)
        <=> Up(p, next - 1)
    BY <1>2, <1>6, <2>2 DEF Up
  <2> QED BY <1>3, <1>4, <2>1, <2>3
<1> QED BY <1>5, <1>6

LEMMA SkipsStep ==
  ASSUME ChecksTypeOK, ReportIsComplete, ReportIsComplete', ChecksTypeOK',
         ServedInv, SkipsAreJustified, [ChecksNext]_checksVars
  PROVE  ServedInv' /\ SkipsAreJustified'
<1>1. /\ next \in Nat /\ next >= 1 /\ next - 1 \in Nat /\ next - 1 < next
      /\ 1..(next + 1) - 1 = (1..next - 1) \cup {next}
      /\ \A i \in 1..next - 1 : i \in Nat /\ i - 1 \in Nat /\ i - 1 < next /\ i # next
      /\ Ran \cup IsSkipped = 1..next - 1 /\ next \notin IsSkipped /\ next \notin Ran
  <2>1. next \in Nat /\ next >= 1 /\ next \notin 1..next - 1
    BY Positions
  <2>2. Ran \cup IsSkipped = 1..next - 1
    BY DEF ReportIsComplete
  <2> QED BY <2>1, <2>2
<1>2. Passed <=> ~Stopped(next - 1)
  BY PassedIs
<1>3. \A i \in 1..next - 1 :
        i \in IsSkipped <=>
          Stopped(i - 1) \/ (checks[i].kind = "playwright" /\ ~Up(checks[i].port, i - 1))
  BY <1>1, ServesIs DEF SkipsAreJustified, Stopped
\* The same of the next state, from what is done with the current check.
<1>4. ASSUME next' = next + 1, checks' = checks,
             Ran' \in {Ran, Ran \cup {next}},
             FailedChecks' \in {FailedChecks, FailedChecks \cup {next}},
             IsSkipped' \in {IsSkipped, IsSkipped \cup {next}},
             next \in IsSkipped' <=>
               Stopped(next - 1) \/ (checks[next].kind = "playwright" /\ ~Up(checks[next].port, next - 1))
      PROVE  SkipsAreJustified'
  <2>1. \A n \in Nat : n < next => /\ Stopped(n)' <=> Stopped(n)
                                   /\ \A p : Up(p, n)' <=> Up(p, n)
    BY <1>4, EarlierStays
  <2>2. ASSUME NEW i \in 1..next' - 1
        PROVE  i \in IsSkipped' <=>
                 Stopped(i - 1) \/ (checks[i].kind = "playwright" /\ ~Up(checks[i].port, i - 1))
    <3>1. CASE i = next
      BY <1>4, <3>1
    <3>2. CASE i # next
      <4>1. i \in 1..next - 1
        BY <1>1, <1>4, <3>2
      <4>2. i \in IsSkipped' <=> i \in IsSkipped
        BY <1>4, <3>2
      <4> QED BY <1>3, <4>1, <4>2
    <3> QED BY <3>1, <3>2
  <2>3. ASSUME NEW i \in 1..next' - 1
        PROVE  i \in IsSkipped' <=>
                 \/ \E j \in 1..i - 1 : j \in FailedChecks' /\ checks[j].required
                 \/ checks[i].kind = "playwright" /\ ~Serves(i)'
    <3>1. i \in Nat /\ i - 1 \in Nat /\ i - 1 < next
      BY <1>1, <1>4
    <3>2. Stopped(i - 1) <=> \E j \in 1..i - 1 : j \in FailedChecks' /\ checks[j].required
      <4>1. Stopped(i - 1)' <=> Stopped(i - 1)
        BY <2>1, <3>1
      <4> QED BY <1>4, <4>1 DEF Stopped
    <3>3. Up(checks[i].port, i - 1) <=> Serves(i)'
      <4>1. Up(checks[i].port, i - 1)' <=> Up(checks[i].port, i - 1)
        <5> DEFINE q == checks[i].port
        <5>1. Up(q, i - 1)' <=> Up(q, i - 1)
          BY <1>4, <2>1, <3>1
        <5> QED BY <5>1
      <4>2. Serves(i)' <=> Up(checks[i].port, i - 1)'
        BY <1>4, <3>1 DEF Serves, Up, IsServe
      <4> QED BY <4>1, <4>2
    <3> QED BY <2>2, <3>2, <3>3
  <2> QED BY <1>4, <2>3 DEF SkipsAreJustified
<1>5. ASSUME NEW passed \in BOOLEAN,
             RunCommand(passed) \/ RunServe(passed) \/ RunPlaywright(passed)
      PROVE  ServedInv' /\ SkipsAreJustified'
  <2>1. Record(passed) /\ next <= Len(checks) /\ Passed
    BY <1>5 DEF RunCommand, RunServe, RunPlaywright, Current, Blocked
  <2>2. /\ next' = next + 1 /\ checks' = checks
        /\ Ran' = Ran \cup {next}
        /\ FailedChecks' = FailedChecks \cup (IF passed THEN {} ELSE {next})
        /\ IsSkipped' = IsSkipped
    BY <2>1, RecordEffect
  <2>3. served' = (IF IsServe(next, checks[next].port)
                   THEN IF passed THEN served \cup {checks[next].port}
                                  ELSE served \ {checks[next].port}
                   ELSE served)
    BY <1>5 DEF RunCommand, RunServe, RunPlaywright, Current, IsServe
  <2>4. ServedInv'
    <3>1. \A p \in Ports : p \in served' <=> Up(p, next - 1)'
      BY <2>1, <2>3, ServerDecides
    <3> QED BY <3>1 DEF ServedInv
  <2>5. checks[next].kind = "playwright" => Up(checks[next].port, next - 1)
    <3> SUFFICES ASSUME checks[next].kind = "playwright" PROVE Up(checks[next].port, next - 1)
      OBVIOUS
    <3>1. checks[next].port \in served
      BY <1>5 DEF RunCommand, RunServe, RunPlaywright, Current, Unserved
    <3>2. served \subseteq Ports
      BY DEF ChecksTypeOK, TemplateTypeOK
    <3> QED BY <2>1, <3>1, <3>2 DEF ServedInv
  <2>6. next \notin IsSkipped' /\ ~Stopped(next - 1)
    BY <1>1, <1>2, <2>1, <2>2
  <2> QED BY <1>4, <2>2, <2>4, <2>5, <2>6
<1>6. CASE SkipCheck
  <2>1. /\ next' = next + 1 /\ checks' = checks /\ served' = served
        /\ Ran' = Ran /\ FailedChecks' = FailedChecks
        /\ IsSkipped' = IsSkipped \cup {next} /\ outcomes' = outcomes
    BY <1>6, SkipEffect DEF SkipCheck, Skip
  <2>2. ~Passed \/ (checks[next].kind = "playwright" /\ checks[next].port \notin served
                      /\ next <= Len(checks))
    BY <1>6 DEF SkipCheck, Blocked, Unserved, Current
  <2>3. Stopped(next - 1) \/ (checks[next].kind = "playwright" /\ ~Up(checks[next].port, next - 1))
    <3>1. CASE ~Passed
      BY <1>2, <3>1
    <3>2. CASE Passed
      <4>1. checks[next].port \in Ports
        <5>1. checks[next] \in CheckType
          BY <1>1, <2>2, <3>2 DEF ChecksTypeOK, TemplateTypeOK
        <5> QED BY <2>2, <3>2, <5>1 DEF CheckType
      <4> QED BY <2>2, <3>2, <4>1 DEF ServedInv
    <3> QED BY <3>1, <3>2
  <2>4. SkipsAreJustified'
    BY <1>4, <2>1, <2>3
  <2>5. ServedInv'
    <3> SUFFICES ASSUME Passed', NEW p \in Ports PROVE p \in served' <=> Up(p, next - 1)'
      BY DEF ServedInv
    <3>1. Passed
      BY <2>1 DEF Passed, Blocking
    <3>2. p \in served' <=> Up(p, next - 1)
      BY <2>1, <3>1 DEF ServedInv
    <3>3. \A k \in 1..next' - 1 : k \in 1..next - 1 \/ (k = next /\ ~IsServe(k, p))
      BY <1>1, <2>1, <2>2, <3>1 DEF IsServe
    <3>4. \A k \in 1..next - 1 : k \in 1..next' - 1
      BY <1>1, <2>1
    <3>5. Up(p, next - 1)' <=> Up(p, next - 1)
      BY <2>1, <3>3, <3>4 DEF Up, IsServe
    <3> QED BY <3>2, <3>5
  <2> QED BY <2>4, <2>5
<1>7. CASE Raise \/ Finish \/ UNCHANGED checksVars
  <2>1. /\ next' = next /\ outcomes' = outcomes /\ skipped' = skipped /\ served' = served
        /\ checks' = checks
    BY <1>7 DEF Raise, Finish, checksVars, template, report
  <2>2. ServedInv'
    BY <2>1 DEF ServedInv, Up, IsServe, Passed, Blocking, Ran, FailedChecks
  <2>3. SkipsAreJustified'
    BY <2>1 DEF SkipsAreJustified, Serves, IsSkipped, Ran, FailedChecks
  <2> QED BY <2>2, <2>3
<1> QED BY <1>5, <1>6, <1>7 DEF ChecksNext

\* For every list the validator lets pass, the report accounts for each check so far exactly
\* once, in the order of the template (runner.py:66-105).
THEOREM ReportsAreComplete == ChecksSpec => []ReportIsComplete
<1>1. ReportIsComplete /\ ChecksTypeOK /\ [ChecksNext]_checksVars => ReportIsComplete'
  BY ReportStep
<1> QED BY ChecksTypeInit, ChecksTypeStep, ReportInit, <1>1, PTL DEF ChecksSpec

\* A check is skipped exactly when a required check before it failed, or it is a browser
\* check and the last server before it on its port is not up (runner.py:78-95).
THEOREM SkipsHaveAReason == ChecksSpec => []SkipsAreJustified
<1>1. /\ ChecksTypeOK /\ ReportIsComplete /\ ReportIsComplete' /\ ChecksTypeOK'
      /\ ServedInv /\ SkipsAreJustified /\ [ChecksNext]_checksVars
      => ServedInv' /\ SkipsAreJustified'
  BY SkipsStep
<1> QED
  BY ChecksTypeInit, ChecksTypeStep, ReportsAreComplete, SkipsInit, <1>1, PTL DEF ChecksSpec

\* The report of a run is the same, with networks attached and detached and the checker's
\* container created meanwhile, and wherever the run is cancelled or dies.
THEOREM RunReports == Spec => []ReportIsComplete /\ []SkipsAreJustified
  BY ReportsAreComplete, SkipsHaveAReason, RunIsChecks, PTL

\* The server a required browser check relies on, the last one before it on its port, is
\* there and is required too.
ServersRequired ==
  \A i \in DOMAIN checks : checks[i].kind = "playwright" /\ checks[i].required =>
    \E j \in 1..i - 1 : /\ IsServe(j, checks[i].port) /\ checks[j].required
                        /\ \A k \in 1..i - 1 : IsServe(k, checks[i].port) => k <= j

LEMMA RequiredRan ==
  ASSUME ChecksTypeOK, ReportIsComplete, SkipsAreJustified, ServersRequired, Passed,
         NEW i \in IsSkipped, checks[i].required
  PROVE  FALSE
<1>1. /\ next \in Nat /\ next - 1 \in Nat /\ FailedChecks \subseteq Ran
      /\ Ran \cup IsSkipped = 1..next - 1
      /\ DOMAIN checks = 1..Len(checks) /\ Len(checks) \in Nat /\ next <= Len(checks) + 1
  BY Positions DEF ReportIsComplete, ChecksTypeOK, TemplateTypeOK
<1>2. \A j \in 1..next - 1 : j \in FailedChecks => ~checks[j].required
  BY PassedIs DEF Stopped
<1>3. i \in 1..next - 1 /\ i \in DOMAIN checks /\ i \in Nat
  BY <1>1
<1>4. \A j \in 1..i - 1 : j \in 1..next - 1
  BY <1>1, <1>3
<1>5. checks[i].kind = "playwright" /\ ~Serves(i)
  BY <1>2, <1>3, <1>4 DEF SkipsAreJustified
<1>6. PICK j \in 1..i - 1 : /\ IsServe(j, checks[i].port) /\ checks[j].required
                            /\ \A k \in 1..i - 1 : IsServe(k, checks[i].port) => k <= j
  BY <1>3, <1>5 DEF ServersRequired
\* It is no browser check, and nothing required has failed before it: it has been run.
<1>7. j \notin IsSkipped
  <2>1. checks[j].kind = "serve"
    BY <1>6 DEF IsServe
  <2>2. \A k \in 1..j - 1 : k \in 1..next - 1
    BY <1>1, <1>3, <1>6
  <2> QED BY <1>2, <1>4, <1>6, <2>1, <2>2 DEF SkipsAreJustified
<1>8. j \in Ran \ FailedChecks
  BY <1>1, <1>2, <1>4, <1>6, <1>7
<1>9. Serves(i)
  BY <1>6, <1>8 DEF Serves, IsServe
<1> QED BY <1>5, <1>9

\* What models.py:152-153 promises is kept by a template whose servers are required and stand
\* before the browser checks that need them: a report that passed has run every required
\* check.  So PassedRanRequired fails only for a template that lacks such a server.
THEOREM PassedRanRequiredOtherwise == ChecksSpec => [](ServersRequired => PassedRanRequired)
<1>1. ChecksTypeOK /\ ReportIsComplete /\ SkipsAreJustified => (ServersRequired => PassedRanRequired)
  BY RequiredRan DEF PassedRanRequired
<1> QED
  BY <1>1, ChecksTypeInit, ChecksTypeStep, ReportsAreComplete, SkipsHaveAReason, PTL DEF ChecksSpec

-----------------------------------------------------------------------------
(* What a run leaves behind *)

Running(c)    == thread[c] \in {"image", "network", "container"}
HandedOver    == thread["sandbox"] = "done"
Cause(c)      == Failed("remove", c) \/ Failed("start", c) \/ Failed("cancel", c) \/ Failed("refuse", c)
NetworkCause  == \/ Failed("remove", "net") \/ Failed("refuse", "net")
                 \/ Failed("start", "sandbox") \/ Failed("cancel", "sandbox")

\* A thread runs while the task waits for it, or when the task was cancelled; where the task
\* uses the sandbox, it was handed over.
ThreadInv ==
  /\ thread["sandbox"] # "none" /\ thread["checker"] # "network"
  /\ thread["sandbox"] = "network" => mode = "internal"
  /\ Running("sandbox") => pc = "create" \/ Failed("cancel", "sandbox")
  /\ Running("checker") => pc = "checker" \/ Failed("cancel", "checker")
  /\ Failed("cancel", "sandbox") => pc \in {"over", "crashed"}
  /\ Failed("cancel", "checker") => pc \in {"destroy", "unlink", "over", "crashed"}
  /\ pc \notin {"create", "over", "crashed"} => HandedOver
  /\ pc = "browser" => thread["checker"] = "done"

\* A container exists for a cause, or somebody still answers for it.
ContainerInv ==
  /\ "sandbox" \in containers =>
       Cause("sandbox") \/ pc = "crashed" \/ (HandedOver /\ pc \notin {"unlink", "over"})
  /\ "checker" \in containers =>
       Cause("checker") \/ pc = "crashed" \/ (thread["checker"] = "done" /\ pc \in {"checker", "browser"})

\* So does the network.
NetworkInv ==
  /\ networks # {} => mode = "internal"
  /\ "net" \in networks =>
       \/ NetworkCause \/ pc = "crashed"
       \/ thread["sandbox"] = "container" /\ pc = "create"
       \/ HandedOver /\ networkName = "net" /\ pc # "over"

\* What is connected to the network: the same.
LinkInv ==
  /\ <<"sandbox", "net">> \in links =>
       \/ Failed("remove", "sandbox") \/ Failed("cancel", "sandbox") \/ pc = "crashed"
       \/ HandedOver /\ pc \notin {"unlink", "over"}
  /\ <<"checker", "net">> \in links =>
       \/ Failed("remove", "checker") \/ Failed("cancel", "checker") \/ pc = "crashed"
       \/ thread["checker"] = "done" /\ pc \in {"checker", "browser"}

\* The network the checker joins is that of the sandbox, while there is one.
SharedInv ==
  /\ networkName # None => mode = "internal"
  /\ HandedOver /\ mode = "internal" /\ pc \notin {"over", "crashed"} =>
       networkName = "net" /\ "net" \in networks
  /\ HandedOver /\ mode = "internal" /\ pc \notin {"unlink", "over", "crashed"} =>
       <<"sandbox", "net">> \in links
  /\ pc \in {"checker", "browser"} => mode = "internal"
  /\ pc \in {"checker", "browser"} /\ thread["checker"] = "done" => <<"checker", "net">> \in links

-----------------------------------------------------------------------------
(* The types *)

LEMMA CallTypes ==
  ASSUME SandboxTypeOK, NEW call \in Calls, NEW of \in Containers \cup Networks,
         Works \/ Fails(call, of) \/ (call = "refuse" /\ Refused(of))
  PROVE  faults' \in 0..MaxFaults /\ failed' \subseteq Calls \X (Containers \cup Networks)
<1>1. <<call, of>> \in Calls \X (Containers \cup Networks)
  OBVIOUS
<1> QED BY <1>1, SandboxAssumption DEF SandboxTypeOK, Works, Fails, Refused, calls

LEMMA Reached ==
  ASSUME SandboxTypeOK, NEW c \in Containers, NEW stage \in ThreadStages, Reach(c, stage)
  PROVE  /\ thread' \in [Containers -> ThreadStages]
         /\ thread'[c] = stage
         /\ \A d \in Containers \ {c} : thread'[d] = thread[d]
  BY DEF SandboxTypeOK, Reach

\* The operations of the object.
LEMMA OperationTypes ==
  SandboxTypeOK /\ UNCHANGED thread
    /\ (Attach \/ AttachRaises \/ Detach \/ RemoveNetwork \/ \E c \in Containers : Remove(c))
  => SandboxTypeOK'
<1> SUFFICES ASSUME SandboxTypeOK, UNCHANGED thread,
                    Attach \/ AttachRaises \/ Detach \/ RemoveNetwork \/ \E c \in Containers : Remove(c)
             PROVE  SandboxTypeOK'
  OBVIOUS
<1>1. \E call \in Calls, of \in Containers \cup Networks :
        Works \/ Fails(call, of) \/ (call = "refuse" /\ Refused(of))
  BY DEF Attach, AttachRaises, Detach, RemoveNetwork, Remove, Calls, Networks, Containers
<1>2. faults' \in 0..MaxFaults /\ failed' \subseteq Calls \X (Containers \cup Networks)
  BY <1>1, CallTypes
<1>3. containers' \subseteq Containers /\ networks' \subseteq {"net"} /\ networkName' \in {"net", None}
  BY DEF Attach, AttachRaises, Detach, RemoveNetwork, Remove, SandboxTypeOK, docker
<1>4. <<"sandbox", "bridge">> \in Containers \X Networks
  BY DEF Containers, Networks
<1>5. links' \subseteq Containers \X Networks
  BY <1>4 DEF Attach, AttachRaises, Detach, RemoveNetwork, Remove, SandboxTypeOK, docker
<1> QED BY <1>2, <1>3, <1>5 DEF SandboxTypeOK

\* The threads.
LEMMA ThreadTypes == SandboxTypeOK /\ ThreadStep => SandboxTypeOK'
<1> SUFFICES ASSUME SandboxTypeOK, ThreadStep PROVE SandboxTypeOK'
  OBVIOUS
<1>1. ASSUME NEW c \in Containers, EnsureImage(c) PROVE SandboxTypeOK'
  <2>1. faults' \in 0..MaxFaults /\ failed' \subseteq Calls \X (Containers \cup Networks)
    BY <1>1, CallTypes DEF EnsureImage, Calls
  <2>2. \E stage \in ThreadStages : Reach(c, stage)
    BY <1>1 DEF EnsureImage, ThreadStages
  <2>3. thread' \in [Containers -> ThreadStages]
    BY <2>2, Reached
  <2> QED BY <1>1, <2>1, <2>3 DEF SandboxTypeOK, ThreadStep, EnsureImage, docker
<1>2. CASE CreateNetwork
  <2>1. faults' \in 0..MaxFaults /\ failed' \subseteq Calls \X (Containers \cup Networks)
    BY <1>2, CallTypes DEF CreateNetwork, Calls, Networks
  <2>2. thread' \in [Containers -> ThreadStages]
    BY <1>2, Reached DEF CreateNetwork, ThreadStages, Containers
  <2> QED BY <1>2, <2>1, <2>2 DEF SandboxTypeOK, ThreadStep, CreateNetwork
<1>3. ASSUME NEW c \in Containers, StartContainer(c) PROVE SandboxTypeOK'
  <2>1. faults' \in 0..MaxFaults /\ failed' \subseteq Calls \X (Containers \cup Networks)
    BY <1>3, CallTypes DEF StartContainer, Calls
  <2>2. thread' \in [Containers -> ThreadStages]
    BY <1>3, Reached DEF StartContainer, ThreadStages
  <2>3. Home(c) \subseteq Networks
    BY DEF Home, Networks
  <2>4. links' \subseteq Containers \X Networks
    BY <1>3, <2>3 DEF StartContainer, SandboxTypeOK
  <2> QED BY <1>3, <2>1, <2>2, <2>4 DEF SandboxTypeOK, ThreadStep, StartContainer
<1> QED BY <1>1, <1>2, <1>3 DEF ThreadStep

LEMMA SandboxTypes == SandboxTypeOK /\ [Next]_vars => SandboxTypeOK'
<1> SUFFICES ASSUME SandboxTypeOK, [Next]_vars PROVE SandboxTypeOK'
  OBVIOUS
<1>1. CASE UNCHANGED sandboxVars
  BY <1>1 DEF SandboxTypeOK, sandboxVars, docker, calls
<1>2. CASE /\ UNCHANGED thread
           /\ Attach \/ AttachRaises \/ Detach \/ RemoveNetwork \/ \E c \in Containers : Remove(c)
  BY <1>2, OperationTypes
<1>3. CASE Create \/ WriteStarter \/ RunAgent \/ List \/ PassOver \/ FinishChecks \/ StartServer
           \/ FailUnreachable \/ AwaitChecker
  BY <1>1, <1>3 DEF Create, WriteStarter, RunAgent, List, PassOver, FinishChecks, StartServer,
                    FailUnreachable, AwaitChecker, config, sandboxVars, calls, docker
<1>4. CASE AttachAgent \/ DetachAgent \/ StartCommand
  BY <1>1, <1>2, <1>4 DEF AttachAgent, DetachAgent, StartCommand, config, sandboxVars, Works
<1>5. CASE RaiseCommand \/ (\E passed \in BOOLEAN : ReturnCommand(passed)) \/ RunSpec \/ Destroy \/ Unlink
  BY <1>1, <1>2, <1>5 DEF RaiseCommand, ReturnCommand, Disconnect, RunSpec, Destroy, Unlink, config,
                          sandboxVars, Works, Containers
<1>6. CASE StartChecker
  <2>1. thread' \in [Containers -> ThreadStages]
    BY <1>6, Reached DEF StartChecker, Containers, ThreadStages, SandboxTypeOK
  <2> QED BY <1>6, <2>1 DEF StartChecker, SandboxTypeOK, docker, calls
<1>7. ASSUME NEW c \in Containers, Cancelled(c) PROVE SandboxTypeOK'
  BY <1>7 DEF Cancelled, SandboxTypeOK, docker, Calls
<1>8. CASE CancelCreate \/ CancelChecker
  BY <1>7, <1>8 DEF CancelCreate, CancelChecker, Containers
<1>9. CASE Crash
  BY <1>9 DEF Crash, SandboxTypeOK, config, docker, calls, ThreadStages
<1>10. CASE Thread
  BY <1>10, ThreadTypes DEF Thread
<1>11. CASE UNCHANGED vars
  BY <1>1, <1>11 DEF vars
<1> QED
  BY <1>3, <1>4, <1>5, <1>6, <1>8, <1>9, <1>10, <1>11 DEF Next, TaskStep

LEMMA TypeInit == Init => TypeOK
<1> SUFFICES ASSUME Init PROVE TypeOK
  OBVIOUS
<1>1. SandboxTypeOK
  BY SandboxAssumption DEF Init, SandboxInit, SandboxTypeOK, ThreadStages, Containers
<1> QED BY <1>1, ChecksTypeInit DEF Init, TypeOK, Places

LEMMA TypeStep == TypeOK /\ [Next]_vars => TypeOK'
<1> SUFFICES ASSUME TypeOK, [Next]_vars PROVE TypeOK'
  OBVIOUS
<1>1. SandboxTypeOK' /\ ChecksTypeOK'
  BY SandboxTypes, StepIsChecks, ChecksTypeStep DEF TypeOK
<1>2. UNCHANGED checks
  BY TemplateStays
<1>3. UNCHANGED <<needs, internet>>
  BY DEF Next, TaskStep, vars, config, Create, CancelCreate, WriteStarter, AttachAgent, RunAgent,
         DetachAgent, PassOver, FinishChecks, StartCommand, RaiseCommand, ReturnCommand, StartServer,
         FailUnreachable, StartChecker, AwaitChecker, CancelChecker, RunSpec, List, Destroy, Unlink,
         Crash, Thread, LeaveChecks
<1>4. pc' \in Places /\ result' \in BOOLEAN /\ raised' \in BOOLEAN
  BY DEF TypeOK, Next, TaskStep, vars, Create, CancelCreate, WriteStarter, AttachAgent, RunAgent,
         DetachAgent, PassOver, FinishChecks, StartCommand, RaiseCommand, ReturnCommand, StartServer,
         FailUnreachable, StartChecker, AwaitChecker, CancelChecker, RunSpec, List, Destroy, Unlink,
         Crash, Thread, LeaveChecks, Goto, RaiseTo, Places
<1> QED BY <1>1, <1>2, <1>3, <1>4 DEF TypeOK, Commands

\* Every variable of the run has its type.
THEOREM AssemblyTypeCorrect == Spec => []TypeOK
  BY TypeInit, TypeStep, PTL DEF Spec

-----------------------------------------------------------------------------
(* The invariant *)

Inv == ThreadInv /\ ContainerInv /\ NetworkInv /\ LinkInv /\ SharedInv

LEMMA InvInit == Init => Inv
  BY SandboxAssumption DEF Init, SandboxInit, Containers, Inv, ThreadInv, ContainerInv, NetworkInv,
     LinkInv, SharedInv, Running, HandedOver, Failed

\* A thread moves: the task is where it was.
LEMMA ThreadKeepsInv == TypeOK /\ Inv /\ Thread => Inv'
<1> SUFFICES ASSUME SandboxTypeOK, Inv, ThreadStep, UNCHANGED <<pc, mode>> PROVE Inv'
  BY TemplateStays DEF TypeOK, Thread, Next
<1> USE SandboxAssumption DEF ThreadStep, Failed, Inv, Running, HandedOver, Works, Fails,
                              Refused, calls, docker
<1>1. CASE EnsureImage("sandbox")
  <2>1. /\ thread'["sandbox"] \in {"network", "container", "failed"}
        /\ thread'["sandbox"] = "network" => mode = "internal"
        /\ thread'["checker"] = thread["checker"]
        /\ mode = "internal" => thread'["sandbox"] # "container"
    BY <1>1, Reached DEF EnsureImage, ThreadStages, Containers
  <2> QED
    BY <1>1, <2>1 DEF EnsureImage, ThreadInv, ContainerInv, NetworkInv, LinkInv, SharedInv,
                      Cause, NetworkCause
<1>2. CASE EnsureImage("checker")
  <2>1. thread'["checker"] \in {"container", "failed"} /\ thread'["sandbox"] = thread["sandbox"]
    BY <1>2, Reached DEF EnsureImage, ThreadStages, Containers
  <2> QED
    BY <1>2, <2>1 DEF EnsureImage, ThreadInv, ContainerInv, NetworkInv, LinkInv, SharedInv,
                      Cause, NetworkCause
<1>3. CASE CreateNetwork
  <2>1. thread'["sandbox"] \in {"container", "failed"} /\ thread'["checker"] = thread["checker"]
        /\ (networks' # networks => thread'["sandbox"] = "container")
    BY <1>3, Reached DEF CreateNetwork, ThreadStages, Containers
  <2> QED
    BY <1>3, <2>1 DEF CreateNetwork, ThreadInv, ContainerInv, NetworkInv, LinkInv, SharedInv,
                      Cause, NetworkCause
<1>4. CASE StartContainer("sandbox")
  <2> USE DEF ThreadInv, ContainerInv, NetworkInv, LinkInv, SharedInv, Cause, NetworkCause
  <2>1. /\ thread'["checker"] = thread["checker"]
        /\ \/ /\ thread'["sandbox"] = "done" /\ UNCHANGED failed
              /\ Home("sandbox") \subseteq networks \cup {"bridge"}
              /\ containers' = containers \cup {"sandbox"}
              /\ links' = links \cup ({"sandbox"} \X Home("sandbox"))
              /\ networkName' = IF mode = "internal" THEN "net" ELSE networkName
           \/ /\ thread'["sandbox"] = "failed" /\ UNCHANGED <<links, networkName>>
              /\ containers' \in {containers, containers \cup {"sandbox"}}
              /\ \/ failed' = failed \cup {<<"start", "sandbox">>}
                 \/ failed' = failed \cup {<<"refuse", "sandbox">>} /\ "net" \notin networks
    BY <1>4, Reached DEF StartContainer, ThreadStages, Containers, Home
  <2>2. mode = "internal" => Home("sandbox") = {"net"}
    BY DEF Home
  <2>3. mode # "internal" => Home("sandbox") \subseteq {"bridge"}
    BY DEF Home
  <2>4. UNCHANGED networks /\ thread["sandbox"] = "container"
    BY <1>4 DEF StartContainer
  <2>5. /\ \A l : l \in links => l \in links'
        /\ <<"checker", "net">> \in links' => <<"checker", "net">> \in links
        /\ <<"sandbox", "net">> \in links' => <<"sandbox", "net">> \in links \/ HandedOver'
        /\ HandedOver' /\ mode = "internal" => <<"sandbox", "net">> \in links'
    BY <2>1, <2>2, <2>3
  <2>6. /\ \A f : f \in failed => f \in failed'
        /\ \A of : <<"cancel", of>> \in failed' => <<"cancel", of>> \in failed
    BY <2>1
  <2>7. ThreadInv'
    BY <2>1, <2>4, <2>6
  <2>8. ContainerInv'
    BY <2>1, <2>4, <2>6
  <2>9. NetworkInv'
    BY <2>1, <2>2, <2>4, <2>6
  <2>10. LinkInv'
    BY <2>1, <2>4, <2>5, <2>6
  <2>11. SharedInv'
    BY <2>1, <2>2, <2>4, <2>5, <2>6
  <2> QED BY <2>7, <2>8, <2>9, <2>10, <2>11
<1>5. CASE StartContainer("checker")
  <2> USE DEF ThreadInv, ContainerInv, NetworkInv, LinkInv, SharedInv, Cause, NetworkCause
  <2>1. /\ thread'["sandbox"] = thread["sandbox"]
        /\ \/ /\ thread'["checker"] = "done" /\ UNCHANGED failed
              /\ containers' = containers \cup {"checker"}
              /\ links' = links \cup ({"checker"} \X Home("checker"))
           \/ /\ thread'["checker"] = "failed" /\ UNCHANGED links
              /\ containers' \in {containers, containers \cup {"checker"}}
              /\ \/ failed' = failed \cup {<<"start", "checker">>}
                 \/ failed' = failed \cup {<<"refuse", "checker">>}
    BY <1>5, Reached DEF StartContainer, ThreadStages, Containers
  <2>2. Home("checker") = {"net"}
    BY DEF Home
  <2>3. UNCHANGED <<networks, networkName>> /\ thread["checker"] = "container"
    BY <1>5 DEF StartContainer
  <2>4. /\ \A l : l \in links => l \in links'
        /\ <<"sandbox", "net">> \in links' => <<"sandbox", "net">> \in links
        /\ <<"checker", "net">> \in links' => <<"checker", "net">> \in links \/ thread'["checker"] = "done"
        /\ thread'["checker"] = "done" => <<"checker", "net">> \in links'
    BY <2>1, <2>2
  <2>5. /\ \A f : f \in failed => f \in failed'
        /\ \A of : <<"cancel", of>> \in failed' => <<"cancel", of>> \in failed
    BY <2>1
  <2>6. ThreadInv'
    BY <2>1, <2>3, <2>5
  <2>7. ContainerInv'
    BY <2>1, <2>3, <2>5
  <2>8. NetworkInv'
    BY <2>1, <2>3, <2>5
  <2>9. LinkInv'
    BY <2>1, <2>3, <2>4, <2>5
  <2>10. SharedInv'
    BY <2>1, <2>3, <2>4, <2>5
  <2> QED BY <2>6, <2>7, <2>8, <2>9, <2>10
<1> QED BY <1>1, <1>2, <1>3, <1>4, <1>5 DEF Containers

\* The task moves, dies or is cancelled.
LEMMA TaskKeepsInv == TypeOK /\ Inv /\ (TaskStep \/ CancelCreate \/ CancelChecker \/ Crash \/ UNCHANGED vars) => Inv'
<1> SUFFICES ASSUME TypeOK, Inv, TaskStep \/ CancelCreate \/ CancelChecker \/ Crash \/ UNCHANGED vars
             PROVE  Inv'
  OBVIOUS
<1>0. UNCHANGED mode
  BY TemplateStays DEF Next
<1> USE <1>0
<1> USE SandboxAssumption DEF TypeOK, SandboxTypeOK, Failed, Inv, ThreadInv, ContainerInv,
                              NetworkInv, LinkInv, SharedInv, Cause, NetworkCause, Running,
                              HandedOver,
        Works, Fails, Refused, calls, docker, config, Goto, RaiseTo, LeaveChecks, ThreadStages,
           Places
<1>1. CASE Create
  BY <1>1 DEF Create
<1>2. CASE CancelCreate
  BY <1>2 DEF CancelCreate, Cancelled
<1>3. CASE WriteStarter \/ RunAgent \/ List
  BY <1>3 DEF WriteStarter, RunAgent, List
<1>4. CASE AttachAgent
  BY <1>4 DEF AttachAgent, Attach, AttachRaises, IsOnline
<1>5. CASE DetachAgent
  BY <1>5 DEF DetachAgent, Detach
<1>6. CASE PassOver \/ FinishChecks
  BY <1>6 DEF PassOver, FinishChecks, sandboxVars
<1>7. CASE FailUnreachable
  BY <1>7 DEF FailUnreachable, Browser, sandboxVars
<1>8. CASE StartServer
  BY <1>8 DEF StartServer, sandboxVars
<1>9. CASE StartCommand
  BY <1>9 DEF StartCommand, Attach, AttachRaises, IsOnline
<1>10. CASE RaiseCommand \/ \E passed \in BOOLEAN : ReturnCommand(passed)
  BY <1>10 DEF RaiseCommand, ReturnCommand, Disconnect, Detach
<1>11. CASE StartChecker
  BY <1>11 DEF StartChecker, Browser, Reach, Containers
<1>12. CASE AwaitChecker
  BY <1>12 DEF AwaitChecker
<1>13. CASE CancelChecker
  BY <1>13 DEF CancelChecker, Cancelled
<1>14. CASE RunSpec
  BY <1>14 DEF RunSpec, Remove
<1>15. CASE Destroy
  BY <1>15 DEF Destroy, Remove
<1>16. CASE Unlink
  BY <1>16 DEF Unlink, RemoveNetwork
<1>17. CASE Crash
  BY <1>17 DEF Crash, Containers
<1>18. CASE UNCHANGED vars
  BY <1>18 DEF vars, sandboxVars
<1> QED BY <1>1, <1>2, <1>3, <1>4, <1>5, <1>6, <1>7, <1>8, <1>9, <1>10, <1>11, <1>12, <1>13,
   <1>14, <1>15, <1>16, <1>17, <1>18 DEF TaskStep

LEMMA InvHolds == Spec => []Inv
<1>1. TypeOK /\ Inv /\ [Next]_vars => Inv'
  BY ThreadKeepsInv, TaskKeepsInv DEF Next
<1> QED BY <1>1, InvInit, AssemblyTypeCorrect, PTL DEF Spec

\* What stays at the daemon after a run has a cause.
THEOREM LeftoversAreExplained == Spec => []LeftoversHaveACause
<1>1. TypeOK /\ Inv => LeftoversHaveACause
  BY DEF TypeOK, SandboxTypeOK, Inv, ContainerInv, NetworkInv, Cause, NetworkCause,
         LeftoversHaveACause,
         Containers
<1> QED BY <1>1, InvHolds, AssemblyTypeCorrect, PTL

\* While the browser runs, it shares a network with the application.
THEOREM BrowserReachesTheApplication == Spec => []CheckerReachesSandbox
<1>1. Inv => CheckerReachesSandbox
  BY DEF Inv, ThreadInv, SharedInv, HandedOver, CheckerReachesSandbox, Containers
<1> QED BY <1>1, InvHolds, PTL

-----------------------------------------------------------------------------
(* The bridge *)

\* The sandbox is not on the bridge outside what the invariant allows: each step that leaves
\* one of these places disconnects it or has failed to.
LEMMA OfflineStep == ChecksAreOffline /\ [Next]_vars => ChecksAreOffline'
<1> SUFFICES ASSUME ChecksAreOffline, [Next]_vars PROVE ChecksAreOffline'
  OBVIOUS
<1>0. UNCHANGED mode
  BY TemplateStays
<1> USE <1>0
<1> USE DEF ChecksAreOffline, IsOnline, Failed, Works, Fails, Refused, docker, calls, config,
            report, Goto, RaiseTo, LeaveChecks, Raise
<1>1. CASE Create \/ WriteStarter \/ RunAgent \/ List \/ Crash
  BY <1>1 DEF Create, WriteStarter, RunAgent, List, Crash
<1>2. CASE AttachAgent
  BY <1>2 DEF AttachAgent, Attach, AttachRaises
<1>3. CASE DetachAgent
  BY <1>3 DEF DetachAgent, Detach
<1>4. CASE PassOver \/ FinishChecks
  BY <1>4 DEF PassOver, FinishChecks, sandboxVars
<1>5. CASE FailUnreachable
  BY <1>5 DEF FailUnreachable, Browser, sandboxVars
<1>6. CASE StartServer
  BY <1>6 DEF StartServer, sandboxVars
<1>7. CASE StartCommand
  BY <1>7 DEF StartCommand, Attach, AttachRaises
<1>8. CASE RaiseCommand \/ \E passed \in BOOLEAN : ReturnCommand(passed)
  BY <1>8 DEF RaiseCommand, ReturnCommand, Disconnect, Detach
<1>9. CASE StartChecker
  BY <1>9 DEF StartChecker, Browser
<1>10. CASE AwaitChecker
  BY <1>10 DEF AwaitChecker
<1>11. CASE CancelCreate \/ CancelChecker
  BY <1>11 DEF CancelCreate, CancelChecker, Cancelled
<1>12. CASE RunSpec
  BY <1>12 DEF RunSpec, Remove
<1>13. CASE Destroy
  BY <1>13 DEF Destroy, Remove
<1>14. CASE Unlink
  BY <1>14 DEF Unlink, RemoveNetwork
<1>15. CASE Thread
  BY <1>15 DEF Thread, ThreadStep, EnsureImage, CreateNetwork, StartContainer, Home, Containers
<1>16. CASE UNCHANGED vars
  BY <1>16 DEF vars, sandboxVars
<1> QED BY <1>1, <1>2, <1>3, <1>4, <1>5, <1>6, <1>7, <1>8, <1>9, <1>10, <1>11, <1>12, <1>13,
   <1>14, <1>15, <1>16 DEF Next, TaskStep

LEMMA OfflineInit == Init => ChecksAreOffline
  BY DEF Init, SandboxInit, ChecksAreOffline, IsOnline

\* The check phase does not see the internet.
THEOREM ChecksSeeNoInternet == Spec => []ChecksAreOffline
  BY OfflineInit, OfflineStep, PTL DEF Spec

-----------------------------------------------------------------------------
(* What the daemon refuses *)

\* What _validate_consistency lets pass; nothing changes it.
DemandInv == internet \/ needs # {} => mode # "none"

\* Only two steps are refused the bridge, and only one the removal of the network.
LEMMA NewFailures ==
  [Next]_vars =>
    /\ \A f : f \in failed => f \in failed'
    /\ UNCHANGED <<mode, needs, internet>>
    /\ Failed("refuse", "bridge")' =>
         \/ Failed("refuse", "bridge")
         \/ /\ (pc = "attach" /\ internet) \/ (pc = "checks" /\ needs # {})
            /\ mode = "none" \/ IsOnline
    /\ Failed("refuse", "net")' =>
         \/ Failed("refuse", "net")
         \/ pc = "unlink" /\ networkName # None /\ \E l \in links : l[2] = networkName
<1> SUFFICES ASSUME [Next]_vars
             PROVE  /\ \A f : f \in failed => f \in failed'
                    /\ UNCHANGED <<mode, needs, internet>>
                    /\ Failed("refuse", "bridge")' =>
                         \/ Failed("refuse", "bridge")
                         \/ /\ (pc = "attach" /\ internet) \/ (pc = "checks" /\ needs # {})
                            /\ mode = "none" \/ IsOnline
                    /\ Failed("refuse", "net")' =>
                         \/ Failed("refuse", "net")
                         \/ pc = "unlink" /\ networkName # None /\ \E l \in links : l[2] = networkName
  OBVIOUS
<1>0. UNCHANGED mode
  BY TemplateStays
<1> USE <1>0
<1> USE DEF Failed, Works, Fails, Refused, calls, config, LeaveChecks
<1>1. CASE Create \/ WriteStarter \/ RunAgent \/ List \/ Crash
  BY <1>1 DEF Create, WriteStarter, RunAgent, List, Crash
<1>2. CASE AttachAgent
  BY <1>2 DEF AttachAgent, Attach, AttachRaises
<1>3. CASE DetachAgent
  BY <1>3 DEF DetachAgent, Detach
<1>4. CASE PassOver \/ FinishChecks
  BY <1>4 DEF PassOver, FinishChecks, sandboxVars
<1>5. CASE FailUnreachable
  BY <1>5 DEF FailUnreachable, sandboxVars
<1>6. CASE StartServer
  BY <1>6 DEF StartServer, sandboxVars
<1>7. CASE StartCommand
  BY <1>7 DEF StartCommand, Attach, AttachRaises
<1>8. CASE RaiseCommand \/ \E passed \in BOOLEAN : ReturnCommand(passed)
  BY <1>8 DEF RaiseCommand, ReturnCommand, Disconnect, Detach
<1>9. CASE StartChecker
  BY <1>9 DEF StartChecker
<1>10. CASE AwaitChecker
  BY <1>10 DEF AwaitChecker
<1>11. CASE CancelCreate \/ CancelChecker
  BY <1>11 DEF CancelCreate, CancelChecker, Cancelled
<1>12. CASE RunSpec
  BY <1>12 DEF RunSpec, Remove
<1>13. CASE Destroy
  BY <1>13 DEF Destroy, Remove
<1>14. CASE Unlink
  BY <1>14 DEF Unlink, RemoveNetwork
<1>15. CASE Thread
  BY <1>15 DEF Thread, ThreadStep, EnsureImage, CreateNetwork, StartContainer, Containers
<1>16. CASE UNCHANGED vars
  BY <1>16 DEF vars, sandboxVars
<1> QED BY <1>1, <1>2, <1>3, <1>4, <1>5, <1>6, <1>7, <1>8, <1>9, <1>10, <1>11, <1>12, <1>13,
   <1>14, <1>15, <1>16 DEF Next, TaskStep

LEMMA RefusalStep ==
  TypeOK /\ Inv /\ DemandInv /\ ChecksAreOffline /\ RefusalsHaveACause /\ [Next]_vars
    => DemandInv' /\ RefusalsHaveACause'
<1> SUFFICES ASSUME TypeOK, Inv, DemandInv, ChecksAreOffline, RefusalsHaveACause, [Next]_vars
             PROVE  DemandInv' /\ RefusalsHaveACause'
  OBVIOUS
<1>1. DemandInv'
  BY NewFailures DEF DemandInv
<1>2. ASSUME Failed("refuse", "bridge")' PROVE (mode = "bridge" \/ Failed("disconnect", "bridge"))'
  BY <1>2, NewFailures DEF DemandInv, ChecksAreOffline, RefusalsHaveACause, Failed
<1>3. ASSUME Failed("refuse", "net")'
      PROVE  ((\E c \in Containers : Failed("remove", c)) \/ Failed("cancel", "checker"))'
  <2>1. CASE Failed("refuse", "net")
    BY <2>1, NewFailures DEF RefusalsHaveACause, Failed
  <2>2. CASE pc = "unlink" /\ networkName # None /\ \E l \in links : l[2] = networkName
    <3>1. networkName = "net"
      BY <2>2 DEF TypeOK, SandboxTypeOK
    <3>2. PICK l \in links : l[2] = "net"
      BY <2>2, <3>1
    <3>3. l = <<"sandbox", "net">> \/ l = <<"checker", "net">>
      BY <3>2 DEF TypeOK, SandboxTypeOK, Containers
    <3>4. (\E c \in Containers : Failed("remove", c)) \/ Failed("cancel", "checker")
      BY <2>2, <3>2, <3>3 DEF Inv, ThreadInv, LinkInv, Containers
    <3> QED BY <3>4, NewFailures DEF Failed
  <2> QED BY <1>3, <2>1, <2>2, NewFailures
<1> QED BY <1>1, <1>2, <1>3 DEF RefusalsHaveACause

LEMMA RefusalInit == Init => DemandInv /\ RefusalsHaveACause
  BY DEF Init, SandboxInit, DemandInv, RefusalsHaveACause, Failed

\* What the daemon refuses has one of two causes.
THEOREM RefusalsAreExplained == Spec => []RefusalsHaveACause
  BY RefusalInit, RefusalStep, AssemblyTypeCorrect, InvHolds, ChecksSeeNoInternet, PTL DEF Spec

-----------------------------------------------------------------------------
(* The end of a run *)

\* What is left of a run: the checks, 7 for each, the way of the task through execute_run,
\* and that of the two threads.
PlaceRank ==
  CASE pc = "create" -> 18 [] pc = "starter" -> 17 [] pc = "attach" -> 16 [] pc = "agent" -> 15
    [] pc = "detach" -> 14 [] pc = "checks" -> 13 [] pc = "command" -> 12 [] pc = "checker" -> 8
    [] pc = "browser" -> 7 [] pc = "listing" -> 4 [] pc = "destroy" -> 3 [] pc = "unlink" -> 2
    [] pc = "over" -> 1 [] OTHER -> 0

ThreadRank(c) ==
  CASE thread[c] = "image" -> 3 [] thread[c] = "network" -> 2 [] thread[c] = "container" -> 1
    [] OTHER -> 0

Left == 7 * (Len(checks) + 1 - next) + PlaceRank + ThreadRank("sandbox") + ThreadRank("checker")

LEMMA LeftIsNat == TypeOK => Left \in Nat
<1> SUFFICES ASSUME TypeOK PROVE Left \in Nat
  OBVIOUS
<1>1. next \in 1..Len(checks) + 1 /\ Len(checks) \in Nat
  BY DEF TypeOK, ChecksTypeOK, TemplateTypeOK
<1>2. PlaceRank \in Nat
  BY DEF PlaceRank
<1>3. \A c \in Containers : ThreadRank(c) \in Nat
  BY DEF ThreadRank
<1> QED BY <1>1, <1>2, <1>3 DEF Left, Containers

\* The task moves on, and at most one check is done.
LEMMA TaskMoves ==
  ASSUME TypeOK, UNCHANGED <<checks, thread>>,
         \/ next' = next /\ PlaceRank' < PlaceRank
         \/ next' = next + 1 /\ PlaceRank' < PlaceRank + 7
  PROVE  Left' < Left
<1>1. next \in Nat /\ Len(checks) \in Nat /\ Len(checks') = Len(checks)
  BY DEF TypeOK, ChecksTypeOK, TemplateTypeOK
<1>2. PlaceRank \in Nat /\ PlaceRank' \in Nat
  BY DEF PlaceRank
<1>3. \A c \in Containers : ThreadRank(c) \in Nat /\ ThreadRank(c)' = ThreadRank(c)
  BY DEF ThreadRank
<1> QED BY <1>1, <1>2, <1>3 DEF Left, Containers

\* A thread moves on, while the task stays, or is started by the task.
LEMMA ThreadMoves ==
  ASSUME TypeOK, UNCHANGED <<checks, next>>,
         NEW c \in Containers, \A d \in Containers \ {c} : thread'[d] = thread[d],
         \/ PlaceRank' = PlaceRank /\ ThreadRank(c)' < ThreadRank(c)
         \/ PlaceRank' < PlaceRank - 3
  PROVE  Left' < Left
<1>1. next \in Nat /\ next' = next /\ Len(checks) \in Nat /\ Len(checks') = Len(checks)
  BY DEF TypeOK, ChecksTypeOK, TemplateTypeOK
<1>2. PlaceRank \in Nat /\ PlaceRank' \in Nat
  BY DEF PlaceRank
<1>3. \A d \in Containers : ThreadRank(d) \in 0..3 /\ ThreadRank(d)' \in 0..3
  BY DEF ThreadRank
<1>4. \A d \in Containers \ {c} : ThreadRank(d)' = ThreadRank(d)
  BY DEF ThreadRank
<1>5. /\ ThreadRank("sandbox") \in 0..3 /\ ThreadRank("sandbox")' \in 0..3
      /\ ThreadRank("checker") \in 0..3 /\ ThreadRank("checker")' \in 0..3
  BY <1>3 DEF Containers
<1>6. PlaceRank' + ThreadRank("sandbox")' + ThreadRank("checker")' <
        PlaceRank + ThreadRank("sandbox") + ThreadRank("checker")
  <2>1. CASE c = "sandbox"
    <3>1. ThreadRank("checker")' = ThreadRank("checker")
      BY <1>4, <2>1 DEF Containers
    <3> QED BY <1>2, <1>5, <2>1, <3>1
  <2>2. CASE c = "checker"
    <3>1. ThreadRank("sandbox")' = ThreadRank("sandbox")
      BY <1>4, <2>2 DEF Containers
    <3> QED BY <1>2, <1>5, <2>2, <3>1
  <2> QED BY <2>1, <2>2 DEF Containers
<1> DEFINE m == 7 * (Len(checks) + 1 - next)
<1>7. m \in Nat /\ m' = m
  BY <1>1 DEF TypeOK, ChecksTypeOK, TemplateTypeOK
<1>8. Left = m + PlaceRank + ThreadRank("sandbox") + ThreadRank("checker")
  BY DEF Left
<1>9. Left' = m' + PlaceRank' + ThreadRank("sandbox")' + ThreadRank("checker")'
  BY DEF Left
<1> HIDE DEF m
<1> QED BY <1>2, <1>5, <1>6, <1>7, <1>8, <1>9

LEMMA LeftFalls == TypeOK /\ Next => Left' < Left
<1> SUFFICES ASSUME TypeOK, Next PROVE Left' < Left
  OBVIOUS
<1>0. UNCHANGED checks
  BY TemplateStays
<1>1. CASE Create \/ CancelCreate \/ WriteStarter \/ AttachAgent \/ RunAgent \/ DetachAgent
           \/ List \/ Destroy \/ Unlink
  <2>1. UNCHANGED <<next, thread>>
    BY <1>1 DEF Create, CancelCreate, Cancelled, WriteStarter, AttachAgent, RunAgent, DetachAgent,
                List, Destroy, Unlink, report
  <2>2. PlaceRank' < PlaceRank
    BY <1>1 DEF Create, CancelCreate, WriteStarter, AttachAgent, RunAgent, DetachAgent,
                List, Destroy, Unlink, Goto, RaiseTo, PlaceRank
  <2> QED BY <1>0, <2>1, <2>2, TaskMoves
\* What is done to a check.
<1>2. ASSUME pc \in {"checks", "command", "browser"}, pc' = "checks", UNCHANGED thread,
             SkipCheck \/ \E passed \in BOOLEAN :
                            RunCommand(passed) \/ RunServe(passed) \/ RunPlaywright(passed)
      PROVE  Left' < Left
  <2>1. next' = next + 1
    BY <1>2 DEF SkipCheck, Skip, RunCommand, RunServe, RunPlaywright, Record, Advance
  <2>2. PlaceRank' < PlaceRank + 7
    BY <1>2 DEF PlaceRank
  <2> QED BY <1>0, <1>2, <2>1, <2>2, TaskMoves
<1>3. ASSUME pc \in {"checks", "command", "checker", "browser"}, LeaveChecks, UNCHANGED thread
      PROVE  Left' < Left
  <2>1. next' = next /\ PlaceRank' < PlaceRank
    BY <1>3 DEF LeaveChecks, Raise, RaiseTo, PlaceRank
  <2> QED BY <1>0, <1>3, <2>1, TaskMoves
<1>4. CASE PassOver \/ StartServer \/ FailUnreachable \/ \E passed \in BOOLEAN : ReturnCommand(passed)
  BY <1>2, <1>3, <1>4 DEF PassOver, StartServer, FailUnreachable, ReturnCommand, Disconnect, Browser,
                          Goto, sandboxVars
<1>5. CASE FinishChecks
  <2>1. UNCHANGED <<next, thread>> /\ PlaceRank' < PlaceRank
    BY <1>5 DEF FinishChecks, Finish, Goto, PlaceRank, sandboxVars
  <2> QED BY <1>0, <2>1, TaskMoves
<1>6. CASE StartCommand
  <2>1. CASE LeaveChecks
    BY <1>3, <1>6, <2>1 DEF StartCommand
  <2>2. CASE Goto("command") /\ UNCHANGED report
    <3>1. UNCHANGED <<next, thread>> /\ PlaceRank' < PlaceRank
      BY <1>6, <2>2 DEF StartCommand, Goto, PlaceRank, report
    <3> QED BY <1>0, <3>1, TaskMoves
  <2> QED BY <1>6, <2>1, <2>2 DEF StartCommand
<1>7. CASE RaiseCommand \/ CancelChecker
  BY <1>3, <1>7 DEF RaiseCommand, Disconnect, CancelChecker, Cancelled
<1>8. CASE StartChecker
  <2>1. CASE LeaveChecks /\ UNCHANGED thread
    BY <1>3, <1>8, <2>1 DEF StartChecker, Browser
  <2>2. CASE Reach("checker", "image") /\ Goto("checker") /\ UNCHANGED report
    <3>1. UNCHANGED next /\ PlaceRank' < PlaceRank - 3
      BY <1>8, <2>2 DEF StartChecker, Browser, Goto, PlaceRank, report
    <3>2. "checker" \in Containers /\ \A d \in Containers \ {"checker"} : thread'[d] = thread[d]
      BY <2>2 DEF Reach, Containers, TypeOK, SandboxTypeOK
    <3> QED BY <1>0, <3>1, <3>2, ThreadMoves
  <2> QED BY <1>8, <2>1, <2>2 DEF StartChecker
<1>9. CASE AwaitChecker
  <2>1. CASE LeaveChecks
    BY <1>3, <1>9, <2>1 DEF AwaitChecker
  <2>2. CASE Goto("browser") /\ UNCHANGED report
    <3>1. UNCHANGED <<next, thread>> /\ PlaceRank' < PlaceRank
      BY <1>9, <2>2 DEF AwaitChecker, Goto, PlaceRank, report
    <3> QED BY <1>0, <3>1, TaskMoves
  <2> QED BY <1>9, <2>1, <2>2 DEF AwaitChecker
<1>10. CASE RunSpec
  BY <1>2, <1>3, <1>10 DEF RunSpec, Goto
<1>11. CASE Thread
  <2>1. UNCHANGED <<next, pc>> /\ PlaceRank' = PlaceRank
    BY <1>11 DEF Thread, report, PlaceRank
  <2>2. ASSUME NEW c \in Containers, NEW stage \in ThreadStages, Reach(c, stage),
               \/ thread[c] = "image" /\ stage \in {"network", "container", "failed"}
               \/ thread[c] = "network" /\ stage \in {"container", "failed"}
               \/ thread[c] = "container" /\ stage \in {"done", "failed"}
        PROVE  Left' < Left
    <3>1. thread'[c] = stage /\ \A d \in Containers \ {c} : thread'[d] = thread[d]
      BY <2>2, Reached DEF TypeOK
    <3>2. ThreadRank(c)' < ThreadRank(c)
      BY <2>2, <3>1 DEF ThreadRank
    <3> QED BY <1>0, <2>1, <3>1, <3>2, ThreadMoves
  <2>3. ASSUME NEW c \in Containers, EnsureImage(c) PROVE Left' < Left
    BY <2>2, <2>3 DEF EnsureImage, ThreadStages
  <2>4. ASSUME NEW c \in Containers, StartContainer(c) PROVE Left' < Left
    BY <2>2, <2>4 DEF StartContainer, ThreadStages
  <2>5. CASE CreateNetwork
    BY <2>2, <2>5 DEF CreateNetwork, ThreadStages, Containers
  <2> QED BY <1>11, <2>3, <2>4, <2>5 DEF Thread, ThreadStep
<1>12. CASE Crash
  <2>1. next' = next /\ pc \in Places \ {"over", "crashed"} /\ pc' = "crashed"
        /\ \A c \in Containers : thread'[c] = "dead"
    BY <1>12 DEF Crash, Goto, report, TypeOK
  <2>2. PlaceRank' = 0 /\ PlaceRank \in Nat /\ PlaceRank > 0
    BY <2>1 DEF PlaceRank, Places
  <2>3. \A c \in Containers : ThreadRank(c)' = 0 /\ ThreadRank(c) \in Nat
    BY <2>1 DEF ThreadRank
  <2>4. next \in Nat /\ Len(checks) \in Nat /\ Len(checks') = Len(checks)
    BY <1>0 DEF TypeOK, ChecksTypeOK, TemplateTypeOK
  <2> QED BY <2>1, <2>2, <2>3, <2>4 DEF Left, Containers
<1> QED
  BY <1>1, <1>4, <1>5, <1>6, <1>7, <1>8, <1>9, <1>10, <1>11, <1>12 DEF Next, TaskStep

\* A run cannot go on for ever: with every step, of the task or of a thread, less is left of
\* it.  A run of n checks takes at most 7 n + 21 steps, whatever fails, raises or is
\* cancelled (runner.py:113-176).  What TornDown says besides is that it can always take one
\* before the sandbox is gone.
THEOREM RunsAreFinite ==
  Spec => Left = 7 * Len(checks) + 21 /\ [](Left \in Nat) /\ [][Left' < Left]_vars
<1>1. Init => Left = 7 * Len(checks) + 21
  <2> SUFFICES ASSUME Init PROVE Left = 7 * Len(checks) + 21
    OBVIOUS
  <2>1. next = 1 /\ pc = "create" /\ Len(checks) \in Nat
    BY TypeInit DEF Init, ChecksInit, TypeOK, ChecksTypeOK, TemplateTypeOK
  <2>2. thread["sandbox"] = "image" /\ thread["checker"] = "none"
    BY DEF Init, SandboxInit, Containers
  <2> QED BY <2>1, <2>2 DEF Left, PlaceRank, ThreadRank
<1>2. TypeOK /\ [Next]_vars => [Left' < Left]_vars
  BY LeftFalls
<1> QED BY LeftIsNat, <1>1, <1>2, AssemblyTypeCorrect, PTL DEF Spec

\* A thread the task waits for has ended or can go on.
AwaitedLives ==
  /\ pc = "create" => thread["sandbox"] \in {"image", "network", "container", "done", "failed"}
  /\ pc = "checker" => thread["checker"] \in {"image", "container", "done", "failed"}

LEMMA AwaitedInit == Init => AwaitedLives
  BY DEF Init, SandboxInit, AwaitedLives, Containers

LEMMA AwaitedStep == TypeOK /\ AwaitedLives /\ [Next]_vars => AwaitedLives'
<1> SUFFICES ASSUME TypeOK, AwaitedLives, [Next]_vars PROVE AwaitedLives'
  OBVIOUS
<1>1. CASE Thread
  <2>1. UNCHANGED pc
    BY <1>1 DEF Thread
  <2>2. ASSUME NEW c \in Containers, NEW stage \in ThreadStages, Reach(c, stage),
               \/ thread[c] = "image" /\ stage \in {"container", "failed"}
               \/ c = "sandbox" /\ stage \in {"network", "container", "failed"}
               \/ thread[c] = "container" /\ stage \in {"done", "failed"}
        PROVE  AwaitedLives'
    <3>1. thread'[c] = stage /\ \A d \in Containers \ {c} : thread'[d] = thread[d]
      BY <2>2, Reached DEF TypeOK
    <3> QED BY <2>1, <2>2, <3>1 DEF AwaitedLives, Containers
  <2>3. ASSUME NEW c \in Containers, EnsureImage(c) PROVE AwaitedLives'
    BY <2>2, <2>3 DEF EnsureImage, ThreadStages
  <2>4. ASSUME NEW c \in Containers, StartContainer(c) PROVE AwaitedLives'
    BY <2>2, <2>4 DEF StartContainer, ThreadStages
  <2>5. CASE CreateNetwork
    BY <2>2, <2>5 DEF CreateNetwork, ThreadStages, Containers
  <2> QED BY <1>1, <2>3, <2>4, <2>5 DEF Thread, ThreadStep
<1>2. CASE StartChecker
  <2>1. pc' # "create"
    BY <1>2 DEF StartChecker, Goto, LeaveChecks, RaiseTo
  <2>2. pc' = "checker" => thread'["checker"] = "image"
    BY <1>2, Reached DEF StartChecker, Goto, LeaveChecks, RaiseTo, Containers, ThreadStages, TypeOK
  <2> QED BY <2>1, <2>2 DEF AwaitedLives
<1>3. CASE pc' = pc /\ UNCHANGED thread
  BY <1>3 DEF AwaitedLives
<1>4. CASE pc' \notin {"create", "checker"}
  BY <1>4 DEF AwaitedLives
<1>5. CASE TaskStep \/ CancelCreate \/ CancelChecker \/ Crash
  BY <1>2, <1>3, <1>4, <1>5
     DEF TaskStep, Create, CancelCreate, WriteStarter, AttachAgent, RunAgent, DetachAgent, PassOver,
         FinishChecks, StartCommand, RaiseCommand, StartServer, ReturnCommand, FailUnreachable,
         AwaitChecker, CancelChecker, RunSpec, List, Destroy, Unlink, Crash, LeaveChecks, Goto,
         RaiseTo, sandboxVars, Browser
<1>6. CASE UNCHANGED vars
  BY <1>3, <1>6 DEF vars, sandboxVars
<1> QED BY <1>1, <1>5, <1>6 DEF Next

\* A task that awaits the creation of a container is not left waiting: the thread has ended,
\* or is at a stage it can leave (docker_sandbox.py:121-172, playwright_runner.py:63-108).
THEOREM AwaitedThreadsLive == Spec => []AwaitedLives
  BY AwaitedInit, AwaitedStep, AssemblyTypeCorrect, PTL DEF Spec
=============================================================================
