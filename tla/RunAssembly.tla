---------------------------- MODULE RunAssembly ----------------------------
(***************************************************************************)
(* execute_run (harness/runner.py): a sandbox is created, the agent works  *)
(* in it, the checks of the template are run, the sandbox is torn down.    *)
(* The check phase is that of Checks; here its steps also use the network  *)
(* and the checker's container (Sandbox).                                  *)
(*                                                                         *)
(* A step is what the task does between two awaits.  Whatever raises goes  *)
(* through the same finally blocks, a cancellation too; a run without      *)
(* checks stands for one without a template.                               *)
(***************************************************************************)
EXTENDS Sandbox, Checks

VARIABLES
  needs,      \* the command checks with needs_network
  internet,   \* agent_internet
  pc,         \* where the task is
  result,     \* the agent has returned
  raised      \* an exception is on its way out

config == <<template, needs, internet>>
vars   == <<config, report, sandboxVars, pc, result, raised>>

\* In agent.run, in a command check, in a browser check and so on; "unlink" is the second
\* call of destroy.
Places == {"create", "starter", "attach", "agent", "detach", "checks", "command", "checker",
           "browser", "listing", "destroy", "unlink", "over", "crashed"}

Commands == {i \in DOMAIN checks : checks[i].kind = "command"}

\* A template that _validate_consistency lets pass.
Init ==
  /\ ChecksInit
  /\ needs \in SUBSET Commands
  /\ internet \in BOOLEAN
  /\ internet \/ needs # {} => mode # "none"
  /\ SandboxInit
  /\ pc = "create"
  /\ result = FALSE /\ raised = FALSE

\* The task awaiting a thread is cancelled, the process being shut down: the thread is not.
Cancelled(c) ==
  /\ thread[c] \notin {"done", "failed"}
  /\ failed' = failed \cup {<<"cancel", c>>}
  /\ UNCHANGED <<faults, docker, networkName, thread>>

Goto(place)    == pc' = place /\ UNCHANGED <<result, raised>>
RaiseTo(place) == pc' = place /\ raised' = TRUE /\ UNCHANGED result

-----------------------------------------------------------------------------
(* Up to the checks *)

Create ==
  /\ pc = "create"
  /\ UNCHANGED <<config, report, docker, networkName, calls, thread>>
  /\ \/ thread["sandbox"] = "done" /\ Goto("starter")
     \/ thread["sandbox"] = "failed" /\ RaiseTo("over")

CancelCreate ==
  /\ pc = "create"
  /\ Cancelled("sandbox")
  /\ RaiseTo("over")
  /\ UNCHANGED <<config, report>>

WriteStarter ==
  /\ pc = "starter"
  /\ UNCHANGED <<config, report, docker, networkName, calls, thread>>
  /\ Goto("attach") \/ RaiseTo("destroy")

AttachAgent ==
  /\ pc = "attach"
  /\ UNCHANGED <<config, report, thread>>
  /\ \/ ~internet /\ Works /\ UNCHANGED <<docker, networkName>> /\ Goto("agent")
     \/ internet /\ Attach /\ Goto("agent")
     \/ internet /\ AttachRaises /\ RaiseTo("destroy")

RunAgent ==
  /\ pc = "agent"
  /\ UNCHANGED <<config, report, docker, networkName, calls, thread>>
  /\ pc' = "detach"
  /\ \/ result' = TRUE /\ UNCHANGED raised
     \/ raised' = TRUE /\ UNCHANGED result

\* Fault: the bridge is taken away only when the agent has failed.
FaultyDetachAgent ==
  /\ pc = "detach"
  /\ UNCHANGED <<config, report, thread>>
  /\ IF internet /\ raised THEN Detach ELSE Works /\ UNCHANGED <<docker, networkName>>
  /\ Goto(IF raised THEN "destroy" ELSE "checks")

DetachAgent ==
  /\ pc = "detach"
  /\ UNCHANGED <<config, report, thread>>
  /\ IF internet THEN Detach ELSE Works /\ UNCHANGED <<docker, networkName>>
  /\ Goto(IF raised THEN "destroy" ELSE "checks")

-----------------------------------------------------------------------------
(* The checks *)

PassOver ==
  /\ pc = "checks"
  /\ UNCHANGED <<sandboxVars, needs, internet, pc, result, raised>>
  /\ SkipCheck

FinishChecks ==
  /\ pc = "checks"
  /\ UNCHANGED <<sandboxVars, needs, internet>>
  /\ Finish
  /\ Goto("listing")

\* run_checks is left by an exception.
LeaveChecks == Raise /\ RaiseTo("destroy") /\ UNCHANGED <<needs, internet>>

StartCommand ==
  /\ pc = "checks"
  /\ Current("command") /\ ~Blocked
  /\ UNCHANGED thread
  /\ \/ /\ IF next \in needs THEN Attach ELSE Works /\ UNCHANGED <<docker, networkName>>
        /\ Goto("command")
        /\ UNCHANGED <<config, report>>
     \/ next \in needs /\ AttachRaises /\ LeaveChecks

Disconnect ==
  /\ IF next \in needs THEN Detach ELSE Works /\ UNCHANGED <<docker, networkName>>
  /\ UNCHANGED thread

\* Fault: the bridge stays when the command has failed.
FaultyReturnCommand(passed) ==
  /\ pc = "command"
  /\ IF passed THEN Disconnect ELSE UNCHANGED sandboxVars
  /\ RunCommand(passed)
  /\ Goto("checks")
  /\ UNCHANGED <<needs, internet>>

\* exec returns, or raises SandboxError, which counts as a failed check.
ReturnCommand(passed) ==
  /\ pc = "command"
  /\ Disconnect
  /\ RunCommand(passed)
  /\ Goto("checks")
  /\ UNCHANGED <<needs, internet>>

RaiseCommand ==
  /\ pc = "command"
  /\ Disconnect
  /\ LeaveChecks

StartServer ==
  /\ pc = "checks"
  /\ Current("serve") /\ ~Blocked
  /\ UNCHANGED sandboxVars
  /\ \/ /\ \E passed \in BOOLEAN : RunServe(passed)
        /\ UNCHANGED <<needs, internet, pc, result, raised>>
     \/ LeaveChecks

Browser == pc = "checks" /\ Current("playwright") /\ ~Blocked /\ ~Unserved

FailUnreachable ==
  /\ Browser /\ networkName = None
  /\ UNCHANGED <<sandboxVars, needs, internet, pc, result, raised>>
  /\ RunPlaywright(FALSE)

\* The spec is read - it may be gone or unreadable by now - and the checker's thread begins.
StartChecker ==
  /\ Browser /\ networkName # None
  /\ UNCHANGED <<docker, networkName, calls>>
  /\ \/ Reach("checker", "image") /\ Goto("checker") /\ UNCHANGED <<config, report>>
     \/ LeaveChecks /\ UNCHANGED thread

\* Fault: an exception of create is lost.
FaultyAwaitChecker ==
  /\ pc = "checker"
  /\ UNCHANGED <<docker, networkName, calls, thread>>
  /\ thread["checker"] = "done" /\ Goto("browser") /\ UNCHANGED <<config, report>>

AwaitChecker ==
  /\ pc = "checker"
  /\ UNCHANGED <<docker, networkName, calls, thread>>
  /\ \/ thread["checker"] = "done" /\ Goto("browser") /\ UNCHANGED <<config, report>>
     \/ thread["checker"] = "failed" /\ LeaveChecks

CancelChecker ==
  /\ pc = "checker"
  /\ Cancelled("checker")
  /\ LeaveChecks

\* run_spec returns or raises; the checker's __aexit__ removes its container.
RunSpec ==
  /\ pc = "browser"
  /\ Remove("checker")
  /\ UNCHANGED thread
  /\ \/ /\ \E passed \in BOOLEAN : RunPlaywright(passed)
        /\ Goto("checks")
        /\ UNCHANGED <<needs, internet>>
     \/ LeaveChecks

-----------------------------------------------------------------------------
(* After the checks *)

List ==
  /\ pc = "listing"
  /\ UNCHANGED <<config, report, docker, networkName, calls, thread>>
  /\ Goto("destroy") \/ RaiseTo("destroy")

Destroy ==
  /\ pc = "destroy"
  /\ Remove("sandbox")
  /\ Goto("unlink")
  /\ UNCHANGED <<config, report, thread>>

\* Fault: the network is left to the daemon.
FaultyUnlink ==
  /\ pc = "unlink"
  /\ Goto("over")
  /\ UNCHANGED <<config, report, docker, networkName, calls, thread>>

Unlink ==
  /\ pc = "unlink"
  /\ RemoveNetwork
  /\ Goto("over")
  /\ UNCHANGED <<config, report, thread>>

\* The process dies: its threads with it, nothing at the daemon.
Crash ==
  /\ pc \notin {"over", "crashed"}
  /\ Goto("crashed")
  /\ thread' = [c \in Containers |-> "dead"]
  /\ UNCHANGED <<config, report, docker, networkName, calls>>

TaskStep ==
  \/ Create \/ WriteStarter \/ AttachAgent \/ RunAgent \/ DetachAgent
  \/ PassOver \/ FinishChecks \/ StartCommand \/ RaiseCommand \/ StartServer
  \/ \E passed \in BOOLEAN : ReturnCommand(passed)
  \/ FailUnreachable \/ StartChecker \/ AwaitChecker \/ RunSpec
  \/ List \/ Destroy \/ Unlink

Thread ==
  /\ ThreadStep
  /\ UNCHANGED <<config, report, pc, result, raised>>

Next == TaskStep \/ Thread \/ CancelCreate \/ CancelChecker \/ Crash

Spec == Init /\ [][Next]_vars

\* What the daemon, the model and the commands are asked comes back (an assumption), and a
\* thread that can run is run.
FairSpec == Spec /\ WF_vars(TaskStep) /\ WF_vars(Thread)

-----------------------------------------------------------------------------
(* Properties *)

\* Every variable has its type.
TypeOK ==
  /\ SandboxTypeOK
  /\ ChecksTypeOK
  /\ needs \subseteq Commands
  /\ internet \in BOOLEAN
  /\ pc \in Places
  /\ result \in BOOLEAN /\ raised \in BOOLEAN

Failed(call, of) == <<call, of>> \in failed

\* What stays at the daemon after a run has a cause: a removal that failed, a start that
\* failed (nothing is cleaned up then), or a task that was cancelled while the thread went
\* on (docker_sandbox.py:387-398, runner.py:176).
LeftoversHaveACause ==
  pc = "over" =>
    /\ \A c \in containers :
         Failed("remove", c) \/ Failed("start", c) \/ Failed("cancel", c) \/ Failed("refuse", c)
    /\ networks # {} =>
         \/ Failed("remove", "net") \/ Failed("refuse", "net")
         \/ Failed("start", "sandbox") \/ Failed("cancel", "sandbox")

\* "The check phase must not see" the internet (runner.py:149-151): outside the agent phase
\* the sandbox is on the bridge for a command that needs it, or because it was created
\* there, or because a disconnect failed - which nobody is told.
ChecksAreOffline ==
  IsOnline =>
    \/ mode = "bridge" \/ Failed("disconnect", "bridge")
    \/ pc \in {"agent", "detach"} /\ internet
    \/ pc = "command" /\ next \in needs
    \/ pc = "crashed"

\* The daemon refuses what a valid template asks for only for a sandbox that is on the
\* bridge for good, by its mode (which _validate_consistency lets pass, models.py:168) or
\* because a disconnect failed; and it refuses to remove the network only when a container
\* on it was not removed or is still being created.
RefusalsHaveACause ==
  /\ Failed("refuse", "bridge") => mode = "bridge" \/ Failed("disconnect", "bridge")
  /\ Failed("refuse", "net") =>
       \/ \E c \in Containers : Failed("remove", c)
       \/ Failed("cancel", "checker")

\* While the browser runs, its container and the application share a network, whatever has
\* been attached and detached before (playwright_runner.py:3-7).
CheckerReachesSandbox ==
  pc = "browser" => "net" \in networks /\ Containers \X {"net"} \subseteq links

\* A sandbox that was handed over is torn down in the end, whatever raises in between.
TornDown == (pc \notin {"create", "over"}) ~> (pc \in {"over", "crashed"})
=============================================================================
