------------------------------ MODULE Sandbox ------------------------------
(***************************************************************************)
(* The Docker resources of one run: the container of DockerSandbox         *)
(* (sandbox/docker_sandbox.py), the container of PlaywrightChecker         *)
(* (checks/playwright_runner.py), the network they share and what is       *)
(* connected to what.  RunAssembly calls the operations.                   *)
(*                                                                         *)
(* Container and network names are fresh (uuid4), so one run is alone with *)
(* its resources; the bridge is the daemon's.  An operation is a call of   *)
(* the daemon, which may fail.                                             *)
(***************************************************************************)
EXTENDS Template

CONSTANTS None,
          MaxFaults   \* bound on the calls of the daemon that fail

ASSUME SandboxAssumption ==
  /\ None \notin {"net", "bridge"}
  /\ MaxFaults \in Nat

Containers == {"sandbox", "checker"}
Networks   == {"net", "bridge"}

\* A thread of asyncio.to_thread in _create_blocking: where it is, how it ended.
ThreadStages == {"none", "image", "network", "container", "done", "failed", "dead"}

Calls == {"image", "create", "start", "connect", "disconnect", "remove", "refuse", "cancel"}

VARIABLES
  containers,   \* those that exist
  networks,     \* those of the run that exist: {} or {"net"}
  links,        \* <<container, network>>: what is connected to what
  networkName,  \* DockerSandbox._network_name
  thread,       \* per container: the thread that creates it
  faults,
  failed        \* history: the calls that failed, and on what

docker      == <<containers, networks, links>>
calls       == <<faults, failed>>
sandboxVars == <<docker, networkName, thread, calls>>

SandboxInit ==
  /\ containers = {} /\ networks = {} /\ links = {}
  /\ networkName = None
  /\ thread = [c \in Containers |-> IF c = "sandbox" THEN "image" ELSE "none"]
  /\ faults = 0 /\ failed = {}

Works == UNCHANGED calls

Fails(call, of) ==
  /\ faults < MaxFaults
  /\ faults' = faults + 1
  /\ failed' = failed \cup {<<call, of>>}

\* Refused by the daemon whenever it is asked: not one of the faults.
Refused(what) ==
  /\ failed' = failed \cup {<<"refuse", what>>}
  /\ UNCHANGED faults

-----------------------------------------------------------------------------
(* _create_blocking, which runs on when the task awaiting it is gone *)

Reach(c, stage) == thread' = [thread EXCEPT ![c] = stage]

\* The daemon answers and the image is there, is built or is pulled.
EnsureImage(c) ==
  /\ thread[c] = "image"
  /\ UNCHANGED <<docker, networkName>>
  /\ \/ /\ Works
        /\ Reach(c, IF c = "sandbox" /\ mode = "internal" THEN "network" ELSE "container")
     \/ Fails("image", c) /\ Reach(c, "failed")

CreateNetwork ==
  /\ thread["sandbox"] = "network"
  /\ UNCHANGED <<containers, links, networkName>>
  /\ \/ Works /\ networks' = networks \cup {"net"} /\ Reach("sandbox", "container")
     \/ Fails("create", "net") /\ UNCHANGED networks /\ Reach("sandbox", "failed")

\* The network a new container is on.  The checker joins the sandbox's.
Home(c) ==
  CASE c = "checker" \/ mode = "internal" -> {"net"}
    [] c = "sandbox" /\ mode = "bridge" -> {"bridge"}
    [] OTHER -> {}

\* containers.run creates and starts; when the start fails, or the network is gone, the
\* container may stay.  The object that knows the network exists only when it has worked.
StartContainer(c) ==
  /\ thread[c] = "container"
  /\ UNCHANGED networks
  /\ \/ /\ Works
        /\ Home(c) \subseteq networks \cup {"bridge"}
        /\ containers' = containers \cup {c}
        /\ links' = links \cup ({c} \X Home(c))
        /\ networkName' = IF c = "sandbox" /\ mode = "internal" THEN "net" ELSE networkName
        /\ Reach(c, "done")
     \/ /\ IF Home(c) \subseteq networks \cup {"bridge"} THEN Fails("start", c) ELSE Refused(c)
        /\ containers' \in {containers, containers \cup {c}}
        /\ UNCHANGED <<links, networkName>>
        /\ Reach(c, "failed")

ThreadStep ==
  \/ \E c \in Containers : EnsureImage(c) \/ StartContainer(c)
  \/ CreateNetwork

-----------------------------------------------------------------------------
(* Operations of the object *)

IsOnline == <<"sandbox", "bridge">> \in links

\* attach_network("bridge") works.
Attach ==
  /\ mode # "none" /\ ~IsOnline
  /\ Works
  /\ links' = links \cup {<<"sandbox", "bridge">>}
  /\ UNCHANGED <<containers, networks, networkName>>

\* attach_network("bridge") raises: a container started on no network cannot be connected,
\* one that is on the bridge already is refused, and the call may fail.
AttachRaises ==
  /\ \/ (mode = "none" \/ IsOnline) /\ Refused("bridge")
     \/ mode # "none" /\ ~IsOnline /\ Fails("connect", "bridge")
  /\ UNCHANGED <<docker, networkName>>

\* Fault: every network of the container is disconnected.
FaultyDetach ==
  /\ \/ Works /\ links' = {l \in links : l[1] # "sandbox"}
     \/ Fails("disconnect", "bridge") /\ UNCHANGED links
  /\ UNCHANGED <<containers, networks, networkName>>

\* detach_network("bridge"): an error is suppressed.
Detach ==
  /\ \/ Works /\ links' = links \ {<<"sandbox", "bridge">>}
     \/ Fails("disconnect", "bridge") /\ UNCHANGED links
  /\ UNCHANGED <<containers, networks, networkName>>

\* _container.remove(force=True), an error being suppressed.
Remove(c) ==
  /\ \/ Works /\ containers' = containers \ {c} /\ links' = {l \in links : l[1] # c}
     \/ Fails("remove", c) /\ UNCHANGED <<containers, links>>
  /\ UNCHANGED <<networks, networkName>>

\* The network of the object is removed and forgotten, an error being suppressed.  The
\* daemon does not remove a network that something is connected to.
RemoveNetwork ==
  /\ networkName' = None
  /\ UNCHANGED <<containers, links>>
  /\ \/ networkName = None /\ Works /\ UNCHANGED networks
     \/ /\ networkName # None
        /\ IF \E l \in links : l[2] = networkName
             THEN Refused("net") /\ UNCHANGED networks
             ELSE \/ Works /\ networks' = networks \ {networkName}
                  \/ Fails("remove", "net") /\ UNCHANGED networks

SandboxTypeOK ==
  /\ containers \subseteq Containers
  /\ networks \subseteq {"net"}
  /\ links \subseteq Containers \X Networks
  /\ networkName \in {"net", None}
  /\ thread \in [Containers -> ThreadStages]
  /\ faults \in 0..MaxFaults
  /\ failed \subseteq Calls \X (Containers \cup Networks)
=============================================================================
