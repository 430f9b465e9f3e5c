----------------------------- MODULE RunService -----------------------------
(***************************************************************************)
(* Runs as RunService (runs/service.py) starts, executes, records and      *)
(* reads them: the metadata on disk, the registry of the process and the   *)
(* task of every run.                                                      *)
(*                                                                         *)
(* start and the task of a run execute on the event loop; the summaries    *)
(* are read by sync endpoints, in the threads of a pool.  A step of the    *)
(* model is what one of them does between two points where another thread  *)
(* can be seen: a read or a write of the metadata, a use of the registry.  *)
(* write_meta is one step here (MetaFile looks into it), which may fail.   *)
(***************************************************************************)
EXTENDS Naturals, FiniteSets

CONSTANTS
  Runs,         \* runs, each started once: numbers in the order of their started_at
  Readers,      \* threads serving GET /runs and GET /runs/{id}
  Limit,        \* per reader: how many runs the lists it serves are for (1 to 200)
  DefaultLimit, \* ... where a request does not say (50)
  None,
  MaxRestarts,  \* bound on the crashes of the process
  MaxFaults     \* bound on the writes that fail

ASSUME RunServiceAssumption ==
  /\ Runs \subseteq Nat /\ None \notin Runs
  /\ DefaultLimit \in Nat \ {0} /\ Limit \in [Readers -> Nat \ {0}]
  /\ MaxRestarts \in Nat /\ MaxFaults \in Nat

VARIABLES
  meta,      \* meta.json: "none", "running", "completed", "error", "abandoned"
  registry,  \* RunRegistry._runs: "none", "live", "finished"
  task,      \* where start and _execute are
  todo,      \* per reader: the metadata its request has still to read
  found,     \* per reader: the runs whose metadata it has found
  running,   \* per reader: runs it read as running and has still to reconcile
  missing,   \* per reader: the run it did not find in the registry, or None
  raced,     \* history: runs looked up between store.create and registry.create
  lost,      \* history: runs whose outcome could not be written
  restarts, faults

requests == <<todo, found, running, missing>>
vars     == <<meta, registry, task, requests, raced, lost, restarts, faults>>

Final == {"completed", "error", "abandoned"}

\* "starting": store.create is done, registry.create is not.  "executing": in execute_run.
\* "failing": in the except block.  "ending": in the finally block.  "dead": its process is.
Stages == {"none", "starting", "executing", "failing", "ending", "done", "refused", "dead"}

Init ==
  /\ meta = [r \in Runs |-> "none"]
  /\ registry = [r \in Runs |-> "none"]
  /\ task = [r \in Runs |-> "none"]
  /\ todo = [t \in Readers |-> {}]
  /\ found = [t \in Readers |-> {}]
  /\ running = [t \in Readers |-> {}]
  /\ missing = [t \in Readers |-> None]
  /\ raced = {}
  /\ lost = {}
  /\ restarts = 0
  /\ faults = 0

\* write_meta raises OSError.
WriteFails == faults < MaxFaults /\ faults' = faults + 1

\* The event loop runs one handler at a time, from one await to the next.
Busy == {"starting", "failing", "ending"}
Turn == \A q \in Runs : task[q] \notin Busy

-----------------------------------------------------------------------------
(* start and _execute, on the event loop *)

\* start is called for the next run.
Called(r) ==
  /\ task[r] = "none"
  /\ \A q \in Runs : q < r => task[q] # "none"
  /\ Turn

\* store.create: the run is on disk as running, with the time of its start.
StartCreate(r) ==
  /\ Called(r)
  /\ meta' = [meta EXCEPT ![r] = "running"]
  /\ task' = [task EXCEPT ![r] = "starting"]
  /\ UNCHANGED <<registry, requests, raced, lost, restarts, faults>>

\* store.create raises: start is left before anything is registered.
StartFails(r) ==
  /\ Called(r)
  /\ WriteFails
  /\ task' = [task EXCEPT ![r] = "refused"]
  /\ UNCHANGED <<meta, registry, requests, raced, lost, restarts>>

\* registry.create and create_task.
StartRegister(r) ==
  /\ task[r] = "starting"
  /\ registry' = [registry EXCEPT ![r] = "live"]
  /\ task' = [task EXCEPT ![r] = "executing"]
  /\ UNCHANGED <<meta, requests, raced, lost, restarts, faults>>

\* Fault: an outcome that cannot be written is ignored.
FaultyExecuteReturns(r) ==
  /\ task[r] = "executing"
  /\ Turn
  /\ \/ /\ meta' = [meta EXCEPT ![r] = "completed"]
        /\ UNCHANGED faults
     \/ WriteFails /\ UNCHANGED meta
  /\ task' = [task EXCEPT ![r] = "ending"]
  /\ UNCHANGED <<registry, requests, raced, lost, restarts>>

\* execute_run returns; _finalise records the outcome, or raises into the except block.
ExecuteReturns(r) ==
  /\ task[r] = "executing"
  /\ Turn
  /\ \/ /\ meta' = [meta EXCEPT ![r] = "completed"]
        /\ task' = [task EXCEPT ![r] = "ending"]
        /\ UNCHANGED faults
     \/ /\ WriteFails
        /\ task' = [task EXCEPT ![r] = "failing"]
        /\ UNCHANGED meta
  /\ UNCHANGED <<registry, requests, raced, lost, restarts>>

ExecuteRaises(r) ==
  /\ task[r] = "executing"
  /\ Turn
  /\ task' = [task EXCEPT ![r] = "failing"]
  /\ UNCHANGED <<meta, registry, requests, raced, lost, restarts, faults>>

\* Fault: a write that fails in the except block leaves without the finally block.
FaultyRecordError(r) ==
  /\ task[r] = "failing"
  /\ \/ /\ meta' = [meta EXCEPT ![r] = "error"]
        /\ task' = [task EXCEPT ![r] = "ending"]
        /\ UNCHANGED <<lost, faults>>
     \/ /\ WriteFails
        /\ lost' = lost \cup {r}
        /\ task' = [task EXCEPT ![r] = "done"]
        /\ UNCHANGED meta
  /\ UNCHANGED <<registry, requests, raced, restarts>>

\* The except block; when its write fails too, the exception passes through finally.
RecordError(r) ==
  /\ task[r] = "failing"
  /\ \/ /\ meta' = [meta EXCEPT ![r] = "error"]
        /\ UNCHANGED <<lost, faults>>
     \/ /\ WriteFails
        /\ lost' = lost \cup {r}
        /\ UNCHANGED meta
  /\ task' = [task EXCEPT ![r] = "ending"]
  /\ UNCHANGED <<registry, requests, raced, restarts>>

\* Fault: the finished run is forgotten, as RunRegistry.forget would.
FaultyEndRun(r) ==
  /\ task[r] = "ending"
  /\ registry' = [registry EXCEPT ![r] = "none"]
  /\ task' = [task EXCEPT ![r] = "done"]
  /\ UNCHANGED <<meta, requests, raced, lost, restarts, faults>>

\* The finally block: registry.finish.  The entry stays (forget has no caller).
EndRun(r) ==
  /\ task[r] = "ending"
  /\ registry' = [registry EXCEPT ![r] = "finished"]
  /\ task' = [task EXCEPT ![r] = "done"]
  /\ UNCHANGED <<meta, requests, raced, lost, restarts, faults>>

-----------------------------------------------------------------------------
(* list_runs, get and _reconcile, in the threads of the pool *)

\* The newest n of the runs S: sorted by started_at, then metas[:limit].
Newest(S, n) == {r \in S : Cardinality({q \in S : q > r}) < n}

Idle(t) == todo[t] = {} /\ running[t] = {} /\ missing[t] = None

\* A request for one run, or for the newest of them.
Ask(t, asked) ==
  /\ Idle(t)
  /\ todo' = [todo EXCEPT ![t] = asked]
  /\ UNCHANGED <<meta, registry, task, found, running, missing, raced, lost, restarts, faults>>

Get(t, r) == Ask(t, {r})
List(t)   == Ask(t, Runs)

\* read_meta.  A list reads every run there is, then takes the newest, and of these
\* reconciles one after the other.
ReadMeta(t, r) ==
  /\ r \in todo[t]
  /\ todo' = [todo EXCEPT ![t] = @ \ {r}]
  /\ LET metas == found[t] \cup {q \in {r} : meta[q] # "none"}
         open  == running[t] \cup {q \in {r} : meta[q] = "running"}
     IN IF todo[t] = {r}
        THEN /\ running' = [running EXCEPT ![t] = open \cap Newest(metas, Limit[t])]
             /\ found' = [found EXCEPT ![t] = {}]
        ELSE /\ running' = [running EXCEPT ![t] = open]
             /\ found' = [found EXCEPT ![t] = metas]
  /\ UNCHANGED <<meta, registry, task, missing, raced, lost, restarts, faults>>

\* _reconcile looks the run up in the registry.
LookUp(t, r) ==
  /\ todo[t] = {} /\ missing[t] = None
  /\ r \in running[t]
  /\ running' = [running EXCEPT ![t] = @ \ {r}]
  /\ missing' = [missing EXCEPT ![t] = IF registry[r] = "none" THEN r ELSE None]
  /\ raced' = IF task[r] = "starting" THEN raced \cup {r} ELSE raced
  /\ UNCHANGED <<meta, registry, task, todo, found, lost, restarts, faults>>

\* Fault: the abandoned state is returned to the client but not persisted.
FaultyAbandon(t) ==
  /\ missing[t] # None
  /\ missing' = [missing EXCEPT ![t] = None]
  /\ UNCHANGED <<meta, running, faults, registry, task, todo, found, raced, lost, restarts>>

\* ... and writes it as abandoned.  A write that fails ends the request with it.
Abandon(t) ==
  /\ missing[t] # None
  /\ \/ /\ meta' = [meta EXCEPT ![missing[t]] = "abandoned"]
        /\ UNCHANGED <<running, faults>>
     \/ /\ WriteFails
        /\ running' = [running EXCEPT ![t] = {}]
        /\ UNCHANGED meta
  /\ missing' = [missing EXCEPT ![t] = None]
  /\ UNCHANGED <<registry, task, todo, found, raced, lost, restarts>>

\* The stream handler calls get on the event loop.  Between its read and its write only the
\* threads above run, and all they write is what it writes: it is one step.
HandlerGets(r) ==
  /\ Turn
  /\ meta[r] = "running" /\ registry[r] = "none"
  /\ \/ /\ meta' = [meta EXCEPT ![r] = "abandoned"]
        /\ UNCHANGED faults
     \/ WriteFails /\ UNCHANGED meta
  /\ UNCHANGED <<registry, task, requests, raced, lost, restarts>>

\* The process dies, or is shut down: a cancelled task writes nothing (CancelledError is no
\* Exception).  Only the metadata is left.
Restart ==
  /\ restarts < MaxRestarts
  /\ restarts' = restarts + 1
  /\ registry' = [r \in Runs |-> "none"]
  /\ task' = [r \in Runs |-> IF task[r] \in {"none", "refused"} THEN task[r] ELSE "dead"]
  /\ todo' = [t \in Readers |-> {}]
  /\ found' = [t \in Readers |-> {}]
  /\ running' = [t \in Readers |-> {}]
  /\ missing' = [t \in Readers |-> None]
  /\ UNCHANGED <<meta, raced, lost, faults>>

TaskStep(r) ==
  StartRegister(r) \/ ExecuteReturns(r) \/ ExecuteRaises(r) \/ RecordError(r) \/ EndRun(r)

ReaderStep(t) == (\E r \in Runs : ReadMeta(t, r) \/ LookUp(t, r)) \/ Abandon(t)

Next ==
  \/ \E r \in Runs : StartCreate(r) \/ StartFails(r) \/ TaskStep(r) \/ HandlerGets(r)
  \/ \E t \in Readers : ReaderStep(t) \/ List(t) \/ \E r \in Runs : Get(t, r)
  \/ Restart

Spec == Init /\ [][Next]_vars

\* Assumed: a run comes to its end (AgentLoop!Terminates, and what that assumes of tools).
\* The run list is open: it polls for the newest runs, and again and again a thread of the
\* pool is free for it (RunsPage.tsx:26-35, which names no limit).
FairSpec ==
  /\ Spec
  /\ WF_vars(\E r \in Runs : TaskStep(r))
  /\ \A t \in Readers : WF_vars(ReaderStep(t))
  /\ SF_vars(\E t \in Readers : Limit[t] = DefaultLimit /\ List(t))

-----------------------------------------------------------------------------
(* Properties *)

\* Every variable has its type.
TypeOK ==
  /\ meta \in [Runs -> {"none", "running"} \cup Final]
  /\ registry \in [Runs -> {"none", "live", "finished"}]
  /\ task \in [Runs -> Stages]
  /\ todo \in [Readers -> SUBSET Runs]
  /\ found \in [Readers -> SUBSET Runs]
  /\ running \in [Readers -> SUBSET Runs]
  /\ missing \in [Readers -> Runs \cup {None}]
  /\ raced \subseteq Runs /\ lost \subseteq Runs
  /\ restarts \in 0..MaxRestarts
  /\ faults \in 0..MaxFaults

\* A final state on disk is never revised, however long a reader holds on to what it read
\* and whatever fails or crashes - except for a run that a reader looked up while start was
\* between store.create and registry.create (service.py:113-115, 205-229).
FinalUnlessRaced ==
  [][\A r \in Runs : meta[r] \in Final /\ meta'[r] # meta[r] => r \in raced]_vars

\* The task of a run that has ended has recorded how: one failed write, that of the
\* outcome, is made good by the except block, and only the failure of its own write leaves
\* the run on running (service.py:152-159).
EndedIsRecorded ==
  \A r \in Runs : task[r] \in {"ending", "done"} /\ meta[r] = "running" => r \in lost

\* An orphan that the run list does not show: there are too many newer runs on disk.
Unlisted(r) ==
  /\ task[r] = "dead"
  /\ r \notin Newest({q \in Runs : meta[q] # "none"}, DefaultLimit)

\* A run does not stay on running, whether it returns, raises, or its process dies, unless
\* its outcome could not be written and the process lives on, or it is an orphan that has
\* dropped out of the run list before the list was read (store.py:170); that one is
\* corrected only when somebody opens it.
RunsSettle ==
  \A r \in Runs :
    meta[r] = "running" ~>
      \/ meta[r] # "running"
      \/ r \in lost /\ task[r] \in {"ending", "done"}
      \/ Unlisted(r)

\* A live run is finished, which is what ends the streams of its viewers, even when its
\* outcome cannot be written (service.py:160-161).
LiveEnds == \A r \in Runs : registry[r] = "live" ~> registry[r] # "live"

\* What FinalUnlessRaced rests on.
RegisteredTasks ==
  \A r \in Runs :
    /\ registry[r] = "none" <=> task[r] \in {"none", "starting", "refused", "dead"}
    /\ task[r] \in {"none", "refused"} => meta[r] = "none"

FinalIsEarned ==
  \A r \in Runs : meta[r] \in Final /\ r \notin raced => task[r] \in {"ending", "done", "dead"}

\* What a reader holds on to: a run it read as running was started, and one it did not find
\* is an orphan with nothing recorded - or it was looked up too early.
ReadersHold ==
  \A t \in Readers :
    /\ \A r \in running[t] :
         /\ task[r] \notin {"none", "refused"}
         /\ task[r] = "dead" => meta[r] \in {"running", "abandoned"}
    /\ missing[t] # None =>
         /\ task[missing[t]] \notin {"none", "refused"}
         /\ missing[t] \notin raced =>
              task[missing[t]] = "dead" /\ meta[missing[t]] \in {"running", "abandoned"}

\* The inductive invariant: registry and task agree, nothing is final before its task is,
\* and no reader is about to abandon anything but an orphan or a raced run.
RecordInv == RegisteredTasks /\ FinalIsEarned /\ ReadersHold

=============================================================================
