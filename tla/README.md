# Verification of Agent Hive

TLA+ models of the backend of Agent Hive (`src/backend/hive`), their TLC runs
and TLAPS proofs. Agent Hive runs a language model as an agent in a Docker
sandbox under a budget, journals every step, shows the run live in a browser,
checks the result and records the outcome. Paths below are relative to
`src/backend/hive` unless they start with `src/`.

## The system

### Components, their state and their operations

| Component | State | Operations |
|---|---|---|
| Agent loop (`harness/agent.py`, `events.py`, `messages.py`) | the conversation, the count of failed iterations | `run`, `_run_tools`, `_finish` |
| Budget (`harness/budget.py`) | iterations, tokens, cost, start time | `start_iteration`, `record`, `snapshot` |
| Tools (`harness/tools.py`, `sandbox/tools.py`) | none after construction | `invoke` |
| Providers (`harness/providers/`) | an HTTP client; a script position in the mock | `complete`, `aclose` |
| Run assembly (`harness/runner.py`) | none of its own | `execute_run`: sandbox, starter files, network, agent, checks, teardown |
| Sandbox (`sandbox/docker_sandbox.py`) | a container, its networks | `create`, `exec`, `start_background`, `attach_network`, `detach_network`, files, `destroy` |
| Checks (`checks/runner.py`, `playwright_runner.py`) | the report, the ports served | `run_checks` |
| Journal store (`journal/store.py`) | `meta.json` and `journal.jsonl` of every run | `create`, `write_meta`, `append`, `read_meta`, `read_events`, `list_runs` |
| Sink and live registry (`journal/sink.py`, `registry.py`) | events in memory, subscriber queues, `finished` | `emit`, `publish`, `finish`, `subscribe`, `stream` |
| Run service (`runs/service.py`) | the tasks of the process | `start`, `_execute`, `_finalise`, `get`, `list_runs`, `_reconcile`, `events`, `stream` |
| HTTP API (`api/`) | none | sync endpoints in a thread pool, async ones and the WebSocket on the event loop |
| Templates (`templates/`) | YAML files | `load`, `starter_files`, `spec_source` |
| Catalog (`catalog/`) | snapshots on disk, a cache | `current`, `sync`, `load`, query and capability functions |
| Browser client (`src/frontend/src/features/runs`) | events seen, connection, polled summary | backfill, socket, polling |
| CLI, demo scripts | none | the same services from a terminal |

### How they interact

`POST /runs` calls `RunService.start`, which writes `meta.json`, registers a
`LiveRun` and creates a task. The task calls `execute_run`, which creates the
sandbox and runs the `Agent`. The agent calls the provider and the tools and
emits events into a `JournalSink`, which appends each to `journal.jsonl` and
publishes it to the queues of the subscribers. At the end `_finalise` rewrites
`meta.json`, and `registry.finish` puts a sentinel into every queue.

The event loop runs one handler at a time: a task or a WebSocket handler is
interleaved with others only where it awaits. The sync endpoints are different:
they run in threads, between any two bytecodes of everything else, and share
the files and the registry with it.

### What is hard about it

- *Interleaving*: late joiners against a run that emits; reader threads against
  `start` and `_execute`; several writers of one file.
- *Failure*: a write that fails in the sink, in `_finalise`, in the `except`
  block; a crash in the middle of a line, or between a write and a rename; a
  provider, tool or check that raises.
- *Bounds*: a subscriber queue at its limit, a budget reached by the answer that
  exceeds it.
- *Ends*: every stream, every run and every `running` entry has to end.

`PROJECT.json` lists these hazards one by one, each at its line.

### What makes each component correct

- Stream: a viewer receives the events of the run from the one it asked for, in
  order, without gap or duplicate, nothing that is not on disk; a stream that
  ends regularly is complete; and it ends.
- Run service: a run's final state is written once and not revised; a run does
  not stay on `running`; only orphans are reported as abandoned.
- Store: a reader sees a complete `meta.json`; reading the journal gives what
  was appended, but for a torn last line.
- Agent loop: no call beyond a limit; the overshoot is one answer; the
  conversation answers every tool call; the rip cord is exact; it ends.
- Checks: every check is accounted for once; a check is skipped only for a
  reason; a report that passes has run what is required.
- Assembly and sandbox: the check phase has no internet; the browser reaches the
  application; what stays at the daemon after a run, and what it refuses, has a
  cause; the sandbox is torn down whatever raises.
- Provider: nothing good is thrown away, a call is booked once, only what may
  pass is tried again, the time of a call is bounded by its attempts and the
  progress they make, tool calls can be told apart.
- Catalog: a snapshot on disk is complete and stays as it is; what is served is
  on disk and not older than what this process stored; a listing is right.
- Browser client: the view has no gaps; a view labelled finished is complete; the
  view comes to rest on the final summary, and on nothing before it.

## The modules

| Module | Models | Composition |
|---|---|---|
| `EventStream` | what a viewer of a run is promised | abstract |
| `LiveStream` | sink, registry, queues, WebSocket handlers, restart | implements `EventStream` |
| `RunService` | metadata, registry, task of each run, reader threads, restart, failing writes | |
| `AtomicFile` | a register that is written and read in one step | abstract |
| `MetaFile` | `write_meta` and `read_meta` as file operations | implements `AtomicFile` |
| `JournalFile` | the bytes of `journal.jsonl` and reading them back | proved together with `MetaFile` |
| `AgentLoop` | agent, budget, tool results | |
| `Template` | the list of checks and the network mode of a run, and when they are consistent | extended by `Checks` and `Sandbox` |
| `Checks` | `run_checks` over the valid lists of checks | `Template` |
| `Sandbox` | the Docker resources of one run: containers, network, what is connected to what | `Template` |
| `RunAssembly` | `execute_run` from create to destroy | takes its steps with those of `Sandbox` and `Checks` |
| `OpenRouter` | the provider's requests, retries and answers | |
| `CatalogQuery` | prices, capabilities, filters, order, pages as operators | extended by `Catalog` |
| `Catalog` | snapshots and caches of several processes, sync, listings | `CatalogQuery` |
| `RunClient` | the browser's view of a run: page, poll and socket | its stream is `EventStream` |

`MC<module>` instantiates a module for TLC; `<module>Proofs` holds its theorems.
Operators named `Faulty...` are plausible mistakes in the operator that follows
them. No specification uses them; with one of them in place of the real
operator, TLC finds the property named in `PROJECT.json` violated.

### EventStream and LiveStream

An event is its sequence number. `sink`, `journal` and `events` are the three
places `emit` puts it: `JournalSink.events`, the file, `LiveRun.events`. They
differ once an append has failed (`EmitFails`). Per viewer, `stage` says in
which await its handler is suspended, `snapshot` and `cursor` are the list it
walks through, `queue` is its `asyncio.Queue` and `lastSent` the local
`last_sent`. `ConnectLive` is `RunRegistry.stream` up to its first `yield`:
subscribing and copying the list is one step, as there is no await between them.
`SendBacklog`, `EndBacklog`, `TakeEvent`, `TakeSentinel` are its parts from one
await to the next; `ConnectReplay` and `EndReplay` serve a run of an earlier
process from the file. `Vanish` is the client going away, `Finalise` the
unsubscription in the generator's `finally`. `Restart` empties the registry.

`EventStream` knows of viewers only what they asked for, what they have and
whether they were told the stream is over. `LiveStream` implements it.

### RunService

`meta` is the status in `meta.json` (with `failed` split by its `stop_reason`
into `error` and `abandoned`), `registry` the entry of the process, `task` the
position in `start` and `_execute`. Runs are numbers, in the order in which they
were started. Between two awaits the event loop runs
nothing else (`Turn`), but threads do: so `start` is two steps, `StartCreate` and
`StartRegister`, and `_execute` is the return of `execute_run` with the write of
`_finalise`, the `except` block and the `finally` block. A reader thread
reads the metadata, looks into the registry, and
writes `abandoned`, each a step of its own. A request for one run (`Get`) has one
to read; a list reads every run there is (`todo`), collects those it finds
(`found`), and reconciles the newest of them (`Newest`), as many as it was asked
for (`Limit`). `WriteFails` lets any write raise.
The ghost variables `raced` and `lost` record the two situations in which the
code cannot keep its promise; they guard no action.

### AtomicFile and MetaFile

A name is bound to an inode; `Open` truncates the file that the temporary name
is bound to, `Write` fills it, `Rename` moves the name. A reader that has opened
`meta.json` keeps its inode. `WriteError` leaves an incomplete temporary file
behind, `Crash` stops every writer where it is. There may be any number of
writers, which share the temporary name: the task of a run and the threads that
reconcile it do. Two writes at the same time may truncate, mix and publish each
other's file. The history variable `overlapped` holds the files which were opened
while another write was under way, until one is opened by a lone writer again; it
guards no action. What the module promises is about all other files, whatever
others did before or do meanwhile. `AtomicFile` has a value and writes it in one
step; the mapping reads it through the name, and sees `Spoiled` in a file that is
`overlapped`.

### JournalFile

The file is a sequence of bytes, as far as decoding, `splitlines` and the JSON
parser tell them apart. Its names begin with `J` (`JInit`, `JNext`, `JSpec`,
`JTypeOK`), as one module of proofs, that of the store, extends it and `MetaFile`.
`AppendTorn` writes a proper prefix of a line and is the
last thing that happens. `Decodes`, `Lines`, `IsEvent` and `ReadEvents` are
`read_events`.

### AgentLoop

A step runs from one await to the next. An answer of the model is its usage, the
cost the provider reports or does not, and how many tool calls it holds; a tool
result is whether it succeeded (`ToolRegistry.invoke` never raises). `log` holds
the emitted events, `messages` the conversation. `Raise` is any exception but
`ProviderError`, and the cancellation of the task.

### Template and Checks

`Template` holds what a run is given and never changes: `checks` and `mode`, any
that its validator lets pass (`Valid`). Its parts that only one module looks at
are there: `needs` and `internet` in `RunAssembly`. A step of `Checks` is one
check: run with either result, skipped, or raising (`Raise`: the network
cannot be attached, the checker not created). `served` keeps the ports whose
last serve check passed. The names `ChecksInit`, `ChecksNext`, `ChecksSpec` leave
room for the module that extends it.

### Sandbox and RunAssembly

`thread` is where the thread of `_create_blocking` is, for the sandbox and for
the container of the browser check: it is interleaved with the task and goes on
when the task awaiting it is cancelled (`CancelCreate`, `CancelChecker`). The
operations of the object - `Attach`, `Detach`, `Remove`, `RemoveNetwork` - are
calls of the daemon, at most `MaxFaults` of which fail; what the daemon refuses
by its own rules (`Refused`) is not counted. `failed` is a history of both.

`RunAssembly` walks through `execute_run`: `pc` is the await it is at, `raised`
that an exception is on its way out through the `finally` blocks. It extends
`Checks` and shares its variables: in the check phase its steps are those of
`Checks` conjoined with what they do to networks and containers, outside of it
`report` stays. So what is proved of reports in `Checks` holds here by
construction; it is used (lemma `RunIsChecks`), and claimed as no result of its
own. `needs` are the command checks that ask for a network, `internet` is
`agent_internet`; a template is one that `_validate_consistency` lets pass.

### OpenRouter

A request is a pair of call and attempt. The client (`pc`, `attempt`) and the
server take turns: the server serves a request at any time after it was posted,
also when its sender has given up, or never; it bills what it has generated, and
may bill a request that it answers with an error. `httpx` bounds each connection,
write and read by its time-out, not the request: whenever a part is through
(`Progress`), waiting starts afresh. An answer is the class the code puts it in. `ReceiveStatus`, `ReceiveUnusable`, `ReceiveAnswer` and
`_parse_tool_calls` (`ParseToolCalls`, with the ids it makes up) are the rest of
`complete`; `booked` is what `BudgetTracker.record` will see.

### CatalogQuery and Catalog

`CatalogQuery` has no state: what a listing makes of a list of models, from the
prices as OpenRouter sends them to the page that is returned. A list that is
filtered or sorted is its elements at some positions, each where the number of
those before it says (`Ordered`). `Catalog` is who
serves it: `Open`, `Write`, `Rename` (or `WriteError`) are the three file
operations of a `save`, the file being named after the second `now` and the
temporary file shared by all that save in it; `FindNoCache`, `Load`, `Store` are
`current` in a worker thread. Several processes share the directory and nothing
else. A sync that finds its temporary file renamed writes into the file itself
(`target`).

### RunClient

The server side is `EventStream` with one viewer, the promise `LiveStream` keeps,
with the two endpoints that look at the run twice (`ReadPage`, `AskPageLive`;
`ReadPoll`, `AskPollLive`). On the client's side, `TakePage`, `TakePoll`,
`OnOpen`, `OnMessage` and `OnClose` are the callbacks; `FollowLive` and `Settle`
are the effects that run with the poll's answer. `data` is the summary on the
screen, `failed` that "Run not found" is shown in its place; a poll that fails is
repeated or given up. `RefetchOnClose` is the effect of the view becoming
closed: it asks once more, also when the view has settled, and drops a poll under
way. `registered` is the entry in the server's registry, which keeps a run whose
outcome could not be written on `running`, and which a crash removes, during the
run or after it. Page, poll and socket overtake each other freely.

## The runs

| Run | Question | Bounds |
|---|---|---|
| `live_stream` | Does every viewer get the journal in order; does the code implement `EventStream`; is a viewer that keeps up released at the end? | 2 viewers joining at the start or after event 1, queue of 2, 4 events, 1 failing append, 1 restart |
| `run_service` | Are outcomes recorded and final states kept; does every run settle? | 2 runs, a run list that shows 1 and a client that asks for 2, 1 restart, 1 failing write |
| `meta_file` | Is `meta.json` atomic, but for files on which two writes overlapped? | 2 values, 2 writers, 1 reader, 5 inodes, 2 crashes |
| `journal_file` | Is what was appended read back? | 3 events, texts of up to 2 characters of 3 kinds, every cut |
| `replay_is_journal` | A promise the code breaks | 2 events |
| `agent_loop` | Limits, figures and log, conversation, rip cord, termination | 3 iterations, 4 tokens, cost 7, 2 time units, 2 calls per answer, 2 kinds of answer, rip cord at 2 |
| `checks` | Report and skipping | every valid list of up to 4 checks on 2 ports |
| `passed_ran_required` | A promise the code breaks | lists of up to 2 checks on 1 port |
| `run_assembly` | What outlives a run, who is on the internet, what is refused, does the browser reach the application, is the sandbox torn down? | every valid list of up to 3 checks on 1 port, every network mode, 2 failing calls of the daemon, a cancellation, a crash |
| `provider_retry` | What is billed and booked, how long a call takes, can its tool calls be told apart, does it end? | 2 calls of up to 3 requests (the default), time-out of 2, progress 2 times in a call, answers of up to 2 tool calls with 2 ids |
| `catalog` | Are snapshots immutable, is what is served stored and current, are listings right? | a server and the command line, 2 syncs, 1 listing thread, 2 seconds, 2 lists of models, the criteria of `MCCatalog` |
| `run_client` | Is the view without gaps, complete when it says so, and does it come to rest on the final summary? | 3 events, 1 failing request, a crash during the run or after it |

Why these bounds are enough. A queue of two overflows, is exactly full and has
room within four events, and a snapshot and a queue of two can overlap, touch
and leave a gap; viewers interact only through the run, so a second one shows
what there is to show. Two readers can hold a stale result of the same run; a list of
one of two runs leaves an orphan out, and a later list of two shows it; one
failing write is that of the outcome, of the error, of a start or of a
reconciliation. Five inodes are those of two
names, of two writers that have theirs open still, and of a reader that holds an
older one; values, writers and inodes are interchangeable, and no property of that
run is about liveness, so symmetry is sound. A rip cord of two is pulled, missed
by one and reset within three iterations; limits of four and seven are reached
exactly and overshot by the two kinds of answers. Two ports and four checks give
a server replaced by a failed one before a browser check, with a required check
in any place. Three checks on one port are a server, a command that goes online
and a browser check after it, in any order; two failing calls are a disconnect
and the attach that is refused for it, or a removal and another one. Three
requests are one whose answer is late, one that is refused and one that is
answered, with progress before one of them or two; a second call shows that nothing
of the first is left. Two syncs in two
seconds share one or do not, and either is before, during or after the load of a
listing. Of three events the page, the socket and neither can each have one.
Numbers are small in place of large: the code compares and adds
them, nothing overflows in Python.

`CHECK_DEADLOCK FALSE` is set where the system stops: a run that has ended with
all viewers served, a loop that returned, a report that is written, a journal
that is complete, a sandbox torn down, the last call of a provider answered, a
view that has settled. `RunService`, `MetaFile` and `Catalog` never stop.

The type invariants and the inductive invariants are not run: they are proved.
Some types are a conjunct of a property that is run and proved
(`ReadsWhatWasWritten`, `WaitIsBounded`, `CallsAreTheModels`).

### Fairness

- `LiveStream!FairSpec`: a handler that can run is run by the event loop (weak
  fairness of `HandlerStep`). A client that stops reading for good is cut off by
  the server's ping timeout; `Vanish` is that, and needs no fairness. Nothing is
  assumed of the run itself.
- `RunService!FairSpec`: weak fairness of the tasks, on the assumption that
  `execute_run` comes back, and of each reader that is at work; strong fairness of
  a `List` with the default limit, because the run list polls every three seconds
  and names no limit (`src/frontend/src/features/runs/RunsPage.tsx:26-35`). Nobody
  is assumed to open a single run, or to ask for a longer list. Without somebody
  who reads, an orphan stays on `running`: the code corrects on read.
- `AgentLoop!FairSpec`: model and tool calls come back. This is an assumption.
  The code bounds the silence of a model call (`httpx`, 180 s) and puts the first
  command of a tool's command line under `timeout`
  (`sandbox/docker_sandbox.py:212`); in `a && b` the second is not bounded, and
  the wall-clock limit is looked at between iterations only.

- `RunAssembly!FairSpec`: the task and a thread that can go on do (weak fairness
  of `TaskStep` and `Thread`): the daemon, the agent and the commands come back.
- `OpenRouter!FairSpec`: weak fairness of `~KeptBusy /\ ClientStep` alone: that a
  request without progress is given up is the time-out of `httpx`, a step of the
  client. A server that keeps a request going, a part at a time, is never timed
  out; the bound `MaxProgress` stands for it (`KeptBusy`), and there nothing is
  assumed.
- `RunClient!FairSpec`: the timer of the poll fires and a request is answered or
  fails (weak fairness of `PollStep \/ LosePoll`), and only `MaxFaults` fail.
  Nothing is assumed of the run, the server's writes, the page or the socket.
- `Catalog` has no liveness: nothing in it has to happen.

### Disagreements found

Each is a run whose one property, a sentence of the code or of its
documentation, TLC refutes.

| Run | The text | What happens |
|---|---|---|
| `replay_is_journal` | "watching and replaying the same thing" (`src/README.md:115`) | `splitlines` splits at U+2028 |
| `passed_ran_required` | "here it surfaces immediately" (`templates/models.py:153`) | a required browser check is skipped and the report passes |

The others show as exceptions that a property has to make, and no run of their
own is spent on them.

Stream and client:

- A viewer that is still in its snapshot when the run ends gets `stream_closed`
  without the queued events (`CutShort` in `FinishedIsComplete`, against "nothing
  emitted in between is lost", `journal/registry.py:97`).
- A viewer whose queue overflows, or is exactly full when the run finishes, is
  not disconnected: its queue is dropped, or never gets the sentinel, and its
  handler waits for ever (`Dropped` in `FollowersAreReleased`, against
  `src/README.md:120` and `journal/registry.py:116`).
- A page of events that was read before the run ended, and whose `live` was read
  after, is taken for the whole run (`torn` in `FinishedIsComplete`,
  `api/routes/runs.py:138`).
- A poll that overtakes the socket closes it with events still on their way. They
  are lost to the view, which is then not labelled finished.
- The refetch when the view becomes closed is not held back by the view having
  settled. When it fails, "Run not found" replaces a run that was shown
  (`failed` in `AtRest`, `frontend/src/features/runs/RunDetail.tsx:50-56`).
- A run whose outcome could not be written is polled for as long as the process
  lives (`LeftRunning` in `RunSettles`, `runs/service.py:219-222`).

Run service and store:

- A run is abandoned when it is looked up between the two steps of `start`
  (`raced` in `FinalUnlessRaced`, against "without a live task",
  `runs/service.py:213`).
- A run whose error cannot be written stays on `running` as long as the process
  lives, as its registry entry keeps it from being reconciled (`lost` in
  `RunsSettle`, against `runs/service.py:153`).
- An orphan is corrected by the run list only while it is among the newest 50
  (`Unlisted` in `RunsSettle`, `journal/store.py:170`, against "stuck on running
  forever", `runs/service.py:216`); an older one stays on `running` until somebody
  opens it.
- Two writers share `meta.partial`, and one may publish what the other has
  truncated (`overlapped` in `MetaIsSettled`, against "must never catch a
  half-written meta file", `journal/store.py:108`). The damage is confined to the
  files on which two writes overlapped, and gone with the next lone write.
- A journal cut inside a multi-byte character does not decode, which costs the
  whole run and not one event (`TornLineCostsOneEvent` is about ASCII texts,
  against `journal/store.py:13`).

Harness:

- The tool calls of an answer that has exceeded a limit are still executed
  (against `harness/budget.py:3`).
- A start that fails leaves the network, and perhaps the container, behind; a
  cancelled `create` leaves both (`LeftoversHaveACause`,
  `sandbox/docker_sandbox.py:387-398`).
- A disconnect that fails is suppressed: the sandbox keeps the bridge in the check
  phase (`ChecksAreOffline`, against `harness/runner.py:149-151`), and the next
  attach is refused.
- `agent_internet` and `needs_network` are accepted for a sandbox that is on the
  bridge by its mode, where attaching it once more is refused at run time
  (`RefusalsHaveACause`, `templates/models.py:168`).
- A request that timed out may be served and billed; no budget sees it
  (`UnbookedHasACause`), nor of one that is answered with an error and billed.
- The time-out of 180 seconds bounds the silence of the server, not the request: a
  server that trickles holds a call, and with it the run, for as long as it likes
  (`KeptBusy` in `CallsEnd`, `progress` in `WaitIsBounded`,
  `harness/providers/openrouter.py:89`).
- An answer whose parts have other types than expected
  raises something that is no `ProviderError`.
- A made-up id `call_<n>` may equal one the model has given (`Unambiguous` in
  `CallsAreTheModels`).

Catalog:

- A thread that was loading when a sync stored its snapshot puts the older one
  back into the cache, until the next sync (`overtaken` in `SyncedIsServed`,
  `catalog/service.py:47`).
- Two syncs in one second share the file and the temporary file (`Shared` in
  `SnapshotsStay` and `ServedIsStored`, against "Snapshots are immutable",
  `catalog/store.py:3-5`).

## The proofs

TLAPS proves, for every value of the constants that satisfies the assumptions of
the modules:

- **`LiveStreamProofs`** — `TypeCorrect`, `StreamInvariant`, `StreamHasNoGaps`,
  `StreamIsJournalled`, `SentinelIsComplete`, `ReplayIsWhole`,
  `StreamImplementsEventStream`. `NoGaps` is not inductive: that the
  next event sent is the right one depends on what snapshot and queue hold.
  `StreamInv` says so: what a viewer has received ends at `lastSent`; the
  snapshot is a prefix of the events and the cursor stands where `lastSent` says;
  the queue holds consecutive events, beginning at or before the next one, ending
  at the newest as long as the viewer is subscribed, and the sentinel only at the
  end of a run that has finished. `EndInv` adds what a viewer knows that has been
  told the end. For the refinement each handler step is mapped to what it does in
  `EventStream` (`Image` of the stages, `Sealed` for the end of the stream) or to a
  stutter, one lemma per action.
- **`RunServiceProofs`** — `ServiceInvariant`, `FinalStates`, `OutcomeRecorded`.
  That a reader's late write does no harm rests on what it can have seen:
  `RecordInv` says that a registry entry exists from `StartRegister` until the
  process dies, that nothing is final before its task is at its end, and that a
  reader that missed a run in the registry holds an orphan or a raced run.
- **`JournalStoreProofs`**, for both files of the store.
  - `meta.json`: `MetaSettled`, `MetaFileIsAtomic`, both for any number of writers,
    the second as a refinement: `Rename` is the abstract write, everything else a
    read or a stutter. `FileInv` is needed to know that a writer on whose file no
    other write has come is the only one under way, that what it renames is the
    value it was to write, and that nobody still has the file open; and that the
    temporary file is neither `meta.json` nor open to a reader
    (`PartialIsApart`), which holds whatever writes overlapped.
  - `journal.jsonl`: `JournalInvariant`, `ReadBackIsWritten`,
    `TornLinesCostOneEvent`. `JournalInv` says of the bytes where lines are: an
    opening brace begins the line of an event or the torn one, and every event but
    a torn one has its line, between line ends. So a piece that parses, and begins
    with a brace and ends with one, is a whole line (`ReadIsWritten`), wherever
    `splitlines` cuts; and the line of an event of ASCII text is a piece
    (`WrittenIsRead`).
- **`AgentLoopProofs`** — `LoopTypeCorrect`, `OvershootBounded`,
  `CallsStayInTheBudget`, `RunFinishedIsLast`, `EveryCallIsAnswered`,
  `RipCordExact`, `LoopIsFinite`. What the log shows as used and paid are prefix sums over it
  (`Sums`), which exist and are extended by an event, by induction. Four
  invariants relate log and loop: `LoopInv` the last answer and the overshoot,
  `LedgerInv` the counters of the tracker and the sums, `TalkInv` the messages and
  the answer whose calls are being made, `CordInv` the counter of failures and the
  last iterations of the log.
- **`RunAssemblyProofs`**, for the modules it extends, `Checks` and `RunAssembly`.
  - The check phase: `ReportsAreComplete` and `SkipsHaveAReason` are theorems of
    `ChecksSpec`. That a skip has a reason needs that `served` holds the ports
    whose last serve check passed (`ServedInv`), and that a failure found once
    stays. `PassedRanRequiredOtherwise` is the other side of the finding about
    `passed_ran_required`: the sentence does hold for a template in which the last
    server before a required browser check is there and required itself
    (`ServersRequired`).
  - The whole run: its steps are those of `Checks` by construction (`RunIsChecks`), so
    the theorems about reports carry over (`RunReports`).
  - The resources: `AssemblyTypeCorrect`, `LeftoversAreExplained`,
    `BrowserReachesTheApplication`, `ChecksSeeNoInternet`, `RefusalsAreExplained`.
    `ChecksAreOffline` is inductive by itself. The rest needs `Inv`: a thread runs
    only while the task waits for it or was cancelled (`ThreadInv`), so a container,
    the network and what is connected to it each has a cause, is answered for by
    the task, or is about to be (`ContainerInv`, `NetworkInv`, `LinkInv`); and the
    network stays as long as the browser needs it (`SharedInv`).
  - The end: `RunsAreFinite`, `AwaitedThreadsLive`.
- **`OpenRouterProofs`** — `RetryInvariant`, `RetriesAreJustified`,
  `NothingGoodIsLost`, `CallsAreBookedOnce`, `WaitsAreBounded`, `CallsAreParsed`,
  `ClientIsFinite`.
  `RetryInv` says of every request what may be known of it, and that a call that
  was answered has booked one; that it is only one, and the last, follows from
  retries being justified: a booked request is not transient. `ClockInv` bounds the
  time when a request is posted and when it is done with, by the attempts and the
  progress so far; that the waits double (`Pow2`) is an induction. `AnswerInv` says where the calls come from; that the
  n-th is the n-th entry with a name is a fact about ranks in finite sets.
- **`RunClientProofs`** — `ClientTypeCorrect`, `NoGapsInView`,
  `FinishedMeansComplete`, `SettledStaysFinal`. The invariant says that the socket
  was opened from what was shown, and that what it has delivered is shown
  (`ShownInv`); so a message adds the next event or one that is there already, and
  the page a prefix. For `SettledStaysFinal` it says of a poll under way that what
  it has read as final and not live stays so, and of one asked for after the view
  settled that it can read nothing else: a run that is sealed and was final once
  is recorded or has lost its registry entry, and neither is undone. The server's
  steps are those of `EventStream` by construction (`StepsOfStream`), which is what
  `StreamImplementsEventStream` shows the code to be.
- **`CatalogProofs`** — `CatalogTypeCorrect`, `SnapshotsAreImmutable`,
  `ServedSnapshotIsStored`, `SyncedSnapshotIsServed`, `ListingsAreRight`. `SaveInv`
  follows the one sync that saves in a second through its file operations,
  `HeldInv` says that what caches and threads hold is on disk, `SyncedInv` that a
  cache which was not overtaken holds the last sync. That a newest snapshot exists
  is proved by well-founded induction on the finite set of seconds.
  `ListingsAreRight` is about data: any strict total order puts the elements of a
  finite set at places that are a bijection and keep the order (`PlacesInOrder`,
  by counting predecessors), `sorted` is such an order (`SortOrders`), the keys of
  `_sort_value` say what the order of the values is (`KeysSayOrder`), and pages
  join to the whole (`PagesJoin`, by induction on the pages).

The assumptions are those the modules state about their constants
(`...Assumption`), which TLC evaluates in the runs: sizes are naturals, the values
that stand for nothing are none of the others, what validates as a model has
numbers where numbers are compared, `sort` is one of the keys.

Induction over the naturals goes through the least counterexample (`LeastElement`
from the well-foundedness of `<`), and a recursive function is known by its
equations, once a function that satisfies them is shown to exist.

### What liveness rests on

Every invariant, action property and refinement of a passing run is stated by a
theorem. Model-checked only are the liveness properties, with their fairness,
which are out of the prover's reach: `FollowersAreReleased`, `RunsSettle`,
`LiveEnds`, `Terminates`, `TornDown`, `CallsEnd`, `RunSettles`. The two promises
the code breaks have counterexamples.

Of four of them the part that fairness has nothing to do with is proved, for every
value of the constants:

| Property | Theorem | What it says |
|---|---|---|
| `Terminates` | `LoopIsFinite` | `StepsLeft` is a natural number that every step makes smaller: a run takes at most `MaxIterations * (MaxCalls + 3) + 2` steps, whatever the model answers |
| `TornDown` | `RunsAreFinite` | so does `Left`: at most `7 * Len(checks) + 21` steps of the task, its threads and the operating system; with `AwaitedThreadsLive`, the task waits for no thread that is gone |
| `CallsEnd` | `ClientIsFinite` | so does `ClientLeft` with every step of the client, and no other step, progress included, adds to it: at most `MaxCalls * (2 * MaxRetries + 1)` |
| `RunSettles` | `SettledStaysFinal` | a view that has settled has the final summary of a run that is over, and no refetch or restart of the server makes it live or running again |

What remains of the first three is that a step can be taken (`ENABLED`) and is
(fairness). The other three have no bound of this kind: what they wait for is done
by somebody else, a task that comes back, a reader of the run list, or a viewer
that goes on taking events, while others go on as they like.

## Not modelled

- Prices that are no numbers: `Decimal` takes `"Infinity"`, and `"NaN"` raises in
  `_to_decimal` (`catalog/models.py:39`) what the callers do not expect.
- Text: prompts, schemas of tool arguments, formatting, path normalisation,
  truncation, the generated Playwright files, the request body and the figures of
  a provider's answer, everything in the CLI and the presentation in the frontend.
- The time commands take: what a command does is an outcome, and that it comes
  back an assumption, although `timeout` bounds only the first part of a compound
  command (`sandbox/docker_sandbox.py:212`).
- Cancellation of a run elsewhere than while a container is created: there it
  takes the way of any other exception. Errors of the transport below the Docker
  client that are not a `DockerException`.
- Templates that are edited while a run uses them; a browser that changes to
  another run, and React's StrictMode, which runs effects twice.
- `delete` of the store and `forget` of the registry: no caller. What forgetting
  a finished run would do is the mutant of `EndRun`.
- Lookups in `api/deps.py` (`lru_cache` may build a service twice when two
  threads are first).
- The mock provider, demo scripts, settings, wiring and the remaining endpoints:
  no state, or no logic of their own.

## Plan

Modelled in this order, and done: the stream; the run service and its files; the
agent loop; the checks; the run assembly with its sandbox; the provider; the
catalog; the browser client. What is left:

1. `RunService` composed with `LiveStream` and `RunClient`: the client sees the
   outcome that was written.
2. Proofs across modules: `LiveStream` put under `RunClient`, each of which is
   shown to be an `EventStream` by itself; `OpenRouter` as the model call of `AgentLoop`, so that the budget counts what was
   billed but for the causes named.
3. Compound commands under `timeout`, and the wall clock of the budget.
