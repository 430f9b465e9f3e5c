----------------------------- MODULE LiveStream -----------------------------
(***************************************************************************)
(* The event stream of one run: journal/sink.py records and publishes,     *)
(* journal/registry.py fans out to bounded subscriber queues, and each     *)
(* WebSocket handler (runs/service.py, api/routes/runs.py) sends a         *)
(* snapshot and then drains its queue.  Everything here runs on the event  *)
(* loop, so a handler is interleaved with the run only where it awaits:    *)
(* in send_text and in queue.get.                                          *)
(*                                                                         *)
(* An event is represented by its sequence number, the only part of it the *)
(* stream looks at.                                                        *)
(***************************************************************************)
EXTENDS Integers, Sequences

CONSTANTS Viewers,      \* WebSocket clients, each connecting once
          AfterValues,  \* values of the ?after= query parameter
          QueueSize,    \* SUBSCRIBER_QUEUE_SIZE
          MaxEvents,    \* bound on the events the run emits
          Sentinel      \* the None that ends a subscriber queue

ASSUME LiveStreamAssumption ==
  /\ AfterValues \subseteq Nat \cup {-1}
  /\ QueueSize \in Nat \ {0}
  /\ MaxEvents \in Nat
  /\ Sentinel \notin Nat

VARIABLES
  sink,         \* JournalSink.events
  journal,      \* the readable lines of journal.jsonl
  events,       \* LiveRun.events
  finished,     \* LiveRun.finished
  task,         \* the task running the agent: "running", "failing", "over", "killed"
  registered,   \* the registry of this process holds the run
  subscribers,  \* viewers whose queue is in LiveRun._subscribers
  stage,        \* where the viewer's handler is suspended
  connected,    \* the viewer's socket is open
  after,        \* the parsed ?after=
  snapshot,     \* list(live.events), or read_events() for a run of an earlier process
  cursor,       \* index of the next element of the snapshot
  queue,        \* the viewer's asyncio.Queue
  lastSent,     \* last_sent
  received      \* what arrived at the viewer, in order

runVars    == <<sink, journal, events, finished, task, registered>>
viewerVars == <<stage, connected, after, snapshot, cursor, queue, lastSent, received>>
vars       == <<runVars, subscribers, viewerVars>>

\* "backlog" and "replay": in send_text of a snapshot element (of the live run, of the
\* file); "live": in queue.get or send_text of a queued event; "aborting": left by an
\* exception, the generator not yet finalised; "closed": stream_closed was sent.
Stages == {"idle", "backlog", "live", "replay", "aborting", "aborted", "closed"}
Open   == {"backlog", "live", "replay"}

Init ==
  /\ sink = <<>> /\ journal = <<>> /\ events = <<>>
  /\ finished = FALSE
  /\ task = "running"
  /\ registered = TRUE
  /\ subscribers = {}
  /\ stage = [v \in Viewers |-> "idle"]
  /\ connected = [v \in Viewers |-> TRUE]
  /\ after = [v \in Viewers |-> -1]
  /\ snapshot = [v \in Viewers |-> <<>>]
  /\ cursor = [v \in Viewers |-> 1]
  /\ queue = [v \in Viewers |-> <<>>]
  /\ lastSent = [v \in Viewers |-> -1]
  /\ received = [v \in Viewers |-> <<>>]

-----------------------------------------------------------------------------
(* The run *)

HasRoom(v) == Len(queue[v]) < QueueSize

\* Fault: a full queue misses the event but stays subscribed.
FaultyPublish(e) ==
  /\ events' = Append(events, e)
  /\ queue' = [v \in Viewers |-> IF v \in subscribers /\ HasRoom(v)
                                 THEN Append(queue[v], e) ELSE queue[v]]
  /\ UNCHANGED subscribers

\* put_nowait to every subscriber; a full queue is dropped from the set.
Publish(e) ==
  /\ events' = Append(events, e)
  /\ queue' = [v \in Viewers |-> IF v \in subscribers /\ HasRoom(v)
                                 THEN Append(queue[v], e) ELSE queue[v]]
  /\ subscribers' = {v \in subscribers : HasRoom(v)}

Emit ==
  /\ task = "running"
  /\ Len(sink) < MaxEvents
  /\ sink' = Append(sink, Len(sink))
  /\ journal' = Append(journal, Len(sink))
  /\ Publish(Len(sink))
  /\ UNCHANGED <<finished, task, registered,
                 stage, connected, after, snapshot, cursor, lastSent, received>>

\* Fault: published before it is written.
FaultyEmitFails ==
  /\ task = "running"
  /\ Len(sink) < MaxEvents
  /\ sink' = Append(sink, Len(sink))
  /\ Publish(Len(sink))
  /\ task' = "failing"
  /\ UNCHANGED <<journal, finished, registered,
                 stage, connected, after, snapshot, cursor, lastSent, received>>

\* store.append raises: the event is in the sink only, nothing is published, and the
\* exception ends the run.
EmitFails ==
  /\ task = "running"
  /\ Len(sink) < MaxEvents
  /\ sink' = Append(sink, Len(sink))
  /\ task' = "failing"
  /\ UNCHANGED <<journal, events, finished, registered, subscribers, viewerVars>>

\* Fault: the sentinel also goes to queues that were dropped.
FaultyFinish ==
  /\ task \in {"running", "failing"}
  /\ task' = "over"
  /\ finished' = TRUE
  /\ queue' = [v \in Viewers |-> IF HasRoom(v) THEN Append(queue[v], Sentinel) ELSE queue[v]]
  /\ UNCHANGED <<sink, journal, events, registered, subscribers,
                 stage, connected, after, snapshot, cursor, lastSent, received>>

\* RunService._execute's finally: the sentinel goes to every subscriber with room.
Finish ==
  /\ task \in {"running", "failing"}
  /\ task' = "over"
  /\ finished' = TRUE
  /\ queue' = [v \in Viewers |-> IF v \in subscribers /\ HasRoom(v)
                                 THEN Append(queue[v], Sentinel) ELSE queue[v]]
  /\ UNCHANGED <<sink, journal, events, registered, subscribers,
                 stage, connected, after, snapshot, cursor, lastSent, received>>

\* The server process dies and is started again: the registry is empty, the journal stays.
Restart ==
  /\ registered
  /\ registered' = FALSE
  /\ task' = IF task = "over" THEN "over" ELSE "killed"
  /\ subscribers' = {}
  /\ stage' = [v \in Viewers |->
                 IF stage[v] \in Open \cup {"aborting"} THEN "aborted" ELSE stage[v]]
  /\ UNCHANGED <<sink, journal, events, finished,
                 connected, after, snapshot, cursor, queue, lastSent, received>>

-----------------------------------------------------------------------------
(* A viewer's handler *)

\* Fault: the filter is off by one.
FaultyUnsent(s, i, sent) == {k \in i..Len(s) : s[k] > sent + 1}

\* The elements of a snapshot the loop will still yield.
Unsent(s, i, sent) == {k \in i..Len(s) : s[k] > sent}

\* RunRegistry.stream up to its first await: subscribe, snapshot, and - when the
\* snapshot holds nothing for this viewer - the test of live.finished.
ConnectLive(v, a) ==
  /\ registered
  /\ stage[v] = "idle"
  /\ after' = [after EXCEPT ![v] = a]
  /\ lastSent' = [lastSent EXCEPT ![v] = a]
  /\ snapshot' = [snapshot EXCEPT ![v] = events]
  /\ IF Unsent(events, 1, a) # {}
     THEN /\ stage' = [stage EXCEPT ![v] = "backlog"]
          /\ subscribers' = subscribers \cup {v}
     ELSE IF finished
     THEN /\ stage' = [stage EXCEPT ![v] = "closed"]
          /\ UNCHANGED subscribers
     ELSE /\ stage' = [stage EXCEPT ![v] = "live"]
          /\ subscribers' = subscribers \cup {v}
  /\ UNCHANGED <<runVars, connected, cursor, queue, received>>

\* RunService.stream of a run this process did not start: the journal is read at once.
ConnectReplay(v, a) ==
  /\ ~registered
  /\ stage[v] = "idle"
  /\ after' = [after EXCEPT ![v] = a]
  /\ lastSent' = [lastSent EXCEPT ![v] = a]
  /\ snapshot' = [snapshot EXCEPT ![v] = journal]
  /\ stage' = [stage EXCEPT ![v] =
                 IF Unsent(journal, 1, a) # {} THEN "replay" ELSE "closed"]
  /\ UNCHANGED <<runVars, subscribers, connected, cursor, queue, received>>

\* send_text: it reaches the viewer, or raises when the socket is gone.
Send(v, e) ==
  IF connected[v]
  THEN /\ received' = [received EXCEPT ![v] = Append(@, e)]
       /\ lastSent' = [lastSent EXCEPT ![v] = e]
       /\ UNCHANGED stage
  ELSE /\ stage' = [stage EXCEPT ![v] = "aborting"]
       /\ UNCHANGED <<received, lastSent>>

SendBacklog(v) ==
  /\ stage[v] \in {"backlog", "replay"}
  /\ \E k \in Unsent(snapshot[v], cursor[v], lastSent[v]) :
       /\ \A j \in Unsent(snapshot[v], cursor[v], lastSent[v]) : k <= j
       /\ Send(v, snapshot[v][k])
       /\ cursor' = [cursor EXCEPT ![v] = k + 1]
  /\ UNCHANGED <<runVars, subscribers, connected, after, snapshot, queue>>

\* The generator returns (its finally unsubscribes) and stream_closed is sent.
Close(v) ==
  /\ subscribers' = subscribers \ {v}
  /\ stage' = [stage EXCEPT ![v] = IF connected[v] THEN "closed" ELSE "aborted"]

\* Fault: the queue is awaited although the run has finished.
FaultyEndBacklog(v) ==
  /\ stage[v] = "backlog"
  /\ Unsent(snapshot[v], cursor[v], lastSent[v]) = {}
  /\ stage' = [stage EXCEPT ![v] = "live"]
  /\ UNCHANGED <<runVars, subscribers,
                 connected, after, snapshot, cursor, queue, lastSent, received>>

\* After the snapshot: return at once when the run has finished, else drain the queue.
EndBacklog(v) ==
  /\ stage[v] = "backlog"
  /\ Unsent(snapshot[v], cursor[v], lastSent[v]) = {}
  /\ IF finished
     THEN Close(v)
     ELSE stage' = [stage EXCEPT ![v] = "live"] /\ UNCHANGED subscribers
  /\ UNCHANGED <<runVars, connected, after, snapshot, cursor, queue, lastSent, received>>

EndReplay(v) ==
  /\ stage[v] = "replay"
  /\ Unsent(snapshot[v], cursor[v], lastSent[v]) = {}
  /\ Close(v)
  /\ UNCHANGED <<runVars, connected, after, snapshot, cursor, queue, lastSent, received>>

\* Fault: queued events are sent without looking at last_sent.
FaultyTakeEvent(v) ==
  /\ stage[v] = "live"
  /\ queue[v] # <<>>
  /\ Head(queue[v]) # Sentinel
  /\ queue' = [queue EXCEPT ![v] = Tail(@)]
  /\ Send(v, Head(queue[v]))
  /\ UNCHANGED <<runVars, subscribers, connected, after, snapshot, cursor>>

\* queue.get: an event not yet sent is sent, one already sent is dropped.
TakeEvent(v) ==
  /\ stage[v] = "live"
  /\ queue[v] # <<>>
  /\ Head(queue[v]) # Sentinel
  /\ queue' = [queue EXCEPT ![v] = Tail(@)]
  /\ IF Head(queue[v]) > lastSent[v]
     THEN Send(v, Head(queue[v]))
     ELSE UNCHANGED <<stage, received, lastSent>>
  /\ UNCHANGED <<runVars, subscribers, connected, after, snapshot, cursor>>

TakeSentinel(v) ==
  /\ stage[v] = "live"
  /\ queue[v] # <<>>
  /\ Head(queue[v]) = Sentinel
  /\ queue' = [queue EXCEPT ![v] = Tail(@)]
  /\ Close(v)
  /\ UNCHANGED <<runVars, connected, after, snapshot, cursor, lastSent, received>>

\* The client's socket goes away; the handler learns of it at its next send.
Vanish(v) ==
  /\ stage[v] \in Open
  /\ connected[v]
  /\ connected' = [connected EXCEPT ![v] = FALSE]
  /\ UNCHANGED <<runVars, subscribers,
                 stage, after, snapshot, cursor, queue, lastSent, received>>

\* The event loop closes the abandoned generator: its finally unsubscribes.
Finalise(v) ==
  /\ stage[v] = "aborting"
  /\ stage' = [stage EXCEPT ![v] = "aborted"]
  /\ subscribers' = subscribers \ {v}
  /\ UNCHANGED <<runVars, connected, after, snapshot, cursor, queue, lastSent, received>>

-----------------------------------------------------------------------------

HandlerStep(v) ==
  \/ SendBacklog(v)
  \/ EndBacklog(v)
  \/ EndReplay(v)
  \/ TakeEvent(v)
  \/ TakeSentinel(v)
  \/ Finalise(v)

ViewerStep(v) ==
  \/ \E a \in AfterValues : ConnectLive(v, a) \/ ConnectReplay(v, a)
  \/ HandlerStep(v)
  \/ Vanish(v)

Next ==
  \/ Emit
  \/ EmitFails
  \/ Finish
  \/ Restart
  \/ \E v \in Viewers : ViewerStep(v)

Spec == Init /\ [][Next]_vars

\* A handler that can run is run by the event loop; a client that stops reading for good
\* is cut off by the server's ping timeout, which is Vanish.
FairSpec == Spec /\ \A v \in Viewers : WF_vars(HandlerStep(v))

-----------------------------------------------------------------------------
(* Properties *)

\* Every variable has its type, and no subscriber queue outgrows its bound.
TypeOK ==
  /\ sink \in Seq(Nat) /\ journal \in Seq(Nat) /\ events \in Seq(Nat)
  /\ finished \in BOOLEAN
  /\ task \in {"running", "failing", "over", "killed"}
  /\ registered \in BOOLEAN
  /\ subscribers \subseteq Viewers
  /\ stage \in [Viewers -> Stages]
  /\ connected \in [Viewers -> BOOLEAN]
  /\ after \in [Viewers -> Nat \cup {-1}]
  /\ snapshot \in [Viewers -> Seq(Nat)]
  /\ cursor \in [Viewers -> Nat \ {0}]
  /\ queue \in [Viewers -> Seq(Nat \cup {Sentinel})]
  /\ \A v \in Viewers : Len(queue[v]) <= QueueSize
  /\ lastSent \in [Viewers -> Nat \cup {-1}]
  /\ received \in [Viewers -> Seq(Nat)]

\* A viewer receives the run's events from the one after `after`, in order, with neither a
\* gap nor a duplicate, however its snapshot, its queue and the run interleave
\* (registry.py:3-9, test_runs_api.py:288).
NoGaps ==
  \A v \in Viewers : \A i \in 1..Len(received[v]) : received[v][i] = after[v] + i

\* Nothing is shown live that a replay would not show: an event is on disk before any
\* subscriber gets it (sink.py:29-35).
DeliveredIsJournalled ==
  \A v \in Viewers : \A i \in 1..Len(received[v]) :
    \E k \in 1..Len(journal) : journal[k] = received[v][i]

\* A handler about to take the sentinel has sent every event of the run: a queue that lost
\* an event never gets the sentinel, so the loss is not reported as an end.
SentinelMeansComplete ==
  \A v \in Viewers :
    stage[v] = "live" /\ queue[v] # <<>> /\ Head(queue[v]) = Sentinel
      => lastSent[v] + 1 >= Len(events)

\* A viewer told that the stream is over got all of the journal it asked for.
ToldComplete(v) == after[v] + Len(received[v]) + 1 >= Len(journal)

\* Whoever connects after the end - the same process, or after a restart - and is told
\* that the stream is over has the whole recorded run (service.py:243-251).
ReplayIsComplete ==
  \A v \in Viewers : stage[v] = "closed" /\ snapshot[v] = journal => ToldComplete(v)

\* A handler that waits for a sentinel that is not in its queue and will not come.
Dropped(v) ==
  /\ stage[v] = "live"
  /\ \/ v \notin subscribers
     \/ finished /\ \A i \in 1..Len(queue[v]) : queue[v][i] # Sentinel

\* Once the run has finished every handler whose queue never overflowed comes to an end.
FollowersAreReleased ==
  \A v \in Viewers :
    (finished /\ stage[v] \in Open /\ ~Dropped(v)) ~> (stage[v] \notin Open)

\* What the abstract stream sees of a handler's stage, and of the run's end.
Image(s) == IF s \in Open THEN "open" ELSE IF s \in {"aborting", "aborted"} THEN "gone" ELSE s
View     == [v \in Viewers |-> Image(stage[v])]
Sealed   == task \in {"over", "killed"}

\* The code's stream is the abstract one, with the journal as its log.
Abstract == INSTANCE EventStream WITH
  log    <- journal,
  sealed <- Sealed,
  view   <- View,
  from   <- after,
  seen   <- received

ImplementsEventStream == Abstract!Spec

-----------------------------------------------------------------------------
(* The inductive invariant behind NoGaps and SentinelMeansComplete *)

\* Everything written is published, a sequence number is a position, and the run's flags
\* agree with each other.
LogInv ==
  /\ events = journal
  /\ \A i \in 1..Len(journal) : journal[i] = i - 1
  /\ task = "running" => sink = journal
  /\ finished <=> task = "over"
  /\ task = "killed" => ~registered

\* What was sent is after+1..lastSent, all of it in the journal.
SentInv(v) ==
  /\ stage[v] = "idle" => queue[v] = <<>> /\ cursor[v] = 1 /\ v \notin subscribers
                          /\ received[v] = <<>>
  /\ stage[v] # "idle" =>
       /\ after[v] <= lastSent[v]
       /\ Len(received[v]) = lastSent[v] - after[v]
       /\ lastSent[v] > after[v] => lastSent[v] < Len(journal)
  /\ \A i \in 1..Len(received[v]) : received[v][i] = after[v] + i
  /\ stage[v] \in {"backlog", "replay"} => cursor[v] <= lastSent[v] + 2
  /\ Len(snapshot[v]) <= Len(journal)
  /\ \A i \in 1..Len(snapshot[v]) : snapshot[v][i] = i - 1

\* The first sequence number a live handler may still be missing in its queue.
Needed(v) == IF stage[v] = "backlog" THEN Len(snapshot[v]) ELSE lastSent[v] + 1

\* A queue holds consecutive events that continue what was sent or will be sent from the
\* snapshot; up to date as long as it is subscribed, and when the sentinel follows.
QueueInv(v) ==
  LET q == queue[v] IN
  /\ \A i \in 1..Len(q) : q[i] = Sentinel => i = Len(q) /\ finished
  /\ \A i \in 1..Len(q) : q[i] # Sentinel => q[i] = q[1] + i - 1 /\ q[i] < Len(journal)
  /\ q # <<>> => q[1] = Sentinel \/ q[1] <= Needed(v)
  /\ v \in subscribers /\ ~finished =>
       IF q = <<>> THEN Len(journal) <= Needed(v) ELSE q[1] + Len(q) = Len(journal)
  /\ q # <<>> /\ q[Len(q)] = Sentinel =>
       IF Len(q) = 1 THEN Len(journal) <= Needed(v) ELSE q[1] + Len(q) - 1 = Len(journal)

\* The process that published is gone only with its task, a file is replayed only after
\* that, and a closed viewer was sent its whole snapshot.
EndInv ==
  /\ ~registered => task \in {"over", "killed"}
  /\ \A v \in Viewers : stage[v] = "replay" => ~registered
  /\ \A v \in Viewers : stage[v] = "closed" => Len(snapshot[v]) <= lastSent[v] + 1

\* Holds in every reachable state, and is preserved by every step.
StreamInv ==
  /\ LogInv
  /\ \A v \in Viewers : SentInv(v)
  /\ \A v \in Viewers : stage[v] \in {"backlog", "live"} => QueueInv(v)
  /\ EndInv

=============================================================================
