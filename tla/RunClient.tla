----------------------------- MODULE RunClient -----------------------------
(***************************************************************************)
(* The browser's view of a run (frontend RunDetail.tsx, useRunStream.ts):  *)
(* it polls the summary until it is final, fetches the recorded events     *)
(* once, follows the stream while the summary says that the run is live,   *)
(* and asks for the summary once more whenever the view becomes closed.    *)
(*                                                                         *)
(* The stream is EventStream, what LiveStream implements, with the socket  *)
(* as its only viewer.  The three answers travel on connections of their   *)
(* own, and may overtake each other; the two handlers look at the run      *)
(* twice (api/routes/runs.py).                                             *)
(***************************************************************************)
EXTENDS Integers, Sequences, FiniteSets

CONSTANTS MaxEvents,   \* bound on the events of a run
          MaxFaults    \* bound on the requests that fail

ASSUME RunClientAssumption == MaxEvents \in Nat /\ MaxFaults \in Nat

VARIABLES
  log, sealed, view, from, seen,   \* EventStream
  recorded,    \* the final metadata is written
  registered,  \* the registry has an entry for the run, live or finished
  page,        \* get_events: where it is, and what it has read
  poll,        \* get_run, likewise, and whether it is the refetch on close
  received,    \* how many events of `seen` the client's onmessage has had
  socket,      \* the client's: "none", "connecting", "open", "over", "cancelled"
  after,       \* the ?after= it is opened with
  events,      \* what is shown
  last,        \* lastSequence
  connection,  \* "loading", "live", "closed", "error"
  data,        \* the summary on the screen: known, final, live (isLive)
  failed,      \* isError: "Run not found" in its place, the last poll having failed
  settled,
  faults,
  torn         \* history: the page was read before the run ended, and its `live` after

server == <<log, sealed, view, from, seen, recorded, registered>>
shown  == <<events, last>>
hook   == <<received, socket, after, shown, connection, data, failed, settled>>
vars   == <<server, page, poll, hook, faults, torn>>

Viewers == {"socket"}
Stream  == INSTANCE EventStream WITH AfterValues <- -1..(MaxEvents - 1)

Init ==
  /\ Stream!Init
  /\ recorded = FALSE /\ registered = TRUE
  /\ page = [at |-> "asked", events |-> {}, live |-> TRUE]
  /\ poll = [at |-> "asked", final |-> FALSE, live |-> TRUE, refetch |-> FALSE]
  /\ received = 0 /\ socket = "none" /\ after = -1
  /\ events = {} /\ last = -1
  /\ connection = "loading"
  /\ data = [known |-> FALSE, final |-> FALSE, live |-> FALSE]
  /\ failed = FALSE /\ settled = FALSE
  /\ faults = 0 /\ torn = FALSE

-----------------------------------------------------------------------------
(* The run *)

Emit ==
  /\ ~recorded /\ Len(log) < MaxEvents
  /\ Stream!Record
  /\ UNCHANGED <<recorded, registered, page, poll, hook, faults, torn>>

\* write_meta, which may fail, and then finish, which leaves the entry in the registry.
RecordRun ==
  /\ ~sealed /\ ~recorded
  /\ recorded' = TRUE
  /\ UNCHANGED <<log, sealed, view, from, seen, registered, page, poll, hook, faults, torn>>

FinishRun ==
  /\ Stream!Seal
  /\ UNCHANGED <<recorded, registered, page, poll, hook, faults, torn>>

\* The process dies, in the run or after it, and is started again; requests on their way are
\* lost.
Crash ==
  /\ registered /\ registered' = FALSE
  /\ Stream!Die
  /\ page' = IF page.at = "done" THEN page ELSE [page EXCEPT !.at = "lost"]
  /\ poll' = IF poll.at = "idle" THEN poll ELSE [poll EXCEPT !.at = "lost"]
  /\ UNCHANGED <<recorded, hook, faults, torn>>

\* stream_run accepts the socket.
Connect ==
  /\ socket = "connecting"
  /\ Stream!Open("socket") /\ from' = [v \in Viewers |-> after]
  /\ UNCHANGED <<recorded, registered, page, poll, hook, faults, torn>>

\* The stream goes on, ends or breaks; a handler whose queue overflowed does nothing more.
Serve ==
  /\ \E v \in Viewers : Stream!Receive(v) \/ Stream!Close(v) \/ Stream!Leave(v)
  /\ UNCHANGED <<recorded, registered, page, poll, hook, faults, torn>>

-----------------------------------------------------------------------------
(* get_events and the backfill *)

ReadPage ==
  /\ page.at = "asked"
  /\ page' = [page EXCEPT !.at = "read", !.events = {log[i] : i \in DOMAIN log}]
  /\ UNCHANGED <<server, poll, hook, faults, torn>>

AskPageLive ==
  /\ page.at = "read"
  /\ page' = [page EXCEPT !.at = "answered", !.live = ~sealed]
  /\ torn' = (sealed /\ Cardinality(page.events) < Len(log))
  /\ UNCHANGED <<server, poll, hook, faults>>

\* Fault: what arrives takes the place of what is shown.
FaultyAppendEvents(incoming) ==
  /\ events' = incoming
  /\ last' = IF incoming = {} THEN last ELSE CHOOSE e \in incoming : \A f \in incoming : f <= e

\* append: what was seen already is dropped, the rest is sorted in.
AppendEvents(incoming) ==
  LET fresh == incoming \ events
  IN  /\ events' = events \cup fresh
      /\ last' = IF fresh = {} THEN last
                 ELSE CHOOSE e \in fresh \cup {last} : \A f \in fresh \cup {last} : f <= e

\* The effect of RunDetail when the view becomes closed: the summary is asked for at once,
\* settled or not.  A poll under way is dropped for it if there is a summary already.
RefetchOnClose ==
  IF connection' = "closed" /\ connection # "closed" /\ (poll.at = "idle" \/ data.known)
  THEN poll' = [poll EXCEPT !.at = "asked", !.refetch = TRUE]
  ELSE UNCHANGED poll

\* Fault: the events are left to the socket as long as there is one.
FaultyTakePage ==
  /\ page.at = "answered"
  /\ page' = [page EXCEPT !.at = "done"]
  /\ IF data.live THEN UNCHANGED shown ELSE AppendEvents(page.events)
  /\ connection' = IF page.live THEN connection ELSE "closed"
  /\ RefetchOnClose
  /\ UNCHANGED <<server, received, socket, after, data, failed, settled, faults, torn>>

TakePage ==
  /\ page.at = "answered"
  /\ page' = [page EXCEPT !.at = "done"]
  /\ AppendEvents(page.events)
  /\ connection' = IF page.live THEN connection ELSE "closed"
  /\ RefetchOnClose
  /\ UNCHANGED <<server, received, socket, after, data, failed, settled, faults, torn>>

\* The request fails, or was lost in a crash.
LosePage ==
  /\ page.at # "done"
  /\ IF page.at = "lost" THEN UNCHANGED faults ELSE faults < MaxFaults /\ faults' = faults + 1
  /\ page' = [page EXCEPT !.at = "done"]
  /\ connection' = "error"
  /\ UNCHANGED <<server, poll, received, socket, after, shown, data, failed, settled, torn>>

-----------------------------------------------------------------------------
(* get_run and the poll *)

\* Fault: what the store says is passed on as it is.
FaultyReadPoll ==
  /\ poll.at = "asked"
  /\ poll' = [poll EXCEPT !.at = "read", !.final = recorded]
  /\ UNCHANGED <<server, page, hook, faults, torn>>

\* RunService.get: "running" is corrected to a failure only when the registry has no entry.
ReadPoll ==
  /\ poll.at = "asked"
  /\ poll' = [poll EXCEPT !.at = "read", !.final = recorded \/ ~registered]
  /\ UNCHANGED <<server, page, hook, faults, torn>>

AskPollLive ==
  /\ poll.at = "read"
  /\ poll' = [poll EXCEPT !.at = "answered", !.live = ~sealed]
  /\ UNCHANGED <<server, page, hook, faults, torn>>

\* The effect of useRunStream: a socket is opened when the run turns out to be live, from the
\* last event that is shown, and closed, whatever is still on its way, when it no longer is.
FollowLive(live) ==
  CASE live /\ ~data.live -> socket' = "connecting" /\ after' = last
    [] ~live /\ socket \in {"connecting", "open"} -> socket' = "cancelled" /\ UNCHANGED after
    [] OTHER -> UNCHANGED <<socket, after>>

\* Fault: a run is settled when its metadata is.
FaultySettle == settled' = (settled \/ poll.final)

Settle == settled' = (settled \/ (poll.final /\ ~poll.live))

TakePoll ==
  /\ poll.at = "answered"
  /\ poll' = [poll EXCEPT !.at = "idle"]
  /\ data' = [known |-> TRUE, final |-> poll.final, live |-> poll.live]
  /\ failed' = FALSE
  /\ FollowLive(poll.live)
  /\ Settle
  /\ UNCHANGED <<server, page, received, shown, connection, faults, torn>>

\* A poll that fails, or was lost in a crash, is repeated (main.tsx, retry), and given up
\* when that fails too; the summary of the last one stays in `data`.
LosePoll ==
  /\ poll.at # "idle"
  /\ IF poll.at = "lost" THEN UNCHANGED faults ELSE faults < MaxFaults /\ faults' = faults + 1
  /\ \/ poll' = [poll EXCEPT !.at = "asked"] /\ UNCHANGED failed
     \/ poll' = [poll EXCEPT !.at = "idle"] /\ failed' = TRUE
  /\ UNCHANGED <<server, page, received, socket, after, shown, connection, data, settled, torn>>

\* The interval is over.  An answer starts it anew, so it is not over before Settle is seen.
PollAgain ==
  /\ poll.at = "idle" /\ ~settled
  /\ poll' = [poll EXCEPT !.at = "asked", !.refetch = FALSE]
  /\ UNCHANGED <<server, page, hook, faults, torn>>

-----------------------------------------------------------------------------
(* The socket *)

OnOpen ==
  /\ socket = "connecting" /\ view["socket"] # "idle"
  /\ socket' = "open" /\ connection' = "live"
  /\ UNCHANGED <<server, page, poll, received, after, shown, data, failed, settled, faults, torn>>

OnMessage ==
  /\ socket = "open" /\ received < Len(seen["socket"])
  /\ received' = received + 1
  /\ AppendEvents({seen["socket"][received + 1]})
  /\ UNCHANGED <<server, page, poll, socket, after, connection, data, failed, settled, faults, torn>>

\* stream_closed arrives, or the connection breaks, in an error or not.
OnClose ==
  /\ \/ /\ socket = "open" /\ received = Len(seen["socket"])
        /\ \/ view["socket"] = "closed" /\ connection' = "closed"
           \/ view["socket"] = "gone" /\ connection' \in {"error", "closed"}
     \/ /\ socket = "connecting" /\ view["socket"] \in {"idle", "gone"}
        /\ connection' = "error"
  /\ socket' = "over"
  /\ RefetchOnClose
  /\ UNCHANGED <<server, page, received, after, shown, data, failed, settled, faults, torn>>

PollStep == ReadPoll \/ AskPollLive \/ TakePoll \/ PollAgain

Next ==
  \/ Emit \/ RecordRun \/ FinishRun \/ Crash \/ Connect \/ Serve
  \/ ReadPage \/ AskPageLive \/ TakePage \/ LosePage
  \/ PollStep \/ LosePoll
  \/ OnOpen \/ OnMessage \/ OnClose

Spec == Init /\ [][Next]_vars

\* The timer of the poll fires, a request is answered or fails, and few fail (MaxFaults).
FairSpec == Spec /\ WF_vars(PollStep \/ LosePoll)

-----------------------------------------------------------------------------
(* Properties *)

Recorded == {log[i] : i \in DOMAIN log}

\* Every variable has its type; those of the stream are as in EventStream.
TypeOK ==
  /\ recorded \in BOOLEAN /\ registered \in BOOLEAN
  /\ page \in [at : {"asked", "read", "answered", "lost", "done"},
              events : SUBSET (0..(MaxEvents - 1)), live : BOOLEAN]
  /\ poll \in [at : {"asked", "read", "answered", "lost", "idle"},
              final : BOOLEAN, live : BOOLEAN, refetch : BOOLEAN]
  /\ received \in 0..MaxEvents
  /\ socket \in {"none", "connecting", "open", "over", "cancelled"}
  /\ events \subseteq Recorded
  /\ after \in -1..(MaxEvents - 1) /\ last \in -1..(MaxEvents - 1)
  /\ connection \in {"loading", "live", "closed", "error"}
  /\ data \in [known : BOOLEAN, final : BOOLEAN, live : BOOLEAN]
  /\ failed \in BOOLEAN /\ settled \in BOOLEAN /\ torn \in BOOLEAN
  /\ faults \in 0..MaxFaults

\* The page and the socket fit together without a gap, in whichever order they arrive
\* (useRunStream.ts:14-23).
ViewHasNoGaps == events = 0..last

\* The server has ended the stream before its last event (LiveStream's early return).
CutShort == view["socket"] = "closed" /\ from["socket"] + Len(seen["socket"]) + 1 < Len(log)

\* A view that is labelled finished shows every event, unless the stream broke or was cut
\* short, or the run ended between the two looks get_events takes (runs.py:136-139).
FinishedIsComplete ==
  connection = "closed" =>
    \/ sealed /\ events = Recorded
    \/ torn \/ CutShort \/ view["socket"] = "gone"

\* The summary that settled the view was final, and no later answer - of the refetch on
\* close, or from a server that was started again - makes the run live or running once more
\* (RunDetail.tsx:44-52).
SettledIsFinal == settled => sealed /\ data.known /\ data.final /\ ~data.live

\* The polls have stopped with the final summary on the screen, or with "Run not found" in
\* its place if the refetch on close was the last one and failed (RunDetail.tsx:50-56).
AtRest == settled /\ poll.at = "idle" /\ data.final /\ ~data.live /\ (failed => poll.refetch)

\* A run whose outcome could not be written stays "running" for as long as the process that
\* ran it lives (runs/service.py:219-222): the view goes on polling.
LeftRunning == registered /\ ~recorded

\* Once the run is over, the view comes to rest - not with a summary that was read before the
\* outcome was written, or while the run was live (RunDetail.tsx:25-28, 44-46).
RunSettles == <>sealed => <>[]AtRest \/ <>[]LeftRunning
=============================================================================
