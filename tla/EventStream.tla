---------------------------- MODULE EventStream ----------------------------
(***************************************************************************)
(* What the journal promises to whoever follows a run: an append-only log  *)
(* of events that is sealed once, and viewers that each receive the log in *)
(* order, without a gap and without a repetition, from the event after the *)
(* one they asked for.  LiveStream is the code's way of keeping it.        *)
(***************************************************************************)
EXTENDS Integers, Sequences

CONSTANTS Viewers,      \* clients that may follow the run
          AfterValues   \* the ?after= values they may ask for

VARIABLES log,      \* the recorded events; an event is its sequence number
          sealed,   \* no event will be added
          view,     \* "idle", "open", "closed" (told that the run is over), "gone"
          from,     \* the ?after= value of the viewer
          seen      \* what the viewer has received

vars == <<log, sealed, view, from, seen>>

Init ==
  /\ log = <<>>
  /\ sealed = FALSE
  /\ view = [v \in Viewers |-> "idle"]
  /\ from = [v \in Viewers |-> -1]
  /\ seen = [v \in Viewers |-> <<>>]

Record ==
  /\ ~sealed
  /\ log' = Append(log, Len(log))
  /\ UNCHANGED <<sealed, view, from, seen>>

Seal ==
  /\ ~sealed
  /\ sealed' = TRUE
  /\ UNCHANGED <<log, view, from, seen>>

\* The publishing process dies: the log ends where it is, open viewers are cut off.
Die ==
  /\ sealed' = TRUE
  /\ view' = [v \in Viewers |-> IF view[v] = "open" THEN "gone" ELSE view[v]]
  /\ UNCHANGED <<log, from, seen>>

\* A viewer with nothing left to receive of a sealed log is closed on arrival.
Open(v) ==
  /\ view[v] = "idle"
  /\ \E a \in AfterValues :
       /\ from' = [from EXCEPT ![v] = a]
       /\ view' = [view EXCEPT ![v] =
                     IF sealed /\ a + 1 >= Len(log) THEN "closed" ELSE "open"]
  /\ UNCHANGED <<log, sealed, seen>>

Receive(v) ==
  LET next == from[v] + Len(seen[v]) + 2 IN
  /\ view[v] = "open"
  /\ next <= Len(log)
  /\ seen' = [seen EXCEPT ![v] = Append(@, log[next])]
  /\ UNCHANGED <<log, sealed, view, from>>

\* The end of the stream is announced only once the log is sealed.
Close(v) ==
  /\ view[v] = "open"
  /\ sealed
  /\ view' = [view EXCEPT ![v] = "closed"]
  /\ UNCHANGED <<log, sealed, from, seen>>

Leave(v) ==
  /\ view[v] = "open"
  /\ view' = [view EXCEPT ![v] = "gone"]
  /\ UNCHANGED <<log, sealed, from, seen>>

Next ==
  \/ Record
  \/ Seal
  \/ Die
  \/ \E v \in Viewers : Open(v) \/ Receive(v) \/ Close(v) \/ Leave(v)

Spec == Init /\ [][Next]_vars
=============================================================================
