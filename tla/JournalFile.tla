---------------------------- MODULE JournalFile ----------------------------
(***************************************************************************)
(* journal.jsonl of one run: JournalStore.append writes a line per event,  *)
(* read_events reads them back (journal/store.py).                         *)
(*                                                                         *)
(* The file is a sequence of bytes, as far as reading it back tells them   *)
(* apart: the brace that opens an event, the one that closes it, the       *)
(* newline, a character of one byte, and the first and the last byte of a  *)
(* character that UTF-8 gives several.  Of these, str.splitlines takes     *)
(* U+2028, U+2029 and U+0085 for the end of a line, and JSON leaves them   *)
(* unescaped: they are the "separator".                                    *)
(*                                                                         *)
(* The names are those of a module that is extended together with          *)
(* MetaFile, the other file of a run.                                      *)
(***************************************************************************)
EXTENDS Integers, Sequences, FiniteSets, SequencesExt

CONSTANTS
  Texts,       \* texts an event may carry: sequences of "plain", "wide" and "separator"
  MaxEvents    \* bound on the events of a run

ASSUME JournalFileAssumption ==
  /\ Texts \subseteq Seq({"plain", "wide", "separator"})
  /\ MaxEvents \in Nat

VARIABLES
  events,    \* the events handed to append
  journal,   \* the bytes on disk
  crashed    \* the process died, or an append failed: no event follows

jvars == <<events, journal, crashed>>

Byte(b) == [byte |-> b]
\* The opening brace stands for it and the sequence number, which every event has.
Opening(e) == [byte |-> "open", sequence |-> e.sequence]

\* UTF-8.
Encoded(c) == IF c = "plain" THEN <<Byte("plain")>> ELSE <<Byte("lead"), Byte(c)>>

\* model_dump_json.
Line(e) ==
  <<Opening(e)>> \o FlattenSeq([i \in DOMAIN e.text |-> Encoded(e.text[i])]) \o <<Byte("close")>>

\* Fault: the newline is left to the next append, which forgets it.
FaultyStored(e) == Line(e)

\* What append writes.
Stored(e) == Line(e) \o <<Byte("newline")>>

JInit ==
  /\ events = <<>>
  /\ journal = <<>>
  /\ crashed = FALSE

\* JournalSink numbers the events.
NextEvent(text) == [sequence |-> Len(events), text |-> text]

AppendEvent(text) ==
  /\ ~crashed /\ Len(events) < MaxEvents
  /\ events' = Append(events, NextEvent(text))
  /\ journal' = journal \o Stored(NextEvent(text))
  /\ UNCHANGED crashed

\* The process dies, or the disk is full, in the middle of a line.
AppendTorn(text) ==
  /\ ~crashed /\ Len(events) < MaxEvents
  /\ events' = Append(events, NextEvent(text))
  /\ \E n \in 0..Len(Stored(NextEvent(text))) - 1 :
       journal' = journal \o SubSeq(Stored(NextEvent(text)), 1, n)
  /\ crashed' = TRUE

JNext == \E text \in Texts : AppendEvent(text) \/ AppendTorn(text)

JSpec == JInit /\ [][JNext]_jvars

-----------------------------------------------------------------------------
(* read_events *)

\* read_text decodes strictly: the whole read raises where a character is cut in two.
Decodes == journal = <<>> \/ Last(journal).byte # "lead"

EndsLine(b) == b.byte \in {"newline", "separator"}

\* splitlines: the longest stretches without an end of line.
Lines ==
  {SubSeq(journal, ij[1], ij[2]) :
    ij \in {ij \in (DOMAIN journal) \X (DOMAIN journal) :
              /\ ij[1] <= ij[2]
              /\ \A k \in ij[1]..ij[2] : ~EndsLine(journal[k])
              /\ ij[1] = 1 \/ EndsLine(journal[ij[1] - 1])
              /\ ij[2] = Len(journal) \/ EndsLine(journal[ij[2] + 1])}}

\* model_validate_json: the line is one event.
IsEvent(line) ==
  /\ line[1].byte = "open"
  /\ line[Len(line)].byte = "close"
  /\ \A k \in 2..Len(line) - 1 : line[k].byte \notin {"open", "close"}

\* Fault: the event with the given sequence number comes again.
FaultyReadEvents(after) ==
  {line \in {l \in Lines : IsEvent(l)} : line[1].sequence >= after}

\* Lines that are no event are passed over.  The set stands for the list: an event shows
\* its sequence number.
ReadEvents(after) ==
  {line \in {l \in Lines : IsEvent(l)} : line[1].sequence > after}

-----------------------------------------------------------------------------
(* Properties *)

\* Events, bytes and the flag have their types; the numbers count up from 0 (sink.py:24-26).
JTypeOK ==
  /\ events \in Seq([sequence : Nat, text : Texts])
  /\ \A k \in DOMAIN events : events[k].sequence = k - 1
  /\ journal \in Seq([byte : {"plain", "lead", "wide", "separator", "close", "newline"}]
                    \cup [byte : {"open"}, sequence : Nat])
  /\ crashed \in BOOLEAN

Written(after) == {Line(events[k]) : k \in {j \in DOMAIN events : events[j].sequence > after}}
TextsAreIn(S) == \A k \in DOMAIN events : Range(events[k].text) \subseteq S

\* Every event is read back, but for the one whose line the crash cut short.
AllButTheTornLine ==
  /\ Decodes
  /\ \/ ReadEvents(-1) = Written(-1)
     \/ crashed /\ ReadEvents(-1) = Written(-1) \ {Line(Last(events))}

\* A crash in the middle of a line costs that one event and none before it, where the
\* texts are ASCII (store.py:11-14, 113-118, 151-154).
TornLineCostsOneEvent == TextsAreIn({"plain"}) => AllButTheTornLine

\* What is read back was written, and is what comes after the sequence number asked for,
\* whatever the texts hold (store.py:137-158).
ReadsWhatWasWritten ==
  /\ JTypeOK
  /\ \A after \in -1..Len(events) : Decodes => ReadEvents(after) \subseteq Written(after)

\* "Watching and replaying the same thing" (README.md:113-116): without a crash every event
\* is read back.
ReplayIsJournal == ~crashed => ReadEvents(-1) = Written(-1)
=============================================================================
