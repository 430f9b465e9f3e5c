------------------------------ MODULE MetaFile ------------------------------
(***************************************************************************)
(* meta.json of one run: JournalStore.write_meta writes the metadata to    *)
(* meta.partial and renames that over meta.json, read_meta reads it         *)
(* (journal/store.py).  A name is bound to an inode; whoever opened a file *)
(* keeps its inode, whatever the name is bound to by then.                 *)
(*                                                                         *)
(* All writers of a run share the one temporary name.  RunService has      *)
(* several: the task of the run and every thread that reconciles it.  What *)
(* two of them do at the same time may end up in meta.json half-written;   *)
(* the history variable `overlapped` tells those files from the others.    *)
(***************************************************************************)
EXTENDS Naturals, FiniteSets

CONSTANTS
  Values,      \* the metadata that is written
  Writers, Readers,
  Nothing,     \* a name that is not bound, a file not open, no value
  Inodes,      \* bound on the files that exist at a time
  MaxCrashes   \* bound on the crashes of the process

ASSUME MetaFileAssumption ==
  /\ Nothing \notin Values \cup Inodes
  /\ {"empty", "torn", "spoiled"} \cap (Values \cup {Nothing}) = {}
  /\ MaxCrashes \in Nat

VARIABLES
  meta,      \* inode of meta.json
  partial,   \* inode of meta.partial
  content,   \* of every inode: a value, "empty", or "torn" between two values
  stage,     \* per writer: "idle", "opened", "written"
  input,     \* per writer: the value it writes
  file,      \* per writer: the inode it has open
  handle,    \* per reader: the inode it has open
  crashes,
  overlapped \* history: the files that were opened while another write was under way

fs      == <<meta, partial, content>>
writers == <<stage, input, file>>
vars    == <<meta, partial, content, stage, input, file, handle, crashes, overlapped>>

Init ==
  /\ meta = Nothing /\ partial = Nothing
  /\ content = [i \in Inodes |-> "empty"]
  /\ stage = [w \in Writers |-> "idle"]
  /\ input = [w \in Writers |-> Nothing]
  /\ file = [w \in Writers |-> Nothing]
  /\ handle = [t \in Readers |-> Nothing]
  /\ crashes = 0
  /\ overlapped = {}

\* An inode that no name is bound to and nobody has open.
Free(i) ==
  /\ i # meta /\ i # partial
  /\ \A w \in Writers : file[w] # i
  /\ \A t \in Readers : handle[t] # i

\* Inode i is opened for a write that is the only one under way, or not.
NoteOverlap(w, i) ==
  overlapped' = IF \E x \in Writers \ {w} : stage[x] # "idle"
                THEN overlapped \cup {i} ELSE overlapped \ {i}

\* Fault: an existing meta.json is opened itself.
FaultyOpen(w, v) ==
  /\ stage[w] = "idle"
  /\ \E i \in Inodes :
       /\ IF meta = Nothing THEN Free(i) ELSE i = meta
       /\ partial' = i
       /\ content' = [content EXCEPT ![i] = "empty"]
       /\ file' = [file EXCEPT ![w] = i]
       /\ NoteOverlap(w, i)
  /\ stage' = [stage EXCEPT ![w] = "opened"]
  /\ input' = [input EXCEPT ![w] = v]
  /\ UNCHANGED <<meta, handle, crashes>>

\* write_text opens the file for writing: an existing one is truncated.
Open(w, v) ==
  /\ stage[w] = "idle"
  /\ \E i \in Inodes :
       /\ IF partial = Nothing THEN Free(i) ELSE i = partial
       /\ partial' = i
       /\ content' = [content EXCEPT ![i] = "empty"]
       /\ file' = [file EXCEPT ![w] = i]
       /\ NoteOverlap(w, i)
  /\ stage' = [stage EXCEPT ![w] = "opened"]
  /\ input' = [input EXCEPT ![w] = v]
  /\ UNCHANGED <<meta, handle, crashes>>

\* The text goes to the start of the file.  A longer text that another writer put there
\* keeps its tail.
Write(w) ==
  /\ stage[w] = "opened"
  /\ \E c \in {input[w]} \cup (IF content[file[w]] \in {"empty", input[w]} THEN {} ELSE {"torn"}) :
       content' = [content EXCEPT ![file[w]] = c]
  /\ stage' = [stage EXCEPT ![w] = "written"]
  /\ UNCHANGED <<meta, partial, input, file, handle, crashes, overlapped>>

\* Fault: the file is renamed before the text is in it.
FaultyRename(w) ==
  /\ stage[w] = "opened"
  /\ meta' = partial
  /\ partial' = Nothing
  /\ stage' = [stage EXCEPT ![w] = "idle"]
  /\ file' = [file EXCEPT ![w] = Nothing]
  /\ UNCHANGED <<content, input, handle, crashes, overlapped>>

\* replace: the temporary file becomes meta.json.  When another writer has renamed it
\* already, replace raises FileNotFoundError and the write is given up.
Rename(w) ==
  /\ stage[w] = "written"
  /\ IF partial = Nothing
     THEN UNCHANGED <<meta, partial>>
     ELSE meta' = partial /\ partial' = Nothing
  /\ stage' = [stage EXCEPT ![w] = "idle"]
  /\ input' = [input EXCEPT ![w] = Nothing]
  /\ file' = [file EXCEPT ![w] = Nothing]
  /\ UNCHANGED <<content, handle, crashes, overlapped>>

\* The disk is full, or the like: the temporary file stays behind, as written so far.
WriteError(w) ==
  /\ stage[w] = "opened"
  /\ \E c \in {"empty", "torn"} : content' = [content EXCEPT ![file[w]] = c]
  /\ stage' = [stage EXCEPT ![w] = "idle"]
  /\ input' = [input EXCEPT ![w] = Nothing]
  /\ file' = [file EXCEPT ![w] = Nothing]
  /\ UNCHANGED <<meta, partial, handle, crashes, overlapped>>

\* read_meta opens meta.json, if it is there.
OpenToRead(t) ==
  /\ handle[t] = Nothing
  /\ meta # Nothing
  /\ handle' = [handle EXCEPT ![t] = meta]
  /\ UNCHANGED <<fs, writers, crashes, overlapped>>

Close(t) ==
  /\ handle[t] # Nothing
  /\ handle' = [handle EXCEPT ![t] = Nothing]
  /\ UNCHANGED <<fs, writers, crashes, overlapped>>

\* The process dies and is started again; both files stay.
Crash ==
  /\ crashes < MaxCrashes
  /\ crashes' = crashes + 1
  /\ stage' = [w \in Writers |-> "idle"]
  /\ input' = [w \in Writers |-> Nothing]
  /\ file' = [w \in Writers |-> Nothing]
  /\ handle' = [t \in Readers |-> Nothing]
  /\ UNCHANGED <<fs, overlapped>>

Next ==
  \/ \E w \in Writers :
       (\E v \in Values : Open(w, v)) \/ Write(w) \/ Rename(w) \/ WriteError(w)
  \/ \E t \in Readers : OpenToRead(t) \/ Close(t)
  \/ Crash

Spec == Init /\ [][Next]_vars

-----------------------------------------------------------------------------
(* Properties *)

Bound == Inodes \cup {Nothing}

\* Every variable has its type, and a writer at work has its file open.
TypeOK ==
  /\ meta \in Bound /\ partial \in Bound
  /\ content \in [Inodes -> Values \cup {"empty", "torn"}]
  /\ stage \in [Writers -> {"idle", "opened", "written"}]
  /\ input \in [Writers -> Values \cup {Nothing}]
  /\ file \in [Writers -> Bound]
  /\ handle \in [Readers -> Bound]
  /\ crashes \in 0..MaxCrashes
  /\ overlapped \subseteq Inodes
  /\ \A w \in Writers : stage[w] # "idle" => file[w] # Nothing /\ input[w] # Nothing

\* "A reader must never catch a half-written meta file" (store.py:108): what is in meta.json
\* is complete, and stays as it is for whoever has it open, as no writer has the file of a
\* reader, or of the name, open any more - however many writers there are, and whatever others
\* did before or do meanwhile, unless two writes overlapped on that very file.
MetaIsSettled ==
  \A i \in {meta} \cup {handle[t] : t \in Readers} :
    i # Nothing /\ i \notin overlapped =>
      /\ content[i] \in Values
      /\ \A w \in Writers : file[w] # i

\* The temporary file is never the one a reader has open, or the name is bound to.
PartialIsApart ==
  partial # Nothing => partial # meta /\ \A t \in Readers : handle[t] # partial

\* With it, a writer on whose file no other write has come is the only one under way, has the
\* temporary file open, and what it has written is what it will rename: the inductive invariant.
FileInv ==
  /\ MetaIsSettled
  /\ PartialIsApart
  /\ \A w \in Writers :
       /\ stage[w] = "idle" => file[w] = Nothing
       /\ stage[w] # "idle" /\ partial # Nothing /\ partial \notin overlapped =>
            /\ file[w] = partial
            /\ \A x \in Writers \ {w} : stage[x] = "idle"
            /\ stage[w] = "opened" => content[partial] = "empty"
            /\ stage[w] = "written" => content[partial] = input[w]

\* Any number of writers, whatever crashes: meta.json changes in one step from one metadata to
\* the next, or to what two overlapping writes have left, and a read returns what was there at
\* one moment.
ValueOf(i) ==
  IF i = Nothing THEN Nothing ELSE IF i \in overlapped THEN "spoiled" ELSE content[i]
File == INSTANCE AtomicFile WITH
  value <- ValueOf(meta),
  seen  <- [t \in Readers |-> ValueOf(handle[t])],
  Spoiled <- "spoiled"
ImplementsAtomicFile == File!Spec
=============================================================================
