----------------------------- MODULE AtomicFile -----------------------------
(***************************************************************************)
(* What write_meta promises its readers: the metadata changes in one step  *)
(* from one complete value to the next, and a read returns a value that    *)
(* was current at some moment during the read.  Two writes that overlap    *)
(* may leave the metadata Spoiled, until the next write; a reader that     *)
(* looked before still returns what it saw.                                *)
(***************************************************************************)
CONSTANTS Values, Readers, Nothing, Spoiled

VARIABLES
  value,   \* the metadata, Nothing before the run is created
  seen     \* per reader: what the read in progress will return, Nothing between reads

fileVars == <<value, seen>>

Init ==
  /\ value = Nothing
  /\ seen = [t \in Readers |-> Nothing]

Write(v) ==
  /\ value' = v
  /\ UNCHANGED seen

Look(t) ==
  /\ seen[t] = Nothing
  /\ seen' = [seen EXCEPT ![t] = value]
  /\ UNCHANGED value

Return(t) ==
  /\ seen' = [seen EXCEPT ![t] = Nothing]
  /\ UNCHANGED value

\* The reading process dies.
Reset ==
  /\ seen' = [t \in Readers |-> Nothing]
  /\ UNCHANGED value

Next ==
  \/ \E v \in Values \cup {Spoiled} : Write(v)
  \/ \E t \in Readers : Look(t) \/ Return(t)
  \/ Reset

Spec == Init /\ [][Next]_fileVars
=============================================================================
