---- MODULE MCJournalFile ----
(* Instances of JournalFile: texts of at most two characters of each kind. *)
EXTENDS JournalFile

ShortTexts == BoundedSeq({"plain", "wide", "separator"}, 2)
====
