\* Up to three events, the last line cut anywhere.
CONSTANTS
  Texts <- ShortTexts
  MaxEvents = 3
SPECIFICATION JSpec
INVARIANTS
  TornLineCostsOneEvent
  ReadsWhatWasWritten
CHECK_DEADLOCK FALSE
