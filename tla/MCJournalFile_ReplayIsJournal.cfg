\* Expected violation: a text with a separator.
CONSTANTS
  Texts <- ShortTexts
  MaxEvents = 2
SPECIFICATION JSpec
INVARIANTS
  ReplayIsJournal
CHECK_DEADLOCK FALSE
