SPECIFICATION JournalSpec
CONSTANTS
  Key = {muEntry, muExit}
  MaxSeq = 3
  MaxCrashes = 3
CHECK_DEADLOCK FALSE
INVARIANTS
  NeverResubmitted
  FreshIsNew
