\* A job that replaces another and a call that may wait for either, in a table with one
\* slot: both may wait for the same job, and the slot is used again.
CONSTANTS
  blink = blink
  fade = fade
  beep = beep
  chime = chime
  shell = shell
  Jobs = {blink, fade}
  Name <- NoLabels
  Exclusive <- LedGroups
  NoLabel = NoLabel
  Replace = {fade}
  Consoles = {shell}
  Call <- EachCall
  NoJob = NoJob
  MaxJobs = 1
  MaxConcurrent = 2
  HeapCanFail = TRUE
SPECIFICATION FairSpec
INVARIANTS StopConfirmedMeansGone StopHitsItsJob
PROPERTY EveryCallReturns
CHECK_DEADLOCK FALSE
