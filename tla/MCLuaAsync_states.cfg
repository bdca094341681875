\* One script that is over before its submitter has marked it as running.
CONSTANTS
  blink = blink
  fade = fade
  beep = beep
  chime = chime
  shell = shell
  Jobs = {blink}
  Name <- NoLabels
  Exclusive <- LedGroups
  NoLabel = NoLabel
  Replace = {}
  Consoles = {}
  Call <- EachCall
  NoJob = NoJob
  MaxJobs = 1
  MaxConcurrent = 2
  HeapCanFail = FALSE
SPECIFICATION FairSpec
PROPERTY TerminalIsFinal
CHECK_DEADLOCK FALSE
