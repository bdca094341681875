\* Two jobs of one name and two that clash with nobody, in three slots, two at a time.
CONSTANTS
  blink = blink
  fade = fade
  beep = beep
  chime = chime
  shell = shell
  Jobs = {blink, fade, beep, chime}
  Name <- LedNames
  Exclusive <- NoLabels
  NoLabel = NoLabel
  Replace = {fade}
  Consoles = {}
  Call <- EachCall
  NoJob = NoJob
  MaxJobs = 3
  MaxConcurrent = 2
  HeapCanFail = TRUE
SYMMETRY Bystanders
SPECIFICATION Spec
INVARIANTS TypeOK OneOfAKind RunningCountExact LiveJobIsListed
PROPERTY ImplementsJobService
CHECK_DEADLOCK FALSE
