SPECIFICATION Spec
CONSTANTS
  Ids = {x}
  Items <- Given
  Shipped <- AtFirst
  Ops = {"add", "update", "remove", "enable", "disable", "pause", "resume", "trigger",
         "reload"}
  NoEntry = NoEntry
  MaxItems = 1
  Tick = 1
  Epoch = 3
  MaxTime = 5
  MaxCommands = 2
  MaxResets = 1
  PublishCanFail = TRUE
  SaveCanFail = TRUE
INVARIANTS TypeOK NothingEarly NoTimeTwice  FlashAgrees OneRunAtRisk
CHECK_DEADLOCK FALSE
