SPECIFICATION Spec
CONSTANTS
  Ids = {x}
  Items <- Given
  Shipped <- AtFirst
  Ops = {"add", "remove"}
  NoEntry = NoEntry
  MaxItems = 1
  Tick = 1
  Epoch = 3
  MaxTime = 5
  MaxCommands = 2
  MaxResets = 1
  PublishCanFail = FALSE
  SaveCanFail = FALSE
INVARIANT BootSucceeds
CHECK_DEADLOCK FALSE
