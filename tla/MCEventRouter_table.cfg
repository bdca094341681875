\* Three publishing tasks; the table is as long as the queue, as the assertion asks.
CONSTANTS
  msg = msg
  tick = tick
  alarm = alarm
  TaskEvents = {msg, tick, alarm}
  RuleEvents = {}
  EventId <- ThreeIds
  Kind <- ThreeKinds
  OwnEvents = {}
  NoEventId = NoEventId
  NoEvent = NoEvent
  TableSize = 2
  QueueLen = 2
  MaxStops = 0
SPECIFICATION Spec
INVARIANT QueuedEventsAreTracked
CHECK_DEADLOCK FALSE
