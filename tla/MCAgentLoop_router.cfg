\* A message and a tick, and an event that a rule emits, all of them for the agent.  Three
\* requests and a queue of one let the router wait in submit while the worker publishes.
\* The table has room for every event that can wait at once.
CONSTANTS
  msg = msg
  tick = tick
  emitted = emitted
  answer = answer
  TaskEvents = {msg, tick, answer}
  RuleEvents = {emitted}
  EventId <- OwnIds
  Kind <- Kinds
  OwnEvents = {}
  AgentEvents = {msg, tick, emitted}
  Outputs <- Talk
  RequestQueueLen = 1
  NoEventId = NoEventId
  NoEvent = NoEvent
  TableSize = 3
  QueueLen = 1
  MaxStops = 2
SPECIFICATION FairLoopSpec
INVARIANTS TypeOK TableIsExact CancelHonoured OneRouterTask CancelledUnanswered
PROPERTIES EventsMoveOn RequestsMoveOn
CHECK_DEADLOCK FALSE
