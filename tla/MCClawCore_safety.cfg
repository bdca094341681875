\* Two callers; the second request of one can meet the late answer to its first.  The core
\* starts with an observer, and one caller takes any answer.
CONSTANTS
  repl = repl
  repl2 = repl2
  router = router
  Callers = {repl, repl2}
  Routers = {router}
  AnyCallers = {repl2}
  Sessionless = {repl2}
  MaxAsks <- TwoOneNone
  RequestQueueLen = 2
  ResponseQueueLen = 1
  MaxToolIterations = 1
  MaxProviders = 1
  MaxObservers = 1
  HeapCanFail = TRUE
  Impatient = TRUE
  NoId = NoId
  AnyId = AnyId
SPECIFICATION ObservedSpec
INVARIANTS TypeOK CancelledOnlyOnDemand OpenRequestInOnePlace LockHeldWhileReceiving
  NoAnswerOverlooked TurnBeforeReply ReportedAnswerStands
PROPERTY ImplementsService
CHECK_DEADLOCK FALSE
