\* Two callers and a router, one request each, and callers whose timeouts never expire.
CONSTANTS
  repl = repl
  repl2 = repl2
  router = router
  Callers = {repl, repl2}
  Routers = {router}
  AnyCallers = {}
  Sessionless = {repl2}
  MaxAsks <- OneEach
  RequestQueueLen = 1
  ResponseQueueLen = 1
  MaxToolIterations = 1
  MaxProviders = 0
  MaxObservers = 1
  HeapCanFail = FALSE
  Impatient = FALSE
  NoId = NoId
  AnyId = AnyId
SPECIFICATION FairSpec
PROPERTY EveryRequestServed
CHECK_DEADLOCK FALSE
