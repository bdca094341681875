\* A caller that gives up on its two answers, and a router.
CONSTANTS
  repl = repl
  repl2 = repl2
  router = router
  Callers = {repl, repl2}
  Routers = {router}
  AnyCallers = {}
  Sessionless = {repl2}
  MaxAsks <- TwoNoneOne
  RequestQueueLen = 1
  ResponseQueueLen = 1
  MaxToolIterations = 1
  MaxProviders = 0
  MaxObservers = 0
  HeapCanFail = FALSE
  Impatient = TRUE
  NoId = NoId
  AnyId = AnyId
SPECIFICATION FairSpec
PROPERTY RouterRequestsServed
CHECK_DEADLOCK FALSE
