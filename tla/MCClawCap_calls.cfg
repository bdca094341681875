SPECIFICATION LiveSpec
CONSTANTS
  g1 = g1
  g2 = g2
  g3 = g3
  a = a
  b = b
  c = c
  Groups = {g1, g2, g3}
  Members <- MCMembers
  Calls = {k1, k2}
  NoGroup = NoGroup
  NoCap = NoCap
  CallbackCanFail = TRUE
INVARIANTS TypeOK MembersComplete ActiveCallsExact NoCallInUnloading StartedIsUp 
PROPERTIES UnloadReturns ImplementsCapService
