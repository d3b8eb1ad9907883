\* Clients die anywhere, may ask for an unknown mode and send code with errors.
SPECIFICATION FairSpec
CONSTANTS
  Sessions = {s1, s2}
  NoSession = NoSession
  Backlog = 1
  Modes = {0, 1, 2, 3}
  MaxCalls = 2
  Crashes = TRUE
  LuaErrors = TRUE
  Eids = {e1, e2}
CHECK_DEADLOCK FALSE
INVARIANTS ResponseIsOwn OneEnclave KeyedTextStaysOwn NoSpuriousAbort Protocol CallsAccounted
PROPERTIES RemoteCallsSpec RanInOrder ServerReturns
