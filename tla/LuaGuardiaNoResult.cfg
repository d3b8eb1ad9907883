\* A Lua error in the requested code: what the client takes for its result.
SPECIFICATION Spec
CONSTANTS
  Sessions = {s1, s2}
  NoSession = NoSession
  Backlog = 1
  Modes = {0, 1, 2}
  MaxCalls = 2
  Crashes = FALSE
  LuaErrors = TRUE
  Eids = {e1, e2}
SYMMETRY Symmetry
CHECK_DEADLOCK FALSE
INVARIANTS ResultsSentBack
