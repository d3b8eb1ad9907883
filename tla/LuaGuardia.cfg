\* Clients that neither crash nor raise Lua errors, in the three modes; liveness.
SPECIFICATION FairSpec
CONSTANTS
  Sessions = {s1, s2}
  NoSession = NoSession
  Backlog = 1
  Modes = {0, 1, 2}
  MaxCalls = 2
  Crashes = FALSE
  LuaErrors = FALSE
  Eids = {e1, e2}
INVARIANTS TypeOK InSync KeysAgree NoSpuriousAbort NoMutualWait
PROPERTIES SessionsEnd CallsReturn
