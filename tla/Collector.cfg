SPECIFICATION FairSpec
CONSTANTS
  o1 = o1
  o2 = o2
  o3 = o3
  Objects = {o1, o2, o3}
  Main = Main
  UpVals = {u1, u2}
  None = None
  Closed = Closed
  MaxFin = 1
  SweepMax = 1
  KindChoices <- MCKinds
INVARIANT OneList
PROPERTIES MarksSpec GarbageFreed FinalizersCalled EmergencyEnds
