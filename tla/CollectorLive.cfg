SPECIFICATION Spec
CONSTANTS
  o1 = o1
  o2 = o2
  o3 = o3
  Objects = {o1, o2, o3}
  Main = Main
  UpVals = {u1}
  None = None
  Closed = Closed
  MaxFin = 2
  SweepMax = 1
  KindChoices <- TwoFinalizers
INVARIANT ValuesLive
