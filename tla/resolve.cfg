SPECIFICATION MCResolveSpec
CONSTANTS
  None = None
  Path = {f}
  Content = {c1, c2}
  Torn = {torn}
  ObjId = {o1, o2, o3, o4}
  Modes = {"two-way"}
  Policies = {"ask"}
  RaceFree = TRUE
  MaxOps = 3
  MaxFaults = 1
  Call = {k1}
INVARIANTS DeskTypeOK ResolveInv ResolutionsLeaveABase
PROPERTIES CyclesStayLossless ResolvedPathsSettle
