SPECIFICATION PromiseSpec
CONSTANTS
  None = None
  Path = {f}
  Content = {c1, c2}
  Torn = {torn}
  ObjId = {o1, o2, o3, o4}
  Modes = {"two-way"}
  Policies = {"ask"}
  RaceFree = TRUE
  MaxOps = 3
  MaxFaults = 0
  Call = {k1}
PROPERTY KeptEditSurvives
