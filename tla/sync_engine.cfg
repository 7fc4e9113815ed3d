SPECIFICATION Spec
CONSTANTS
  None = None
  Path = {f}
  Content = {c1, c2, c3}
  Torn = {torn}
  ObjId = {o1, o2, o3, o4}
  Modes = {"two-way", "local-to-cloud", "cloud-to-local"}
  Policies = {"ask", "keep-both", "prefer-local", "prefer-remote", "newest-wins"}
  RaceFree = TRUE
  MaxOps = 3
  MaxFaults = 1
SYMMETRY Symmetry
INVARIANTS TypeOK BaseWasShared LossInv ModeInv ResolutionConverges
PROPERTY NoSilentLoss
