SPECIFICATION Spec
CONSTANTS
  None = None
  Node <- NodeMC
  Root = "/"
  Parent <- ParentMC
  Name <- NameMC
  Ups <- UpsMC
  Tails <- TailsMC
  Trees <- TreesMC
  Folders <- FoldersMC
  Content = {c1, c2}
  Dir = Dir
  ObjId = {o1, o2, o3, o4, o5, o6}
  RootId = RootId
  MaxOps = 2
  MaxFaults = 0
PROPERTIES EditSurvivesRemoteDelete
