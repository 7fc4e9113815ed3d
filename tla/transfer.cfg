SPECIFICATION FairSpec
CONSTANTS
  Byte <- ByteMC
  Files <- FilesMC
  Chunk = 2
  Tag = 1
  MaxIdx = 4
  Threshold = 3
  UploadChunk = 2
  MaxEdits = 1
  MaxFaults = 1
  MaxDamage = 1
  None = None
INVARIANTS TransferTypeOK RestoredIsWhole SealInv
PROPERTIES UntouchedFilesArrive TransfersEnd
CHECK_DEADLOCK FALSE
