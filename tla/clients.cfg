SPECIFICATION FairSpec
CONSTANTS
  Pair = {p}
  AutoSync = AutoSync
  Button = {b}
  MaxCommands = 3
  MaxChanges = 1
  MaxFaults = 1
  None = None
INVARIANTS ClientsTypeOK RowHasKey
PROPERTIES GuardIsALock CaughtUp StoppedPairsGoQuiet
CHECK_DEADLOCK FALSE
